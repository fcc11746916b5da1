---------------------------- MODULE ImportJobs_proofs ----------------------------
(***************************************************************************)
(* Theorems about ImportJobs, for any games, lists and bounds: every job   *)
(* is queued, under way or lost exactly once, and the receive loop keeps   *)
(* its window.                                                             *)
(***************************************************************************)
EXTENDS ImportJobs, FiniteSetTheorems, TLAPS

(* The requests under way are counted, so there must be finitely many.     *)
Window == IsFiniteSet(InFlight) /\ WindowKept

IInv == TypeOK /\ OneRequestEach /\ Window

--------------------------------------------------------------------------------
(* The jobs of a call are jobs, none of them twice.                        *)
LEMMA ListTypes ==
    ASSUME NEW kind \in Kinds, NEW list \in ListsOf(kind)
    PROVE  /\ list \in Seq(Jobs)
           /\ { list[i] : i \in DOMAIN list } \subseteq JobsOf(kind) \cap Jobs
           /\ \A i, k \in DOMAIN list : list[i] = list[k] => i = k
  <1>1. CASE kind = "stats"
    BY <1>1, JobsAssumption DEF ListsOf, JobsOf, Jobs
  <1>2. CASE kind # "stats"
    <2>1. list = <<kind>> /\ JobsOf(kind) = {kind} /\ kind \in Jobs
      BY <1>2 DEF ListsOf, JobsOf, Jobs, Kinds
    <2>2. DOMAIN list = {1} /\ list[1] = kind
      BY <2>1
    <2>3. list \in Seq(Jobs)
      BY <2>1
    <2>4. QED  BY <2>1, <2>2, <2>3
  <1>3. QED  BY <1>1, <1>2

LEMMA FirstJobsBounds ==
    ASSUME NEW n \in Nat, NEW list \in Seq(Jobs)
    PROVE  /\ FirstJobs(n, list) \in 0 .. 2 /\ FirstJobs(n, list) <= Len(list)
           /\ n <= 3 => n + FirstJobs(n, list) <= 3
  <1>1. Len(list) \in Nat  OBVIOUS
  <1>2. \/ n >= 2 /\ FirstJobs(n, list) = 0
        \/ n < 2 /\ Len(list) < 2 /\ FirstJobs(n, list) = Len(list)
        \/ n < 2 /\ Len(list) >= 2 /\ FirstJobs(n, list) = 2
    BY <1>1 DEF FirstJobs
  <1> HIDE DEF FirstJobs
  <1>3. QED  BY <1>1, <1>2

(* What a call puts at the end of the list is there beside what was.       *)
LEMMA QueuedAfterCall ==
    ASSUME NEW old \in Seq(Jobs), NEW list \in Seq(Jobs)
    PROVE  { (old \o list)[i] : i \in DOMAIN (old \o list) }
             = { old[i] : i \in DOMAIN old } \cup { list[i] : i \in DOMAIN list }
  <1>1. ASSUME NEW i \in DOMAIN (old \o list)
        PROVE  \/ i \in DOMAIN old /\ (old \o list)[i] = old[i]
               \/ \E k \in DOMAIN list : (old \o list)[i] = list[k]
    <2>1. CASE i <= Len(old)  BY <2>1
    <2>2. CASE i > Len(old)
      <3>1. i - Len(old) \in DOMAIN list /\ (old \o list)[i] = list[i - Len(old)]
        BY <2>2
      <3>2. QED  BY <3>1
    <2>3. QED  BY <2>1, <2>2
  <1>2. ASSUME NEW i \in DOMAIN old
        PROVE  i \in DOMAIN (old \o list) /\ (old \o list)[i] = old[i]
    OBVIOUS
  <1>3. ASSUME NEW i \in DOMAIN list
        PROVE  i + Len(old) \in DOMAIN (old \o list) /\ (old \o list)[i + Len(old)] = list[i]
    OBVIOUS
  <1> DEFINE new == old \o list
             All(s) == { s[i] : i \in DOMAIN s }
  <1>4. ASSUME NEW job PROVE job \in All(new) <=> job \in All(old) \cup All(list)
    <2>1. ASSUME job \in All(new) PROVE job \in All(old) \cup All(list)
      BY <1>1, <2>1
    <2>2. ASSUME job \in All(old) PROVE job \in All(new)
      BY <1>2, <2>2
    <2>3. ASSUME job \in All(list) PROVE job \in All(new)
      BY <1>3, <2>3
    <2>4. QED  BY <2>1, <2>2, <2>3
  <1>5. All(new) = All(old) \cup All(list)
    BY <1>4
  <1>6. QED  BY <1>5

--------------------------------------------------------------------------------
(* Type correctness.                                                       *)

LEMMA TypeInit == Init => TypeOK
  BY BoundAssumption DEF Init, TypeOK, Jobs, Kinds

LEMMA TypeStep == TypeOK /\ [Next]_vars => TypeOK'
  <1> SUFFICES ASSUME TypeOK, [Next]_vars PROVE TypeOK'
    OBVIOUS
  <1> USE DEF TypeOK
  <1>1. ASSUME NEW kind \in Kinds, NEW list \in ListsOf(kind), Start(kind, list)
        PROVE  TypeOK'
    <2>1. { list[i] : i \in DOMAIN list } \in SUBSET Jobs /\ list \in Seq(Jobs)
      BY ListTypes
    <2>2. jobs' \in Seq(Jobs) /\ Len(jobs') >= Len(jobs) /\ batch' <= Len(jobs')
      BY <1>1, <2>1 DEF Start
    <2>3. waiting' \in [Kinds -> BOOLEAN] /\ asked' \in [Kinds -> SUBSET Jobs] /\ imports' \in Nat
      BY <1>1, <2>1 DEF Start, Call
    <2>4. QED  BY <1>1, <2>1, <2>2, <2>3 DEF Start
  <1>2. ASSUME NEW kind \in Kinds, NEW list \in ListsOf(kind), StartUnconnected(kind, list)
        PROVE  TypeOK'
    <2>1. { list[i] : i \in DOMAIN list } \in SUBSET Jobs
      BY ListTypes
    <2>2. awaited' \subseteq Jobs /\ answered' \subseteq Jobs /\ lost' \subseteq Jobs /\ imports' \in Nat
      BY <1>2, <2>1 DEF StartUnconnected
    <2>3. QED  BY <1>2, <2>2 DEF StartUnconnected, client, calls
  <1>3. ASSUME NEW kind \in Kinds, Join(kind) \/ Ready(kind) \/ GiveUp(kind)
        PROVE  TypeOK'
    <2>1. /\ waiting' \in [Kinds -> BOOLEAN] /\ asked' \in [Kinds -> SUBSET Jobs]
          /\ imports' \in Nat
      <3>1. CASE Join(kind)  BY <3>1 DEF Join, Call
      <3>2. CASE Ready(kind)  BY <3>2 DEF Ready
      <3>3. CASE GiveUp(kind)  BY <3>3 DEF GiveUp
      <3>4. QED  BY <1>3, <3>1, <3>2, <3>3
    <2>2. UNCHANGED <<client, caches, lost, merged, losses, others>>
      BY <1>3 DEF Join, Ready, GiveUp
    <2>3. QED  BY <2>1, <2>2 DEF client, caches
  <1>4. CASE SendJob
    <2>1. jobs # <<>> /\ Head(jobs) \in Jobs /\ Tail(jobs) \in Seq(Jobs)
            /\ Len(Tail(jobs)) = Len(jobs) - 1
      BY <1>4 DEF SendJob
    <2>2. QED  BY <1>4, <2>1 DEF SendJob, caches, calls
  <1>5. CASE RecvTimeout
    BY <1>5, FirstJobsBounds DEF RecvTimeout, caches, calls
  <1>6. ASSUME Processed, jobs' = jobs
        PROVE  ahead' \in Nat /\ batch' \in 0 .. 2 /\ batch' <= Len(jobs')
    <2>1. ahead' \in Nat  BY <1>6 DEF Processed
    <2>2. QED  BY <1>6, <2>1, FirstJobsBounds DEF Processed
  <1>7. CASE OtherPacket
    BY <1>6, <1>7 DEF OtherPacket, caches, calls
  <1>8. ASSUME NEW answers \in SUBSET InFlight, Answer(answers)
        PROVE  TypeOK'
    <2>1. sent' \in [Jobs -> Nat]
      BY <1>8 DEF Answer, InFlight
    <2>2. awaited' \subseteq Jobs /\ answered' \subseteq Jobs
      BY <1>8 DEF Answer, InFlight
    <2>3. jobs' = jobs /\ Processed
      BY <1>8 DEF Answer
    <2>4. connected' = connected /\ merged' \in Nat
      BY <1>8, BoundAssumption DEF Answer
    <2>5. QED  BY <1>6, <1>8, <2>1, <2>2, <2>3, <2>4 DEF Answer, calls
  <1>9. CASE Lose
    <2>1. Queued \subseteq Jobs /\ InFlight \subseteq Jobs
      BY DEF Queued, InFlight
    <2>2. jobs' = <<>> /\ ahead' = 0 /\ batch' = 0 /\ sent' \in [Jobs -> Nat]
      BY <1>9 DEF Lose, NewClient
    <2>3. lost' \subseteq Jobs /\ losses' \in Nat /\ others' \in Nat /\ connected' \in BOOLEAN
          /\ merged' \in Nat
      <3>1. lost' = lost \cup Queued \cup InFlight
        BY <1>9 DEF Lose
      <3>2. losses' = losses + 1 /\ others' = 0 /\ connected' = FALSE /\ merged' = 0
        BY <1>9 DEF Lose
      <3>3. lost' \subseteq Jobs
        BY <2>1, <3>1
      <3>4. losses' \in Nat  BY <3>2
      <3>5. QED  BY <3>2, <3>3, <3>4
    <2>4. UNCHANGED <<caches, calls, imports>>
      BY <1>9 DEF Lose
    <2>5. QED  BY <2>2, <2>3, <2>4 DEF caches, calls
  <1>10. CASE Connect
    BY <1>10 DEF Connect, caches, calls
  <1>11. CASE UNCHANGED vars
    BY <1>11 DEF vars, client, caches, calls
  <1>12. QED
    BY <1>1, <1>2, <1>3, <1>4, <1>5, <1>7, <1>8, <1>9, <1>10, <1>11 DEF Next

(* Every reachable state has its declared types (TypeOK), for any games,   *)
(* lists and bounds.                                                       *)
THEOREM TypeCorrect == Spec => []TypeOK
  BY TypeInit, TypeStep, PTL DEF Spec

--------------------------------------------------------------------------------
(* One request each.                                                       *)

LEMMA OneInit == Init => OneRequestEach
  <1> SUFFICES ASSUME Init PROVE OneRequestEach
    OBVIOUS
  <1>1. jobs = <<>> /\ DOMAIN jobs = {} /\ lost = {} /\ awaited = {}
    BY DEF Init
  <1>2. \A job \in Jobs : sent[job] = 0
    BY DEF Init
  <1>3. Queued = {} /\ InFlight = {}
    BY <1>1, <1>2 DEF Queued, InFlight
  <1>4. QED  BY <1>1, <1>2, <1>3 DEF OneRequestEach

(* Only the list, the requests and the two sets matter.                    *)
LEMMA OneUnchanged ==
    OneRequestEach /\ UNCHANGED <<jobs, sent, awaited, lost>> => OneRequestEach'
  BY DEF OneRequestEach, Queued, InFlight

(* A call queues what nobody waits for: it is neither queued nor under     *)
(* way nor lost.                                                           *)
LEMMA NewJobsAreFresh ==
    ASSUME OneRequestEach, NEW kind \in Kinds, NEW list \in ListsOf(kind), ~InProgress(kind)
    PROVE  { list[i] : i \in DOMAIN list } \cap (Queued \cup InFlight \cup lost) = {}
  BY ListTypes DEF InProgress, OneRequestEach

LEMMA OneStart ==
    ASSUME TypeOK, OneRequestEach,
           NEW kind \in Kinds, NEW list \in ListsOf(kind), Start(kind, list)
    PROVE  OneRequestEach'
  <1> DEFINE new == { list[i] : i \in DOMAIN list }
  <1>1. /\ list \in Seq(Jobs) /\ jobs \in Seq(Jobs) /\ new \subseteq Jobs
        /\ jobs' = jobs \o list /\ awaited' = awaited \cup new
        /\ sent' = sent /\ lost' = lost
    BY ListTypes DEF Start, TypeOK
  <1>2. new \cap (Queued \cup InFlight \cup lost) = {}
    BY NewJobsAreFresh DEF Start
  <1>3. Queued' = Queued \cup new
    <2>1. Queued' = { (jobs \o list)[i] : i \in DOMAIN (jobs \o list) }
      BY <1>1 DEF Queued
    <2>2. { (jobs \o list)[i] : i \in DOMAIN (jobs \o list) }
            = { jobs[i] : i \in DOMAIN jobs } \cup new
      BY <1>1, QueuedAfterCall
    <2>3. QED  BY <2>1, <2>2 DEF Queued
  <1>4. InFlight' = InFlight
    BY <1>1 DEF InFlight
  <1>5. ASSUME NEW i \in DOMAIN jobs', NEW k \in DOMAIN jobs', jobs'[i] = jobs'[k]
        PROVE  i = k
    <2>1. \A n \in DOMAIN jobs' :
             \/ n <= Len(jobs) /\ n \in DOMAIN jobs /\ jobs'[n] = jobs[n]
             \/ n > Len(jobs) /\ n - Len(jobs) \in DOMAIN list /\ jobs'[n] = list[n - Len(jobs)]
      BY <1>1
    <2>2. \A n \in DOMAIN jobs, m \in DOMAIN list : jobs[n] # list[m]
      BY <1>2 DEF Queued
    <2>3. \A n, m \in DOMAIN jobs : jobs[n] = jobs[m] => n = m
      BY DEF OneRequestEach
    <2>4. \A n, m \in DOMAIN list : list[n] = list[m] => n = m
      BY ListTypes
    <2>5. i \in Int /\ k \in Int /\ Len(jobs) \in Nat
      BY <1>1
    <2>6. QED  BY <1>5, <2>1, <2>2, <2>3, <2>4, <2>5
  <1>6. awaited' = Queued' \cup InFlight' \cup lost'
    BY <1>1, <1>3, <1>4 DEF OneRequestEach
  <1>7. Queued' \cap InFlight' = {} /\ (Queued' \cup InFlight') \cap lost' = {}
    BY <1>1, <1>2, <1>3, <1>4 DEF OneRequestEach
  <1>8. \A job \in Jobs : sent'[job] <= 1
    BY <1>1 DEF OneRequestEach
  <1>9. QED  BY <1>5, <1>6, <1>7, <1>8 DEF OneRequestEach

LEMMA OneStartUnconnected ==
    ASSUME TypeOK, OneRequestEach,
           NEW kind \in Kinds, NEW list \in ListsOf(kind), StartUnconnected(kind, list)
    PROVE  OneRequestEach'
  <1> DEFINE new == { list[i] : i \in DOMAIN list }
  <1>1. /\ jobs' = jobs /\ sent' = sent
        /\ awaited' = awaited \cup new /\ lost' = lost \cup new
    BY DEF StartUnconnected, client
  <1>2. new \cap (Queued \cup InFlight \cup lost) = {}
    BY NewJobsAreFresh DEF StartUnconnected
  <1>3. Queued' = Queued /\ InFlight' = InFlight
    BY <1>1 DEF Queued, InFlight
  <1>4. QED  BY <1>1, <1>2, <1>3 DEF OneRequestEach

(* The head of the list turns into a request.                              *)
LEMMA SendMoves ==
    ASSUME TypeOK, OneRequestEach, SendJob
    PROVE  /\ Head(jobs) \in Jobs /\ Head(jobs) \notin InFlight /\ Head(jobs) \in Queued
           /\ Queued' = Queued \ {Head(jobs)} /\ InFlight' = InFlight \cup {Head(jobs)}
           /\ \A i, k \in DOMAIN jobs' : jobs'[i] = jobs'[k] => i = k
           /\ sent' \in [Jobs -> Nat] /\ \A job \in Jobs : sent'[job] <= 1
  <1> DEFINE job == Head(jobs)
  <1>1. /\ jobs \in Seq(Jobs) /\ jobs # <<>> /\ jobs' = Tail(jobs)
        /\ sent \in [Jobs -> Nat] /\ sent' = [sent EXCEPT ![job] = @ + 1]
    BY DEF SendJob, TypeOK
  <1>2. /\ DOMAIN jobs = 1 .. Len(jobs) /\ Len(jobs) \in Nat /\ Len(jobs) >= 1
        /\ job = jobs[1] /\ job \in Jobs
        /\ DOMAIN jobs' = 1 .. (Len(jobs) - 1)
        /\ \A i \in DOMAIN jobs' : jobs'[i] = jobs[i + 1]
    BY <1>1
  <1>3. \A i, k \in DOMAIN jobs : jobs[i] = jobs[k] => i = k
    BY DEF OneRequestEach
  <1>4. job \in Queued /\ job \notin InFlight
    BY <1>2 DEF Queued, OneRequestEach
  <1>5. \A i, k \in DOMAIN jobs' : jobs'[i] = jobs'[k] => i = k
    <2>1. \A i \in DOMAIN jobs' : i + 1 \in DOMAIN jobs /\ i \in Int
      BY <1>2
    <2>2. QED  BY <2>1, <1>2, <1>3
  <1>6. ASSUME NEW x PROVE x \in Queued' <=> x \in Queued /\ x # job
    <2>1. ASSUME x \in Queued' PROVE x \in Queued /\ x # job
      <3>1. PICK i \in DOMAIN jobs' : x = jobs'[i]
        BY <2>1 DEF Queued
      <3>2. i + 1 \in DOMAIN jobs /\ i + 1 # 1 /\ x = jobs[i + 1]
        BY <3>1, <1>2
      <3>3. 1 \in DOMAIN jobs
        BY <1>2
      <3>4. QED  BY <3>2, <3>3, <1>2, <1>3 DEF Queued
    <2>2. ASSUME x \in Queued, x # job PROVE x \in Queued'
      <3>1. PICK i \in DOMAIN jobs : x = jobs[i]
        BY <2>2 DEF Queued
      <3>2. i - 1 \in DOMAIN jobs' /\ x = jobs'[i - 1]
        BY <3>1, <2>2, <1>2
      <3>3. QED  BY <3>2 DEF Queued
    <2>3. QED  BY <2>1, <2>2
  <1>7. InFlight' = InFlight \cup {job}
    BY <1>1, <1>2 DEF InFlight
  <1>8. sent' \in [Jobs -> Nat] /\ \A x \in Jobs : sent'[x] <= 1
    <2>1. sent[job] = 0
      BY <1>1, <1>2, <1>4 DEF InFlight
    <2>2. QED  BY <1>1, <1>2, <2>1 DEF OneRequestEach
  <1>9. Queued' = Queued \ {job}
    BY <1>6
  <1>10. QED  BY <1>2, <1>4, <1>5, <1>7, <1>8, <1>9

LEMMA OneSend ==
    ASSUME TypeOK, OneRequestEach, SendJob
    PROVE  OneRequestEach'
  <1>1. awaited' = awaited /\ lost' = lost
    BY DEF SendJob, caches
  <1>2. QED  BY <1>1, SendMoves DEF OneRequestEach

(* An answer takes its requests away.                                      *)
LEMMA AnswerTakes ==
    ASSUME TypeOK, OneRequestEach, NEW answers \in SUBSET InFlight, Answer(answers)
    PROVE  /\ InFlight' = InFlight \ answers /\ Queued' = Queued
           /\ \A job \in Jobs : sent'[job] <= 1
  <1>1. /\ sent \in [Jobs -> Nat] /\ jobs' = jobs
        /\ sent' = [job \in Jobs |-> IF job \in answers THEN sent[job] - 1 ELSE sent[job]]
    BY DEF Answer, TypeOK
  <1>2. \A job \in Jobs : sent[job] <= 1
    BY DEF OneRequestEach
  <1>3. \A job \in answers : job \in Jobs /\ sent[job] = 1
    BY <1>1, <1>2 DEF InFlight
  <1>4. QED  BY <1>1, <1>2, <1>3 DEF InFlight, Queued

LEMMA OneAnswer ==
    ASSUME TypeOK, OneRequestEach, NEW answers \in SUBSET InFlight, Answer(answers)
    PROVE  OneRequestEach'
  <1>1. awaited' = awaited \ answers /\ lost' = lost /\ jobs' = jobs
    BY DEF Answer
  <1>2. QED  BY <1>1, AnswerTakes DEF OneRequestEach

LEMMA OneLose ==
    ASSUME TypeOK, OneRequestEach, Lose
    PROVE  OneRequestEach'
  <1>1. jobs' = <<>> /\ sent' = [job \in Jobs |-> 0] /\ awaited' = awaited
    BY DEF Lose, NewClient, caches
  <1>2. lost' = lost \cup Queued \cup InFlight
    BY DEF Lose
  <1>3. Queued' = {} /\ InFlight' = {} /\ DOMAIN jobs' = {}
    BY <1>1 DEF Queued, InFlight
  <1>4. QED  BY <1>1, <1>2, <1>3 DEF OneRequestEach

LEMMA OneStep == TypeOK /\ OneRequestEach /\ [Next]_vars => OneRequestEach'
  <1> SUFFICES ASSUME TypeOK, OneRequestEach, [Next]_vars PROVE OneRequestEach'
    OBVIOUS
  <1>1. ASSUME NEW kind \in Kinds, Join(kind) \/ Ready(kind) \/ GiveUp(kind)
        PROVE  OneRequestEach'
    BY <1>1, OneUnchanged DEF Join, Ready, GiveUp, client, caches
  <1>2. ASSUME OtherPacket \/ RecvTimeout \/ Connect
        PROVE  OneRequestEach'
    BY <1>2, OneUnchanged DEF OtherPacket, RecvTimeout, Connect, caches
  <1>3. CASE UNCHANGED vars
    BY <1>3, OneUnchanged DEF vars, client, caches
  <1>4. QED
    BY <1>1, <1>2, <1>3, OneStart, OneStartUnconnected, OneSend, OneAnswer, OneLose DEF Next

(* OneRequestEach: a job is queued, under way or lost exactly once, and    *)
(* exactly the awaited ones are (stats_cache.py 27-31): no answer is a     *)
(* second one, and no answer finds its game off the list.                  *)
THEOREM OneRequest == Spec => []OneRequestEach
  <1>1. TypeOK /\ OneRequestEach /\ [Next]_vars => (TypeOK /\ OneRequestEach)'
    BY TypeStep, OneStep
  <1>2. Init => TypeOK /\ OneRequestEach
    BY TypeInit, OneInit
  <1>3. QED  BY <1>1, <1>2, PTL DEF Spec

--------------------------------------------------------------------------------
(* The window of the receive loop.                                         *)

LEMMA WindowInit == Init => Window
  <1> SUFFICES ASSUME Init PROVE Window
    OBVIOUS
  <1>1. InFlight = {}
    BY DEF Init, InFlight
  <1>2. QED  BY <1>1, FS_EmptySet DEF Init, Window, WindowKept

(* A processed packet gives back one place, or there was none to give.     *)
LEMMA PacketCounts ==
    ASSUME TypeOK, Processed, WindowKept
    PROVE  /\ ahead' + batch' <= 3 /\ ahead' \in Nat
           /\ (ahead = 0 /\ ahead' = 0) \/ ahead' = ahead - 1
  <1>1. ahead \in Nat /\ ahead <= 3 /\ jobs \in Seq(Jobs)
    BY DEF TypeOK, WindowKept
  <1>2. ahead' \in Nat /\ ahead' <= 3 /\ batch' = FirstJobs(ahead', jobs)
          /\ ((ahead = 0 /\ ahead' = 0) \/ ahead' = ahead - 1)
    BY <1>1 DEF Processed
  <1>3. QED  BY <1>1, <1>2, FirstJobsBounds

LEMMA WindowStep == TypeOK /\ OneRequestEach /\ Window /\ [Next]_vars => Window'
  <1> SUFFICES ASSUME TypeOK, OneRequestEach, Window, [Next]_vars PROVE Window'
    OBVIOUS
  <1> DEFINE n == Cardinality(InFlight)
  <1>1. /\ IsFiniteSet(InFlight) /\ n \in Nat /\ n <= ahead + others
        /\ ahead \in Nat /\ others \in Nat /\ batch \in Nat /\ ahead + batch <= 3
    BY FS_CardinalityType DEF Window, WindowKept, TypeOK
  <1>2. ASSUME sent' = sent PROVE InFlight' = InFlight
    BY <1>2 DEF InFlight
  <1>3. ASSUME NEW kind \in Kinds,
               \/ \E list \in ListsOf(kind) : Start(kind, list) \/ StartUnconnected(kind, list)
               \/ Join(kind) \/ Ready(kind) \/ GiveUp(kind)
        PROVE  Window'
    <2>1. sent' = sent /\ ahead' = ahead /\ batch' = batch /\ others' = others
      BY <1>3 DEF Start, StartUnconnected, Join, Ready, GiveUp, client
    <2>2. QED  BY <2>1, <1>1, <1>2 DEF Window, WindowKept
  <1>4. CASE SendJob
    <2>1. InFlight' = InFlight \cup {Head(jobs)} /\ Head(jobs) \notin InFlight
      BY <1>4, SendMoves
    <2>2. IsFiniteSet(InFlight') /\ Cardinality(InFlight') = n + 1
      BY <2>1, <1>1, FS_AddElement
    <2>3. ahead' = ahead + 1 /\ batch' = batch - 1 /\ others' = others
      BY <1>4 DEF SendJob
    <2>4. QED  BY <2>2, <2>3, <1>1 DEF Window, WindowKept
  <1>5. ASSUME NEW answers \in SUBSET InFlight, Answer(answers)
        PROVE  Window'
    <2>1. InFlight' = InFlight \ answers
      BY <1>5, AnswerTakes
    <2>2. IsFiniteSet(answers) /\ Cardinality(answers) \in Nat /\ Cardinality(answers) >= 1
      BY <1>1, <1>5, FS_Subset, FS_CardinalityType, BoundAssumption DEF Answer
    <2>3. IsFiniteSet(InFlight') /\ Cardinality(InFlight') <= n - 1
      <3>1. IsFiniteSet(InFlight') /\ Cardinality(InFlight') = n - Cardinality(InFlight \cap answers)
        BY <2>1, <1>1, FS_Difference
      <3>2. InFlight \cap answers = answers
        BY <1>5
      <3>3. QED  BY <3>1, <3>2, <2>2, <1>1
    <2>4. /\ ahead' + batch' <= 3 /\ ahead' \in Nat /\ others' = others
          /\ (ahead = 0 /\ ahead' = 0) \/ ahead' = ahead - 1
      BY <1>5, PacketCounts DEF Answer, Window
    <2>5. Cardinality(InFlight') \in Nat
      BY <2>3, FS_CardinalityType
    <2>6. Cardinality(InFlight') <= ahead' + others'
      BY <2>3, <2>4, <2>5, <1>1
    <2>7. QED  BY <2>3, <2>4, <2>6 DEF Window, WindowKept
  <1>6. CASE OtherPacket
    <2>1. sent' = sent /\ others' = others + 1
      BY <1>6 DEF OtherPacket
    <2>2. /\ ahead' + batch' <= 3 /\ ahead' \in Nat
          /\ (ahead = 0 /\ ahead' = 0) \/ ahead' = ahead - 1
      BY <1>6, PacketCounts DEF OtherPacket, Window
    <2>3. n <= ahead' + others'
      BY <2>1, <2>2, <1>1
    <2>4. QED  BY <2>1, <2>2, <2>3, <1>1, <1>2 DEF Window, WindowKept
  <1>7. CASE RecvTimeout
    <2>1. /\ sent' = sent /\ others' = others /\ ahead' = ahead /\ jobs \in Seq(Jobs)
          /\ batch' = FirstJobs(ahead, jobs)
      BY <1>7 DEF RecvTimeout, TypeOK
    <2>2. ahead' + batch' <= 3
      BY <2>1, <1>1, FirstJobsBounds
    <2>3. QED  BY <2>1, <2>2, <1>1, <1>2 DEF Window, WindowKept
  <1>8. CASE Lose
    <2>1. sent' = [job \in Jobs |-> 0] /\ ahead' = 0 /\ batch' = 0 /\ others' = 0
      BY <1>8 DEF Lose, NewClient
    <2>2. InFlight' = {}
      BY <2>1 DEF InFlight
    <2>3. QED  BY <2>1, <2>2, FS_EmptySet DEF Window, WindowKept
  <1>9. ASSUME Connect \/ UNCHANGED vars
        PROVE  Window'
    <2>1. sent' = sent /\ ahead' = ahead /\ batch' = batch /\ others' = others
      BY <1>9 DEF Connect, vars, client
    <2>2. QED  BY <2>1, <1>1, <1>2 DEF Window, WindowKept
  <1>10. QED
    BY <1>3, <1>4, <1>5, <1>6, <1>7, <1>8, <1>9 DEF Next

(* WindowKept: at most three requests are ahead of the packets received    *)
(* (protobuf_client.py 150-175), however many answers come in one packet.  *)
THEOREM WindowIsKept == Spec => []WindowKept
  <1>1. IInv /\ [Next]_vars => IInv'
    BY TypeStep, OneStep, WindowStep DEF IInv
  <1>2. Init => IInv
    BY TypeInit, OneInit, WindowInit DEF IInv
  <1>3. IInv => WindowKept
    BY DEF IInv, Window
  <1>4. QED  BY <1>1, <1>2, <1>3, PTL DEF Spec

--------------------------------------------------------------------------------
(* The contexts.                                                           *)

(* What a waiting call has asked for is awaited or answered.               *)
AskedIsKept ==
    \A kind \in Kinds :
        waiting[kind] => asked[kind] \subseteq JobsOf(kind) \cap (awaited \cup answered)

LEMMA AskedStep == TypeOK /\ AskedIsKept /\ [Next]_vars => AskedIsKept'
  <1> SUFFICES ASSUME TypeOK, AskedIsKept, [Next]_vars PROVE AskedIsKept'
    OBVIOUS
  <1>1. /\ waiting \in [Kinds -> BOOLEAN] /\ asked \in [Kinds -> SUBSET Jobs]
        /\ \A k \in Kinds :
              waiting[k] => asked[k] \subseteq JobsOf(k) \cap (awaited \cup answered)
    BY DEF TypeOK, AskedIsKept
  <1>2. ASSUME NEW kind \in Kinds, NEW list \in ListsOf(kind), Start(kind, list)
        PROVE  AskedIsKept'
    <2> DEFINE new == { list[i] : i \in DOMAIN list }
    <2>1. /\ new \subseteq JobsOf(kind) /\ awaited' = awaited \cup new /\ answered' = answered \ new
          /\ waiting' = [waiting EXCEPT ![kind] = TRUE] /\ asked' = [asked EXCEPT ![kind] = new]
      BY <1>2, ListTypes DEF Start, Call
    <2>2. awaited \cup answered \cup new \subseteq awaited' \cup answered'
      BY <2>1
    <2>3. ASSUME NEW k \in Kinds, waiting'[k]
          PROVE  asked'[k] \subseteq JobsOf(k) \cap (awaited' \cup answered')
      <3>1. CASE k = kind
        <4>1. asked'[k] = new  BY <3>1, <2>1, <1>1
        <4>2. QED  BY <4>1, <3>1, <2>1, <2>2
      <3>2. CASE k # kind
        <4>1. asked'[k] = asked[k] /\ waiting[k]  BY <3>2, <2>1, <2>3, <1>1
        <4>2. QED  BY <4>1, <2>2, <1>1
      <3>3. QED  BY <3>1, <3>2
    <2>4. QED  BY <2>3 DEF AskedIsKept, JobsOf
  <1>3. ASSUME NEW kind \in Kinds, NEW list \in ListsOf(kind), StartUnconnected(kind, list)
        PROVE  AskedIsKept'
    <2> DEFINE new == { list[i] : i \in DOMAIN list }
    <2>1. /\ awaited' = awaited \cup new /\ answered' = answered \ new
          /\ waiting' = waiting /\ asked' = asked
      BY <1>3 DEF StartUnconnected, calls
    <2>2. awaited \cup answered \subseteq awaited' \cup answered'
      BY <2>1
    <2>3. QED  BY <2>1, <2>2, <1>1 DEF AskedIsKept, JobsOf
  <1>4. ASSUME NEW kind \in Kinds, Join(kind)
        PROVE  AskedIsKept'
    <2>1. /\ awaited' = awaited /\ answered' = answered
          /\ waiting' = [waiting EXCEPT ![kind] = TRUE] /\ asked' = [asked EXCEPT ![kind] = {}]
      BY <1>4 DEF Join, Call, caches
    <2>2. ASSUME NEW k \in Kinds, waiting'[k]
          PROVE  asked'[k] \subseteq JobsOf(k) \cap (awaited' \cup answered')
      BY <2>1, <2>2, <1>1
    <2>3. QED  BY <2>2 DEF AskedIsKept, JobsOf
  <1>5. ASSUME NEW kind \in Kinds, Ready(kind) \/ GiveUp(kind)
        PROVE  AskedIsKept'
    <2>1. /\ awaited' = awaited /\ answered' = answered /\ asked' = asked
          /\ waiting' = [waiting EXCEPT ![kind] = FALSE]
      BY <1>5 DEF Ready, GiveUp, caches
    <2>2. ASSUME NEW k \in Kinds, waiting'[k] PROVE waiting[k]
      BY <2>1, <2>2, <1>1
    <2>3. QED  BY <2>1, <2>2, <1>1 DEF AskedIsKept, JobsOf
  <1>6. ASSUME NEW answers \in SUBSET InFlight, Answer(answers)
        PROVE  AskedIsKept'
    <2>1. /\ awaited' \cup answered' = awaited \cup answered \cup answers
          /\ waiting' = waiting /\ asked' = asked
      BY <1>6 DEF Answer, calls
    <2>2. QED  BY <2>1, <1>1 DEF AskedIsKept, JobsOf
  <1>7. ASSUME SendJob \/ RecvTimeout \/ OtherPacket \/ Lose \/ Connect \/ UNCHANGED vars
        PROVE  AskedIsKept'
    <2>1. UNCHANGED <<awaited, answered, waiting, asked>>
      BY <1>7 DEF SendJob, RecvTimeout, OtherPacket, Lose, Connect, vars, caches, calls
    <2>2. QED  BY <2>1, <1>1 DEF AskedIsKept, JobsOf
  <1>8. QED
    BY <1>2, <1>3, <1>4, <1>5, <1>6, <1>7 DEF Next

(* PreparedIsComplete: a context given because the cache is ready has the  *)
(* answer to every request made for it (stats_cache.py 20-22).             *)
THEOREM PreparedComplete == Spec => []PreparedIsComplete
  <1>1. Init => TypeOK /\ AskedIsKept
    BY TypeInit DEF Init, AskedIsKept, Kinds
  <1>2. TypeOK /\ AskedIsKept /\ [Next]_vars => (TypeOK /\ AskedIsKept)'
    BY TypeStep, AskedStep
  <1>3. AskedIsKept => PreparedIsComplete
    BY DEF AskedIsKept, PreparedIsComplete, InProgress
  <1>4. QED  BY <1>1, <1>2, <1>3, PTL DEF Spec

--------------------------------------------------------------------------------
(* Room in the loop.                                                       *)

(* Every step that moves the count on moves the requests on: a job that is *)
(* sent is a new request, and a packet with an answer takes one away.      *)
LEMMA RoomStep ==
    ASSUME TypeOK, OneRequestEach, Window, RoomIsLeft, [Next]_vars
    PROVE  RoomIsLeft'
  <1> DEFINE n == Cardinality(InFlight)
  <1>1. /\ IsFiniteSet(InFlight) /\ n \in Nat /\ ahead \in Nat /\ merged \in Nat
        /\ ahead <= n + merged
    BY FS_CardinalityType DEF Window, TypeOK, RoomIsLeft
  <1>2. ASSUME sent' = sent, merged' = merged, ahead' \in Nat, ahead' <= ahead PROVE RoomIsLeft'
    <2>1. InFlight' = InFlight  BY <1>2 DEF InFlight
    <2>2. QED  BY <2>1, <1>1, <1>2 DEF RoomIsLeft
  <1>3. ASSUME NEW kind \in Kinds,
               \/ \E list \in ListsOf(kind) : Start(kind, list) \/ StartUnconnected(kind, list)
               \/ Join(kind) \/ Ready(kind) \/ GiveUp(kind)
        PROVE  RoomIsLeft'
    <2>1. sent' = sent /\ ahead' = ahead /\ merged' = merged
      BY <1>3 DEF Start, StartUnconnected, Join, Ready, GiveUp, client
    <2>2. QED  BY <2>1, <1>1, <1>2
  <1>4. CASE SendJob
    <2>1. InFlight' = InFlight \cup {Head(jobs)} /\ Head(jobs) \notin InFlight
      BY <1>4, SendMoves
    <2>2. Cardinality(InFlight') = n + 1
      BY <2>1, <1>1, FS_AddElement
    <2>3. ahead' = ahead + 1 /\ merged' = merged
      BY <1>4 DEF SendJob
    <2>4. QED  BY <2>2, <2>3, <1>1 DEF RoomIsLeft
  <1>5. ASSUME NEW answers \in SUBSET InFlight, Answer(answers)
        PROVE  RoomIsLeft'
    <2>1. InFlight' = InFlight \ answers
      BY <1>5, AnswerTakes
    <2> DEFINE k == Cardinality(answers)
    <2>2. k \in Nat /\ k >= 1 /\ merged' = merged + k - 1
      BY <1>5, BoundAssumption DEF Answer
    <2>3. Cardinality(InFlight') = n - k
      <3>1. Cardinality(InFlight') = n - Cardinality(InFlight \cap answers)
        BY <2>1, <1>1, FS_Difference
      <3>2. InFlight \cap answers = answers
        BY <1>5
      <3>3. QED  BY <3>1, <3>2
    <2>4. /\ IsFiniteSet(InFlight') /\ Cardinality(InFlight') \in Nat
          /\ ahead' \in Nat /\ ((ahead = 0 /\ ahead' = 0) \/ ahead' = ahead - 1)
      BY <2>1, <1>1, <1>5, PacketCounts, FS_Subset, FS_CardinalityType DEF Answer, Window
    <2> HIDE DEF k
    <2>5. QED  BY <2>2, <2>3, <2>4, <1>1 DEF RoomIsLeft
  <1>6. CASE OtherPacket
    <2>1. sent' = sent /\ merged' = merged  BY <1>6 DEF OtherPacket
    <2>2. ahead' \in Nat /\ ahead' <= ahead
      BY <1>1, <1>6, PacketCounts DEF OtherPacket, Window
    <2>3. QED  BY <2>1, <2>2, <1>2
  <1>7. CASE RecvTimeout \/ Connect \/ UNCHANGED vars
    <2>1. sent' = sent /\ ahead' = ahead /\ merged' = merged
      BY <1>7 DEF RecvTimeout, Connect, vars, client
    <2>2. QED  BY <2>1, <1>1, <1>2
  <1>8. CASE Lose
    <2>1. sent' = [job \in Jobs |-> 0] /\ ahead' = 0 /\ merged' = 0
      BY <1>8 DEF Lose, NewClient
    <2>2. InFlight' = {}
      BY <2>1 DEF InFlight
    <2>3. QED  BY <2>1, <2>2, FS_EmptySet DEF RoomIsLeft
  <1>9. QED
    BY <1>3, <1>4, <1>5, <1>6, <1>7, <1>8 DEF Next

(* RoomIsLeft: what the loop counts as ahead is a request without an       *)
(* answer, or an answer that came in one packet with another, whatever     *)
(* else is received, lost or late (protobuf_client.py 150-181, 552-569): a *)
(* loop that has all its answers, each in a packet of its own, sends again.*)
THEOREM RoomLeft == Spec => []RoomIsLeft
  <1>1. IInv /\ RoomIsLeft /\ [Next]_vars => (IInv /\ RoomIsLeft)'
    BY TypeStep, OneStep, WindowStep, RoomStep DEF IInv
  <1>2. Init => IInv /\ RoomIsLeft
    <2> SUFFICES ASSUME Init PROVE IInv /\ RoomIsLeft
      OBVIOUS
    <2>1. InFlight = {} /\ ahead = 0 /\ merged = 0
      BY DEF Init, InFlight
    <2>2. RoomIsLeft
      BY <2>1, FS_EmptySet DEF RoomIsLeft
    <2>3. QED  BY <2>2, TypeInit, OneInit, WindowInit DEF IInv
  <1>3. QED  BY <1>1, <1>2, PTL DEF Spec

--------------------------------------------------------------------------------
(* The ledger.                                                             *)

(* What a call asks for is neither owed nor gone.                          *)
LEMMA CallsAreFresh ==
    ASSUME OneRequestEach, NEW kind \in Kinds, NEW list \in ListsOf(kind), ~InProgress(kind)
    PROVE  LET new == { list[i] : i \in DOMAIN list } IN
           new \subseteq Jobs /\ new \cap ((Queued \cup InFlight) \cup lost) = {}
  BY ListTypes, NewJobsAreFresh

LEMMA LedgerStep ==
    TypeOK /\ OneRequestEach /\ [Next]_vars => [Ledger!LedgerNext]_(Ledger!ledgerVars)
  <1> SUFFICES ASSUME TypeOK, OneRequestEach, [Next]_vars
               PROVE  Ledger!LedgerNext \/ UNCHANGED <<Queued \cup InFlight, lost, answered>>
    BY DEF Ledger!ledgerVars
  <1>1. ASSUME NEW kind \in Kinds, NEW list \in ListsOf(kind), Start(kind, list)
        PROVE  Ledger!Ask
    <2> DEFINE new == { list[i] : i \in DOMAIN list }
    <2>1. /\ jobs' = jobs \o list /\ sent' = sent /\ lost' = lost /\ answered' = answered \ new
          /\ jobs \in Seq(Jobs) /\ list \in Seq(Jobs)
      BY <1>1, ListTypes DEF Start, TypeOK
    <2>2. Queued' = Queued \cup new
      <3>1. Queued' = { (jobs \o list)[i] : i \in DOMAIN (jobs \o list) }
        BY <2>1 DEF Queued
      <3>2. { (jobs \o list)[i] : i \in DOMAIN (jobs \o list) }
              = { jobs[i] : i \in DOMAIN jobs } \cup new
        BY <2>1, QueuedAfterCall
      <3>3. QED  BY <3>1, <3>2 DEF Queued
    <2>3. (Queued \cup InFlight)' = (Queued \cup InFlight) \cup new
      BY <2>1, <2>2 DEF InFlight
    <2>4. new \subseteq Jobs /\ new \cap ((Queued \cup InFlight) \cup lost) = {}
      BY <1>1, CallsAreFresh DEF Start
    <2> HIDE DEF new
    <2>5. QED  BY <2>1, <2>3, <2>4 DEF Ledger!Ask, Ledger!Fresh
  <1>2. ASSUME NEW kind \in Kinds, NEW list \in ListsOf(kind), StartUnconnected(kind, list)
        PROVE  Ledger!AskInVain
    <2> DEFINE new == { list[i] : i \in DOMAIN list }
    <2>1. /\ jobs' = jobs /\ sent' = sent
          /\ lost' = lost \cup new /\ answered' = answered \ new
      BY <1>2 DEF StartUnconnected, client
    <2>2. (Queued \cup InFlight)' = Queued \cup InFlight
      BY <2>1 DEF Queued, InFlight
    <2>3. new \subseteq Jobs /\ new \cap ((Queued \cup InFlight) \cup lost) = {}
      BY <1>2, CallsAreFresh DEF StartUnconnected
    <2> HIDE DEF new
    <2>4. QED  BY <2>1, <2>2, <2>3 DEF Ledger!AskInVain, Ledger!Fresh
  <1>3. ASSUME NEW answers \in SUBSET InFlight, Answer(answers)
        PROVE  Ledger!Answer
    <2>1. InFlight' = InFlight \ answers /\ Queued' = Queued
      BY <1>3, AnswerTakes
    <2>2. lost' = lost /\ answered' = answered \cup answers
      BY <1>3 DEF Answer
    <2>3. Queued \cap answers = {}
      BY <1>3 DEF OneRequestEach
    <2>4. (Queued \cup InFlight)' = (Queued \cup InFlight) \ answers
      BY <2>1, <2>3
    <2>5. answers \in SUBSET (Queued \cup InFlight)
      BY <1>3
    <2>6. QED  BY <2>2, <2>4, <2>5 DEF Ledger!Answer
  <1>4. CASE Lose
    <2>1. /\ jobs' = <<>> /\ sent' = [job \in Jobs |-> 0] /\ answered' = answered
          /\ lost' = lost \cup Queued \cup InFlight
      BY <1>4 DEF Lose, NewClient, caches
    <2>2. (Queued \cup InFlight)' = {}
      BY <2>1 DEF Queued, InFlight
    <2>3. Ledger!Lose
      BY <2>1, <2>2 DEF Ledger!Lose
    <2>4. QED  BY <2>3 DEF Ledger!LedgerNext
  <1>5. CASE SendJob
    <2>1. (Queued \cup InFlight)' = Queued \cup InFlight
      BY <1>5, SendMoves
    <2>2. lost' = lost /\ answered' = answered
      BY <1>5 DEF SendJob, caches
    <2>3. QED  BY <2>1, <2>2
  <1>6. ASSUME \/ \E kind \in Kinds : Join(kind) \/ Ready(kind) \/ GiveUp(kind)
               \/ RecvTimeout \/ OtherPacket \/ Connect \/ UNCHANGED vars
        PROVE  UNCHANGED <<Queued \cup InFlight, lost, answered>>
    <2>1. UNCHANGED <<jobs, sent, lost, answered>>
      BY <1>6 DEF Join, Ready, GiveUp, RecvTimeout, OtherPacket, Connect, vars, client, caches
    <2>2. QED  BY <2>1 DEF Queued, InFlight
  <1>7. QED
    BY <1>1, <1>2, <1>3, <1>4, <1>5, <1>6 DEF Next, Ledger!LedgerNext

(* ImportJobs implements ImportLedger, for any games, lists and bounds: no *)
(* job is asked for again while it is owed or gone, an answer is always to *)
(* one that is owed, and the job list of the run loop is invisible         *)
(* (stats_cache.py, times_cache.py, protobuf_client.py 134-181).           *)
THEOREM LedgerImplemented == Spec => ImplementsLedger
  <1>1. Init => Ledger!LedgerInit
    <2> SUFFICES ASSUME Init PROVE Ledger!LedgerInit
      OBVIOUS
    <2>1. Queued = {} /\ InFlight = {} /\ lost = {} /\ answered = {}
      BY DEF Init, Queued, InFlight
    <2>2. QED  BY <2>1 DEF Ledger!LedgerInit
  <1>2. TypeOK /\ OneRequestEach /\ [Next]_vars => [Ledger!LedgerNext]_(Ledger!ledgerVars)
    BY LedgerStep
  <1>3. QED
    BY <1>1, <1>2, TypeCorrect, OneRequest, PTL DEF Spec, ImplementsLedger, Ledger!LedgerSpec
================================================================================
