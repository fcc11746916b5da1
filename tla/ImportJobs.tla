------------------------------- MODULE ImportJobs -------------------------------
(***************************************************************************)
(* The imports of achievements, play times and collections: Galaxy asks    *)
(* for a context (backend_steam_network.py), the protocol client queues a  *)
(* job per request, and the receive loop of the protobuf client sends the  *)
(* jobs a few at a time between the packets it receives.  The statistics   *)
(* and the times caches remember what is still awaited; the job list       *)
(* belongs to one connection and goes with it.                             *)
(***************************************************************************)
EXTENDS Integers, Sequences, FiniteSets

CONSTANTS
    Games,       \* the games Galaxy asks achievements for
    GameLists,   \* the lists it may ask for at once
    MaxImports,  \* bound: contexts prepared in all
    MaxLosses,   \* bound: connections lost
    MaxOthers,   \* bound: packets of one connection that answer no job
    MaxBundle    \* how many answers one packet (a Multi) may hold

Kinds == {"stats", "times", "collections"}

Jobs == Games \cup {"times", "collections"}

ASSUME JobsAssumption ==
    /\ Games \cap {"times", "collections"} = {}
    /\ GameLists \subseteq Seq(Games)
    /\ \A list \in GameLists : \A i, k \in DOMAIN list : list[i] = list[k] => i = k

ASSUME BoundAssumption ==
    {MaxImports, MaxLosses, MaxOthers, MaxBundle} \subseteq Nat

VARIABLES
    connected,  \* whether there is a protocol client
    jobs,       \* its job_list
    ahead,      \* its run loop's jobs_to_process
    batch,      \* how many of the loop's copy of the list are still to be sent
    sent,       \* per job, the requests Steam has not answered
    awaited,    \* the jobs whose answer an import still waits for:
                \* _games_to_import, not _times_imported, the collections' event
    answered,   \* the jobs whose answer is in a cache
    waiting,    \* per kind, whether Galaxy's call for its context waits
    asked,      \* per kind, the jobs that call has queued
    lost,       \* history: the awaited jobs that went with their connection
    merged,     \* history: the answers of this connection that came in one
                \* packet with another, each packet's first not counted
    imports, losses, others  \* counters for the bounds

client == <<connected, jobs, ahead, batch, sent>>
caches == <<awaited, answered>>
calls  == <<waiting, asked>>
vars   == <<client, caches, calls, lost, merged, imports, losses, others>>

JobsOf(kind) == IF kind = "stats" THEN Games ELSE {kind}

ListsOf(kind) == IF kind = "stats" THEN GameLists ELSE {<<kind>>}

InProgress(kind) == awaited \cap JobsOf(kind) # {}

Queued == { jobs[i] : i \in DOMAIN jobs }

InFlight == { job \in Jobs : sent[job] > 0 }

\* Mutant of NewClient: the new receive loop goes on where the old one was.
NewClientSameLoop ==
    /\ jobs' = <<>> /\ ahead' = ahead /\ batch' = batch
    /\ sent' = [job \in Jobs |-> 0]

(* ProtobufClient.__init__ and the start of its run loop.                  *)
NewClient ==
    /\ jobs' = <<>> /\ ahead' = 0 /\ batch' = 0
    /\ sent' = [job \in Jobs |-> 0]

Init ==
    /\ connected = TRUE
    /\ jobs = <<>> /\ ahead = 0 /\ batch = 0 /\ sent = [job \in Jobs |-> 0]
    /\ awaited = {} /\ answered = {}
    /\ waiting = [kind \in Kinds |-> FALSE] /\ asked = [kind \in Kinds |-> {}]
    /\ lost = {} /\ merged = 0 /\ imports = 0 /\ losses = 0 /\ others = 0

\* Mutant of FirstJobs: the whole list is sent, however much is unanswered.
AllJobs(n, list) == Len(list)

(* The top of the run loop: the first two jobs, unless two are unanswered. *)
FirstJobs(n, list) == IF n >= 2 THEN 0 ELSE IF Len(list) < 2 THEN Len(list) ELSE 2

--------------------------------------------------------------------------------
(* Galaxy's calls.                                                         *)

Call(kind, queued) ==
    /\ imports' = imports + 1
    /\ waiting' = [waiting EXCEPT ![kind] = TRUE]
    /\ asked' = [asked EXCEPT ![kind] = queued]

\* Mutant of Start: the new import forgets to put its games on the list.
StartUnlisted(kind, list) ==
    LET new == { list[i] : i \in DOMAIN list } IN
    /\ connected /\ imports < MaxImports /\ ~waiting[kind] /\ ~InProgress(kind)
    /\ Call(kind, new)
    /\ jobs' = jobs \o list
    /\ answered' = answered \ new
    /\ UNCHANGED <<connected, ahead, batch, sent, awaited, lost, merged, losses, others>>

\* Mutant of Start: the answers of the import before are kept, and looked at.
StartTwice(kind, list) ==
    LET new == { list[i] : i \in DOMAIN list } IN
    /\ connected /\ imports < MaxImports /\ ~waiting[kind]
    /\ Call(kind, new)
    /\ jobs' = jobs \o list
    /\ awaited' = awaited \cup new
    /\ answered' = answered \ new
    /\ UNCHANGED <<connected, ahead, batch, sent, lost, merged, losses, others>>

(* A context is prepared while no import of its kind is in progress: the   *)
(* cache is told to wait for the answers, then the jobs are queued.        *)
Start(kind, list) ==
    LET new == { list[i] : i \in DOMAIN list } IN
    /\ connected /\ imports < MaxImports /\ ~waiting[kind] /\ ~InProgress(kind)
    /\ Call(kind, new)
    /\ jobs' = jobs \o list
    /\ awaited' = awaited \cup new
    /\ answered' = answered \ new
    /\ UNCHANGED <<connected, ahead, batch, sent, lost, merged, losses, others>>

(* Between two connections there is no client to queue the jobs: the call  *)
(* raises, but the cache has been told to wait.                            *)
StartUnconnected(kind, list) ==
    LET new == { list[i] : i \in DOMAIN list } IN
    /\ ~connected /\ imports < MaxImports /\ ~waiting[kind] /\ ~InProgress(kind)
    /\ kind # "collections"
    /\ imports' = imports + 1
    /\ awaited' = awaited \cup new /\ answered' = answered \ new
    /\ lost' = lost \cup new
    /\ UNCHANGED <<client, calls, merged, losses, others>>

(* An import in progress is joined, whatever it was asked for.             *)
Join(kind) ==
    /\ imports < MaxImports /\ ~waiting[kind] /\ InProgress(kind)
    /\ Call(kind, {})
    /\ UNCHANGED <<client, caches, lost, merged, losses, others>>

(* The wait ends: all is answered.                                         *)
Ready(kind) ==
    /\ waiting[kind] /\ ~InProgress(kind)
    /\ waiting' = [waiting EXCEPT ![kind] = FALSE]
    /\ UNCHANGED <<client, caches, asked, lost, merged, imports, losses, others>>

(* The wait ends after its ten minutes; for collections there are none.    *)
GiveUp(kind) ==
    /\ waiting[kind] /\ InProgress(kind) /\ kind # "collections"
    /\ waiting' = [waiting EXCEPT ![kind] = FALSE]
    /\ UNCHANGED <<client, caches, asked, lost, merged, imports, losses, others>>

--------------------------------------------------------------------------------
(* The run loop of the protobuf client.                                    *)

SendJob ==
    /\ batch > 0
    /\ sent' = [sent EXCEPT ![Head(jobs)] = @ + 1]
    /\ jobs' = Tail(jobs)
    /\ ahead' = ahead + 1 /\ batch' = batch - 1
    /\ UNCHANGED <<connected, caches, calls, lost, merged, imports, losses, others>>

\* Mutant of Processed: only a loop that had sent nothing starts over.
ProcessedUncounted ==
    /\ connected /\ batch = 0
    /\ ahead' = ahead
    /\ batch' = FirstJobs(ahead', jobs)

(* A packet has been processed: back to the top of the loop.               *)
Processed ==
    /\ connected /\ batch = 0
    /\ ahead' = IF ahead > 0 THEN ahead - 1 ELSE 0
    /\ batch' = FirstJobs(ahead', jobs)

(* A packet with the answers to some requests.  A game that is not awaited *)
(* would raise in list.remove: OneRequestEach says there is none.          *)
Answer(answers) ==
    /\ Processed
    /\ answers \subseteq InFlight
    /\ Cardinality(answers) \in 1 .. MaxBundle
    /\ sent' = [job \in Jobs |-> IF job \in answers THEN sent[job] - 1 ELSE sent[job]]
    /\ awaited' = awaited \ answers
    /\ answered' = answered \cup answers
    /\ merged' = merged + Cardinality(answers) - 1
    /\ UNCHANGED <<connected, jobs, calls, lost, imports, losses, others>>

(* Any other packet of a logged-on connection counts as an answer too.     *)
OtherPacket ==
    /\ Processed
    /\ others < MaxOthers /\ others' = others + 1
    /\ UNCHANGED <<connected, jobs, sent, caches, calls, lost, merged, imports, losses>>

(* No packet for ten seconds: back to the top of the loop.                 *)
RecvTimeout ==
    /\ connected /\ batch = 0
    /\ batch' = FirstJobs(ahead, jobs)
    /\ UNCHANGED <<connected, jobs, ahead, sent, caches, calls, lost, merged, imports, losses, others>>

(* The connection is replaced, and its job list with it.                   *)
Lose ==
    /\ connected /\ losses < MaxLosses
    /\ connected' = FALSE /\ losses' = losses + 1 /\ others' = 0 /\ merged' = 0
    /\ lost' = lost \cup Queued \cup InFlight
    /\ NewClient
    /\ UNCHANGED <<caches, calls, imports>>

Connect ==
    /\ ~connected
    /\ connected' = TRUE
    /\ UNCHANGED <<jobs, ahead, batch, sent, caches, calls, lost, merged, imports, losses, others>>

Next ==
    \/ \E kind \in Kinds : \/ \E list \in ListsOf(kind) :
                                  Start(kind, list) \/ StartUnconnected(kind, list)
                           \/ Join(kind) \/ Ready(kind) \/ GiveUp(kind)
    \/ SendJob \/ RecvTimeout \/ OtherPacket
    \/ \E answers \in SUBSET InFlight : Answer(answers)
    \/ Lose \/ Connect

Spec == Init /\ [][Next]_vars

(* The event loop runs what is ready, a receive without a packet times out *)
(* after ten seconds, the supervisor connects again, and Steam answers     *)
(* every request of the first connection: over a later one it may, but     *)
(* nobody need log on.  The ten minutes of a wait are not counted on, nor  *)
(* that any other packet comes.                                            *)
FairSpec ==
    /\ Spec
    /\ \A kind \in Kinds : WF_vars(Ready(kind))
    /\ WF_vars(SendJob) /\ WF_vars(RecvTimeout) /\ WF_vars(Connect)
    /\ \A job \in Jobs :
           WF_vars(/\ losses = 0
                   /\ \E answers \in SUBSET InFlight : job \in answers /\ Answer(answers))

--------------------------------------------------------------------------------
TypeOK ==
    /\ connected \in BOOLEAN
    /\ jobs \in Seq(Jobs)
    /\ ahead \in Nat /\ batch \in 0 .. 2 /\ batch <= Len(jobs)
    /\ sent \in [Jobs -> Nat]
    /\ awaited \subseteq Jobs /\ answered \subseteq Jobs /\ lost \subseteq Jobs
    /\ waiting \in [Kinds -> BOOLEAN] /\ asked \in [Kinds -> SUBSET Jobs]
    /\ merged \in Nat /\ imports \in Nat /\ losses \in Nat /\ others \in Nat

(* A job is queued, or its request unanswered, or both were lost with a    *)
(* connection - exactly one of the three - if and only if an import waits  *)
(* for it.  So an answer never finds its game missing from                 *)
(* _games_to_import (stats_cache.py:30), and nothing is asked for twice.   *)
OneRequestEach ==
    /\ \A i, k \in DOMAIN jobs : jobs[i] = jobs[k] => i = k
    /\ \A job \in Jobs : sent[job] <= 1
    /\ Queued \cap InFlight = {} /\ (Queued \cup InFlight) \cap lost = {}
    /\ awaited = Queued \cup InFlight \cup lost

(* At most three requests are ahead of the packets received                *)
(* (protobuf_client.py:153, version.py:14), the unrelated ones counted.    *)
WindowKept == ahead + batch <= 3 /\ Cardinality(InFlight) <= ahead + others

(* The loop's count is never further ahead than the requests without an    *)
(* answer and the answers that shared a packet, each of which it takes for *)
(* one answer too few (protobuf_client.py 150-181, 552-569): nothing else, *)
(* no time-out, loss or unrelated packet, makes it hold jobs back.         *)
RoomIsLeft == ahead <= Cardinality(InFlight) + merged

(* A context that Galaxy gets because the cache is ready has the answer to *)
(* every request made for it (backend_steam_network.py 425-431, 459-465).  *)
PreparedIsComplete ==
    \A kind \in Kinds : waiting[kind] /\ ~InProgress(kind) => asked[kind] \subseteq answered

(* What the imports owe Galaxy, however the loop sends its jobs.           *)
Ledger == INSTANCE ImportLedger
    WITH owed <- Queued \cup InFlight, gone <- lost, held <- answered

(* No job is asked for again while it is owed, no answer is taken that is  *)
(* not, and what went with a connection stays unanswered                   *)
(* (stats_cache.py, times_cache.py, protobuf_client.py 134-181).           *)
ImplementsLedger == Ledger!LedgerSpec

(* The loop has nothing to receive and jobs to send, and sends none: it    *)
(* still counts two answers that came together with others.                *)
HeldBack == jobs # <<>> /\ InFlight = {} /\ ahead >= 2 /\ merged >= 2

(* Every preparation ends without its time-out, unless the connection is   *)
(* lost, or the loop stands with its window full of answers that it has    *)
(* had: for nothing else does the loop that sends a few jobs at a time     *)
(* fail to get to all of them (protobuf_client.py 150-181).                *)
PreparationsEnd ==
    \A kind \in Kinds : waiting[kind] ~> (~waiting[kind] \/ losses > 0 \/ HeldBack)

(* An import that never gets one of its answers does not block those after *)
(* it, as backend_steam_network.py:431 and :465 say: at some time none of  *)
(* its kind is in progress any more.                                       *)
FutureImportsGoOn ==
    \A kind \in {"stats", "times"} : InProgress(kind) ~> ~InProgress(kind)
================================================================================
