-------------------------- MODULE SessionLogin_proofs --------------------------
(***************************************************************************)
(* For every number of epochs and whatever results and methods Steam may   *)
(* answer with: a call of the login finds its data, Steam's log-off finds  *)
(* the future of the epoch whose task did the login and stays there until  *)
(* it is acted on, and there is one login in a process.                    *)
(***************************************************************************)
EXTENDS SteamSession_proofs

Elements(s) == { s[i] : i \in DOMAIN s }

Distinct(s) == \A i, j \in DOMAIN s : s[i] = s[j] => i = j

(* Who waits on the queue of calls, and which tasks there are.             *)
TasksOfEpochs ==
    /\ Distinct(getters)
    /\ \A e \in Elements(getters) : task[e].at = "get"
    /\ \A e \in Epochs : e > epoch => task[e].at = "none"
    /\ sup \in Waits => epoch \in Epochs

(* Steam has accepted the task's token, whether or not the task knows.     *)
LoggedIn(e) == task[e].at = "done" \/ (task[e].at = "logon" /\ task[e].result = "OK")

NoCall == wsQueue = <<>> /\ \A e \in Epochs : ~Serving(e)

(* A task is over when it answered the last call there will be.            *)
DoneMeansOver ==
    (\E e \in Epochs : task[e].at = "done") =>
       /\ NoCall /\ plugin.at \in {"await", "connected", "failed"}
       /\ plugin.at = "await" => plugin.call = "token" /\ plQueue = <<"NoActionRequired">>

SessionHasLogin == session = "on" => \E e \in Epochs : LoggedIn(e)

(* A log-off of this epoch was of the only session there will be.          *)
LogOffIsLast ==
    sup \in Waits /\ authLost[epoch] # "pending" =>
       session = "off" /\ \E e \in Epochs : LoggedIn(e)

HandlerIsCurrent ==
    sup \in Waits /\ task[epoch].at = "done" /\ session = "on" => handler = epoch

LoginInv == DoneMeansOver /\ SessionHasLogin /\ LogOffIsLast /\ HandlerIsCurrent

Base == TypeOK /\ OneCallInFlight /\ Paired

--------------------------------------------------------------------------------
(* The queue of waiting tasks.                                             *)
LEMMA TailDistinct ==
    ASSUME NEW S, NEW s \in Seq(S), s # <<>>, Distinct(s)
    PROVE  Distinct(Tail(s)) /\ Elements(Tail(s)) = Elements(s) \ {Head(s)}
  <1>1. /\ Len(s) \in Nat /\ Len(s) >= 1 /\ DOMAIN s = 1 .. Len(s)
        /\ DOMAIN Tail(s) = 1 .. Len(s) - 1 /\ Head(s) = s[1]
    OBVIOUS
  <1>2. \A i \in 1 .. Len(s) - 1 : Tail(s)[i] = s[i + 1]
    OBVIOUS
  <1>3. Distinct(Tail(s))
    <2> SUFFICES ASSUME NEW i \in 1 .. Len(s) - 1, NEW j \in 1 .. Len(s) - 1,
                        s[i + 1] = s[j + 1]
                 PROVE  i = j
      BY <1>1, <1>2 DEF Distinct
    <2>1. i + 1 \in DOMAIN s /\ j + 1 \in DOMAIN s
      BY <1>1
    <2>2. i + 1 = j + 1
      BY <2>1 DEF Distinct
    <2> QED
      BY <2>2
  <1>4. ASSUME NEW x \in Elements(Tail(s)) PROVE x \in Elements(s) \ {Head(s)}
    <2>1. PICK i \in 1 .. Len(s) - 1 : x = s[i + 1]
      BY <1>1, <1>2, <1>4 DEF Elements
    <2>2. i + 1 \in DOMAIN s /\ 1 \in DOMAIN s /\ i + 1 # 1
      BY <1>1
    <2> QED
      BY <1>1, <2>1, <2>2 DEF Elements, Distinct
  <1>5. ASSUME NEW x \in Elements(s) \ {Head(s)} PROVE x \in Elements(Tail(s))
    <2>1. PICK i \in 1 .. Len(s) : x = s[i] /\ i # 1
      BY <1>1, <1>5 DEF Elements
    <2>2. i - 1 \in 1 .. Len(s) - 1 /\ (i - 1) + 1 = i
      BY <1>1, <2>1
    <2>3. Tail(s)[i - 1] = x
      BY <1>2, <2>1, <2>2
    <2> QED
      BY <1>1, <2>2, <2>3 DEF Elements
  <1> QED
    BY <1>3, <1>4, <1>5

LEMMA AppendDistinct ==
    ASSUME NEW S, NEW s \in Seq(S), NEW x \in S, Distinct(s), x \notin Elements(s)
    PROVE  Distinct(Append(s, x)) /\ Elements(Append(s, x)) = Elements(s) \cup {x}
  <1>1. /\ Len(s) \in Nat /\ DOMAIN s = 1 .. Len(s)
        /\ DOMAIN Append(s, x) = 1 .. Len(s) + 1 /\ Append(s, x)[Len(s) + 1] = x
    OBVIOUS
  <1>2. \A i \in 1 .. Len(s) : Append(s, x)[i] = s[i] /\ s[i] # x
    BY <1>1 DEF Elements
  <1>3. 1 .. Len(s) + 1 = (1 .. Len(s)) \cup {Len(s) + 1} /\ Len(s) + 1 \notin 1 .. Len(s)
    BY <1>1
  <1>4. Distinct(Append(s, x))
    BY <1>1, <1>2, <1>3 DEF Distinct
  <1>5. Elements(Append(s, x)) = Elements(s) \cup {x}
    BY <1>1, <1>2, <1>3 DEF Elements
  <1> QED
    BY <1>4, <1>5

(* The task that takes a call: it has answered and waits again, or it has  *)
(* sent an RPC, or failed.                                                 *)
LEMMA TakeMoves ==
    ASSUME TypeOK, OneCallInFlight, TasksOfEpochs, TakeCall
    PROVE  /\ plQueue = <<>> /\ wsQueue # <<>> /\ wsQueue' = <<>>
           /\ \A f \in Epochs : ~Serving(f)
           /\ plugin.at \in {"await", "failed"}
           /\ UNCHANGED <<plugin, caches, supervisor, connection>>
           /\ \E e \in Elements(getters), point \in Rpcs \cup Exceptions \cup {"get", "died"} :
                 /\ e \in Epochs /\ task[e].at = "get" /\ e = Head(getters) /\ getters # <<>>
                 /\ task' = [task EXCEPT ![e] = At(point)]
                 /\ \/ point # "get" /\ plQueue' = <<>> /\ getters' = Tail(getters)
                    \/ /\ point = "get" /\ plQueue' = <<"InvalidAuthData">>
                       /\ getters' = Append(Tail(getters), e)
  <1> DEFINE e == Head(getters)
             m == Head(wsQueue)
  <1>1. /\ plQueue = <<>> /\ wsQueue # <<>> /\ wsQueue' = <<>> /\ m \in Calls
        /\ \A f \in Epochs : ~Serving(f)
        /\ plugin.at \notin {"start", "page", "connected"}
    BY CallAlone DEF TakeCall, CallWaits
  <1>2. plugin.at \in {"await", "failed"}
    BY <1>1, DialogueFields DEF TypeOK
  <1>3. UNCHANGED <<plugin, caches, supervisor, connection>>
    BY DEF TakeCall, CallWaits
  <1>4. e \in Epochs /\ e \in Elements(getters) /\ getters # <<>>
    <2>1. getters # <<>> /\ getters \in Seq(Epochs)
      BY DEF TakeCall, CallWaits, TypeOK
    <2>2. 1 \in DOMAIN getters /\ getters[1] = e
      BY <2>1
    <2> QED
      BY <2>1, <2>2, HeadTail DEF Elements
  <1>5. task[e].at = "get"
    BY <1>4 DEF TasksOfEpochs
  <1>6. CASE m.blank \/ (m.call = "update" /\ ~ValidPolling)
    <2>1. Reply(e, "InvalidAuthData", Tail(getters))
      BY <1>6 DEF TakeCall, CallWaits
    <2>2. /\ task' = [task EXCEPT ![e] = At("get")] /\ plQueue' = <<"InvalidAuthData">>
          /\ getters' = Append(Tail(getters), e)
      BY <1>1, <2>1 DEF Reply
    <2> HIDE DEF e
    <2> QED
      BY <1>1, <1>2, <1>3, <1>4, <1>5, <2>2 DEF e
  <1>7. CASE ~(m.blank \/ (m.call = "update" /\ ~ValidPolling))
    <2>1. /\ getters' = Tail(getters) /\ plQueue' = <<>>
          /\ \E point \in {RpcOf(m)} \cup Exceptions \cup {"died"} :
                task' = [task EXCEPT ![e] = At(point)]
      BY <1>1, <1>7 DEF TakeCall, Send, Fail, Exceptions
    <2>2. RpcOf(m) \in Rpcs
      BY <1>1 DEF Calls, RpcOf, Rpcs
    <2>3. "get" \notin Rpcs \cup Exceptions \cup {"died"}
      BY DEF Rpcs, Exceptions
    <2> HIDE DEF e, m
    <2> QED
      BY <1>1, <1>2, <1>3, <1>4, <1>5, <2>1, <2>2, <2>3 DEF e
  <1> QED
    BY <1>6, <1>7

(* A task that resumes is one that has its answer: accepted by Steam it    *)
(* watches over the session and is over, otherwise it is not.              *)
LEMMA ResumeLogin ==
    ASSUME TypeOK, NEW e \in Epochs, ResumeStep(e)
    PROVE  /\ \E t : task' = [task EXCEPT ![e] = t]
           /\ LoggedIn(e) =>
                /\ task'[e].at = "done" /\ handler' = e /\ Reply(e, "NoActionRequired", getters)
                /\ task[e].at = "logon"
           /\ ~LoggedIn(e) =>
                /\ task'[e].at # "done" /\ ~LoggedIn(e)'
                /\ getters' = getters \/ (getters' = Append(getters, e) /\ task'[e].at = "get")
  <1>1. task[e].at \in Rpcs /\ task[e].at # "done" /\ task[e].result # "none"
    BY ResumeMoves DEF Rpcs
  <1>2. TranslateError(task[e].result) \in Exceptions
    BY <1>1, AnswerTypes, TranslateErrorType DEF TypeOK
  <1>3. \A p \in Exceptions \cup {"died", "get"} : p # "done" /\ p # "logon"
    BY DEF Exceptions
  <1>4. CASE LoggedIn(e)
    <2>1. task[e].at = "logon" /\ task[e].result = "OK"
      BY <1>1, <1>4 DEF LoggedIn
    <2>2. LogonResumes(e)
      BY <2>1 DEF ResumeStep, RsaResumes, LoginResumes, UpdateResumes, PollResumes, Resumes
    <2>3. Watch(e) /\ Reply(e, "NoActionRequired", getters)
      BY <2>1, <2>2 DEF LogonResumes
    <2>4. task' = [task EXCEPT ![e] = At("done")]
      BY <2>3 DEF Reply
    <2>5. task'[e].at = "done"
      BY <2>4, AtPoint DEF TypeOK
    <2> QED
      BY <1>4, <2>1, <2>3, <2>4, <2>5 DEF Watch
  <1>5. CASE ~LoggedIn(e)
    <2>1. ASSUME NEW action, action # "NoActionRequired", Reply(e, action, getters)
          PROVE  /\ task' = [task EXCEPT ![e] = At("get")]
                 /\ getters' = Append(getters, e)
      BY <2>1 DEF Reply
    <2>2. ASSUME NEW point \in Exceptions \cup {"died", "get", "login"},
                 task' = [task EXCEPT ![e] = At(point)]
          PROVE  task'[e].at = point /\ task'[e].at # "done" /\ ~LoggedIn(e)'
      <3>1. task'[e] = At(point) /\ At(point).at = point
        BY <2>2, AtPoint DEF TypeOK
      <3> QED
        BY <1>3, <3>1 DEF LoggedIn
    <2>3. CASE RsaResumes(e)
      <3>1. CASE task[e].result = "OK"
        <4>1. Send(e, "login") /\ getters' = getters
          BY <2>3, <3>1 DEF RsaResumes
        <4>2. \E point \in Exceptions \cup {"died", "login"} : task' = [task EXCEPT ![e] = At(point)]
          BY <4>1 DEF Send, Exceptions
        <4> QED
          BY <1>5, <2>2, <4>1, <4>2
      <3>2. CASE task[e].result # "OK"
        BY <1>5, <2>1, <2>2, <2>3, <3>2 DEF RsaResumes
      <3> QED
        BY <3>1, <3>2
    <2>4. ASSUME NEW x \in Exceptions, Fail(e, x), getters' = getters
          PROVE  /\ \E t : task' = [task EXCEPT ![e] = t]
                 /\ task'[e].at # "done" /\ ~LoggedIn(e)'
      <3>1. \E point \in Exceptions \cup {"died"} : task' = [task EXCEPT ![e] = At(point)]
        BY <2>4 DEF Fail
      <3> QED
        BY <2>2, <3>1
    <2>5. ASSUME NEW action, action # "NoActionRequired", Reply(e, action, getters)
          PROVE  /\ \E t : task' = [task EXCEPT ![e] = t]
                 /\ task'[e].at # "done" /\ ~LoggedIn(e)'
                 /\ getters' = Append(getters, e) /\ task'[e].at = "get"
      BY <2>1, <2>2, <2>5
    <2>6. CASE LoginResumes(e)
      BY <1>2, <1>5, <2>4, <2>5, <2>6 DEF LoginResumes
    <2>7. CASE UpdateResumes(e)
      <3>1. \A r \in DOMAIN CodeAction : CodeAction[r] # "NoActionRequired"
        BY DEF CodeAction
      <3> QED
        BY <1>2, <1>5, <2>4, <2>5, <2>7, <3>1 DEF UpdateResumes
    <2>8. CASE PollResumes(e)
      <3>1. \A result, hasToken, isConfirm :
               PollAction(result, hasToken, isConfirm) # "NoActionRequired"
        BY DEF PollAction
      <3> QED
        BY <1>2, <1>5, <2>4, <2>5, <2>8, <3>1 DEF PollResumes
    <2>9. CASE LogonResumes(e)
      <3>1. task[e].result # "OK"
        BY <1>5, <2>9 DEF LogonResumes, Resumes, LoggedIn
      <3> QED
        BY <1>2, <1>5, <2>4, <2>5, <2>9, <3>1 DEF LogonResumes
    <2> QED
      BY <2>3, <2>6, <2>7, <2>8, <2>9 DEF ResumeStep
  <1> QED
    BY <1>4, <1>5

(* What Steam's answer changes: the task it is for now has a result.       *)
LEMMA AnswerMoves ==
    ASSUME TypeOK, NEW e \in Epochs, AnswerStep(e)
    PROVE  /\ UNCHANGED <<plugin, wsQueue, plQueue, polling, supervisor, handler, getters>>
           /\ Serving(e) /\ ~LoggedIn(e)
           /\ \A f \in Epochs : task'[f].at = task[f].at /\ (f # e => task'[f] = task[f])
           /\ session' = session \/ LoggedIn(e)'
           /\ runTask' \in {runTask, "ProgrammingError"}
  <1>1. CASE RefuseRsa(e)
    <2>1. task[e].at = "rsa"
      BY <1>1, AtPoint DEF RefuseRsa
    <2> QED
      BY <1>1, <2>1 DEF RefuseRsa, dialogue, supervisor, caches, tasks, Serving, Rpcs, LoggedIn
  <1>2. ASSUME NEW rpcs \in SUBSET Rpcs, NEW result, NEW data, Answered(e, rpcs, result, data)
        PROVE  /\ UNCHANGED <<plugin, wsQueue, plQueue, polling, supervisor, handler, getters>>
               /\ Serving(e) /\ ~LoggedIn(e) /\ runTask' = runTask
               /\ \A f \in Epochs : task'[f].at = task[f].at /\ (f # e => task'[f] = task[f])
               /\ task'[e].at = task[e].at /\ task'[e].result = result
    <2>1. Serving(e) /\ ~LoggedIn(e)
      <3>1. task[e].at \in Rpcs /\ task[e].result = "none" /\ task[e].at # "done"
        BY <1>2 DEF Answered, Rpcs
      <3> QED
        BY <3>1 DEF Serving, LoggedIn
    <2>2. task' = [task EXCEPT ![e].result = result, ![e].data = data] /\ task \in [Epochs -> TaskStates]
      BY <1>2 DEF Answered, TypeOK
    <2>3. \A f \in Epochs : f # e => task'[f] = task[f]
      BY <2>2
    <2>4. task'[e].at = task[e].at /\ task'[e].result = result
      <3>1. task[e] \in TaskStates
        BY <2>2
      <3>2. "at" \in DOMAIN task[e] /\ "result" \in DOMAIN task[e]
        BY <3>1 DEF TaskStates
      <3> QED
        BY <2>2, <3>2
    <2> QED
      BY <1>2, <2>1, <2>3, <2>4 DEF Answered
  <1>3. ASSUME NEW result, AnswerLogon(e, result)
        PROVE  Answered(e, {"logon"}, result, {}) /\ (session' = session \/ (result = "OK" /\ task[e].at = "logon"))
    BY <1>3 DEF AnswerLogon, Answered
  <1>4. {"rsa"} \in SUBSET Rpcs /\ {"login"} \in SUBSET Rpcs /\ {"update"} \in SUBSET Rpcs
        /\ {"poll", "pollConfirm"} \in SUBSET Rpcs /\ {"logon"} \in SUBSET Rpcs
    BY DEF Rpcs
  <1>5. CASE \E result \in Results : AnswerRsa(e, result)
    BY <1>2, <1>4, <1>5 DEF AnswerRsa
  <1>6. CASE \E result \in Results, offered \in Confirmations : AnswerLogin(e, result, offered)
    BY <1>2, <1>4, <1>6 DEF AnswerLogin
  <1>7. CASE \E result \in Results : AnswerUpdate(e, result)
    BY <1>2, <1>4, <1>7 DEF AnswerUpdate
  <1>8. CASE \E result \in Results, token \in SUBSET {"refresh_token"} : AnswerPoll(e, result, token)
    BY <1>2, <1>4, <1>8 DEF AnswerPoll
  <1>9. CASE \E result \in Results : AnswerLogon(e, result)
    BY <1>2, <1>3, <1>4, <1>9 DEF LoggedIn
  <1> QED
    BY <1>1, <1>5, <1>6, <1>7, <1>8, <1>9 DEF AnswerStep

(* The supervisor starts an epoch, with a session that was kept or with    *)
(* none; or it is not in an epoch afterwards; or it goes on to its second  *)
(* wait.                                                                   *)
LEMMA EpochMoves ==
    ASSUME TypeOK, SupervisorStep
    PROVE  \/ /\ epoch' = epoch + 1 /\ epoch + 1 \in Epochs /\ sup' = "firstWait"
              /\ task' = [task EXCEPT ![epoch + 1] = At("get")]
              /\ getters' = Append(getters, epoch + 1)
              /\ authLost'[epoch'] = "pending"
              /\ session' \in {"off", session} /\ runTask' = "running" /\ info' = info
           \/ /\ epoch' = epoch /\ sup' \notin Waits /\ getters' = getters
              /\ \/ UNCHANGED <<task, session, runTask, info>>
                 \/ \/ session' = "off" /\ CloseConnection
                    \/ session' = session /\ KeepTasks
           \/ /\ sup \in Waits
              /\ UNCHANGED <<epoch, authLost, task, getters, session, handler, runTask, info>>
  <1>1. CASE Connect \/ KeepConnection
    <2>1. epoch + 1 \in Epochs /\ epoch' = epoch + 1 /\ sup' = "firstWait"
      BY <1>1, EpochAssumption DEF Connect, KeepConnection, StartTasks, TypeOK, Epochs
    <2>2. authLost' = [authLost EXCEPT ![epoch + 1] = "pending"]
      BY <1>1 DEF Connect, KeepConnection, StartTasks
    <2>3. authLost'[epoch'] = "pending"
      BY <2>1, <2>2 DEF TypeOK
    <2> QED
      BY <1>1, <2>1, <2>3 DEF Connect, KeepConnection, StartTasks, caches
  <1>2. CASE AttemptFails
    BY <1>2 DEF AttemptFails, connection, tasks, caches, Waits
  <1>3. CASE \E exception \in ListErrors : ListFails(exception)
    BY <1>3 DEF ListFails, connection, tasks, caches, Waits
  <1>4. ASSUME NEW exception, Handle(exception)
        PROVE  /\ sup' \notin Waits
               /\ \/ session' = "off" /\ CloseConnection
                  \/ session' = session /\ KeepTasks
    BY <1>4 DEF Handle, CloseConnection, KeepTasks, Waits
  <1>5. CASE FirstWait
    <2>1. CASE task[epoch].at \in Exceptions
      BY <1>4, <1>5, <2>1 DEF FirstWait
    <2>2. CASE task[epoch].at \notin Exceptions
      BY <1>5, <2>2 DEF FirstWait, connection, Waits
    <2> QED
      BY <2>1, <2>2
  <1>6. CASE SecondWait
    <2>1. \/ sup' = "ended" /\ CloseConnection
          \/ \E exception : Handle(exception)
      BY <1>6 DEF SecondWait
    <2> QED
      BY <1>4, <1>6, <2>1 DEF SecondWait, CloseConnection, Waits
  <1> QED
    BY <1>1, <1>2, <1>3, <1>5, <1>6 DEF SupervisorStep

(* Closing or keeping a connection leaves a task that is over, waits or is *)
(* not there as it is.                                                     *)
LEMMA CloseMoves ==
    ASSUME TypeOK, CloseConnection \/ KeepTasks, NEW f \in Epochs
    PROVE  /\ task[f].at \in {"none", "get", "done"} => task'[f] = task[f]
           /\ task'[f].at \in {"none", "get", "done"} \cup Rpcs \cup Exceptions => task'[f] = task[f]
           /\ KeepTasks /\ task[f].at \in Rpcs => task'[f] = task[f]
  <1>1. \A p \in {"none", "get", "done"} : p \notin Rpcs /\ p \notin Exceptions
    BY DEF Rpcs, Exceptions
  <1>2. {"stuck", "died"} \cap ({"none", "get", "done"} \cup Rpcs \cup Exceptions) = {}
        /\ Rpcs \cap Exceptions = {}
    BY DEF Rpcs, Exceptions
  <1>3. CASE CloseConnection
    <2>1. task'[f] = CASE task[f].at \in Rpcs       -> At("stuck")
                       [] task[f].at \in Exceptions -> At("died")
                       [] OTHER                     -> task[f]
      BY <1>3 DEF CloseConnection
    <2>2. task[f].at \in Rpcs => task'[f].at = "stuck"
      BY <1>2, <2>1, AtPoint
    <2>3. task[f].at \in Exceptions => task'[f].at = "died"
      BY <1>2, <2>1, AtPoint
    <2>4. task[f].at \notin Rpcs \cup Exceptions => task'[f] = task[f]
      BY <2>1
    <2>5. KeepTasks /\ task[f].at \in Rpcs => task'[f] = task[f]
      BY <1>2 DEF KeepTasks
    <2> QED
      BY <1>1, <1>2, <2>2, <2>3, <2>4, <2>5
  <1>4. CASE KeepTasks
    <2>1. task'[f] = IF task[f].at \in Exceptions THEN At("died") ELSE task[f]
      BY <1>4 DEF KeepTasks
    <2> QED
      BY <1>1, <1>2, <2>1, AtPoint
  <1> QED
    BY <1>3, <1>4

LEMMA TasksStep ==
    TypeOK /\ OneCallInFlight /\ TasksOfEpochs /\ [Next]_vars => TasksOfEpochs'
  <1> SUFFICES ASSUME TypeOK, OneCallInFlight, TasksOfEpochs, [Next]_vars
               PROVE  TasksOfEpochs'
    OBVIOUS
  <1> USE DEF dialogue, caches, supervisor, connection, tasks
  <1>1. /\ getters \in Seq(Epochs) /\ task \in [Epochs -> TaskStates]
        /\ epoch \in Nat /\ \A e \in Epochs : e \in Nat
        /\ Distinct(getters) /\ \A e \in Elements(getters) : task[e].at = "get"
        /\ \A e \in Epochs : e > epoch => task[e].at = "none"
        /\ Elements(getters) \subseteq Epochs
    BY EpochAssumption DEF TypeOK, Epochs, TasksOfEpochs, Elements
  <1>2. ASSUME UNCHANGED <<epoch, getters>>, \A f \in Epochs : task'[f].at = task[f].at,
               sup' \in Waits => sup \in Waits
        PROVE  TasksOfEpochs'
    BY <1>1, <1>2 DEF TasksOfEpochs
  <1>3. CASE DialogueStep
    BY <1>2, <1>3 DEF DialogueStep, Authenticate, SubmitLogin, SubmitCode, PressConfirm, Submit,
                      Receive, TimeOut, Waits
  <1>4. CASE TakeCall
    <2>1. PICK e \in Elements(getters), point \in Rpcs \cup Exceptions \cup {"get", "died"} :
             /\ e \in Epochs /\ task[e].at = "get" /\ e = Head(getters) /\ getters # <<>>
             /\ task' = [task EXCEPT ![e] = At(point)]
             /\ \/ getters' = Tail(getters)
                \/ point = "get" /\ getters' = Append(Tail(getters), e)
      BY <1>4, TakeMoves
    <2>2. /\ Distinct(Tail(getters)) /\ Elements(Tail(getters)) = Elements(getters) \ {e}
          /\ Tail(getters) \in Seq(Epochs)
      BY <1>1, <2>1, TailDistinct, HeadTail
    <2>3. \A f \in Epochs : task'[f].at = IF f = e THEN point ELSE task[f].at
      BY <1>1, <2>1, AtPoint
    <2>4. ~(e > epoch)
      BY <1>1, <2>1
    <2>5. \A f \in Epochs : f > epoch => task'[f].at = "none"
      BY <1>1, <2>3, <2>4
    <2>6. UNCHANGED <<sup, epoch>>
      BY <1>4 DEF TakeCall, CallWaits
    <2>7. CASE getters' = Tail(getters)
      BY <1>1, <2>2, <2>3, <2>5, <2>6, <2>7 DEF TasksOfEpochs
    <2>8. CASE point = "get" /\ getters' = Append(Tail(getters), e)
      <3>1. Distinct(getters') /\ Elements(getters') = Elements(getters)
        <4> DEFINE rest == Tail(getters)
        <4>1. rest \in Seq(Epochs) /\ Distinct(rest) /\ e \in Epochs /\ e \notin Elements(rest)
          BY <2>1, <2>2
        <4>2. (Elements(getters) \ {e}) \cup {e} = Elements(getters)
          BY <2>1
        <4>3. Distinct(Append(rest, e)) /\ Elements(Append(rest, e)) = Elements(rest) \cup {e}
          <5> HIDE DEF rest
          <5> QED
            BY <4>1, AppendDistinct
        <4> QED
          BY <2>2, <2>8, <4>2, <4>3
      <3> QED
        BY <1>1, <2>3, <2>5, <2>6, <2>8, <3>1 DEF TasksOfEpochs
    <2> QED
      BY <2>1, <2>7, <2>8
  <1>5. ASSUME NEW e \in Epochs, AnswerStep(e)
        PROVE  TasksOfEpochs'
    BY <1>2, <1>5, AnswerMoves
  <1>6. ASSUME NEW e \in Epochs, ResumeStep(e)
        PROVE  TasksOfEpochs'
    <2>1. /\ task[e].at \in Rpcs /\ UNCHANGED <<sup, epoch>>
          /\ \E t : task' = [task EXCEPT ![e] = t]
      BY <1>6, ResumeMoves, ResumeLogin
    <2>2. e \notin Elements(getters) /\ ~(e > epoch)
      BY <1>1, <2>1 DEF Rpcs
    <2>3. \A f \in Epochs : f # e => task'[f] = task[f]
      BY <2>1
    <2>4. \A f \in Epochs : f > epoch => task'[f].at = "none"
      BY <1>1, <2>2, <2>3
    <2>5. getters' = getters \/ (getters' = Append(getters, e) /\ task'[e].at = "get")
      BY <1>6, ResumeLogin DEF Reply
    <2>6. CASE getters' = getters
      BY <1>1, <2>1, <2>2, <2>3, <2>4, <2>6 DEF TasksOfEpochs
    <2>7. CASE getters' = Append(getters, e) /\ task'[e].at = "get"
      <3>1. Distinct(getters') /\ Elements(getters') = Elements(getters) \cup {e}
        BY <1>1, <2>2, <2>7, AppendDistinct
      <3> QED
        BY <1>1, <2>1, <2>2, <2>3, <2>4, <2>7, <3>1 DEF TasksOfEpochs
    <2> QED
      BY <2>5, <2>6, <2>7
  <1>7. CASE NetworkStep
    BY <1>2, <1>7 DEF NetworkStep, VolunteerLogon, LogOff, SocketCloses, ReceiveFails
  <1>8. CASE SupervisorStep
    <2>1. ASSUME epoch' = epoch + 1, epoch + 1 \in Epochs, getters' = Append(getters, epoch + 1),
                 task' = [task EXCEPT ![epoch + 1] = At("get")]
          PROVE  TasksOfEpochs'
      <3>1. epoch + 1 > epoch /\ task[epoch + 1].at = "none"
        BY <1>1, <2>1
      <3>2. epoch + 1 \notin Elements(getters)
        BY <1>1, <3>1
      <3>3. Distinct(getters') /\ Elements(getters') = Elements(getters) \cup {epoch + 1}
        BY <1>1, <2>1, <3>2, AppendDistinct
      <3>4. \A f \in Epochs : task'[f].at = IF f = epoch + 1 THEN "get" ELSE task[f].at
        BY <1>1, <2>1, AtPoint
      <3>5. \A f \in Epochs : f > epoch' => f > epoch /\ f # epoch + 1
        BY <1>1, <2>1
      <3>6. \A f \in Epochs : f > epoch' => task'[f].at = "none"
        BY <1>1, <3>4, <3>5
      <3>7. epoch' \in Epochs
        BY <2>1
      <3>8. \A f \in Elements(getters') : task'[f].at = "get"
        <4> SUFFICES ASSUME NEW f \in Elements(getters')
                     PROVE  task'[f].at = "get"
          OBVIOUS
        <4>1. f \in Elements(getters) \/ f = epoch + 1
          BY <3>3
        <4>2. f \in Epochs
          BY <1>1, <2>1, <4>1
        <4> QED
          BY <1>1, <3>4, <4>1, <4>2
      <3> QED
        BY <3>3, <3>6, <3>7, <3>8 DEF TasksOfEpochs
    <2>2. ASSUME epoch' = epoch, getters' = getters, sup' \notin Waits,
                 CloseConnection \/ KeepTasks
          PROVE  TasksOfEpochs'
      <3>1. \A f \in Epochs : task[f].at \in {"none", "get"} => task'[f] = task[f]
        BY <2>2, CloseMoves
      <3> QED
        BY <1>1, <2>2, <3>1 DEF TasksOfEpochs
    <2>3. ASSUME UNCHANGED <<epoch, getters, task>>, sup' \in Waits => sup \in Waits
          PROVE  TasksOfEpochs'
      BY <1>2, <2>3
    <2>4. \/ /\ epoch' = epoch + 1 /\ epoch + 1 \in Epochs
             /\ task' = [task EXCEPT ![epoch + 1] = At("get")]
             /\ getters' = Append(getters, epoch + 1)
          \/ /\ epoch' = epoch /\ sup' \notin Waits /\ getters' = getters
             /\ task' = task \/ CloseConnection \/ KeepTasks
          \/ sup \in Waits /\ UNCHANGED <<epoch, task, getters>>
      BY <1>8, EpochMoves
    <2>5. CASE /\ epoch' = epoch + 1 /\ epoch + 1 \in Epochs
               /\ task' = [task EXCEPT ![epoch + 1] = At("get")]
               /\ getters' = Append(getters, epoch + 1)
      BY <2>1, <2>5
    <2>6. CASE /\ epoch' = epoch /\ sup' \notin Waits /\ getters' = getters
               /\ task' = task \/ CloseConnection \/ KeepTasks
      <3>1. CASE task' = task
        BY <2>3, <2>6, <3>1
      <3>2. CASE CloseConnection \/ KeepTasks
        BY <2>2, <2>6, <3>2
      <3> QED
        BY <2>6, <3>1, <3>2
    <2>7. CASE sup \in Waits /\ UNCHANGED <<epoch, task, getters>>
      BY <2>3, <2>7
    <2> QED
      BY <2>4, <2>5, <2>6, <2>7
  <1>9. CASE UNCHANGED vars
    BY <1>2, <1>9 DEF vars
  <1> QED
    BY <1>3, <1>4, <1>5, <1>6, <1>7, <1>8, <1>9 DEF Next

--------------------------------------------------------------------------------
(* The session, its task and its watcher.                                  *)
LEMMA LoginStep ==
    Base /\ TasksOfEpochs /\ LoginInv /\ [Next]_vars => LoginInv'
  <1> SUFFICES ASSUME TypeOK, OneCallInFlight, Paired, TasksOfEpochs, LoginInv, [Next]_vars
               PROVE  LoginInv'
    BY DEF Base
  <1> USE DEF dialogue, caches, supervisor, connection, tasks
  <1>1. \A f \in Epochs : task[f].at = "logon" => Serving(f)
    BY DEF Serving, Rpcs
  <1>2. ASSUME UNCHANGED <<task, session, epoch, authLost, handler>>,
               sup' \in Waits => sup \in Waits, DoneMeansOver'
        PROVE  LoginInv'
    BY <1>2 DEF LoginInv, SessionHasLogin, LogOffIsLast, HandlerIsCurrent, LoggedIn
  <1>3. ASSUME UNCHANGED <<task, session, epoch, authLost, handler>>,
               sup' \in Waits => sup \in Waits, UNCHANGED <<plugin, wsQueue, plQueue>>
        PROVE  LoginInv'
    <2>1. DoneMeansOver'
      BY <1>3 DEF LoginInv, DoneMeansOver, NoCall, Serving
    <2> QED
      BY <1>2, <1>3, <2>1
  <1>4. CASE DialogueStep
    <2>1. /\ UNCHANGED <<task, session, epoch, authLost, handler>>
          /\ sup' \in Waits => sup \in Waits
      BY <1>4 DEF DialogueStep, Authenticate, SubmitLogin, SubmitCode, PressConfirm, Submit,
                  Receive, TimeOut, Waits
    <2>2. ASSUME NEW e \in Epochs, task[e].at = "done"
          PROVE  /\ wsQueue' = <<>> /\ plugin'.at \in {"connected", "failed"}
      <3>1. /\ NoCall /\ plugin.at \in {"await", "connected", "failed"}
            /\ plugin.at = "await" => plugin.call = "token" /\ plQueue = <<"NoActionRequired">>
        BY <2>2 DEF LoginInv, DoneMeansOver
      <3>2. CASE Receive
        <4>1. plugin.call = "token" /\ Head(plQueue) = "NoActionRequired"
          BY <3>1, <3>2 DEF Receive
        <4>2. plugin' = AfterToken(Head(plQueue), plugin.page)
          BY <3>2, <4>1 DEF Receive, GoOn
        <4>3. AfterToken("NoActionRequired", plugin.page) = Ended("connected")
          BY DEF AfterToken
        <4>4. plugin'.at = "connected" /\ plugin'.at # "await"
          BY <4>1, <4>2, <4>3 DEF Ended
        <4>5. wsQueue' = wsQueue
          BY <3>2, <4>1, <4>2, <4>4 DEF Receive, GoOn
        <4> QED
          BY <3>1, <4>4, <4>5 DEF NoCall
      <3>3. CASE TimeOut
        BY <3>1, <3>3 DEF TimeOut, Ended, NoCall
      <3> QED
        BY <1>4, <3>1, <3>2, <3>3 DEF DialogueStep, Authenticate, SubmitLogin, SubmitCode,
                                      PressConfirm, Submit
    <2>3. DoneMeansOver'
      BY <2>1, <2>2 DEF LoginInv, DoneMeansOver, NoCall, Serving
    <2> QED
      BY <1>2, <2>1, <2>3
  <1>5. CASE TakeCall
    <2>1. \A f \in Epochs : task[f].at # "done"
      BY <1>5, TakeMoves DEF LoginInv, DoneMeansOver, NoCall
    <2>2. PICK e \in Epochs, point \in Rpcs \cup Exceptions \cup {"get", "died"} :
             task[e].at = "get" /\ task' = [task EXCEPT ![e] = At(point)]
      BY <1>5, TakeMoves
    <2>3. \A f \in Epochs : f # e => task'[f] = task[f]
      BY <2>2
    <2>4. task'[e].at # "done"
      BY <2>2, AtPoint DEF TypeOK, Rpcs, Exceptions
    <2>5. ~LoggedIn(e)
      BY <2>2 DEF LoggedIn
    <2>6. UNCHANGED <<session, sup, epoch, authLost, handler>>
      BY <1>5 DEF TakeCall, CallWaits
    <2>7. (\E f \in Epochs : LoggedIn(f)) => (\E f \in Epochs : LoggedIn(f)')
      BY <2>3, <2>5 DEF LoggedIn
    <2>8. sup \in Waits => epoch \in Epochs
      BY DEF TasksOfEpochs
    <2>9. \A f \in Epochs : task'[f].at # "done"
      BY <2>1, <2>3, <2>4
    <2> QED
      BY <2>6, <2>7, <2>8, <2>9
         DEF LoginInv, DoneMeansOver, SessionHasLogin, LogOffIsLast, HandlerIsCurrent
  <1>6. ASSUME NEW e \in Epochs, Serving(e)
        PROVE  /\ \A f \in Epochs : task[f].at # "done"
               /\ \A f \in Epochs : LoggedIn(f) => f = e
    <2>1. \A f \in Epochs : task[f].at # "done"
      BY <1>6 DEF LoginInv, DoneMeansOver, NoCall
    <2>2. \A f \in Epochs : Serving(f) => f = e
      BY <1>6, ServingAlone
    <2> QED
      BY <1>1, <2>1, <2>2 DEF LoggedIn
  <1>7. ASSUME NEW e \in Epochs, AnswerStep(e)
        PROVE  LoginInv'
    <2>1. /\ UNCHANGED <<sup, epoch, authLost>>
          /\ Serving(e) /\ ~LoggedIn(e)
          /\ \A f \in Epochs : task'[f].at = task[f].at
          /\ session' = session \/ LoggedIn(e)'
      BY <1>7, AnswerMoves
    <2>2. \A f \in Epochs : task[f].at # "done" /\ ~LoggedIn(f)
      BY <1>6, <2>1
    <2>3. session # "on" /\ (sup \in Waits => authLost[epoch] = "pending")
      BY <2>2 DEF LoginInv, SessionHasLogin, LogOffIsLast
    <2>4. sup \in Waits => epoch \in Epochs
      BY DEF TasksOfEpochs
    <2> QED
      BY <2>1, <2>2, <2>3, <2>4
         DEF LoginInv, DoneMeansOver, SessionHasLogin, LogOffIsLast, HandlerIsCurrent
  <1>8. ASSUME NEW e \in Epochs, ResumeStep(e)
        PROVE  LoginInv'
    <2>1. /\ UNCHANGED <<plugin, wsQueue, sup, epoch, authLost, session>>
          /\ Serving(e) /\ task[e].at \in Rpcs
      BY <1>8, ResumeMoves DEF Serving
    <2>2. \A f \in Epochs : task[f].at # "done" /\ (LoggedIn(f) => f = e)
      BY <1>6, <2>1
    <2>3. \A f \in Epochs : f # e => task'[f] = task[f]
      <3>1. PICK t : task' = [task EXCEPT ![e] = t]
        BY <1>8, ResumeLogin
      <3> QED
        BY <3>1 DEF TypeOK
    <2>4. sup \in Waits => epoch \in Epochs
      BY DEF TasksOfEpochs
    <2>5. CASE LoggedIn(e)
      <3>1. /\ task'[e].at = "done" /\ handler' = e /\ task[e].at = "logon"
            /\ Reply(e, "NoActionRequired", getters)
        BY <1>8, <2>5, ResumeLogin
      <3>2. /\ wsQueue = <<>> /\ plQueue = <<>>
            /\ plugin.at \in {"await", "failed"} /\ \A f \in Epochs : Serving(f) => f = e
        BY <2>1, ServingAlone, DialogueFields DEF TypeOK
      <3>3. plugin.at = "await" => plugin.call = "token"
        BY <3>1 DEF Paired, CallOfRpc, Rpcs
      <3>4. plQueue' = <<"NoActionRequired">>
        BY <3>1, <3>2 DEF Reply
      <3>5. \A f \in Epochs : ~Serving(f)'
        <4>1. task'[e].at \notin Rpcs \cup {"stuck"}
          BY <3>1 DEF Rpcs
        <4> QED
          BY <2>3, <3>2, <4>1 DEF Serving
      <3>6. DoneMeansOver'
        BY <2>1, <3>2, <3>3, <3>4, <3>5 DEF DoneMeansOver, NoCall
      <3>7. SessionHasLogin' /\ LogOffIsLast'
        <4>1. LoggedIn(e)'
          BY <3>1 DEF LoggedIn
        <4>2. sup \in Waits /\ authLost[epoch] # "pending" => session = "off"
          BY DEF LoginInv, LogOffIsLast
        <4> QED
          BY <2>1, <4>1, <4>2 DEF SessionHasLogin, LogOffIsLast
      <3>8. HandlerIsCurrent'
        BY <2>1, <2>2, <2>3, <2>4, <3>1 DEF HandlerIsCurrent
      <3> QED
        BY <3>6, <3>7, <3>8 DEF LoginInv
    <2>6. CASE ~LoggedIn(e)
      <3>1. task'[e].at # "done"
        BY <1>8, <2>6, ResumeLogin
      <3>2. \A f \in Epochs : task'[f].at # "done"
        BY <2>2, <2>3, <3>1
      <3>3. session # "on" /\ (sup \in Waits => authLost[epoch] = "pending")
        BY <2>2, <2>6 DEF LoginInv, SessionHasLogin, LogOffIsLast
      <3> QED
        BY <2>1, <2>4, <3>2, <3>3
           DEF LoginInv, DoneMeansOver, SessionHasLogin, LogOffIsLast, HandlerIsCurrent
    <2> QED
      BY <2>5, <2>6
  <1>9. ASSUME NEW result, LogOff(result)
        PROVE  LoginInv'
    <2>1. /\ UNCHANGED <<plugin, wsQueue, plQueue, task, sup, epoch>>
          /\ session = "on" /\ session' = "off"
      BY <1>9 DEF LogOff
    <2>2. \E f \in Epochs : LoggedIn(f)
      BY <2>1 DEF LoginInv, SessionHasLogin
    <2>3. DoneMeansOver'
      BY <2>1 DEF LoginInv, DoneMeansOver, NoCall, Serving
    <2> QED
      BY <2>1, <2>2, <2>3
         DEF LoginInv, SessionHasLogin, LogOffIsLast, HandlerIsCurrent, LoggedIn
  <1>10. CASE NetworkStep
    <2>1. CASE \E result : LogOff(result)
      BY <1>9, <2>1
    <2>2. CASE (\E result : VolunteerLogon(result)) \/ SocketCloses \/ ReceiveFails
      BY <1>3, <2>2 DEF VolunteerLogon, SocketCloses, ReceiveFails
    <2> QED
      BY <1>10, <2>1, <2>2 DEF NetworkStep
  <1>11. CASE SupervisorStep
    <2>1. UNCHANGED <<plugin, wsQueue, plQueue>>
      BY <1>11, SupervisorMoves
    <2>2. ASSUME \A f \in Epochs : task'[f].at \in Rpcs \cup {"done"} => task'[f] = task[f],
                 \A f \in Epochs : task[f].at = "done" /\ task'[f].at = "stuck" => FALSE
          PROVE  DoneMeansOver'
      <3> SUFFICES ASSUME NEW e \in Epochs, task'[e].at = "done"
                   PROVE  /\ NoCall' /\ plugin.at \in {"await", "connected", "failed"}
                          /\ plugin.at = "await" =>
                               plugin.call = "token" /\ plQueue = <<"NoActionRequired">>
        BY <2>1 DEF DoneMeansOver
      <3>1. task[e].at = "done"
        BY <2>2
      <3>2. /\ NoCall /\ plugin.at \in {"await", "connected", "failed"}
            /\ plugin.at = "await" =>
                 plugin.call = "token" /\ plQueue = <<"NoActionRequired">>
        BY <3>1 DEF LoginInv, DoneMeansOver
      <3>3. \A f \in Epochs : Serving(f)' => Serving(f)
        <4>1. CASE CloseConnection \/ KeepTasks
          BY <4>1, CloseInFlight
        <4>2. CASE \A f \in Epochs : task'[f] = task[f] \/ task'[f] = At("get")
          BY <4>2, AtPoint DEF Serving, Rpcs
        <4> QED
          BY <1>11, <4>1, <4>2, EpochMoves DEF TypeOK
      <3> QED
        BY <2>1, <3>2, <3>3 DEF NoCall
    <2>3. ASSUME epoch' = epoch + 1, epoch + 1 \in Epochs,
                 task' = [task EXCEPT ![epoch + 1] = At("get")],
                 authLost'[epoch'] = "pending", session' \in {"off", session}
          PROVE  LoginInv'
      <3>1. /\ \A f \in Epochs : f # epoch + 1 => task'[f] = task[f]
            /\ task'[epoch + 1].at = "get"
        BY <2>3, AtPoint DEF TypeOK
      <3>2. task[epoch + 1].at = "none"
        <4>1. epoch + 1 > epoch
          BY DEF TypeOK
        <4> QED
          BY <2>3, <4>1 DEF TasksOfEpochs
      <3>3. DoneMeansOver'
        BY <2>2, <3>1 DEF Rpcs
      <3>4. (\E f \in Epochs : LoggedIn(f)) => (\E f \in Epochs : LoggedIn(f)')
        BY <3>1, <3>2 DEF LoggedIn
      <3> QED
        BY <2>3, <3>1, <3>3, <3>4
           DEF LoginInv, SessionHasLogin, LogOffIsLast, HandlerIsCurrent
    <2>4. ASSUME sup' \notin Waits, UNCHANGED <<task, session>>
          PROVE  LoginInv'
      BY <2>1, <2>4 DEF LoginInv, DoneMeansOver, NoCall, Serving, SessionHasLogin,
                        LogOffIsLast, HandlerIsCurrent, LoggedIn
    <2>5. ASSUME sup' \notin Waits, CloseConnection \/ KeepTasks,
                 session' = "off" \/ (session' = session /\ KeepTasks)
          PROVE  LoginInv'
      <3>1. \A f \in Epochs : task'[f].at \in Rpcs \cup {"done"} => task'[f] = task[f]
        BY <2>5, CloseMoves
      <3>2. \A f \in Epochs : task[f].at = "done" => task'[f] = task[f]
        BY <2>5, CloseMoves
      <3>3. DoneMeansOver'
        BY <2>2, <3>1, <3>2
      <3>4. ASSUME KeepTasks, NEW f \in Epochs, LoggedIn(f)
            PROVE  LoggedIn(f)'
        <4>1. task[f].at \in Rpcs \cup {"done"}
          BY <3>4 DEF LoggedIn, Rpcs
        <4>2. task'[f] = task[f]
          BY <3>2, <3>4, <4>1, CloseMoves
        <4> QED
          BY <3>4, <4>2 DEF LoggedIn
      <3>5. SessionHasLogin'
        BY <2>5, <3>4 DEF LoginInv, SessionHasLogin
      <3> QED
        BY <2>5, <3>3, <3>5 DEF LoginInv, LogOffIsLast, HandlerIsCurrent
    <2> QED
      BY <1>3, <1>11, <2>1, <2>3, <2>4, <2>5, EpochMoves
  <1>12. CASE UNCHANGED vars
    BY <1>3, <1>12 DEF vars
  <1> QED
    BY <1>4, <1>5, <1>7, <1>8, <1>10, <1>11, <1>12 DEF Next

LEMMA LoginInit == Init => TasksOfEpochs /\ LoginInv
  <1> SUFFICES ASSUME Init
               PROVE  TasksOfEpochs /\ LoginInv
    OBVIOUS
  <1>1. /\ getters = <<>> /\ sup \notin Waits /\ session = "off"
        /\ \A e \in Epochs : task[e].at = "none"
    BY AtPoint DEF Init, Waits
  <1>2. Distinct(getters) /\ Elements(getters) = {}
    BY <1>1 DEF Distinct, Elements
  <1> QED
    BY <1>1, <1>2 DEF TasksOfEpochs, LoginInv, DoneMeansOver, SessionHasLogin, LogOffIsLast,
                      HandlerIsCurrent

(* Where the task of the current epoch did the login, Steam's log-off goes *)
(* to the future the supervisor waits on, and finds it pending             *)
(* (websocket_client.py 238-240): nothing else is answered after the last  *)
(* answer, so nothing replaces that task's watcher.                        *)
THEOREM WatcherCurrent == Spec => []WatcherIsCurrent
  <1>1. Init => TasksOfEpochs /\ LoginInv
    BY LoginInit
  <1>2. TasksOfEpochs /\ LoginInv => WatcherIsCurrent
    BY DEF TasksOfEpochs, LoginInv, LogOffIsLast, HandlerIsCurrent, WatcherIsCurrent
  <1>3. TypeOK /\ OneCallInFlight /\ Paired => Base
    BY DEF Base
  <1>4. Base => TypeOK /\ OneCallInFlight
    BY DEF Base
  <1> QED
    BY <1>1, <1>2, <1>3, <1>4, TasksStep, LoginStep, AlwaysPaired, PTL DEF Spec

--------------------------------------------------------------------------------
(* The data of a call.  A task that failed leaves no call under way, so    *)
(* that the supervisor, which clears the user's data, finds none queued.   *)
FailedHasNoCall ==
    (\E e \in Epochs : task[e].at \in Exceptions) =>
        NoCall /\ plQueue = <<>> /\ plugin.at \in {"await", "failed"}

(* The receive task dies of no exception that clears the user's data.      *)
RunTaskOther == runTask # "AuthenticationRequired"

(* A dialogue that has reached the second factor has polling data.         *)
NeedsPolling(d) ==
    \/ d.at = "await" /\ d.call \in {"update", "poll"}
    \/ d.at = "page" /\ d.page # "Login"

DialogueHasItsData ==
    \/ NeedsPolling(plugin)
    \/ /\ plugin.at = "await" /\ plugin.call = "login"
       /\ \E i \in DOMAIN plQueue : plQueue[i] = "TwoFactorRequired"
    => ValidPolling

DataInv == FailedHasNoCall /\ RunTaskOther /\ DialogueHasItsData /\ CallsHaveTheirData

LEMMA FailedStep ==
    Base /\ TasksOfEpochs /\ FailedHasNoCall /\ [Next]_vars => FailedHasNoCall'
  <1> SUFFICES ASSUME TypeOK, OneCallInFlight, TasksOfEpochs, FailedHasNoCall, [Next]_vars
               PROVE  FailedHasNoCall'
    BY DEF Base
  <1> USE DEF dialogue, caches, supervisor, connection, tasks
  <1>1. \A p \in Rpcs \cup {"get", "done", "none", "stuck", "died"} : p \notin Exceptions
    BY DEF Rpcs, Exceptions
  <1>2. ASSUME UNCHANGED <<plugin, plQueue, wsQueue>>, \A f \in Epochs : Serving(f)' => Serving(f),
               \A f \in Epochs : task'[f].at \in Exceptions => task[f].at \in Exceptions
        PROVE  FailedHasNoCall'
    BY <1>2 DEF FailedHasNoCall, NoCall
  <1>3. ASSUME \A f \in Epochs : task[f].at \notin Exceptions,
               \A f \in Epochs : task'[f].at = task[f].at
        PROVE  FailedHasNoCall'
    BY <1>3 DEF FailedHasNoCall
  <1>4. CASE DialogueStep
    <2>1. task' = task
      BY <1>4 DEF DialogueStep, Authenticate, SubmitLogin, SubmitCode, PressConfirm, Submit,
                  Receive, TimeOut
    <2>2. CASE TimeOut
      BY <2>2 DEF TimeOut, Ended, FailedHasNoCall, NoCall, Serving
    <2>3. CASE plugin.at \in {"start", "page"} \/ plQueue # <<>>
      BY <1>3, <2>1, <2>3 DEF FailedHasNoCall
    <2> QED
      BY <1>4, <2>2, <2>3 DEF DialogueStep, Authenticate, SubmitLogin, SubmitCode, PressConfirm,
                              Submit, Receive
  <1>5. CASE TakeCall
    <2>1. /\ plQueue = <<>> /\ wsQueue # <<>> /\ wsQueue' = <<>> /\ plugin' = plugin
          /\ plugin.at \in {"await", "failed"} /\ \A f \in Epochs : ~Serving(f)
      BY <1>5, TakeMoves
    <2>2. PICK e \in Epochs, point \in Rpcs \cup Exceptions \cup {"get", "died"} :
             /\ task' = [task EXCEPT ![e] = At(point)]
             /\ point # "get" => plQueue' = <<>>
      BY <1>5, TakeMoves
    <2>3. \A f \in Epochs : task[f].at \notin Exceptions
      BY <2>1 DEF FailedHasNoCall, NoCall
    <2>4. \A f \in Epochs : task'[f].at = IF f = e THEN point ELSE task[f].at
      BY <2>2, AtPoint DEF TypeOK
    <2>5. CASE point \in Exceptions
      <3>1. \A f \in Epochs : ~Serving(f)'
        BY <1>1, <2>1, <2>4, <2>5 DEF Serving
      <3>2. point # "get"
        BY <1>1, <2>5
      <3> QED
        BY <2>1, <2>2, <3>1, <3>2 DEF FailedHasNoCall, NoCall
    <2>6. CASE point \notin Exceptions
      BY <2>3, <2>4, <2>6 DEF FailedHasNoCall
    <2> QED
      BY <2>5, <2>6
  <1>6. ASSUME NEW e \in Epochs, Serving(e)
        PROVE  /\ \A f \in Epochs : task[f].at \notin Exceptions
               /\ wsQueue = <<>> /\ plQueue = <<>> /\ \A f \in Epochs : Serving(f) => f = e
               /\ plugin.at \in {"await", "failed"}
    BY <1>6, ServingAlone, DialogueFields DEF FailedHasNoCall, NoCall, TypeOK
  <1>7. ASSUME NEW e \in Epochs, AnswerStep(e)
        PROVE  FailedHasNoCall'
    BY <1>3, <1>6, <1>7, AnswerMoves
  <1>8. ASSUME NEW e \in Epochs, ResumeStep(e)
        PROVE  FailedHasNoCall'
    <2>1. /\ Serving(e) /\ UNCHANGED <<plugin, wsQueue>>
          /\ \/ \E action : Reply(e, action, getters)
             \/ Send(e, "login") /\ UNCHANGED plQueue
             \/ \E x \in Exceptions : Fail(e, x) /\ UNCHANGED plQueue
      BY <1>8, ResumeMoves DEF Serving
    <2>2. PICK point \in Exceptions \cup {"get", "done", "died", "login"} :
             /\ task' = [task EXCEPT ![e] = At(point)]
             /\ point \in Exceptions => UNCHANGED plQueue
      BY <1>1, <2>1 DEF Reply, Send, Fail, Exceptions
    <2>3. \A f \in Epochs : task'[f].at = IF f = e THEN point ELSE task[f].at
      BY <2>2, AtPoint DEF TypeOK
    <2>4. CASE point \in Exceptions
      <3>1. \A f \in Epochs : ~Serving(f)'
        BY <1>1, <1>6, <2>1, <2>3, <2>4 DEF Serving
      <3> QED
        BY <1>6, <2>1, <2>2, <2>4, <3>1 DEF FailedHasNoCall, NoCall
    <2>5. CASE point \notin Exceptions
      BY <1>6, <2>1, <2>3, <2>5 DEF FailedHasNoCall
    <2> QED
      BY <2>4, <2>5
  <1>9. CASE NetworkStep
    BY <1>2, <1>9 DEF NetworkStep, VolunteerLogon, LogOff, SocketCloses, ReceiveFails, Serving
  <1>10. CASE SupervisorStep
    <2>1. UNCHANGED <<plugin, wsQueue, plQueue>>
      BY <1>10, SupervisorMoves
    <2>2. \A f \in Epochs : task'[f] = task[f] \/ task'[f].at \in {"get", "stuck", "died"}
      BY <1>10, SupervisorMoves
    <2>3. \A f \in Epochs : task'[f].at \in Exceptions => task[f].at \in Exceptions
      BY <1>1, <2>2
    <2>4. \A f \in Epochs : Serving(f)' => Serving(f)
      <3>1. CASE CloseConnection \/ KeepTasks
        BY <3>1, CloseInFlight
      <3>2. CASE \A f \in Epochs : task'[f] = task[f] \/ task'[f] = At("get")
        BY <3>2, AtPoint DEF Serving, Rpcs
      <3> QED
        BY <1>10, <3>1, <3>2, EpochMoves DEF TypeOK
    <2> QED
      BY <1>2, <2>1, <2>3, <2>4
  <1>11. CASE UNCHANGED vars
    BY <1>2, <1>11 DEF vars, Serving
  <1> QED
    BY <1>4, <1>5, <1>7, <1>8, <1>9, <1>10, <1>11 DEF Next

LEMMA RunTaskStep == TypeOK /\ RunTaskOther /\ [Next]_vars => RunTaskOther'
  <1> SUFFICES ASSUME TypeOK, RunTaskOther, [Next]_vars
               PROVE  RunTaskOther'
    OBVIOUS
  <1> USE DEF RunTaskOther, dialogue, caches, supervisor, connection, tasks
  <1>1. CASE DialogueStep
    BY <1>1 DEF DialogueStep, Authenticate, SubmitLogin, SubmitCode, PressConfirm, Submit,
                Receive, TimeOut
  <1>2. CASE TakeCall
    BY <1>2 DEF TakeCall, CallWaits
  <1>3. ASSUME NEW e \in Epochs, AnswerStep(e) \/ ResumeStep(e)
        PROVE  RunTaskOther'
    BY <1>3, AnswerMoves, ResumeMoves
  <1>4. CASE NetworkStep
    <2>1. \A result \in Unsolicited : TranslateError(result) # "AuthenticationRequired"
      BY ResultAssumption DEF TranslateError
    <2> QED
      BY <1>4, <2>1 DEF NetworkStep, VolunteerLogon, LogOff, SocketCloses, ReceiveFails
  <1>5. CASE SupervisorStep
    BY <1>5 DEF SupervisorStep, Connect, KeepConnection, StartTasks, AttemptFails, ListFails,
                FirstWait, SecondWait, Handle
  <1>6. CASE UNCHANGED vars
    BY <1>6 DEF vars
  <1> QED
    BY <1>1, <1>2, <1>3, <1>4, <1>5, <1>6 DEF Next

(* What the dialogue goes on with has its data, if the state it goes on to *)
(* has.                                                                    *)
LEMMA GoOnData ==
    ASSUME TypeOK, NEW next, NEW blank, GoOn(next, blank), wsQueue = <<>>, plQueue' = <<>>,
           UNCHANGED polling, NeedsPolling(next) => ValidPolling,
           next.at = "await" /\ next.call = "token" => info' = Fields
    PROVE  DialogueHasItsData' /\ CallsHaveTheirData'
  <1>1. plugin' = next /\ (ValidPolling => ValidPolling') /\ (ValidPolling' => polling' # NoPolling)
    BY DEF GoOn, ValidPolling
  <1>2. DialogueHasItsData'
    BY <1>1 DEF DialogueHasItsData, NeedsPolling
  <1>3. CASE next.at = "await"
    <2> DEFINE m == [call |-> next.call, page |-> next.page, blank |-> blank]
    <2>1. wsQueue' = <<m>> /\ m.call = next.call
      BY <1>3 DEF GoOn
    <2> HIDE DEF m
    <2>2. m.call \in {"update", "poll"} => ValidPolling' /\ polling' # NoPolling
      BY <1>1, <1>3, <2>1 DEF NeedsPolling
    <2>3. m.call = "token" => info' = Fields
      BY <1>3, <2>1
    <2>4. \A i \in DOMAIN wsQueue' : wsQueue'[i] = m
      BY <2>1
    <2> QED
      BY <1>2, <2>2, <2>3, <2>4 DEF CallsHaveTheirData, HasItsData
  <1>4. CASE next.at # "await"
    BY <1>2, <1>4 DEF GoOn, CallsHaveTheirData
  <1> QED
    BY <1>3, <1>4

(* Where an answer leads: to a page or a call that needs polling data only *)
(* from one that had them or a login that was accepted, to a token login   *)
(* only with the user's data.                                              *)
LEMMA AfterData ==
    ASSUME NEW action, NEW page \in Pages \cup {"None"}
    PROVE  /\ action \in Dialogue!AnswersTo["login"] =>
                /\ NeedsPolling(AfterLogin(action)) => action = "TwoFactorRequired"
                /\ AfterLogin(action).call # "token"
           /\ AfterUpdate(action, page).call # "token"
           /\ AfterPoll(action, page).call = "token" => info = Fields
           /\ ~NeedsPolling(AfterToken(action, page)) /\ AfterToken(action, page).call # "token"
  <1>1. action \in Dialogue!AnswersTo["login"] => action \in {"TwoFactorRequired", "InvalidAuthData"}
    BY DEF Dialogue!AnswersTo
  <1>2. /\ \A how : Ended(how).call = "none" /\ (how \in {"connected", "failed"} => ~NeedsPolling(Ended(how)))
        /\ \A p : Page(p).call = "none" /\ Page(p).at = "page" /\ Page(p).page = p
        /\ \A p : Await("poll", p).call = "poll" /\ Await("token", p).call = "token"
    BY DEF Ended, Page, Await, NeedsPolling
  <1>3. ~NeedsPolling(Page("Login"))
    BY <1>2 DEF NeedsPolling
  <1>4. AfterLogin(action).call # "token"
    BY <1>2 DEF AfterLogin
  <1>5. action = "InvalidAuthData" => AfterLogin(action) = Page("Login")
    BY DEF AfterLogin
  <1>6. AfterUpdate(action, page).call # "token"
    BY <1>2 DEF AfterUpdate
  <1>7. AfterPoll(action, page).call = "token" => info = Fields
    BY <1>2 DEF AfterPoll
  <1>8. AfterToken(action, page) \in {Ended("connected"), Ended("failed"), Page("Login")}
    BY DEF AfterToken
  <1> QED
    BY <1>1, <1>2, <1>3, <1>4, <1>5, <1>6, <1>7, <1>8

LEMMA DialogueData ==
    ASSUME Base, DataInv, DialogueStep
    PROVE  DialogueHasItsData' /\ CallsHaveTheirData'
  <1> USE DEF dialogue, caches, supervisor, connection, tasks
  <1>1. TypeOK /\ OneCallInFlight /\ Paired /\ DialogueHasItsData /\ CallsHaveTheirData
    BY DEF Base, DataInv
  <1>2. plugin \in Dialogues /\ plQueue \in Seq(UserActionRequired)
    BY <1>1 DEF TypeOK
  <1>3. plugin.at \in {"start", "page"} => wsQueue = <<>> /\ plQueue = <<>>
    BY <1>1 DEF OneCallInFlight
  <1>4. ASSUME NEW stored \in {{}, Fields}, Authenticate(stored)
        PROVE  DialogueHasItsData' /\ CallsHaveTheirData'
    <2> DEFINE next == IF stored = Fields THEN Await("token", "Stored") ELSE Page("Login")
    <2>1. GoOn(next, FALSE) /\ plQueue' = <<>> /\ UNCHANGED polling /\ info' = stored /\ wsQueue = <<>>
      BY <1>3, <1>4 DEF Authenticate
    <2>2. ~NeedsPolling(next) /\ (next.at = "await" => stored = Fields)
      BY DEF NeedsPolling, Await, Page
    <2> HIDE DEF next
    <2> QED
      BY <1>1, <2>1, <2>2, GoOnData
  <1>5. ASSUME NEW next, NEW blank, Submit(next, blank), NeedsPolling(next) => ValidPolling,
               next.call # "token"
        PROVE  DialogueHasItsData' /\ CallsHaveTheirData'
    <2>1. GoOn(next, blank) /\ plQueue' = <<>> /\ UNCHANGED polling /\ wsQueue = <<>>
      BY <1>3, <1>5 DEF Submit
    <2> QED
      BY <1>1, <1>5, <2>1, GoOnData
  <1>6. CASE \E blank \in BOOLEAN : SubmitLogin(blank)
    <2>1. ~NeedsPolling(Await("login", "Login")) /\ Await("login", "Login").call # "token"
      BY DEF NeedsPolling, Await
    <2> QED
      BY <1>5, <1>6, <2>1 DEF SubmitLogin
  <1>7. CASE \E page \in {"Mail", "Mobile"}, blank \in BOOLEAN : SubmitCode(page, blank)
    <2>1. plugin.at = "page" /\ plugin.page # "Login"
      BY <1>7 DEF SubmitCode, Submit
    <2>2. ValidPolling
      BY <1>1, <2>1 DEF DialogueHasItsData, NeedsPolling
    <2>3. \A page : Await("update", page).call # "token"
      BY DEF Await
    <2> QED
      BY <1>5, <1>7, <2>2, <2>3 DEF SubmitCode
  <1>8. CASE PressConfirm
    <2>1. plugin.at = "page" /\ plugin.page # "Login"
      BY <1>8 DEF PressConfirm, Submit
    <2>2. ValidPolling
      BY <1>1, <2>1 DEF DialogueHasItsData, NeedsPolling
    <2>3. Await("poll", "Confirm").call # "token"
      BY DEF Await
    <2> QED
      BY <1>5, <1>8, <2>2, <2>3 DEF PressConfirm
  <1>9. CASE Receive
    <2> DEFINE action == Head(plQueue)
               next == CASE plugin.call = "login"  -> AfterLogin(action)
                         [] plugin.call = "update" -> AfterUpdate(action, plugin.page)
                         [] plugin.call = "poll"   -> AfterPoll(action, plugin.page)
                         [] plugin.call = "token"  -> AfterToken(action, plugin.page)
    <2>1. /\ plugin.at = "await" /\ plQueue # <<>> /\ plQueue' = Tail(plQueue)
          /\ GoOn(next, FALSE) /\ UNCHANGED polling
          /\ plugin.page # "Stored" => info' = info
      BY <1>9 DEF Receive
    <2>2. /\ wsQueue = <<>> /\ plQueue' = <<>> /\ action = plQueue[1] /\ 1 \in DOMAIN plQueue
      BY <1>1, <2>1, AnswerAlone
    <2>3. action \in Dialogue!AnswersTo[plugin.call]
      BY <1>1, <2>1, <2>2 DEF Paired
    <2>4. /\ plugin.call \in CallNames
          /\ plugin.call # "token" => plugin.page \in Pages \cup {"None"}
      <3>1. PICK m \in Calls : plugin = Await(m.call, m.page)
        BY <1>2, <2>1 DEF Dialogues, Ended, Page
      <3>2. m.call \in CallNames /\ (m.call # "token" => m.page \in Pages \cup {"None"})
        BY DEF Calls, CallNames, Pages
      <3> QED
        BY <3>1, <3>2 DEF Await
    <2>5. plugin.call = "login" /\ action = "TwoFactorRequired" => ValidPolling
      BY <1>1, <2>1, <2>2 DEF DialogueHasItsData
    <2>6. plugin.call \in {"update", "poll"} => ValidPolling
      BY <1>1, <2>1 DEF DialogueHasItsData, NeedsPolling
    <2> HIDE DEF action
    <2>7. NeedsPolling(next) => ValidPolling
      <3>1. CASE plugin.call = "login"
        BY <2>3, <2>4, <2>5, <3>1, AfterData
      <3>2. CASE plugin.call \in {"update", "poll"}
        BY <2>6, <3>2
      <3>3. CASE plugin.call = "token"
        <4>1. next = AfterToken(action, plugin.page)
          BY <3>3
        <4>2. AfterToken(action, plugin.page) \in {Ended("connected"), Ended("failed"), Page("Login")}
          BY DEF AfterToken
        <4> HIDE DEF next
        <4> QED
          BY <4>1, <4>2 DEF NeedsPolling, Ended, Page
      <3> QED
        BY <2>4, <3>1, <3>2, <3>3 DEF CallNames
    <2>8. next.at = "await" /\ next.call = "token" => info' = Fields
      <3>1. CASE plugin.call = "token"
        <4>1. next = AfterToken(action, plugin.page)
          BY <3>1
        <4>2. AfterToken(action, plugin.page) \in {Ended("connected"), Ended("failed"), Page("Login")}
          BY DEF AfterToken
        <4> HIDE DEF next
        <4> QED
          BY <4>1, <4>2 DEF Ended, Page
      <3>2. CASE plugin.call \in {"login", "update", "poll"}
        <4>1. info' = info /\ plugin.page \in Pages \cup {"None"}
          BY <2>1, <2>4, <3>2 DEF Pages
        <4>2. next.call = "token" => info = Fields
          BY <2>3, <3>2, <4>1, AfterData
        <4> QED
          BY <4>1, <4>2
      <3> QED
        BY <2>4, <3>1, <3>2 DEF CallNames
    <2> HIDE DEF next
    <2> QED
      BY <1>1, <2>1, <2>2, <2>7, <2>8, GoOnData
  <1>10. CASE TimeOut
    <2>1. plugin'.at = "failed" /\ UNCHANGED <<wsQueue, plQueue, caches>>
      BY <1>10 DEF TimeOut, Ended
    <2> QED
      BY <1>1, <2>1 DEF DialogueHasItsData, NeedsPolling, CallsHaveTheirData, HasItsData, ValidPolling
  <1> QED
    BY <1>4, <1>6, <1>7, <1>8, <1>9, <1>10 DEF DialogueStep

(* A task's step, while a call is being served or taken: none is queued    *)
(* afterwards, and the polling data change with a login's answer only.     *)
LEMMA TaskData ==
    ASSUME Base, TasksOfEpochs, DataInv, NEW e \in Epochs,
           TakeCall \/ AnswerStep(e) \/ ResumeStep(e)
    PROVE  DialogueHasItsData' /\ CallsHaveTheirData'
  <1> USE DEF dialogue, caches, supervisor, connection, tasks
  <1>1. TypeOK /\ OneCallInFlight /\ Paired /\ DialogueHasItsData
    BY DEF Base, DataInv
  <1>2. wsQueue' = <<>> => CallsHaveTheirData'
    BY DEF CallsHaveTheirData
  <1>3. ASSUME UNCHANGED <<plugin, polling>>, wsQueue' = <<>>,
               plQueue' = plQueue \/ \E action : plQueue' = <<action>> /\ action # "TwoFactorRequired"
        PROVE  DialogueHasItsData' /\ CallsHaveTheirData'
    <2>1. (\E i \in DOMAIN plQueue' : plQueue'[i] = "TwoFactorRequired")
          => (\E i \in DOMAIN plQueue : plQueue[i] = "TwoFactorRequired")
      BY <1>3
    <2>2. ValidPolling => ValidPolling'
      BY <1>3 DEF ValidPolling
    <2> QED
      BY <1>1, <1>2, <1>3, <2>1, <2>2 DEF DialogueHasItsData, NeedsPolling
  <1>4. CASE TakeCall
    <2>1. /\ UNCHANGED <<plugin, polling>> /\ wsQueue' = <<>> /\ plQueue = <<>>
          /\ plQueue' = <<>> \/ plQueue' = <<"InvalidAuthData">>
      BY <1>1, <1>4, TakeMoves
    <2> QED
      BY <1>3, <2>1
  <1>5. CASE AnswerStep(e)
    <2>1. UNCHANGED <<plugin, polling, wsQueue, plQueue>> /\ Serving(e)
      BY <1>1, <1>5, AnswerMoves
    <2> QED
      BY <1>1, <1>3, <2>1, ServingAlone
  <1>6. CASE ResumeStep(e)
    <2>1. /\ UNCHANGED <<plugin, wsQueue>> /\ task[e].at \in Rpcs /\ Serving(e)
      BY <1>1, <1>6, ResumeMoves DEF Serving
    <2>2. /\ wsQueue = <<>> /\ plQueue = <<>> /\ plugin.at \in {"await", "failed"}
      BY <1>1, <2>1, ServingAlone, DialogueFields DEF TypeOK
    <2>3. CASE LoginResumes(e)
      <3>1. task[e].at = "login"
        BY <2>3 DEF LoginResumes, Resumes
      <3>2. plugin.at = "await" => plugin.call = "login"
        BY <1>1, <2>1, <3>1 DEF Paired, CallOfRpc
      <3>3. ~NeedsPolling(plugin)
        BY <2>2, <3>2 DEF NeedsPolling
      <3>4. \/ plQueue' = <<>>
            \/ plQueue' = <<"InvalidAuthData">>
            \/ plQueue' = <<"TwoFactorRequired">> /\ ValidPolling'
        BY <2>2, <2>3 DEF LoginResumes, Reply, ValidPolling
      <3>5. DialogueHasItsData'
        <4>1. ~NeedsPolling(plugin')
          BY <2>1, <3>3
        <4>2. (\E i \in DOMAIN plQueue' : plQueue'[i] = "TwoFactorRequired") => ValidPolling'
          BY <3>4
        <4> QED
          BY <4>1, <4>2 DEF DialogueHasItsData
      <3> QED
        BY <1>2, <2>1, <2>2, <3>5
    <2>4. ASSUME UNCHANGED polling,
                 \/ UNCHANGED plQueue
                 \/ \E action : action # "TwoFactorRequired" /\ Reply(e, action, getters)
          PROVE  DialogueHasItsData' /\ CallsHaveTheirData'
      <3>1. plQueue' = plQueue \/ \E action : plQueue' = <<action>> /\ action # "TwoFactorRequired"
        BY <2>2, <2>4 DEF Reply
      <3> QED
        BY <1>3, <2>1, <2>2, <2>4, <3>1
    <2>5. CASE RsaResumes(e)
      BY <2>4, <2>5 DEF RsaResumes
    <2>6. CASE UpdateResumes(e)
      <3>1. \A r \in DOMAIN CodeAction : CodeAction[r] # "TwoFactorRequired"
        BY DEF CodeAction
      <3> QED
        BY <2>4, <2>6, <3>1 DEF UpdateResumes
    <2>7. CASE PollResumes(e)
      <3>1. \A result, hasToken, isConfirm :
               PollAction(result, hasToken, isConfirm) # "TwoFactorRequired"
        BY DEF PollAction
      <3> QED
        BY <2>4, <2>7, <3>1 DEF PollResumes
    <2>8. CASE LogonResumes(e)
      BY <2>4, <2>8 DEF LogonResumes
    <2> QED
      BY <1>6, <2>3, <2>5, <2>6, <2>7, <2>8 DEF ResumeStep
  <1> QED
    BY <1>4, <1>5, <1>6

LEMMA DataStep ==
    Base /\ TasksOfEpochs /\ LoginInv /\ DataInv /\ [Next]_vars => DataInv'
  <1> SUFFICES ASSUME Base, TasksOfEpochs, LoginInv, DataInv, [Next]_vars
               PROVE  DialogueHasItsData' /\ CallsHaveTheirData'
    BY FailedStep, RunTaskStep DEF DataInv, Base
  <1> USE DEF dialogue, caches, supervisor, connection, tasks
  <1>1. TypeOK /\ OneCallInFlight /\ DialogueHasItsData /\ CallsHaveTheirData
        /\ FailedHasNoCall /\ RunTaskOther
    BY DEF Base, DataInv
  <1>2. ASSUME UNCHANGED <<plugin, polling, plQueue, wsQueue>>, wsQueue = <<>> \/ UNCHANGED info
        PROVE  DialogueHasItsData' /\ CallsHaveTheirData'
    BY <1>1, <1>2 DEF DialogueHasItsData, NeedsPolling, CallsHaveTheirData, HasItsData, ValidPolling
  <1>3. CASE DialogueStep
    BY <1>3, DialogueData
  <1>4. CASE TakeCall
    <2>1. 1 \in Epochs
      BY EpochAssumption DEF Epochs
    <2> QED
      BY <1>4, <2>1, TaskData
  <1>5. CASE \E e \in Epochs : AnswerStep(e) \/ ResumeStep(e)
    BY <1>5, TaskData
  <1>6. CASE NetworkStep
    BY <1>2, <1>6 DEF NetworkStep, VolunteerLogon, LogOff, SocketCloses, ReceiveFails
  <1>7. CASE SupervisorStep
    <2>1. UNCHANGED <<plugin, polling, plQueue, wsQueue>>
      BY <1>7 DEF SupervisorStep, Connect, KeepConnection, StartTasks, AttemptFails, ListFails,
                  FirstWait, SecondWait
    <2>2. ASSUME NEW exception, Handle(exception), exception # "AuthenticationRequired"
          PROVE  UNCHANGED info
      BY <2>2 DEF Handle
    <2>3. CASE FirstWait
      <3>1. CASE task[epoch].at \in Exceptions
        <4>1. epoch \in Epochs
          BY <2>3 DEF FirstWait, TasksOfEpochs, Waits
        <4>2. wsQueue = <<>>
          BY <1>1, <3>1, <4>1 DEF FailedHasNoCall, NoCall
        <4> QED
          BY <1>2, <2>1, <4>2
      <3>2. CASE task[epoch].at \notin Exceptions
        BY <1>2, <2>1, <2>3, <3>2 DEF FirstWait
      <3> QED
        BY <3>1, <3>2
    <2>4. CASE SecondWait
      <3>1. CASE authLost[epoch] = "AuthenticationRequired"
        <4>1. \E f \in Epochs : LoggedIn(f)
          BY <2>4, <3>1 DEF SecondWait, LoginInv, LogOffIsLast, Waits
        <4>2. wsQueue = <<>>
          <5>1. CASE \E f \in Epochs : task[f].at = "done"
            BY <5>1 DEF LoginInv, DoneMeansOver, NoCall
          <5>2. CASE \E f \in Epochs : task[f].at = "logon"
            BY <1>1, <5>2, ServingAlone DEF Serving, Rpcs
          <5> QED
            BY <4>1, <5>1, <5>2 DEF LoggedIn
        <4> QED
          BY <1>2, <2>1, <4>2
      <3>2. CASE authLost[epoch] # "AuthenticationRequired"
        <4>1. UNCHANGED info
          BY <1>1, <2>2, <2>4, <3>2 DEF SecondWait, RunTaskOther
        <4> QED
          BY <1>2, <2>1, <4>1
      <3> QED
        BY <3>1, <3>2
    <2>5. CASE Connect \/ KeepConnection \/ AttemptFails \/ \E exception \in ListErrors : ListFails(exception)
      <3>1. UNCHANGED info
        BY <2>5 DEF Connect, KeepConnection, StartTasks, AttemptFails, ListFails
      <3> QED
        BY <1>2, <2>1, <3>1
    <2> QED
      BY <1>7, <2>3, <2>4, <2>5 DEF SupervisorStep
  <1>8. CASE UNCHANGED vars
    BY <1>2, <1>8 DEF vars
  <1> QED
    BY <1>3, <1>4, <1>5, <1>6, <1>7, <1>8 DEF Next

(* A queued call finds the data its task will read (websocket_client.py    *)
(* 284-297): what clears the user's data, the supervisor handling          *)
(* AuthenticationRequired (143-147), comes of a task that failed or of a   *)
(* log-off, and after either no call is queued.                            *)
THEOREM DataThere == Spec => []CallsHaveTheirData
  <1>1. Init => TasksOfEpochs /\ LoginInv /\ DataInv
    <2> SUFFICES ASSUME Init
                 PROVE  TasksOfEpochs /\ LoginInv /\ DataInv
      OBVIOUS
    <2>1. TasksOfEpochs /\ LoginInv
      BY LoginInit
    <2>2. /\ runTask = "none" /\ wsQueue = <<>> /\ plQueue = <<>> /\ plugin.at = "start"
          /\ \A e \in Epochs : task[e].at = "none"
      BY AtPoint DEF Init, Ended
    <2>3. FailedHasNoCall
      BY <2>2 DEF FailedHasNoCall, Exceptions
    <2> QED
      BY <2>1, <2>2, <2>3 DEF DataInv, RunTaskOther, DialogueHasItsData, NeedsPolling,
                              CallsHaveTheirData
  <1>2. DataInv => CallsHaveTheirData
    BY DEF DataInv
  <1>3. Base <=> TypeOK /\ OneCallInFlight /\ Paired
    BY DEF Base
  <1>4. Base => TypeOK /\ OneCallInFlight
    BY DEF Base
  <1> QED
    BY <1>1, <1>2, <1>3, <1>4, TasksStep, LoginStep, DataStep, AlwaysPaired, PTL DEF Spec

--------------------------------------------------------------------------------
(* A task whose login was accepted is over and stays so; the answer that   *)
(* ends the dialogue well was given by such a task.                        *)
HasDone == \E e \in Epochs : task[e].at = "done"

AcceptedIsDone ==
    plugin.at = "connected" \/ (\E i \in DOMAIN plQueue : plQueue[i] = "NoActionRequired")
        => HasDone

(* What a step does to the tasks that are over, and to the answers.        *)
LEMMA DoneMoves ==
    ASSUME Base, TasksOfEpochs, [Next]_vars
    PROVE  /\ \A f \in Epochs : task[f].at = "done" => task'[f] = task[f]
           /\ \A f \in Epochs : task'[f].at = "done" /\ task[f].at # "done" => Serving(f)
           /\ (\E i \in DOMAIN plQueue' : plQueue'[i] = "NoActionRequired") =>
                 \/ \E i \in DOMAIN plQueue : plQueue[i] = "NoActionRequired"
                 \/ \E f \in Epochs : task'[f].at = "done"
  <1> USE DEF dialogue, caches, supervisor, connection, tasks
  <1>1. TypeOK /\ OneCallInFlight /\ Paired /\ task \in [Epochs -> TaskStates]
    BY DEF Base, TypeOK
  <1>2. CASE DialogueStep
    <2>1. UNCHANGED task
      BY <1>2 DEF DialogueStep, Authenticate, SubmitLogin, SubmitCode, PressConfirm, Submit,
                  Receive, TimeOut
    <2>2. CASE Receive
      <3>1. plQueue' = <<>>
        BY <1>1, <2>2, AnswerAlone DEF Receive
      <3> QED
        BY <2>1, <3>1
    <2>3. CASE UNCHANGED plQueue
      BY <2>1, <2>3
    <2> QED
      BY <1>2, <2>2, <2>3 DEF DialogueStep, Authenticate, SubmitLogin, SubmitCode, PressConfirm,
                              Submit, TimeOut
  <1>3. CASE TakeCall
    <2>1. PICK e \in Epochs, point \in Rpcs \cup Exceptions \cup {"get", "died"} :
             /\ task[e].at = "get" /\ task' = [task EXCEPT ![e] = At(point)]
             /\ plQueue' \in {<<>>, <<"InvalidAuthData">>}
      BY <1>1, <1>3, TakeMoves
    <2>2. \A f \in Epochs : f # e => task'[f] = task[f]
      BY <1>1, <2>1
    <2>3. task'[e].at # "done"
      BY <1>1, <2>1, AtPoint DEF Rpcs, Exceptions
    <2> QED
      BY <2>1, <2>2, <2>3
  <1>4. ASSUME NEW e \in Epochs, AnswerStep(e)
        PROVE  /\ UNCHANGED plQueue /\ Serving(e)
               /\ \A f \in Epochs : task'[f].at = task[f].at /\ (f # e => task'[f] = task[f])
    BY <1>1, <1>4, AnswerMoves
  <1>5. CASE \E e \in Epochs : AnswerStep(e)
    <2>1. PICK e \in Epochs : AnswerStep(e)
      BY <1>5
    <2>2. task[e].at # "done"
      BY <1>4, <2>1 DEF Serving, Rpcs
    <2> QED
      BY <1>4, <2>1, <2>2
  <1>6. CASE \E e \in Epochs : ResumeStep(e)
    <2>1. PICK e \in Epochs : ResumeStep(e)
      BY <1>6
    <2>2. /\ task[e].at \in Rpcs /\ Serving(e)
          /\ (\E action : Reply(e, action, getters)) \/ UNCHANGED plQueue
      BY <1>1, <2>1, ResumeMoves DEF Serving
    <2>3. plQueue = <<>>
      BY <1>1, <2>2, ServingAlone
    <2>4. \A f \in Epochs : f # e => task'[f] = task[f]
      <3>1. PICK t : task' = [task EXCEPT ![e] = t]
        BY <1>1, <2>1, ResumeLogin
      <3> QED
        BY <1>1, <3>1
    <2>5. task[e].at # "done"
      BY <2>2 DEF Rpcs
    <2>6. (\E i \in DOMAIN plQueue' : plQueue'[i] = "NoActionRequired") => task'[e].at = "done"
      <3>1. ASSUME NEW action, Reply(e, action, getters), action = "NoActionRequired"
            PROVE  task'[e].at = "done"
        BY <1>1, <3>1, AtPoint DEF Reply
      <3>2. ASSUME NEW action, Reply(e, action, getters)
            PROVE  plQueue' = <<action>>
        BY <2>3, <3>2 DEF Reply
      <3> QED
        BY <2>2, <2>3, <3>1, <3>2
    <2> QED
      BY <2>2, <2>4, <2>5, <2>6
  <1>7. CASE NetworkStep
    BY <1>7 DEF NetworkStep, VolunteerLogon, LogOff, SocketCloses, ReceiveFails
  <1>8. CASE SupervisorStep
    <2>1. UNCHANGED plQueue
      BY <1>1, <1>8, SupervisorMoves
    <2>2. \A f \in Epochs : task'[f] = task[f] \/ task'[f].at # "done"
      BY <1>1, <1>8, SupervisorMoves
    <2>3. \A f \in Epochs : task[f].at = "done" => task'[f] = task[f]
      <3>1. CASE CloseConnection \/ KeepTasks
        BY <1>1, <3>1, CloseMoves
      <3>2. CASE UNCHANGED task
        BY <3>2
      <3>3. CASE epoch + 1 \in Epochs /\ task' = [task EXCEPT ![epoch + 1] = At("get")]
        <4>1. epoch + 1 > epoch
          BY <1>1 DEF TypeOK
        <4>2. task[epoch + 1].at = "none"
          BY <3>3, <4>1 DEF TasksOfEpochs
        <4> QED
          BY <1>1, <3>3, <4>2
      <3> QED
        BY <1>1, <1>8, <3>1, <3>2, <3>3, EpochMoves
    <2> QED
      BY <2>1, <2>2, <2>3
  <1>9. CASE UNCHANGED vars
    BY <1>9 DEF vars
  <1> QED
    BY <1>2, <1>3, <1>5, <1>6, <1>7, <1>8, <1>9 DEF Next

(* The user is told he is connected on that answer alone.                  *)
LEMMA ConnectedMoves ==
    ASSUME Base, [Next]_vars, plugin'.at = "connected", plugin.at # "connected"
    PROVE  \E i \in DOMAIN plQueue : plQueue[i] = "NoActionRequired"
  <1> USE DEF dialogue, caches, supervisor, connection, tasks
  <1>1. TypeOK /\ OneCallInFlight /\ Paired
    BY DEF Base
  <1>2. CASE Receive
    <2> DEFINE a == Head(plQueue)
    <2>1. /\ 1 \in DOMAIN plQueue /\ plQueue[1] = a
          /\ plugin.at = "await" /\ plugin.call \in CallNames
      BY <1>1, <1>2, AnswerAlone, DialogueCalls DEF Receive, TypeOK
    <2>2. plugin' \in {AfterLogin(a), AfterUpdate(a, plugin.page), AfterPoll(a, plugin.page),
                       AfterToken(a, plugin.page)}
      BY <1>2, <2>1 DEF Receive, GoOn, CallNames
    <2>3. \A call, page : Await(call, page).at = "await"
      BY DEF Await
    <2>4. Ended("failed").at = "failed"
      BY DEF Ended
    <2> HIDE DEF a
    <2>5. a = "NoActionRequired"
      BY <2>2, <2>3, <2>4, AfterMoves
    <2> QED
      BY <2>1, <2>5
  <1>3. ASSUME NEW next, NEW blank, GoOn(next, blank), next.at \in {"await", "page"}
        PROVE  FALSE
    BY <1>3 DEF GoOn
  <1>4. \A call, page : Await(call, page).at = "await" /\ Page(page).at = "page"
    BY DEF Await, Page
  <1>5. CASE \E stored \in {{}, Fields} : Authenticate(stored)
    <2>1. PICK stored : GoOn(IF stored = Fields THEN Await("token", "Stored") ELSE Page("Login"), FALSE)
      BY <1>5 DEF Authenticate
    <2>2. (IF stored = Fields THEN Await("token", "Stored") ELSE Page("Login")).at \in {"await", "page"}
      BY <1>4
    <2> QED
      BY <1>3, <2>1, <2>2
  <1>6. CASE (\E blank : SubmitLogin(blank)) \/ (\E page, blank : SubmitCode(page, blank)) \/ PressConfirm
    BY <1>3, <1>4, <1>6 DEF SubmitLogin, SubmitCode, PressConfirm, Submit
  <1>7. CASE TimeOut
    BY <1>7 DEF TimeOut, Ended
  <1>8. ASSUME UNCHANGED plugin
        PROVE  FALSE
    BY <1>8
  <1>9. CASE TakeCall
    BY <1>8, <1>9 DEF TakeCall, CallWaits
  <1>10. ASSUME NEW e \in Epochs, AnswerStep(e) \/ ResumeStep(e)
         PROVE  FALSE
    BY <1>1, <1>8, <1>10, AnswerMoves, ResumeMoves
  <1>11. CASE NetworkStep
    BY <1>8, <1>11 DEF NetworkStep, VolunteerLogon, LogOff, SocketCloses, ReceiveFails
  <1>12. CASE SupervisorStep
    BY <1>1, <1>8, <1>12, SupervisorMoves
  <1>13. CASE UNCHANGED vars
    BY <1>8, <1>13 DEF vars
  <1> QED
    BY <1>2, <1>5, <1>6, <1>7, <1>9, <1>10, <1>11, <1>12, <1>13 DEF Next, DialogueStep

LEMMA AcceptedStep ==
    Base /\ TasksOfEpochs /\ AcceptedIsDone /\ [Next]_vars => AcceptedIsDone'
  <1> SUFFICES ASSUME Base, TasksOfEpochs, AcceptedIsDone, [Next]_vars
               PROVE  AcceptedIsDone'
    OBVIOUS
  <1>1. HasDone => HasDone'
    BY DoneMoves DEF HasDone
  <1>2. plugin'.at = "connected" => HasDone
    BY ConnectedMoves DEF AcceptedIsDone
  <1>3. (\E i \in DOMAIN plQueue' : plQueue'[i] = "NoActionRequired") => HasDone \/ HasDone'
    BY DoneMoves DEF AcceptedIsDone, HasDone
  <1> QED
    BY <1>1, <1>2, <1>3 DEF AcceptedIsDone

(* However many turns the supervisor makes and whichever task answers      *)
(* which call, "connected" is said only of a login that Steam accepted     *)
(* (websocket_client.py 237-305, backend_steam_network.py 311-345): the    *)
(* one answer that ends the dialogue well is given by a task that is over, *)
(* and a task that is over stays so.                                       *)
THEOREM ConnectedLoggedIn == Spec => []ConnectedWasLoggedIn
  <1>1. Init => TasksOfEpochs /\ LoginInv /\ AcceptedIsDone
    <2> SUFFICES ASSUME Init
                 PROVE  TasksOfEpochs /\ LoginInv /\ AcceptedIsDone
      OBVIOUS
    <2>1. plQueue = <<>> /\ plugin.at = "start"
      BY DEF Init, Ended
    <2> QED
      BY <2>1, LoginInit DEF AcceptedIsDone
  <1>2. AcceptedIsDone => ConnectedWasLoggedIn
    BY DEF AcceptedIsDone, HasDone, ConnectedWasLoggedIn
  <1>3. TypeOK /\ OneCallInFlight /\ Paired => Base
    BY DEF Base
  <1>4. Base => TypeOK /\ OneCallInFlight
    BY DEF Base
  <1> QED
    BY <1>1, <1>2, <1>3, <1>4, TasksStep, LoginStep, AcceptedStep, AlwaysPaired, PTL DEF Spec

--------------------------------------------------------------------------------
(* A reported loss: the task of its epoch stays over, its future keeps the *)
(* exception, and the supervisor's only way on is to handle it.            *)
LEMMA LossStep ==
    ASSUME Base, TasksOfEpochs, LoginInv, [Next]_vars, LossReported
    PROVE  LossReported' \/ info' = {}
  <1> USE DEF dialogue, caches, supervisor, connection, tasks
  <1>1. TypeOK /\ OneCallInFlight /\ Paired
    BY DEF Base
  <1>2. /\ sup \in Waits /\ epoch \in Epochs
        /\ task[epoch].at = "done" /\ authLost[epoch] = "AuthenticationRequired"
    BY DEF LossReported, TasksOfEpochs
  <1>3. task'[epoch].at = "done"
    BY <1>2, DoneMoves
  <1>4. ASSUME sup' \in Waits, epoch' = epoch, authLost'[epoch] = authLost[epoch]
        PROVE  LossReported'
    BY <1>2, <1>3, <1>4 DEF LossReported
  <1>5. CASE UNCHANGED supervisor
    BY <1>2, <1>4, <1>5
  <1>6. CASE DialogueStep
    <2>1. plugin.at # "start"
      BY <1>2 DEF LoginInv, DoneMeansOver
    <2> QED
      BY <1>5, <1>6, <2>1 DEF DialogueStep, Authenticate, SubmitLogin, SubmitCode, PressConfirm,
                              Submit, Receive, TimeOut
  <1>7. CASE TakeCall
    BY <1>5, <1>7 DEF TakeCall, CallWaits
  <1>8. CASE \E e \in Epochs : AnswerStep(e) \/ ResumeStep(e)
    BY <1>1, <1>5, <1>8, AnswerMoves, ResumeMoves
  <1>9. ASSUME NEW result, LogOff(result)
        PROVE  LossReported'
    <2>1. UNCHANGED <<sup, epoch>>
      BY <1>9 DEF LogOff
    <2>2. \/ authLost' = authLost
          \/ /\ authLost[handler] = "pending"
             /\ authLost' = [authLost EXCEPT ![handler] = TranslateError(result)]
      BY <1>9 DEF LogOff
    <2>3. authLost'[epoch] = authLost[epoch]
      BY <1>1, <1>2, <2>2 DEF TypeOK
    <2> QED
      BY <1>2, <1>4, <2>1, <2>3
  <1>10. CASE NetworkStep
    BY <1>5, <1>9, <1>10 DEF NetworkStep, VolunteerLogon, SocketCloses, ReceiveFails
  <1>11. CASE SupervisorStep
    <2>1. CASE FirstWait
      <3>1. task[epoch].at \notin Exceptions
        BY <1>2 DEF Exceptions
      <3>2. sup' = "secondWait" /\ UNCHANGED <<epoch, authLost>>
        BY <2>1, <3>1 DEF FirstWait
      <3> QED
        BY <1>4, <3>2 DEF Waits
    <2>2. CASE SecondWait
      <3>1. /\ authLost[epoch] \in Exceptions \ {"InvalidCredentials", "AccessDenied"}
            /\ authLost[epoch] \notin {"InvalidCredentials", "AccessDenied"}
        BY <1>2 DEF Exceptions
      <3>2. Handle("AuthenticationRequired")
        BY <1>2, <2>2, <3>1 DEF SecondWait
      <3> QED
        BY <3>2 DEF Handle
    <2>3. sup # "connecting"
      BY <1>2 DEF Waits
    <2> QED
      BY <1>11, <2>1, <2>2, <2>3 DEF SupervisorStep, Connect, KeepConnection, StartTasks,
                                     AttemptFails, ListFails
  <1>12. CASE UNCHANGED vars
    BY <1>5, <1>12 DEF vars
  <1> QED
    BY <1>6, <1>7, <1>8, <1>10, <1>11, <1>12 DEF Next

(* A login elsewhere that was reported to the future of the turn under     *)
(* way, whose task did the login, stays reported until the second wait     *)
(* handles it and clears the user's data (websocket_client.py 98-129,      *)
(* 142-147), whatever the receive task dies of meanwhile: the safety half  *)
(* of LossIsHandled.  It says nothing of a log-off that goes to the future *)
(* of an earlier turn.                                                     *)
THEOREM LossKept == Spec => LossIsKept
  <1>1. TypeOK /\ OneCallInFlight /\ Paired => Base
    BY DEF Base
  <1>2. Base => TypeOK /\ OneCallInFlight
    BY DEF Base
  <1>3. Base /\ TasksOfEpochs /\ LoginInv /\ [Next]_vars
            => [LossReported => LossReported' \/ info' = {}]_vars
    BY LossStep
  <1> QED
    BY <1>1, <1>2, <1>3, LoginInit, TasksStep, LoginStep, AlwaysPaired, PTL DEF Spec, LossIsKept
================================================================================
