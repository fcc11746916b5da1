-------------------------- MODULE SteamSession_proofs --------------------------
(***************************************************************************)
(* For every number of epochs and whatever results and methods Steam may   *)
(* answer with: the types of SteamSession; at most one call of the login   *)
(* dialogue is under way; that call is the one the dialogue awaits, its    *)
(* answer one of those it may get; and so SteamSession implements          *)
(* AuthDialogue.                                                           *)
(***************************************************************************)
EXTENDS SteamSession, TLAPS

(* Two facts about sequences, used wherever a queue is read.               *)
LEMMA HeadTail ==
    ASSUME NEW S, NEW s \in Seq(S), s # <<>>
    PROVE  Head(s) \in S /\ Tail(s) \in Seq(S) /\ Len(Tail(s)) = Len(s) - 1
  OBVIOUS

LEMMA EmptyLen ==
    ASSUME NEW S, NEW s \in Seq(S)
    PROVE  /\ Len(s) \in Nat
           /\ Len(s) = 0 <=> s = <<>>
           /\ \A x \in S : Append(s, x) \in Seq(S) /\ Len(Append(s, x)) = Len(s) + 1
  OBVIOUS

(* The dialogue states, and what is known of each.                         *)
LEMMA DialogueKinds ==
    /\ \A how \in {"start", "connected", "failed"} : Ended(how) \in Dialogues
    /\ \A page \in Pages : Page(page) \in Dialogues
    /\ \A m \in Calls : Await(m.call, m.page) \in Dialogues
  BY DEF Dialogues

LEMMA Awaiting ==
    /\ Await("login", "Login") \in Dialogues
    /\ \A page \in {"Mail", "Mobile"} : Await("update", page) \in Dialogues
    /\ \A page \in {"Mail", "Mobile", "Confirm", "None"} :
          Await("poll", page) \in Dialogues
    /\ \A page \in {"None", "Stored"} : Await("token", page) \in Dialogues
  <1>1. \A call, page : [call |-> call, page |-> page, blank |-> FALSE] \in Calls
                          => Await(call, page) \in Dialogues
    <2> TAKE call, page
    <2> DEFINE m == [call |-> call, page |-> page, blank |-> FALSE]
    <2>1. m.call = call /\ m.page = page
      OBVIOUS
    <2> HIDE DEF m
    <2> QED
      BY <2>1, DialogueKinds DEF m
  <1> QED
    BY <1>1 DEF Calls

LEMMA DialogueFields ==
    ASSUME NEW d \in Dialogues
    PROVE  /\ d.at \in {"start", "page", "connected", "failed", "await"}
           /\ d.at = "page" => d.page \in Pages
           /\ d.at = "await" =>
                \A blank \in BOOLEAN :
                   blank = FALSE \/ d.call \in {"login", "update"} =>
                      [call |-> d.call, page |-> d.page, blank |-> blank] \in Calls
  <1>1. CASE \E how \in {"start", "connected", "failed"} : d = Ended(how)
    BY <1>1 DEF Ended
  <1>2. CASE \E page \in Pages : d = Page(page)
    BY <1>2 DEF Page
  <1>3. ASSUME NEW m \in Calls, d = Await(m.call, m.page)
        PROVE  /\ d.at = "await"
               /\ \A blank \in BOOLEAN :
                     blank = FALSE \/ d.call \in {"login", "update"} =>
                        [call |-> d.call, page |-> d.page, blank |-> blank] \in Calls
    <2>1. d.at = "await" /\ d.call = m.call /\ d.page = m.page
      BY <1>3 DEF Await
    <2>2. ASSUME NEW blank \in BOOLEAN, blank = FALSE \/ m.call \in {"login", "update"}
          PROVE  [call |-> m.call, page |-> m.page, blank |-> blank] \in Calls
      BY <2>2 DEF Calls
    <2> QED
      BY <2>1, <2>2
  <1> QED
    BY <1>1, <1>2, <1>3 DEF Dialogues

LEMMA AfterTypes ==
    ASSUME NEW action \in UserActionRequired, NEW page
    PROVE  /\ AfterLogin(action) \in Dialogues
           /\ page \in {"Mail", "Mobile"} => AfterUpdate(action, page) \in Dialogues
           /\ page \in {"Mail", "Mobile", "Confirm", "None"} =>
                AfterPoll(action, page) \in Dialogues
           /\ AfterToken(action, page) \in Dialogues
  <1>1. AfterLogin(action) \in Dialogues
    <2>1. Preferred(methods) \in DOMAIN PageOf => PageOf[Preferred(methods)] \in Pages
      BY DEF PageOf, Pages
    <2> QED
      BY <2>1, DialogueKinds, Awaiting DEF AfterLogin, Pages
  <1>2. page \in {"Mail", "Mobile"} => AfterUpdate(action, page) \in Dialogues
    BY DialogueKinds, Awaiting DEF AfterUpdate, Pages
  <1>3. page \in {"Mail", "Mobile", "Confirm", "None"} =>
           AfterPoll(action, page) \in Dialogues
    BY DialogueKinds, Awaiting DEF AfterPoll, Pages
  <1>4. AfterToken(action, page) \in Dialogues
    BY DialogueKinds DEF AfterToken, Pages
  <1> QED
    BY <1>1, <1>2, <1>3, <1>4

(* Queueing the call of the next dialogue state.                           *)
LEMMA GoOnType ==
    ASSUME NEW next \in Dialogues, NEW blank \in BOOLEAN,
           blank = FALSE \/ next.call \in {"login", "update"},
           wsQueue \in Seq(Calls), GoOn(next, blank)
    PROVE  /\ plugin' \in Dialogues
           /\ wsQueue' \in Seq(Calls)
  <1>1. CASE next.at = "await"
    <2>1. [call |-> next.call, page |-> next.page, blank |-> blank] \in Calls
      BY <1>1, DialogueFields
    <2> QED
      BY <1>1, <2>1, EmptyLen DEF GoOn
  <1>2. CASE next.at # "await"
    BY <1>2 DEF GoOn
  <1> QED
    BY <1>1, <1>2

--------------------------------------------------------------------------------
(* What the parts of the authentication tasks' actions preserve.           *)
LEMMA AtType ==
    \A point \in Rpcs \cup Exceptions \cup {"none", "get", "done", "stuck", "died"} :
        At(point) \in TaskStates
  BY DEF At, TaskStates

LEMMA TranslateErrorType == \A result \in EResult : TranslateError(result) \in Exceptions
  BY DEF TranslateError, Exceptions

LEMMA ReplyType ==
    ASSUME TypeOK, NEW e \in Epochs, NEW action \in UserActionRequired,
           NEW queue \in Seq(Epochs), Reply(e, action, queue)
    PROVE  /\ plQueue' \in Seq(UserActionRequired)
           /\ task' \in [Epochs -> TaskStates]
           /\ getters' \in Seq(Epochs)
  <1>1. At("done") \in TaskStates /\ At("get") \in TaskStates
    BY AtType
  <1>2. plQueue' \in Seq(UserActionRequired)
    BY EmptyLen DEF Reply, TypeOK
  <1>3. task' = [task EXCEPT ![e] = At("done")] \/ task' = [task EXCEPT ![e] = At("get")]
    BY DEF Reply
  <1>4. task' \in [Epochs -> TaskStates]
    BY <1>1, <1>3 DEF TypeOK
  <1>5. getters' \in Seq(Epochs)
    <2>1. getters' = queue \/ getters' = Append(queue, e)
      BY DEF Reply
    <2> QED
      BY <2>1, EmptyLen
  <1> QED
    BY <1>2, <1>4, <1>5

LEMMA FailType ==
    ASSUME TypeOK, NEW e \in Epochs, NEW exception \in Exceptions, Fail(e, exception)
    PROVE  task' \in [Epochs -> TaskStates]
  BY AtType DEF Fail, TypeOK

LEMMA SendType ==
    ASSUME TypeOK, NEW e \in Epochs, NEW rpc \in Rpcs, Send(e, rpc)
    PROVE  task' \in [Epochs -> TaskStates]
  <1>1. "ProgrammingError" \in Exceptions /\ "ConnectionClosed" \in Exceptions
    BY DEF Exceptions
  <1> QED
    BY <1>1, AtType DEF Send, TypeOK

LEMMA CloseType ==
    ASSUME TypeOK, CloseConnection
    PROVE  /\ task' \in [Epochs -> TaskStates]
           /\ socket' = "none" /\ session' = "off" /\ handler' = 0
  <1>1. ASSUME NEW e \in Epochs
        PROVE  (CASE task[e].at \in Rpcs       -> At("stuck")
                  [] task[e].at \in Exceptions -> At("died")
                  [] OTHER                     -> task[e]) \in TaskStates
    BY AtType DEF TypeOK
  <1> QED
    BY <1>1 DEF CloseConnection

LEMMA KeepType ==
    ASSUME TypeOK, KeepTasks
    PROVE  /\ task' \in [Epochs -> TaskStates]
           /\ UNCHANGED <<socket, session, handler>>
  BY AtType DEF KeepTasks, TypeOK

LEMMA HandleType ==
    ASSUME TypeOK, NEW exception, Handle(exception)
    PROVE  /\ task' \in [Epochs -> TaskStates]
           /\ socket' \in {"none", "open", "closed"} /\ session' \in {"off", "on"}
           /\ handler' \in {0} \cup Epochs
           /\ runTask' = "none" /\ sup' \in {"connecting", "dead"}
           /\ info' \subseteq Fields
  <1>1. CASE exception \in Unavailable \cup {"ConnectionClosed", "AuthenticationRequired"}
    BY <1>1, CloseType DEF Handle, TypeOK
  <1>2. CASE ~(exception \in Unavailable \cup {"ConnectionClosed", "AuthenticationRequired"})
    BY <1>2, KeepType DEF Handle, TypeOK
  <1> QED
    BY <1>1, <1>2

(* What an answered task holds, by the RPC it awaited.                     *)
LEMMA AnswerTypes ==
    ASSUME NEW t \in TaskStates, t.result # "none"
    PROVE  /\ t.result \in Results /\ t.result \in EResult
           /\ t.at = "login" => t.data \in {NoPolling} \cup SUBSET TwoFactorMethod
  BY ResultAssumption DEF TaskStates, NoPolling

LEMMA AnsweredType ==
    ASSUME TypeOK, NEW e \in Epochs, NEW rpcs, NEW result \in Results, NEW data,
           Answered(e, rpcs, result, data),
           \/ rpcs \subseteq {"rsa", "update", "logon"} /\ data = {}
           \/ rpcs = {"login"} /\ data \in {NoPolling} \cup SUBSET TwoFactorMethod
           \/ rpcs = {"poll", "pollConfirm"} /\ data \in SUBSET {"refresh_token"}
    PROVE  task' \in [Epochs -> TaskStates]
  <1>1. task[e].at \in rpcs
    BY DEF Answered
  <1>2. task[e] \in TaskStates
    BY DEF TypeOK
  <1>3. [task[e] EXCEPT !.result = result, !.data = data]
            \in [at : {task[e].at}, result : {result}, data : {data}]
    <2>1. PICK A, B, C : task[e] \in [at : A, result : B, data : C]
      BY <1>2 DEF TaskStates
    <2> QED
      BY <2>1
  <1>4. [task[e] EXCEPT !.result = result, !.data = data] \in TaskStates
    BY <1>1, <1>3 DEF TaskStates
  <1>5. task' = [task EXCEPT ![e] = [task[e] EXCEPT !.result = result, !.data = data]]
    BY DEF Answered, TypeOK
  <1> QED
    BY <1>4, <1>5 DEF TypeOK

--------------------------------------------------------------------------------
(* Every step keeps the types: one lemma for each part of the system.      *)
LEMMA DialogueTypeStep == TypeOK /\ DialogueStep => TypeOK'
  <1> SUFFICES ASSUME TypeOK, DialogueStep
               PROVE  TypeOK'
    OBVIOUS
  <1>1. ASSUME NEW stored \in {{}, Fields}, Authenticate(stored)
        PROVE  TypeOK'
    <2>1. plugin' \in Dialogues /\ wsQueue' \in Seq(Calls)
      <3>1. CASE stored = Fields
        BY <3>1, <1>1, Awaiting, GoOnType DEF Authenticate, TypeOK
      <3>2. CASE stored # Fields
        BY <3>2, <1>1, DialogueKinds, GoOnType DEF Authenticate, TypeOK, Pages
      <3> QED
        BY <3>1, <3>2
    <2> QED
      BY <1>1, <2>1 DEF Authenticate, TypeOK, connection, tasks
  <1>2. ASSUME NEW next \in Dialogues, NEW blank \in BOOLEAN,
               blank = FALSE \/ next.call \in {"login", "update"}, Submit(next, blank)
        PROVE  TypeOK'
    <2>1. plugin' \in Dialogues /\ wsQueue' \in Seq(Calls)
      BY <1>2, GoOnType DEF Submit, TypeOK
    <2> QED
      BY <1>2, <2>1 DEF Submit, TypeOK, caches, supervisor, connection, tasks
  <1>3. ASSUME NEW blank \in BOOLEAN, SubmitLogin(blank)
        PROVE  TypeOK'
    <2>1. Await("login", "Login").call = "login"
      BY DEF Await
    <2> QED
      BY <1>2, <1>3, <2>1, Awaiting DEF SubmitLogin
  <1>4. ASSUME NEW page \in {"Mail", "Mobile"}, NEW blank \in BOOLEAN,
               SubmitCode(page, blank)
        PROVE  TypeOK'
    <2>1. Await("update", page).call = "update"
      BY DEF Await
    <2> QED
      BY <1>2, <1>4, <2>1, Awaiting DEF SubmitCode
  <1>5. CASE PressConfirm
    BY <1>2, <1>5, Awaiting DEF PressConfirm
  <1>6. CASE Receive
    <2> DEFINE action == Head(plQueue)
               next == CASE plugin.call = "login"  -> AfterLogin(action)
                         [] plugin.call = "update" -> AfterUpdate(action, plugin.page)
                         [] plugin.call = "poll"   -> AfterPoll(action, plugin.page)
                         [] plugin.call = "token"  -> AfterToken(action, plugin.page)
    <2>1. action \in UserActionRequired /\ plQueue' \in Seq(UserActionRequired)
      BY <1>6, HeadTail DEF Receive, TypeOK
    <2>2. [call |-> plugin.call, page |-> plugin.page, blank |-> FALSE] \in Calls
      BY <1>6, DialogueFields DEF Receive, TypeOK
    <2>3. next \in Dialogues
      <3>1. /\ plugin.call \in {"login", "update", "poll", "token"}
            /\ plugin.call = "update" => plugin.page \in {"Mail", "Mobile"}
            /\ plugin.call = "poll" => plugin.page \in {"Mail", "Mobile", "Confirm", "None"}
        BY <2>2 DEF Calls
      <3> QED
        BY <2>1, <3>1, AfterTypes
    <2>4. GoOn(next, FALSE) /\ info' \in {{}, info}
      BY <1>6 DEF Receive
    <2>5. plugin' \in Dialogues /\ wsQueue' \in Seq(Calls)
      BY <2>3, <2>4, GoOnType DEF TypeOK
    <2> QED
      BY <1>6, <2>1, <2>4, <2>5 DEF Receive, TypeOK, supervisor, connection, tasks
  <1>7. CASE TimeOut
    BY <1>7, DialogueKinds DEF TimeOut, TypeOK, caches, supervisor, connection, tasks
  <1> QED
    BY <1>1, <1>3, <1>4, <1>5, <1>6, <1>7 DEF DialogueStep

LEMMA TakeCallTypeStep == TypeOK /\ TakeCall => TypeOK'
  <1> SUFFICES ASSUME TypeOK, TakeCall
               PROVE  TypeOK'
    OBVIOUS
  <1> DEFINE e == Head(getters)
             m == Head(wsQueue)
  <1>1. e \in Epochs /\ Tail(getters) \in Seq(Epochs)
    BY HeadTail DEF TakeCall, CallWaits, TypeOK
  <1>2. m \in Calls /\ wsQueue' \in Seq(Calls)
    BY HeadTail DEF TakeCall, CallWaits, TypeOK
  <1>3. /\ plQueue' \in Seq(UserActionRequired)
        /\ task' \in [Epochs -> TaskStates]
        /\ getters' \in Seq(Epochs)
    <2>1. CASE m.blank \/ (m.call = "update" /\ ~ValidPolling)
      <3>1. "InvalidAuthData" \in UserActionRequired
        BY DEF UserActionRequired
      <3>2. Reply(e, "InvalidAuthData", Tail(getters))
        BY <2>1 DEF TakeCall, CallWaits
      <3> QED
        BY <3>1, <3>2, <1>1, ReplyType
    <2>2. CASE ~(m.blank \/ (m.call = "update" /\ ~ValidPolling))
      <3>1. RpcOf(m) \in Rpcs
        BY <1>2 DEF RpcOf, Rpcs, Calls
      <3>2. "ProgrammingError" \in Exceptions
        BY DEF Exceptions
      <3>3. /\ getters' = Tail(getters) /\ UNCHANGED plQueue
            /\ Send(e, RpcOf(m)) \/ Fail(e, "ProgrammingError")
        BY <2>2 DEF TakeCall, CallWaits
      <3>4. task' \in [Epochs -> TaskStates]
        BY <1>1, <3>1, <3>2, <3>3, SendType, FailType
      <3> QED
        BY <1>1, <3>3, <3>4 DEF TypeOK
    <2> QED
      BY <2>1, <2>2
  <1> QED
    BY <1>2, <1>3 DEF TakeCall, TypeOK, caches, supervisor, connection

LEMMA AnswerTypeStep ==
    ASSUME TypeOK, NEW e \in Epochs, AnswerStep(e)
    PROVE  TypeOK'
  <1>1. ASSUME NEW rpcs, NEW result \in Results, NEW data,
               Answered(e, rpcs, result, data), task' \in [Epochs -> TaskStates],
               info' \subseteq Fields, session' \in {"off", "on"}
        PROVE  TypeOK'
    BY <1>1 DEF Answered, TypeOK, supervisor
  <1> SUFFICES ASSUME NEW result \in Results
               PROVE  /\ AnswerRsa(e, result) \/ RefuseRsa(e) => TypeOK'
                      /\ \A offered \in Confirmations :
                            AnswerLogin(e, result, offered) => TypeOK'
                      /\ AnswerUpdate(e, result) => TypeOK'
                      /\ \A token \in SUBSET {"refresh_token"} :
                            AnswerPoll(e, result, token) => TypeOK'
                      /\ AnswerLogon(e, result) => TypeOK'
    BY ResultAssumption DEF AnswerStep
  <1>2. CASE AnswerRsa(e, result)
    <2>1. task' \in [Epochs -> TaskStates]
      BY <1>2, AnsweredType DEF AnswerRsa
    <2> QED
      BY <1>1, <1>2, <2>1 DEF AnswerRsa, TypeOK
  <1>3. CASE RefuseRsa(e)
    BY <1>3 DEF RefuseRsa, TypeOK, Exceptions, dialogue, caches, supervisor, tasks
  <1>4. ASSUME NEW offered \in Confirmations, AnswerLogin(e, result, offered)
        PROVE  TypeOK'
    <2> DEFINE data == IF result = "OK" THEN offered ELSE NoPolling
    <2>1. data \in {NoPolling} \cup SUBSET TwoFactorMethod
      BY MethodAssumption
    <2>2. Answered(e, {"login"}, result, data)
      BY <1>4 DEF AnswerLogin
    <2> HIDE DEF data
    <2>3. task' \in [Epochs -> TaskStates]
      BY <2>1, <2>2, AnsweredType
    <2>4. info' \subseteq Fields /\ session' = session
      BY <1>4 DEF AnswerLogin, TypeOK, Fields
    <2> QED
      BY <1>1, <2>2, <2>3, <2>4 DEF TypeOK
  <1>5. CASE AnswerUpdate(e, result)
    <2>1. task' \in [Epochs -> TaskStates]
      BY <1>5, AnsweredType DEF AnswerUpdate
    <2> QED
      BY <1>1, <1>5, <2>1 DEF AnswerUpdate, TypeOK
  <1>6. ASSUME NEW token \in SUBSET {"refresh_token"}, AnswerPoll(e, result, token)
        PROVE  TypeOK'
    <2>1. task' \in [Epochs -> TaskStates]
      BY <1>6, AnsweredType DEF AnswerPoll
    <2> QED
      BY <1>1, <1>6, <2>1 DEF AnswerPoll, TypeOK
  <1>7. CASE AnswerLogon(e, result)
    <2>1. task' \in [Epochs -> TaskStates]
      BY <1>7, AnsweredType DEF AnswerLogon
    <2> QED
      BY <1>1, <1>7, <2>1 DEF AnswerLogon, TypeOK
  <1> QED
    BY <1>2, <1>3, <1>4, <1>5, <1>6, <1>7

LEMMA ResumeTypeStep ==
    ASSUME TypeOK, NEW e \in Epochs, ResumeStep(e)
    PROVE  TypeOK'
  <1> USE DEF caches, supervisor
  <1>1. task[e].result # "none" => task[e].result \in EResult
    BY AnswerTypes DEF TypeOK
  <1>2. ASSUME NEW result \in EResult, Fail(e, TranslateError(result))
        PROVE  task' \in [Epochs -> TaskStates]
    BY <1>2, TranslateErrorType, FailType
  <1>3. /\ {"InvalidAuthData", "TwoFactorRequired", "NoActionRequired",
            "NoActionConfirmToken", "NoActionConfirmLogin", "TwoFactorExpired"}
               \subseteq UserActionRequired
        /\ getters \in Seq(Epochs)
    BY DEF UserActionRequired, TypeOK
  <1>4. CASE RsaResumes(e)
    <2>1. CASE task[e].result = "OK"
      <3>1. task' \in [Epochs -> TaskStates]
        BY <1>4, <2>1, SendType DEF RsaResumes, Rpcs
      <3> QED
        BY <1>4, <2>1, <3>1 DEF RsaResumes, Resumes, Watch, TypeOK
    <2>2. CASE task[e].result # "OK"
      <3>1. /\ plQueue' \in Seq(UserActionRequired)
            /\ task' \in [Epochs -> TaskStates]
            /\ getters' \in Seq(Epochs)
        BY <1>3, <1>4, <2>2, ReplyType DEF RsaResumes
      <3> QED
        BY <1>4, <2>2, <3>1 DEF RsaResumes, Resumes, TypeOK
    <2> QED
      BY <2>1, <2>2
  <1>5. CASE LoginResumes(e)
    <2> DEFINE offered == task[e].data
               valid   == offered # NoPolling /\ offered \ {"Unknown"} # {}
               action  == IF valid THEN "TwoFactorRequired" ELSE "InvalidAuthData"
    <2>1. offered \in {NoPolling} \cup SUBSET TwoFactorMethod
      BY <1>5, AnswerTypes DEF LoginResumes, Resumes, TypeOK
    <2>2. CASE task[e].result \in LoginVerdicts
      <3>1. Reply(e, action, getters) /\ action \in UserActionRequired
        BY <1>3, <1>5, <2>2 DEF LoginResumes
      <3>2. /\ plQueue' \in Seq(UserActionRequired)
            /\ task' \in [Epochs -> TaskStates]
            /\ getters' \in Seq(Epochs)
        BY <1>3, <3>1, ReplyType
      <3>3. /\ polling' \in {NoPolling} \cup SUBSET TwoFactorMethod
            /\ methods' \subseteq TwoFactorMethod
            /\ info' \subseteq Fields
        BY <1>5, <2>1, <2>2 DEF LoginResumes, TypeOK, Fields
      <3> QED
        BY <1>5, <2>2, <3>2, <3>3 DEF LoginResumes, Resumes, Watch, TypeOK
    <2>3. CASE task[e].result \notin LoginVerdicts
      <3>1. task' \in [Epochs -> TaskStates]
        BY <1>1, <1>2, <1>5, <2>3 DEF LoginResumes, Resumes
      <3> QED
        BY <1>5, <2>3, <3>1 DEF LoginResumes, Resumes, TypeOK
    <2> QED
      BY <2>2, <2>3
  <1>6. CASE UpdateResumes(e)
    <2>1. CASE task[e].result \in DOMAIN CodeAction
      <3>1. CodeAction[task[e].result] \in UserActionRequired
        BY <2>1 DEF CodeAction, UserActionRequired
      <3>2. /\ plQueue' \in Seq(UserActionRequired)
            /\ task' \in [Epochs -> TaskStates]
            /\ getters' \in Seq(Epochs)
        BY <1>3, <1>6, <2>1, <3>1, ReplyType DEF UpdateResumes
      <3> QED
        BY <1>6, <2>1, <3>2 DEF UpdateResumes, Resumes, Watch, TypeOK
    <2>2. CASE task[e].result \notin DOMAIN CodeAction
      <3>1. task' \in [Epochs -> TaskStates]
        BY <1>1, <1>2, <1>6, <2>2 DEF UpdateResumes, Resumes
      <3> QED
        BY <1>6, <2>2, <3>1 DEF UpdateResumes, Resumes, TypeOK
    <2> QED
      BY <2>1, <2>2
  <1>7. CASE PollResumes(e)
    <2> DEFINE action == PollAction(task[e].result, task[e].data # {},
                                    task[e].at = "pollConfirm")
    <2>1. CASE task[e].result \in PollVerdicts
      <3>1. action \in UserActionRequired
        BY <1>3 DEF PollAction
      <3>2. Reply(e, action, getters)
        BY <1>7, <2>1 DEF PollResumes
      <3>3. /\ plQueue' \in Seq(UserActionRequired)
            /\ task' \in [Epochs -> TaskStates]
            /\ getters' \in Seq(Epochs)
        BY <1>3, <3>1, <3>2, ReplyType
      <3>4. info' \subseteq Fields /\ handler' \in {0} \cup Epochs
        BY <1>7, <2>1 DEF PollResumes, Watch, TypeOK, Fields
      <3> QED
        BY <1>7, <2>1, <3>3, <3>4 DEF PollResumes, Resumes, TypeOK
    <2>2. CASE task[e].result \notin PollVerdicts
      <3>1. task' \in [Epochs -> TaskStates]
        BY <1>1, <1>2, <1>7, <2>2 DEF PollResumes, Resumes
      <3> QED
        BY <1>7, <2>2, <3>1 DEF PollResumes, Resumes, TypeOK
    <2> QED
      BY <2>1, <2>2
  <1>8. CASE LogonResumes(e)
    <2>1. ASSUME NEW action \in {"NoActionRequired", "InvalidAuthData"},
                 Reply(e, action, getters), handler' \in {handler, e}
          PROVE  TypeOK'
      <3>1. /\ plQueue' \in Seq(UserActionRequired)
            /\ task' \in [Epochs -> TaskStates]
            /\ getters' \in Seq(Epochs)
        BY <1>3, <2>1, ReplyType
      <3> QED
        BY <1>8, <2>1, <3>1 DEF LogonResumes, Resumes, TypeOK
    <2>2. CASE task[e].result = "OK"
      BY <1>8, <2>1, <2>2 DEF LogonResumes, Watch
    <2>3. CASE task[e].result = "AccessDenied"
      BY <1>8, <2>1, <2>3 DEF LogonResumes
    <2>4. CASE task[e].result \notin {"OK", "AccessDenied"}
      <3>1. task' \in [Epochs -> TaskStates]
        BY <1>1, <1>2, <1>8, <2>4 DEF LogonResumes, Resumes
      <3> QED
        BY <1>8, <2>4, <3>1 DEF LogonResumes, Resumes, TypeOK
    <2> QED
      BY <2>2, <2>3, <2>4
  <1> QED
    BY <1>4, <1>5, <1>6, <1>7, <1>8 DEF ResumeStep

LEMMA NetworkTypeStep == TypeOK /\ NetworkStep => TypeOK'
  <1> SUFFICES ASSUME TypeOK, NetworkStep
               PROVE  TypeOK'
    OBVIOUS
  <1> USE DEF dialogue, caches, supervisor, tasks
  <1>1. "ProgrammingError" \in Exceptions /\ "ConnectionClosed" \in Exceptions
    BY DEF Exceptions
  <1>2. ASSUME NEW result \in Unsolicited, VolunteerLogon(result)
        PROVE  TypeOK'
    <2>1. TranslateError(result) \in Exceptions
      BY TranslateErrorType, ResultAssumption
    <2> QED
      BY <1>2, <2>1 DEF VolunteerLogon, TypeOK
  <1>3. ASSUME NEW result \in Results \ {"OK"}, LogOff(result)
        PROVE  TypeOK'
    <2>1. TranslateError(result) \in Exceptions
      BY TranslateErrorType, ResultAssumption
    <2> DEFINE States == Exceptions \cup {"none", "pending", "cancelled"}
    <2>2. authLost' = authLost \/ authLost' = [authLost EXCEPT ![handler] = TranslateError(result)]
      BY <1>3 DEF LogOff
    <2>3. authLost' \in [Epochs -> States]
      BY <2>1, <2>2 DEF TypeOK
    <2>4. runTask' \in Exceptions \cup {"none", "running"}
      BY <1>1, <1>3 DEF LogOff, TypeOK
    <2> QED
      BY <1>3, <2>3, <2>4 DEF LogOff, TypeOK
  <1>4. CASE SocketCloses
    BY <1>4 DEF SocketCloses, TypeOK
  <1>5. CASE ReceiveFails
    BY <1>1, <1>5 DEF ReceiveFails, TypeOK
  <1> QED
    BY <1>2, <1>3, <1>4, <1>5 DEF NetworkStep

LEMMA SupervisorTypeStep == TypeOK /\ SupervisorStep => TypeOK'
  <1> SUFFICES ASSUME TypeOK, SupervisorStep
               PROVE  TypeOK'
    OBVIOUS
  <1> USE DEF dialogue, caches, connection, tasks, Waits
  <1>1. ASSUME StartTasks, address' \in BOOLEAN, socket' \in {"none", "open", "closed"},
               session' \in {"off", "on"}, handler' \in {0} \cup Epochs
        PROVE  TypeOK'
    <2>1. epoch + 1 \in Epochs /\ epoch' \in 0..MaxEpoch
      BY <1>1, EpochAssumption DEF StartTasks, TypeOK, Epochs
    <2>2. getters' \in Seq(Epochs)
      BY <1>1, <2>1, EmptyLen DEF StartTasks, TypeOK
    <2>3. task' \in [Epochs -> TaskStates]
      BY <1>1, AtType DEF StartTasks, TypeOK
    <2>4. authLost' \in [Epochs -> Exceptions \cup {"none", "pending", "cancelled"}]
      BY <1>1 DEF StartTasks, TypeOK
    <2> QED
      BY <1>1, <2>1, <2>2, <2>3, <2>4 DEF StartTasks, TypeOK
  <1>2. CASE Connect
    BY <1>1, <1>2 DEF Connect
  <1>3. CASE KeepConnection
    BY <1>1, <1>3 DEF KeepConnection, TypeOK
  <1>4. CASE AttemptFails
    BY <1>4 DEF AttemptFails, TypeOK
  <1>5. ASSUME NEW exception \in ListErrors, ListFails(exception)
        PROVE  TypeOK'
    BY <1>5 DEF ListFails, TypeOK
  <1>6. CASE FirstWait
    <2>1. CASE task[epoch].at \in Exceptions
      <3>1. Handle(task[epoch].at)
        BY <1>6, <2>1 DEF FirstWait
      <3> QED
        BY <1>6, <3>1, HandleType DEF FirstWait, TypeOK
    <2>2. CASE task[epoch].at \notin Exceptions
      BY <1>6, <2>2 DEF FirstWait, TypeOK
    <2> QED
      BY <2>1, <2>2
  <1>7. CASE SecondWait
    <2>1. ASSUME NEW exception, Handle(exception),
                 authLost' = authLost
                   \/ authLost' = [authLost EXCEPT ![epoch] = "cancelled"]
          PROVE  TypeOK'
      <3>1. authLost' \in [Epochs -> Exceptions \cup {"none", "pending", "cancelled"}]
        BY <2>1 DEF TypeOK
      <3> QED
        BY <1>7, <2>1, <3>1, HandleType DEF SecondWait, TypeOK
    <2>2. CASE authLost[epoch] \in {"InvalidCredentials", "AccessDenied"}
      <3>1. CloseConnection
        BY <1>7, <2>2 DEF SecondWait
      <3> QED
        BY <1>7, <2>2, <3>1, CloseType DEF SecondWait, TypeOK
    <2>3. CASE authLost[epoch] \in Exceptions \ {"InvalidCredentials", "AccessDenied"}
      BY <1>7, <2>1, <2>3 DEF SecondWait
    <2>4. CASE authLost[epoch] \notin Exceptions \cup {"InvalidCredentials", "AccessDenied"}
      BY <1>7, <2>1, <2>4 DEF SecondWait
    <2> QED
      BY <2>2, <2>3, <2>4
  <1> QED
    BY <1>2, <1>3, <1>4, <1>5, <1>6, <1>7 DEF SupervisorStep

LEMMA TypeStep == TypeOK /\ [Next]_vars => TypeOK'
  <1>1. TypeOK /\ UNCHANGED vars => TypeOK'
    BY DEF vars, dialogue, caches, supervisor, connection, tasks, TypeOK
  <1> QED
    BY <1>1, DialogueTypeStep, TakeCallTypeStep, AnswerTypeStep, ResumeTypeStep,
       NetworkTypeStep, SupervisorTypeStep DEF Next

(* Every reachable state has the types SteamSession declares, whatever     *)
(* Steam and the network do.                                               *)
THEOREM TypeCorrect == Spec => []TypeOK
  <1>1. Init => TypeOK
    <2> SUFFICES ASSUME Init
                 PROVE  TypeOK
      OBVIOUS
    <2>1. plugin \in Dialogues
      BY DialogueKinds DEF Init
    <2>2. task \in [Epochs -> TaskStates]
      BY AtType DEF Init
    <2>3. 0 \in 0..MaxEpoch
      BY EpochAssumption
    <2>4. wsQueue \in Seq(Calls) /\ plQueue \in Seq(UserActionRequired) /\ getters \in Seq(Epochs)
      BY DEF Init
    <2> QED
      BY <2>1, <2>2, <2>3, <2>4 DEF Init, TypeOK
  <1> QED
    BY <1>1, TypeStep, PTL DEF Spec

--------------------------------------------------------------------------------
(* OneCallInFlight is inductive: a call is only ever moved, from the queue *)
(* to a task, from the task to the other queue, and from there to the      *)
(* dialogue, which makes the next.                                         *)
LEMMA ServingAfter ==
    ASSUME TypeOK, NEW e \in Epochs, NEW t, task' = [task EXCEPT ![e] = t]
    PROVE  \A f \in Epochs :
              Serving(f)' <=> IF f = e THEN t.at \in Rpcs \cup {"stuck"} ELSE Serving(f)
  BY DEF TypeOK, Serving

LEMMA AtPoint == \A point : At(point).at = point
  BY DEF At

LEMMA NotServing ==
    \A point \in Exceptions \cup {"none", "get", "done", "died"} :
        point \notin Rpcs \cup {"stuck"}
  BY DEF Exceptions, Rpcs

LEMMA ServingAlone ==
    ASSUME TypeOK, OneCallInFlight, NEW e \in Epochs, Serving(e)
    PROVE  /\ wsQueue = <<>> /\ plQueue = <<>>
           /\ \A f \in Epochs : Serving(f) => f = e
           /\ plugin.at \notin {"start", "page", "connected"}
  BY DEF OneCallInFlight

(* A step that leaves the dialogue and the queues alone, and gives no task *)
(* a call.                                                                 *)
LEMMA NoCallTaken ==
    ASSUME TypeOK, OneCallInFlight, UNCHANGED <<plugin, wsQueue, plQueue>>,
           \A f \in Epochs : Serving(f)' => Serving(f)
    PROVE  OneCallInFlight'
  <1> USE DEF OneCallInFlight
  <1>1. (Len(wsQueue) + Len(plQueue) <= 1)'
    OBVIOUS
  <1> QED
    BY <1>1

LEMMA AtMostOne ==
    \A m, n \in Nat : m + n <= 1 => (m >= 1 => m = 1 /\ n = 0) /\ (n >= 1 => n = 1 /\ m = 0)
  OBVIOUS

(* A task answers the call it serves.                                      *)
LEMMA ReplyInFlight ==
    ASSUME TypeOK, OneCallInFlight, NEW e \in Epochs, Serving(e),
           NEW action, NEW queue, Reply(e, action, queue), UNCHANGED <<plugin, wsQueue>>
    PROVE  OneCallInFlight'
  <1>1. /\ wsQueue = <<>> /\ plQueue = <<>>
        /\ \A f \in Epochs : Serving(f) => f = e
        /\ plugin.at \notin {"start", "page", "connected"}
    BY ServingAlone
  <1>2. \A f \in Epochs : ~Serving(f)'
    <2>1. task' = [task EXCEPT ![e] = At("done")] \/ task' = [task EXCEPT ![e] = At("get")]
      BY DEF Reply
    <2> QED
      BY <1>1, <2>1, ServingAfter, AtPoint, NotServing
  <1>3. wsQueue' = <<>> /\ plQueue' = <<action>>
    BY <1>1 DEF Reply
  <1>4. (Len(wsQueue) + Len(plQueue) <= 1)'
    BY <1>3
  <1> QED
    BY <1>1, <1>2, <1>3, <1>4 DEF OneCallInFlight

LEMMA CloseInFlight ==
    ASSUME TypeOK, CloseConnection \/ KeepTasks
    PROVE  \A f \in Epochs : Serving(f)' => Serving(f)
  <1> SUFFICES ASSUME NEW f \in Epochs, Serving(f)'
               PROVE  Serving(f)
    OBVIOUS
  <1>1. CASE CloseConnection
    BY <1>1, AtPoint, NotServing DEF CloseConnection, Serving
  <1>2. CASE KeepTasks
    BY <1>2, AtPoint, NotServing DEF KeepTasks, Serving
  <1> QED
    BY <1>1, <1>2

(* The dialogue moves on, with nothing else under way.                     *)
LEMMA GoOnInFlight ==
    ASSUME NEW next, NEW blank, GoOn(next, blank), UNCHANGED task,
           wsQueue = <<>>, plQueue' = <<>>, \A e \in Epochs : ~Serving(e)
    PROVE  OneCallInFlight'
  <1>1. \A e \in Epochs : ~Serving(e)'
    BY DEF Serving
  <1>2. CASE next.at = "await"
    <2> DEFINE m == [call |-> next.call, page |-> next.page, blank |-> blank]
    <2>1. wsQueue' = <<m>> /\ plugin'.at = "await"
      BY <1>2 DEF GoOn
    <2> HIDE DEF m
    <2>2. (Len(wsQueue) + Len(plQueue) <= 1)'
      BY <2>1
    <2> QED
      BY <1>1, <2>1, <2>2 DEF OneCallInFlight
  <1>3. CASE next.at # "await"
    BY <1>1, <1>3 DEF GoOn, OneCallInFlight
  <1> QED
    BY <1>2, <1>3

LEMMA OneCallStep == TypeOK /\ OneCallInFlight /\ [Next]_vars => OneCallInFlight'
  <1> SUFFICES ASSUME TypeOK, OneCallInFlight, [Next]_vars
               PROVE  OneCallInFlight'
    OBVIOUS
  <1> USE DEF dialogue, caches, supervisor, connection, tasks
  <1>1. ASSUME NEW stored, Authenticate(stored)
        PROVE  OneCallInFlight'
    BY <1>1, GoOnInFlight DEF Authenticate, OneCallInFlight
  <1>2. ASSUME NEW next, NEW blank, Submit(next, blank)
        PROVE  OneCallInFlight'
    BY <1>2, GoOnInFlight DEF Submit, OneCallInFlight
  <1>3. CASE Receive
    <2>1. plQueue' = <<>> /\ wsQueue = <<>> /\ \A e \in Epochs : ~Serving(e)
      <3>1. Len(plQueue) >= 1 /\ Len(wsQueue) \in Nat /\ Len(plQueue) \in Nat
        BY <1>3, EmptyLen DEF Receive, TypeOK
      <3>2. Len(plQueue) = 1 /\ Len(wsQueue) = 0
        <4>1. Len(wsQueue) + Len(plQueue) <= 1
          BY DEF OneCallInFlight
        <4> QED
          BY <3>1, <4>1, AtMostOne
      <3>3. Len(plQueue') = 0 /\ plQueue' \in Seq(UserActionRequired)
        BY <1>3, <3>2, HeadTail DEF Receive, TypeOK
      <3> QED
        BY <1>3, <3>2, <3>3, EmptyLen DEF Receive, TypeOK, OneCallInFlight
    <2>2. PICK next : GoOn(next, FALSE)
      BY <1>3 DEF Receive
    <2> QED
      BY <1>3, <2>1, <2>2, GoOnInFlight DEF Receive
  <1>4. CASE TimeOut
    <2>1. plugin'.at = "failed" /\ UNCHANGED <<wsQueue, plQueue>>
      BY <1>4 DEF TimeOut, Ended
    <2>2. \A f \in Epochs : Serving(f)' <=> Serving(f)
      BY <1>4 DEF TimeOut, Serving
    <2>3. (Len(wsQueue) + Len(plQueue) <= 1)'
      BY <2>1 DEF OneCallInFlight
    <2> QED
      BY <2>1, <2>2, <2>3 DEF OneCallInFlight
  <1>5. CASE TakeCall
    <2> DEFINE e == Head(getters)
    <2>1. e \in Epochs
      BY <1>5, HeadTail DEF TakeCall, CallWaits, TypeOK
    <2>2. wsQueue' = <<>> /\ plQueue = <<>> /\ UNCHANGED plugin
      <3>1. Len(wsQueue) >= 1 /\ Len(wsQueue) \in Nat /\ Len(plQueue) \in Nat
        BY <1>5, EmptyLen DEF TakeCall, CallWaits, TypeOK
      <3>2. Len(wsQueue) = 1 /\ Len(plQueue) = 0
        <4>1. Len(wsQueue) + Len(plQueue) <= 1
          BY DEF OneCallInFlight
        <4> QED
          BY <3>1, <4>1, AtMostOne
      <3>3. Len(wsQueue') = 0 /\ wsQueue' \in Seq(Calls)
        BY <1>5, <3>2, HeadTail DEF TakeCall, CallWaits, TypeOK
      <3> QED
        BY <1>5, <3>2, <3>3, EmptyLen DEF TakeCall, CallWaits, TypeOK
    <2>3. plugin.at \notin {"start", "page", "connected"} /\ \A f \in Epochs : ~Serving(f)
      BY <1>5 DEF TakeCall, CallWaits, OneCallInFlight
    <2>4. ASSUME NEW action, NEW queue, Reply(e, action, queue)
          PROVE  OneCallInFlight'
      <3>1. plQueue' = <<action>>
        BY <2>2, <2>4 DEF Reply
      <3>2. task' = [task EXCEPT ![e] = At("done")] \/ task' = [task EXCEPT ![e] = At("get")]
        BY <2>4 DEF Reply
      <3>3. \A f \in Epochs : ~Serving(f)'
        BY <2>1, <2>3, <3>2, ServingAfter, AtPoint, NotServing
      <3>4. (Len(wsQueue) + Len(plQueue) <= 1)'
        BY <2>2, <3>1
      <3> QED
        BY <2>2, <2>3, <3>3, <3>4 DEF OneCallInFlight
    <2>5. ASSUME NEW t, task' = [task EXCEPT ![e] = t], UNCHANGED plQueue
          PROVE  OneCallInFlight'
      <3>1. \A f \in Epochs : Serving(f)' => f = e
        BY <2>1, <2>3, <2>5, ServingAfter
      <3>2. (Len(wsQueue) + Len(plQueue) <= 1)'
        BY <2>2, <2>5
      <3> QED
        BY <2>2, <2>3, <2>5, <3>1, <3>2 DEF OneCallInFlight
    <2> QED
      BY <1>5, <2>4, <2>5 DEF TakeCall, Send, Fail
  <1>6. ASSUME NEW e \in Epochs, AnswerStep(e)
        PROVE  OneCallInFlight'
    <2>1. UNCHANGED <<plugin, wsQueue, plQueue>>
      BY <1>6 DEF AnswerStep, AnswerRsa, AnswerLogin, AnswerUpdate, AnswerPoll,
                  AnswerLogon, RefuseRsa, Answered
    <2>2. \A f \in Epochs : Serving(f)' => Serving(f)
      <3>1. CASE RefuseRsa(e)
        BY <3>1 DEF RefuseRsa, Serving
      <3>2. ASSUME NEW rpcs, NEW result, NEW data, Answered(e, rpcs, result, data)
            PROVE  \A f \in Epochs : task'[f].at = task[f].at
        BY <3>2 DEF Answered, TypeOK
      <3> QED
        BY <1>6, <3>1, <3>2 DEF AnswerStep, AnswerRsa, AnswerLogin, AnswerUpdate,
                                AnswerPoll, AnswerLogon, Serving
    <2> QED
      BY <2>1, <2>2, NoCallTaken
  <1>7. ASSUME NEW e \in Epochs, ResumeStep(e)
        PROVE  OneCallInFlight'
    <2>1. Serving(e) /\ UNCHANGED <<plugin, wsQueue>>
      BY <1>7 DEF ResumeStep, RsaResumes, LoginResumes, UpdateResumes, PollResumes,
                  LogonResumes, Resumes, Serving, Rpcs
    <2>2. ASSUME NEW action, NEW queue, Reply(e, action, queue)
          PROVE  OneCallInFlight'
      BY <2>1, <2>2, ReplyInFlight
    <2>3. ASSUME NEW t, task' = [task EXCEPT ![e] = t], UNCHANGED plQueue
          PROVE  OneCallInFlight'
      BY <2>1, <2>3, ServingAfter, NoCallTaken
    <2> QED
      BY <1>7, <2>2, <2>3 DEF ResumeStep, RsaResumes, LoginResumes, UpdateResumes,
                              PollResumes, LogonResumes, Send, Fail
  <1>8. CASE NetworkStep
    <2>1. UNCHANGED <<plugin, wsQueue, plQueue, task>>
      BY <1>8 DEF NetworkStep, VolunteerLogon, LogOff, SocketCloses, ReceiveFails
    <2> QED
      BY <2>1, NoCallTaken DEF Serving
  <1>9. CASE SupervisorStep
    <2>1. UNCHANGED <<plugin, wsQueue, plQueue>>
      BY <1>9 DEF SupervisorStep, Connect, KeepConnection, StartTasks, AttemptFails,
                  ListFails, FirstWait, SecondWait
    <2>2. CASE Connect \/ KeepConnection
      <3>1. epoch + 1 \in Epochs /\ task' = [task EXCEPT ![epoch + 1] = At("get")]
        BY <2>2, EpochAssumption DEF Connect, KeepConnection, StartTasks, TypeOK, Epochs
      <3>2. \A f \in Epochs : Serving(f)' => Serving(f)
        BY <3>1, ServingAfter, AtPoint, NotServing
      <3> QED
        BY <2>1, <3>2, NoCallTaken
    <2>3. CASE UNCHANGED task
      BY <2>1, <2>3, NoCallTaken DEF Serving
    <2>4. CASE CloseConnection \/ KeepTasks
      BY <2>1, <2>4, NoCallTaken, CloseInFlight
    <2> QED
      BY <1>9, <2>2, <2>3, <2>4 DEF SupervisorStep, AttemptFails, ListFails, FirstWait,
                                    SecondWait, Handle
  <1>10. CASE UNCHANGED vars
    BY <1>10, NoCallTaken DEF vars, Serving
  <1> QED
    BY <1>1, <1>2, <1>3, <1>4, <1>5, <1>6, <1>7, <1>8, <1>9, <1>10
       DEF Next, DialogueStep, SubmitLogin, SubmitCode, PressConfirm

(* At every moment at most one call of the login dialogue is under way,    *)
(* and none while the user reads a page or is connected: the queues shared *)
(* by the tasks of all connections never mix up two calls.                 *)
THEOREM OneCall == Spec => []OneCallInFlight
  <1>1. Init => OneCallInFlight
    BY AtPoint, NotServing DEF Init, OneCallInFlight, Serving
  <1> QED
    BY <1>1, OneCallStep, TypeCorrect, PTL DEF Spec

--------------------------------------------------------------------------------
(* The call an RPC is made for.                                            *)
CallOfRpc == [rsa |-> "login", login |-> "login", update |-> "update",
              poll |-> "poll", pollConfirm |-> "poll", logon |-> "token"]

(* While the dialogue awaits a call, what is queued, served or answered is *)
(* that call.                                                              *)
Paired ==
    plugin.at = "await" =>
       /\ \A i \in DOMAIN wsQueue : wsQueue[i].call = plugin.call
       /\ \A e \in Epochs : task[e].at \in Rpcs => CallOfRpc[task[e].at] = plugin.call
       /\ \A i \in DOMAIN plQueue : plQueue[i] \in Dialogue!AnswersTo[plugin.call]

CallNames == {"login", "update", "poll", "token"}

--------------------------------------------------------------------------------
(* What OneCallInFlight says of a queue that is not empty.                 *)
LEMMA SingleTail ==
    ASSUME NEW S, NEW s \in Seq(S), Len(s) = 1
    PROVE  Tail(s) = <<>> /\ DOMAIN s = {1} /\ s[1] = Head(s) /\ s[1] \in S
  <1>1. DOMAIN s = {1} /\ s[1] \in S /\ s # <<>>
    OBVIOUS
  <1>2. Tail(s) \in Seq(S) /\ Len(Tail(s)) = 0
    BY <1>1, HeadTail
  <1>3. Tail(s) = <<>>
    BY <1>2, EmptyLen
  <1>4. s[1] = Head(s)
    OBVIOUS
  <1> QED
    BY <1>1, <1>3, <1>4

LEMMA AnswerAlone ==
    ASSUME TypeOK, OneCallInFlight, plQueue # <<>>
    PROVE  /\ wsQueue = <<>> /\ \A e \in Epochs : ~Serving(e)
           /\ Tail(plQueue) = <<>> /\ DOMAIN plQueue = {1} /\ plQueue[1] = Head(plQueue)
           /\ Head(plQueue) \in UserActionRequired
  <1>1. Len(plQueue) = 1 /\ Len(wsQueue) = 0
    <2>1. Len(plQueue) >= 1 /\ Len(wsQueue) \in Nat /\ Len(plQueue) \in Nat
      BY EmptyLen DEF TypeOK
    <2>2. Len(wsQueue) + Len(plQueue) <= 1
      BY DEF OneCallInFlight
    <2> QED
      BY <2>1, <2>2, AtMostOne
  <1> QED
    BY <1>1, SingleTail, EmptyLen DEF TypeOK, OneCallInFlight

LEMMA CallAlone ==
    ASSUME TypeOK, OneCallInFlight, wsQueue # <<>>
    PROVE  /\ plQueue = <<>> /\ \A e \in Epochs : ~Serving(e)
           /\ Tail(wsQueue) = <<>> /\ DOMAIN wsQueue = {1} /\ wsQueue[1] = Head(wsQueue)
           /\ Head(wsQueue) \in Calls
           /\ plugin.at \notin {"start", "page", "connected"}
  <1>1. Len(wsQueue) = 1 /\ Len(plQueue) = 0
    <2>1. Len(wsQueue) >= 1 /\ Len(wsQueue) \in Nat /\ Len(plQueue) \in Nat
      BY EmptyLen DEF TypeOK
    <2>2. Len(wsQueue) + Len(plQueue) <= 1
      BY DEF OneCallInFlight
    <2> QED
      BY <2>1, <2>2, AtMostOne
  <1> QED
    BY <1>1, SingleTail, EmptyLen DEF TypeOK, OneCallInFlight

LEMMA DialogueCalls ==
    ASSUME NEW d \in Dialogues
    PROVE  /\ d.at = "await" => d.call \in CallNames
           /\ d.at # "await" => d.call = "none"
  <1>1. CASE \E how \in {"start", "connected", "failed"} : d = Ended(how)
    BY <1>1 DEF Ended
  <1>2. CASE \E page \in Pages : d = Page(page)
    BY <1>2 DEF Page
  <1>3. ASSUME NEW m \in Calls, d = Await(m.call, m.page)
        PROVE  d.at = "await" /\ d.call \in CallNames
    <2>1. m.call \in CallNames
      BY DEF Calls, CallNames
    <2> QED
      BY <1>3, <2>1 DEF Await
  <1> QED
    BY <1>1, <1>2, <1>3 DEF Dialogues

(* What a task that resumes does: it answers its call with an answer the   *)
(* call may get, goes on to its next RPC, or fails.                        *)
LEMMA ResumeMoves ==
    ASSUME TypeOK, NEW e \in Epochs, ResumeStep(e)
    PROVE  /\ task[e].at \in Rpcs /\ task[e].result # "none"
           /\ UNCHANGED <<plugin, wsQueue, supervisor, socket, session, runTask>>
           /\ \/ \E action \in Dialogue!AnswersTo[CallOfRpc[task[e].at]] :
                    Reply(e, action, getters)
              \/ task[e].at = "rsa" /\ Send(e, "login") /\ UNCHANGED <<plQueue, getters>>
              \/ \E x \in Exceptions : Fail(e, x) /\ UNCHANGED <<plQueue, getters>>
  <1>1. task[e].result # "none" => TranslateError(task[e].result) \in Exceptions
    BY AnswerTypes, TranslateErrorType DEF TypeOK
  <1>2. CASE RsaResumes(e)
    BY <1>2 DEF RsaResumes, Resumes, CallOfRpc, Dialogue!AnswersTo, Rpcs
  <1>3. CASE LoginResumes(e)
    BY <1>1, <1>3 DEF LoginResumes, Resumes, CallOfRpc, Dialogue!AnswersTo, Rpcs
  <1>4. CASE UpdateResumes(e)
    <2>1. task[e].result \in DOMAIN CodeAction
          => CodeAction[task[e].result] \in Dialogue!AnswersTo["update"]
      BY DEF CodeAction, Dialogue!AnswersTo
    <2> QED
      BY <1>1, <1>4, <2>1 DEF UpdateResumes, Resumes, CallOfRpc, Rpcs
  <1>5. CASE PollResumes(e)
    <2>1. \A result, hasToken, isConfirm :
             PollAction(result, hasToken, isConfirm) \in Dialogue!AnswersTo["poll"]
      BY DEF PollAction, Dialogue!AnswersTo
    <2>2. CallOfRpc[task[e].at] = "poll" /\ task[e].at \in Rpcs
      BY <1>5 DEF PollResumes, Resumes, CallOfRpc, Rpcs
    <2> QED
      BY <1>1, <1>5, <2>1, <2>2 DEF PollResumes, Resumes
  <1>6. CASE LogonResumes(e)
    <2>1. CallOfRpc[task[e].at] = "token" /\ task[e].at \in Rpcs
          /\ {"NoActionRequired", "InvalidAuthData"} \subseteq Dialogue!AnswersTo["token"]
      BY <1>6 DEF LogonResumes, Resumes, CallOfRpc, Rpcs, Dialogue!AnswersTo
    <2> QED
      BY <1>1, <1>6, <2>1 DEF LogonResumes, Resumes
  <1> QED
    BY <1>2, <1>3, <1>4, <1>5, <1>6 DEF ResumeStep

(* What a step of the supervisor does to the tasks.                        *)
LEMMA SupervisorMoves ==
    ASSUME TypeOK, SupervisorStep
    PROVE  /\ UNCHANGED <<plugin, wsQueue, plQueue>>
           /\ \A f \in Epochs : \/ task'[f] = task[f]
                                \/ task'[f].at \in {"get", "stuck", "died"}
  <1>1. UNCHANGED <<plugin, wsQueue, plQueue>>
    BY DEF SupervisorStep, Connect, KeepConnection, StartTasks, AttemptFails, ListFails,
           FirstWait, SecondWait, dialogue
  <1>2. CASE Connect \/ KeepConnection
    <2>1. epoch + 1 \in Epochs /\ task' = [task EXCEPT ![epoch + 1] = At("get")]
      BY <1>2, EpochAssumption DEF Connect, KeepConnection, StartTasks, TypeOK, Epochs
    <2> QED
      BY <1>1, <2>1, AtPoint DEF TypeOK
  <1>3. CASE UNCHANGED task
    BY <1>1, <1>3
  <1>4. CASE CloseConnection
    BY <1>1, <1>4, AtPoint DEF CloseConnection
  <1>5. CASE KeepTasks
    BY <1>1, <1>5, AtPoint DEF KeepTasks
  <1> QED
    BY <1>2, <1>3, <1>4, <1>5 DEF SupervisorStep, AttemptFails, ListFails, FirstWait,
                                  SecondWait, Handle, tasks

--------------------------------------------------------------------------------
(* A call is moved with the dialogue that awaits it.                       *)
LEMMA GoOnPaired ==
    ASSUME NEW next, NEW blank, GoOn(next, blank), UNCHANGED task,
           wsQueue = <<>>, plQueue' = <<>>, \A e \in Epochs : ~Serving(e)
    PROVE  Paired'
  <1>1. \A e \in Epochs : task'[e].at \notin Rpcs
    BY DEF Serving
  <1>2. DOMAIN plQueue' = {}
    OBVIOUS
  <1>3. CASE next.at = "await"
    <2> DEFINE m == [call |-> next.call, page |-> next.page, blank |-> blank]
    <2>1. wsQueue' = <<m>> /\ plugin' = next /\ m.call = next.call
      BY <1>3 DEF GoOn
    <2> HIDE DEF m
    <2>2. \A i \in DOMAIN wsQueue' : wsQueue'[i].call = plugin'.call
      BY <2>1
    <2> QED
      BY <1>1, <1>2, <2>2 DEF Paired
  <1>4. CASE next.at # "await"
    BY <1>4 DEF GoOn, Paired
  <1> QED
    BY <1>3, <1>4

(* A task answers the dialogue, whose queue of answers was empty.          *)
LEMMA ReplyPaired ==
    ASSUME TypeOK, NEW e \in Epochs, NEW action, NEW queue, Reply(e, action, queue),
           UNCHANGED plugin, wsQueue' = <<>>, plQueue = <<>>,
           \A f \in Epochs : Serving(f) => f = e,
           plugin.at = "await" => action \in Dialogue!AnswersTo[plugin.call]
    PROVE  Paired'
  <1>1. \A f \in Epochs : task'[f].at \notin Rpcs
    <2>1. task' = [task EXCEPT ![e] = At("done")] \/ task' = [task EXCEPT ![e] = At("get")]
      BY DEF Reply
    <2> QED
      BY <2>1, AtPoint DEF TypeOK, Serving, Rpcs
  <1>2. plQueue' = <<action>>
    BY DEF Reply
  <1> QED
    BY <1>1, <1>2 DEF Paired

(* A step that leaves the dialogue and the queues alone, and gives no task *)
(* an RPC for another call.                                                *)
LEMMA SamePaired ==
    ASSUME Paired, UNCHANGED <<plugin, plQueue>>, wsQueue' = <<>> \/ UNCHANGED wsQueue,
           plugin.at = "await" =>
             \A f \in Epochs : task'[f].at \in Rpcs => CallOfRpc[task'[f].at] = plugin.call
    PROVE  Paired'
  BY DEF Paired

LEMMA PairedStep == TypeOK /\ OneCallInFlight /\ Paired /\ [Next]_vars => Paired'
  <1> SUFFICES ASSUME TypeOK, OneCallInFlight, Paired, [Next]_vars
               PROVE  Paired'
    OBVIOUS
  <1> USE DEF dialogue, caches, supervisor, connection, tasks
  <1>1. ASSUME NEW stored, Authenticate(stored)
        PROVE  Paired'
    BY <1>1, GoOnPaired DEF Authenticate, OneCallInFlight
  <1>2. ASSUME NEW next, NEW blank, Submit(next, blank)
        PROVE  Paired'
    BY <1>2, GoOnPaired DEF Submit, OneCallInFlight
  <1>3. CASE Receive
    <2>1. PICK next : GoOn(next, FALSE)
      BY <1>3 DEF Receive
    <2> QED
      BY <1>3, <2>1, AnswerAlone, GoOnPaired DEF Receive
  <1>4. CASE TimeOut
    BY <1>4 DEF TimeOut, Ended, Paired
  <1>5. CASE TakeCall
    <2> DEFINE e == Head(getters)
               m == Head(wsQueue)
    <2>1. e \in Epochs /\ UNCHANGED plugin
      BY <1>5, HeadTail DEF TakeCall, CallWaits, TypeOK
    <2>2. /\ plQueue = <<>> /\ wsQueue' = <<>> /\ m \in Calls
          /\ \A f \in Epochs : ~Serving(f)
          /\ plugin.at = "await" => m.call = plugin.call
      BY <1>5, CallAlone DEF TakeCall, CallWaits, Paired
    <2>3. CASE m.blank \/ (m.call = "update" /\ ~ValidPolling)
      <3>1. Reply(e, "InvalidAuthData", Tail(getters))
        BY <1>5, <2>3 DEF TakeCall, CallWaits
      <3>2. "InvalidAuthData" \in Dialogue!AnswersTo[m.call]
        <4>1. m \in Calls => (m.blank => m.call \in {"login", "update"})
          BY DEF Calls
        <4>2. m.call \in {"login", "update"}
          BY <2>2, <2>3, <4>1
        <4> QED
          BY <4>2 DEF Dialogue!AnswersTo
      <3> QED
        BY <2>1, <2>2, <3>1, <3>2, ReplyPaired
    <2>4. CASE ~(m.blank \/ (m.call = "update" /\ ~ValidPolling))
      <3>1. UNCHANGED plQueue
            /\ \E point : task' = [task EXCEPT ![e] = At(point)]
                         /\ (point = RpcOf(m) \/ point \in Exceptions \cup {"died"})
        BY <1>5, <2>4 DEF TakeCall, Send, Fail, Exceptions
      <3>2. CallOfRpc[RpcOf(m)] = m.call
        BY <2>2 DEF Calls, RpcOf, CallOfRpc
      <3>3. plugin.at = "await" =>
              \A f \in Epochs : task'[f].at \in Rpcs => CallOfRpc[task'[f].at] = plugin.call
        BY <2>1, <2>2, <3>1, <3>2, AtPoint, NotServing DEF TypeOK, Serving
      <3> QED
        BY <2>1, <2>2, <3>1, <3>3, SamePaired
    <2> QED
      BY <2>3, <2>4
  <1>6. ASSUME NEW e \in Epochs, AnswerStep(e)
        PROVE  Paired'
    <2>1. UNCHANGED <<plugin, wsQueue, plQueue>>
      BY <1>6 DEF AnswerStep, AnswerRsa, AnswerLogin, AnswerUpdate, AnswerPoll,
                  AnswerLogon, RefuseRsa, Answered
    <2>2. \A f \in Epochs : task'[f].at = task[f].at
      <3>1. CASE RefuseRsa(e)
        BY <3>1 DEF RefuseRsa
      <3>2. ASSUME NEW rpcs, NEW result, NEW data, Answered(e, rpcs, result, data)
            PROVE  \A f \in Epochs : task'[f].at = task[f].at
        BY <3>2 DEF Answered, TypeOK
      <3> QED
        BY <1>6, <3>1, <3>2 DEF AnswerStep, AnswerRsa, AnswerLogin, AnswerUpdate,
                                AnswerPoll, AnswerLogon
    <2> QED
      BY <2>1, <2>2, SamePaired DEF Paired
  <1>7. ASSUME NEW e \in Epochs, ResumeStep(e)
        PROVE  Paired'
    <2>1. /\ task[e].at \in Rpcs /\ Serving(e)
          /\ UNCHANGED <<plugin, wsQueue>>
      BY <1>7, ResumeMoves DEF Serving
    <2>2. /\ wsQueue' = <<>> /\ plQueue = <<>>
          /\ \A f \in Epochs : Serving(f) => f = e
          /\ plugin.at = "await" => CallOfRpc[task[e].at] = plugin.call
      BY <2>1, ServingAlone DEF Paired
    <2>3. ASSUME NEW action \in Dialogue!AnswersTo[CallOfRpc[task[e].at]],
                 Reply(e, action, getters)
          PROVE  Paired'
      BY <2>1, <2>2, <2>3, ReplyPaired
    <2>4. ASSUME NEW point, task' = [task EXCEPT ![e] = At(point)], UNCHANGED plQueue,
                 point \in Exceptions \cup {"died"} \/ (task[e].at = "rsa" /\ point = "login")
          PROVE  Paired'
      <3>1. point \in Rpcs => CallOfRpc[point] = CallOfRpc[task[e].at]
        BY <2>4, NotServing DEF CallOfRpc
      <3>2. \A f \in Epochs : task'[f].at \in Rpcs => f = e /\ task'[f].at = point
        BY <2>2, <2>4, AtPoint DEF TypeOK, Serving
      <3> QED
        BY <2>1, <2>2, <2>4, <3>1, <3>2, SamePaired
    <2>5. ASSUME NEW x \in Exceptions, Fail(e, x), UNCHANGED plQueue
          PROVE  Paired'
      BY <2>4, <2>5 DEF Fail
    <2>6. ASSUME task[e].at = "rsa", Send(e, "login"), UNCHANGED plQueue
          PROVE  Paired'
      BY <2>4, <2>6 DEF Send, Exceptions
    <2> QED
      BY <1>7, <2>3, <2>5, <2>6, ResumeMoves
  <1>8. CASE NetworkStep
    <2>1. UNCHANGED <<plugin, wsQueue, plQueue, task>>
      BY <1>8 DEF NetworkStep, VolunteerLogon, LogOff, SocketCloses, ReceiveFails
    <2> QED
      BY <2>1 DEF Paired
  <1>9. CASE SupervisorStep
    <2>1. \A f \in Epochs : task'[f].at \in Rpcs => task'[f] = task[f]
      BY <1>9, SupervisorMoves DEF Rpcs
    <2> QED
      BY <1>9, <2>1, SupervisorMoves, SamePaired DEF Paired
  <1>10. CASE UNCHANGED vars
    BY <1>10 DEF vars, Paired
  <1> QED
    BY <1>1, <1>2, <1>3, <1>4, <1>5, <1>6, <1>7, <1>8, <1>9, <1>10
       DEF Next, DialogueStep, SubmitLogin, SubmitCode, PressConfirm

LEMMA AlwaysPaired == Spec => [](TypeOK /\ OneCallInFlight /\ Paired)
  <1>1. Init => Paired
    BY DEF Init, Paired, Ended
  <1> QED
    BY <1>1, PairedStep, TypeCorrect, OneCall, PTL DEF Spec

--------------------------------------------------------------------------------
(* AuthDialogue's answer, while the dialogue awaits one or has it.         *)
AnswerSeen == IF plugin.at = "await" /\ plQueue # <<>> THEN Head(plQueue) ELSE "none"

PhaseSeen == IF plugin.at # "await" THEN plugin.at
             ELSE IF plQueue = <<>> THEN "asked" ELSE "answered"

(* Where each answer leads.                                                *)
LEMMA AfterMoves ==
    ASSUME NEW action, NEW page
    PROVE  /\ \/ AfterLogin(action).at = "page"
              \/ AfterLogin(action) = Ended("failed")
              \/ AfterLogin(action) = Await("poll", "None")
                    /\ action \in {"TwoFactorRequired", "NoActionConfirmLogin"}
           /\ \/ AfterUpdate(action, page).at = "page"
              \/ AfterUpdate(action, page) = Ended("failed")
              \/ AfterUpdate(action, page) = Await("poll", page) /\ action = "NoActionConfirmLogin"
           /\ \/ AfterPoll(action, page).at = "page" /\ action # "NoActionRequired"
              \/ AfterPoll(action, page) = Ended("failed")
              \/ AfterPoll(action, page) = Ended("connected") /\ action = "NoActionRequired"
              \/ AfterPoll(action, page) = Await("token", "None")
                    /\ action = "NoActionConfirmToken"
           /\ \/ AfterToken(action, page).at = "page" /\ action # "NoActionRequired"
              \/ AfterToken(action, page) = Ended("failed")
              \/ AfterToken(action, page) = Ended("connected") /\ action = "NoActionRequired"
  <1>1. \A p : Page(p).at = "page"
    BY DEF Page
  <1>2. \/ AfterLogin(action).at = "page"
        \/ AfterLogin(action) = Ended("failed")
        \/ AfterLogin(action) = Await("poll", "None")
              /\ action \in {"TwoFactorRequired", "NoActionConfirmLogin"}
    BY <1>1 DEF AfterLogin
  <1>3. \/ AfterUpdate(action, page).at = "page"
        \/ AfterUpdate(action, page) = Ended("failed")
        \/ AfterUpdate(action, page) = Await("poll", page) /\ action = "NoActionConfirmLogin"
    BY <1>1 DEF AfterUpdate
  <1>4. \/ AfterPoll(action, page).at = "page" /\ action # "NoActionRequired"
        \/ AfterPoll(action, page) = Ended("failed")
        \/ AfterPoll(action, page) = Ended("connected") /\ action = "NoActionRequired"
        \/ AfterPoll(action, page) = Await("token", "None") /\ action = "NoActionConfirmToken"
    BY <1>1 DEF AfterPoll
  <1>5. \/ AfterToken(action, page).at = "page" /\ action # "NoActionRequired"
        \/ AfterToken(action, page) = Ended("failed")
        \/ AfterToken(action, page) = Ended("connected") /\ action = "NoActionRequired"
    BY <1>1 DEF AfterToken
  <1> QED
    BY <1>2, <1>3, <1>4, <1>5

(* The dialogue reads an answer.                                           *)
LEMMA ReceiveRefines ==
    ASSUME TypeOK, OneCallInFlight, Paired, Receive, plugin' \in Dialogues
    PROVE  Dialogue!FollowUp \/ Dialogue!BackToPage \/ Dialogue!Report \/ Dialogue!GiveUp
  <1> DEFINE a == Head(plQueue)
  <1>1. /\ plugin.at = "await" /\ plQueue # <<>> /\ plQueue' = <<>>
        /\ plugin.call \in CallNames /\ a \in Dialogue!AnswersTo[plugin.call]
    BY AnswerAlone, DialogueCalls DEF Receive, Paired, TypeOK
  <1>2. PhaseSeen = "answered" /\ AnswerSeen = a
    BY <1>1 DEF PhaseSeen, AnswerSeen
  <1>3. AnswerSeen' = "none" /\ PhaseSeen' = IF plugin'.at = "await" THEN "asked" ELSE plugin'.at
    BY <1>1 DEF PhaseSeen, AnswerSeen
  <1>4. plugin'.at # "await" => plugin'.call = "none"
    BY DialogueCalls
  <1>5. \A call, page : Await(call, page).at = "await" /\ Await(call, page).call = call
    BY DEF Await
  <1>6. \A how : Ended(how).at = how
    BY DEF Ended
  <1>7. \/ plugin'.at = "page" /\ a # "NoActionRequired"
        \/ plugin'.at = "failed"
        \/ plugin'.at = "connected" /\ a = "NoActionRequired" /\ plugin.call = "token"
        \/ plugin'.at = "await" /\ <<plugin.call, a, plugin'.call>> \in Dialogue!FollowsFrom
    <2>1. CASE plugin.call = "login"
      <3>1. plugin' = AfterLogin(a)
        BY <2>1 DEF Receive, GoOn
      <3>2. a \in {"TwoFactorRequired", "InvalidAuthData"}
        BY <1>1, <2>1 DEF Dialogue!AnswersTo
      <3>3. \/ plugin'.at = "page"
            \/ plugin'.at = "failed"
            \/ plugin'.at = "await" /\ plugin'.call = "poll" /\ a = "TwoFactorRequired"
        <4> HIDE DEF a
        <4> QED
          BY <1>5, <1>6, <3>1, <3>2, AfterMoves
      <3> QED
        BY <2>1, <3>2, <3>3 DEF Dialogue!FollowsFrom
    <2>2. CASE plugin.call = "update"
      <3>1. plugin' = AfterUpdate(a, plugin.page)
        BY <2>2 DEF Receive, GoOn
      <3>2. a # "NoActionRequired"
        BY <1>1, <2>2 DEF Dialogue!AnswersTo
      <3> QED
        BY <1>5, <1>6, <2>2, <3>1, <3>2, AfterMoves DEF Dialogue!FollowsFrom
    <2>3. CASE plugin.call = "poll"
      <3>1. plugin' = AfterPoll(a, plugin.page)
        BY <2>3 DEF Receive, GoOn
      <3>2. a # "NoActionRequired"
        BY <1>1, <2>3 DEF Dialogue!AnswersTo
      <3> QED
        BY <1>5, <1>6, <2>3, <3>1, <3>2, AfterMoves DEF Dialogue!FollowsFrom
    <2>4. CASE plugin.call = "token"
      <3>1. plugin' = AfterToken(a, plugin.page)
        BY <2>4 DEF Receive, GoOn
      <3> QED
        BY <1>5, <1>6, <2>4, <3>1, AfterMoves
    <2> QED
      BY <1>1, <2>1, <2>2, <2>3, <2>4 DEF CallNames
  <1> QED
    BY <1>2, <1>3, <1>4, <1>7
       DEF Dialogue!FollowUp, Dialogue!BackToPage, Dialogue!Report, Dialogue!GiveUp,
           PhaseSeen, AnswerSeen

LEMMA RefinementStep ==
    TypeOK /\ OneCallInFlight /\ Paired /\ [Next]_vars /\ TypeOK'
        => [Dialogue!DialogueNext]_(Dialogue!dialogueVars)
  <1> SUFFICES ASSUME TypeOK, OneCallInFlight, Paired, [Next]_vars, TypeOK'
               PROVE  Dialogue!DialogueNext \/ UNCHANGED <<PhaseSeen, plugin.call, AnswerSeen>>
    BY DEF Dialogue!dialogueVars, PhaseSeen, AnswerSeen
  <1> USE DEF dialogue, caches, supervisor, connection, tasks
  <1>1. plugin' \in Dialogues /\ plugin \in Dialogues
    BY DEF TypeOK
  <1>2. ASSUME UNCHANGED <<plugin, plQueue>>
        PROVE  UNCHANGED <<PhaseSeen, plugin.call, AnswerSeen>>
    BY <1>2 DEF PhaseSeen, AnswerSeen
  <1>3. ASSUME NEW action, NEW e, NEW queue, Reply(e, action, queue), UNCHANGED plugin,
               plQueue = <<>>,
               plugin.at = "await" => action \in Dialogue!AnswersTo[plugin.call]
        PROVE  Dialogue!Answer \/ UNCHANGED <<PhaseSeen, plugin.call, AnswerSeen>>
    <2>1. plQueue' = <<action>> /\ Head(plQueue') = action /\ plQueue' # <<>>
      BY <1>3 DEF Reply
    <2>2. CASE plugin.at = "await"
      BY <1>3, <2>1, <2>2 DEF Dialogue!Answer, PhaseSeen, AnswerSeen
    <2>3. CASE plugin.at # "await"
      BY <1>3, <2>1, <2>3 DEF PhaseSeen, AnswerSeen
    <2> QED
      BY <2>2, <2>3
  <1>4. ASSUME NEW stored, Authenticate(stored)
        PROVE  Dialogue!Start
    <2>1. plQueue = <<>> /\ plQueue' = <<>> /\ plugin.at = "start"
      BY <1>4 DEF Authenticate, OneCallInFlight
    <2>2. plugin' = Await("token", "Stored") \/ plugin' = Page("Login")
      BY <1>4 DEF Authenticate, GoOn
    <2> QED
      BY <2>1, <2>2 DEF Dialogue!Start, Await, Page
  <1>5. ASSUME NEW call \in {"login", "update", "poll"}, NEW page, NEW blank,
               Submit(Await(call, page), blank)
        PROVE  Dialogue!Ask
    <2>1. plQueue = <<>> /\ plQueue' = <<>> /\ plugin.at = "page"
      BY <1>5 DEF Submit, OneCallInFlight
    <2>2. plugin' = Await(call, page)
      BY <1>5 DEF Submit, GoOn
    <2> QED
      BY <2>1, <2>2 DEF Dialogue!Ask, Await
  <1>6. CASE Receive
    BY <1>1, <1>6, ReceiveRefines DEF Dialogue!DialogueNext
  <1>7. CASE TimeOut
    BY <1>7 DEF TimeOut, Ended, Dialogue!GiveUp, Dialogue!DialogueNext
  <1>8. CASE TakeCall
    <2> DEFINE e == Head(getters)
               m == Head(wsQueue)
    <2>1. plQueue = <<>> /\ m \in Calls /\ (plugin.at = "await" => m.call = plugin.call)
      BY <1>8, CallAlone DEF TakeCall, CallWaits, Paired
    <2>2. CASE m.blank \/ (m.call = "update" /\ ~ValidPolling)
      <3>1. Reply(e, "InvalidAuthData", Tail(getters)) /\ UNCHANGED plugin
        BY <1>8, <2>2 DEF TakeCall, CallWaits
      <3>2. m.call \in {"login", "update"}
        <4>1. \A c \in Calls : c.blank => c.call \in {"login", "update"}
          BY DEF Calls
        <4> QED
          BY <2>1, <2>2, <4>1
      <3>3. "InvalidAuthData" \in Dialogue!AnswersTo[m.call]
        BY <3>2 DEF Dialogue!AnswersTo
      <3> QED
        BY <1>3, <2>1, <3>1, <3>3 DEF Dialogue!DialogueNext
    <2>3. CASE ~(m.blank \/ (m.call = "update" /\ ~ValidPolling))
      BY <1>2, <1>8, <2>3 DEF TakeCall, CallWaits
    <2> QED
      BY <2>2, <2>3
  <1>9. ASSUME NEW e \in Epochs, AnswerStep(e)
        PROVE  UNCHANGED <<plugin, plQueue>>
    BY <1>9 DEF AnswerStep, AnswerRsa, AnswerLogin, AnswerUpdate, AnswerPoll,
                AnswerLogon, RefuseRsa, Answered
  <1>10. ASSUME NEW e \in Epochs, ResumeStep(e)
         PROVE  Dialogue!Answer \/ UNCHANGED <<PhaseSeen, plugin.call, AnswerSeen>>
    <2>1. task[e].at \in Rpcs /\ UNCHANGED plugin
      BY <1>10, ResumeMoves
    <2>2. plQueue = <<>> /\ (plugin.at = "await" => CallOfRpc[task[e].at] = plugin.call)
      BY <2>1, ServingAlone DEF Serving, Paired
    <2>3. ASSUME NEW action \in Dialogue!AnswersTo[CallOfRpc[task[e].at]],
                 Reply(e, action, getters)
          PROVE  Dialogue!Answer \/ UNCHANGED <<PhaseSeen, plugin.call, AnswerSeen>>
      BY <1>3, <2>1, <2>2, <2>3
    <2>4. (\E action \in Dialogue!AnswersTo[CallOfRpc[task[e].at]] : Reply(e, action, getters))
          \/ UNCHANGED plQueue
      BY <1>10, ResumeMoves
    <2> QED
      BY <1>2, <2>1, <2>3, <2>4
  <1>11. CASE NetworkStep
    BY <1>2, <1>11 DEF NetworkStep, VolunteerLogon, LogOff, SocketCloses, ReceiveFails
  <1>12. CASE SupervisorStep
    BY <1>2, <1>12, SupervisorMoves
  <1>13. CASE UNCHANGED vars
    BY <1>2, <1>13 DEF vars
  <1> QED
    BY <1>2, <1>4, <1>5, <1>6, <1>7, <1>8, <1>9, <1>10, <1>11, <1>12, <1>13
       DEF Next, DialogueStep, SubmitLogin, SubmitCode, PressConfirm, Dialogue!DialogueNext

(* SteamSession implements AuthDialogue, whatever Steam and the network    *)
(* do: one question at a time, each answered at most once and by one of    *)
(* its own answers, and connected only after an accepted token             *)
(* (backend_steam_network.py 166-350).                                     *)
THEOREM Refinement == Spec => ImplementsDialogue
  <1>1. Init => Dialogue!DialogueInit
    BY DEF Init, Ended, Dialogue!DialogueInit
  <1> QED
    BY <1>1, RefinementStep, AlwaysPaired, PTL
       DEF Spec, ImplementsDialogue, Dialogue!DialogueSpec

================================================================================
