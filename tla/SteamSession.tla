------------------------------ MODULE SteamSession ------------------------------
(***************************************************************************)
(* Logging in to Steam, and staying logged in: the dialogue of             *)
(* backend_steam_network.py with the user, the authentication task and the *)
(* supervisor of websocket_client.py, the RPCs of protocol_client.py, and  *)
(* the part of protobuf_client.py that receives their answers.             *)
(*                                                                         *)
(* Everything runs on one asyncio loop; a step below is what runs between  *)
(* two points where another coroutine may run.  The supervisor goes        *)
(* through epochs, one per turn of its `while True`: each starts a receive *)
(* task (run_task), an authentication task (auth_task) and a future        *)
(* (auth_lost) that is given an exception when Steam logs the user off.    *)
(* The authentication tasks of all epochs take their calls from the one    *)
(* queue 'websocket' and put their answers on the one queue 'plugin'.      *)
(***************************************************************************)
EXTENDS SteamResults, Naturals, Sequences

CONSTANTS
    MaxEpoch,      \* bound: turns of the supervisor's loop
    Results,       \* the EResults Steam's answers carry
    Unsolicited,   \* the EResults of LogOnResponses nobody asked for
    ListErrors,    \* the exceptions fetching the server list may raise
    Confirmations  \* the sets of two-factor methods a login may be offered

Epochs == 1..MaxEpoch

ASSUME EpochAssumption == MaxEpoch \in Nat \ {0}

(* Steam volunteers LogOnResponses about the server, never one that says   *)
(* who is logged in; and the public server list asks for no authentication.*)
ASSUME ResultAssumption ==
    /\ "OK" \in Results
    /\ Results \subseteq EResult
    /\ Unsolicited \subseteq EResult \ {"OK", "LoggedInElsewhere"}
    /\ ListErrors \subseteq Exceptions \ {"AuthenticationRequired"}

ASSUME MethodAssumption == Confirmations \subseteq SUBSET TwoFactorMethod

VARIABLES
    plugin,    \* the dialogue: a page shown, a call awaited, or an end
    wsQueue,   \* communication_queues['websocket']: calls
    plQueue,   \* communication_queues['plugin']: UserActionRequired codes
    info,      \* the fields of the user info cache that are set
    polling,   \* _steam_polling_data: its methods, or NoPolling
    methods,   \* the authentication cache's methods
    sup,       \* where WebSocketClient.run stands
    epoch,     \* the epoch it is in
    address,   \* whether _current_ws_address was ever set
    authLost,  \* per epoch, its auth_lost future
    socket,    \* the connection of the current protocol client, if any
    session,   \* whether Steam has a session logged on over it
    handler,   \* the epoch whose auth_lost_handler it holds, 0 for none
    runTask,   \* the receive task: none, running or the exception it died of
    task,      \* per epoch, its authentication task
    getters    \* the epochs whose task waits on wsQueue, in FIFO order

dialogue   == <<plugin, plQueue>>
caches     == <<info, polling, methods>>
supervisor == <<sup, epoch, address, authLost>>
connection == <<socket, session, handler, runTask>>
tasks      == <<task, getters>>
vars       == <<dialogue, wsQueue, caches, supervisor, connection, tasks>>

(***************************************************************************)
(* Data                                                                    *)
(***************************************************************************)
Fields == {"steam_id", "account_username", "persona_name", "refresh_token"}

NoPolling == {"NoPolling"}

ValidPolling == polling # NoPolling /\ polling \ {"Unknown"} # {}

Pages == {"Login", "Mail", "Mobile", "Confirm"}

PageOf == [EmailCode |-> "Mail", PhoneCode |-> "Mobile", PhoneConfirm |-> "Confirm"]

(* A call's "page" says where its answer leads: the page to fall back to,  *)
(* "None" where there is none, "Stored" for stored credentials.            *)
Calls ==
    [ call : {"login"}, page : {"Login"}, blank : BOOLEAN ]
    \cup [ call : {"update"}, page : {"Mail", "Mobile"}, blank : BOOLEAN ]
    \cup [ call : {"poll"}, page : {"Mail", "Mobile", "Confirm", "None"}, blank : {FALSE} ]
    \cup [ call : {"token"}, page : {"None", "Stored"}, blank : {FALSE} ]

Await(call, page) == [at |-> "await", call |-> call, page |-> page]
Page(page)        == [at |-> "page", call |-> "none", page |-> page]
Ended(how)        == [at |-> how, call |-> "none", page |-> "None"]

Dialogues ==
    { Ended(how) : how \in {"start", "connected", "failed"} }
    \cup { Page(page) : page \in Pages }
    \cup { Await(m.call, m.page) : m \in Calls }

Rpcs == {"rsa", "login", "update", "poll", "pollConfirm", "logon"}

Waits == {"firstWait", "secondWait"}

At(point) == [at |-> point, result |-> "none", data |-> {}]

TaskStates ==
    [ at     : Rpcs \cup Exceptions \cup {"none", "get", "done", "stuck", "died"},
      result : {"none"}, data : {{}} ]
    \cup [ at : {"rsa", "update", "logon"}, result : Results, data : {{}} ]
    \cup [ at : {"login"}, result : Results,
           data : {NoPolling} \cup SUBSET TwoFactorMethod ]
    \cup [ at : {"poll", "pollConfirm"}, result : Results,
           data : SUBSET {"refresh_token"} ]

(* The tasks whose answer has come but which have not run since.           *)
Resumable == { e \in Epochs : task[e].result # "none" }

(* A task waits for a call and there is one: get() returns.                *)
CallWaits == getters # <<>> /\ wsQueue # <<>>

(* Both are in the loop's ready queue before anything that the supervisor  *)
(* waits for.                                                              *)
TasksRest == Resumable = {} /\ ~CallWaits

(* Nobody has anything to run, the dialogue neither.                       *)
LoopIsIdle == TasksRest /\ (plugin.at = "await" => plQueue = <<>>)

(* Only the supervisor's first wait hears of a failed task, and only of    *)
(* the one of its own epoch.                                               *)
Observed(e) == e = epoch /\ sup = "firstWait"

Init ==
    /\ plugin = Ended("start")
    /\ wsQueue = <<>> /\ plQueue = <<>>
    /\ info = {} /\ polling = NoPolling /\ methods = {}
    /\ sup = "off" /\ epoch = 0 /\ address = FALSE
    /\ authLost = [e \in Epochs |-> "none"]
    /\ socket = "none" /\ session = "off" /\ handler = 0 /\ runTask = "none"
    /\ task = [e \in Epochs |-> At("none")] /\ getters = <<>>

(***************************************************************************)
(* The dialogue                                                            *)
(***************************************************************************)
(* The dialogue moves on; if that is to a call, the call is queued.        *)
GoOn(next, blank) ==
    /\ plugin' = next
    /\ wsQueue' = IF next.at = "await"
                  THEN Append(wsQueue, [call |-> next.call, page |-> next.page,
                                        blank |-> blank])
                  ELSE wsQueue

(* authenticate: starts the supervisor; stored credentials that are        *)
(* complete log in at once, without them the login page is shown.          *)
Authenticate(stored) ==
    /\ plugin.at = "start"
    /\ sup' = "connecting"
    /\ info' = stored
    /\ GoOn(IF stored = Fields THEN Await("token", "Stored") ELSE Page("Login"), FALSE)
    /\ UNCHANGED <<plQueue, polling, methods, epoch, address, authLost, connection, tasks>>

(* The user submits a page: blank stands for a password or code of which   *)
(* nothing is left once it is sanitized or stripped.                       *)
Submit(next, blank) ==
    /\ plugin.at = "page"
    /\ GoOn(next, blank)
    /\ UNCHANGED <<plQueue, caches, supervisor, connection, tasks>>

SubmitLogin(blank) == plugin.page = "Login" /\ Submit(Await("login", "Login"), blank)

(* The confirmation page links to the page of the second-best method, if   *)
(* that one asks for a code.                                               *)
Fallback ==
    LET rest == methods \ {Preferred(methods)}
    IN  IF rest # {} /\ Preferred(rest) \in {"EmailCode", "PhoneCode"}
        THEN {PageOf[Preferred(rest)]} ELSE {}

SubmitCode(page, blank) ==
    /\ plugin.page = page \/ (plugin.page = "Confirm" /\ page \in Fallback)
    /\ Submit(Await("update", page), blank)

PressConfirm == plugin.page = "Confirm" /\ Submit(Await("poll", "Confirm"), FALSE)

\* Mutant of AfterLogin: a refused login is polled like an accepted one.
AfterLoginPolls(action) == Await("poll", "None")

AfterLogin(action) ==
    CASE action = "NoActionConfirmLogin" -> Await("poll", "None")
      [] action = "TwoFactorRequired" ->
            IF Preferred(methods) = "Nothing" THEN Await("poll", "None")
            ELSE IF Preferred(methods) \in DOMAIN PageOf
            THEN Page(PageOf[Preferred(methods)]) ELSE Ended("failed")
      [] OTHER -> Page("Login")

AfterUpdate(action, page) ==
    CASE action = "NoActionConfirmLogin" -> Await("poll", page)
      [] action = "TwoFactorExpired"     -> Page("Login")
      [] action = "InvalidAuthData"      -> Page(page)
      [] OTHER                           -> Ended("failed")

(* _handle_steam_guard_none (page "None"), _handle_steam_guard_check and   *)
(* _finish_auth_process.                                                   *)
AfterPoll(action, page) ==
    CASE action = "NoActionRequired" -> Ended("connected")
      [] action = "NoActionConfirmToken" ->
            IF info = Fields THEN Await("token", "None") ELSE Ended("failed")
      [] page # "None" /\ action \in {"NoActionConfirmLogin", "TwoFactorRequired"} ->
            Page(page)
      [] page # "None" /\ action = "TwoFactorExpired" -> Page("Login")
      [] OTHER -> Ended("failed")

\* Mutant of AfterToken: the answer to a token login is not looked at.
AfterTokenTrusting(action, page) == Ended("connected")

AfterToken(action, page) ==
    CASE action = "NoActionRequired" -> Ended("connected")
      [] action # "NoActionRequired" /\ page = "Stored" -> Page("Login")
      [] OTHER -> Ended("failed")

(* _get_websocket_auth_step returns.  Stored credentials that are refused  *)
(* are cleared.                                                            *)
Receive ==
    /\ plugin.at = "await"
    /\ plQueue # <<>>
    /\ plQueue' = Tail(plQueue)
    /\ LET action == Head(plQueue) IN
        /\ GoOn(CASE plugin.call = "login"  -> AfterLogin(action)
                  [] plugin.call = "update" -> AfterUpdate(action, plugin.page)
                  [] plugin.call = "poll"   -> AfterPoll(action, plugin.page)
                  [] plugin.call = "token"  -> AfterToken(action, plugin.page),
                FALSE)
        /\ info' = IF plugin.page = "Stored" /\ action # "NoActionRequired"
                   THEN {} ELSE info
    /\ UNCHANGED <<polling, methods, supervisor, connection, tasks>>

\* Mutant of TimeOut: the user may log in again after it.
TimeOutToLogin ==
    /\ plugin.at = "await"
    /\ plugin' = Page("Login")
    /\ UNCHANGED <<wsQueue, plQueue, caches, supervisor, connection, tasks>>

(* After 60 seconds without an answer BackendTimeout is raised, which      *)
(* nothing in the plugin handles.                                          *)
TimeOut ==
    /\ plugin.at = "await"
    /\ plugin' = Ended("failed")
    /\ UNCHANGED <<wsQueue, plQueue, caches, supervisor, connection, tasks>>

(***************************************************************************)
(* The authentication tasks                                                *)
(***************************************************************************)
(* The task answers the dialogue.  It is over on NoActionRequired, and     *)
(* otherwise queues up for its next call behind the others.                *)
Reply(e, action, queue) ==
    /\ plQueue' = Append(plQueue, action)
    /\ IF action = "NoActionRequired"
       THEN task' = [task EXCEPT ![e] = At("done")] /\ getters' = queue
       ELSE task' = [task EXCEPT ![e] = At("get")] /\ getters' = Append(queue, e)

(* The task sends a request on the current connection and awaits its       *)
(* future, or fails with an exception.                                     *)
Send(e, rpc) ==
    task' = [task EXCEPT ![e] = At(
                IF socket = "open" THEN rpc
                ELSE IF ~Observed(e) THEN "died"
                ELSE IF socket = "none" THEN "ProgrammingError"
                ELSE "ConnectionClosed")]

(* The protocol client keeps the auth_lost_handler of the call's task.     *)
\* Mutant of Watch: it keeps the first one it is given.
WatchFirst(e) == handler' = IF handler = 0 THEN e ELSE handler

Watch(e) == handler' = e

Fail(e, exception) ==
    task' = [task EXCEPT ![e] = At(IF Observed(e) THEN exception ELSE "died")]

RpcOf(m) == CASE m.call = "login"                        -> "rsa"
              [] m.call = "update"                       -> "update"
              [] m.call = "poll" /\ m.page # "Confirm"   -> "poll"
              [] m.call = "poll" /\ m.page = "Confirm"   -> "pollConfirm"
              [] m.call = "token"                        -> "logon"

(* The data a call needs besides its message: the polling data it reads,   *)
(* or the user's name, id and token.                                       *)
HasItsData(m) ==
    /\ m.call = "poll" => polling # NoPolling
    /\ m.call = "token" => info = Fields

(* The task that has waited longest gets the call.                         *)
TakeCall ==
    /\ CallWaits
    /\ wsQueue' = Tail(wsQueue)
    /\ LET e == Head(getters)
           m == Head(wsQueue)
       IN  IF m.blank \/ (m.call = "update" /\ ~ValidPolling)
           THEN Reply(e, "InvalidAuthData", Tail(getters))
           ELSE /\ getters' = Tail(getters)
                /\ UNCHANGED plQueue
                /\ IF HasItsData(m) THEN Send(e, RpcOf(m))
                                    ELSE Fail(e, "ProgrammingError")
    /\ UNCHANGED <<plugin, caches, supervisor, connection>>

(* The receive task handles the answer to an RPC: the future is resolved,  *)
(* the task that awaits it becomes ready.                                  *)
Answered(e, rpcs, result, data) ==
    /\ socket = "open" /\ runTask = "running"
    /\ task[e].at \in rpcs /\ task[e].result = "none"
    /\ task' = [task EXCEPT ![e].result = result, ![e].data = data]
    /\ UNCHANGED <<plugin, wsQueue, plQueue, polling, methods, supervisor,
                   socket, handler, runTask, getters>>

AnswerRsa(e, result) ==
    Answered(e, {"rsa"}, result, {}) /\ UNCHANGED <<info, session>>

(* A refusal that carries no key: int("", 16) raises in the receive task.  *)
RefuseRsa(e) ==
    /\ socket = "open" /\ runTask = "running" /\ task[e] = At("rsa")
    /\ runTask' = "ProgrammingError"
    /\ UNCHANGED <<dialogue, wsQueue, caches, supervisor, socket, session,
                   handler, tasks>>

AnswerLogin(e, result, offered) ==
    /\ Answered(e, {"login"}, result, IF result = "OK" THEN offered ELSE NoPolling)
    /\ info' = IF result = "OK" THEN info \cup {"steam_id"} ELSE info
    /\ UNCHANGED session

AnswerUpdate(e, result) ==
    Answered(e, {"update"}, result, {}) /\ UNCHANGED <<info, session>>

AnswerPoll(e, result, token) ==
    Answered(e, {"poll", "pollConfirm"}, result, token) /\ UNCHANGED <<info, session>>

AnswerLogon(e, result) ==
    /\ Answered(e, {"logon"}, result, {})
    /\ session' = IF result = "OK" THEN "on" ELSE session
    /\ UNCHANGED info

Resumes(e, rpcs) ==
    /\ task[e].at \in rpcs /\ task[e].result # "none"
    /\ UNCHANGED <<plugin, wsQueue, supervisor, socket, session, runTask>>

(* get_rsa_public_key returns, and a good key is used to log in.           *)
RsaResumes(e) ==
    /\ Resumes(e, {"rsa"})
    /\ IF task[e].result = "OK"
       THEN /\ Watch(e)
            /\ Send(e, "login")
            /\ UNCHANGED <<plQueue, getters>>
       ELSE Reply(e, "InvalidAuthData", getters) /\ UNCHANGED handler
    /\ UNCHANGED caches

(* authenticate_password returns or raises.  to_UserAction is handed a     *)
(* pair, not a method, so any valid method means TwoFactorRequired.        *)
LoginResumes(e) ==
    LET offered == task[e].data
        valid   == offered # NoPolling /\ offered \ {"Unknown"} # {}
    IN  /\ Resumes(e, {"login"})
        /\ IF task[e].result \in LoginVerdicts
           THEN /\ Watch(e)
                /\ polling' = offered
                /\ methods' = IF valid THEN offered ELSE methods
                /\ info' = IF valid THEN info \cup {"account_username"} ELSE info
                /\ Reply(e, IF valid THEN "TwoFactorRequired" ELSE "InvalidAuthData",
                         getters)
           ELSE /\ Fail(e, TranslateError(task[e].result))
                /\ UNCHANGED <<plQueue, caches, handler, getters>>

UpdateResumes(e) ==
    /\ Resumes(e, {"update"})
    /\ IF task[e].result \in DOMAIN CodeAction
       THEN Watch(e) /\ Reply(e, CodeAction[task[e].result], getters)
       ELSE /\ Fail(e, TranslateError(task[e].result))
            /\ UNCHANGED <<plQueue, handler, getters>>
    /\ UNCHANGED caches

PollResumes(e) ==
    LET action == PollAction(task[e].result, task[e].data # {},
                             task[e].at = "pollConfirm")
    IN  /\ Resumes(e, {"poll", "pollConfirm"})
        /\ IF task[e].result \in PollVerdicts
           THEN /\ IF task[e].result = "OK" /\ action = "NoActionConfirmLogin"
                   THEN UNCHANGED handler ELSE Watch(e)
                /\ info' = IF action = "NoActionConfirmToken"
                           THEN info \cup {"refresh_token", "persona_name"} ELSE info
                /\ Reply(e, action, getters)
           ELSE /\ Fail(e, TranslateError(task[e].result))
                /\ UNCHANGED <<plQueue, info, handler, getters>>
        /\ UNCHANGED <<polling, methods>>

LogonResumes(e) ==
    /\ Resumes(e, {"logon"})
    /\ CASE task[e].result = "OK" ->
                Watch(e) /\ Reply(e, "NoActionRequired", getters)
         [] task[e].result = "AccessDenied" ->
                UNCHANGED handler /\ Reply(e, "InvalidAuthData", getters)
         [] OTHER -> /\ Fail(e, TranslateError(task[e].result))
                     /\ UNCHANGED <<plQueue, handler, getters>>
    /\ UNCHANGED caches

(***************************************************************************)
(* What else comes from Steam and from the network                         *)
(***************************************************************************)
(* A LogOnResponse while no task awaits one raises in the receive task.    *)
VolunteerLogon(result) ==
    /\ socket = "open" /\ runTask = "running"
    /\ \A e \in Epochs : task[e].at # "logon"
    /\ runTask' = TranslateError(result)
    /\ UNCHANGED <<dialogue, wsQueue, caches, supervisor, socket, session,
                   handler, tasks>>

(* Steam ends the session (with OK only if asked to, which the plugin does *)
(* when it closes).  The handler sets an exception on its epoch's future;  *)
(* on a future that is cancelled or set, that raises.                      *)
LogOff(result) ==
    /\ socket = "open" /\ runTask = "running" /\ session = "on"
    /\ session' = "off"
    /\ IF handler = 0 THEN UNCHANGED <<authLost, runTask>>
       ELSE IF authLost[handler] = "pending"
       THEN /\ authLost' = [authLost EXCEPT ![handler] = TranslateError(result)]
            /\ UNCHANGED runTask
       ELSE runTask' = "ProgrammingError" /\ UNCHANGED authLost
    /\ UNCHANGED <<dialogue, wsQueue, caches, sup, epoch, address, socket,
                   handler, tasks>>

SocketCloses ==
    /\ socket = "open"
    /\ socket' = "closed"
    /\ UNCHANGED <<dialogue, wsQueue, caches, supervisor, session, handler,
                   runTask, tasks>>

\* Mutant of ReceiveFails: a failed receive is tried again for ever.
ReceiveRetries == socket = "closed" /\ runTask = "running" /\ UNCHANGED vars

ReceiveFails ==
    /\ socket = "closed" /\ runTask = "running"
    /\ runTask' = "ConnectionClosed"
    /\ UNCHANGED <<dialogue, wsQueue, caches, supervisor, socket, session,
                   handler, tasks>>

(***************************************************************************)
(* The supervisor                                                          *)
(***************************************************************************)
(* A new epoch, on whatever protocol client there is: after round trips to *)
(* a server, or the pause after a NetworkError.                            *)
StartTasks ==
    /\ sup = "connecting" /\ epoch < MaxEpoch /\ LoopIsIdle
    /\ epoch' = epoch + 1
    /\ runTask' = "running"
    /\ authLost' = [authLost EXCEPT ![epoch + 1] = "pending"]
    /\ task' = [task EXCEPT ![epoch + 1] = At("get")]
    /\ getters' = Append(getters, epoch + 1)
    /\ sup' = "firstWait"
    /\ UNCHANGED <<dialogue, wsQueue, caches>>

Connect ==
    /\ socket = "none"
    /\ StartTasks
    /\ address' = TRUE
    /\ socket' = "open" /\ session' = "off" /\ handler' = 0

(* _ensure_connected returns at once: the protocol client was kept.        *)
KeepConnection ==
    /\ socket # "none"
    /\ StartTasks
    /\ UNCHANGED <<address, socket, session, handler>>

(* A server does not answer, or closes during the handshake.               *)
AttemptFails ==
    /\ sup = "connecting" /\ socket = "none"
    /\ address' = TRUE
    /\ UNCHANGED <<dialogue, wsQueue, caches, sup, epoch, authLost, connection, tasks>>

Unavailable == {"BackendNotAvailable", "BackendTimeout", "BackendError"}

(* Fetching the server list fails for good: NetworkError is retried, the   *)
(* Unavailable ones blacklist the current server, which raises if there is *)
(* none yet; anything else is raised.                                      *)
ListFails(exception) ==
    /\ sup = "connecting" /\ socket = "none"
    /\ exception # "NetworkError"
    /\ exception \in Unavailable => ~address
    /\ sup' = "dead"
    /\ UNCHANGED <<dialogue, wsQueue, caches, epoch, address, authLost, connection, tasks>>

(* Closing the protocol client strands the tasks that await its futures.   *)
CloseConnection ==
    /\ socket' = "none" /\ session' = "off" /\ handler' = 0
    /\ task' = [e \in Epochs |->
                  CASE task[e].at \in Rpcs       -> At("stuck")
                    [] task[e].at \in Exceptions -> At("died")
                    [] OTHER                     -> task[e]]

KeepTasks ==
    /\ task' = [e \in Epochs |->
                  IF task[e].at \in Exceptions THEN At("died") ELSE task[e]]
    /\ UNCHANGED <<socket, session, handler>>

\* Mutant of Handle: every exception leads to a reconnection, and that is all.
HandleReconnects(exception) ==
    runTask' = "none" /\ sup' = "connecting" /\ UNCHANGED info /\ CloseConnection

(* The except clauses of run; the receive task is over or cancelled.       *)
Handle(exception) ==
    /\ runTask' = "none"
    /\ IF exception \in Unavailable \cup {"ConnectionClosed", "AuthenticationRequired"}
       THEN /\ sup' = "connecting"
            /\ info' = IF exception = "AuthenticationRequired" THEN {} ELSE info
            /\ CloseConnection
       ELSE /\ sup' = IF exception = "NetworkError" THEN "connecting" ELSE "dead"
            /\ KeepTasks
            /\ UNCHANGED info

(* The first wait: {run_task, auth_task}.                                  *)
FirstWait ==
    /\ sup = "firstWait" /\ TasksRest
    /\ IF task[epoch].at \in Exceptions
       THEN Handle(task[epoch].at)
       ELSE /\ task[epoch].at = "done" \/ runTask # "running"
            /\ sup' = "secondWait"
            /\ UNCHANGED <<info, task, connection>>
    /\ UNCHANGED <<dialogue, wsQueue, polling, methods, epoch, address, authLost, getters>>

(* The second wait: {run_task, auth_lost}.  Lost credentials end the loop; *)
(* a failed receive task has the pending future cancelled.                 *)
SecondWait ==
    /\ sup = "secondWait" /\ TasksRest
    /\ CASE authLost[epoch] \in {"InvalidCredentials", "AccessDenied"} ->
                /\ sup' = "ended" /\ runTask' = "none"
                /\ CloseConnection
                /\ UNCHANGED <<info, authLost>>
         [] authLost[epoch] \in Exceptions \ {"InvalidCredentials", "AccessDenied"} ->
                Handle(authLost[epoch]) /\ UNCHANGED authLost
         [] OTHER ->
                /\ runTask # "running"
                /\ authLost' = [authLost EXCEPT ![epoch] = "cancelled"]
                /\ Handle(runTask)
    /\ UNCHANGED <<dialogue, wsQueue, polling, methods, epoch, address, getters>>

--------------------------------------------------------------------------------
DialogueStep ==
    \/ \E stored \in {{}, Fields} : Authenticate(stored)
    \/ \E blank \in BOOLEAN : SubmitLogin(blank)
    \/ \E page \in {"Mail", "Mobile"}, blank \in BOOLEAN : SubmitCode(page, blank)
    \/ PressConfirm
    \/ Receive
    \/ TimeOut

AnswerStep(e) ==
    \/ \E result \in Results :
        \/ AnswerRsa(e, result)
        \/ \E offered \in Confirmations : AnswerLogin(e, result, offered)
        \/ AnswerUpdate(e, result)
        \/ \E token \in SUBSET {"refresh_token"} : AnswerPoll(e, result, token)
        \/ AnswerLogon(e, result)
    \/ RefuseRsa(e)

ResumeStep(e) ==
    RsaResumes(e) \/ LoginResumes(e) \/ UpdateResumes(e) \/ PollResumes(e)
    \/ LogonResumes(e)

NetworkStep ==
    \/ \E result \in Unsolicited : VolunteerLogon(result)
    \/ \E result \in Results \ {"OK"} : LogOff(result)
    \/ SocketCloses
    \/ ReceiveFails

SupervisorStep ==
    \/ Connect \/ KeepConnection \/ AttemptFails
    \/ \E exception \in ListErrors : ListFails(exception)
    \/ FirstWait \/ SecondWait

Next ==
    \/ DialogueStep
    \/ TakeCall
    \/ \E e \in Epochs : AnswerStep(e) \/ ResumeStep(e)
    \/ NetworkStep
    \/ SupervisorStep

Spec == Init /\ [][Next]_vars

(* The event loop runs every coroutine that can go on: a receive task      *)
(* hears of a closed socket, a task takes a call or resumes.  A wait of the *)
(* supervisor that is over ends however often a task is woken before it:   *)
(* the ready queue is first in, first out.                                 *)
LoopFairness ==
    /\ WF_vars(ReceiveFails) /\ WF_vars(TakeCall)
    /\ SF_vars(FirstWait) /\ SF_vars(SecondWait)
    /\ \A e \in Epochs : WF_vars(ResumeStep(e))

FairSpec == Spec /\ LoopFairness

(* With a network on which a server can be reached, time in which the      *)
(* dialogue goes on, and Steam's answers to what it is asked.              *)
HealthySpec ==
    /\ FairSpec
    /\ WF_vars(Connect) /\ WF_vars(KeepConnection)
    /\ WF_vars(Receive)
    /\ \A e \in Epochs : WF_vars(AnswerStep(e))

(***************************************************************************)
(* Properties                                                              *)
(***************************************************************************)
(* Every variable has its type; in particular whatever a task answers with *)
(* is a UserActionRequired, whichever result Steam gave                    *)
(* (protocol_client.py:150-292).                                           *)
TypeOK ==
    /\ plugin \in Dialogues
    /\ wsQueue \in Seq(Calls) /\ plQueue \in Seq(UserActionRequired)
    /\ info \subseteq Fields
    /\ polling \in {NoPolling} \cup SUBSET TwoFactorMethod
    /\ methods \subseteq TwoFactorMethod
    /\ sup \in Waits \cup {"off", "connecting", "dead", "ended"}
    /\ epoch \in 0..MaxEpoch /\ handler \in {0} \cup Epochs
    /\ address \in BOOLEAN
    /\ authLost \in [Epochs -> Exceptions \cup {"none", "pending", "cancelled"}]
    /\ socket \in {"none", "open", "closed"} /\ session \in {"off", "on"}
    /\ runTask \in Exceptions \cup {"none", "running"}
    /\ task \in [Epochs -> TaskStates]
    /\ getters \in Seq(Epochs)

(* A call that some task has taken and not answered.                       *)
Serving(e) == task[e].at \in Rpcs \cup {"stuck"}

(* At most one call is under way, whichever epoch's task has it: queued,   *)
(* being served, or answered and not yet read.  None is, while the user    *)
(* reads a page or is connected.  The two queues are shared by the tasks   *)
(* of all epochs and an answer carries no name of its call, so this is     *)
(* what keeps an answer with its question (websocket_client.py:237-305).   *)
OneCallInFlight ==
    /\ Len(wsQueue) + Len(plQueue) <= 1
    /\ wsQueue # <<>> \/ plQueue # <<>> => \A e \in Epochs : ~Serving(e)
    /\ \A e, f \in Epochs : Serving(e) /\ Serving(f) => e = f
    /\ plugin.at \in {"start", "page", "connected"} =>
          /\ wsQueue = <<>> /\ plQueue = <<>>
          /\ \A e \in Epochs : ~Serving(e)

(* A queued call finds the data its task will read: a poll or a code the   *)
(* polling data of the login before it, a token login the user's name, id  *)
(* and token, though a supervisor that recovers may clear these caches at  *)
(* any time (websocket_client.py:284-297, 147).                            *)
CallsHaveTheirData ==
    \A i \in DOMAIN wsQueue :
        /\ HasItsData(wsQueue[i])
        /\ wsQueue[i].call = "update" => ValidPolling

(* Where the current epoch's task did the login, Steam's notice that the   *)
(* session is over goes to the future the supervisor is waiting on, and    *)
(* that future can still take it (websocket_client.py:238-240).            *)
WatcherIsCurrent ==
    sup \in Waits /\ task[epoch].at = "done" /\ session = "on" =>
        handler = epoch /\ authLost[epoch] = "pending"

(* The user is told he is connected only if Steam accepted the login of    *)
(* some task: no answer meant for an earlier call, of a task that outlived *)
(* its turn or of a connection since closed is taken for the answer to the *)
(* login (websocket_client.py:237-305, backend_steam_network.py:311-345).  *)
ConnectedWasLoggedIn ==
    plugin.at = "connected" => \E e \in Epochs : task[e].at = "done"

LossReported ==
    sup \in Waits /\ task[epoch].at = "done" /\ authLost[epoch] = "AuthenticationRequired"

(* A log-off for a login elsewhere that was reported to the turn under way *)
(* stays there until the supervisor acts on it, and then the user's data   *)
(* goes, whatever the receive task dies of meanwhile and though the first  *)
(* wait is over only later (websocket_client.py 98-129, 142-147).  Whether *)
(* a log-off is reported to the turn under way is another matter:          *)
(* LossReachesTheWatcher.                                                  *)
LossIsKept == [][LossReported => LossReported' \/ info' = {}]_vars

(* A log-off for a login elsewhere, once reported, clears the user's data, *)
(* which is how later calls learn that the user is no longer logged in     *)
(* (websocket_client.py:143-147).                                          *)
LossIsHandled ==
    \A e \in Epochs :
        (/\ e = epoch /\ sup \in Waits /\ task[e].at = "done"
         /\ authLost[e] = "AuthenticationRequired") ~> (info = {})

(* The supervisor never goes on waiting on a connection that is closed.    *)
ClosedIsNoticed ==
    (sup \in Waits /\ socket = "closed") ~> (sup \notin Waits \/ socket = "open")

(* What the dialogue with the user promises, whatever the connection does. *)
Dialogue == INSTANCE AuthDialogue
    WITH phase    <- IF plugin.at # "await" THEN plugin.at
                     ELSE IF plQueue = <<>> THEN "asked" ELSE "answered",
         question <- plugin.call,
         answer   <- IF plugin.at = "await" /\ plQueue # <<>>
                     THEN Head(plQueue) ELSE "none"

ImplementsDialogue == Dialogue!DialogueSpec

(***************************************************************************)
(* What the repository says of the program and the code does not do; see   *)
(* the findings.                                                           *)
(***************************************************************************)
LoggedOff ==
    plugin.at = "connected" /\ socket = "open" /\ socket' = "open"
    /\ session = "on" /\ session' = "off"

(* A log-off heard while the user is connected sets its exception on the   *)
(* future of the current epoch: "lost authorization mid-run. We need to    *)
(* propegate this error to gog" (websocket_client.py:142).  It does not    *)
(* when the task of an earlier epoch, which nothing cancels, has done the  *)
(* login.                                                                  *)
LossReachesTheWatcher == [][LoggedOff => authLost'[epoch] \in Exceptions]_vars

(* After a reconnection the user is logged in again: the supervisor is to  *)
(* recover "by restarting the tasks that handle logging in"                *)
(* (websocket_client.py:85).  The restarted task waits for a call that     *)
(* nobody makes, while the plugin goes on as if the user were logged in.   *)
ReconnectLogsIn ==
    (plugin.at = "connected" /\ info = Fields /\ sup = "firstWait")
        ~> (session = "on" \/ sup # "firstWait")

(* Every answer to a poll is passed on to the dialogue: "If the poll       *)
(* otherwise fails, it return UserActionRequired.InvalidAuthData"          *)
(* (backend_steam_network.py:305).  check_auth_status raises instead.      *)
FailedPollIsAnswered ==
    [][\A e \in Epochs : task[e].at \in {"poll", "pollConfirm"}
            /\ task[e].result # "none" /\ task'[e] # task[e] => plQueue' # plQueue]_vars

(* When the loop ends because credentials were lost the plugin is told,    *)
(* as test_auth_lost_handler expects.  The user info cache, by which the   *)
(* imports decide whether the user is logged in, keeps its data.           *)
LostCredentialsAreTold == sup = "ended" => info = {}
================================================================================
