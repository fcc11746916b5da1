------------------------------ MODULE Credentials ------------------------------
(***************************************************************************)
(* The credentials: what a login writes to the user info cache             *)
(* (user_info_cache.py), what the tick makes Galaxy store of it            *)
(* (backend_steam_network.py 166-167), and what the next process of the    *)
(* plugin is given.  Calls and connections are SteamSession's: here a step *)
(* of the dialogue is what it writes.                                      *)
(*                                                                         *)
(* A field's value is the user it belongs to.  The access token is set     *)
(* together with the refresh token, is not stored, and is left out.        *)
(***************************************************************************)
EXTENDS Naturals

CONSTANTS
    Users,  \* Steam's accounts
    None,   \* a field that is not set
    Zero    \* the steam id of an answer that carries none

ASSUME ValueAssumption == None \notin Users /\ Zero \notin Users /\ None # Zero

VARIABLES
    info,         \* the user info cache's fields
    initialized,  \* its event
    changed,      \* its flag
    stored,       \* what Galaxy stores; blank also before it ever did
    stage,        \* where the dialogue of this process stands
    fromStored    \* whether the logon under way uses stored credentials

vars == <<info, initialized, changed, stored, stage, fromStored>>

Infos == [id : Users \cup {None, Zero}, name : Users \cup {None},
          persona : Users \cup {None}, token : Users \cup {None}]

Blank == [id |-> None, name |-> None, persona |-> None, token |-> None]

IsInitialized(c) == None \notin {c.id, c.name, c.persona, c.token}

Stages == {"start", "login", "accepted", "code", "logon", "denied", "connected", "out", "failed"}

Init ==
    /\ info = Blank /\ initialized = FALSE /\ changed = FALSE
    /\ stored = Blank /\ stage = "start" /\ fromStored = FALSE

--------------------------------------------------------------------------------
\* Mutant of Put: a change is marked only when the cache is first complete.
PutQuietly(new) ==
    /\ info' = new
    /\ initialized' = (initialized \/ IsInitialized(new))
    /\ changed' = (changed \/ (~initialized /\ IsInitialized(new)))

(* The setters: a change is marked once the cache was complete.            *)
Put(new) ==
    /\ info' = new
    /\ initialized' = (initialized \/ IsInitialized(new))
    /\ changed' = (changed \/ (IF initialized THEN new # info ELSE IsInitialized(new)))

\* Mutant of Clear: the token and its owner's name are kept.
ClearIds == info' = [info EXCEPT !.id = None, !.name = None]

(* Clear goes round the setters: neither the event nor the flag moves.     *)
Clear == info' = Blank

PutId(id) ==
    IF id = info.id
    THEN UNCHANGED <<info, initialized, changed>>
    ELSE Put([info EXCEPT !.id = id])

(* authenticate: from_dict writes the fields and goes round the setters.   *)
Authenticate ==
    /\ stage = "start"
    /\ info' = stored
    /\ IF IsInitialized(stored)
       THEN stage' = "logon" /\ fromStored' = TRUE
       ELSE stage' = "login" /\ fromStored' = FALSE
    /\ UNCHANGED <<initialized, changed, stored>>

(* Steam accepts a password: the handler takes the id; the task that       *)
(* waited takes the name, unless no confirmation it can do is offered.     *)
AcceptPassword(user) ==
    /\ stage = "login"
    /\ PutId(user)
    /\ stage' \in {"accepted", "login"}
    /\ UNCHANGED <<stored, fromStored>>

TakeName ==
    /\ stage = "accepted"
    /\ Put([info EXCEPT !.name = info.id])
    /\ stage' = "code"
    /\ UNCHANGED <<stored, fromStored>>

(* A poll finds the login confirmed, or expired.                           *)
Confirm ==
    /\ stage = "code"
    /\ Put([info EXCEPT !.token = info.id, !.persona = info.id])
    /\ stage' = "logon" /\ fromStored' = FALSE
    /\ UNCHANGED stored

Expire ==
    /\ stage = "code" /\ stage' = "login"
    /\ UNCHANGED <<info, initialized, changed, stored, fromStored>>

\* Mutant of AcceptLogon: the answer's steam id is not taken.
AcceptLogonAsIs ==
    /\ stage = "logon" /\ stage' = "connected"
    /\ UNCHANGED <<info, initialized, changed, stored, fromStored>>

(* finalize_login: Steam knows the user by the token and says who it is.   *)
AcceptLogon ==
    /\ stage = "logon" /\ stage' = "connected"
    /\ PutId(info.token)
    /\ UNCHANGED <<stored, fromStored>>

(* A refusal writes its steam id all the same.  Only one that denies the   *)
(* access to stored credentials leads back to a page.                      *)
RefuseLogon(id) ==
    /\ stage = "logon"
    /\ PutId(id)
    /\ stage' \in {"failed"} \cup (IF fromStored THEN {"denied"} ELSE {})
    /\ UNCHANGED <<stored, fromStored>>

ForgetDenied ==
    /\ stage = "denied" /\ stage' = "login"
    /\ Clear
    /\ UNCHANGED <<initialized, changed, stored, fromStored>>

(* The user logged in elsewhere: websocket_client.py 142-147.              *)
LoseLogin ==
    /\ stage = "connected" /\ stage' = "out"
    /\ Clear
    /\ UNCHANGED <<initialized, changed, stored, fromStored>>

(* A step of the dialogue fails, or an exception ends the supervisor.      *)
Fail ==
    /\ stage \in {"login", "accepted", "code", "connected"} /\ stage' = "failed"
    /\ UNCHANGED <<info, initialized, changed, stored, fromStored>>

ToDict == IF IsInitialized(info) THEN info ELSE Blank

Tick ==
    /\ changed
    /\ changed' = FALSE
    /\ stored' = ToDict
    /\ UNCHANGED <<info, initialized, stage, fromStored>>

(* The process ends, at any moment, and Galaxy starts another.             *)
Restart ==
    /\ stage # "start" /\ stage' = "start"
    /\ info' = Blank /\ initialized' = FALSE /\ changed' = FALSE /\ fromStored' = FALSE
    /\ UNCHANGED stored

Next ==
    \/ Authenticate \/ TakeName \/ Confirm \/ Expire \/ AcceptLogon
    \/ \E user \in Users : AcceptPassword(user)
    \/ \E id \in {Zero, info.token} : RefuseLogon(id)
    \/ ForgetDenied \/ LoseLogin \/ Fail \/ Tick \/ Restart

Spec == Init /\ [][Next]_vars

(* Galaxy ticks the plugin about once a second.                            *)
FairSpec == Spec /\ WF_vars(Tick)

--------------------------------------------------------------------------------
TypeOK ==
    /\ info \in Infos
    /\ initialized \in BOOLEAN /\ changed \in BOOLEAN /\ fromStored \in BOOLEAN
    /\ stored \in Infos /\ (stored = Blank \/ IsInitialized(stored))
    /\ stage \in Stages

(* All of a record belongs to one user, but for an id that was lost.       *)
OfOneUser(c) ==
    \E user \in Users : /\ user = c.name /\ user = c.persona /\ user = c.token
                        /\ c.id \in {user, Zero}

(* Whoever logged in, was refused, forgotten or cut off before, in however *)
(* many processes, what is stored never mixes two users                    *)
(* (user_info_cache.py 74-138, backend_steam_network.py 166-167, 337-345). *)
StoredIsOfOneUser == stored = Blank \/ OfOneUser(stored)

(* A connected user's credentials are complete, his own, and have his id,  *)
(* even if a lost one was stored (protocol_client.py 278-292).             *)
ConnectedHasItsOwn == stage = "connected" => OfOneUser(info) /\ info.id \in Users

(* What is complete and not marked as changed is what Galaxy has: the tick *)
(* that is passed over loses nothing, though Clear and the loading go      *)
(* round the setters that mark (user_info_cache.py 32-75, 133).            *)
UnmarkedIsStored == IsInitialized(info) /\ ~changed => stored = info

(* A user who stays connected has his credentials stored as they are, also *)
(* when the cache was complete and cleared before (user_info_cache.py 133).*)
ConnectedIsStored == stage = "connected" ~> stored = info \/ stage # "connected"
================================================================================
