-------------------------------- MODULE Presence --------------------------------
(***************************************************************************)
(* What Galaxy is told of the presence of friends: a change is pushed from *)
(* the receive task (friends_cache.py 70-90), Galaxy imports on its own    *)
(* (backend_steam_network.py 518-529), and both compute the presence from  *)
(* an info that changes under their hands (presence.py).                   *)
(*                                                                         *)
(* Lists, names and the ready event are Friends'.  Names of games, the     *)
(* parameters of a status and its texts are left out: a rich presence is   *)
(* one of the kinds that are treated differently, and what it becomes with *)
(* the game's translations is given.                                       *)
(***************************************************************************)
EXTENDS Integers

CONSTANTS
    Users,        \* the users Steam has news of
    Apps,         \* the games they play
    NoApp,        \* the game id 0
    None,         \* no value
    News,         \* what Steam may say of a user, a field being None if not said
    TextOf,       \* what a game's translations make of a status that needs them
    MaxNews,      \* bound: pieces of news
    MaxRelations, \* bound: friends gained and lost
    MaxImports,   \* bound: imports of the presence
    MaxLosses     \* bound: connections lost

PersonaStates == {"Offline", "Online", "Busy", "Away", "Snooze", "LookingToTrade",
                  "LookingToPlay", "Invisible"}

(* No rich presence, a plain status, one with parameters, one with a token *)
(* of the game's translations.                                             *)
Riches == {"none", "plain", "params", "token"}

Shown == {"plain", "text", "token"}

ASSUME ValueAssumption ==
    /\ NoApp \notin Apps
    /\ None \notin Users \cup Apps \cup {NoApp} \cup PersonaStates \cup Riches \cup Shown
    /\ TextOf \in [Apps -> Shown \cup {None}]

(* A rich presence comes with the game, and none without.                  *)
ASSUME NewsAssumption ==
    /\ News \subseteq [state : PersonaStates \cup {None}, game : Apps \cup {NoApp, None},
                       rich : Riches \cup {None}]
    /\ \A news \in News : /\ (news.game = None) <=> (news.rich = None)
                          /\ news.game = NoApp => news.rich = "none"

ASSUME BoundAssumption == {MaxNews, MaxRelations, MaxImports, MaxLosses} \subseteq Nat

VARIABLES
    friend,        \* whether a user is cached, and complete
    info,          \* _info_map
    translations,  \* _translations_cache: no entry, None, or the tokens
    requests,      \* the games whose translations Steam has been asked for
    missed,        \* history: those whose answer was lost or empty
    push,          \* the push the receive task is in the middle of
    getters,       \* Galaxy's import, per user
    told,          \* what Galaxy was last told of a friend, since he was one
    astray,        \* history: whether it was told by an import that had read the
                   \* info before it changed
    counts         \* how often each bounded thing happened

vars == <<friend, info, translations, requests, missed, push, getters, told, astray, counts>>

Infos == [state : PersonaStates \cup {None}, game : Apps \cup {NoApp, None}, rich : Riches]

Presences == [state : {"Online", "Offline", "Away", "Unknown"}, game : Apps \cup {None},
              status : Shown \cup {None}]

Blank == [state |-> None, game |-> None, rich |-> "none"]

Quiet == [user |-> None, seen |-> None]

(* Where the call for a user stands, the info its context refers to - the  *)
(* cached one, or one that was removed - the presence it has computed, and *)
(* whether the info has changed since, or is no longer the friend's.       *)
Resting == [at |-> "off", old |-> None, seen |-> None, stale |-> FALSE]

Init ==
    /\ friend = [u \in Users |-> "no"] /\ info = [u \in Users |-> Blank]
    /\ translations = [app \in Apps |-> "absent"] /\ requests = {} /\ missed = {}
    /\ push = Quiet
    /\ getters = [u \in Users |-> Resting]
    /\ told = [u \in Users |-> None] /\ astray = [u \in Users |-> FALSE]
    /\ counts = [news |-> 0, relations |-> 0, imports |-> 0, losses |-> 0]

Counted(what, bound) ==
    /\ counts[what] < bound
    /\ counts' = [counts EXCEPT ![what] = @ + 1]

--------------------------------------------------------------------------------
(* presence_from_user_info.                                                *)

StateOf(state) ==
    CASE state \in {"Online", "Snooze"} -> "Online"
      [] state = "Offline"              -> "Offline"
      [] state \in {"Away", "Busy"}     -> "Away"
      [] OTHER                          -> "Unknown"

Known(app) == app \in Apps /\ translations[app] = "known"

(* A status without a game cannot be looked up, and raises to None.        *)
Status(i, known) ==
    IF i.rich = "none" \/ i.game \notin Apps THEN None
    ELSE IF i.rich = "plain" THEN "plain"
    ELSE IF known THEN TextOf[i.game] ELSE None

\* Mutant of PresenceOf: the game id 0 is passed on.
PresenceOfRaw(i) ==
    [state |-> StateOf(i.state), game |-> i.game, status |-> Status(i, Known(i.game))]

PresenceOf(i) ==
    [state  |-> StateOf(i.state),
     game   |-> IF i.game \in Apps THEN i.game ELSE None,
     status |-> Status(i, Known(i.game))]

(* With translations the status is made by a task that is waited for.      *)
Awaits(i) == i.rich # "none" /\ Known(i.game)

--------------------------------------------------------------------------------
(* What Steam sends.  The receive task handles one packet at a time, a     *)
(* push included.                                                          *)

Packet == push = Quiet

(* ProtoUserInfo.update: a field that was not said stays.                  *)
Merge(old, news) ==
    [state |-> IF news.state = None THEN old.state ELSE news.state,
     game  |-> IF news.game = None THEN old.game ELSE news.game,
     rich  |-> IF news.rich = None THEN old.rich ELSE news.rich]

(* _translations_handler without translations: asked once per process.     *)
Ask(news) ==
    IF news.rich = "token" /\ translations[news.game] = "absent"
    THEN /\ translations' = [translations EXCEPT ![news.game] = "asked"]
         /\ requests' = requests \cup {news.game}
    ELSE UNCHANGED <<translations, requests>>

\* Mutant of Changed: only the state is looked at.
StateChanged(old, new) == new.state # old.state

Changed(old, new) == new # old

Overtakes(u) == getters' = [getters EXCEPT ![u].stale = @ \/ getters[u].at = "translating"]

(* The user_presence_update_handler of a complete friend.                  *)
Push(u, new) ==
    /\ Overtakes(u)
    /\ IF Awaits(new)
       THEN /\ push' = [user |-> u, seen |-> PresenceOf(new)]
            /\ UNCHANGED <<told, astray>>
       ELSE /\ told' = [told EXCEPT ![u] = PresenceOf(new)]
            /\ astray' = [astray EXCEPT ![u] = FALSE]
            /\ UNCHANGED push

(* A persona message: the translations are asked for first, whoever the    *)
(* user is; a friend who gets complete by it is not pushed.                *)
Persona(u, news) ==
    /\ Packet /\ Counted("news", MaxNews)
    /\ Ask(news)
    /\ IF friend[u] = "no"
       THEN UNCHANGED <<friend, info, push, getters, told, astray>>
       ELSE LET new == Merge(info[u], news) IN
            /\ info' = [info EXCEPT ![u] = new]
            /\ \/ /\ friend[u] = "pending"
                  /\ friend' \in {friend} \cup
                                 (IF new.state # None THEN {[friend EXCEPT ![u] = "ready"]} ELSE {})
                  /\ UNCHANGED <<push, getters, told, astray>>
               \/ /\ friend[u] = "ready"
                  /\ UNCHANGED friend
                  /\ IF Changed(info[u], new)
                     THEN Push(u, new)
                     ELSE UNCHANGED <<push, getters, told, astray>>
    /\ UNCHANGED <<missed>>

PushEnds ==
    /\ push # Quiet
    /\ push' = Quiet
    /\ told' = [told EXCEPT ![push.user] = push.seen]
    /\ astray' = [astray EXCEPT ![push.user] = FALSE]
    /\ UNCHANGED <<friend, info, translations, requests, missed, getters, counts>>

\* Mutant of Translations: an app that has an entry is not looked at again.
TranslationsDropped(app) ==
    /\ Packet /\ app \in requests
    /\ requests' = requests \ {app}
    /\ UNCHANGED <<friend, info, translations, missed, push, getters, told, astray, counts>>

Translations(app) ==
    /\ Packet /\ app \in requests
    /\ requests' = requests \ {app}
    /\ translations' = [translations EXCEPT ![app] = "known"]
    /\ UNCHANGED <<friend, info, missed, push, getters, told, astray, counts>>

(* A game may have no translations: the entry stays None.                  *)
NoTranslations(app) ==
    /\ Packet /\ app \in requests
    /\ requests' = requests \ {app}
    /\ missed' = missed \cup {app}
    /\ UNCHANGED <<friend, info, translations, push, getters, told, astray, counts>>

Befriend(u) ==
    /\ Packet /\ Counted("relations", MaxRelations)
    /\ friend[u] = "no"
    /\ friend' = [friend EXCEPT ![u] = "pending"]
    /\ info' = [info EXCEPT ![u] = Blank]
    /\ told' = [told EXCEPT ![u] = None] /\ astray' = [astray EXCEPT ![u] = FALSE]
    /\ UNCHANGED <<translations, requests, missed, push, getters>>

(* Nobody is told (removed_handler is not set), and a context goes on      *)
(* referring to the info that was removed.                                 *)
Unfriend(u) ==
    /\ Packet /\ Counted("relations", MaxRelations)
    /\ friend[u] # "no"
    /\ friend' = [friend EXCEPT ![u] = "no"]
    /\ info' = [info EXCEPT ![u] = Blank]
    /\ getters' = [getters EXCEPT
                      ![u].old = IF getters[u].at = "due" /\ @ = None THEN info[u] ELSE @,
                      ![u].stale = getters[u].at # "off"]
    /\ UNCHANGED <<translations, requests, missed, push, told, astray>>

(* The connection is replaced; the translations cache stays.               *)
Lose ==
    /\ Packet /\ Counted("losses", MaxLosses)
    /\ missed' = missed \cup requests
    /\ requests' = {}
    /\ UNCHANGED <<friend, info, translations, push, getters, told, astray>>

--------------------------------------------------------------------------------
(* Galaxy's import, one at a time, of all friends side by side.            *)

Prepare ==
    /\ Counted("imports", MaxImports)
    /\ \A u \in Users : getters[u].at = "off" /\ friend[u] # "pending"
    /\ getters' = [u \in Users |-> IF friend[u] = "ready" THEN [Resting EXCEPT !.at = "due"]
                                                          ELSE Resting]
    /\ UNCHANGED <<friend, info, translations, requests, missed, push, told, astray>>

Tell(u, presence, stale) ==
    /\ told' = [told EXCEPT ![u] = presence]
    /\ astray' = [astray EXCEPT ![u] = stale]
    /\ getters' = [getters EXCEPT ![u] = Resting]

GetPresence(u) ==
    LET i == IF getters[u].old = None THEN info[u] ELSE getters[u].old IN
    /\ getters[u].at = "due"
    /\ IF Awaits(i)
       THEN /\ getters' = [getters EXCEPT ![u].at = "translating", ![u].seen = PresenceOf(i)]
            /\ UNCHANGED <<told, astray>>
       ELSE Tell(u, PresenceOf(i), getters[u].stale)
    /\ UNCHANGED <<friend, info, translations, requests, missed, push, counts>>

GetterEnds(u) ==
    /\ getters[u].at = "translating"
    /\ Tell(u, getters[u].seen, getters[u].stale)
    /\ UNCHANGED <<friend, info, translations, requests, missed, push, counts>>

Next ==
    \/ \E u \in Users : \/ \E news \in News : Persona(u, news)
                        \/ Befriend(u) \/ Unfriend(u) \/ GetPresence(u) \/ GetterEnds(u)
    \/ \E app \in Apps : Translations(app) \/ NoTranslations(app)
    \/ PushEnds \/ Lose \/ Prepare

Spec == Init /\ [][Next]_vars

(* The event loop goes on with what is ready; Steam answers, if only with  *)
(* nothing.                                                                *)
FairSpec ==
    /\ Spec
    /\ WF_vars(PushEnds)
    /\ \A u \in Users : WF_vars(GetPresence(u)) /\ WF_vars(GetterEnds(u))
    /\ \A app \in Apps : WF_vars(Translations(app) \/ NoTranslations(app))

--------------------------------------------------------------------------------
TypeOK ==
    /\ friend \in [Users -> {"no", "pending", "ready"}]
    /\ info \in [Users -> Infos]
    /\ translations \in [Apps -> {"absent", "asked", "known"}]
    /\ requests \subseteq Apps /\ missed \subseteq Apps
    /\ push = Quiet \/ push \in [user : Users, seen : Presences]
    /\ getters \in [Users -> [at : {"off", "due", "translating"}, old : Infos \cup {None},
                              seen : Presences \cup {None}, stale : BOOLEAN]]
    /\ told \in [Users -> Presences \cup {None}] /\ astray \in [Users -> BOOLEAN]
    /\ counts \in [news : Nat, relations : Nat, imports : Nat, losses : Nat]

(* A presence is of an info, its status as it is with the translations or  *)
(* as it was without them.                                                 *)
IsOf(presence, i) ==
    /\ presence.state = StateOf(i.state)
    /\ presence.game = IF i.game \in Apps THEN i.game ELSE None
    /\ presence.status \in {Status(i, FALSE), Status(i, TRUE)}

(* What Galaxy knows of a complete friend is his present info, in whatever *)
(* order news, lists, pushes and imports came - unless an import that read *)
(* the info before a change, or a removed one, answered after it           *)
(* (friends_cache.py 78-80, backend_steam_network.py 518-529).             *)
PresenceIsCurrent ==
    \A u \in Users :
        friend[u] = "ready" /\ told[u] # None /\ ~astray[u] /\ push.user # u
        => IsOf(told[u], info[u])

(* Who shows a status made of tokens, friend or not when he took the game  *)
(* up, plays a game whose translations are known, or still owed by Steam,  *)
(* or were lost or empty: the entry that keeps anybody from asking again   *)
(* is never there without a request (protocol_client.py 401-406,           *)
(* protobuf_client.py 615-653).                                            *)
TokensAreLookedUp ==
    \A u \in Users : info[u].rich = "token" =>
        info[u].game \in { app \in Apps : translations[app] = "known" } \cup requests \cup missed

(* A game's translations are still asked for, or there, as long as their   *)
(* entry keeps anybody from asking again (protocol_client.py 401-406) -    *)
(* unless the answer was lost or empty.                                    *)
AskedIsAnswered ==
    \A app \in Apps :
        translations[app] = "asked" ~> translations[app] = "known" \/ app \in missed

================================================================================
