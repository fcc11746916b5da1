--------------------------------- MODULE Friends ---------------------------------
(***************************************************************************)
(* The friends: Steam's friend lists, their changes, the infos and the     *)
(* nicknames as protocol_client.py hands them to the friends cache         *)
(* (friends_cache.py), and Galaxy's call for the friends, which waits for  *)
(* the cache in up to three places (backend_steam_network.py 496-510).     *)
(*                                                                         *)
(* A user's info is the set of its fields that are known.  The cache       *)
(* outlives a connection, the requests of which die with it; Steam sends   *)
(* lists and answers over another one only if somebody logs on again.  The *)
(* pushes of presence to Galaxy are output only and left out.              *)
(***************************************************************************)
EXTENDS Integers, FiniteSets, Functions

CONSTANTS
    Users,       \* Steam's users
    Parts,       \* the sets of fields a persona message may carry of a user
    MaxLists,    \* bound: full friend lists
    MaxChanges,  \* bound: changes of one friend
    MaxPersonas, \* bound: infos nobody asked for
    MaxLosses    \* bound: connections lost

Fields == {"name", "avatar", "state"}

Needed == {"name", "state"}

ASSUME PartsAssumption == Parts \subseteq SUBSET Fields /\ UNION Parts = Fields

ASSUME BoundAssumption == {MaxLists, MaxChanges, MaxPersonas, MaxLosses} \subseteq Nat

VARIABLES
    info,       \* _info_map: per friend, the known fields
    pending,    \* _pending_map: per friend not ready, which of Needed came
    ready,      \* _ready_event
    nicknames,  \* _nicknames_parsed
    toCome,     \* per user, the fields that were asked for and did not come
    died,       \* history: those whose request went with its connection and
                \* was not made again
    word,       \* history: what Steam last said of each user
    call,       \* Galaxy's call for the friends
    overtaken,  \* history: whether a packet was processed between the end of
                \* the call's last wait and its going on
    lists, changes, personas, losses  \* counters for the bounds

cache    == <<info, pending, ready>>
requests == <<toCome, died>>
counters == <<lists, changes, personas, losses>>
vars     == <<cache, nicknames, requests, word, call, overtaken, counters>>

Words == {"friend", "none", "other"}

Partial(S, T) == UNION { [D -> T] : D \in SUBSET S }

(* Where the call waits, whether it was woken, the ids it has listed and   *)
(* the infos it has got; at "idle", the infos it returned last.            *)
Idle(got) == [at |-> "idle", woken |-> FALSE, ids |-> {}, got |-> got]

Waits(at, ids, got) == [at |-> at, woken |-> FALSE, ids |-> ids, got |-> got]

NoInfo == [user \in {} |-> {}]

Init ==
    /\ info = NoInfo /\ pending = NoInfo /\ ready = FALSE /\ nicknames = FALSE
    /\ toCome = [user \in Users |-> {}] /\ died = [user \in Users |-> {}]
    /\ word = [user \in Users |-> "none"]
    /\ call = Idle(NoInfo) /\ overtaken = FALSE
    /\ lists = 0 /\ changes = 0 /\ personas = 0 /\ losses = 0

--------------------------------------------------------------------------------
(* What Steam sends.                                                       *)

UpdateReady == ready' = (DOMAIN pending' = {})

(* Setting the event wakes a call that waits for it, for good: the call    *)
(* goes on even if the event is cleared again before it does.              *)
Wake == call' = IF ready' /\ call.at \in {"list", "infos"}
                THEN [call EXCEPT !.woken = TRUE]
                ELSE call

(* A woken call is in the event loop's queue before the next packet is     *)
(* received, but not before the next one of the same Multi is processed.   *)
Packet == overtaken' = (overtaken \/ call.woken)

\* Mutant of Reset: friends that are not in the new list stay.
ResetKeeping(new) ==
    /\ info' = [user \in new \cup DOMAIN info |-> IF user \in DOMAIN info THEN info[user] ELSE {}]
    /\ pending' = [user \in (new \ DOMAIN info) \cup DOMAIN pending |->
                       IF user \in DOMAIN pending THEN pending[user] ELSE {}]

(* FriendsCache._reset: those not in the new list go, new ones are pending.*)
Reset(new) ==
    /\ info' = [user \in new |-> IF user \in DOMAIN info THEN info[user] ELSE {}]
    /\ pending' = [user \in (new \ DOMAIN info) \cup (new \cap DOMAIN pending) |->
                       IF user \in DOMAIN pending THEN pending[user] ELSE {}]

\* Mutant of AskInfos: the request's flags leave the state out.
AskInfosNoState(users) ==
    /\ toCome' = [user \in Users |-> IF user \in users THEN Fields \ {"state"} ELSE toCome[user]]
    /\ died' = [user \in Users |-> IF user \in users THEN {} ELSE died[user]]

AskInfos(users) ==
    /\ toCome' = [user \in Users |-> IF user \in users THEN Fields ELSE toCome[user]]
    /\ died' = [user \in Users |-> IF user \in users THEN {} ELSE died[user]]

(* The list Steam sends at the logon, or later once more.                  *)
FriendList(new) ==
    /\ Packet /\ lists < MaxLists
    /\ lists' = lists + 1
    /\ word' = [user \in Users |-> IF user \in new THEN "friend" ELSE "none"]
    /\ Reset(new) /\ UpdateReady /\ Wake /\ AskInfos(new)
    /\ UNCHANGED <<nicknames, changes, personas, losses>>

Change(user, relationship) ==
    /\ Packet /\ lists > 0 /\ changes < MaxChanges
    /\ changes' = changes + 1
    /\ word' = [word EXCEPT ![user] = relationship]
    /\ UNCHANGED <<nicknames, lists, personas, losses>>

NewFriend(user) ==
    /\ Change(user, "friend")
    /\ IF user \in DOMAIN info
       THEN UNCHANGED <<info, pending>>
       ELSE /\ info' = [u \in DOMAIN info \cup {user} |-> IF u = user THEN {} ELSE info[u]]
            /\ pending' = [u \in DOMAIN pending \cup {user} |-> IF u = user THEN {} ELSE pending[u]]
    /\ UpdateReady /\ Wake /\ AskInfos({user})

LostFriend(user) ==
    /\ Change(user, "none")
    /\ info' = Restrict(info, DOMAIN info \ {user})
    /\ pending' = Restrict(pending, DOMAIN pending \ {user})
    /\ UpdateReady /\ Wake
    /\ UNCHANGED requests

(* Requests, blocked and ignored users are passed over.                    *)
OtherRelationship(user) ==
    /\ Change(user, "other")
    /\ UNCHANGED <<cache, requests, call>>

\* Mutant of Update: a state alone completes a friend.
UpdateByState(user, part) ==
    IF user \notin DOMAIN info
    THEN UNCHANGED <<cache, call>>
    ELSE /\ info' = [info EXCEPT ![user] = @ \cup part]
         /\ IF user \notin DOMAIN pending
            THEN UNCHANGED <<pending, ready, call>>
            ELSE LET came == pending[user] \cup (part \cap Needed) IN
                 IF "state" \in came
                 THEN pending' = Restrict(pending, DOMAIN pending \ {user}) /\ UpdateReady /\ Wake
                 ELSE pending' = [pending EXCEPT ![user] = came] /\ UNCHANGED <<ready, call>>

\* Mutant of Update: every field is kept for a pending friend.
UpdateKeepingAll(user, part) ==
    IF user \notin DOMAIN info
    THEN UNCHANGED <<cache, call>>
    ELSE /\ info' = [info EXCEPT ![user] = @ \cup part]
         /\ IF user \notin DOMAIN pending
            THEN UNCHANGED <<pending, ready, call>>
            ELSE LET came == pending[user] \cup part IN
                 IF Needed \subseteq came
                 THEN pending' = Restrict(pending, DOMAIN pending \ {user}) /\ UpdateReady /\ Wake
                 ELSE pending' = [pending EXCEPT ![user] = came] /\ UNCHANGED <<ready, call>>

(* FriendsCache.update: a friend is complete with a name and a state.      *)
Update(user, part) ==
    IF user \notin DOMAIN info
    THEN UNCHANGED <<cache, call>>
    ELSE /\ info' = [info EXCEPT ![user] = @ \cup part]
         /\ IF user \notin DOMAIN pending
            THEN UNCHANGED <<pending, ready, call>>
            ELSE LET came == pending[user] \cup (part \cap Needed) IN
                 IF came = Needed
                 THEN pending' = Restrict(pending, DOMAIN pending \ {user}) /\ UpdateReady /\ Wake
                 ELSE pending' = [pending EXCEPT ![user] = came] /\ UNCHANGED <<ready, call>>

(* A part of an answer to a request of infos.                              *)
InfoComes(user, part) ==
    /\ Packet
    /\ part \cap toCome[user] # {}
    /\ toCome' = [toCome EXCEPT ![user] = @ \ part]
    /\ Update(user, part)
    /\ UNCHANGED <<nicknames, died, word, counters>>

(* News of a user, friend or not, that nobody asked for.                   *)
InfoVolunteered(user, part) ==
    /\ Packet /\ personas < MaxPersonas
    /\ personas' = personas + 1
    /\ Update(user, part)
    /\ UNCHANGED <<nicknames, requests, word, lists, changes, losses>>

NicknameList ==
    /\ Packet
    /\ nicknames' = TRUE
    /\ call' = IF call.at = "nicknames" THEN [call EXCEPT !.woken = TRUE] ELSE call
    /\ UNCHANGED <<cache, requests, word, counters>>

(* The connection is replaced: what it was asked for will not come.  The   *)
(* cache stays, and so does a call that waits for it.                      *)
Lose ==
    /\ losses < MaxLosses /\ losses' = losses + 1
    /\ toCome' = [user \in Users |-> {}]
    /\ died' = [user \in Users |-> died[user] \cup toCome[user]]
    /\ UNCHANGED <<cache, nicknames, word, call, overtaken, lists, changes, personas>>

--------------------------------------------------------------------------------
(* Galaxy's call.                                                          *)

AfterInfos(ids) ==
    LET got == Restrict(info, ids \cap DOMAIN info) IN
    IF nicknames THEN Idle(got) ELSE Waits("nicknames", ids, got)

AfterList ==
    IF ready THEN AfterInfos(DOMAIN info) ELSE Waits("infos", DOMAIN info, NoInfo)

\* Mutant of GetFriends: the call does not wait for the cache.
GetFriendsAtOnce ==
    /\ call.at = "idle"
    /\ call' = AfterInfos(DOMAIN info)
    /\ overtaken' = FALSE
    /\ UNCHANGED <<cache, nicknames, requests, word, counters>>

GetFriends ==
    /\ call.at = "idle"
    /\ call' = IF ready THEN AfterList ELSE Waits("list", {}, NoInfo)
    /\ overtaken' = FALSE
    /\ UNCHANGED <<cache, nicknames, requests, word, counters>>

Resume ==
    /\ call.woken
    /\ call' = CASE call.at = "list"      -> AfterList
                 [] call.at = "infos"     -> AfterInfos(call.ids)
                 [] call.at = "nicknames" -> Idle(call.got)
    /\ overtaken' = (overtaken /\ call'.at # "infos")
    /\ UNCHANGED <<cache, nicknames, requests, word, counters>>

Next ==
    \/ \E new \in SUBSET Users : FriendList(new)
    \/ \E user \in Users :
          \/ NewFriend(user) \/ LostFriend(user) \/ OtherRelationship(user)
          \/ \E part \in Parts : InfoComes(user, part) \/ InfoVolunteered(user, part)
    \/ NicknameList \/ Lose \/ GetFriends \/ Resume

Spec == Init /\ [][Next]_vars

(* Steam sends a list of friends over its first connection and answers, in *)
(* full, every request whose connection lasts; the event loop resumes a    *)
(* call that was woken.  It need not send nicknames, and nobody need log   *)
(* on over a later connection.                                             *)
FairSpec ==
    /\ Spec
    /\ WF_vars(lists = 0 /\ losses = 0 /\ \E new \in SUBSET Users : FriendList(new))
    /\ \A user \in Users : WF_vars(\E part \in Parts : InfoComes(user, part))
    /\ WF_vars(Resume)

--------------------------------------------------------------------------------
TypeOK ==
    /\ info \in Partial(Users, SUBSET Fields)
    /\ pending \in Partial(Users, SUBSET Needed)
    /\ ready \in BOOLEAN /\ nicknames \in BOOLEAN
    /\ toCome \in [Users -> SUBSET Fields] /\ died \in [Users -> SUBSET Fields]
    /\ word \in [Users -> Words]
    /\ call \in [at : {"idle", "list", "infos", "nicknames"}, woken : BOOLEAN,
                 ids : SUBSET Users, got : Partial(Users, SUBSET Fields)]
    /\ overtaken \in BOOLEAN
    /\ lists \in Nat /\ changes \in Nat /\ personas \in Nat /\ losses \in Nat

(* While the cache is ready every friend in it has a name and a state,     *)
(* whatever lists, changes and parts of infos came (friends_cache.py       *)
(* 44-90, cache_proto.py 24-42).                                           *)
ReadyMeansComplete ==
    ready => \A user \in DOMAIN info : Needed \subseteq info[user]

(* The cached friends are those Steam last called friends, and nobody it   *)
(* last left out of a list or removed (protocol_client.py 327-351).        *)
FriendsAreSteams ==
    \A user \in Users : /\ word[user] = "friend" => user \in DOMAIN info
                        /\ word[user] = "none" => user \notin DOMAIN info

(* Every friend that a call got has a name and a state                     *)
(* (websocket_client.py 184-200) - unless, when its last wait was over,    *)
(* another packet of the same Multi was processed before it went on.       *)
GotIsComplete ==
    ~overtaken =>
    \A user \in DOMAIN call.got : Needed \subseteq call.got[user]

(* The fields a pending friend still needs.                                *)
Lacks(user) == Needed \ pending[user]

(* A call that waits, and was not woken, waits for something that Steam    *)
(* was asked for or sends of itself: its first list, the nicknames, or the *)
(* fields that some pending friend lacks, each of them asked for by a      *)
(* request that is under way or died with its connection.  Lists, changes  *)
(* and losses in any order never leave a friend pending of whom a field    *)
(* was not asked (friends_cache.py 21-68, protocol_client.py 327-351,      *)
(* backend_steam_network.py 496-510).                                      *)
WaitsAreForSteam ==
    call.at # "idle" /\ ~call.woken =>
        IF call.at = "nicknames" THEN ~nicknames
        ELSE \/ lists = 0
             \/ \E user \in DOMAIN pending :
                    Lacks(user) # {} /\ Lacks(user) \subseteq toCome[user] \cup died[user]

(* The waits that nothing need end: for the nicknames of an account that   *)
(* Steam sends none for; and after a lost connection, for a first list or  *)
(* for a friend whose request died with it.                                *)
Stranded ==
    \/ call.at = "nicknames" /\ ~nicknames
    \/ /\ call.at \in {"list", "infos"} /\ losses > 0
       /\ lists = 0 \/ \E user \in DOMAIN pending : Lacks(user) \cap died[user] # {}

(* A call for the friends ends, or is stranded in one of these waits, none *)
(* of which has a time-out (backend_steam_network.py 496-510): no other    *)
(* order of lists, changes, infos and losses keeps it waiting.             *)
GetFriendsEnds == call.at # "idle" ~> (call.at = "idle" \/ Stranded)
================================================================================
