------------------------------- MODULE Friends_proofs -------------------------------
(***************************************************************************)
(* Friends, for any users and any way of cutting their infos into parts:   *)
(* its types, that a ready cache is complete, that it holds Steam's        *)
(* friends, and that a call gets complete ones.                            *)
(***************************************************************************)
EXTENDS Friends, TLAPS

(* A friend is complete or pending, and what is marked as come has come.   *)
KnownOrPending ==
    /\ DOMAIN pending \subseteq DOMAIN info
    /\ \A u \in DOMAIN pending : pending[u] \subseteq info[u]
    /\ \A u \in DOMAIN info : u \in DOMAIN pending \/ Needed \subseteq info[u]

ReadyMeansNonePending == ready => DOMAIN pending = {}

(* A call that was woken was waiting; until a packet overtakes it, it      *)
(* finds the cache ready.                                                  *)
WokenMeansReady ==
    /\ call.woken => call.at # "idle"
    /\ call.woken /\ ~overtaken /\ call.at \in {"list", "infos"} => ready

CacheInv == KnownOrPending /\ ReadyMeansNonePending

IInv == TypeOK /\ CacheInv /\ FriendsAreSteams /\ WokenMeansReady /\ GotIsComplete

--------------------------------------------------------------------------------
LEMMA IntoPartial ==
    ASSUME NEW S, NEW T, NEW D, D \subseteq S, NEW f, f \in [D -> T]
    PROVE  f \in Partial(S, T)
BY Zenon DEF Partial

LEMMA OfPartial ==
    ASSUME NEW S, NEW T, NEW f, f \in Partial(S, T)
    PROVE  DOMAIN f \subseteq S /\ f \in [DOMAIN f -> T]
<1>1. PICK D \in SUBSET S : f \in [D -> T]  BY DEF Partial
<1>2. DOMAIN f = D  BY <1>1
<1> QED  BY <1>1, <1>2

LEMMA RestrictPartial ==
    ASSUME NEW S, NEW T, NEW f, f \in Partial(S, T), NEW D, D \subseteq DOMAIN f
    PROVE  /\ Restrict(f, D) \in Partial(S, T)
           /\ DOMAIN Restrict(f, D) = D
           /\ \A x \in D : Restrict(f, D)[x] = f[x]
<1>1. DOMAIN f \subseteq S /\ f \in [DOMAIN f -> T]  BY OfPartial
<1>2. Restrict(f, D) = [x \in D |-> f[x]]  BY DEF Restrict
<1>3. [x \in D |-> f[x]] \in [D -> T]  BY <1>1
<1>4. D \subseteq S  BY <1>1
<1>5. Restrict(f, D) \in Partial(S, T)  BY <1>2, <1>3, <1>4, IntoPartial
<1> QED  BY <1>2, <1>5

LEMMA NothingIsPartial ==
    ASSUME NEW S, NEW T
    PROVE  NoInfo \in Partial(S, T) /\ DOMAIN NoInfo = {}
<1>1. NoInfo \in [{} -> T]  BY DEF NoInfo
<1> QED  BY <1>1, IntoPartial DEF NoInfo

--------------------------------------------------------------------------------
(* The cache's own operations.                                             *)

LEMMA ResetKeepsInv ==
    ASSUME TypeOK, CacheInv, NEW new, new \subseteq Users, Reset(new), UpdateReady
    PROVE  /\ info' \in Partial(Users, SUBSET Fields)
           /\ pending' \in Partial(Users, SUBSET Needed)
           /\ CacheInv'
           /\ DOMAIN info' = new
<1> DEFINE P == (new \ DOMAIN info) \cup (new \cap DOMAIN pending)
<1>1. info \in [DOMAIN info -> SUBSET Fields] /\ pending \in [DOMAIN pending -> SUBSET Needed]
  BY OfPartial DEF TypeOK
<1>2. info' = [user \in new |-> IF user \in DOMAIN info THEN info[user] ELSE {}]  BY DEF Reset
<1>3. pending' = [user \in P |-> IF user \in DOMAIN pending THEN pending[user] ELSE {}]
  BY DEF Reset
<1>4. info' \in [new -> SUBSET Fields]  BY <1>1, <1>2
<1>5. pending' \in [P -> SUBSET Needed]  BY <1>1, <1>3
<1>6. P \subseteq Users  OBVIOUS
<1>7. KnownOrPending'
  <2>1. DOMAIN pending' \subseteq DOMAIN info'  BY <1>2, <1>3
  <2>2. ASSUME NEW u \in DOMAIN pending'  PROVE pending'[u] \subseteq info'[u]
    BY <1>2, <1>3, <2>2 DEF CacheInv, KnownOrPending
  <2>3. ASSUME NEW u \in DOMAIN info'  PROVE u \in DOMAIN pending' \/ Needed \subseteq info'[u]
    <3>1. u \in new /\ info'[u] = IF u \in DOMAIN info THEN info[u] ELSE {}  BY <1>2
    <3>2. CASE u \notin DOMAIN info  BY <1>3, <3>1, <3>2
    <3>3. CASE u \in DOMAIN info /\ u \in DOMAIN pending  BY <1>3, <3>1, <3>3
    <3>4. CASE u \in DOMAIN info /\ u \notin DOMAIN pending
      BY <3>1, <3>4 DEF CacheInv, KnownOrPending
    <3> QED  BY <3>2, <3>3, <3>4
  <2> QED  BY <2>1, <2>2, <2>3 DEF KnownOrPending
<1>8. ReadyMeansNonePending'  BY DEF UpdateReady, ReadyMeansNonePending
<1> QED  BY <1>2, <1>4, <1>5, <1>6, <1>7, <1>8, IntoPartial DEF CacheInv

LEMMA AddKeepsInv ==
    ASSUME TypeOK, CacheInv, NEW user \in Users, NewFriend(user)
    PROVE  /\ info' \in Partial(Users, SUBSET Fields)
           /\ pending' \in Partial(Users, SUBSET Needed)
           /\ CacheInv'
           /\ DOMAIN info' = DOMAIN info \cup {user}
<1>0. UpdateReady  BY DEF NewFriend
<1>1. ReadyMeansNonePending'  BY <1>0 DEF UpdateReady, ReadyMeansNonePending
<1>2. CASE user \in DOMAIN info
  <2>1. info' = info /\ pending' = pending  BY <1>2 DEF NewFriend
  <2>2. KnownOrPending'  BY <2>1 DEF CacheInv, KnownOrPending
  <2> QED  BY <1>1, <1>2, <2>1, <2>2 DEF CacheInv, TypeOK
<1>3. CASE user \notin DOMAIN info
  <2> DEFINE D == DOMAIN info \cup {user}
             P == DOMAIN pending \cup {user}
  <2>1. /\ info' = [u \in D |-> IF u = user THEN {} ELSE info[u]]
        /\ pending' = [u \in P |-> IF u = user THEN {} ELSE pending[u]]
    BY <1>3 DEF NewFriend
  <2>2. /\ DOMAIN info \subseteq Users /\ info \in [DOMAIN info -> SUBSET Fields]
        /\ DOMAIN pending \subseteq Users /\ pending \in [DOMAIN pending -> SUBSET Needed]
    BY OfPartial DEF TypeOK
  <2>3. info' \in [D -> SUBSET Fields]  BY <2>1, <2>2
  <2>4. pending' \in [P -> SUBSET Needed]  BY <2>1, <2>2
  <2>5. D \subseteq Users /\ P \subseteq Users  BY <2>2
  <2>6. KnownOrPending'
    <3>1. DOMAIN pending' \subseteq DOMAIN info'
      BY <2>1 DEF CacheInv, KnownOrPending
    <3>2. ASSUME NEW u \in DOMAIN pending'  PROVE pending'[u] \subseteq info'[u]
      BY <1>3, <2>1, <3>2 DEF CacheInv, KnownOrPending
    <3>3. ASSUME NEW u \in DOMAIN info'
          PROVE  u \in DOMAIN pending' \/ Needed \subseteq info'[u]
      BY <2>1, <3>3 DEF CacheInv, KnownOrPending
    <3> QED  BY <3>1, <3>2, <3>3 DEF KnownOrPending
  <2> QED  BY <1>1, <2>1, <2>3, <2>4, <2>5, <2>6, IntoPartial DEF CacheInv
<1> QED  BY <1>2, <1>3

LEMMA RemoveKeepsInv ==
    ASSUME TypeOK, CacheInv, NEW user \in Users, LostFriend(user)
    PROVE  /\ info' \in Partial(Users, SUBSET Fields)
           /\ pending' \in Partial(Users, SUBSET Needed)
           /\ CacheInv'
           /\ DOMAIN info' = DOMAIN info \ {user}
<1> DEFINE D == DOMAIN info \ {user}
           P == DOMAIN pending \ {user}
<1>1. info' = Restrict(info, D) /\ pending' = Restrict(pending, P)  BY DEF LostFriend
<1>2. /\ info' \in Partial(Users, SUBSET Fields) /\ DOMAIN info' = D
      /\ \A u \in D : info'[u] = info[u]
  <2>1. D \subseteq DOMAIN info  OBVIOUS
  <2>2. info \in Partial(Users, SUBSET Fields)  BY DEF TypeOK
  <2> HIDE DEF D
  <2> QED  BY <1>1, <2>1, <2>2, RestrictPartial
<1>3. /\ pending' \in Partial(Users, SUBSET Needed) /\ DOMAIN pending' = P
      /\ \A u \in P : pending'[u] = pending[u]
  <2>1. P \subseteq DOMAIN pending  OBVIOUS
  <2>2. pending \in Partial(Users, SUBSET Needed)  BY DEF TypeOK
  <2> HIDE DEF P
  <2> QED  BY <1>1, <2>1, <2>2, RestrictPartial
<1>4. KnownOrPending'
  <2>1. DOMAIN pending' \subseteq DOMAIN info'  BY <1>2, <1>3 DEF CacheInv, KnownOrPending
  <2>2. ASSUME NEW u \in DOMAIN pending'  PROVE pending'[u] \subseteq info'[u]
    BY <1>2, <1>3, <2>2 DEF CacheInv, KnownOrPending
  <2>3. ASSUME NEW u \in DOMAIN info'  PROVE u \in DOMAIN pending' \/ Needed \subseteq info'[u]
    BY <1>2, <1>3, <2>3 DEF CacheInv, KnownOrPending
  <2> QED  BY <2>1, <2>2, <2>3 DEF KnownOrPending
<1>5. ReadyMeansNonePending'  BY DEF LostFriend, UpdateReady, ReadyMeansNonePending
<1> QED  BY <1>2, <1>3, <1>4, <1>5 DEF CacheInv

(* Whatever part of whose info comes, the same friends are cached, and a   *)
(* call is left alone or was waiting for a cache that now is ready.        *)
LEMMA UpdateKeepsInv ==
    ASSUME TypeOK, CacheInv, NEW user \in Users, NEW part, part \subseteq Fields,
           Update(user, part)
    PROVE  /\ info' \in Partial(Users, SUBSET Fields)
           /\ pending' \in Partial(Users, SUBSET Needed)
           /\ ready' \in BOOLEAN
           /\ CacheInv'
           /\ DOMAIN info' = DOMAIN info
           /\ (call' = call /\ ready' = ready) \/ Wake
<1>1. CASE user \notin DOMAIN info
  <2>1. info' = info /\ pending' = pending /\ ready' = ready /\ call' = call
    BY <1>1 DEF Update, cache
  <2> QED  BY <2>1 DEF TypeOK, CacheInv, KnownOrPending, ReadyMeansNonePending
<1>2. CASE user \in DOMAIN info
  <2> DEFINE came == pending[user] \cup (part \cap Needed)
             P == DOMAIN pending \ {user}
  <2>1. /\ DOMAIN info \subseteq Users /\ info \in [DOMAIN info -> SUBSET Fields]
        /\ DOMAIN pending \subseteq Users /\ pending \in [DOMAIN pending -> SUBSET Needed]
    BY OfPartial DEF TypeOK
  <2>2. info' = [info EXCEPT ![user] = @ \cup part]  BY <1>2 DEF Update
  <2>3. /\ info' \in [DOMAIN info -> SUBSET Fields]
        /\ DOMAIN info' = DOMAIN info
        /\ \A u \in DOMAIN info : info[u] \subseteq info'[u]
        /\ info'[user] = info[user] \cup part
    BY <1>2, <2>1, <2>2
  <2>4. info' \in Partial(Users, SUBSET Fields)  BY <2>1, <2>3, IntoPartial
  <2>5. CASE user \notin DOMAIN pending
    <3>1. pending' = pending /\ ready' = ready /\ call' = call  BY <1>2, <2>5 DEF Update
    <3>2. KnownOrPending'  BY <2>3, <3>1 DEF CacheInv, KnownOrPending
    <3> QED  BY <2>3, <2>4, <3>1, <3>2 DEF TypeOK, CacheInv, ReadyMeansNonePending
  <2>6. CASE user \in DOMAIN pending /\ came = Needed
    <3>1. pending' = Restrict(pending, P) /\ UpdateReady /\ Wake  BY <1>2, <2>6 DEF Update
    <3>2. /\ pending' \in Partial(Users, SUBSET Needed) /\ DOMAIN pending' = P
          /\ \A u \in P : pending'[u] = pending[u]
      <4>1. P \subseteq DOMAIN pending  OBVIOUS
      <4>2. pending \in Partial(Users, SUBSET Needed)  BY DEF TypeOK
      <4> HIDE DEF P
      <4> QED  BY <3>1, <4>1, <4>2, RestrictPartial
    <3>3. Needed \subseteq info'[user]
      BY <2>3, <2>6 DEF CacheInv, KnownOrPending
    <3>4. KnownOrPending'
      <4>1. DOMAIN pending' \subseteq DOMAIN info'
        BY <2>3, <3>2 DEF CacheInv, KnownOrPending
      <4>2. ASSUME NEW u \in DOMAIN pending'  PROVE pending'[u] \subseteq info'[u]
        <5>1. u \in DOMAIN pending /\ pending'[u] = pending[u]  BY <3>2
        <5> QED  BY <2>3, <5>1 DEF CacheInv, KnownOrPending
      <4>3. ASSUME NEW u \in DOMAIN info'
            PROVE  u \in DOMAIN pending' \/ Needed \subseteq info'[u]
        <5>1. CASE u = user  BY <3>3, <5>1
        <5>2. CASE u # user  BY <2>3, <3>2, <5>2 DEF CacheInv, KnownOrPending
        <5> QED  BY <5>1, <5>2
      <4> QED  BY <4>1, <4>2, <4>3 DEF KnownOrPending
    <3>5. ready' \in BOOLEAN /\ ReadyMeansNonePending'
      BY <3>1 DEF UpdateReady, ReadyMeansNonePending
    <3> QED  BY <2>3, <2>4, <3>1, <3>2, <3>4, <3>5 DEF CacheInv
  <2>7. CASE user \in DOMAIN pending /\ came # Needed
    <3>1. pending' = [pending EXCEPT ![user] = came] /\ ready' = ready /\ call' = call
      BY <1>2, <2>7 DEF Update
    <3>2. came \in SUBSET Needed  BY <2>1, <2>7
    <3>3. /\ pending' \in [DOMAIN pending -> SUBSET Needed]
          /\ DOMAIN pending' = DOMAIN pending
          /\ \A u \in DOMAIN pending : pending'[u] = IF u = user THEN came ELSE pending[u]
      <4> HIDE DEF came
      <4> QED  BY <2>1, <3>1, <3>2
    <3>4. KnownOrPending'
      <4>1. ASSUME NEW u \in DOMAIN pending'  PROVE pending'[u] \subseteq info'[u]
        <5>1. u \in DOMAIN pending /\ pending[u] \subseteq info[u] /\ u \in DOMAIN info
          BY <3>3 DEF CacheInv, KnownOrPending
        <5>2. CASE u = user
          <6>1. pending'[u] = came  BY <3>3, <5>1, <5>2
          <6> QED  BY <2>3, <5>1, <5>2, <6>1
        <5>3. CASE u # user
          <6>1. pending'[u] = pending[u]  BY <3>3, <5>1, <5>3
          <6> QED  BY <2>3, <5>1, <6>1
        <5> QED  BY <5>2, <5>3
      <4> QED  BY <2>3, <3>3, <4>1 DEF CacheInv, KnownOrPending
    <3> QED  BY <2>1, <2>3, <2>4, <3>1, <3>3, <3>4, IntoPartial
             DEF TypeOK, CacheInv, ReadyMeansNonePending
  <2> QED  BY <2>5, <2>6, <2>7
<1> QED  BY <1>1, <1>2
--------------------------------------------------------------------------------
(* The call.                                                               *)

Calls == [at : {"idle", "list", "infos", "nicknames"}, woken : BOOLEAN,
          ids : SUBSET Users, got : Partial(Users, SUBSET Fields)]

Complete(got) == \A u \in DOMAIN got : Needed \subseteq got[u]

LEMMA CallType == ASSUME TypeOK PROVE call \in Calls
BY DEF TypeOK, Calls

LEMMA WakeCall ==
    ASSUME TypeOK, WokenMeansReady, GotIsComplete, Wake, Packet, ready' \in BOOLEAN
    PROVE  /\ call' \in Calls /\ overtaken' \in BOOLEAN
           /\ WokenMeansReady' /\ GotIsComplete'
<1>1. call \in Calls  BY CallType
<1>2. overtaken \in BOOLEAN /\ overtaken' = (overtaken \/ call.woken)  BY DEF TypeOK, Packet
<1>5. overtaken' \in BOOLEAN  BY <1>2
<1>3. CASE ready' /\ call.at \in {"list", "infos"}
  <2>1. call' = [call EXCEPT !.woken = TRUE]  BY <1>3 DEF Wake
  <2>2. call' \in Calls /\ call'.got = call.got /\ call'.at = call.at
    BY <1>1, <2>1 DEF Calls
  <2>3. WokenMeansReady'  BY <1>3, <2>2 DEF WokenMeansReady
  <2>4. GotIsComplete'  BY <1>2, <2>2 DEF GotIsComplete
  <2> QED  BY <1>5, <2>2, <2>3, <2>4
<1>4. CASE ~(ready' /\ call.at \in {"list", "infos"})
  <2>1. call' = call  BY <1>4 DEF Wake
  <2>2. call' \in Calls  BY <1>1, <2>1
  <2>3. WokenMeansReady'  BY <1>2, <2>1 DEF WokenMeansReady
  <2>4. GotIsComplete'  BY <1>2, <2>1 DEF GotIsComplete
  <2> QED  BY <1>5, <2>2, <2>3, <2>4
<1> QED  BY <1>3, <1>4

LEMMA PacketCall ==
    ASSUME TypeOK, WokenMeansReady, GotIsComplete, Packet, call' = call, ready' = ready
    PROVE  /\ call' \in Calls /\ overtaken' \in BOOLEAN
           /\ WokenMeansReady' /\ GotIsComplete'
<1>1. call \in Calls  BY CallType
<1>2. overtaken \in BOOLEAN /\ overtaken' = (overtaken \/ call.woken)  BY DEF TypeOK, Packet
<1>3. call' \in Calls /\ overtaken' \in BOOLEAN  BY <1>1, <1>2
<1>4. WokenMeansReady'  BY <1>2 DEF WokenMeansReady
<1>5. GotIsComplete'  BY <1>2 DEF GotIsComplete
<1> QED  BY <1>3, <1>4, <1>5

LEMMA GotFromReady ==
    ASSUME TypeOK, CacheInv, NEW ids, ids \subseteq Users
    PROVE  /\ Restrict(info, ids \cap DOMAIN info) \in Partial(Users, SUBSET Fields)
           /\ ready => Complete(Restrict(info, ids \cap DOMAIN info))
<1> DEFINE D == ids \cap DOMAIN info
<1>1. D \subseteq DOMAIN info  OBVIOUS
<1>2. info \in Partial(Users, SUBSET Fields)  BY DEF TypeOK
<1>3. ready => \A u \in D : Needed \subseteq info[u]
  BY DEF CacheInv, KnownOrPending, ReadyMeansNonePending
<1> HIDE DEF D
<1>4. /\ Restrict(info, D) \in Partial(Users, SUBSET Fields)
      /\ DOMAIN Restrict(info, D) = D
      /\ \A u \in D : Restrict(info, D)[u] = info[u]
  BY <1>1, <1>2, RestrictPartial
<1>5. ready => Complete(Restrict(info, D))  BY <1>3, <1>4 DEF Complete
<1> QED  BY <1>4, <1>5 DEF D

LEMMA AfterInfosCall ==
    ASSUME TypeOK, CacheInv, NEW ids, ids \subseteq Users
    PROVE  /\ AfterInfos(ids) \in Calls
           /\ ready => Complete(AfterInfos(ids).got)
           /\ AfterInfos(ids).at \in {"idle", "nicknames"} /\ ~AfterInfos(ids).woken
<1> DEFINE got == Restrict(info, ids \cap DOMAIN info)
<1>1. got \in Partial(Users, SUBSET Fields) /\ (ready => Complete(got))  BY GotFromReady
<1>2. AfterInfos(ids) = IF nicknames THEN Idle(got) ELSE Waits("nicknames", ids, got)
  BY DEF AfterInfos
<1> HIDE DEF got
<1>3. Idle(got) \in Calls /\ Waits("nicknames", ids, got) \in Calls
  BY <1>1 DEF Idle, Waits, Calls
<1>4. /\ Idle(got).got = got /\ Idle(got).at = "idle" /\ ~Idle(got).woken
      /\ Waits("nicknames", ids, got).got = got
      /\ Waits("nicknames", ids, got).at = "nicknames" /\ ~Waits("nicknames", ids, got).woken
  BY DEF Idle, Waits
<1> QED  BY <1>1, <1>2, <1>3, <1>4

LEMMA AfterListCall ==
    ASSUME TypeOK, CacheInv
    PROVE  AfterList \in Calls /\ Complete(AfterList.got) /\ ~AfterList.woken
<1>1. DOMAIN info \subseteq Users  BY OfPartial DEF TypeOK
<1>2. CASE ready  BY <1>1, <1>2, AfterInfosCall DEF AfterList
<1>3. CASE ~ready
  <2>1. AfterList = Waits("infos", DOMAIN info, NoInfo)  BY <1>3 DEF AfterList
  <2>2. NoInfo \in Partial(Users, SUBSET Fields) /\ Complete(NoInfo)
    BY NothingIsPartial DEF Complete
  <2> QED  BY <1>1, <2>1, <2>2 DEF Waits, Calls
<1> QED  BY <1>2, <1>3

--------------------------------------------------------------------------------
(* The types of what was asked for.                                        *)
AskedType == toCome \in [Users -> SUBSET Fields] /\ died \in [Users -> SUBSET Fields]

LEMMA AskInfosType ==
    ASSUME AskedType, NEW users, AskInfos(users)
    PROVE  AskedType'
BY DEF AskedType, AskInfos

LEMMA InitInv == Init => IInv
<1> SUFFICES ASSUME Init PROVE IInv  OBVIOUS
<1>1. TypeOK
  <2>1. /\ NoInfo \in Partial(Users, SUBSET Fields) /\ NoInfo \in Partial(Users, SUBSET Needed)
    BY NothingIsPartial
  <2>2. Idle(NoInfo) \in Calls  BY <2>1 DEF Idle, Calls
  <2> QED  BY <2>1, <2>2 DEF Init, TypeOK, Calls, Words
<1>2. CacheInv
  BY NothingIsPartial DEF Init, CacheInv, KnownOrPending, ReadyMeansNonePending
<1>3. FriendsAreSteams  BY NothingIsPartial DEF Init, FriendsAreSteams
<1>4. WokenMeansReady  BY DEF Init, WokenMeansReady, Idle
<1>5. GotIsComplete  BY NothingIsPartial DEF Init, GotIsComplete, Idle
<1> QED  BY <1>1, <1>2, <1>3, <1>4, <1>5 DEF IInv

LEMMA ListStep ==
    ASSUME IInv, NEW new \in SUBSET Users, FriendList(new)
    PROVE  IInv'
<1> USE DEF IInv
<1>1. Reset(new) /\ UpdateReady /\ Wake /\ Packet /\ AskInfos(new)  BY DEF FriendList
<1>2. /\ info' \in Partial(Users, SUBSET Fields) /\ pending' \in Partial(Users, SUBSET Needed)
      /\ CacheInv' /\ DOMAIN info' = new
  BY <1>1, ResetKeepsInv
<1>3. ready' \in BOOLEAN  BY <1>1 DEF UpdateReady
<1>4. call' \in Calls /\ overtaken' \in BOOLEAN /\ WokenMeansReady' /\ GotIsComplete'
  BY <1>1, <1>3, WakeCall
<1>5. word' = [user \in Users |-> IF user \in new THEN "friend" ELSE "none"]  BY DEF FriendList
<1>6. word' \in [Users -> Words]  BY <1>5 DEF Words
<1>7. AskedType'  BY <1>1, AskInfosType DEF AskedType, TypeOK
<1>8. /\ lists' \in Nat /\ changes' \in Nat /\ personas' \in Nat /\ losses' \in Nat
      /\ nicknames' \in BOOLEAN
  BY DEF FriendList, TypeOK
<1>9. TypeOK'  BY <1>2, <1>3, <1>4, <1>6, <1>7, <1>8 DEF TypeOK, Calls, AskedType
<1>10. FriendsAreSteams'  BY <1>2, <1>5 DEF FriendsAreSteams
<1> QED  BY <1>2, <1>4, <1>9, <1>10

(* Of a change of one friend: what is not the cache's.                     *)
LEMMA ChangeTypes ==
    ASSUME TypeOK, NEW user \in Users, NEW r \in Words, Change(user, r)
    PROVE  /\ word' \in [Users -> Words] /\ word' = [word EXCEPT ![user] = r]
           /\ lists' \in Nat /\ changes' \in Nat /\ personas' \in Nat /\ losses' \in Nat
           /\ nicknames' \in BOOLEAN
BY DEF TypeOK, Change

LEMMA NewStep ==
    ASSUME IInv, NEW user \in Users, NewFriend(user)
    PROVE  IInv'
<1> USE DEF IInv
<1>1. Change(user, "friend") /\ UpdateReady /\ Wake /\ Packet /\ AskInfos({user})
  BY DEF NewFriend, Change
<1>2. /\ info' \in Partial(Users, SUBSET Fields) /\ pending' \in Partial(Users, SUBSET Needed)
      /\ CacheInv' /\ DOMAIN info' = DOMAIN info \cup {user}
  BY AddKeepsInv
<1>3. ready' \in BOOLEAN  BY <1>1 DEF UpdateReady
<1>4. call' \in Calls /\ overtaken' \in BOOLEAN /\ WokenMeansReady' /\ GotIsComplete'
  BY <1>1, <1>3, WakeCall
<1>5. /\ word' \in [Users -> Words] /\ word' = [word EXCEPT ![user] = "friend"]
      /\ lists' \in Nat /\ changes' \in Nat /\ personas' \in Nat /\ losses' \in Nat
      /\ nicknames' \in BOOLEAN
  BY <1>1, ChangeTypes DEF Words
<1>6. AskedType'  BY <1>1, AskInfosType DEF AskedType, TypeOK
<1>7. TypeOK'  BY <1>2, <1>3, <1>4, <1>5, <1>6 DEF TypeOK, Calls, AskedType
<1>8. FriendsAreSteams'  BY <1>2, <1>5 DEF FriendsAreSteams, TypeOK
<1> QED  BY <1>2, <1>4, <1>7, <1>8

LEMMA LostStep ==
    ASSUME IInv, NEW user \in Users, LostFriend(user)
    PROVE  IInv'
<1> USE DEF IInv
<1>1. /\ Change(user, "none") /\ UpdateReady /\ Wake /\ Packet
      /\ toCome' = toCome /\ died' = died
  BY DEF LostFriend, Change, requests
<1>2. /\ info' \in Partial(Users, SUBSET Fields) /\ pending' \in Partial(Users, SUBSET Needed)
      /\ CacheInv' /\ DOMAIN info' = DOMAIN info \ {user}
  BY RemoveKeepsInv
<1>3. ready' \in BOOLEAN  BY <1>1 DEF UpdateReady
<1>4. call' \in Calls /\ overtaken' \in BOOLEAN /\ WokenMeansReady' /\ GotIsComplete'
  BY <1>1, <1>3, WakeCall
<1>5. /\ word' \in [Users -> Words] /\ word' = [word EXCEPT ![user] = "none"]
      /\ lists' \in Nat /\ changes' \in Nat /\ personas' \in Nat /\ losses' \in Nat
      /\ nicknames' \in BOOLEAN
  BY <1>1, ChangeTypes DEF Words
<1>6. TypeOK'  BY <1>1, <1>2, <1>3, <1>4, <1>5 DEF TypeOK, Calls
<1>7. FriendsAreSteams'  BY <1>2, <1>5 DEF FriendsAreSteams, TypeOK
<1> QED  BY <1>2, <1>4, <1>6, <1>7

LEMMA OtherStep ==
    ASSUME IInv, NEW user \in Users, OtherRelationship(user)
    PROVE  IInv'
<1> USE DEF IInv
<1>1. Change(user, "other") /\ Packet  BY DEF OtherRelationship, Change
<1>2. /\ info' = info /\ pending' = pending /\ ready' = ready /\ call' = call
      /\ toCome' = toCome /\ died' = died
  BY DEF OtherRelationship, cache, requests
<1>3. /\ word' \in [Users -> Words] /\ word' = [word EXCEPT ![user] = "other"]
      /\ lists' \in Nat /\ changes' \in Nat /\ personas' \in Nat /\ losses' \in Nat
      /\ nicknames' \in BOOLEAN
  BY <1>1, ChangeTypes DEF Words
<1>4. call' \in Calls /\ overtaken' \in BOOLEAN /\ WokenMeansReady' /\ GotIsComplete'
  BY <1>1, <1>2, PacketCall
<1>5. TypeOK'  BY <1>2, <1>3, <1>4 DEF TypeOK, Calls
<1>6. CacheInv'  BY <1>2 DEF CacheInv, KnownOrPending, ReadyMeansNonePending
<1>7. FriendsAreSteams'  BY <1>2, <1>3 DEF FriendsAreSteams, TypeOK
<1> QED  BY <1>4, <1>5, <1>6, <1>7

(* An info that was asked for, or was not.                                 *)
LEMMA InfoStep ==
    ASSUME IInv, NEW user \in Users, NEW part \in Parts,
           Packet, Update(user, part),
           AskedType', word' = word, nicknames' = nicknames,
           lists' \in Nat, changes' \in Nat, personas' \in Nat, losses' \in Nat
    PROVE  IInv'
<1> USE DEF IInv
<1>1. part \subseteq Fields  BY PartsAssumption
<1>2. /\ info' \in Partial(Users, SUBSET Fields) /\ pending' \in Partial(Users, SUBSET Needed)
      /\ ready' \in BOOLEAN /\ CacheInv' /\ DOMAIN info' = DOMAIN info
      /\ (call' = call /\ ready' = ready) \/ Wake
  BY <1>1, UpdateKeepsInv
<1>3. call' \in Calls /\ overtaken' \in BOOLEAN /\ WokenMeansReady' /\ GotIsComplete'
  BY <1>2, WakeCall, PacketCall
<1>4. TypeOK'  BY <1>2, <1>3 DEF TypeOK, Calls, AskedType
<1>5. FriendsAreSteams'  BY <1>2 DEF FriendsAreSteams
<1> QED  BY <1>2, <1>3, <1>4, <1>5

LEMMA NicknamesStep ==
    ASSUME IInv, NicknameList
    PROVE  IInv'
<1> USE DEF IInv
<1>1. /\ info' = info /\ pending' = pending /\ ready' = ready
      /\ toCome' = toCome /\ died' = died /\ word' = word /\ nicknames' = TRUE
      /\ lists' = lists /\ changes' = changes /\ personas' = personas /\ losses' = losses
  BY DEF NicknameList, cache, requests, counters
<1>2. call \in Calls  BY CallType
<1>3. overtaken \in BOOLEAN /\ overtaken' = (overtaken \/ call.woken)
  BY DEF TypeOK, NicknameList, Packet
<1>4. call' \in Calls /\ WokenMeansReady' /\ GotIsComplete'
  <2>1. CASE call.at = "nicknames"
    <3>1. call' = [call EXCEPT !.woken = TRUE]  BY <2>1 DEF NicknameList
    <3>2. call' \in Calls /\ call'.got = call.got /\ call'.at = "nicknames"
      BY <1>2, <2>1, <3>1 DEF Calls
    <3> QED  BY <1>3, <3>2 DEF WokenMeansReady, GotIsComplete
  <2>2. CASE call.at # "nicknames"
    <3>1. call' = call  BY <2>2 DEF NicknameList
    <3> QED  BY <1>1, <1>2, <1>3, <3>1 DEF WokenMeansReady, GotIsComplete
  <2> QED  BY <2>1, <2>2
<1>5. overtaken' \in BOOLEAN  BY <1>2, <1>3 DEF Calls
<1>6. TypeOK'  BY <1>1, <1>4, <1>5 DEF TypeOK, Calls
<1>7. CacheInv' /\ FriendsAreSteams'
  BY <1>1 DEF CacheInv, KnownOrPending, ReadyMeansNonePending, FriendsAreSteams
<1> QED  BY <1>4, <1>6, <1>7

(* The call's own steps touch nothing but the call.                        *)
LEMMA CallStep ==
    ASSUME IInv, UNCHANGED <<cache, nicknames, requests, word, counters>>,
           call' \in Calls, overtaken' \in BOOLEAN, ~call'.woken,
           ~overtaken' => Complete(call'.got)
    PROVE  IInv'
<1> USE DEF IInv
<1>1. /\ info' = info /\ pending' = pending /\ ready' = ready
      /\ toCome' = toCome /\ died' = died /\ word' = word /\ nicknames' = nicknames
      /\ lists' = lists /\ changes' = changes /\ personas' = personas /\ losses' = losses
  BY DEF cache, requests, counters
<1>2. TypeOK'  BY <1>1 DEF TypeOK, Calls
<1>3. CacheInv' /\ FriendsAreSteams'
  BY <1>1 DEF CacheInv, KnownOrPending, ReadyMeansNonePending, FriendsAreSteams
<1>4. WokenMeansReady'  BY DEF WokenMeansReady
<1>5. GotIsComplete'  BY DEF GotIsComplete, Complete
<1> QED  BY <1>2, <1>3, <1>4, <1>5

LEMMA GetFriendsStep ==
    ASSUME IInv, GetFriends
    PROVE  IInv'
<1> USE DEF IInv
<1>1. /\ UNCHANGED <<cache, nicknames, requests, word, counters>> /\ overtaken' = FALSE
      /\ call' = IF ready THEN AfterList ELSE Waits("list", {}, NoInfo)
  BY DEF GetFriends
<1>2. AfterList \in Calls /\ Complete(AfterList.got) /\ ~AfterList.woken  BY AfterListCall
<1>3. /\ Waits("list", {}, NoInfo) \in Calls /\ ~Waits("list", {}, NoInfo).woken
      /\ Complete(Waits("list", {}, NoInfo).got)
  BY NothingIsPartial DEF Waits, Calls, Complete
<1>4. call' \in Calls /\ Complete(call'.got) /\ ~call'.woken  BY <1>1, <1>2, <1>3
<1> QED  BY <1>1, <1>4, CallStep

LEMMA ResumeStep ==
    ASSUME IInv, Resume
    PROVE  IInv'
<1> USE DEF IInv
<1>1. /\ UNCHANGED <<cache, nicknames, requests, word, counters>> /\ call.woken
      /\ overtaken' = (overtaken /\ call'.at # "infos")
  BY DEF Resume
<1>2. call \in Calls /\ call.at \in {"list", "infos", "nicknames"} /\ overtaken \in BOOLEAN
  <2>1. call \in Calls  BY CallType
  <2>2. call.at # "idle"  BY <1>1 DEF WokenMeansReady
  <2> QED  BY <2>1, <2>2 DEF Calls, TypeOK
<1>3. /\ AfterList \in Calls /\ Complete(AfterList.got) /\ ~AfterList.woken  BY AfterListCall
<1>4. CASE call.at = "list"
  <2>1. call' = AfterList  BY <1>4 DEF Resume
  <2>2. overtaken' \in BOOLEAN  BY <1>1, <1>2
  <2> QED  BY <1>1, <1>3, <2>1, <2>2, CallStep
<1>5. CASE call.at = "infos"
  <2>1. call' = AfterInfos(call.ids)  BY <1>5 DEF Resume
  <2>2. call.ids \subseteq Users  BY <1>2 DEF Calls
  <2>3. /\ call' \in Calls /\ ~call'.woken /\ call'.at # "infos"
        /\ ready => Complete(call'.got)
    BY <2>1, <2>2, AfterInfosCall
  <2>4. overtaken' = overtaken  BY <1>1, <1>2, <2>3
  <2>5. ~overtaken => ready  BY <1>1, <1>5 DEF WokenMeansReady
  <2> QED  BY <1>1, <1>2, <2>3, <2>4, <2>5, CallStep
<1>6. CASE call.at = "nicknames"
  <2>1. call' = Idle(call.got)  BY <1>6 DEF Resume
  <2>2. call' \in Calls /\ ~call'.woken /\ call'.at = "idle" /\ call'.got = call.got
    BY <1>2, <2>1 DEF Idle, Calls
  <2>3. overtaken' = overtaken  BY <1>1, <1>2, <2>2
  <2>4. ~overtaken' => Complete(call'.got)  BY <2>2, <2>3 DEF GotIsComplete, Complete
  <2> QED  BY <1>1, <1>2, <2>2, <2>3, <2>4, CallStep
<1> QED  BY <1>2, <1>4, <1>5, <1>6

(* A lost connection takes only what it was asked for.                     *)
LEMMA LoseStep ==
    ASSUME IInv, Lose
    PROVE  IInv'
<1> USE DEF IInv
<1>1. /\ info' = info /\ pending' = pending /\ ready' = ready /\ call' = call
      /\ overtaken' = overtaken /\ word' = word /\ nicknames' = nicknames
      /\ lists' = lists /\ changes' = changes /\ personas' = personas /\ losses' = losses + 1
  BY DEF Lose, cache
<1>2. AskedType'  BY DEF Lose, TypeOK, AskedType
<1>3. TypeOK'  BY <1>1, <1>2 DEF TypeOK, AskedType
<1>4. CacheInv' /\ FriendsAreSteams' /\ WokenMeansReady' /\ GotIsComplete'
  BY <1>1 DEF CacheInv, KnownOrPending, ReadyMeansNonePending, FriendsAreSteams,
              WokenMeansReady, GotIsComplete
<1> QED  BY <1>3, <1>4

--------------------------------------------------------------------------------
LEMMA StepInv == IInv /\ [Next]_vars => IInv'
<1> SUFFICES ASSUME IInv, [Next]_vars PROVE IInv'  OBVIOUS
<1>1. ASSUME NEW new \in SUBSET Users, FriendList(new) PROVE IInv'  BY <1>1, ListStep
<1>2. ASSUME NEW user \in Users, NewFriend(user) PROVE IInv'  BY <1>2, NewStep
<1>3. ASSUME NEW user \in Users, LostFriend(user) PROVE IInv'  BY <1>3, LostStep
<1>4. ASSUME NEW user \in Users, OtherRelationship(user) PROVE IInv'  BY <1>4, OtherStep
<1>5. ASSUME NEW user \in Users, NEW part \in Parts, InfoComes(user, part) PROVE IInv'
  <2>1. /\ Packet /\ Update(user, part) /\ word' = word /\ nicknames' = nicknames
        /\ lists' = lists /\ changes' = changes /\ personas' = personas /\ losses' = losses
        /\ toCome' = [toCome EXCEPT ![user] = @ \ part] /\ died' = died
    BY <1>5 DEF InfoComes, counters
  <2>2. AskedType'  BY <2>1 DEF IInv, TypeOK, AskedType
  <2>3. lists' \in Nat /\ changes' \in Nat /\ personas' \in Nat /\ losses' \in Nat
    BY <2>1 DEF IInv, TypeOK
  <2> QED  BY <2>1, <2>2, <2>3, InfoStep
<1>6. ASSUME NEW user \in Users, NEW part \in Parts, InfoVolunteered(user, part) PROVE IInv'
  <2>1. /\ Packet /\ Update(user, part) /\ word' = word /\ nicknames' = nicknames
        /\ lists' = lists /\ changes' = changes /\ personas' = personas + 1 /\ losses' = losses
        /\ toCome' = toCome /\ died' = died
    BY <1>6 DEF InfoVolunteered, requests
  <2>2. /\ AskedType'
        /\ lists' \in Nat /\ changes' \in Nat /\ personas' \in Nat /\ losses' \in Nat
    BY <2>1 DEF IInv, TypeOK, AskedType
  <2> QED  BY <2>1, <2>2, InfoStep
<1>7. ASSUME NicknameList PROVE IInv'  BY <1>7, NicknamesStep
<1>8. ASSUME GetFriends PROVE IInv'  BY <1>8, GetFriendsStep
<1>9. ASSUME Resume PROVE IInv'  BY <1>9, ResumeStep
<1>10. ASSUME UNCHANGED vars PROVE IInv'
  <2>1. /\ info' = info /\ pending' = pending /\ ready' = ready
        /\ toCome' = toCome /\ died' = died
        /\ word' = word /\ nicknames' = nicknames /\ call' = call /\ overtaken' = overtaken
        /\ lists' = lists /\ changes' = changes /\ personas' = personas /\ losses' = losses
    BY <1>10 DEF vars, cache, requests, counters
  <2> QED  BY <2>1 DEF IInv, TypeOK, CacheInv, KnownOrPending, ReadyMeansNonePending,
                        FriendsAreSteams, WokenMeansReady, GotIsComplete
<1>11. ASSUME Lose PROVE IInv'  BY <1>11, LoseStep
<1> QED  BY <1>1, <1>2, <1>3, <1>4, <1>5, <1>6, <1>7, <1>8, <1>9, <1>10, <1>11 DEF Next

LEMMA Invariance == Spec => []IInv
<1>1. Init => IInv  BY InitInv
<1>2. IInv /\ [Next]_vars => IInv'  BY StepInv
<1> QED  BY <1>1, <1>2, PTL DEF Spec

(* The types of the friends' state, for any users (friends_cache.py 23-90).*)
THEOREM TypeCorrect == Spec => []TypeOK
<1>1. IInv => TypeOK  BY DEF IInv
<1> QED  BY <1>1, Invariance, PTL

(* A ready cache knows a name and a state of every friend it holds         *)
(* (friends_cache.py 44-90, cache_proto.py 24-42).                         *)
THEOREM ReadyIsComplete == Spec => []ReadyMeansComplete
<1>1. IInv => ReadyMeansComplete
  BY DEF IInv, CacheInv, KnownOrPending, ReadyMeansNonePending, ReadyMeansComplete
<1> QED  BY <1>1, Invariance, PTL

(* The cache holds Steam's friends (protocol_client.py 327-351).           *)
THEOREM HoldsSteamsFriends == Spec => []FriendsAreSteams
<1>1. IInv => FriendsAreSteams  BY DEF IInv
<1> QED  BY <1>1, Invariance, PTL

(* A call that no packet overtook gets friends with a name and a state     *)
(* (websocket_client.py 184-200).                                          *)
THEOREM CallGetsComplete == Spec => []GotIsComplete
<1>1. IInv => GotIsComplete  BY DEF IInv
<1> QED  BY <1>1, Invariance, PTL

--------------------------------------------------------------------------------
(* What a call waits for.                                                  *)

(* Before the first list nobody is cached; after it a cache that is not    *)
(* ready has somebody pending.                                             *)
ListedFirst == lists = 0 => DOMAIN info = {}

UnreadyMeansPending == lists # 0 /\ ~ready => DOMAIN pending # {}

(* What a pending friend lacks was asked for, and is to come or died.      *)
Asked(u) == toCome[u] \cup died[u]

MissingIsToCome(u) == pending[u] # Needed /\ Needed \ pending[u] \subseteq Asked(u)

LackIsToCome == \A u \in DOMAIN pending : MissingIsToCome(u)

UnwokenWaits ==
    ~call.woken => /\ call.at \in {"list", "infos"} => ~ready
                   /\ call.at = "nicknames" => ~nicknames

WaitInv == ListedFirst /\ UnreadyMeansPending /\ LackIsToCome /\ UnwokenWaits

(* Whoever sets the event wakes the call.                                  *)
LEMMA WakeWaits ==
    ASSUME TypeOK, UnwokenWaits, Wake, nicknames' = nicknames
    PROVE  UnwokenWaits'
<1>1. call \in Calls  BY CallType
<1>2. CASE ready' /\ call.at \in {"list", "infos"}
  <2>1. call' = [call EXCEPT !.woken = TRUE]  BY <1>2 DEF Wake
  <2>2. call'.woken  BY <1>1, <2>1 DEF Calls
  <2> QED  BY <2>2 DEF UnwokenWaits
<1>3. CASE ~(ready' /\ call.at \in {"list", "infos"})
  <2>1. call' = call  BY <1>3 DEF Wake
  <2> QED  BY <1>3, <2>1 DEF UnwokenWaits
<1> QED  BY <1>2, <1>3

LEMMA ListWaits ==
    ASSUME IInv, WaitInv, NEW new \in SUBSET Users, FriendList(new)
    PROVE  WaitInv'
<1>1. /\ Reset(new) /\ UpdateReady /\ Wake /\ AskInfos(new) /\ nicknames' = nicknames
      /\ lists' = lists + 1 /\ lists \in Nat
  BY DEF FriendList, IInv, TypeOK
<1>2. ListedFirst'  BY <1>1 DEF ListedFirst
<1>3. UnreadyMeansPending'  BY <1>1 DEF UpdateReady, UnreadyMeansPending
<1>4. ASSUME NEW u \in DOMAIN pending' PROVE MissingIsToCome(u)'
  <2>1. /\ u \in (new \ DOMAIN info) \cup (new \cap DOMAIN pending)
        /\ pending'[u] = IF u \in DOMAIN pending THEN pending[u] ELSE {}
    BY <1>1 DEF Reset
  <2>2. Fields \subseteq Asked(u)'  BY <1>1, <2>1 DEF AskInfos, Asked
  <2>3. pending'[u] # Needed
    BY <2>1 DEF WaitInv, LackIsToCome, MissingIsToCome, Needed
  <2> QED  BY <2>2, <2>3 DEF MissingIsToCome, Needed, Fields
<1>5. UnwokenWaits'  BY <1>1, WakeWaits DEF IInv, WaitInv
<1> QED  BY <1>2, <1>3, <1>4, <1>5 DEF WaitInv, LackIsToCome

(* A change comes after a list.                                            *)
LEMMA ChangeWaits ==
    ASSUME IInv, WaitInv, NEW user \in Users, NEW r, Change(user, r), UpdateReady, Wake,
           \A u \in DOMAIN pending' : MissingIsToCome(u)'
    PROVE  WaitInv'
<1>1. lists' = lists /\ lists \in Nat /\ lists # 0 /\ nicknames' = nicknames
  BY DEF Change, IInv, TypeOK
<1>2. ListedFirst'  BY <1>1 DEF ListedFirst
<1>3. UnreadyMeansPending'  BY DEF UpdateReady, UnreadyMeansPending
<1>4. UnwokenWaits'  BY <1>1, WakeWaits DEF IInv, WaitInv
<1> QED  BY <1>2, <1>3, <1>4 DEF WaitInv, LackIsToCome

LEMMA NewWaits ==
    ASSUME IInv, WaitInv, NEW user \in Users, NewFriend(user)
    PROVE  WaitInv'
<1>1. Change(user, "friend") /\ UpdateReady /\ Wake /\ AskInfos({user})  BY DEF NewFriend
<1>2. ASSUME NEW u \in DOMAIN pending' PROVE MissingIsToCome(u)'
  <2>1. DOMAIN pending \subseteq Users  BY OfPartial DEF IInv, TypeOK
  <2>2. \/ u \in DOMAIN pending /\ pending'[u] = pending[u]
        \/ u = user /\ pending'[u] = {}
    BY DEF NewFriend
  <2>3. IF u = user THEN Fields \subseteq Asked(u)' ELSE Asked(u)' = Asked(u)
    BY <1>1, <2>1, <2>2 DEF AskInfos, Asked
  <2>4. u \in DOMAIN pending => MissingIsToCome(u)  BY DEF WaitInv, LackIsToCome
  <2> QED  BY <2>2, <2>3, <2>4 DEF MissingIsToCome, Needed, Fields
<1> QED  BY <1>1, <1>2, ChangeWaits

LEMMA LostWaits ==
    ASSUME IInv, WaitInv, NEW user \in Users, LostFriend(user)
    PROVE  WaitInv'
<1> DEFINE P == DOMAIN pending \ {user}
<1>1. /\ Change(user, "none") /\ UpdateReady /\ Wake /\ toCome' = toCome /\ died' = died
      /\ pending' = Restrict(pending, P)
  BY DEF LostFriend, requests
<1>2. DOMAIN pending' = P /\ \A u \in P : pending'[u] = pending[u]
  <2>1. P \subseteq DOMAIN pending  OBVIOUS
  <2>2. pending \in Partial(Users, SUBSET Needed)  BY DEF IInv, TypeOK
  <2> HIDE DEF P
  <2> QED  BY <1>1, <2>1, <2>2, RestrictPartial
<1>3. ASSUME NEW u \in DOMAIN pending' PROVE MissingIsToCome(u)'
  <2>1. u \in DOMAIN pending /\ pending'[u] = pending[u]  BY <1>2
  <2> QED  BY <1>1, <2>1 DEF WaitInv, LackIsToCome, MissingIsToCome, Asked
<1> QED  BY <1>1, <1>3, ChangeWaits

(* What came is no longer to come: nothing else is given up for it.        *)
LEMMA InfoWaits ==
    ASSUME IInv, WaitInv, NEW user \in Users, NEW part \in Parts, Update(user, part),
           \/ toCome' = toCome
           \/ toCome' = [toCome EXCEPT ![user] = @ \ part],
           died' = died, nicknames' = nicknames, lists' = lists
    PROVE  WaitInv'
<1>1. part \subseteq Fields  BY PartsAssumption
<1>2. TypeOK /\ CacheInv /\ DOMAIN info' = DOMAIN info
  BY <1>1, UpdateKeepsInv DEF IInv
<1>3. ListedFirst'  BY <1>2 DEF WaitInv, ListedFirst
<1>4. /\ toCome \in [Users -> SUBSET Fields] /\ DOMAIN pending \subseteq Users
      /\ DOMAIN pending \subseteq DOMAIN info
      /\ pending \in [DOMAIN pending -> SUBSET Needed]
  BY <1>2, OfPartial DEF TypeOK, CacheInv, KnownOrPending
<1>5. /\ \A u \in Users \ {user} : Asked(u)' = Asked(u)
      /\ Asked(user) \ part \subseteq Asked(user)'
  BY <1>4 DEF Asked
<1>6. CASE pending' = pending /\ ready' = ready /\ call' = call /\ user \notin DOMAIN pending
  <2>1. UnreadyMeansPending' /\ UnwokenWaits'
    BY <1>6 DEF WaitInv, UnreadyMeansPending, UnwokenWaits
  <2>2. LackIsToCome'
    BY <1>4, <1>5, <1>6 DEF WaitInv, LackIsToCome, MissingIsToCome
  <2> QED  BY <1>3, <2>1, <2>2 DEF WaitInv
<1> DEFINE came == pending[user] \cup (part \cap Needed)
           P == DOMAIN pending \ {user}
<1>7. CASE pending' = Restrict(pending, P) /\ UpdateReady /\ Wake
  <2>1. DOMAIN pending' = P /\ \A u \in P : pending'[u] = pending[u]
    <3>1. P \subseteq DOMAIN pending  OBVIOUS
    <3>2. pending \in Partial(Users, SUBSET Needed)  BY <1>2 DEF TypeOK
    <3> HIDE DEF P
    <3> QED  BY <1>7, <3>1, <3>2, RestrictPartial
  <2>2. LackIsToCome'
    BY <1>4, <1>5, <2>1 DEF WaitInv, LackIsToCome, MissingIsToCome
  <2>3. UnreadyMeansPending'  BY <1>7 DEF UpdateReady, UnreadyMeansPending
  <2>4. UnwokenWaits'  BY <1>2, <1>7, WakeWaits DEF WaitInv
  <2> QED  BY <1>3, <2>2, <2>3, <2>4 DEF WaitInv
<1>8. CASE /\ user \in DOMAIN pending /\ came # Needed
           /\ pending' = [pending EXCEPT ![user] = came] /\ ready' = ready /\ call' = call
  <2>1. /\ DOMAIN pending' = DOMAIN pending
        /\ \A u \in DOMAIN pending : pending'[u] = IF u = user THEN came ELSE pending[u]
    <3> HIDE DEF came
    <3> QED  BY <1>4, <1>8
  <2>2. UnreadyMeansPending' /\ UnwokenWaits'
    BY <1>8, <2>1 DEF WaitInv, UnreadyMeansPending, UnwokenWaits
  <2>3. MissingIsToCome(user)'
    <3>1. Needed \ pending[user] \subseteq Asked(user)
      BY <1>8 DEF WaitInv, LackIsToCome, MissingIsToCome
    <3>2. Needed \ came \subseteq Asked(user)'  BY <1>5, <3>1
    <3> QED  BY <1>8, <2>1, <3>2 DEF MissingIsToCome
  <2>4. ASSUME NEW u \in DOMAIN pending \ {user} PROVE MissingIsToCome(u)'
    BY <1>4, <1>5, <2>1 DEF WaitInv, LackIsToCome, MissingIsToCome
  <2> QED  BY <1>3, <2>1, <2>2, <2>3, <2>4 DEF WaitInv, LackIsToCome
<1> QED  BY <1>4, <1>6, <1>7, <1>8 DEF Update, cache

LEMMA NicknamesWait ==
    ASSUME IInv, WaitInv, NicknameList
    PROVE  WaitInv'
<1>1. UNCHANGED <<info, pending, ready, toCome, died, lists>> /\ nicknames' = TRUE
  BY DEF NicknameList, cache, requests, counters
<1>2. call \in Calls  BY CallType DEF IInv
<1>3. UnwokenWaits'
  <2>1. CASE call.at = "nicknames"
    <3>1. call' = [call EXCEPT !.woken = TRUE]  BY <2>1 DEF NicknameList
    <3>2. call'.woken  BY <1>2, <3>1 DEF Calls
    <3> QED  BY <3>2 DEF UnwokenWaits
  <2>2. CASE call.at # "nicknames"
    <3>1. call' = call  BY <2>2 DEF NicknameList
    <3> QED  BY <1>1, <2>2, <3>1 DEF WaitInv, UnwokenWaits
  <2> QED  BY <2>1, <2>2
<1>4. ListedFirst' /\ UnreadyMeansPending' /\ LackIsToCome'
  BY <1>1 DEF WaitInv, ListedFirst, UnreadyMeansPending, LackIsToCome, MissingIsToCome, Asked
<1> QED  BY <1>3, <1>4 DEF WaitInv

(* A call that goes on, or is made, waits only for what is not there.      *)
LEMMA CallWaits ==
    ASSUME IInv, WaitInv, GetFriends \/ Resume
    PROVE  WaitInv'
<1>1. UNCHANGED <<info, pending, ready, nicknames, toCome, died, lists>>
  BY DEF GetFriends, Resume, cache, requests, counters
<1>2. \A ids : \/ AfterInfos(ids).at = "idle"
               \/ AfterInfos(ids).at = "nicknames" /\ ~nicknames
  BY DEF AfterInfos, Idle, Waits
<1>3. \/ AfterList.at = "idle"
      \/ AfterList.at = "nicknames" /\ ~nicknames
      \/ AfterList.at = "infos" /\ ~ready
  BY <1>2 DEF AfterList, Waits
<1>4. call.at \in {"list", "infos", "nicknames"} \/ GetFriends
  BY CallType DEF IInv, WokenMeansReady, Resume, Calls
<1>5. \/ call' = AfterList
      \/ call' = AfterInfos(call.ids)
      \/ call' = Idle(call.got)
      \/ call' = Waits("list", {}, NoInfo) /\ ~ready
  BY <1>4 DEF GetFriends, Resume
<1>6. \/ call'.at = "idle"
      \/ call'.at = "nicknames" /\ ~nicknames
      \/ call'.at \in {"list", "infos"} /\ ~ready
  BY <1>2, <1>3, <1>5 DEF Idle, Waits
<1>7. UnwokenWaits'  BY <1>1, <1>6 DEF UnwokenWaits
<1>8. ListedFirst' /\ UnreadyMeansPending' /\ LackIsToCome'
  BY <1>1 DEF WaitInv, ListedFirst, UnreadyMeansPending, LackIsToCome, MissingIsToCome, Asked
<1> QED  BY <1>7, <1>8 DEF WaitInv

(* What dies was to come.                                                  *)
LEMMA LoseWaits ==
    ASSUME IInv, WaitInv, Lose
    PROVE  WaitInv'
<1>1. UNCHANGED <<info, pending, ready, nicknames, call, lists>>  BY DEF Lose, cache
<1>2. \A u \in Users : Asked(u)' = Asked(u)  BY DEF Lose, Asked
<1>3. DOMAIN pending \subseteq Users  BY OfPartial DEF IInv, TypeOK
<1>4. LackIsToCome'  BY <1>1, <1>2, <1>3 DEF WaitInv, LackIsToCome, MissingIsToCome
<1>5. ListedFirst' /\ UnreadyMeansPending' /\ UnwokenWaits'
  BY <1>1 DEF WaitInv, ListedFirst, UnreadyMeansPending, UnwokenWaits
<1> QED  BY <1>4, <1>5 DEF WaitInv

LEMMA WaitStep == IInv /\ WaitInv /\ [Next]_vars => WaitInv'
<1> SUFFICES ASSUME IInv, WaitInv, [Next]_vars PROVE WaitInv'  OBVIOUS
<1>1. ASSUME NEW new \in SUBSET Users, FriendList(new) PROVE WaitInv'  BY <1>1, ListWaits
<1>2. ASSUME NEW user \in Users, NewFriend(user) PROVE WaitInv'  BY <1>2, NewWaits
<1>3. ASSUME NEW user \in Users, LostFriend(user) PROVE WaitInv'  BY <1>3, LostWaits
<1>4. ASSUME NEW user \in Users, NEW part \in Parts,
             InfoComes(user, part) \/ InfoVolunteered(user, part)
      PROVE  WaitInv'
  <2>1. /\ Update(user, part) /\ nicknames' = nicknames /\ lists' = lists
        /\ toCome' = toCome \/ toCome' = [toCome EXCEPT ![user] = @ \ part]
        /\ died' = died
    BY <1>4 DEF InfoComes, InfoVolunteered, requests, counters
  <2> QED  BY <2>1, InfoWaits
<1>5. CASE NicknameList  BY <1>5, NicknamesWait
<1>6. CASE GetFriends \/ Resume  BY <1>6, CallWaits
<1>7. ASSUME (\E user \in Users : OtherRelationship(user)) \/ UNCHANGED vars PROVE WaitInv'
  <2>1. UNCHANGED <<info, pending, ready, nicknames, toCome, died, call, lists>>
    BY <1>7 DEF OtherRelationship, Change, vars, cache, requests, counters
  <2> QED  BY <2>1 DEF WaitInv, ListedFirst, UnreadyMeansPending, LackIsToCome,
                       MissingIsToCome, Asked, UnwokenWaits
<1>8. CASE Lose  BY <1>8, LoseWaits
<1> QED  BY <1>1, <1>2, <1>3, <1>4, <1>5, <1>6, <1>7, <1>8 DEF Next

(* A call that waits and was not woken waits for the first list, for the   *)
(* nicknames, or for a pending friend all of whose missing fields were     *)
(* asked for, by a request that is under way or died with its connection;  *)
(* for any lists, changes, parts of infos and lost connections             *)
(* (friends_cache.py 21-68, protocol_client.py 327-351).                   *)
THEOREM WaitsForSteam == Spec => []WaitsAreForSteam
<1>1. Init => WaitInv
  <2> SUFFICES ASSUME Init PROVE WaitInv  OBVIOUS
  <2>1. DOMAIN info = {} /\ DOMAIN pending = {} /\ lists = 0 /\ call.at = "idle"
    BY NothingIsPartial DEF Init, Idle
  <2> QED  BY <2>1 DEF WaitInv, ListedFirst, UnreadyMeansPending, LackIsToCome, UnwokenWaits
<1>2. IInv /\ WaitInv /\ [Next]_vars => WaitInv'  BY WaitStep
<1>3. IInv /\ WaitInv => WaitsAreForSteam
  <2> SUFFICES ASSUME IInv, WaitInv, call.at # "idle", ~call.woken, call.at # "nicknames",
                      lists # 0
               PROVE  \E user \in DOMAIN pending :
                          Lacks(user) # {} /\ Lacks(user) \subseteq Asked(user)
    BY DEF WaitsAreForSteam, WaitInv, UnwokenWaits, Asked
  <2>1. call.at \in {"list", "infos"}  BY CallType DEF IInv, Calls
  <2>2. DOMAIN pending # {}  BY <2>1 DEF WaitInv, UnwokenWaits, UnreadyMeansPending
  <2>3. PICK user \in DOMAIN pending : MissingIsToCome(user)  BY <2>2 DEF WaitInv, LackIsToCome
  <2>4. pending[user] \subseteq Needed  BY OfPartial DEF IInv, TypeOK
  <2> QED  BY <2>3, <2>4 DEF MissingIsToCome, Lacks
<1> QED  BY <1>1, <1>2, <1>3, Invariance, PTL DEF Spec
================================================================================
