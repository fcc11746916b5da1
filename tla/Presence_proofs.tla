----------------------------- MODULE Presence_proofs -----------------------------
(***************************************************************************)
(* Presence, for any users, games, news, translations and bounds: its      *)
(* types, and that what Galaxy knows of a friend is his present info.      *)
(***************************************************************************)
EXTENDS Presence, TLAPS

Getters == [at : {"off", "due", "translating"}, old : Infos \cup {None},
            seen : Presences \cup {None}, stale : BOOLEAN]

(* What is known of one user: of what Galaxy was told, of the push for     *)
(* him, of a call that has not read his info or that is translating, and   *)
(* of a friend who is not complete.                                        *)
ToldIsCurrent(u) ==
    friend[u] = "ready" /\ told[u] # None /\ ~astray[u] /\ push.user # u => IsOf(told[u], info[u])

PushIsCurrent(u) ==
    push.user = u => friend[u] = "ready" /\ IsOf(push.seen, info[u])

DueIsLive(u) ==
    getters[u].at = "due" /\ ~getters[u].stale => friend[u] = "ready" /\ getters[u].old = None

SeenIsCurrent(u) ==
    getters[u].at = "translating" /\ ~getters[u].stale
    => friend[u] = "ready" /\ IsOf(getters[u].seen, info[u])

PendingIsUntold(u) == friend[u] = "pending" => told[u] = None \/ astray[u]

UserInv(u) ==
    ToldIsCurrent(u) /\ PushIsCurrent(u) /\ DueIsLive(u) /\ SeenIsCurrent(u) /\ PendingIsUntold(u)

IInv == TypeOK /\ \A u \in Users : UserInv(u)

--------------------------------------------------------------------------------
(* A computed presence has its type and is of the info it is made from.    *)
LEMMA PresenceOfInfo ==
    ASSUME TypeOK, NEW i \in Infos
    PROVE  PresenceOf(i) \in Presences /\ IsOf(PresenceOf(i), i)
<1>1. StateOf(i.state) \in {"Online", "Offline", "Away", "Unknown"}  BY DEF StateOf
<1>2. \A known \in BOOLEAN : Status(i, known) \in Shown \cup {None}
  BY ValueAssumption DEF Status, Shown
<1>3. Known(i.game) \in BOOLEAN  BY DEF Known
<1>4. PresenceOf(i) \in Presences  BY <1>1, <1>2, <1>3 DEF PresenceOf, Presences
<1>5. Status(i, Known(i.game)) \in {Status(i, FALSE), Status(i, TRUE)}  BY <1>3
<1>6. IsOf(PresenceOf(i), i)  BY <1>5 DEF PresenceOf, IsOf
<1> QED  BY <1>4, <1>6

LEMMA MergedInfo ==
    ASSUME NEW old \in Infos, NEW news \in News
    PROVE  Merge(old, news) \in Infos
BY NewsAssumption DEF Merge, Infos

(* What is asked for is a game.                                            *)
LEMMA AskTypes ==
    ASSUME TypeOK, NEW news \in News, Ask(news)
    PROVE  translations' \in [Apps -> {"absent", "asked", "known"}] /\ requests' \subseteq Apps
<1>1. CASE news.rich = "token" /\ translations[news.game] = "absent"
  <2>1. news.game \in Apps  BY <1>1, NewsAssumption, ValueAssumption DEF Riches
  <2> QED  BY <1>1, <2>1 DEF Ask, TypeOK
<1>2. CASE ~(news.rich = "token" /\ translations[news.game] = "absent")
  BY <1>2 DEF Ask, TypeOK
<1> QED  BY <1>1, <1>2

LEMMA Types ==
    ASSUME TypeOK
    PROVE  /\ counts \in [news : Nat, relations : Nat, imports : Nat, losses : Nat]
           /\ getters \in [Users -> Getters]
           /\ \A what, bound : what \in {"news", "relations", "imports", "losses"} /\ Counted(what, bound)
                  => counts' \in [news : Nat, relations : Nat, imports : Nat, losses : Nat]
BY DEF TypeOK, Getters, Counted

(* Somebody of whom nothing changes.                                       *)
LEMMA Untouched ==
    ASSUME NEW u \in Users, UserInv(u), UNCHANGED push,
           friend'[u] = friend[u], info'[u] = info[u], getters'[u] = getters[u],
           told'[u] = told[u], astray'[u] = astray[u]
    PROVE  UserInv(u)'
BY DEF UserInv, ToldIsCurrent, PushIsCurrent, DueIsLive, SeenIsCurrent, PendingIsUntold,
       IsOf, Status, StateOf

LEMMA InitInv == Init => IInv
<1> SUFFICES ASSUME Init PROVE IInv  OBVIOUS
<1>1. Blank \in Infos  BY DEF Blank, Infos, Riches
<1>2. TypeOK
  <2>1. Resting \in Getters  BY DEF Resting, Getters
  <2> QED  BY <1>1, <2>1 DEF Init, TypeOK, Getters
<1>3. ASSUME NEW u \in Users PROVE UserInv(u)
  <2>1. push.user # u  BY ValueAssumption DEF Init, Quiet
  <2>2. friend[u] = "no" /\ getters[u].at = "off"  BY DEF Init, Resting
  <2> QED  BY <2>1, <2>2 DEF UserInv, ToldIsCurrent, PushIsCurrent, DueIsLive, SeenIsCurrent,
                             PendingIsUntold
<1> QED  BY <1>2, <1>3 DEF IInv

--------------------------------------------------------------------------------
(* A complete friend's info changes: he is pushed, at once or by a task.   *)
LEMMA PushStep ==
    ASSUME IInv, NEW u \in Users, NEW new \in Infos,
           push = Quiet, friend[u] = "ready", friend' = friend,
           info' = [info EXCEPT ![u] = new],
           Push(u, new)
    PROVE  /\ push' = Quiet \/ push' \in [user : Users, seen : Presences]
           /\ getters' \in [Users -> Getters]
           /\ told' \in [Users -> Presences \cup {None}] /\ astray' \in [Users -> BOOLEAN]
           /\ \A v \in Users : UserInv(v)'
<1>1. PresenceOf(new) \in Presences /\ IsOf(PresenceOf(new), new)  BY PresenceOfInfo DEF IInv
<1>2. getters \in [Users -> Getters]  BY Types DEF IInv
<1>3. getters' = [getters EXCEPT ![u].stale = @ \/ getters[u].at = "translating"]
  BY DEF Push, Overtakes
<1>4. /\ getters' \in [Users -> Getters]
      /\ getters'[u].at = getters[u].at /\ getters'[u].old = getters[u].old
      /\ getters'[u].stale = (getters[u].stale \/ getters[u].at = "translating")
      /\ \A v \in Users \ {u} : getters'[v] = getters[v]
  <2>1. getters[u] \in Getters  BY <1>2
  <2>2. [getters[u] EXCEPT !.stale = @ \/ getters[u].at = "translating"] \in Getters
    BY <2>1 DEF Getters
  <2>3. getters' = [getters EXCEPT ![u] = [getters[u] EXCEPT !.stale = @ \/ getters[u].at = "translating"]]
    BY <1>3
  <2> QED  BY <1>2, <2>1, <2>2, <2>3 DEF Getters
<1>5. /\ info' \in [Users -> Infos] /\ info'[u] = new /\ friend'[u] = "ready"
      /\ \A v \in Users \ {u} : info'[v] = info[v] /\ friend'[v] = friend[v]
  BY DEF IInv, TypeOK
<1>6. told \in [Users -> Presences \cup {None}] /\ astray \in [Users -> BOOLEAN]
  BY DEF IInv, TypeOK
<1>7. DueIsLive(u)' /\ SeenIsCurrent(u)' /\ PendingIsUntold(u)'
  <2>1. DueIsLive(u)  BY DEF IInv, UserInv
  <2> QED  BY <2>1, <1>4, <1>5 DEF DueIsLive, SeenIsCurrent, PendingIsUntold
<1>8. CASE Awaits(new)
  <2>1. push' = [user |-> u, seen |-> PresenceOf(new)] /\ told' = told /\ astray' = astray
    BY <1>8 DEF Push
  <2>2. ToldIsCurrent(u)' /\ PushIsCurrent(u)'
    BY <1>1, <1>5, <2>1 DEF ToldIsCurrent, PushIsCurrent, IsOf, Status, StateOf
  <2>3. ASSUME NEW v \in Users \ {u} PROVE UserInv(v)'
    <3>1. UserInv(v) /\ push.user # v  BY ValueAssumption DEF IInv, Quiet
    <3>2. push'.user # v  BY <2>1
    <3> QED  BY <1>4, <1>5, <2>1, <3>1, <3>2
             DEF UserInv, ToldIsCurrent, PushIsCurrent, DueIsLive, SeenIsCurrent,
                 PendingIsUntold, IsOf, Status, StateOf
  <2> QED  BY <1>1, <1>4, <1>6, <1>7, <2>1, <2>2, <2>3 DEF UserInv
<1>9. CASE ~Awaits(new)
  <2>1. /\ told' = [told EXCEPT ![u] = PresenceOf(new)] /\ astray' = [astray EXCEPT ![u] = FALSE]
        /\ push' = push
    BY <1>9 DEF Push
  <2>2. push'.user # u  BY <2>1, ValueAssumption DEF Quiet
  <2>3. told'[u] = PresenceOf(new)  BY <1>6, <2>1
  <2>4. ToldIsCurrent(u)' /\ PushIsCurrent(u)'
    BY <1>1, <1>5, <2>2, <2>3 DEF ToldIsCurrent, PushIsCurrent, IsOf, Status, StateOf
  <2>5. ASSUME NEW v \in Users \ {u} PROVE UserInv(v)'
    <3>1. UserInv(v) /\ told'[v] = told[v] /\ astray'[v] = astray[v]  BY <1>6, <2>1 DEF IInv
    <3> QED  BY <1>4, <1>5, <2>1, <3>1, Untouched
  <2>6. told' \in [Users -> Presences \cup {None}] /\ astray' \in [Users -> BOOLEAN]
    BY <1>1, <1>6, <2>1
  <2> QED  BY <1>4, <1>7, <2>1, <2>4, <2>5, <2>6 DEF UserInv
<1> QED  BY <1>8, <1>9

LEMMA PersonaStep ==
    ASSUME IInv, NEW u \in Users, NEW news \in News, Persona(u, news)
    PROVE  IInv'
<1>1. /\ push = Quiet /\ Counted("news", MaxNews) /\ Ask(news) /\ missed' = missed
  BY DEF Persona, Packet
<1>2. /\ translations' \in [Apps -> {"absent", "asked", "known"}] /\ requests' \subseteq Apps
      /\ missed' \subseteq Apps
      /\ counts' \in [news : Nat, relations : Nat, imports : Nat, losses : Nat]
  BY <1>1, AskTypes, Types DEF IInv, TypeOK
<1>3. CASE friend[u] = "no"
  <2>1. UNCHANGED <<friend, info, push, getters, told, astray>>  BY <1>3 DEF Persona
  <2>2. TypeOK'  BY <1>2, <2>1 DEF IInv, TypeOK
  <2>3. \A v \in Users : UserInv(v)'  BY <2>1, Untouched DEF IInv
  <2> QED  BY <2>2, <2>3 DEF IInv
<1>4. CASE friend[u] # "no"
  <2> DEFINE new == Merge(info[u], news)
  <2>1. new \in Infos  BY MergedInfo DEF IInv, TypeOK
  <2>2. info' = [info EXCEPT ![u] = new]  BY <1>4 DEF Persona
  <2>3. info' \in [Users -> Infos]  BY <2>1, <2>2 DEF IInv, TypeOK
  <2>4. CASE friend[u] = "pending"
    <3>1. /\ UNCHANGED <<push, getters, told, astray>>
          /\ friend' = friend \/ friend' = [friend EXCEPT ![u] = "ready"]
      BY <1>4, <2>4 DEF Persona
    <3>2. friend' \in [Users -> {"no", "pending", "ready"}]  BY <3>1 DEF IInv, TypeOK
    <3>3. TypeOK'  BY <1>2, <2>3, <3>1, <3>2 DEF IInv, TypeOK
    <3>4. ASSUME NEW v \in Users PROVE UserInv(v)'
      <4>1. UserInv(v)  BY DEF IInv
      <4>2. CASE v = u
        BY <2>4, <3>1, <4>1, <4>2
           DEF UserInv, ToldIsCurrent, PushIsCurrent, DueIsLive, SeenIsCurrent, PendingIsUntold
      <4>3. CASE v # u
        <5>1. friend'[v] = friend[v] /\ info'[v] = info[v]  BY <2>2, <3>1, <4>3 DEF IInv, TypeOK
        <5> QED  BY <3>1, <4>1, <5>1, Untouched
      <4> QED  BY <4>2, <4>3
    <3> QED  BY <3>3, <3>4 DEF IInv
  <2>5. CASE friend[u] = "ready"
    <3>1. /\ friend' = friend
          /\ \/ Push(u, new)
             \/ new = info[u] /\ UNCHANGED <<push, getters, told, astray>>
      BY <1>4, <2>5 DEF Persona, Changed
    <3>2. CASE Push(u, new)
      <4> HIDE DEF new
      <4>1. /\ push' = Quiet \/ push' \in [user : Users, seen : Presences]
            /\ getters' \in [Users -> Getters]
            /\ told' \in [Users -> Presences \cup {None}] /\ astray' \in [Users -> BOOLEAN]
            /\ \A v \in Users : UserInv(v)'
        BY <1>1, <2>1, <2>2, <2>5, <3>1, <3>2, PushStep
      <4>2. TypeOK'  BY <1>2, <2>3, <3>1, <4>1 DEF IInv, TypeOK, Getters
      <4> QED  BY <4>1, <4>2 DEF IInv
    <3>3. CASE new = info[u] /\ UNCHANGED <<push, getters, told, astray>>
      <4>1. info' = info  BY <2>2, <3>3 DEF IInv, TypeOK
      <4>2. TypeOK'  BY <1>2, <2>3, <3>1, <3>3 DEF IInv, TypeOK
      <4>3. \A v \in Users : UserInv(v)'  BY <3>1, <3>3, <4>1, Untouched DEF IInv
      <4> QED  BY <4>2, <4>3 DEF IInv
    <3> QED  BY <3>1, <3>2, <3>3
  <2>6. friend[u] \in {"no", "pending", "ready"}  BY DEF IInv, TypeOK
  <2> QED  BY <1>4, <2>4, <2>5, <2>6
<1> QED  BY <1>3, <1>4

--------------------------------------------------------------------------------
LEMMA PushEndsStep ==
    ASSUME IInv, PushEnds
    PROVE  IInv'
<1> DEFINE p == push.user
<1>1. /\ push \in [user : Users, seen : Presences] /\ push' = Quiet
      /\ told' = [told EXCEPT ![p] = push.seen] /\ astray' = [astray EXCEPT ![p] = FALSE]
      /\ UNCHANGED <<friend, info, translations, requests, missed, getters, counts>>
  BY DEF PushEnds, IInv, TypeOK
<1>2. p \in Users /\ push.seen \in Presences  BY <1>1
<1>3. TypeOK'  BY <1>1, <1>2 DEF IInv, TypeOK
<1>4. ASSUME NEW u \in Users PROVE UserInv(u)'
  <2>1. UserInv(u) /\ push'.user # u  BY <1>1, ValueAssumption DEF IInv, Quiet
  <2>2. CASE u = p
    <3>1. told'[u] = push.seen /\ friend[u] = "ready" /\ IsOf(push.seen, info[u])
      BY <1>1, <2>1, <2>2 DEF IInv, TypeOK, UserInv, PushIsCurrent
    <3> QED  BY <1>1, <2>1, <3>1
             DEF UserInv, ToldIsCurrent, PushIsCurrent, DueIsLive, SeenIsCurrent,
                 PendingIsUntold, IsOf, Status, StateOf
  <2>3. CASE u # p
    <3>1. told'[u] = told[u] /\ astray'[u] = astray[u]  BY <1>1, <2>3 DEF IInv, TypeOK
    <3> QED  BY <1>1, <2>1, <2>3, <3>1
             DEF UserInv, ToldIsCurrent, PushIsCurrent, DueIsLive, SeenIsCurrent,
                 PendingIsUntold, IsOf, Status, StateOf
  <2> QED  BY <2>2, <2>3
<1> QED  BY <1>3, <1>4 DEF IInv

(* Steps that no user's part of the invariant reads.                       *)
LEMMA TranslationSteps ==
    ASSUME IInv, \/ \E app \in Apps : Translations(app) \/ NoTranslations(app)
                 \/ Lose
    PROVE  IInv'
<1>1. UNCHANGED <<friend, info, push, getters, told, astray>>
  BY DEF Translations, NoTranslations, Lose
<1>2. /\ translations' \in [Apps -> {"absent", "asked", "known"}]
      /\ requests' \subseteq Apps /\ missed' \subseteq Apps
      /\ counts' \in [news : Nat, relations : Nat, imports : Nat, losses : Nat]
  <2>1. CASE \E app \in Apps : Translations(app) \/ NoTranslations(app)
    BY <2>1 DEF Translations, NoTranslations, IInv, TypeOK
  <2>2. CASE Lose
    <3>1. Counted("losses", MaxLosses)  BY <2>2 DEF Lose
    <3> QED  BY <2>2, <3>1, Types DEF Lose, IInv, TypeOK
  <2> QED  BY <2>1, <2>2
<1>3. TypeOK'  BY <1>1, <1>2 DEF IInv, TypeOK
<1>4. \A u \in Users : UserInv(u)'  BY <1>1, Untouched DEF IInv
<1> QED  BY <1>3, <1>4 DEF IInv

LEMMA BefriendStep ==
    ASSUME IInv, NEW u \in Users, Befriend(u)
    PROVE  IInv'
<1>1. /\ push = Quiet /\ Counted("relations", MaxRelations) /\ friend[u] = "no"
      /\ friend' = [friend EXCEPT ![u] = "pending"] /\ info' = [info EXCEPT ![u] = Blank]
      /\ told' = [told EXCEPT ![u] = None] /\ astray' = [astray EXCEPT ![u] = FALSE]
      /\ UNCHANGED <<translations, requests, missed, push, getters>>
  BY DEF Befriend, Packet
<1>2. Blank \in Infos  BY DEF Blank, Infos, Riches
<1>3. counts' \in [news : Nat, relations : Nat, imports : Nat, losses : Nat]
  BY <1>1, Types DEF IInv
<1>4. TypeOK'
  <2>1. friend' \in [Users -> {"no", "pending", "ready"}] /\ info' \in [Users -> Infos]
    BY <1>1, <1>2 DEF IInv, TypeOK
  <2>2. told' \in [Users -> Presences \cup {None}] /\ astray' \in [Users -> BOOLEAN]
    BY <1>1 DEF IInv, TypeOK
  <2> QED  BY <1>1, <1>3, <2>1, <2>2 DEF IInv, TypeOK
<1>5. ASSUME NEW v \in Users PROVE UserInv(v)'
  <2>1. UserInv(v)  BY DEF IInv
  <2>2. CASE v = u
    <3>1. friend'[u] = "pending" /\ told'[u] = None  BY <1>1 DEF IInv, TypeOK
    <3> QED  BY <1>1, <2>1, <2>2, <3>1
             DEF UserInv, ToldIsCurrent, PushIsCurrent, DueIsLive, SeenIsCurrent, PendingIsUntold
  <2>3. CASE v # u
    <3>1. /\ friend'[v] = friend[v] /\ info'[v] = info[v] /\ getters'[v] = getters[v]
          /\ told'[v] = told[v] /\ astray'[v] = astray[v]
      BY <1>1, <2>3 DEF IInv, TypeOK
    <3> QED  BY <1>1, <2>1, <3>1, Untouched
  <2> QED  BY <2>2, <2>3
<1> QED  BY <1>4, <1>5 DEF IInv

LEMMA UnfriendStep ==
    ASSUME IInv, NEW u \in Users, Unfriend(u)
    PROVE  IInv'
<1> DEFINE old  == IF getters[u].at = "due" /\ getters[u].old = None THEN info[u] ELSE getters[u].old
           left == [getters[u] EXCEPT !.old = old, !.stale = getters[u].at # "off"]
<1>1. /\ push = Quiet /\ Counted("relations", MaxRelations)
      /\ friend' = [friend EXCEPT ![u] = "no"] /\ info' = [info EXCEPT ![u] = Blank]
      /\ UNCHANGED <<translations, requests, missed, push, told, astray>>
  BY DEF Unfriend, Packet
<1>2. getters \in [Users -> Getters] /\ getters[u] \in Getters /\ info[u] \in Infos
  BY Types DEF IInv, TypeOK
<1>3. getters' = [getters EXCEPT ![u] = left]
  BY <1>2 DEF Unfriend, Getters
<1>4. left \in Getters /\ left.at = getters[u].at /\ left.stale = (getters[u].at # "off")
  BY <1>2 DEF Getters
<1> HIDE DEF old, left
<1>5. Blank \in Infos  BY DEF Blank, Infos, Riches
<1>6. counts' \in [news : Nat, relations : Nat, imports : Nat, losses : Nat]
  BY <1>1, Types DEF IInv
<1>7. TypeOK'
  <2>1. friend' \in [Users -> {"no", "pending", "ready"}] /\ info' \in [Users -> Infos]
    BY <1>1, <1>5 DEF IInv, TypeOK
  <2>2. getters' \in [Users -> Getters]  BY <1>2, <1>3, <1>4
  <2> QED  BY <1>1, <1>6, <2>1, <2>2 DEF IInv, TypeOK, Getters
<1>8. ASSUME NEW v \in Users PROVE UserInv(v)'
  <2>1. UserInv(v) /\ push.user # v  BY <1>1, ValueAssumption DEF IInv, Quiet
  <2>2. CASE v = u
    <3>1. friend'[u] = "no" /\ getters'[u] = left  BY <1>1, <1>2, <1>3 DEF IInv, TypeOK
    <3> QED  BY <1>1, <1>4, <2>1, <2>2, <3>1
             DEF UserInv, ToldIsCurrent, PushIsCurrent, DueIsLive, SeenIsCurrent, PendingIsUntold
  <2>3. CASE v # u
    <3>1. friend'[v] = friend[v] /\ info'[v] = info[v] /\ getters'[v] = getters[v]
      BY <1>1, <1>2, <1>3, <2>3 DEF IInv, TypeOK
    <3> QED  BY <1>1, <2>1, <3>1, Untouched
  <2> QED  BY <2>2, <2>3
<1> QED  BY <1>7, <1>8 DEF IInv

--------------------------------------------------------------------------------
LEMMA PrepareStep ==
    ASSUME IInv, Prepare
    PROVE  IInv'
<1> DEFINE due == [Resting EXCEPT !.at = "due"]
<1>1. /\ Counted("imports", MaxImports)
      /\ getters' = [u \in Users |-> IF friend[u] = "ready" THEN due ELSE Resting]
      /\ UNCHANGED <<friend, info, translations, requests, missed, push, told, astray>>
  BY DEF Prepare
<1>2. /\ Resting \in Getters /\ Resting.at = "off"
      /\ due \in Getters /\ due.at = "due" /\ due.old = None
  BY DEF Resting, Getters
<1> HIDE DEF due
<1>3. getters' \in [Users -> Getters]  BY <1>1, <1>2
<1>4. counts' \in [news : Nat, relations : Nat, imports : Nat, losses : Nat]
  BY <1>1, Types DEF IInv
<1>5. TypeOK'  BY <1>1, <1>3, <1>4 DEF IInv, TypeOK, Getters
<1>6. ASSUME NEW u \in Users PROVE UserInv(u)'
  <2>1. UserInv(u)  BY DEF IInv
  <2>2. DueIsLive(u)' /\ SeenIsCurrent(u)'
    BY <1>1, <1>2 DEF DueIsLive, SeenIsCurrent
  <2> QED  BY <1>1, <2>1, <2>2
           DEF UserInv, ToldIsCurrent, PushIsCurrent, PendingIsUntold, IsOf, Status, StateOf
<1> QED  BY <1>5, <1>6 DEF IInv

(* An import tells what it saw: if it is not marked stale, it is current.  *)
LEMMA TellStep ==
    ASSUME IInv, NEW u \in Users, NEW seen \in Presences \cup {None}, NEW stale \in BOOLEAN,
           ~stale => friend[u] = "ready" /\ IsOf(seen, info[u]),
           Tell(u, seen, stale),
           UNCHANGED <<friend, info, translations, requests, missed, push, counts>>
    PROVE  IInv'
<1>1. /\ told' = [told EXCEPT ![u] = seen] /\ astray' = [astray EXCEPT ![u] = stale]
      /\ getters' = [getters EXCEPT ![u] = Resting]
  BY DEF Tell
<1>2. getters \in [Users -> Getters]  BY Types DEF IInv
<1>3. Resting \in Getters /\ Resting.at = "off"  BY DEF Resting, Getters
<1>4. getters' \in [Users -> Getters]  BY <1>1, <1>2, <1>3
<1>5. TypeOK'
  <2>1. told' \in [Users -> Presences \cup {None}] /\ astray' \in [Users -> BOOLEAN]
    BY <1>1 DEF IInv, TypeOK
  <2> QED  BY <1>4, <2>1 DEF IInv, TypeOK, Getters
<1>6. ASSUME NEW v \in Users PROVE UserInv(v)'
  <2>1. UserInv(v)  BY DEF IInv
  <2>2. CASE v = u
    <3>1. told'[u] = seen /\ astray'[u] = stale /\ getters'[u].at = "off"
      BY <1>1, <1>2, <1>3 DEF IInv, TypeOK
    <3> QED  BY <2>1, <2>2, <3>1
             DEF UserInv, ToldIsCurrent, PushIsCurrent, DueIsLive, SeenIsCurrent,
                 PendingIsUntold, IsOf, Status, StateOf
  <2>3. CASE v # u
    <3>1. told'[v] = told[v] /\ astray'[v] = astray[v] /\ getters'[v] = getters[v]
      BY <1>1, <1>2, <2>3 DEF IInv, TypeOK
    <3> QED  BY <2>1, <3>1, Untouched
  <2> QED  BY <2>2, <2>3
<1> QED  BY <1>5, <1>6 DEF IInv

LEMMA GetPresenceStep ==
    ASSUME IInv, NEW u \in Users, GetPresence(u)
    PROVE  IInv'
<1> DEFINE i == IF getters[u].old = None THEN info[u] ELSE getters[u].old
<1>1. /\ getters \in [Users -> Getters] /\ getters[u] \in Getters /\ info[u] \in Infos
      /\ getters[u].at = "due"
  BY Types DEF IInv, TypeOK, GetPresence
<1>2. i \in Infos /\ getters[u].stale \in BOOLEAN  BY <1>1 DEF Getters
<1>3. ~getters[u].stale => friend[u] = "ready" /\ i = info[u]
  BY <1>1 DEF IInv, UserInv, DueIsLive
<1>4. UNCHANGED <<friend, info, translations, requests, missed, push, counts>>
  BY DEF GetPresence
<1>5. \/ /\ getters' = [getters EXCEPT ![u].at = "translating", ![u].seen = PresenceOf(i)]
         /\ UNCHANGED <<told, astray>>
      \/ Tell(u, PresenceOf(i), getters[u].stale)
  BY DEF GetPresence
<1> HIDE DEF i
<1>6. PresenceOf(i) \in Presences /\ IsOf(PresenceOf(i), i)  BY <1>2, PresenceOfInfo DEF IInv
<1>7. CASE Tell(u, PresenceOf(i), getters[u].stale)
  BY <1>2, <1>3, <1>4, <1>6, <1>7, TellStep
<1>8. CASE /\ getters' = [getters EXCEPT ![u].at = "translating", ![u].seen = PresenceOf(i)]
           /\ UNCHANGED <<told, astray>>
  <2> DEFINE busy == [getters[u] EXCEPT !.at = "translating", !.seen = PresenceOf(i)]
  <2>1. /\ busy \in Getters /\ busy.at = "translating" /\ busy.seen = PresenceOf(i)
        /\ busy.stale = getters[u].stale
    BY <1>1, <1>6 DEF Getters
  <2>2. getters' = [getters EXCEPT ![u] = busy]  BY <1>1, <1>8 DEF Getters
  <2> HIDE DEF busy
  <2>3. getters' \in [Users -> Getters]  BY <1>1, <2>1, <2>2
  <2>4. TypeOK'  BY <1>4, <1>8, <2>3 DEF IInv, TypeOK, Getters
  <2>5. ASSUME NEW v \in Users PROVE UserInv(v)'
    <3>1. UserInv(v)  BY DEF IInv
    <3>2. CASE v = u
      <4>1. getters'[u] = busy  BY <1>1, <2>2
      <4> QED  BY <1>3, <1>4, <1>6, <1>8, <2>1, <3>1, <3>2, <4>1
               DEF UserInv, ToldIsCurrent, PushIsCurrent, DueIsLive, SeenIsCurrent,
                   PendingIsUntold, IsOf, Status, StateOf
    <3>3. CASE v # u
      <4>1. getters'[v] = getters[v]  BY <1>1, <2>2, <3>3
      <4> QED  BY <1>4, <1>8, <3>1, <4>1, Untouched
    <3> QED  BY <3>2, <3>3
  <2> QED  BY <2>4, <2>5 DEF IInv
<1> QED  BY <1>5, <1>7, <1>8

LEMMA GetterEndsStep ==
    ASSUME IInv, NEW u \in Users, GetterEnds(u)
    PROVE  IInv'
<1>1. getters[u] \in Getters  BY Types DEF IInv
<1>2. getters[u].seen \in Presences \cup {None} /\ getters[u].stale \in BOOLEAN
  BY <1>1 DEF Getters
<1>3. ~getters[u].stale => friend[u] = "ready" /\ IsOf(getters[u].seen, info[u])
  BY DEF GetterEnds, IInv, UserInv, SeenIsCurrent
<1>4. /\ Tell(u, getters[u].seen, getters[u].stale)
      /\ UNCHANGED <<friend, info, translations, requests, missed, push, counts>>
  BY DEF GetterEnds
<1> QED  BY <1>2, <1>3, <1>4, TellStep

--------------------------------------------------------------------------------
LEMMA NextInv == IInv /\ [Next]_vars => IInv'
<1> SUFFICES ASSUME IInv, [Next]_vars PROVE IInv'  OBVIOUS
<1>1. ASSUME NEW u \in Users, NEW news \in News, Persona(u, news) PROVE IInv'
  BY <1>1, PersonaStep
<1>2. ASSUME NEW u \in Users, Befriend(u) PROVE IInv'  BY <1>2, BefriendStep
<1>3. ASSUME NEW u \in Users, Unfriend(u) PROVE IInv'  BY <1>3, UnfriendStep
<1>4. ASSUME NEW u \in Users, GetPresence(u) PROVE IInv'  BY <1>4, GetPresenceStep
<1>5. ASSUME NEW u \in Users, GetterEnds(u) PROVE IInv'  BY <1>5, GetterEndsStep
<1>6. CASE \/ \E app \in Apps : Translations(app) \/ NoTranslations(app)
           \/ Lose
  BY <1>6, TranslationSteps
<1>7. CASE PushEnds  BY <1>7, PushEndsStep
<1>8. CASE Prepare  BY <1>8, PrepareStep
<1>9. CASE UNCHANGED vars
  <2>1. UNCHANGED <<friend, info, translations, requests, missed, push, getters, told, astray, counts>>
    BY <1>9 DEF vars
  <2>2. TypeOK'  BY <2>1 DEF IInv, TypeOK
  <2>3. \A u \in Users : UserInv(u)'  BY <2>1, Untouched DEF IInv
  <2> QED  BY <2>2, <2>3 DEF IInv
<1> QED  BY <1>1, <1>2, <1>3, <1>4, <1>5, <1>6, <1>7, <1>8, <1>9 DEF Next

LEMMA Invariance == Spec => []IInv
BY InitInv, NextInv, PTL DEF Spec

(* Whatever Steam says and Galaxy imports, the caches have their types: a  *)
(* presence that is told never carries the game id 0 (presence.py 66).     *)
THEOREM TypeCorrect == Spec => []TypeOK
<1>1. IInv => TypeOK  BY DEF IInv
<1> QED  BY <1>1, Invariance, PTL

(* What Galaxy knows of a complete friend is his present info, unless an   *)
(* import answered with what it had read before a change (friends_cache.py *)
(* 78-80, backend_steam_network.py 518-529): PresenceIsCurrent.            *)
THEOREM PresentInfoIsTold == Spec => []PresenceIsCurrent
<1>1. IInv => PresenceIsCurrent  BY DEF IInv, UserInv, ToldIsCurrent, PresenceIsCurrent
<1> QED  BY <1>1, Invariance, PTL

--------------------------------------------------------------------------------
(* Translations that are known, still owed by Steam, or lost or empty.     *)
LookedUp(app) == translations[app] = "known" \/ app \in requests \cup missed

(* The cache's entry, which keeps anybody from asking again, is not there  *)
(* without a request.                                                      *)
EntryIsDue == \A app \in Apps : translations[app] # "absent" => LookedUp(app)

TokenOf(i) == i.rich = "token" => i.game \in Apps /\ LookedUp(i.game)

LookUpInv == EntryIsDue /\ \A u \in Users : TokenOf(info[u])

(* What is looked up stays so, whatever happens.                           *)
LEMMA LookedUpStays ==
    ASSUME TypeOK, [Next]_vars, NEW app \in Apps, LookedUp(app)
    PROVE  LookedUp(app)'
<1>1. translations \in [Apps -> {"absent", "asked", "known"}]  BY DEF TypeOK
<1>2. ASSUME NEW u \in Users, NEW news \in News, Persona(u, news) PROVE LookedUp(app)'
  <2>1. Ask(news) /\ missed' = missed  BY <1>2 DEF Persona
  <2>2. CASE news.rich = "token" /\ translations[news.game] = "absent"
    <3>1. /\ translations' = [translations EXCEPT ![news.game] = "asked"]
          /\ requests' = requests \cup {news.game}
      BY <2>1, <2>2 DEF Ask
    <3>2. translations[app] = "known" => translations'[app] = "known"
      BY <1>1, <2>2, <3>1
    <3> QED  BY <2>1, <3>1, <3>2 DEF LookedUp
  <2>3. CASE ~(news.rich = "token" /\ translations[news.game] = "absent")
    BY <2>1, <2>3 DEF Ask, LookedUp
  <2> QED  BY <2>2, <2>3
<1>3. ASSUME NEW other \in Apps, Translations(other) PROVE LookedUp(app)'
  BY <1>1, <1>3 DEF Translations, LookedUp
<1>4. ASSUME NEW other \in Apps, NoTranslations(other) PROVE LookedUp(app)'
  BY <1>4 DEF NoTranslations, LookedUp
<1>5. CASE Lose  BY <1>5 DEF Lose, LookedUp
<1>6. ASSUME NEW u \in Users, Befriend(u) \/ Unfriend(u) \/ GetPresence(u) \/ GetterEnds(u)
      PROVE  LookedUp(app)'
  BY <1>6 DEF Befriend, Unfriend, GetPresence, GetterEnds, LookedUp
<1>7. CASE PushEnds \/ Prepare \/ UNCHANGED vars
  BY <1>7 DEF PushEnds, Prepare, vars, LookedUp
<1> QED  BY <1>2, <1>3, <1>4, <1>5, <1>6, <1>7 DEF Next

(* An entry is new only together with its request.                         *)
LEMMA EntryStep ==
    ASSUME TypeOK, EntryIsDue, [Next]_vars
    PROVE  EntryIsDue'
<1> SUFFICES ASSUME NEW app \in Apps, translations'[app] # "absent" PROVE LookedUp(app)'
  BY DEF EntryIsDue
<1>1. CASE translations[app] # "absent"  BY <1>1, LookedUpStays DEF EntryIsDue
<1>2. CASE translations[app] = "absent"
  <2>1. translations' # translations  BY <1>2
  <2>2. ASSUME NEW u \in Users, NEW news \in News, Persona(u, news) PROVE LookedUp(app)'
    <3>1. /\ translations' = [translations EXCEPT ![news.game] = "asked"]
          /\ requests' = requests \cup {news.game}
      BY <2>1, <2>2 DEF Persona, Ask
    <3>2. app = news.game  BY <1>2, <3>1 DEF TypeOK
    <3> QED  BY <3>1, <3>2 DEF LookedUp
  <2>3. ASSUME NEW other \in Apps, Translations(other) PROVE LookedUp(app)'
    BY <1>2, <2>3 DEF Translations, TypeOK, LookedUp
  <2>4. \/ \E u \in Users, news \in News : Persona(u, news)
        \/ \E other \in Apps : Translations(other)
    BY <2>1 DEF Next, vars, Befriend, Unfriend, GetPresence, GetterEnds, NoTranslations, Lose,
                PushEnds, Prepare
  <2> QED  BY <2>2, <2>3, <2>4
<1> QED  BY <1>1, <1>2

(* A status made of tokens comes with the game, whose entry was there or   *)
(* is made with it.                                                        *)
LEMMA PersonaTokens ==
    ASSUME TypeOK, LookUpInv, EntryIsDue', NEW u \in Users, NEW news \in News, Persona(u, news),
           \A app \in Apps : LookedUp(app) => LookedUp(app)'
    PROVE  \A v \in Users : TokenOf(info[v])'
<1> SUFFICES ASSUME NEW v \in Users, info'[v].rich = "token"
             PROVE  info'[v].game \in Apps /\ LookedUp(info[v].game)'
  BY DEF TokenOf
<1> DEFINE new == Merge(info[u], news)
<1>1. info' = info \/ info' = [info EXCEPT ![u] = new]  BY DEF Persona
<1>2. CASE info'[v] = info[v]
  <2>1. info[v].game \in Apps /\ LookedUp(info[v].game)  BY <1>2 DEF LookUpInv, TokenOf
  <2>2. \A app \in Apps : app = info'[v].game /\ LookedUp(app)' => LookedUp(info[v].game)'
    BY DEF LookedUp
  <2> QED  BY <1>2, <2>1, <2>2
<1>3. CASE info'[v] # info[v]
  <2>1. v = u /\ info'[v] = new  BY <1>1, <1>3 DEF TypeOK
  <2>2. info[u] \in Infos  BY DEF TypeOK
  <2>3. CASE news.rich = None
    <3>1. news.game = None  BY <2>3, NewsAssumption
    <3>2. new.rich = info[u].rich /\ new.game = info[u].game  BY <2>3, <3>1 DEF Merge
    <3>3. info[u].game \in Apps /\ LookedUp(info[u].game)
      BY <2>1, <3>2 DEF LookUpInv, TokenOf
    <3>4. \A app \in Apps : app = info'[v].game /\ LookedUp(app)' => LookedUp(info[v].game)'
      BY DEF LookedUp
    <3> QED  BY <2>1, <3>2, <3>3, <3>4
  <2>4. CASE news.rich # None
    <3>1. news.game # None  BY <2>4, NewsAssumption
    <3>2. news.rich = "token" /\ new.game = news.game  BY <2>1, <2>4, <3>1 DEF Merge
    <3>3. news.game \in Apps  BY <3>1, <3>2, NewsAssumption
    <3>4. translations'[news.game] # "absent"
      BY <3>2, <3>3 DEF Persona, Ask, TypeOK
    <3>5. LookedUp(news.game)'  BY <3>3, <3>4 DEF EntryIsDue, LookedUp
    <3> QED  BY <2>1, <3>2, <3>3, <3>5 DEF LookedUp
  <2> QED  BY <2>3, <2>4
<1> QED  BY <1>2, <1>3

LEMMA LookUpStep == TypeOK /\ LookUpInv /\ [Next]_vars => LookUpInv'
<1> SUFFICES ASSUME TypeOK, LookUpInv, [Next]_vars PROVE LookUpInv'  OBVIOUS
<1>1. EntryIsDue'  BY EntryStep DEF LookUpInv
<1>2. \A app \in Apps : LookedUp(app) => LookedUp(app)'  BY LookedUpStays
<1>3. ASSUME NEW u \in Users, NEW news \in News, Persona(u, news)
      PROVE  \A v \in Users : TokenOf(info[v])'
  BY <1>1, <1>2, <1>3, PersonaTokens
<1>4. ASSUME \A v \in Users : info'[v] = info[v] \/ info'[v] = Blank
      PROVE  \A v \in Users : TokenOf(info[v])'
  <2> SUFFICES ASSUME NEW v \in Users, info'[v].rich = "token"
               PROVE  info'[v].game \in Apps /\ LookedUp(info[v].game)'
    BY DEF TokenOf
  <2>1. info'[v] = info[v]  BY <1>4 DEF Blank
  <2>2. info[v].game \in Apps /\ LookedUp(info[v].game)  BY <2>1 DEF LookUpInv, TokenOf
  <2>3. \A app \in Apps : app = info'[v].game /\ LookedUp(app)' => LookedUp(info[v].game)'
    BY DEF LookedUp
  <2> QED  BY <1>2, <2>1, <2>2, <2>3
<1>5. \/ \E u \in Users, news \in News : Persona(u, news)
      \/ \A v \in Users : info'[v] = info[v] \/ info'[v] = Blank
  BY DEF Next, vars, TypeOK, Befriend, Unfriend, GetPresence, GetterEnds, Translations,
         NoTranslations, Lose, PushEnds, Prepare
<1> QED  BY <1>1, <1>3, <1>4, <1>5 DEF LookUpInv

(* Who shows a status made of tokens plays a game whose translations are   *)
(* known, still owed, or were lost or empty, for any news and any number   *)
(* of losses (protocol_client.py 401-406, protobuf_client.py 615-653): the *)
(* safety half of AskedIsAnswered.                                         *)
THEOREM TokensLookedUp == Spec => []TokensAreLookedUp
<1>1. Init => LookUpInv
  <2> SUFFICES ASSUME Init PROVE LookUpInv  OBVIOUS
  <2>1. EntryIsDue  BY DEF Init, EntryIsDue
  <2>2. \A u \in Users : TokenOf(info[u])  BY DEF Init, Blank, TokenOf
  <2> QED  BY <2>1, <2>2 DEF LookUpInv
<1>2. TypeOK /\ LookUpInv /\ [Next]_vars => LookUpInv'  BY LookUpStep
<1>3. LookUpInv => TokensAreLookedUp
  BY DEF LookUpInv, TokenOf, LookedUp, TokensAreLookedUp
<1> QED  BY <1>1, <1>2, <1>3, TypeCorrect, PTL DEF Spec
================================================================================
