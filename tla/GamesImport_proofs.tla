--------------------------- MODULE GamesImport_proofs ---------------------------
(***************************************************************************)
(* For every set of packages and applications, whatever licence lists and  *)
(* answers Steam sends and however the thread, the walks, the dumps and    *)
(* the tick interleave: the types of GamesImport; that nothing at all is   *)
(* forgotten before the plugin is first restarted, nor over restarts but   *)
(* what was taken up half listed or is no longer named; and that an owned  *)
(* game is told, or still ahead of what will tell it, unless it was noted  *)
(* as sent by what then told nobody.                                       *)
(***************************************************************************)
EXTENDS FiniteSetTheorems, GamesImport, TLAPS

Ids == SUBSET (Packages \cup Apps)

Walks == [at : Nat, detached : BOOLEAN, list : Seq(Entries), found : SUBSET Games]

Threads == [busy : BOOLEAN, ids : Ids, package : SUBSET Packages, toList : SUBSET Apps,
            found : SUBSET Apps]

Dumps == [by : {"none", "import", "tick"}, games : SUBSET Games, licenses : Seq(Entries)]

--------------------------------------------------------------------------------
(* The bag of requests.                                                    *)
Requested(requested) == IsABag(requested) /\ BagToSet(requested) \subseteq Ids

LEMMA BagAddition ==
    ASSUME NEW B, IsABag(B), NEW x
    PROVE  /\ IsABag(B (+) SetToBag({x}))
           /\ BagToSet(B (+) SetToBag({x})) = BagToSet(B) \cup {x}
  <1>1. \A y \in DOMAIN B : B[y] \in Nat /\ B[y] > 0
    BY DEF IsABag
  <1>2. \A y \in DOMAIN B \cup {x} :
           (IF y \in DOMAIN B THEN B[y] ELSE 0) + (IF y \in {x} THEN 1 ELSE 0) \in {n \in Nat : n > 0}
    BY <1>1
  <1> QED
    BY <1>2 DEF IsABag, BagToSet, SetToBag, (+)

LEMMA BagRemoval ==
    ASSUME NEW B, IsABag(B), NEW x
    PROVE  /\ IsABag(B (-) SetToBag({x}))
           /\ BagToSet(B (-) SetToBag({x})) \subseteq BagToSet(B)
           /\ BagToSet(B) \subseteq BagToSet(B (-) SetToBag({x})) \cup {x}
  <1>1. \A y \in DOMAIN B : B[y] \in Nat /\ B[y] > 0
    BY DEF IsABag
  <1>2. \A y \in DOMAIN B : (IF y \in {x} THEN B[y] - 1 ELSE B[y]) \in Nat
    BY <1>1
  <1> QED
    BY <1>1, <1>2 DEF IsABag, BagToSet, SetToBag, (-)

LEMMA Asking ==
    ASSUME Requested(requests), NEW ids \in Ids, Ask(ids)
    PROVE  /\ Requested(requests')
           /\ BagToSet(requests) \subseteq BagToSet(requests')
           /\ \A id \in ids : id \in UNION BagToSet(requests')
  <1>1. CASE ids = {}
    BY <1>1 DEF Ask
  <1>2. CASE ids # {}
    <2>1. requests' = requests (+) SetToBag({ids})
      BY <1>2 DEF Ask
    <2>2. IsABag(requests') /\ BagToSet(requests') = BagToSet(requests) \cup {ids}
      BY <2>1, BagAddition DEF Requested
    <2>3. ids \in BagToSet(requests')
      BY <2>2
    <2>4. \A id \in ids : id \in UNION BagToSet(requests')
      BY <2>3
    <2> QED
      BY <2>2, <2>4 DEF Requested
  <1> QED
    BY <1>1, <1>2

--------------------------------------------------------------------------------
(* Licence lists.                                                          *)
ListEntries == [package : Packages, shared : BOOLEAN]

LEMMA CountedPlaces ==
    ASSUME NEW S, NEW s \in Seq(S), NEW places \in SUBSET DOMAIN s
    PROVE  Cardinality(places) \in Nat
  <1>1. DOMAIN s = 1 .. Len(s) /\ Len(s) \in Nat
    OBVIOUS
  <1>2. IsFiniteSet(1 .. Len(s))
    BY <1>1, FS_Interval
  <1>3. IsFiniteSet(places)
    BY <1>1, <1>2, FS_Subset
  <1> QED
    BY <1>3, FS_CardinalityType

LEMMA FilteredType ==
    ASSUME NEW S, NEW s \in Seq(S), NEW places \in SUBSET DOMAIN s, NEW rest \in Filtered(s, places)
    PROVE  rest \in Seq(S)
  <1>1. Cardinality(places) \in Nat
    BY CountedPlaces
  <1>2. PICK f \in [1 .. Cardinality(places) -> places] : rest = [n \in DOMAIN f |-> s[f[n]]]
    BY DEF Filtered
  <1>3. \A n \in 1 .. Cardinality(places) : s[f[n]] \in S
    BY <1>2
  <1> QED
    BY <1>1, <1>2, <1>3

LEMMA Joined ==
    ASSUME NEW S, NEW s \in Seq(S), NEW t \in Seq(S)
    PROVE  /\ s \o t \in Seq(S) /\ DOMAIN (s \o t) = 1 .. Len(s) + Len(t)
           /\ \A i \in DOMAIN s : i \in DOMAIN (s \o t) /\ (s \o t)[i] = s[i]
           /\ \A i \in DOMAIN (s \o t) \ DOMAIN s :
                 i - Len(s) \in DOMAIN t /\ (s \o t)[i] = t[i - Len(s)]
  <1>1. /\ DOMAIN s = 1 .. Len(s) /\ DOMAIN t = 1 .. Len(t) /\ Len(s) \in Nat /\ Len(t) \in Nat
        /\ s \o t \in Seq(S) /\ Len(s \o t) = Len(s) + Len(t)
    OBVIOUS
  <1>2. DOMAIN (s \o t) = 1 .. Len(s) + Len(t)
    BY <1>1
  <1>3. \A i \in 1 .. Len(s) : i \in 1 .. Len(s) + Len(t) /\ (s \o t)[i] = s[i]
    BY <1>1
  <1>4. \A i \in 1 .. Len(s) + Len(t) : i \notin 1 .. Len(s) => i - Len(s) \in 1 .. Len(t)
    BY <1>1
  <1>5. \A i \in 1 .. Len(s) + Len(t) : i \notin 1 .. Len(s) => (s \o t)[i] = t[i - Len(s)]
    BY <1>1
  <1> QED
    BY <1>1, <1>2, <1>3, <1>4, <1>5

(* An import keeps the licences it starts from; of each other one it asks  *)
(* for the package.                                                        *)
LEMMA ImportStarts ==
    ASSUME Requested(requests), NEW old \in Seq(Entries), NEW list \in Seq(ListEntries),
           StartImport(old, list)
    PROVE  /\ licenses' \in Seq(Entries)
           /\ packagesToParse' \in Int /\ appsToParse' \in Int /\ ready' \in BOOLEAN
           /\ Requested(requests') /\ BagToSet(requests) \subseteq BagToSet(requests')
           /\ \A i \in DOMAIN old : i \in DOMAIN licenses' /\ licenses'[i] = old[i]
           /\ \A i \in DOMAIN licenses' \ DOMAIN old :
                 licenses'[i].apps = {} /\ licenses'[i].package \in UNION BagToSet(requests')
  <1> DEFINE new == [i \in DOMAIN list |->
                        [package |-> list[i].package, shared |-> list[i].shared, apps |-> {}]]
  <1>1. DOMAIN list = 1 .. Len(list) /\ Len(list) \in Nat /\ \A i \in DOMAIN list : list[i] \in ListEntries
    OBVIOUS
  <1>2. \A i \in DOMAIN list : new[i] \in Entries
    BY <1>1 DEF Entries, ListEntries
  <1>3. new \in Seq(Entries) /\ DOMAIN new = DOMAIN list /\ Len(new) = Len(list)
    BY <1>1, <1>2
  <1>4. \A i \in DOMAIN new : new[i].apps = {} /\ new[i].package = list[i].package
    BY <1>3
  <1>5. licenses' = old \o new
    BY DEF StartImport
  <1>6. ListedIn(list) \in Ids
    BY <1>1 DEF ListedIn, Ids, ListEntries
  <1>7. /\ Requested(requests') /\ BagToSet(requests) \subseteq BagToSet(requests')
        /\ \A id \in ListedIn(list) : id \in UNION BagToSet(requests')
    BY <1>6, Asking DEF StartImport
  <1>8. \A i \in DOMAIN new : new[i].package \in UNION BagToSet(requests')
    BY <1>3, <1>4, <1>7 DEF ListedIn
  <1> HIDE DEF new
  <1>9. /\ licenses' \in Seq(Entries)
        /\ \A i \in DOMAIN old : i \in DOMAIN licenses' /\ licenses'[i] = old[i]
        /\ \A i \in DOMAIN licenses' \ DOMAIN old :
              i - Len(old) \in DOMAIN new /\ licenses'[i] = new[i - Len(old)]
    BY <1>3, <1>5, Joined
  <1>10. packagesToParse' \in Int /\ appsToParse' \in Int /\ ready' \in BOOLEAN
    BY <1>1 DEF StartImport, UpdateReady
  <1> QED
    BY <1>4, <1>7, <1>8, <1>9, <1>10

LEMMA LicenseListType ==
    ASSUME TypeOK, NEW list \in LicenseLists, LicenseList(list)
    PROVE  TypeOK'
  <1> USE DEF status, adding, storage, galaxy, session, counters, map
  <1>1. list \in Seq(ListEntries) /\ Requested(requests)
    BY AppsAssumption DEF TypeOK, Requested, ListEntries, Ids
  <1>2. PICK old \in Seq(Entries), rest \in Seq(ListEntries) : StartImport(old, rest)
    <2>1. <<>> \in Seq(Entries) /\ licenses \in Seq(Entries)
      BY DEF TypeOK
    <2>2. \A rest \in Filtered(list, Unresolved(list)) : rest \in Seq(ListEntries)
      <3>1. Unresolved(list) \in SUBSET DOMAIN list
        BY DEF Unresolved
      <3> QED
        BY <1>1, <3>1, FilteredType
    <2> QED
      BY <1>1, <2>1, <2>2 DEF LicenseList
  <1>3. /\ licenses' \in Seq(Entries) /\ Requested(requests')
        /\ packagesToParse' \in Int /\ appsToParse' \in Int /\ ready' \in BOOLEAN
    BY <1>1, <1>2, ImportStarts
  <1>4. apps' \subseteq Apps
    BY DEF LicenseList, TypeOK
  <1>5. walk' \in [Kinds -> Walks]
    <2>1. walk \in [Kinds -> Walks] /\ licenses \in Seq(Entries)
      BY DEF TypeOK, Walks
    <2>2. CASE Detach
      <3>1. \A kind \in Kinds : [walk[kind] EXCEPT !.detached = TRUE, !.list = licenses] \in Walks
        BY <2>1 DEF Walks
      <3> QED
        BY <2>1, <2>2, <3>1 DEF Detach
    <2> QED
      BY <2>1, <2>2 DEF LicenseList
  <1>6. lists' \in 0 .. MaxLists
    BY BoundAssumption DEF LicenseList, TypeOK
  <1>7. loaded' \in Caches /\ listed' \subseteq Packages
    <2>1. NoCache \in Caches
      <3>1. <<>> \in Seq(Entries)
        OBVIOUS
      <3> QED
        BY <3>1 DEF NoCache, Caches
    <2>2. ListedIn(list) \subseteq Packages
      <3>1. \A i \in DOMAIN list : list[i] \in ListEntries
        BY <1>1
      <3> QED
        BY <3>1 DEF ListedIn, ListEntries
    <2> QED
      BY <2>1, <2>2 DEF LicenseList, TypeOK
  <1> QED
    BY <1>3, <1>4, <1>5, <1>6, <1>7 DEF LicenseList, TypeOK, Requested, Walks, Ids

LEMMA SteamTypes ==
    ASSUME TypeOK, SteamStep
    PROVE  TypeOK'
  <1> USE DEF status, adding, storage, galaxy, session, counters, map
  <1>1. Requested(requests) /\ thread \in Threads
    BY DEF TypeOK, Requested, Ids, Threads
  <1>2. ASSUME NEW a \in Apps, Play(a)
        PROVE  TypeOK'
    <2>1. {a} \in Ids
      BY DEF Ids
    <2>2. Requested(requests')
      BY <1>1, <1>2, <2>1, Asking DEF Play
    <2>3. plays' \in 0 .. MaxPlays
      BY <1>2, BoundAssumption DEF Play, TypeOK
    <2> QED
      BY <1>2, <2>2, <2>3 DEF Play, TypeOK, Requested, Ids
  <1>3. ASSUME NEW request \in BagToSet(requests), NEW ids \in SUBSET request,
               ProductInfo(request, ids)
        PROVE  TypeOK'
    <2> DEFINE others == requests (-) SetToBag({request})
    <2>1. request \in Ids /\ ids \in Ids /\ request \ ids \in Ids
      BY <1>1 DEF Requested, Ids
    <2>2. Requested(others)
      BY <1>1, BagRemoval DEF Requested
    <2>3. requests' = others \/ requests' = others (+) SetToBag({request \ ids})
      BY <1>3 DEF ProductInfo
    <2> HIDE DEF others
    <2>4. Requested(requests')
      <3>1. CASE requests' = others
        BY <2>2, <3>1
      <3>2. CASE requests' = others (+) SetToBag({request \ ids})
        <4>1. IsABag(requests') /\ BagToSet(requests') = BagToSet(others) \cup {request \ ids}
          BY <2>2, <3>2, BagAddition DEF Requested
        <4> QED
          BY <2>1, <2>2, <4>1 DEF Requested
      <3> QED
        BY <2>3, <3>1, <3>2
    <2>5. thread' \in Threads
      BY <1>3, <2>1 DEF ProductInfo, Threads, Idle
    <2> QED
      BY <1>3, <2>4, <2>5 DEF ProductInfo, TypeOK, Requested, Ids, Threads
  <1> QED
    BY <1>2, <1>3, LicenseListType DEF SteamStep, SteamAnswers

LEMMA EntryType ==
    ASSUME NEW l \in Entries, NEW found \in SUBSET Apps
    PROVE  [l EXCEPT !.apps = found] \in Entries /\ l.apps \in SUBSET Apps
  BY DEF Entries

LEMMA WalkType ==
    ASSUME NEW w \in Walks, NEW at \in Nat, NEW found \in SUBSET Games
    PROVE  /\ [w EXCEPT !.at = at] \in Walks
           /\ [w EXCEPT !.at = at, !.found = found] \in Walks
  BY DEF Walks

LEMMA NoWalkType == NoWalk \in Walks
  BY DEF NoWalk, Walks

LEMMA CountOffType == ASSUME TypeOK, NEW a PROVE CountOff(a) \in Nat
  BY CountedPlaces DEF CountOff, TypeOK

LEMMA ThreadTypes ==
    ASSUME TypeOK, ThreadStep \/ Finish
    PROVE  TypeOK'
  <1> USE DEF status, adding, storage, galaxy, session, counters, map
  <1>1. thread \in Threads
    BY DEF TypeOK, Ids, Threads
  <1>2. ASSUME NEW p \in Packages, CountPackage(p)
        PROVE  TypeOK'
    <2>1. thread' \in Threads
      BY <1>1, <1>2, AppsAssumption DEF CountPackage, Threads, Ids
    <2>2. packagesToParse' \in Int /\ ready' \in BOOLEAN
      BY <1>2 DEF CountPackage, TypeOK, UpdateReady
    <2> QED
      BY <1>2, <2>1, <2>2 DEF CountPackage, TypeOK, Threads, Ids
  <1>3. ASSUME NEW a \in Apps, ListApp(a)
        PROVE  TypeOK'
    <2>1. thread' \in Threads
      BY <1>1, <1>3 DEF ListApp, Threads
    <2>2. licenses' \in Seq(Entries)
      <3>1. licenses \in Seq(Entries)
        BY DEF TypeOK
      <3>2. \A i \in DOMAIN licenses :
               (IF licenses[i].package \in thread.package
                THEN [licenses[i] EXCEPT !.apps = @ \cup {a}] ELSE licenses[i]) \in Entries
        <4> SUFFICES ASSUME NEW i \in DOMAIN licenses
                     PROVE  [licenses[i] EXCEPT !.apps = @ \cup {a}] \in Entries
          BY <3>1
        <4>1. licenses[i] \in Entries
          BY <3>1
        <4>2. licenses[i].apps \cup {a} \in SUBSET Apps
          BY <4>1, EntryType
        <4> QED
          BY <4>1, <4>2, EntryType
      <3>3. DOMAIN licenses = 1 .. Len(licenses) /\ Len(licenses) \in Nat
        BY <3>1
      <3> QED
        BY <1>3, <3>2, <3>3 DEF ListApp
    <2>3. appsToParse' \in Int
      BY <1>3 DEF ListApp, TypeOK
    <2> QED
      BY <1>3, <2>1, <2>2, <2>3 DEF ListApp, TypeOK, Threads, Ids
  <1>4. ASSUME NEW a \in Apps, TitleApp(a)
        PROVE  TypeOK'
    <2>1. thread' \in Threads
      BY <1>1, <1>4 DEF TitleApp, Threads, Ids
    <2>2. appsToParse' \in Int /\ ready' \in BOOLEAN
      BY <1>4, CountOffType DEF TitleApp, TypeOK, UpdateReady
    <2>3. apps' \subseteq Apps /\ added' \subseteq Apps
      BY <1>4 DEF TitleApp, Added, TypeOK
    <2> QED
      BY <1>4, <2>1, <2>2, <2>3 DEF TitleApp, TypeOK, Threads, Ids
  <1>5. CASE Finish
    <2>1. thread.found \in Ids /\ Requested(requests)
      BY <1>1 DEF TypeOK, Requested, Ids, Threads
    <2>2. Requested(requests')
      BY <1>5, <2>1, Asking DEF Finish
    <2>3. thread' \in Threads
      BY <1>5 DEF Finish, Threads, Idle, Ids
    <2> QED
      BY <1>5, <2>2, <2>3 DEF Finish, TypeOK, Requested, Threads, Ids
  <1> QED
    BY <1>2, <1>3, <1>4, <1>5 DEF ThreadStep

LEMMA WalkTypes ==
    ASSUME TypeOK, WalkStep
    PROVE  TypeOK'
  <1> USE DEF status, adding, storage, galaxy, session, counters, map
  <1>1. walk \in [Kinds -> Walks] /\ Games \subseteq Apps
    BY AppsAssumption DEF TypeOK, Walks
  <1>2. ASSUME UNCHANGED <<map, status, added, told, imported, session, requests, thread, lists,
                           plays, restarts>>,
               walk' \in [Kinds -> Walks], sent' \subseteq Apps, lever' \in BOOLEAN,
               parsed' \in BOOLEAN, stored' = stored, walks' \in 0 .. MaxWalks,
               dump' \in Dumps, unsaid' \subseteq Games
        PROVE  TypeOK'
    BY <1>2 DEF TypeOK, Walks, Dumps
  <1>3. ASSUME NEW kind \in Kinds, StartWalk(kind)
        PROVE  TypeOK'
    <2>1. walk' \in [Kinds -> Walks]
      <3>1. [NoWalk EXCEPT !.at = 1] \in Walks
        BY NoWalkType, WalkType
      <3> QED
        BY <1>1, <1>3, <3>1 DEF StartWalk
    <2>2. walks' \in 0 .. MaxWalks
      BY <1>3, BoundAssumption DEF StartWalk, TypeOK, Dumps
    <2> QED
      BY <1>2, <1>3, <2>1, <2>2 DEF StartWalk, TypeOK, Dumps
  <1>4. ASSUME NEW kind \in Kinds, WalkOn(kind)
        PROVE  TypeOK'
    <2>1. PICK games \in SUBSET Games :
             /\ sent' = sent \cup games
             /\ walk' = [walk EXCEPT ![kind].at = @ + 1, ![kind].found = @ \cup games]
      BY <1>4 DEF WalkOn
    <2>2. [walk[kind] EXCEPT !.at = @ + 1, !.found = @ \cup games] \in Walks
      <3>1. /\ walk[kind] \in Walks /\ walk[kind].at + 1 \in Nat
            /\ walk[kind].found \cup games \in SUBSET Games
        BY <1>1 DEF Walks
      <3> QED
        BY <3>1, WalkType
    <2>3. walk' = [walk EXCEPT ![kind] = [walk[kind] EXCEPT !.at = @ + 1, !.found = @ \cup games]]
      BY <1>1, <2>1 DEF Walks
    <2>4. walk' \in [Kinds -> Walks]
      BY <1>1, <2>2, <2>3
    <2> QED
      BY <1>1, <1>2, <1>4, <2>1, <2>4 DEF WalkOn, TypeOK, Dumps, Unsaid
  <1>5. ASSUME NEW kind \in Kinds, NEW games \in SUBSET Games, WalkBreaks(kind, games)
        PROVE  TypeOK'
    <2>1. walk' \in [Kinds -> Walks]
      BY <1>1, <1>5, NoWalkType DEF WalkBreaks
    <2> QED
      BY <1>1, <1>2, <1>5, <2>1 DEF WalkBreaks, TypeOK, Dumps, Unsaid, Walks
  <1>6. CASE OwnedWalked
    <2>1. walk' \in [Kinds -> Walks]
      BY <1>1, <1>6, NoWalkType DEF OwnedWalked
    <2>2. dump' \in Dumps
      <3>1. walk["owned"].found \subseteq Games
        BY <1>1 DEF Kinds, Walks
      <3>2. <<>> \in Seq(Entries)
        OBVIOUS
      <3> QED
        BY <1>6, <3>1, <3>2 DEF OwnedWalked, StartDump, Dumps
    <2>3. /\ UNCHANGED <<sent, unsaid, lever, walks>> /\ parsed' = TRUE
      BY <1>6 DEF OwnedWalked
    <2> QED
      BY <1>2, <1>6, <2>1, <2>2, <2>3 DEF OwnedWalked, TypeOK
  <1>7. CASE SharedWalked
    <2>1. walk' \in [Kinds -> Walks]
      BY <1>1, <1>7, NoWalkType DEF SharedWalked
    <2> QED
      BY <1>2, <1>7, <2>1 DEF SharedWalked, TypeOK, Dumps
  <1>8. ASSUME NEW g \in Games, SharedFound(g)
        PROVE  TypeOK'
    <2>1. walk' \in [Kinds -> Walks]
      BY <1>1, <1>8, NoWalkType DEF SharedFound
    <2> QED
      BY <1>1, <1>2, <1>8, <2>1 DEF SharedFound, TypeOK, Dumps, Unsaid
  <1> QED
    BY <1>3, <1>4, <1>5, <1>6, <1>7, <1>8 DEF WalkStep

LEMMA DumpTypes ==
    ASSUME TypeOK, DumpStep
    PROVE  TypeOK'
  <1> USE DEF status, adding, storage, galaxy, session, counters, map
  <1>1. dump \in Dumps /\ licenses \in Seq(Entries) /\ <<>> \in Seq(Entries)
    BY DEF TypeOK, Dumps
  <1>2. NoDump \in Dumps
    BY <1>1 DEF NoDump, Dumps
  <1>3. CASE DumpOn
    <2>1. Len(dump.licenses) + 1 \in DOMAIN licenses
      <3>1. Len(dump.licenses) \in Nat /\ DOMAIN licenses = 1 .. Len(licenses) /\ Len(licenses) \in Nat
        BY <1>1 DEF Dumps
      <3> QED
        BY <1>3, <3>1 DEF DumpOn
    <2>2. Append(dump.licenses, licenses[Len(dump.licenses) + 1]) \in Seq(Entries)
      BY <1>1, <2>1 DEF Dumps
    <2>3. dump' \in Dumps
      <3> DEFINE more == Append(dump.licenses, licenses[Len(dump.licenses) + 1])
      <3>1. dump' = [dump EXCEPT !.licenses = more]
        BY <1>3 DEF DumpOn
      <3> HIDE DEF more
      <3>2. more \in Seq(Entries)
        BY <2>2 DEF more
      <3> QED
        BY <1>1, <3>1, <3>2 DEF Dumps
    <2> QED
      BY <1>3, <2>3 DEF DumpOn, TypeOK, Dumps
  <1>4. CASE DumpEnds
    <2>1. stored' \in Caches
      BY <1>1, <1>4 DEF DumpEnds, Caches, TypeOK, Dumps
    <2>2. told' \subseteq Games /\ imported' \in BOOLEAN
      BY <1>1, <1>4 DEF DumpEnds, TypeOK, Dumps
    <2> QED
      BY <1>2, <1>4, <2>1, <2>2 DEF DumpEnds, TypeOK, Dumps
  <1>5. CASE DumpBreaks
    <2>1. unsaid' \subseteq Games
      BY <1>1, <1>5 DEF DumpBreaks, Unsaid, TypeOK, Dumps
    <2> QED
      BY <1>2, <1>5, <2>1 DEF DumpBreaks, TypeOK, Dumps
  <1> QED
    BY <1>3, <1>4, <1>5 DEF DumpStep

LEMMA TypeStep == TypeOK /\ [Next]_vars => TypeOK'
  <1> SUFFICES ASSUME TypeOK, [Next]_vars
               PROVE  TypeOK'
    OBVIOUS
  <1> USE DEF status, adding, storage, galaxy, session, counters, map
  <1>1. CASE AddGames
    <2>1. dump' \in Dumps
      <3>1. <<>> \in Seq(Entries)
        OBVIOUS
      <3>2. dump' = dump \/ StartDump("tick", added \cap Games)
        BY <1>1 DEF AddGames
      <3>3. dump \in Dumps
        BY DEF TypeOK, Dumps
      <3>4. [by |-> "tick", games |-> added \cap Games, licenses |-> <<>>] \in Dumps
        BY <3>1 DEF Dumps
      <3> QED
        BY <3>2, <3>3, <3>4 DEF StartDump
    <2> QED
      BY <1>1, <2>1 DEF AddGames, Dumps, TypeOK
  <1>2. CASE Restart
    <2>1. walk' \in [Kinds -> Walks]
      BY <1>2, NoWalkType DEF Restart
    <2>2. thread' \in Threads
      BY <1>2 DEF Restart, Threads, Idle, Ids
    <2>3. IsABag(requests') /\ BagToSet(requests') \subseteq Ids
      BY <1>2 DEF Restart, EmptyBag, SetToBag, IsABag, BagToSet
    <2>4. restarts' \in 0 .. MaxRestarts /\ lists' \in 0 .. MaxLists /\ plays' \in 0 .. MaxPlays
          /\ walks' \in 0 .. MaxWalks
      BY <1>2, BoundAssumption DEF Restart, TypeOK
    <2>5. licenses' \in Seq(Entries) /\ apps' \subseteq Apps /\ UNCHANGED stored
      BY <1>2 DEF Restart, TypeOK, Caches
    <2>6. packagesToParse' \in Int /\ appsToParse' \in Int
      BY <1>2 DEF Restart
    <2>7. /\ ready' \in BOOLEAN /\ lever' \in BOOLEAN /\ parsed' \in BOOLEAN
          /\ imported' \in BOOLEAN
      BY <1>2 DEF Restart
    <2>8. sent' \subseteq Apps /\ added' \subseteq Apps /\ told' \subseteq Games
      BY <1>2 DEF Restart
    <2>9. dump' \in Dumps /\ loaded' \in Caches /\ listed' \subseteq Packages
          /\ unsaid' \subseteq Games
      <3>1. <<>> \in Seq(Entries)
        OBVIOUS
      <3> QED
        BY <1>2, <3>1 DEF Restart, NoDump, Dumps, TypeOK
    <2> QED
      BY <2>1, <2>2, <2>3, <2>4, <2>5, <2>6, <2>7, <2>8, <2>9 DEF TypeOK, Walks, Threads, Dumps, Ids
  <1>3. CASE UNCHANGED vars
    BY <1>3 DEF vars, TypeOK
  <1> QED
    BY <1>1, <1>2, <1>3, SteamTypes, ThreadTypes, WalkTypes, DumpTypes DEF Next

(* Every reachable state has the types GamesImport declares; only games    *)
(* are told to Galaxy (games_cache.py 82-90).                              *)
THEOREM TypeCorrect == Spec => []TypeOK
  <1>1. Init => TypeOK
    <2> SUFFICES ASSUME Init
                 PROVE  TypeOK
      OBVIOUS
    <2>1. walk \in [Kinds -> Walks] /\ thread \in Threads
      BY NoWalkType DEF Init, Threads, Idle, Ids
    <2>2. IsABag(requests) /\ BagToSet(requests) \subseteq Ids
      BY DEF Init, EmptyBag, SetToBag, IsABag, BagToSet
    <2>3. lists \in 0 .. MaxLists /\ plays \in 0 .. MaxPlays /\ walks \in 0 .. MaxWalks
          /\ restarts \in 0 .. MaxRestarts
      BY BoundAssumption DEF Init
    <2>4. licenses \in Seq(Entries) /\ apps \subseteq Apps
      BY DEF Init
    <2>5. /\ stored \in Caches /\ loaded \in Caches /\ listed \subseteq Packages
          /\ dump \in Dumps /\ unsaid \subseteq Games
      <3>1. <<>> \in Seq(Entries)
        OBVIOUS
      <3> QED
        BY <3>1 DEF Init, NoCache, NoDump, Caches, Dumps
    <2>6. packagesToParse \in Int /\ appsToParse \in Int
      BY DEF Init
    <2>7. /\ ready \in BOOLEAN /\ lever \in BOOLEAN /\ parsed \in BOOLEAN
          /\ imported \in BOOLEAN
      BY DEF Init
    <2>8. sent \subseteq Apps /\ added \subseteq Apps /\ told \subseteq Games
      BY DEF Init
    <2> QED
      BY <2>1, <2>2, <2>3, <2>4, <2>5, <2>6, <2>7, <2>8 DEF TypeOK, Walks, Threads, Dumps, Ids
  <1> QED
    BY <1>1, TypeStep, PTL DEF Spec

--------------------------------------------------------------------------------
(* What the cache was taken up with and may keep as it is; every other     *)
(* licence is remembered.                                                  *)
Excuses == { p \in Packages : TakenUpHalf(p) \/ LetGo(p) }

Remembered ==
    \A i \in DOMAIN licenses : licenses[i].package \notin Excuses =>
        /\ \/ Asked(licenses[i].package)
           \/ \A a \in AppsOf[licenses[i].package] : Listed(licenses[i], a)
        /\ \A a \in licenses[i].apps : a \in apps \/ Coming(a)

LEMMA SameExcuses == ASSUME UNCHANGED <<loaded, listed>> PROVE Excuses' = Excuses
  BY DEF Excuses, TakenUpHalf, LetGo, ResolvedIn, Whole, ListedIn

(* A thread without a message holds nothing.                               *)
IdleThread == ~thread.busy => thread.ids = {} /\ thread.toList = {} /\ thread.found = {}

(* What the steps leave alone.                                             *)
LEMMA CacheSteps ==
    ASSUME SteamStep \/ ThreadStep \/ Finish
    PROVE  /\ UNCHANGED <<stored, dump, restarts>>
           /\ \/ UNCHANGED <<lists, loaded, listed>>
              \/ \E list \in LicenseLists : LicenseList(list)
  <1> USE DEF storage, session, counters
  <1>1. ASSUME NEW list \in LicenseLists, LicenseList(list)
        PROVE  UNCHANGED <<stored, dump, restarts>>
    BY <1>1 DEF LicenseList
  <1>2. ASSUME NEW a \in Apps, Play(a)
        PROVE  UNCHANGED <<stored, dump, restarts, lists, loaded, listed>>
    BY <1>2 DEF Play
  <1>3. ASSUME NEW request, NEW ids, ProductInfo(request, ids)
        PROVE  UNCHANGED <<stored, dump, restarts, lists, loaded, listed>>
    BY <1>3 DEF ProductInfo
  <1>4. ASSUME NEW p \in Packages, CountPackage(p)
        PROVE  UNCHANGED <<stored, dump, restarts, lists, loaded, listed>>
    BY <1>4 DEF CountPackage
  <1>5. ASSUME NEW a \in Apps, ListApp(a)
        PROVE  UNCHANGED <<stored, dump, restarts, lists, loaded, listed>>
    BY <1>5 DEF ListApp
  <1>6. ASSUME NEW a \in Apps, TitleApp(a)
        PROVE  UNCHANGED <<stored, dump, restarts, lists, loaded, listed>>
    BY <1>6 DEF TitleApp
  <1>7. CASE Finish
    BY <1>7 DEF Finish
  <1>8. CASE SteamStep
    BY <1>1, <1>2, <1>3, <1>8 DEF SteamStep, SteamAnswers
  <1>9. CASE ThreadStep
    BY <1>4, <1>5, <1>6, <1>9 DEF ThreadStep
  <1> QED
    BY <1>7, <1>8, <1>9

LEMMA WalkSteps ==
    ASSUME WalkStep \/ AddGames
    PROVE  /\ UNCHANGED <<licenses, apps, requests, thread, lists, restarts, loaded, listed, stored>>
           /\ UNCHANGED dump \/ dump'.licenses = <<>>
  <1> USE DEF map, storage, galaxy, session, counters, StartDump
  <1> DEFINE Leaves == UNCHANGED <<licenses, apps, requests, thread, lists, restarts, loaded,
                                   listed, stored>>
  <1>1. ASSUME NEW kind \in Kinds, StartWalk(kind)
        PROVE  Leaves /\ UNCHANGED dump
    BY <1>1 DEF StartWalk
  <1>2. ASSUME NEW kind \in Kinds, WalkOn(kind)
        PROVE  Leaves /\ UNCHANGED dump
    BY <1>2 DEF WalkOn
  <1>3. ASSUME NEW kind \in Kinds, NEW games, WalkBreaks(kind, games)
        PROVE  Leaves /\ UNCHANGED dump
    BY <1>3 DEF WalkBreaks
  <1>4. ASSUME NEW g \in Games, SharedFound(g)
        PROVE  Leaves /\ UNCHANGED dump
    BY <1>4 DEF SharedFound
  <1>5. ASSUME OwnedWalked
        PROVE  Leaves /\ dump'.licenses = <<>>
    BY <1>5 DEF OwnedWalked
  <1>6. ASSUME SharedWalked
        PROVE  Leaves /\ UNCHANGED dump
    BY <1>6 DEF SharedWalked
  <1>7. ASSUME AddGames
        PROVE  Leaves /\ (UNCHANGED dump \/ dump'.licenses = <<>>)
    BY <1>7 DEF AddGames
  <1> HIDE DEF Leaves
  <1>8. Leaves /\ (UNCHANGED dump \/ dump'.licenses = <<>>)
    BY <1>1, <1>2, <1>3, <1>4, <1>5, <1>6, <1>7 DEF WalkStep
  <1> QED
    BY <1>8 DEF Leaves

LEMMA DumpSteps ==
    ASSUME DumpStep
    PROVE  /\ UNCHANGED <<licenses, apps, requests, thread, lists, restarts, loaded, listed>>
           /\ UNCHANGED <<lever, sent, added, parsed, walk>>
  <1> USE DEF map, adding, galaxy, session, counters
  <1>1. CASE DumpOn
    BY <1>1 DEF DumpOn
  <1>2. CASE DumpEnds
    BY <1>2 DEF DumpEnds
  <1>3. CASE DumpBreaks
    BY <1>3 DEF DumpBreaks
  <1> QED
    BY <1>1, <1>2, <1>3 DEF DumpStep

LEMMA IdleStep == TypeOK /\ IdleThread /\ [Next]_vars => IdleThread'
  <1> SUFFICES ASSUME TypeOK, IdleThread, [Next]_vars
               PROVE  IdleThread'
    OBVIOUS
  <1> USE DEF IdleThread, map, status, adding, storage, galaxy, session, counters
  <1>1. thread \in Threads
    BY DEF TypeOK, Threads, Ids
  <1>2. CASE UNCHANGED thread
    BY <1>2
  <1>3. CASE SteamAnswers
    BY <1>3 DEF SteamAnswers, ProductInfo, Idle
  <1>4. CASE ThreadStep
    <2>1. ASSUME NEW a \in Apps, ListApp(a) PROVE IdleThread'
      BY <1>1, <2>1 DEF ListApp, Threads
    <2>2. ASSUME NEW a \in Apps, TitleApp(a) PROVE IdleThread'
      BY <1>1, <2>2 DEF TitleApp, Threads
    <2>3. ASSUME NEW p \in Packages, CountPackage(p) PROVE IdleThread'
      BY <1>1, <2>3 DEF CountPackage, Threads
    <2> QED
      BY <1>4, <2>1, <2>2, <2>3 DEF ThreadStep
  <1>5. CASE Restart
    BY <1>5 DEF Restart, Idle
  <1>6. CASE \E list \in LicenseLists : LicenseList(list)
    BY <1>2, <1>6 DEF LicenseList
  <1>7. CASE \E a \in Apps : Play(a)
    BY <1>2, <1>7 DEF Play
  <1>8. CASE WalkStep \/ AddGames \/ DumpStep
    BY <1>2, <1>8, WalkSteps, DumpSteps
  <1>9. CASE UNCHANGED vars
    BY <1>2, <1>9 DEF vars
  <1>10. CASE Finish
    BY <1>10 DEF Finish, Idle
  <1> QED
    BY <1>3, <1>4, <1>5, <1>6, <1>7, <1>8, <1>9, <1>10 DEF Next, SteamStep

LEMMA LicenceFields ==
    ASSUME TypeOK
    PROVE  \A i \in DOMAIN licenses :
              licenses[i].package \in Packages /\ licenses[i].apps \subseteq Apps
  <1>1. \A i \in DOMAIN licenses : licenses[i] \in Entries
    BY DEF TypeOK
  <1> QED
    BY <1>1 DEF Entries

(* A step that keeps the licences, and of whatever is asked for or at the  *)
(* thread lets nothing fall.                                               *)
LEMMA StillRemembered ==
    ASSUME Remembered, UNCHANGED <<licenses, loaded, listed>>, apps \subseteq apps',
           \A id \in Packages \cup Apps : Asked(id) => Asked(id)',
           \A a \in thread.found \cup thread.toList :
               Asked(a)' \/ a \in thread'.found \cup thread'.toList,
           thread.toList # {} =>
               thread.package \subseteq thread'.package /\ thread.toList \subseteq thread'.toList,
           TypeOK
    PROVE  Remembered'
  <1> SUFFICES ASSUME NEW i \in DOMAIN licenses, licenses[i].package \notin Excuses
               PROVE  /\ \/ Asked(licenses[i].package)'
                         \/ \A a \in AppsOf[licenses[i].package] : Listed(licenses[i], a)'
                      /\ \A a \in licenses[i].apps : a \in apps' \/ Coming(a)'
    BY SameExcuses DEF Remembered
  <1>1. licenses[i].package \in Packages /\ licenses[i].apps \subseteq Apps
    BY LicenceFields
  <1>2. \A a \in AppsOf[licenses[i].package] : Listed(licenses[i], a) => Listed(licenses[i], a)'
    BY DEF Listed
  <1>3. \A a \in licenses[i].apps : Coming(a) => Coming(a)'
    BY <1>1 DEF Coming
  <1> QED
    BY <1>1, <1>2, <1>3 DEF Remembered

LEMMA RequestMoves ==
    ASSUME TypeOK, IdleThread, NEW request \in BagToSet(requests), NEW ids \in SUBSET request,
           ProductInfo(request, ids)
    PROVE  \A id : Asked(id) => Asked(id)'
  <1> DEFINE others == requests (-) SetToBag({request})
  <1>1. IsABag(requests) /\ thread.ids = {}
    BY DEF TypeOK, IdleThread, ProductInfo
  <1>2. IsABag(others) /\ BagToSet(requests) \subseteq BagToSet(others) \cup {request}
    BY <1>1, BagRemoval
  <1>3. thread'.ids = ids
    BY DEF ProductInfo, Idle
  <1>4. /\ ids = request => requests' = others
        /\ ids # request => requests' = others (+) SetToBag({request \ ids})
    BY DEF ProductInfo
  <1> HIDE DEF others
  <1>5. \A r \in BagToSet(others) : r \in BagToSet(requests')
    BY <1>2, <1>4, BagAddition
  <1>6. ids # request => (request \ ids) \in BagToSet(requests')
    BY <1>2, <1>4, BagAddition
  <1> SUFFICES ASSUME NEW id, Asked(id)
               PROVE  Asked(id)'
    OBVIOUS
  <1>7. PICK r \in BagToSet(requests) : id \in r
    BY <1>1 DEF Asked
  <1>8. CASE r \in BagToSet(others)
    BY <1>5, <1>7, <1>8 DEF Asked
  <1>9. CASE r = request
    <2>1. CASE id \in ids
      BY <1>3, <2>1 DEF Asked
    <2>2. CASE id \notin ids
      BY <1>6, <1>7, <1>9, <2>2 DEF Asked
    <2> QED
      BY <2>1, <2>2
  <1> QED
    BY <1>2, <1>7, <1>8, <1>9

(* A package is answered: its applications are what the thread lists next. *)
LEMMA PackageRemembered ==
    ASSUME TypeOK, Remembered, NEW p \in Packages, CountPackage(p)
    PROVE  Remembered'
  <1> USE DEF map, storage, galaxy, session, counters
  <1>1. /\ thread.toList = {} /\ UNCHANGED <<licenses, apps, requests>>
        /\ thread'.ids = thread.ids \ {p} /\ thread'.package = {p}
        /\ thread'.toList = AppsOf[p] /\ thread'.found = thread.found
    <2>1. thread \in Threads
      BY DEF TypeOK, Threads, Ids
    <2> QED
      BY <2>1 DEF CountPackage, Threads
  <1>2. \A id : Asked(id) /\ id # p => Asked(id)'
    BY <1>1 DEF Asked
  <1>3. \A a \in Apps : a # p
    BY AppsAssumption
  <1> SUFFICES ASSUME NEW i \in DOMAIN licenses, licenses[i].package \notin Excuses
               PROVE  /\ \/ Asked(licenses[i].package)'
                         \/ \A a \in AppsOf[licenses[i].package] : Listed(licenses[i], a)'
                      /\ \A a \in licenses[i].apps : a \in apps \/ Coming(a)'
    <2>1. Excuses' = Excuses
      BY SameExcuses DEF CountPackage
    <2> QED
      BY <1>1, <2>1 DEF Remembered
  <1>4. licenses[i].package \in Packages /\ licenses[i].apps \subseteq Apps
    BY LicenceFields
  <1>5. \A a : Listed(licenses[i], a) => Listed(licenses[i], a)'
    BY <1>1 DEF Listed
  <1>6. licenses[i].package = p => \A a \in AppsOf[p] : Listed(licenses[i], a)'
    BY <1>1 DEF Listed
  <1>7. \A a \in Apps : Coming(a) => Coming(a)'
    BY <1>1, <1>2, <1>3 DEF Coming
  <1>8. \/ Asked(licenses[i].package)
        \/ \A a \in AppsOf[licenses[i].package] : Listed(licenses[i], a)
    BY DEF Remembered
  <1>9. \A a \in licenses[i].apps : a \in apps \/ Coming(a)
    BY DEF Remembered
  <1>10. CASE licenses[i].package = p
    <2>1. \A a \in AppsOf[licenses[i].package] : Listed(licenses[i], a)'
      BY <1>6, <1>10
    <2> QED
      BY <1>4, <1>7, <1>9, <2>1
  <1>11. CASE licenses[i].package # p
    <2>1. \/ Asked(licenses[i].package)'
          \/ \A a \in AppsOf[licenses[i].package] : Listed(licenses[i], a)'
      BY <1>1, <1>2, <1>5, <1>8, <1>11 DEF Asked
    <2> QED
      BY <1>4, <1>7, <1>9, <2>1
  <1> QED
    BY <1>10, <1>11

(* An application is listed in every licence of the thread's package.      *)
LEMMA ListRemembered ==
    ASSUME TypeOK, Remembered, NEW b \in Apps, ListApp(b)
    PROVE  Remembered'
  <1> USE DEF adding, storage, galaxy, session, counters
  <1>1. /\ b \in thread.toList /\ UNCHANGED <<apps, requests>>
        /\ thread'.ids = thread.ids /\ thread'.package = thread.package
        /\ thread'.toList = thread.toList \ {b} /\ thread'.found = thread.found \cup {b}
    <2>1. thread \in Threads
      BY DEF TypeOK, Threads, Ids
    <2> QED
      BY <2>1 DEF ListApp, Threads
  <1>2. /\ DOMAIN licenses' = DOMAIN licenses
        /\ \A i \in DOMAIN licenses :
              /\ licenses'[i].package = licenses[i].package
              /\ licenses'[i].shared = licenses[i].shared
              /\ licenses'[i].apps = IF licenses[i].package \in thread.package
                                     THEN licenses[i].apps \cup {b} ELSE licenses[i].apps
    <2>1. \A i \in DOMAIN licenses : licenses[i] \in Entries
      BY DEF TypeOK
    <2> QED
      BY <2>1 DEF ListApp, Entries
  <1>3. \A id : Asked(id) => Asked(id)'
    BY <1>1 DEF Asked
  <1>4. \A a \in Apps : Coming(a) => Coming(a)'
    BY <1>1, <1>3 DEF Coming
  <1>5. Coming(b)'
    BY <1>1 DEF Coming
  <1> SUFFICES ASSUME NEW i \in DOMAIN licenses, licenses[i].package \notin Excuses
               PROVE  /\ \/ Asked(licenses[i].package)'
                         \/ \A a \in AppsOf[licenses[i].package] : Listed(licenses[i], a)'
                      /\ \A a \in licenses'[i].apps : a \in apps \/ Coming(a)'
    <2>1. Excuses' = Excuses
      BY SameExcuses DEF ListApp
    <2> QED
      BY <1>1, <1>2, <2>1 DEF Remembered
  <1>6. licenses[i].package \in Packages /\ licenses[i].apps \subseteq Apps
    BY LicenceFields
  <1>7. ASSUME NEW a, Listed(licenses[i], a)
        PROVE  Listed(licenses[i], a)'
    <2>1. CASE a = b /\ licenses[i].package \in thread.package
      <3>1. a \in licenses'[i].apps
        BY <1>2, <2>1
      <3> QED
        BY <1>2, <3>1 DEF Listed
    <2>2. CASE licenses[i].package \in thread.package /\ a \in thread.toList \ {b}
      BY <1>1, <1>2, <2>2 DEF Listed
    <2>3. CASE \E j \in DOMAIN licenses :
                 /\ licenses[j].package = licenses[i].package
                 /\ licenses[j].shared = licenses[i].shared /\ a \in licenses[j].apps
      BY <1>2, <2>3 DEF Listed
    <2> QED
      BY <1>7, <2>1, <2>2, <2>3 DEF Listed
  <1>8. \A a \in licenses'[i].apps : a \in licenses[i].apps \/ a = b
    BY <1>2
  <1>9. \/ Asked(licenses[i].package)
        \/ \A a \in AppsOf[licenses[i].package] : Listed(licenses[i], a)
    BY DEF Remembered
  <1>10. \A a \in licenses[i].apps : a \in apps \/ Coming(a)
    BY DEF Remembered
  <1>11. \A a \in licenses'[i].apps : a \in apps \/ Coming(a)'
    BY <1>4, <1>5, <1>6, <1>8, <1>10
  <1>12. \/ Asked(licenses[i].package)'
         \/ \A a \in AppsOf[licenses[i].package] : Listed(licenses[i], a)'
    BY <1>1, <1>2, <1>3, <1>7, <1>9 DEF Asked
  <1> QED
    BY <1>11, <1>12

(* An application is known.                                                *)
LEMMA TitleRemembered ==
    ASSUME TypeOK, Remembered, NEW b \in Apps, TitleApp(b)
    PROVE  Remembered'
  <1> USE DEF adding, storage, galaxy, session, counters
  <1>1. /\ UNCHANGED <<licenses, requests>> /\ apps' = apps \cup {b}
        /\ thread'.ids = thread.ids \ {b} /\ thread'.package = thread.package
        /\ thread'.toList = thread.toList /\ thread'.found = thread.found
    <2>1. thread \in Threads
      BY DEF TypeOK, Threads, Ids
    <2> QED
      BY <2>1 DEF TitleApp, Threads
  <1>2. \A id : Asked(id) /\ id # b => Asked(id)'
    BY <1>1 DEF Asked
  <1>3. \A p \in Packages : p # b
    BY AppsAssumption
  <1>4. \A a : Coming(a) /\ a # b => Coming(a)'
    BY <1>1, <1>2, <1>3 DEF Coming
  <1>5. \A i \in DOMAIN licenses : \A a : Listed(licenses[i], a) => Listed(licenses[i], a)'
    BY <1>1 DEF Listed
  <1> SUFFICES ASSUME NEW i \in DOMAIN licenses, licenses[i].package \notin Excuses
               PROVE  /\ \/ Asked(licenses[i].package)'
                         \/ \A a \in AppsOf[licenses[i].package] : Listed(licenses[i], a)'
                      /\ \A a \in licenses[i].apps : a \in apps' \/ Coming(a)'
    <2>1. Excuses' = Excuses
      BY SameExcuses DEF TitleApp
    <2> QED
      BY <1>1, <2>1 DEF Remembered
  <1>6. licenses[i].package \in Packages
    BY LicenceFields
  <1> QED
    BY <1>1, <1>2, <1>3, <1>4, <1>5, <1>6 DEF Remembered

(* Steam's licences: what an import adds is asked for.                     *)
LEMMA LicensesRemembered ==
    ASSUME TypeOK, Remembered, lists # 0, NEW list \in LicenseLists, LicenseList(list)
    PROVE  Remembered'
  <1> USE DEF adding, storage, galaxy, session, counters, map
  <1>1. list \in Seq(ListEntries) /\ Requested(requests)
    BY AppsAssumption DEF TypeOK, Requested, ListEntries, Ids
  <1>2. PICK old \in {<<>>, licenses}, rest \in Seq(ListEntries) :
           StartImport(old, rest) /\ (old = <<>> \/ UNCHANGED <<apps, loaded, listed>>)
    <2>1. \A rest \in Filtered(list, Unresolved(list)) : rest \in Seq(ListEntries)
      <3>1. Unresolved(list) \in SUBSET DOMAIN list
        BY DEF Unresolved
      <3> QED
        BY <1>1, <3>1, FilteredType
    <2> QED
      BY <1>1, <2>1 DEF LicenseList
  <1>3. old \in Seq(Entries)
    <2>1. <<>> \in Seq(Entries) /\ licenses \in Seq(Entries)
      BY DEF TypeOK
    <2> QED
      BY <1>2, <2>1
  <1>4. /\ BagToSet(requests) \subseteq BagToSet(requests')
        /\ \A i \in DOMAIN old : i \in DOMAIN licenses' /\ licenses'[i] = old[i]
        /\ \A i \in DOMAIN licenses' \ DOMAIN old :
              licenses'[i].apps = {} /\ licenses'[i].package \in UNION BagToSet(requests')
    BY <1>1, <1>2, <1>3, ImportStarts
  <1>5. UNCHANGED thread
    BY DEF LicenseList
  <1>6. \A id : Asked(id) => Asked(id)'
    BY <1>4, <1>5 DEF Asked
  <1>7. \A a : Coming(a) => Coming(a)'
    BY <1>5, <1>6 DEF Coming
  <1> SUFFICES ASSUME NEW i \in DOMAIN licenses', licenses'[i].package \notin Excuses'
               PROVE  /\ \/ Asked(licenses[i].package)'
                         \/ \A a \in AppsOf[licenses'[i].package] : Listed(licenses[i], a)'
                      /\ \A a \in licenses'[i].apps : a \in apps' \/ Coming(a)'
    BY DEF Remembered
  <1>8. CASE i \in DOMAIN old
    <2>1. /\ old = licenses /\ UNCHANGED <<apps, loaded, listed>>
          /\ i \in DOMAIN licenses /\ licenses'[i] = licenses[i]
      BY <1>2, <1>4, <1>8
    <2>2. \A a : Listed(licenses[i], a) => Listed(licenses[i], a)'
      BY <1>4, <1>5, <2>1 DEF Listed
    <2>3. licenses[i].package \notin Excuses
      BY <2>1, SameExcuses
    <2> QED
      BY <1>6, <1>7, <2>1, <2>2, <2>3 DEF Remembered
  <1>9. CASE i \notin DOMAIN old
    BY <1>4, <1>9 DEF Asked
  <1> QED
    BY <1>8, <1>9

LEMMA RememberedStep ==
    ASSUME TypeOK, IdleThread, Remembered, lists # 0, [Next]_vars, ~Restart
    PROVE  Remembered'
  <1> USE DEF map, status, adding, storage, galaxy, session, counters
  <1>1. ASSUME UNCHANGED <<licenses, apps, requests, thread, loaded, listed>>
        PROVE  Remembered'
    BY <1>1, StillRemembered DEF Asked
  <1>2. CASE UNCHANGED vars
    BY <1>1, <1>2 DEF vars
  <1>3. CASE WalkStep \/ AddGames \/ DumpStep
    BY <1>1, <1>3, WalkSteps, DumpSteps
  <1>4. ASSUME NEW ids \in Ids, Ask(ids), UNCHANGED <<licenses, apps, loaded, listed>>,
               \/ thread' = thread
               \/ thread.ids = {} /\ thread.toList = {} /\ thread.found \subseteq ids
        PROVE  Remembered'
    <2>1. /\ BagToSet(requests) \subseteq BagToSet(requests')
          /\ \A id \in ids : id \in UNION BagToSet(requests')
      BY <1>4, Asking DEF TypeOK, Requested, Ids
    <2>2. \A id : Asked(id) => Asked(id)'
      BY <1>4, <2>1 DEF Asked
    <2>3. \A id \in ids : Asked(id)'
      BY <2>1 DEF Asked
    <2> QED
      BY <1>4, <2>2, <2>3, StillRemembered
  <1>5. ASSUME NEW a \in Apps, Play(a)
        PROVE  Remembered'
    BY <1>4, <1>5 DEF Play, Ids
  <1>6. CASE Finish
    BY <1>4, <1>6 DEF Finish, TypeOK, Ids
  <1>7. ASSUME NEW request \in BagToSet(requests), NEW ids \in SUBSET request,
               ProductInfo(request, ids)
        PROVE  Remembered'
    <2>1. /\ thread.toList = {} /\ thread.found = {}
          /\ UNCHANGED <<licenses, apps, loaded, listed>>
      BY <1>7 DEF ProductInfo, IdleThread
    <2> QED
      BY <1>7, <2>1, RequestMoves, StillRemembered
  <1>8. CASE SteamStep \/ ThreadStep
    BY <1>5, <1>7, <1>8, LicensesRemembered, PackageRemembered, ListRemembered,
       TitleRemembered DEF SteamStep, SteamAnswers, ThreadStep
  <1> QED
    BY <1>2, <1>3, <1>6, <1>8 DEF Next

--------------------------------------------------------------------------------
(* Before Steam's first list the cache is what it was taken up with, and   *)
(* nothing is asked for.                                                   *)
FreshSession ==
    lists = 0 => /\ licenses = loaded.licenses /\ apps = loaded.apps
                 /\ requests = EmptyBag /\ ~thread.busy

InPackage(list) == \A i \in DOMAIN list : list[i].apps \subseteq AppsOf[list[i].package]

(* An entry lists applications of its own package only.                    *)
Content ==
    /\ InPackage(licenses) /\ InPackage(stored.licenses) /\ InPackage(dump.licenses)
    /\ \A p \in thread.package : thread.toList \subseteq AppsOf[p]

(* The places of a filtered list are all the places.                       *)
LEMMA FilteredAll ==
    ASSUME NEW S, NEW s \in Seq(S), NEW places \in SUBSET DOMAIN s, NEW rest \in Filtered(s, places)
    PROVE  \A i \in places : \E n \in DOMAIN rest : rest[n] = s[i]
  <1> DEFINE c == Cardinality(places)
  <1>1. DOMAIN s = 1 .. Len(s) /\ Len(s) \in Nat /\ c \in Nat
    BY CountedPlaces
  <1>2. IsFiniteSet(places)
    <2>1. IsFiniteSet(1 .. Len(s))
      BY <1>1, FS_Interval
    <2> QED
      BY <1>1, <2>1, FS_Subset
  <1>3. Cardinality(1 .. c) = c
    BY <1>1, FS_Interval
  <1>4. PICK f \in [1 .. c -> places] : /\ \A m, n \in DOMAIN f : m < n => f[m] < f[n]
                                       /\ rest = [n \in DOMAIN f |-> s[f[n]]]
    BY DEF Filtered
  <1> HIDE DEF c
  <1>5. ASSUME NEW m \in 1 .. c, NEW n \in 1 .. c, f[m] = f[n]
        PROVE  m = n
    <2>1. f[m] \in Nat /\ f[n] \in Nat
      BY <1>1, <1>4
    <2>2. ~(m < n) /\ ~(n < m)
      BY <1>4, <1>5, <2>1
    <2> QED
      BY <1>1, <2>2
  <1>6. f \in Injection(1 .. c, places)
    BY <1>4, <1>5 DEF Injection, IsInjective
  <1>7. f \in Surjection(1 .. c, places)
    BY <1>2, <1>3, <1>6, FS_Injection DEF c
  <1>8. \A i \in places : \E n \in 1 .. c : f[n] = i
    BY <1>7 DEF Surjection
  <1> QED
    BY <1>4, <1>8

(* Steam's first list: of what it names, what is not resolved is asked for. *)
LEMMA FirstList ==
    ASSUME TypeOK, Content, lists = 0, FreshSession,
           NEW list \in LicenseLists, LicenseList(list)
    PROVE  Remembered'
  <1> USE DEF adding, storage, galaxy, session, counters, map
  <1>1. list \in Seq(ListEntries) /\ Requested(requests) /\ licenses \in Seq(Entries)
    BY AppsAssumption DEF TypeOK, Requested, ListEntries, Ids
  <1>2. UNCHANGED thread
    BY DEF LicenseList
  <1>3. ASSUME NEW i \in DOMAIN licenses', licenses'[i].apps = {},
               licenses'[i].package \in UNION BagToSet(requests')
        PROVE  /\ Asked(licenses[i].package)'
               /\ \A a \in licenses'[i].apps : a \in apps' \/ Coming(a)'
    BY <1>3 DEF Asked
  <1>4. CASE StartImport(<<>>, list)
    <2>1. <<>> \in Seq(Entries) /\ DOMAIN <<>> = {}
      OBVIOUS
    <2>2. \A i \in DOMAIN licenses' :
             licenses'[i].apps = {} /\ licenses'[i].package \in UNION BagToSet(requests')
      BY <1>1, <1>4, <2>1, ImportStarts
    <2> QED
      BY <1>3, <2>2 DEF Remembered
  <1>5. ASSUME NEW rest \in Filtered(list, Unresolved(list)), StartImport(licenses, rest),
               UNCHANGED <<apps, loaded>>
        PROVE  Remembered'
    <2>1. Unresolved(list) \in SUBSET DOMAIN list
      BY DEF Unresolved
    <2>2. rest \in Seq(ListEntries)
      BY <1>1, <2>1, FilteredType
    <2>3. /\ BagToSet(requests) \subseteq BagToSet(requests')
          /\ \A i \in DOMAIN licenses : i \in DOMAIN licenses' /\ licenses'[i] = licenses[i]
          /\ \A i \in DOMAIN licenses' \ DOMAIN licenses :
                licenses'[i].apps = {} /\ licenses'[i].package \in UNION BagToSet(requests')
      BY <1>1, <1>5, <2>2, ImportStarts
    <2>4. \A id \in ListedIn(rest) : Asked(id)'
      <3>1. ListedIn(rest) \in Ids
        <4>1. \A n \in DOMAIN rest : rest[n] \in ListEntries
          BY <2>2
        <4> QED
          BY <4>1 DEF ListedIn, Ids, ListEntries
      <3>2. \A id \in ListedIn(rest) : id \in UNION BagToSet(requests')
        BY <1>1, <1>5, <3>1, Asking DEF StartImport
      <3> QED
        BY <3>2 DEF Asked
    <2>5. /\ ResolvedPackages = ResolvedIn(loaded)
          /\ licenses = loaded.licenses /\ apps = loaded.apps /\ listed' = ListedIn(list)
      BY DEF FreshSession, ResolvedPackages, ResolvedIn, LicenseList
    <2>6. ASSUME NEW i \in DOMAIN licenses, licenses[i].package \notin Excuses'
          PROVE  /\ \/ Asked(licenses[i].package)'
                    \/ \A a \in AppsOf[licenses[i].package] : Listed(licenses[i], a)'
                 /\ \A a \in licenses[i].apps : a \in apps \/ Coming(a)'
      <3>1. licenses[i].package \in Packages /\ licenses[i].apps \subseteq AppsOf[licenses[i].package]
        BY LicenceFields DEF Content, InPackage
      <3>2. CASE Whole(licenses[i], loaded)
        <4>1. ASSUME NEW a \in AppsOf[licenses[i].package]
              PROVE  Listed(licenses[i], a)'
          <5>1. PICK j \in DOMAIN licenses :
                   /\ licenses[j].package = licenses[i].package
                   /\ licenses[j].shared = licenses[i].shared /\ a \in licenses[j].apps
            BY <2>5, <3>2 DEF Whole
          <5>2. j \in DOMAIN licenses' /\ licenses'[j] = licenses[j] /\ licenses'[i] = licenses[i]
            BY <2>3
          <5> QED
            BY <5>1, <5>2 DEF Listed
        <4> QED
          BY <2>5, <3>2, <4>1 DEF Whole
      <3>3. CASE ~Whole(licenses[i], loaded)
        <4>1. /\ licenses[i].package \notin ResolvedIn(loaded)
              /\ licenses[i].package \in ListedIn(list)
          <5>1. /\ ~TakenUpHalf(licenses[i].package)'
                /\ ~LetGo(licenses[i].package)'
            <6>1. licenses'[i] = licenses[i]
              BY <2>3
            <6> QED
              BY <2>6, <3>1, <6>1 DEF Excuses
          <5>2. licenses'[i] = licenses[i] /\ ListedIn(loaded'.licenses) = ListedIn(loaded.licenses)
            BY <1>5, <2>3
          <5>3. licenses[i].package \in ListedIn(loaded.licenses)
            BY <2>5 DEF ListedIn
          <5>4. licenses[i].package \in ListedIn(list)
            BY <2>5, <5>1, <5>2, <5>3 DEF LetGo
          <5>5. licenses[i].package \notin ResolvedIn(loaded)
            BY <1>5, <2>5, <3>3, <5>1, <5>2 DEF TakenUpHalf, ResolvedIn, Whole
          <5> QED
            BY <5>4, <5>5
        <4>2. PICK k \in DOMAIN list : list[k].package = licenses[i].package
          BY <4>1 DEF ListedIn
        <4>3. k \in Unresolved(list)
          BY <2>5, <4>1, <4>2 DEF Unresolved
        <4>4. PICK n \in DOMAIN rest : rest[n] = list[k]
          BY <1>1, <1>5, <2>1, <4>3, FilteredAll
        <4>5. Asked(licenses[i].package)'
          <5>1. licenses[i].package \in ListedIn(rest)
            BY <4>2, <4>4 DEF ListedIn
          <5>2. licenses'[i] = licenses[i]
            BY <2>3
          <5> QED
            BY <2>4, <5>1, <5>2 DEF Asked
        <4>6. \A a \in licenses[i].apps : Coming(a)'
          <5>1. licenses'[i] = licenses[i]
            BY <2>3
          <5> QED
            BY <3>1, <4>5, <5>1 DEF Coming, Asked
        <4> QED
          BY <4>5, <4>6
      <3> QED
        BY <3>2, <3>3
    <2>7. ASSUME NEW i \in DOMAIN licenses', i \in DOMAIN licenses, licenses'[i].package \notin Excuses'
          PROVE  /\ \/ Asked(licenses[i].package)'
                    \/ \A a \in AppsOf[licenses'[i].package] : Listed(licenses[i], a)'
                 /\ \A a \in licenses'[i].apps : a \in apps' \/ Coming(a)'
      <3>1. licenses'[i] = licenses[i]
        BY <2>3, <2>7
      <3> QED
        BY <1>5, <2>6, <2>7, <3>1
    <2> QED
      BY <1>3, <2>3, <2>7 DEF Remembered
  <1> QED
    BY <1>4, <1>5 DEF LicenseList

(* What the steps do to what is stored of the cache.                       *)
LEMMA StoredMoves ==
    ASSUME TypeOK, Content, [Next]_vars, ~Restart
    PROVE  InPackage(stored'.licenses) /\ InPackage(dump'.licenses)
  <1> USE DEF Content, storage
  <1>1. InPackage(<<>>)
    BY DEF InPackage
  <1>2. CASE UNCHANGED vars
    BY <1>2 DEF vars
  <1>3. CASE SteamStep \/ ThreadStep \/ Finish \/ WalkStep \/ AddGames
    BY <1>1, <1>3, CacheSteps, WalkSteps
  <1>4. CASE DumpOn
    <2>1. /\ dump.licenses \in Seq(Entries) /\ licenses \in Seq(Entries)
          /\ dump \in Dumps
      BY DEF TypeOK, Dumps
    <2> DEFINE next == Len(dump.licenses) + 1
    <2>2. next \in DOMAIN licenses
      <3>1. Len(dump.licenses) \in Nat /\ DOMAIN licenses = 1 .. Len(licenses) /\ Len(licenses) \in Nat
        BY <2>1
      <3> QED
        BY <1>4, <3>1 DEF DumpOn
    <2>3. dump'.licenses = Append(dump.licenses, licenses[next])
      BY <1>4, <2>1 DEF DumpOn, Dumps
    <2>4. licenses[next] \in Entries
      BY <2>1, <2>2
    <2>5. ASSUME NEW j \in DOMAIN dump'.licenses
          PROVE  \/ dump'.licenses[j] = licenses[next]
                 \/ j \in DOMAIN dump.licenses /\ dump'.licenses[j] = dump.licenses[j]
      <3> HIDE DEF next
      <3> QED
        BY <2>1, <2>3, <2>4, <2>5
    <2> HIDE DEF next
    <2>6. InPackage(dump'.licenses)
      BY <2>2, <2>5 DEF InPackage
    <2> QED
      BY <1>4, <2>6 DEF DumpOn
  <1>5. CASE DumpEnds
    BY <1>1, <1>5 DEF DumpEnds, NoDump
  <1>6. CASE DumpBreaks
    BY <1>1, <1>6 DEF DumpBreaks, NoDump
  <1> QED
    BY <1>2, <1>3, <1>4, <1>5, <1>6 DEF Next, DumpStep

LEMMA ContentStep ==
    ASSUME TypeOK, IdleThread, Content, [Next]_vars
    PROVE  Content'
  <1> USE DEF map, status, adding, storage, galaxy, session, counters
  <1>1. thread \in Threads /\ licenses \in Seq(Entries)
    BY DEF TypeOK, Threads, Ids
  <1>2. CASE Restart
    BY <1>2 DEF Restart, Content, InPackage, Idle, NoDump
  <1>3. ASSUME ~Restart, InPackage(licenses'),
               \A p \in thread'.package : thread'.toList \subseteq AppsOf[p]
        PROVE  Content'
    <2>1. InPackage(stored'.licenses) /\ InPackage(dump'.licenses)
      BY <1>3, StoredMoves
    <2> QED
      BY <1>3, <2>1 DEF Content
  <1>4. ASSUME ~Restart, UNCHANGED <<licenses, thread>>
        PROVE  Content'
    BY <1>3, <1>4 DEF Content
  <1>5. ASSUME NEW list \in LicenseLists, LicenseList(list), ~Restart
        PROVE  Content'
    <2>1. list \in Seq(ListEntries) /\ Requested(requests)
      BY AppsAssumption DEF TypeOK, Requested, ListEntries, Ids
    <2>2. PICK old \in {<<>>, licenses}, rest \in Seq(ListEntries) : StartImport(old, rest)
      <3>1. \A rest \in Filtered(list, Unresolved(list)) : rest \in Seq(ListEntries)
        <4>1. Unresolved(list) \in SUBSET DOMAIN list
          BY DEF Unresolved
        <4> QED
          BY <2>1, <4>1, FilteredType
      <3>2. \/ StartImport(<<>>, list)
            \/ \E rest \in Filtered(list, Unresolved(list)) : StartImport(licenses, rest)
        BY <1>5 DEF LicenseList
      <3> QED
        BY <2>1, <3>1, <3>2
    <2>3. /\ \A i \in DOMAIN old : licenses'[i] = old[i]
          /\ \A i \in DOMAIN licenses' \ DOMAIN old : licenses'[i].apps = {}
      <3>1. old \in Seq(Entries)
        <4>1. <<>> \in Seq(Entries)
          OBVIOUS
        <4> QED
          BY <1>1, <2>2, <4>1
      <3> QED
        BY <2>1, <2>2, <3>1, ImportStarts
    <2>4. InPackage(old)
      BY <2>2 DEF Content, InPackage
    <2>5. InPackage(licenses')
      BY <2>3, <2>4 DEF InPackage
    <2>6. UNCHANGED thread
      BY <1>5 DEF LicenseList
    <2> QED
      BY <1>3, <1>5, <2>5, <2>6 DEF Content
  <1>6. ASSUME NEW request, NEW ids, ProductInfo(request, ids), ~Restart
        PROVE  Content'
    BY <1>3, <1>6 DEF ProductInfo, Idle, Content
  <1>7. ASSUME NEW p \in Packages, CountPackage(p), ~Restart
        PROVE  Content'
    <2>1. thread'.package = {p} /\ thread'.toList = AppsOf[p] /\ UNCHANGED licenses
      BY <1>1, <1>7 DEF CountPackage, Threads
    <2> QED
      BY <1>3, <1>7, <2>1 DEF Content
  <1>8. ASSUME NEW a \in Apps, ListApp(a), ~Restart
        PROVE  Content'
    <2>1. /\ a \in thread.toList /\ thread'.package = thread.package
          /\ thread'.toList = thread.toList \ {a}
      BY <1>1, <1>8 DEF ListApp, Threads
    <2>2. ASSUME NEW i \in DOMAIN licenses'
          PROVE  licenses'[i].apps \subseteq AppsOf[licenses'[i].package]
      <3>1. licenses[i] \in Entries /\ i \in DOMAIN licenses
        BY <1>1, <1>8, <2>2 DEF ListApp
      <3>2. licenses'[i].package = licenses[i].package
        BY <1>8, <2>2, <3>1 DEF ListApp, Entries
      <3>3. licenses'[i].apps = IF licenses[i].package \in thread.package
                                THEN licenses[i].apps \cup {a} ELSE licenses[i].apps
        BY <1>8, <2>2, <3>1 DEF ListApp, Entries
      <3> QED
        BY <2>1, <3>1, <3>2, <3>3 DEF Content, InPackage
    <2> QED
      BY <1>3, <1>8, <2>1, <2>2 DEF Content, InPackage
  <1>9. ASSUME NEW a \in Apps, TitleApp(a), ~Restart
        PROVE  Content'
    <2>1. thread'.package = thread.package /\ thread'.toList = thread.toList /\ UNCHANGED licenses
      BY <1>1, <1>9 DEF TitleApp, Threads
    <2> QED
      BY <1>3, <1>9, <2>1 DEF Content
  <1>10. CASE Finish /\ ~Restart
    BY <1>3, <1>10 DEF Finish, Idle, Content
  <1>11. CASE (\E a \in Apps : Play(a)) /\ ~Restart
    BY <1>4, <1>11 DEF Play
  <1>12. CASE (WalkStep \/ AddGames \/ DumpStep) /\ ~Restart
    BY <1>4, <1>12, WalkSteps, DumpSteps
  <1>13. CASE UNCHANGED vars /\ ~Restart
    BY <1>4, <1>13 DEF vars
  <1> QED
    BY <1>2, <1>5, <1>6, <1>7, <1>8, <1>9, <1>10, <1>11, <1>12, <1>13
       DEF Next, SteamStep, SteamAnswers, ThreadStep

(* Nothing happens to the cache before Steam's first list.                 *)
LEMMA FreshStep ==
    ASSUME TypeOK, IdleThread, FreshSession, [Next]_vars
    PROVE  FreshSession'
  <1> USE DEF map, status, adding, storage, galaxy, session, counters
  <1> SUFFICES ASSUME lists' = 0
               PROVE  /\ licenses' = loaded'.licenses /\ apps' = loaded'.apps
                      /\ requests' = EmptyBag /\ ~thread'.busy
    BY DEF FreshSession
  <1>1. CASE Restart
    BY <1>1 DEF Restart, Idle
  <1>2. ASSUME ~Restart
        PROVE  lists = 0 /\ UNCHANGED <<licenses, apps, requests, thread, loaded>>
    <2>1. lists \in Nat
      BY BoundAssumption DEF TypeOK
    <2>2. CASE WalkStep \/ AddGames \/ DumpStep
      BY <2>2, WalkSteps, DumpSteps
    <2>3. CASE UNCHANGED vars
      BY <2>3 DEF vars
    <2>4. CASE SteamStep \/ ThreadStep \/ Finish
      <3>1. lists = 0
        <4>1. ASSUME NEW list \in LicenseLists, LicenseList(list)
              PROVE  FALSE
          BY <2>1, <4>1 DEF LicenseList
        <4> QED
          BY <2>4, <4>1, CacheSteps
      <3>2. thread.ids = {} /\ thread.toList = {} /\ ~thread.busy /\ BagToSet(requests) = {}
        BY <3>1 DEF FreshSession, IdleThread, BagToSet, EmptyBag, SetToBag
      <3>3. \A a \in Apps : ~Play(a)
        BY <3>1 DEF Play
      <3>4. \A list \in LicenseLists : ~LicenseList(list)
        BY <2>1 DEF LicenseList
      <3> QED
        BY <2>4, <3>2, <3>3, <3>4 DEF SteamStep, SteamAnswers, ThreadStep, CountPackage,
                                      ListApp, TitleApp, Finish
    <2> QED
      BY <1>2, <2>2, <2>3, <2>4 DEF Next
  <1>3. CASE ~Restart
    BY <1>2, <1>3 DEF FreshSession
  <1> QED
    BY <1>1, <1>3

LastingInv ==
    /\ IdleThread /\ Content /\ FreshSession
    /\ lists > 0 => Remembered
    /\ restarts = 0 => loaded.licenses = <<>>

LEMMA LoadedStep ==
    ASSUME TypeOK, LastingInv, [Next]_vars, restarts' = 0
    PROVE  loaded'.licenses = <<>>
  <1> USE DEF LastingInv
  <1>1. ~Restart
    <2>1. restarts \in Nat
      BY BoundAssumption DEF TypeOK
    <2> QED
      BY <2>1 DEF Restart
  <1>2. NoCache.licenses = <<>>
    BY DEF NoCache
  <1>3. CASE UNCHANGED vars
    BY <1>3 DEF vars, session, counters
  <1>4. CASE WalkStep \/ AddGames \/ DumpStep
    BY <1>4, WalkSteps, DumpSteps
  <1>5. CASE SteamStep \/ ThreadStep \/ Finish
    BY <1>2, <1>5, CacheSteps DEF LicenseList
  <1> QED
    BY <1>1, <1>3, <1>4, <1>5 DEF Next

LEMMA LastingStep == TypeOK /\ LastingInv /\ [Next]_vars => LastingInv'
  <1> SUFFICES ASSUME TypeOK, LastingInv, [Next]_vars, lists' > 0
               PROVE  Remembered'
    BY IdleStep, ContentStep, FreshStep, LoadedStep DEF LastingInv
  <1> USE DEF LastingInv
  <1>1. ~Restart
    BY DEF Restart
  <1>2. CASE lists > 0
    BY <1>1, <1>2, RememberedStep
  <1>3. CASE lists = 0
    <2>1. \E list \in LicenseLists : LicenseList(list)
      <3>1. CASE UNCHANGED vars
        BY <1>3, <3>1 DEF vars, counters
      <3> QED
        BY <1>1, <1>3, <3>1, CacheSteps, WalkSteps, DumpSteps DEF Next
    <2> QED
      BY <1>3, <2>1, FirstList
  <1>4. lists \in Nat
    BY BoundAssumption DEF TypeOK
  <1> QED
    BY <1>2, <1>3, <1>4

LEMMA Lasting == Spec => [](TypeOK /\ LastingInv)
  <1>1. Init => LastingInv
    BY DEF Init, LastingInv, IdleThread, Idle, Content, InPackage, FreshSession, NoCache, NoDump
  <1> QED
    BY <1>1, LastingStep, TypeCorrect, PTL DEF Spec

(* Over any number of restarts nothing is forgotten but what the cache was *)
(* taken up with half listed and known, and what a large list no longer    *)
(* names: whatever else is missing from what was stored, Steam's next list *)
(* makes up for (games_cache.py 95-110, 172-186, protocol_client.py        *)
(* 361-399).                                                               *)
THEOREM MemoryLasts == Spec => []NothingForgotten
  <1>1. TypeOK /\ LastingInv => NothingForgotten
    <2> SUFFICES ASSUME TypeOK, LastingInv, lists > 0, NEW i \in DOMAIN licenses,
                        ~TakenUpHalf(licenses[i].package), ~LetGo(licenses[i].package)
                 PROVE  Remembers(i)
      BY DEF NothingForgotten
    <2>1. licenses[i].package \notin Excuses
      BY DEF Excuses
    <2> QED
      BY <2>1 DEF LastingInv, Remembered, Remembers
  <1> QED
    BY <1>1, Lasting, PTL

(* Until the plugin is first restarted nothing at all is forgotten,        *)
(* whatever lists Steam sends, in whatever parts it answers, and whatever  *)
(* runs between the thread's steps (protocol_client.py 361-399).           *)
THEOREM FirstSession ==
    Spec => [](restarts = 0 /\ lists > 0 => \A i \in DOMAIN licenses : Remembers(i))
  <1>1. TypeOK /\ LastingInv
            => (restarts = 0 /\ lists > 0 => \A i \in DOMAIN licenses : Remembers(i))
    <2> SUFFICES ASSUME TypeOK, LastingInv, restarts = 0, lists > 0, NEW i \in DOMAIN licenses
                 PROVE  Remembers(i)
      OBVIOUS
    <2>1. licenses[i].package \notin Excuses
      BY DEF LastingInv, Excuses, TakenUpHalf, LetGo, ListedIn, ResolvedIn
    <2> QED
      BY <2>1 DEF LastingInv, Remembered, Remembers
  <1> QED
    BY <1>1, Lasting, PTL

--------------------------------------------------------------------------------
(* Owned games.  From the moment a walk over them has started the lever is *)
(* set, and whatever is listed or known from then on is kept; behind the   *)
(* walk, and everywhere once it is done or its list was replaced, every    *)
(* owned game is.                                                          *)
Kept(g) == g \in sent \cup added \/ Coming(g)

EntryKept(i) ==
    ~licenses[i].shared => \A g \in licenses[i].apps \cap apps \cap Games : Kept(g)

Importing == walk["owned"].at > 0

(* An import has all its games, and is dumping the cache, or has succeeded. *)
Promised == imported \/ dump.by = "import"

OwnedInv ==
    /\ Promised \/ Importing => lever
    /\ Promised => \A i \in DOMAIN licenses : EntryKept(i)
    /\ Importing => \A i \in DOMAIN licenses :
          walk["owned"].detached \/ i < walk["owned"].at => EntryKept(i)

(* What is noted as sent was told, or is with what will tell it: the tick, *)
(* the walk over the owned games or their dump; or nobody is told it.      *)
Accounted ==
    /\ dump.by = "none" => dump.games = {}
    /\ walk["owned"].at = 0 => walk["owned"].found = {}
    /\ sent \cap Games
           \subseteq told \cup unsaid \cup added \cup walk["owned"].found \cup dump.games

LEMMA WalksTyped ==
    ASSUME TypeOK
    PROVE  /\ walk \in [Kinds -> Walks] /\ "owned" \in Kinds /\ "shared" \in Kinds
           /\ licenses \in Seq(Entries) /\ Len(licenses) \in Nat
           /\ DOMAIN licenses = 1 .. Len(licenses)
           /\ \A kind \in Kinds :
                 /\ walk[kind] \in Walks /\ walk[kind].at \in Nat
                 /\ Walked(kind) \in Seq(Entries) /\ Len(Walked(kind)) \in Nat
                 /\ DOMAIN Walked(kind) = 1 .. Len(Walked(kind))
                 /\ walk[kind].at \in DOMAIN Walked(kind) => walk[kind].at > 0
                 /\ walk[kind].at = Len(Walked(kind)) + 1 => walk[kind].at > 0
  <1>1. walk \in [Kinds -> Walks] /\ licenses \in Seq(Entries)
    BY DEF TypeOK, Walks
  <1>2. Len(licenses) \in Nat /\ DOMAIN licenses = 1 .. Len(licenses)
    BY <1>1
  <1> SUFFICES ASSUME NEW kind \in Kinds
               PROVE  /\ walk[kind] \in Walks /\ walk[kind].at \in Nat
                      /\ Walked(kind) \in Seq(Entries) /\ Len(Walked(kind)) \in Nat
                      /\ DOMAIN Walked(kind) = 1 .. Len(Walked(kind))
                      /\ walk[kind].at \in DOMAIN Walked(kind) => walk[kind].at > 0
                      /\ walk[kind].at = Len(Walked(kind)) + 1 => walk[kind].at > 0
    BY <1>1, <1>2 DEF Kinds
  <1>3. walk[kind] \in Walks /\ walk[kind].at \in Nat /\ walk[kind].list \in Seq(Entries)
    BY <1>1 DEF Walks
  <1>4. Walked(kind) \in Seq(Entries)
    BY <1>1, <1>3 DEF Walked
  <1>5. Len(Walked(kind)) \in Nat /\ DOMAIN Walked(kind) = 1 .. Len(Walked(kind))
    BY <1>4
  <1> QED
    BY <1>3, <1>4, <1>5

(* What the steps of Steam and of the thread do to an application that is  *)
(* asked for: it is still, or, once the lever is set, it is kept.          *)
LEMMA KeptStep ==
    ASSUME TypeOK, IdleThread, [Next]_vars, ~Restart, lever, NEW a \in Apps, Kept(a)
    PROVE  Kept(a)'
  <1> USE DEF map, status, adding, storage, galaxy, session, counters
  <1>1. ASSUME sent \cup added \subseteq sent' \cup added', Coming(a) => Coming(a)'
        PROVE  Kept(a)'
    BY <1>1 DEF Kept
  <1>2. thread \in Threads /\ Requested(requests) /\ \A p \in Packages : p # a
    BY AppsAssumption DEF TypeOK, Threads, Ids, Requested
  <1>3. ASSUME UNCHANGED <<requests, thread>>, sent \cup added \subseteq sent' \cup added'
        PROVE  Kept(a)'
    BY <1>1, <1>3 DEF Coming, Asked
  <1>4. CASE UNCHANGED vars
    BY <1>3, <1>4 DEF vars
  <1>5. CASE WalkStep \/ AddGames \/ DumpStep
    <2>1. UNCHANGED <<requests, thread>>
      BY <1>5, WalkSteps, DumpSteps
    <2>2. sent \cup added \subseteq sent' \cup added'
      <3>1. CASE WalkStep
        BY <3>1 DEF WalkStep, StartWalk, WalkOn, WalkBreaks, OwnedWalked, SharedWalked,
                    SharedFound
      <3>2. CASE AddGames
        BY <3>2 DEF AddGames
      <3>3. CASE DumpStep
        BY <3>3, DumpSteps
      <3> QED
        BY <1>5, <3>1, <3>2, <3>3
    <2> QED
      BY <1>3, <2>1, <2>2
  <1>6. ASSUME BagToSet(requests) \subseteq BagToSet(requests'), UNCHANGED <<thread, sent, added>>
        PROVE  Kept(a)'
    <2>1. \A id : Asked(id) => Asked(id)'
      BY <1>6 DEF Asked
    <2> QED
      BY <1>1, <1>6, <2>1 DEF Coming
  <1>7. ASSUME NEW list \in LicenseLists, LicenseList(list)
        PROVE  Kept(a)'
    <2>1. list \in Seq(ListEntries)
      BY AppsAssumption DEF ListEntries
    <2>2. PICK old \in Seq(Entries), rest \in Seq(ListEntries) : StartImport(old, rest)
      <3>1. <<>> \in Seq(Entries) /\ licenses \in Seq(Entries)
        BY DEF TypeOK
      <3>2. \A rest \in Filtered(list, Unresolved(list)) : rest \in Seq(ListEntries)
        <4>1. Unresolved(list) \in SUBSET DOMAIN list
          BY DEF Unresolved
        <4> QED
          BY <2>1, <4>1, FilteredType
      <3> QED
        BY <1>7, <2>1, <3>1, <3>2 DEF LicenseList
    <2>3. BagToSet(requests) \subseteq BagToSet(requests')
      BY <1>2, <2>2, ImportStarts
    <2> QED
      BY <1>6, <1>7, <2>3 DEF LicenseList
  <1>8. ASSUME NEW b \in Apps, Play(b)
        PROVE  Kept(a)'
    <2>1. BagToSet(requests) \subseteq BagToSet(requests')
      BY <1>2, <1>8, Asking DEF Play, Ids
    <2> QED
      BY <1>6, <1>8, <2>1 DEF Play
  <1>9. ASSUME NEW request \in BagToSet(requests), NEW ids \in SUBSET request,
               ProductInfo(request, ids)
        PROVE  Kept(a)'
    <2>1. thread.toList = {} /\ thread.found = {} /\ UNCHANGED <<sent, added>>
      BY <1>9 DEF ProductInfo, IdleThread
    <2>2. \A id : Asked(id) => Asked(id)'
      BY <1>9, RequestMoves
    <2> QED
      BY <1>1, <2>1, <2>2 DEF Coming
  <1>10. ASSUME NEW p \in Packages, CountPackage(p)
         PROVE  Kept(a)'
    <2>1. /\ thread.toList = {} /\ UNCHANGED <<requests, sent, added>>
          /\ thread'.ids = thread.ids \ {p} /\ thread'.toList = AppsOf[p]
          /\ thread'.found = thread.found
      BY <1>2, <1>10 DEF CountPackage, Threads
    <2>2. \A id : Asked(id) /\ id # p => Asked(id)'
      BY <2>1 DEF Asked
    <2>3. Coming(a) => Coming(a)'
      BY <1>2, <2>1, <2>2 DEF Coming
    <2> QED
      BY <1>1, <2>1, <2>3
  <1>11. ASSUME NEW b \in Apps, ListApp(b)
         PROVE  Kept(a)'
    <2>1. /\ UNCHANGED <<requests, sent, added>> /\ thread'.ids = thread.ids
          /\ thread'.toList = thread.toList \ {b} /\ thread'.found = thread.found \cup {b}
      BY <1>2, <1>11 DEF ListApp, Threads
    <2>2. \A id : Asked(id) => Asked(id)'
      BY <2>1 DEF Asked
    <2> QED
      BY <1>1, <2>1, <2>2 DEF Coming
  <1>12. ASSUME NEW b \in Apps, TitleApp(b)
         PROVE  Kept(a)'
    <2>1. /\ UNCHANGED <<requests, sent>> /\ thread'.ids = thread.ids \ {b}
          /\ thread'.toList = thread.toList /\ thread'.found = thread.found
          /\ added \subseteq added' /\ b \in sent' \cup added'
      BY <1>2, <1>12 DEF TitleApp, Threads, Added
    <2>2. \A id : Asked(id) /\ id # b => Asked(id)'
      BY <2>1 DEF Asked
    <2>3. \A p \in Packages : p # b
      BY AppsAssumption
    <2>4. a # b => (Coming(a) => Coming(a)')
      BY <2>1, <2>2, <2>3 DEF Coming
    <2> QED
      BY <1>1, <2>1, <2>4 DEF Kept
  <1>13. CASE Finish
    <2>1. /\ thread.ids = {} /\ thread.toList = {} /\ Ask(thread.found) /\ thread.found \in Ids
          /\ UNCHANGED <<sent, added>>
      BY <1>2, <1>13 DEF Finish, Threads, Ids
    <2>2. /\ BagToSet(requests) \subseteq BagToSet(requests')
          /\ \A id \in thread.found : id \in UNION BagToSet(requests')
      BY <1>2, <2>1, Asking
    <2>3. (\A id : Asked(id) => Asked(id)') /\ \A id \in thread.found : Asked(id)'
      BY <2>1, <2>2 DEF Asked
    <2> QED
      BY <1>1, <2>1, <2>3 DEF Coming
  <1> QED
    BY <1>4, <1>5, <1>7, <1>8, <1>9, <1>10, <1>11, <1>12, <1>13
       DEF Next, SteamStep, SteamAnswers, ThreadStep

(* An owned game that is not kept after a step was one before, at the same *)
(* place: nothing that is listed or known anew is lost.                    *)
LEMMA EntryStep ==
    ASSUME TypeOK, IdleThread, [Next]_vars, ~Restart, lever,
           NEW i \in DOMAIN licenses', ~licenses'[i].shared,
           NEW g \in licenses'[i].apps \cap apps' \cap Games, ~Kept(g)'
    PROVE  /\ i \in DOMAIN licenses /\ ~licenses[i].shared
           /\ g \in licenses[i].apps \cap apps \cap Games /\ ~Kept(g)
  <1> USE DEF map, status, adding, storage, galaxy, session, counters
  <1>1. g \in Apps /\ g \in Games /\ ~Kept(g)
    BY KeptStep, AppsAssumption
  <1> SUFFICES /\ i \in DOMAIN licenses /\ ~licenses[i].shared
               /\ g \in licenses[i].apps /\ g \in apps
    BY <1>1
  <1>2. thread \in Threads /\ Requested(requests)
    BY DEF TypeOK, Threads, Ids, Requested
  <1>3. CASE UNCHANGED <<licenses, apps>>
    BY <1>3
  <1>4. CASE UNCHANGED vars
    BY <1>3, <1>4 DEF vars
  <1>5. CASE WalkStep \/ AddGames \/ DumpStep
    BY <1>3, <1>5, WalkSteps, DumpSteps
  <1>6. ASSUME NEW list \in LicenseLists, LicenseList(list)
        PROVE  /\ i \in DOMAIN licenses /\ ~licenses[i].shared
               /\ g \in licenses[i].apps /\ g \in apps
    <2>1. list \in Seq(ListEntries)
      BY AppsAssumption DEF ListEntries
    <2>2. apps' # {}
      OBVIOUS
    <2>3. PICK rest \in Filtered(list, Unresolved(list)) :
             StartImport(licenses, rest) /\ UNCHANGED apps
      BY <1>6, <2>2 DEF LicenseList
    <2>4. rest \in Seq(ListEntries) /\ licenses \in Seq(Entries)
      <3>1. Unresolved(list) \in SUBSET DOMAIN list
        BY DEF Unresolved
      <3> QED
        BY <2>1, <3>1, FilteredType DEF TypeOK
    <2>5. /\ \A j \in DOMAIN licenses : licenses'[j] = licenses[j]
          /\ \A j \in DOMAIN licenses' \ DOMAIN licenses : licenses'[j].apps = {}
      BY <1>2, <2>3, <2>4, ImportStarts
    <2> QED
      BY <2>3, <2>5
  <1>7. ASSUME NEW b \in Apps, ListApp(b)
        PROVE  /\ i \in DOMAIN licenses /\ ~licenses[i].shared
               /\ g \in licenses[i].apps /\ g \in apps
    <2>1. /\ DOMAIN licenses' = DOMAIN licenses /\ apps' = apps
          /\ \A j \in DOMAIN licenses :
                /\ licenses'[j].shared = licenses[j].shared
                /\ licenses'[j].apps \subseteq licenses[j].apps \cup {b}
      <3>1. \A j \in DOMAIN licenses : licenses[j] \in Entries
        BY DEF TypeOK
      <3> QED
        BY <1>7, <3>1 DEF ListApp, Entries
    <2>2. Coming(b)'
      <3>1. b \in thread'.found
        BY <1>2, <1>7 DEF ListApp, Threads
      <3> QED
        BY <3>1 DEF Coming
    <2>3. g # b
      BY <2>2 DEF Kept
    <2> QED
      BY <2>1, <2>3
  <1>8. ASSUME NEW b \in Apps, TitleApp(b)
        PROVE  /\ i \in DOMAIN licenses /\ ~licenses[i].shared
               /\ g \in licenses[i].apps /\ g \in apps
    <2>1. UNCHANGED licenses /\ apps' = apps \cup {b} /\ b \in sent' \cup added'
      BY <1>8 DEF TitleApp, Added
    <2> QED
      BY <2>1 DEF Kept
  <1>9. CASE (\E a \in Apps : Play(a)) \/ SteamAnswers \/ (\E p \in Packages : CountPackage(p)) \/ Finish
    BY <1>3, <1>9 DEF Play, SteamAnswers, ProductInfo, CountPackage, Finish
  <1> QED
    BY <1>4, <1>5, <1>6, <1>7, <1>8, <1>9 DEF Next, SteamStep, ThreadStep

(* What a step does to the walk over the owned games.                      *)
OwnedMove ==
    \/ walk'["owned"].at = 0
    \/ /\ Importing /\ walk'["owned"].at = walk["owned"].at
       /\ walk'["owned"].detached => walk["owned"].detached \/ apps' = {}
    \/ ~Importing /\ walk'["owned"].at = 1 /\ ~walk'["owned"].detached /\ lever'
    \/ /\ Importing /\ WalkOn("owned") /\ walk'["owned"].at = walk["owned"].at + 1
       /\ walk'["owned"].detached = walk["owned"].detached

LEMMA OwnedMoves ==
    ASSUME TypeOK, [Next]_vars, ~Restart
    PROVE  /\ OwnedMove
           /\ Promised' => Promised \/ OwnedWalked
           /\ lever => lever'
  <1> USE DEF map, status, adding, storage, galaxy, session, counters
  <1> USE DEF Promised, StartDump
  <1>1. /\ walk \in [Kinds -> Walks] /\ "owned" \in Kinds
        /\ walk["owned"] \in Walks /\ walk["owned"].at \in Nat
        /\ walk["owned"].at \in DOMAIN Walked("owned") => Importing
    BY WalksTyped DEF Importing
  <1>2. NoWalk.at = 0 /\ NoWalk.detached = FALSE
    BY DEF NoWalk
  <1>3. ASSUME walk'["owned"] = walk["owned"]
        PROVE  OwnedMove
    BY <1>1, <1>3 DEF Importing, OwnedMove
  <1>4. CASE UNCHANGED vars
    BY <1>3, <1>4 DEF vars
  <1>5. CASE ThreadStep \/ Finish
    <2>1. UNCHANGED <<walk, imported, lever, dump>>
      BY <1>5 DEF ThreadStep, CountPackage, ListApp, TitleApp, Finish
    <2> QED
      BY <1>3, <2>1
  <1>6. CASE AddGames
    <2>1. UNCHANGED <<walk, imported, lever>> /\ (dump'.by = "import" => dump.by = "import")
      BY <1>6 DEF AddGames
    <2> QED
      BY <1>3, <2>1
  <1>7. CASE DumpStep
    <2>1. UNCHANGED <<walk, lever>>
      BY <1>7, DumpSteps
    <2>2. dump \in Dumps
      BY DEF TypeOK, Dumps
    <2>3. Promised' => Promised
      <3>1. CASE DumpOn
        BY <2>2, <3>1 DEF DumpOn, Dumps
      <3>2. CASE DumpEnds
        BY <3>2 DEF DumpEnds, NoDump
      <3>3. CASE DumpBreaks
        BY <3>3 DEF DumpBreaks, NoDump
      <3> QED
        BY <1>7, <3>1, <3>2, <3>3 DEF DumpStep
    <2> QED
      BY <1>3, <2>1, <2>3
  <1>8. CASE SteamStep
    <2>1. UNCHANGED <<imported, lever, dump>>
      BY <1>8 DEF SteamStep, SteamAnswers, LicenseList, Play, ProductInfo
    <2>2. CASE UNCHANGED walk
      BY <1>3, <2>1, <2>2
    <2>3. CASE Detach /\ apps' = {}
      <3>1. \/ walk'["owned"] = walk["owned"]
            \/ walk'["owned"] = [walk["owned"] EXCEPT !.detached = TRUE, !.list = licenses]
               /\ Importing
        BY <1>1, <2>3 DEF Detach, Importing
      <3>2. CASE walk'["owned"] = [walk["owned"] EXCEPT !.detached = TRUE, !.list = licenses]
                 /\ Importing
        <4>1. walk'["owned"].at = walk["owned"].at
          BY <1>1, <3>2 DEF Walks
        <4> QED
          BY <2>1, <2>3, <3>2, <4>1 DEF OwnedMove
      <3> QED
        BY <1>3, <2>1, <3>1, <3>2
    <2> QED
      BY <1>8, <2>2, <2>3 DEF SteamStep, SteamAnswers, LicenseList, Play, ProductInfo
  <1>9. ASSUME NEW kind \in Kinds, StartWalk(kind)
        PROVE  OwnedMove /\ UNCHANGED <<imported, dump>> /\ (lever => lever')
    <2>1. CASE kind = "owned"
      <3>1. walk'["owned"] = [NoWalk EXCEPT !.at = 1] /\ walk["owned"].at = 0 /\ lever'
        BY <1>1, <1>9, <2>1 DEF StartWalk
      <3>2. [NoWalk EXCEPT !.at = 1].at = 1 /\ [NoWalk EXCEPT !.at = 1].detached = FALSE
        BY DEF NoWalk
      <3> QED
        BY <1>9, <3>1, <3>2 DEF OwnedMove, Importing, StartWalk
    <2>2. CASE kind # "owned"
      BY <1>1, <1>3, <1>9, <2>2 DEF StartWalk
    <2> QED
      BY <2>1, <2>2
  <1>10. ASSUME NEW kind \in Kinds, WalkOn(kind)
        PROVE  OwnedMove /\ UNCHANGED <<imported, dump>> /\ lever' = lever
    <2>1. PICK games :
             walk' = [walk EXCEPT ![kind].at = @ + 1, ![kind].found = @ \cup games]
      BY <1>10 DEF WalkOn
    <2>2. CASE kind = "owned"
      <3>1. /\ walk'["owned"].at = walk["owned"].at + 1
            /\ walk'["owned"].detached = walk["owned"].detached
        BY <1>1, <2>1, <2>2 DEF Walks
      <3>2. Importing
        BY <1>1, <1>10, <2>2 DEF WalkOn
      <3> QED
        BY <1>10, <2>2, <3>1, <3>2 DEF OwnedMove, WalkOn
    <2>3. CASE kind # "owned"
      <3>1. walk'["owned"] = walk["owned"]
        BY <1>1, <2>1, <2>3
      <3> QED
        BY <1>3, <1>10, <3>1 DEF WalkOn
    <2> QED
      BY <2>2, <2>3
  <1>11. ASSUME NEW kind \in Kinds, walk' = [walk EXCEPT ![kind] = NoWalk]
        PROVE  OwnedMove
    <2>1. walk'["owned"] = NoWalk \/ walk'["owned"] = walk["owned"]
      BY <1>1, <1>11
    <2> QED
      BY <1>2, <1>3, <2>1 DEF OwnedMove
  <1>12. ASSUME NEW kind \in Kinds, NEW games, WalkBreaks(kind, games)
         PROVE  OwnedMove /\ UNCHANGED <<imported, dump, lever>>
    BY <1>11, <1>12 DEF WalkBreaks
  <1>13. ASSUME NEW g \in Games, SharedFound(g)
         PROVE  OwnedMove /\ UNCHANGED <<imported, dump, lever>>
    BY <1>1, <1>11, <1>13 DEF SharedFound, Kinds
  <1>14. ASSUME SharedWalked
         PROVE  OwnedMove /\ UNCHANGED <<imported, dump, lever>>
    BY <1>11, <1>14 DEF SharedWalked, Kinds
  <1>15. ASSUME OwnedWalked
         PROVE  OwnedMove /\ UNCHANGED lever
    BY <1>1, <1>11, <1>15 DEF OwnedWalked
  <1>16. CASE WalkStep
    BY <1>9, <1>10, <1>16, <1>12, <1>13, <1>14, <1>15 DEF WalkStep
  <1> QED
    BY <1>4, <1>5, <1>8, <1>16, <1>6, <1>7 DEF Next

LEMMA OwnedStep ==
    TypeOK /\ IdleThread /\ OwnedInv /\ [Next]_vars => OwnedInv'
  <1> SUFFICES ASSUME TypeOK, IdleThread, OwnedInv, [Next]_vars
               PROVE  OwnedInv'
    OBVIOUS
  <1>1. CASE Restart
    <2>1. ~Promised' /\ walk'["owned"].at = 0
      BY <1>1 DEF Restart, NoWalk, Kinds, Promised, NoDump
    <2> QED
      BY <2>1 DEF OwnedInv, Importing
  <1>2. CASE ~Restart
    <2>1. /\ OwnedMove /\ (Promised' => Promised \/ OwnedWalked) /\ (lever => lever')
      BY <1>2, OwnedMoves
    <2>2. /\ walk["owned"] \in Walks /\ walk["owned"].at \in Nat
          /\ DOMAIN licenses = 1 .. Len(licenses) /\ Len(licenses) \in Nat
          /\ walk["owned"].at = Len(Walked("owned")) + 1 => Importing
      BY WalksTyped DEF Importing
    <2>3. OwnedWalked => Importing
      BY <2>2 DEF OwnedWalked
    <2>4. Promised' \/ Importing' => lever'
      BY <2>1, <2>3 DEF OwnedInv, OwnedMove, Importing
    <2>5. ASSUME NEW i \in DOMAIN licenses', ~licenses'[i].shared,
                 NEW g \in licenses'[i].apps \cap apps' \cap Games, ~Kept(g)', lever
          PROVE  i \in DOMAIN licenses /\ ~EntryKept(i)
      BY <1>2, <2>5, EntryStep DEF EntryKept
    <2>6. ASSUME Promised', NEW i \in DOMAIN licenses'
          PROVE  EntryKept(i)'
      <3> SUFFICES ASSUME ~licenses'[i].shared,
                          NEW g \in licenses'[i].apps \cap apps' \cap Games, ~Kept(g)'
                   PROVE  FALSE
        BY DEF EntryKept
      <3>1. lever
        BY <2>1, <2>3, <2>6 DEF OwnedInv
      <3>2. i \in DOMAIN licenses /\ ~EntryKept(i)
        BY <2>5, <3>1
      <3>3. CASE Promised
        BY <3>2, <3>3 DEF OwnedInv
      <3>4. CASE OwnedWalked
        <4>1. walk["owned"].detached \/ i < walk["owned"].at
          BY <2>2, <3>2, <3>4 DEF OwnedWalked, Walked
        <4> QED
          BY <2>3, <3>2, <3>4, <4>1 DEF OwnedInv
      <3> QED
        BY <2>1, <2>6, <3>3, <3>4
    <2>7. ASSUME Importing', NEW i \in DOMAIN licenses',
                 walk'["owned"].detached \/ i < walk'["owned"].at
          PROVE  EntryKept(i)'
      <3> SUFFICES ASSUME ~licenses'[i].shared,
                          NEW g \in licenses'[i].apps \cap apps' \cap Games, ~Kept(g)'
                   PROVE  FALSE
        BY DEF EntryKept
      <3>1. i \in Nat /\ i >= 1
        <4>1. TypeOK'
          BY TypeStep
        <4>2. licenses' \in Seq(Entries)
          BY <4>1 DEF TypeOK
        <4>3. DOMAIN licenses' = 1 .. Len(licenses') /\ Len(licenses') \in Nat
          BY <4>2
        <4> QED
          BY <4>3
      <3>2. Importing
        BY <2>1, <2>7, <3>1 DEF OwnedMove, Importing
      <3>3. i \in DOMAIN licenses /\ ~EntryKept(i)
        BY <2>5, <3>2 DEF OwnedInv
      <3>4. ~walk["owned"].detached /\ ~(i < walk["owned"].at)
        BY <3>2, <3>3 DEF OwnedInv
      <3>5. apps' # {}
        OBVIOUS
      <3>6. WalkOn("owned") /\ walk'["owned"].at = walk["owned"].at + 1 /\ ~walk'["owned"].detached
        BY <2>1, <2>7, <3>2, <3>4, <3>5 DEF OwnedMove, Importing
      <3>7. i = walk["owned"].at
        BY <2>2, <2>7, <3>1, <3>4, <3>6
      <3>8. Here("owned") = licenses[i]
        BY <3>4, <3>7 DEF Here, Walked
      <3>9. ~licenses[i].shared /\ UNCHANGED <<licenses, apps>>
        BY <3>6 DEF WalkOn, map
      <3>10. g \in sent'
        <4>1. Here("owned").shared = ("owned" = "shared")
          <5>1. licenses[i] \in Entries
            BY <3>3 DEF TypeOK
          <5> QED
            BY <3>8, <3>9, <5>1 DEF Entries
        <4> QED
          BY <3>6, <3>8, <3>9, <4>1 DEF WalkOn
      <3> QED
        BY <3>10 DEF Kept
    <2> QED
      BY <2>4, <2>6, <2>7 DEF OwnedInv
  <1> QED
    BY <1>1, <1>2

LEMMA AccountedStep == TypeOK /\ Accounted /\ [Next]_vars => Accounted'
  <1> SUFFICES ASSUME TypeOK, Accounted, [Next]_vars
               PROVE  Accounted'
    OBVIOUS
  <1> USE DEF map, status, adding, storage, galaxy, session, counters, Accounted
  <1>1. /\ walk \in [Kinds -> Walks] /\ "owned" \in Kinds /\ "shared" \in Kinds
        /\ \A kind \in Kinds : /\ walk[kind] \in Walks /\ walk[kind].at \in Nat
                               /\ walk[kind].at \in DOMAIN Walked(kind) => walk[kind].at > 0
                               /\ walk[kind].at = Len(Walked(kind)) + 1 => walk[kind].at > 0
    BY WalksTyped
  <1>2. NoWalk.at = 0 /\ NoWalk.found = {} /\ NoDump.games = {}
    BY DEF NoWalk, NoDump
  <1>3. ASSUME UNCHANGED <<sent, told, unsaid, dump>>, added \subseteq added',
               walk'["owned"].at = walk["owned"].at, walk'["owned"].found = walk["owned"].found
        PROVE  Accounted'
    BY <1>3
  <1>4. CASE Restart
    <2>1. walk'["owned"] = NoWalk /\ dump' = NoDump /\ sent' = {}
      BY <1>1, <1>4 DEF Restart
    <2> QED
      BY <1>2, <2>1
  <1>5. CASE UNCHANGED vars
    BY <1>3, <1>5 DEF vars
  <1>6. CASE ThreadStep \/ Finish
    <2>1. UNCHANGED <<sent, told, unsaid, dump, walk>> /\ added \subseteq added'
      BY <1>6 DEF ThreadStep, CountPackage, ListApp, TitleApp, Finish, Added
    <2> QED
      BY <1>3, <2>1
  <1>7. CASE SteamStep
    <2>1. UNCHANGED <<sent, told, unsaid, dump, added>> /\ (walk' = walk \/ Detach)
      BY <1>7 DEF SteamStep, SteamAnswers, LicenseList, Play, ProductInfo
    <2>2. CASE Detach
      <3>1. walk'["owned"] \in {walk["owned"],
                                [walk["owned"] EXCEPT !.detached = TRUE, !.list = licenses]}
        BY <1>1, <2>2 DEF Detach
      <3>2. walk'["owned"].at = walk["owned"].at /\ walk'["owned"].found = walk["owned"].found
        BY <1>1, <3>1 DEF Walks
      <3> QED
        BY <1>3, <2>1, <3>2
    <2> QED
      BY <1>3, <2>1, <2>2
  <1>8. ASSUME NEW kind \in Kinds, StartWalk(kind)
        PROVE  Accounted'
    <2>1. UNCHANGED <<sent, told, unsaid, dump, added>> /\ walk[kind].at = 0
      BY <1>8 DEF StartWalk
    <2>2. CASE kind = "owned"
      <3>1. walk'["owned"] = [NoWalk EXCEPT !.at = 1]
        BY <1>1, <1>8, <2>2 DEF StartWalk
      <3>2. walk'["owned"].at = 1 /\ walk["owned"].found = {}
        BY <2>1, <2>2, <3>1 DEF NoWalk
      <3> QED
        BY <2>1, <3>2
    <2>3. CASE kind # "owned"
      <3>1. walk'["owned"] = walk["owned"]
        BY <1>1, <1>8, <2>3 DEF StartWalk
      <3> QED
        BY <1>3, <2>1, <3>1
    <2> QED
      BY <2>2, <2>3
  <1>9. ASSUME NEW kind \in Kinds, WalkOn(kind)
        PROVE  Accounted'
    <2>1. PICK games :
             /\ walk' = [walk EXCEPT ![kind].at = @ + 1, ![kind].found = @ \cup games]
             /\ sent' = sent \cup games
             /\ Unsaid(IF kind = "shared" THEN games ELSE {})
      BY <1>9 DEF WalkOn
    <2>2. UNCHANGED <<told, added, dump>> /\ walk[kind].at > 0
      BY <1>1, <1>9 DEF WalkOn
    <2>3. CASE kind = "owned"
      <3>1. /\ walk'["owned"].at = walk["owned"].at + 1
            /\ walk'["owned"].found = walk["owned"].found \cup games
        BY <1>1, <2>1, <2>3 DEF Walks
      <3>2. unsaid \subseteq unsaid'
        BY <2>1 DEF Unsaid
      <3>3. walk'["owned"].at # 0
        BY <1>1, <3>1
      <3> QED
        BY <2>1, <2>2, <3>1, <3>2, <3>3
    <2>4. CASE kind # "owned"
      <3>1. walk'["owned"] = walk["owned"] /\ kind = "shared"
        BY <1>1, <2>1, <2>4 DEF Kinds
      <3>2. unsaid' = unsaid \cup (games \ (told \cup added))
        BY <2>1, <3>1 DEF Unsaid
      <3> QED
        BY <2>1, <2>2, <3>1, <3>2
    <2> QED
      BY <2>3, <2>4
  <1>10. ASSUME NEW kind \in Kinds, NEW games, sent' = sent \cup games, UNCHANGED <<told, added, dump>>,
                walk' = [walk EXCEPT ![kind] = NoWalk], Unsaid(walk[kind].found \cup games)
         PROVE  Accounted'
    <2>1. unsaid' = unsaid \cup ((walk[kind].found \cup games) \ (told \cup added))
      BY <1>10 DEF Unsaid
    <2>2. CASE kind = "owned"
      <3>1. walk'["owned"] = NoWalk
        BY <1>1, <1>10, <2>2
      <3> QED
        BY <1>2, <1>10, <2>1, <2>2, <3>1
    <2>3. CASE kind # "owned"
      <3>1. walk'["owned"] = walk["owned"]
        BY <1>1, <1>10, <2>3
      <3> QED
        BY <1>10, <2>1, <3>1
    <2> QED
      BY <2>2, <2>3
  <1>11. ASSUME NEW kind \in Kinds, NEW games, WalkBreaks(kind, games)
         PROVE  Accounted'
    <2>1. /\ sent' = sent \cup games /\ UNCHANGED <<told, added, dump>>
          /\ walk' = [walk EXCEPT ![kind] = NoWalk] /\ Unsaid(walk[kind].found \cup games)
      BY <1>11 DEF WalkBreaks
    <2> QED
      BY <1>10, <2>1
  <1>12. ASSUME NEW g \in Games, SharedFound(g)
         PROVE  Accounted'
    <2>1. /\ sent' = sent \cup {g} /\ UNCHANGED <<told, added, dump>> /\ Unsaid({g})
          /\ walk' = [walk EXCEPT !["shared"] = NoWalk]
      BY <1>12 DEF SharedFound
    <2>2. walk'["owned"] = walk["owned"]
      BY <1>1, <2>1
    <2>3. unsaid' = unsaid \cup ({g} \ (told \cup added))
      BY <2>1 DEF Unsaid
    <2> QED
      BY <2>1, <2>2, <2>3
  <1>13. CASE SharedWalked
    <2>1. UNCHANGED <<sent, told, unsaid, dump, added>> /\ walk' = [walk EXCEPT !["shared"] = NoWalk]
      BY <1>13 DEF SharedWalked
    <2>2. walk'["owned"] = walk["owned"]
      BY <1>1, <2>1
    <2> QED
      BY <1>3, <2>1, <2>2
  <1>14. ASSUME OwnedWalked, dump.by = "none"
         PROVE  Accounted'
    <2>1. /\ dump'.by = "import" /\ dump'.games = walk["owned"].found
          /\ UNCHANGED <<sent, told, unsaid, added>> /\ walk'["owned"] = NoWalk
      BY <1>1, <1>14 DEF OwnedWalked, StartDump
    <2> QED
      BY <1>2, <1>14, <2>1
  <1>15. CASE WalkStep /\ dump.by = "none"
    BY <1>8, <1>9, <1>11, <1>12, <1>13, <1>14, <1>15 DEF WalkStep
  <1>16. ASSUME AddGames, dump.by = "none"
         PROVE  Accounted'
    <2>1. /\ sent' = sent \cup added /\ added' = {} /\ UNCHANGED <<told, unsaid, walk>>
      BY <1>16 DEF AddGames
    <2>2. /\ dump'.games = added \cap Games
          /\ dump'.by = "none" => dump'.games = {}
      BY <1>16 DEF AddGames, StartDump
    <2> QED
      BY <1>16, <2>1, <2>2
  <1>17. CASE DumpStep
    <2>1. UNCHANGED <<sent, added, walk>>
      BY <1>17, DumpSteps
    <2>2. dump \in Dumps
      BY DEF TypeOK, Dumps
    <2>3. CASE DumpOn
      <3>1. UNCHANGED <<told, unsaid>> /\ dump'.games = dump.games /\ dump'.by = dump.by
        BY <2>2, <2>3 DEF DumpOn, Dumps
      <3> QED
        BY <2>1, <3>1
    <2>4. CASE DumpEnds
      <3>1. told' = told \cup dump.games /\ UNCHANGED unsaid /\ dump'.games = {}
        BY <1>2, <2>4 DEF DumpEnds
      <3> QED
        BY <2>1, <3>1
    <2>5. CASE DumpBreaks
      <3>1. /\ UNCHANGED told /\ dump'.games = {}
            /\ unsaid' = unsaid \cup (dump.games \ (told \cup added))
        BY <1>2, <2>5 DEF DumpBreaks, Unsaid
      <3> QED
        BY <2>1, <3>1
    <2> QED
      BY <1>17, <2>3, <2>4, <2>5 DEF DumpStep
  <1> QED
    BY <1>4, <1>5, <1>6, <1>7, <1>15, <1>16, <1>17 DEF Next

(* Once an import of the owned games has succeeded every owned game is     *)
(* told, or with what will tell it, or asked for again, unless it was      *)
(* noted as sent by a shared walk or by a walk or dump that broke:         *)
(* whatever the thread listed before, beside and behind the walk and the   *)
(* dump, whatever list replaced the one walked over, and however often the *)
(* plugin was started again (games_cache.py 116-161, 172-176,              *)
(* backend_steam_network.py 142-164, 354-397).  It rests on the order in   *)
(* which get_owned_games sets the lever before it reads the first licence. *)
THEOREM OwnedKept == Spec => []OwnedAreKept
  <1>1. Init => IdleThread /\ OwnedInv /\ Accounted
    <2> SUFFICES ASSUME Init
                 PROVE  IdleThread /\ OwnedInv /\ Accounted
      OBVIOUS
    <2>1. walk["owned"].at = 0
      BY DEF Init, NoWalk, Kinds
    <2> QED
      BY <2>1 DEF Init, Idle, IdleThread, OwnedInv, Accounted, Importing, Promised, Kinds,
                  NoWalk, NoDump
  <1>2. TypeOK /\ OwnedInv /\ Accounted => OwnedAreKept
    <2> SUFFICES ASSUME TypeOK, OwnedInv, Accounted, imported, NEW g \in Games, Owned(g)
                 PROVE  \/ g \in told \cup added \cup walk["owned"].found \cup dump.games \cup unsaid
                        \/ Coming(g)
      BY DEF OwnedAreKept
    <2>1. Kept(g)
      BY DEF OwnedInv, Promised, EntryKept, Owned
    <2> QED
      BY <2>1 DEF Accounted, Kept
  <1> QED
    BY <1>1, <1>2, IdleStep, OwnedStep, AccountedStep, TypeCorrect, PTL DEF Spec
================================================================================
