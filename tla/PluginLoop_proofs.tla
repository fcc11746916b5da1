---------------------------- MODULE PluginLoop_proofs ----------------------------
(***************************************************************************)
(* PluginLoop, for any games and any bounds: its types, that Galaxy knows  *)
(* what is cached, and that what is not pushed is marked.                  *)
(***************************************************************************)
EXTENDS PluginLoop, TLAPS

Readers == [at : {"off", "begun", "states", "read", "cooling"}, result : Readings,
            failed : BOOLEAN, overlapped : BOOLEAN]

(* The tick starts an update only once the local games have been read.     *)
UpdateHasCache == readers["update"].at # "off" => cache # NotRead

IInv == TypeOK /\ UpdateHasCache /\ ToldIsCached /\ UnpushedIsMarked

--------------------------------------------------------------------------------
LEMMA ReaderTypes ==
    ASSUME TypeOK, NEW r \in ReaderNames
    PROVE  readers \in [ReaderNames -> Readers] /\ readers[r] \in Readers
BY DEF TypeOK, Readers

LEMMA NewReaders ==
    /\ Rests \in Readers /\ Begins \in Readers /\ [Rests EXCEPT !.at = "cooling"] \in Readers
    /\ Rests.at = "off" /\ [Rests EXCEPT !.at = "cooling"].at = "cooling"
<1>1. Nowhere \in Readings  BY DEF Nowhere, Readings, States
<1> QED  BY <1>1 DEF Rests, Begins, Readers

LEMMA NotAReading == NotRead \notin Readings
BY NotReadAssumption DEF Readings, States

LEMMA InitInv == Init => IInv
<1> SUFFICES ASSUME Init PROVE IInv  OBVIOUS
<1>1. Nowhere \in Readings  BY DEF Nowhere, Readings, States
<1>2. readers \in [ReaderNames -> Readers] /\ readers["update"].at = "off"
  BY NewReaders DEF Init, ReaderNames
<1>3. TypeOK  BY <1>1, <1>2 DEF Init, TypeOK, Readers
<1>4. UpdateHasCache /\ ToldIsCached /\ UnpushedIsMarked
  BY <1>2 DEF Init, UpdateHasCache, ToldIsCached, UnpushedIsMarked
<1> QED  BY <1>3, <1>4 DEF IInv

--------------------------------------------------------------------------------
(* A step of one reader alone.                                             *)
LEMMA ReadsStep ==
    ASSUME IInv, NEW r \in ReaderNames, NEW at, at \in {"begun", "states", "cooling"},
           NEW reader \in Readers, Reads(r, at, reader),
           failures' \in Nat
    PROVE  IInv'
<1>1. /\ readers \in [ReaderNames -> Readers] /\ readers[r].at \in {"begun", "states", "cooling"}
      /\ readers' = [readers EXCEPT ![r] = reader]
      /\ UNCHANGED <<machine, cache, told, astray, calls, pushing>>
  BY ReaderTypes DEF Reads, IInv
<1>2. readers' \in [ReaderNames -> Readers]  BY <1>1
<1>3. /\ manifests' = manifests /\ registry' = registry /\ touched' = touched
      /\ cache' = cache /\ told' = told /\ astray' = astray /\ calls' = calls
      /\ modified' = modified /\ unpushed' = unpushed /\ scheduled' = scheduled
      /\ cooling' = cooling /\ changes' = changes
  BY <1>1 DEF machine, pushing
<1>4. TypeOK'  BY <1>2, <1>3 DEF IInv, TypeOK, Readers
<1>5. UpdateHasCache'
  <2>1. CASE r = "update"
    <3>1. readers["update"].at # "off"  BY <1>1, <2>1
    <3> QED  BY <1>3, <3>1 DEF IInv, UpdateHasCache
  <2>2. CASE r # "update"
    <3>1. readers'["update"] = readers["update"]  BY <1>1, <2>2 DEF ReaderNames
    <3> QED  BY <1>3, <3>1 DEF IInv, UpdateHasCache
  <2> QED  BY <2>1, <2>2
<1>6. ToldIsCached' /\ UnpushedIsMarked'  BY <1>3 DEF IInv, ToldIsCached, UnpushedIsMarked
<1> QED  BY <1>4, <1>5, <1>6 DEF IInv

(* The four steps of a reading on its thread.                              *)
ReadingStep(r) ==
    \/ ReadStates(r) \/ ListGames(r)
    \/ \E part \in SUBSET Games : StatesFail(r, part) \/ ListingFails(r, part)

LEMMA PartOfAReading ==
    ASSUME NEW reading \in Readings, NEW part
    PROVE  Only(reading, part) \in Readings /\ FailedReading(reading, part) \in Readings
BY DEF Only, FailedReading, Readings, States

(* What such a step makes of its reader, and of nothing else.              *)
MakesOf(r, at, reader) ==
    /\ Reads(r, at, reader) /\ failures' \in Nat
    /\ reader.at \in {"states", "read"}
    /\ reader.overlapped = readers[r].overlapped
    /\ readers[r].failed => reader.failed
    /\ \/ reader.failed
       \/ at = "begun" /\ reader.result = registry
       \/ at = "states" /\ reader.result = Only(readers[r].result, manifests)

LEMMA ReadingMakes ==
    ASSUME IInv, NEW r \in ReaderNames, ReadingStep(r)
    PROVE  \E at \in {"begun", "states"}, reader \in Readers : MakesOf(r, at, reader)
<1>1. readers[r] \in Readers /\ failures \in Nat /\ manifests \in SUBSET Games /\ registry \in Readings
  BY ReaderTypes DEF IInv, TypeOK
<1>2. readers[r].result \in Readings  BY <1>1 DEF Readers
<1>3. CASE ReadStates(r)
  <2> DEFINE reader == [readers[r] EXCEPT !.at = "states", !.result = registry]
  <2>1. Reads(r, "begun", reader) /\ failures' = failures  BY <1>3 DEF ReadStates
  <2>2. /\ reader \in Readers /\ reader.at = "states" /\ reader.result = registry
        /\ reader.overlapped = readers[r].overlapped /\ reader.failed = readers[r].failed
    BY <1>1 DEF Readers
  <2> HIDE DEF reader
  <2> QED  BY <1>1, <2>1, <2>2 DEF MakesOf
<1>4. CASE ListGames(r)
  <2> DEFINE result == Only(readers[r].result, manifests)
             reader == [readers[r] EXCEPT !.at = "read", !.result = result]
  <2>1. Reads(r, "states", reader) /\ failures' = failures  BY <1>4 DEF ListGames
  <2>2. result \in Readings  BY <1>2, PartOfAReading
  <2> HIDE DEF result
  <2>3. /\ reader \in Readers /\ reader.at = "read" /\ reader.result = result
        /\ reader.overlapped = readers[r].overlapped /\ reader.failed = readers[r].failed
    BY <1>1, <2>2 DEF Readers
  <2> HIDE DEF reader
  <2> QED  BY <1>1, <2>1, <2>3 DEF result, MakesOf
<1>5. ASSUME NEW part \in SUBSET Games, StatesFail(r, part) 
            PROVE  \E at \in {"begun", "states"}, reader \in Readers : MakesOf(r, at, reader)
  <2> DEFINE result == FailedReading(registry, part)
             reader == [readers[r] EXCEPT !.at = "states", !.failed = TRUE, !.result = result]
  <2>1. Reads(r, "begun", reader) /\ failures' = failures + 1  BY <1>5 DEF StatesFail, Fails
  <2>2. result \in Readings  BY <1>1, PartOfAReading
  <2> HIDE DEF result
  <2>3. /\ reader \in Readers /\ reader.at = "states" /\ reader.failed
        /\ reader.overlapped = readers[r].overlapped
    BY <1>1, <2>2 DEF Readers
  <2> HIDE DEF reader
  <2>4. failures' \in Nat  BY <1>1, <2>1
  <2> QED  BY <2>1, <2>3, <2>4 DEF MakesOf
<1>6. ASSUME NEW part \in SUBSET Games, ListingFails(r, part) 
            PROVE  \E at \in {"begun", "states"}, reader \in Readers : MakesOf(r, at, reader)
  <2> DEFINE result == FailedReading(readers[r].result, manifests \cap part)
             reader == [readers[r] EXCEPT !.at = "read", !.failed = TRUE, !.result = result]
  <2>1. Reads(r, "states", reader) /\ failures' = failures + 1  BY <1>6 DEF ListingFails, Fails
  <2>2. result \in Readings  BY <1>2, PartOfAReading
  <2> HIDE DEF result
  <2>3. /\ reader \in Readers /\ reader.at = "read" /\ reader.failed
        /\ reader.overlapped = readers[r].overlapped
    BY <1>1, <2>2 DEF Readers
  <2> HIDE DEF reader
  <2>4. failures' \in Nat  BY <1>1, <2>1
  <2> QED  BY <2>1, <2>3, <2>4 DEF MakesOf
<1> QED  BY <1>3, <1>4, <1>5, <1>6 DEF ReadingStep

LEMMA ReadingSteps ==
    ASSUME IInv, NEW r \in ReaderNames, ReadingStep(r)
    PROVE  IInv'
<1>1. PICK at \in {"begun", "states"}, reader \in Readers : MakesOf(r, at, reader)
  BY ReadingMakes
<1> QED  BY <1>1, ReadsStep DEF MakesOf

(* What either coroutine makes of a reading: the new cache, and that the   *)
(* types of the readers hold.                                              *)
LEMMA CachesReaders ==
    ASSUME TypeOK, NEW r \in ReaderNames, NEW reader \in Readers, Caches(r, reader)
    PROVE  /\ readers[r].at = "read" /\ readers[r].result \in Readings
           /\ cache' = readers[r].result /\ astray' \in BOOLEAN
           /\ readers' \in [ReaderNames -> Readers]
<1>1. readers \in [ReaderNames -> Readers] /\ readers[r] \in Readers  BY ReaderTypes
<1>2. readers[r].result \in Readings /\ readers[r].failed \in BOOLEAN
      /\ readers[r].overlapped \in BOOLEAN
  BY <1>1 DEF Readers
<1>3. /\ readers[r].at = "read" /\ cache' = readers[r].result
      /\ astray' = (readers[r].failed \/ readers[r].overlapped)
  BY DEF Caches
<1>4. astray' \in BOOLEAN  BY <1>3
<1>5. Other(r) \in ReaderNames  BY DEF Other, ReaderNames
<1> DEFINE late  == readers[Other(r)].at \in {"begun", "states", "read"}
           first == [readers EXCEPT ![r] = reader]
<1>6. readers' = [first EXCEPT ![Other(r)].overlapped = late]  BY DEF Caches
<1>7. first \in [ReaderNames -> Readers]  BY <1>1
<1>8. first[Other(r)] \in Readers /\ late \in BOOLEAN  BY <1>5, <1>7
<1> HIDE DEF first, late
<1>9. [first[Other(r)] EXCEPT !.overlapped = late] \in Readers  BY <1>8 DEF Readers
<1>10. readers' = [first EXCEPT ![Other(r)] = [first[Other(r)] EXCEPT !.overlapped = late]]
  BY <1>6
<1>11. readers' \in [ReaderNames -> Readers]  BY <1>5, <1>7, <1>9, <1>10
<1> QED  BY <1>2, <1>3, <1>4, <1>11

(* Once a reading is cached and Galaxy told it.                            *)
LEMMA CachedStep ==
    ASSUME IInv, UNCHANGED <<machine, calls, failures, pushing>>,
           readers' \in [ReaderNames -> Readers], cache' \in Readings, astray' \in BOOLEAN,
           told' = cache'
    PROVE  IInv'
<1>1. /\ manifests' = manifests /\ registry' = registry /\ touched' = touched
      /\ calls' = calls /\ failures' = failures /\ changes' = changes
      /\ modified' = modified /\ unpushed' = unpushed /\ scheduled' = scheduled
      /\ cooling' = cooling
  BY DEF machine, pushing
<1>2. TypeOK'  BY <1>1 DEF IInv, TypeOK, Readers
<1>3. UpdateHasCache' /\ ToldIsCached'  BY NotAReading DEF UpdateHasCache, ToldIsCached
<1>4. UnpushedIsMarked'  BY <1>1 DEF IInv, UnpushedIsMarked
<1> QED  BY <1>2, <1>3, <1>4 DEF IInv

LEMMA CallReturnsStep == ASSUME IInv, CallReturns PROVE IInv'
<1>1. /\ Caches("call", Rests) /\ told' = readers["call"].result
      /\ UNCHANGED <<machine, calls, failures, pushing>>
  BY DEF CallReturns
<1>2. "call" \in ReaderNames /\ TypeOK  BY DEF ReaderNames, IInv
<1>3. /\ readers["call"].result \in Readings /\ cache' = readers["call"].result
      /\ astray' \in BOOLEAN /\ readers' \in [ReaderNames -> Readers]
  BY <1>1, <1>2, CachesReaders, NewReaders
<1> QED  BY <1>1, <1>3, CachedStep

LEMMA UpdateReturnsStep == ASSUME IInv, UpdateReturns PROVE IInv'
<1> DEFINE new == readers["update"].result
           rests == [Rests EXCEPT !.at = "cooling"]
<1>1. /\ Caches("update", rests) /\ UNCHANGED <<machine, calls, failures, pushing>>
      /\ told' = [game \in Games |-> IF game \in StateChanges(cache, new)
                                     THEN new[game] ELSE told[game]]
  BY DEF UpdateReturns
<1>2. "update" \in ReaderNames /\ TypeOK /\ rests \in Readers
  BY NewReaders DEF ReaderNames, IInv
<1>3. /\ readers["update"].at = "read" /\ new \in Readings /\ cache' = new
      /\ astray' \in BOOLEAN /\ readers' \in [ReaderNames -> Readers]
  <2> HIDE DEF rests
  <2> QED  BY <1>1, <1>2, CachesReaders
<1>4. cache # NotRead  BY <1>3 DEF IInv, UpdateHasCache
<1>5. told = cache  BY <1>4 DEF IInv, ToldIsCached
<1>6. told' = new
  <2> HIDE DEF new
  <2>1. \A game \in Games : told'[game] = new[game]  BY <1>1, <1>5 DEF StateChanges
  <2>2. told' = [game \in Games |-> told'[game]]  BY <1>1
  <2>3. new = [game \in Games |-> new[game]]  BY <1>3 DEF Readings
  <2> QED  BY <2>1, <2>2, <2>3
<1> QED  BY <1>1, <1>3, <1>6, CachedStep

--------------------------------------------------------------------------------
LEMMA LocalUnchanged ==
    ASSUME IInv, UNCHANGED local,
           manifests' \in SUBSET Games, registry' \in Readings, touched' \in BOOLEAN,
           changes' \in Nat, modified' \in BOOLEAN, unpushed' \in BOOLEAN,
           scheduled' \in BOOLEAN, cooling' \in Nat, UnpushedIsMarked'
    PROVE  IInv'
<1>1. /\ readers' = readers /\ cache' = cache /\ told' = told /\ astray' = astray
      /\ calls' = calls /\ failures' = failures
  BY DEF local
<1>2. TypeOK'  BY <1>1 DEF IInv, TypeOK
<1> QED  BY <1>1, <1>2 DEF IInv, UpdateHasCache, ToldIsCached

LEMMA MachineSteps ==
    ASSUME IInv, NEW game \in Games, NEW state \in States,
           WriteManifest(game) \/ SetRegistry(game, state)
    PROVE  IInv'
<1>1. /\ UNCHANGED local /\ changes' = changes + 1
      /\ modified' = modified /\ unpushed' = unpushed /\ scheduled' = scheduled
      /\ cooling' = cooling
  BY DEF WriteManifest, SetRegistry, Change, pushing
<1>2. /\ manifests \in SUBSET Games /\ registry \in Readings /\ touched \in BOOLEAN
      /\ changes \in Nat /\ modified \in BOOLEAN /\ unpushed \in BOOLEAN
      /\ scheduled \in BOOLEAN /\ cooling \in Nat
  BY DEF IInv, TypeOK
<1>3. UnpushedIsMarked'  BY <1>1 DEF IInv, UnpushedIsMarked
<1>4. manifests' \in SUBSET Games /\ registry' \in Readings /\ touched' \in BOOLEAN
  <2>1. CASE WriteManifest(game)  BY <1>2, <2>1 DEF WriteManifest
  <2>2. CASE SetRegistry(game, state)  BY <1>2, <2>2 DEF SetRegistry, Readings
  <2> QED  BY <2>1, <2>2
<1> QED  BY <1>1, <1>2, <1>3, <1>4, LocalUnchanged

LEMMA PushingSteps ==
    ASSUME IInv, WriteCache \/ StoreVersion \/ Push \/ PushEnds
    PROVE  IInv'
<1>1. /\ UNCHANGED local /\ manifests' = manifests /\ registry' = registry
      /\ touched' = touched /\ changes' = changes
  BY DEF WriteCache, StoreVersion, Push, PushEnds, machine
<1>2. /\ manifests \in SUBSET Games /\ registry \in Readings /\ touched \in BOOLEAN
      /\ changes \in Nat /\ modified \in BOOLEAN /\ unpushed \in BOOLEAN
      /\ scheduled \in BOOLEAN /\ cooling \in Nat
  BY DEF IInv, TypeOK
<1>3. /\ modified' \in BOOLEAN /\ unpushed' \in BOOLEAN /\ scheduled' \in BOOLEAN
      /\ cooling' \in Nat
  <2>1. CASE WriteCache
    <3>1. modified' = TRUE /\ unpushed' = TRUE /\ scheduled' = scheduled /\ cooling' = cooling
      BY <2>1 DEF WriteCache
    <3> QED  BY <1>2, <3>1
  <2>2. CASE StoreVersion
    <3>1. modified' = modified /\ unpushed' = FALSE /\ scheduled' = scheduled /\ cooling' = cooling
      BY <2>2 DEF StoreVersion
    <3> QED  BY <1>2, <3>1
  <2>3. CASE Push
    <3>1. modified' = FALSE /\ unpushed' = FALSE /\ scheduled' = FALSE /\ cooling' = cooling + 1
      BY <2>3 DEF Push
    <3>2. cooling' \in Nat  BY <1>2, <3>1
    <3>3. modified' \in BOOLEAN /\ unpushed' \in BOOLEAN /\ scheduled' \in BOOLEAN
      BY <1>2, <3>1, Zenon
    <3> QED  BY <3>2, <3>3
  <2>4. CASE PushEnds
    <3>1. /\ modified' = modified /\ unpushed' = unpushed /\ scheduled' = scheduled
          /\ cooling > 0 /\ cooling' = cooling - 1
      BY <2>4 DEF PushEnds
    <3>2. cooling' \in Nat  BY <1>2, <3>1
    <3>3. modified' \in BOOLEAN /\ unpushed' \in BOOLEAN /\ scheduled' \in BOOLEAN
      BY <1>2, <3>1, Zenon
    <3> QED  BY <3>2, <3>3
  <2> QED  BY <2>1, <2>2, <2>3, <2>4
<1>4. UnpushedIsMarked'
  BY DEF IInv, UnpushedIsMarked, WriteCache, StoreVersion, Push, PushEnds
<1> QED  BY <1>1, <1>2, <1>3, <1>4, LocalUnchanged

(* Galaxy's call, or the tick, starts a reading, or none.                  *)
LEMMA BeginStep ==
    ASSUME IInv, NEW r \in ReaderNames, r = "update" => cache # NotRead,
           readers' = [readers EXCEPT ![r] = Begins] \/ readers' = readers,
           UNCHANGED <<manifests, registry, changes, cache, told, astray, failures,
                       modified, unpushed, cooling>>,
           touched' \in BOOLEAN, scheduled' \in BOOLEAN, calls' \in Nat
    PROVE  IInv'
<1>1. readers \in [ReaderNames -> Readers]  BY ReaderTypes DEF IInv
<1>2. readers' \in [ReaderNames -> Readers]  BY <1>1, NewReaders
<1>3. TypeOK'  BY <1>2 DEF IInv, TypeOK, Readers
<1>4. UpdateHasCache'
  <2>1. CASE r = "update"  BY <2>1 DEF UpdateHasCache
  <2>2. CASE r # "update"
    <3>1. readers'["update"] = readers["update"]  BY <1>1, <2>2 DEF ReaderNames
    <3> QED  BY <3>1 DEF IInv, UpdateHasCache
  <2> QED  BY <2>1, <2>2
<1>5. ToldIsCached' /\ UnpushedIsMarked'  BY DEF IInv, ToldIsCached, UnpushedIsMarked
<1> QED  BY <1>3, <1>4, <1>5 DEF IInv

LEMMA GetLocalGamesStep == ASSUME IInv, GetLocalGames PROVE IInv'
<1>1. "call" \in ReaderNames /\ "call" # "update"  BY DEF ReaderNames
<1>2. /\ readers' = [readers EXCEPT !["call"] = Begins] /\ calls' = calls + 1
      /\ UNCHANGED <<manifests, registry, changes, cache, told, astray, failures,
                     modified, unpushed, cooling>>
      /\ touched' = touched /\ scheduled' = scheduled
  BY DEF GetLocalGames, machine, pushing
<1>3. touched' \in BOOLEAN /\ scheduled' \in BOOLEAN /\ calls' \in Nat
  BY <1>2 DEF IInv, TypeOK
<1> QED  BY <1>1, <1>2, <1>3, BeginStep

LEMMA TickStep == ASSUME IInv, Tick PROVE IInv'
<1>1. "update" \in ReaderNames  BY DEF ReaderNames
<1>2. /\ UNCHANGED <<manifests, registry, changes, cache, told, astray, failures,
                     modified, unpushed, cooling>>
      /\ calls' = calls /\ scheduled' = modified
  BY DEF Tick
<1>3. scheduled' \in BOOLEAN /\ calls' \in Nat /\ touched \in BOOLEAN
  BY <1>2 DEF IInv, TypeOK
<1>4. CASE UpdateIsDue
  <2>1. touched' = FALSE /\ readers' = [readers EXCEPT !["update"] = Begins]  BY <1>4 DEF Tick
  <2>2. cache # NotRead  BY <1>4 DEF UpdateIsDue
  <2> QED  BY <1>1, <1>2, <1>3, <2>1, <2>2, BeginStep
<1>5. CASE ~UpdateIsDue
  <2>1. touched' = touched /\ readers' = readers  BY <1>5 DEF Tick
  <2>2. "call" \in ReaderNames /\ "call" # "update"  BY DEF ReaderNames
  <2> QED  BY <1>2, <1>3, <2>1, <2>2, BeginStep
<1> QED  BY <1>4, <1>5

LEMMA UpdateEndsStep == ASSUME IInv, UpdateEnds PROVE IInv'
<1>1. "update" \in ReaderNames /\ Rests \in Readers  BY NewReaders DEF ReaderNames
<1>2. Reads("update", "cooling", Rests) /\ failures' = failures  BY DEF UpdateEnds
<1>3. failures' \in Nat  BY <1>2 DEF IInv, TypeOK
<1> QED  BY <1>1, <1>2, <1>3, ReadsStep

--------------------------------------------------------------------------------
LEMMA StepInv == IInv /\ [Next]_vars => IInv'
<1> SUFFICES ASSUME IInv, [Next]_vars PROVE IInv'  OBVIOUS
<1>1. ASSUME NEW game \in Games, WriteManifest(game) PROVE IInv'
  <2>1. "none" \in States  BY DEF States
  <2> QED  BY <1>1, <2>1, MachineSteps
<1>2. ASSUME NEW game \in Games, NEW state \in States, SetRegistry(game, state) PROVE IInv'
  BY <1>2, MachineSteps
<1>3. ASSUME NEW r \in ReaderNames, ReadingStep(r) PROVE IInv'
  BY <1>3, ReadingSteps
<1>4. CASE GetLocalGames  BY <1>4, GetLocalGamesStep
<1>5. CASE CallReturns  BY <1>5, CallReturnsStep
<1>6. CASE UpdateReturns  BY <1>6, UpdateReturnsStep
<1>7. CASE UpdateEnds  BY <1>7, UpdateEndsStep
<1>8. CASE WriteCache \/ StoreVersion \/ Push \/ PushEnds  BY <1>8, PushingSteps
<1>9. CASE Tick  BY <1>9, TickStep
<1>10. CASE UNCHANGED vars
  <2>1. /\ manifests' = manifests /\ registry' = registry /\ touched' = touched
        /\ readers' = readers /\ cache' = cache /\ told' = told /\ astray' = astray
        /\ modified' = modified /\ unpushed' = unpushed /\ scheduled' = scheduled
        /\ cooling' = cooling /\ changes' = changes /\ calls' = calls /\ failures' = failures
    BY <1>10 DEF vars, machine, local, pushing
  <2> QED  BY <2>1 DEF IInv, TypeOK, UpdateHasCache, ToldIsCached, UnpushedIsMarked
<1> QED  BY <1>1, <1>2, <1>3, <1>4, <1>5, <1>6, <1>7, <1>8, <1>9, <1>10 DEF Next, ReadingStep

LEMMA Invariance == Spec => []IInv
<1>1. Init => IInv  BY InitInv
<1>2. IInv /\ [Next]_vars => IInv'  BY StepInv
<1> QED  BY <1>1, <1>2, PTL DEF Spec

(* The types of the loop's state, for any games (plugin.py 70-88).         *)
THEOREM TypeCorrect == Spec => []TypeOK
<1>1. IInv => TypeOK  BY DEF IInv
<1> QED  BY <1>1, Invariance, PTL

(* Galaxy knows the cached local games, in whatever order a call and an    *)
(* update come back from their threads (plugin.py 210-219, 241-244).       *)
THEOREM GalaxyKnowsTheCache == Spec => []ToldIsCached
<1>1. IInv => ToldIsCached  BY DEF IInv
<1> QED  BY <1>1, Invariance, PTL

(* No write to the persistent cache loses its mark (plugin.py 221-226).    *)
THEOREM NoWriteIsLost == Spec => []UnpushedIsMarked
<1>1. IInv => UnpushedIsMarked  BY DEF IInv
<1> QED  BY <1>1, Invariance, PTL

--------------------------------------------------------------------------------
(* What is read.                                                           *)

(* The registry knows no game without a manifest.                          *)
InstalledIsListed == \A game \in Games : registry[game] # "none" => game \in manifests

(* What a reading holds so far is what the machine has.                    *)
HoldsTheMachine(r) == readers[r].at \in {"states", "read"} => readers[r].result = registry

(* A reading is current, or known to be none, or the monitor will start    *)
(* one after it, or the update that it started is under way and will       *)
(* overtake this one or be overtaken by it.                                *)
IsFresh(r) ==
    Reading(r) => \/ touched \/ readers[r].failed \/ readers[r].overlapped
                  \/ r = "call" /\ Reading("update")
                  \/ HoldsTheMachine(r)

CacheIsFresh ==
    cache # NotRead /\ ~astray =>
        touched \/ Reading("call") \/ Reading("update") \/ cache = registry

FreshInv == InstalledIsListed /\ IsFresh("call") /\ IsFresh("update") /\ CacheIsFresh

LEMMA MachineFresh ==
    ASSUME IInv, FreshInv, NEW game \in Games, NEW state \in States,
           WriteManifest(game) \/ SetRegistry(game, state)
    PROVE  FreshInv'
<1>1. readers' = readers /\ cache' = cache /\ astray' = astray
  BY DEF WriteManifest, SetRegistry, Change, local
<1>2. CASE WriteManifest(game)
  <2>1. /\ registry' = registry /\ touched' = touched /\ registry[game] = "none"
        /\ manifests' = manifests \cup {game} \/ manifests' = manifests \ {game}
    BY <1>2 DEF WriteManifest
  <2>2. InstalledIsListed'  BY <2>1 DEF FreshInv, InstalledIsListed
  <2> QED  BY <1>1, <2>1, <2>2
           DEF FreshInv, IsFresh, CacheIsFresh, Reading, HoldsTheMachine
<1>3. CASE SetRegistry(game, state)
  <2>1. /\ registry' = [registry EXCEPT ![game] = state] /\ touched' = TRUE
        /\ manifests' = manifests /\ game \in manifests
    BY <1>3 DEF SetRegistry
  <2>2. registry \in [Games -> States]  BY DEF IInv, TypeOK, Readings
  <2>3. InstalledIsListed'  BY <2>1, <2>2 DEF FreshInv, InstalledIsListed
  <2> QED  BY <2>1, <2>3 DEF FreshInv, IsFresh, CacheIsFresh
<1> QED  BY <1>2, <1>3

(* A reader that goes on goes on reading.                                  *)
LEMMA GoesOnFresh ==
    ASSUME IInv, FreshInv, NEW r \in ReaderNames, NEW at, at \in {"begun", "states"},
           NEW reader \in Readers, Reads(r, at, reader),
           reader.at \in {"states", "read"},
           reader.overlapped = readers[r].overlapped,
           readers[r].failed => reader.failed,
           HoldsTheMachine(r) => HoldsTheMachine(r)' \/ reader.failed
    PROVE  FreshInv'
<1>1. /\ readers \in [ReaderNames -> Readers] /\ readers[r].at \in {"begun", "states"}
      /\ readers' = [readers EXCEPT ![r] = reader]
      /\ UNCHANGED <<manifests, registry, touched, cache, astray>>
  BY ReaderTypes DEF Reads, IInv, machine
<1>2. readers'[r] = reader /\ \A other \in ReaderNames \ {r} : readers'[other] = readers[other]
  BY <1>1
<1>3. Reading(r) /\ Reading(r)'  BY <1>1, <1>2 DEF Reading
<1>4. \A other \in ReaderNames \ {r} : Reading(other)' <=> Reading(other)
  BY <1>2 DEF Reading
<1>5. r = "call" \/ r = "update"  BY DEF ReaderNames
<1>6. (Reading("call")' <=> Reading("call")) /\ (Reading("update")' <=> Reading("update"))
  BY <1>2, <1>3, <1>5 DEF Reading, ReaderNames
<1>7. IsFresh(r)'
  <2>1. IsFresh(r)  BY <1>5 DEF FreshInv
  <2> QED  BY <1>1, <1>2, <1>3, <1>6, <2>1 DEF IsFresh
<1>8. ASSUME NEW other \in ReaderNames \ {r} PROVE IsFresh(other)'
  <2>1. IsFresh(other)  BY DEF FreshInv, ReaderNames
  <2>2. HoldsTheMachine(other)' = HoldsTheMachine(other)  BY <1>1, <1>2 DEF HoldsTheMachine
  <2> QED  BY <1>1, <1>2, <1>4, <1>6, <2>1, <2>2 DEF IsFresh
<1>9. IsFresh("call")' /\ IsFresh("update")'  BY <1>5, <1>7, <1>8 DEF ReaderNames
<1>10. InstalledIsListed'  BY <1>1 DEF FreshInv, InstalledIsListed
<1>11. CacheIsFresh'  BY <1>1, <1>6 DEF FreshInv, CacheIsFresh
<1> QED  BY <1>9, <1>10, <1>11 DEF FreshInv

LEMMA ReadingFresh ==
    ASSUME IInv, FreshInv, NEW r \in ReaderNames, ReadingStep(r)
    PROVE  FreshInv'
<1>1. PICK at \in {"begun", "states"}, reader \in Readers : MakesOf(r, at, reader)
  BY ReadingMakes
<1>2. /\ readers \in [ReaderNames -> Readers] /\ manifests \in SUBSET Games
      /\ registry \in Readings /\ \A game \in Games : registry[game] # "none" => game \in manifests
  BY ReaderTypes DEF IInv, TypeOK, FreshInv, InstalledIsListed
<1>3. readers'[r] = reader /\ registry' = registry /\ readers[r].at = at
  BY <1>1, <1>2 DEF MakesOf, Reads, machine
<1>4. HoldsTheMachine(r) => HoldsTheMachine(r)' \/ reader.failed
  <2>1. CASE reader.failed  BY <2>1
  <2>2. CASE reader.result = registry  BY <1>3, <2>2 DEF HoldsTheMachine
  <2>3. CASE at = "states" /\ reader.result = Only(readers[r].result, manifests)
    <3>1. Only(registry, manifests) = registry  BY <1>2 DEF Only, Readings
    <3>2. HoldsTheMachine(r) => reader.result = registry  BY <1>3, <2>3, <3>1 DEF HoldsTheMachine
    <3> QED  BY <1>3, <3>2 DEF HoldsTheMachine
  <2> QED  BY <1>1, <2>1, <2>2, <2>3 DEF MakesOf
<1> QED  BY <1>1, <1>4, GoesOnFresh DEF MakesOf

(* Whoever caches first makes the other one's reading an overtaken one.    *)
LEMMA CachesFresh ==
    ASSUME IInv, FreshInv, NEW r \in ReaderNames, NEW reader \in Readers, Caches(r, reader),
           reader.at \notin {"begun", "states", "read"}, UNCHANGED machine
    PROVE  FreshInv'
<1> DEFINE o == Other(r)
<1>1. /\ readers \in [ReaderNames -> Readers] /\ o \in ReaderNames /\ o # r
      /\ r = "call" \/ r = "update"
      /\ ReaderNames = {r, o}
  BY ReaderTypes DEF IInv, Other, ReaderNames
<1>2. /\ manifests' = manifests /\ registry' = registry /\ touched' = touched
      /\ readers[r].at = "read" /\ cache' = readers[r].result
      /\ astray' = (readers[r].failed \/ readers[r].overlapped)
  BY DEF Caches, machine
<1>3. /\ readers'[r] = reader /\ readers'[o].at = readers[o].at
      /\ Reading(o) => readers'[o].overlapped
  <2> DEFINE late  == readers[o].at \in {"begun", "states", "read"}
             first == [readers EXCEPT ![r] = reader]
  <2>1. readers' = [first EXCEPT ![o].overlapped = late]  BY DEF Caches
  <2>2. first \in [ReaderNames -> Readers] /\ first[r] = reader /\ first[o] = readers[o]
    BY <1>1
  <2>3. first[o] \in Readers /\ late \in BOOLEAN /\ (Reading(o) => late)
    BY <1>1, <2>2 DEF Reading
  <2> HIDE DEF first, late, o
  <2>4. /\ [first[o] EXCEPT !.overlapped = late].at = first[o].at
        /\ [first[o] EXCEPT !.overlapped = late].overlapped = late
    BY <2>3 DEF Readers
  <2>5. readers' = [first EXCEPT ![o] = [first[o] EXCEPT !.overlapped = late]]
    BY <2>1
  <2>6. readers'[o] = [first[o] EXCEPT !.overlapped = late] /\ readers'[r] = reader
    BY <1>1, <2>2, <2>5
  <2> QED  BY <2>2, <2>3, <2>4, <2>6
<1> HIDE DEF o
<1>4. ~Reading(r)' /\ Reading(o)' = Reading(o)  BY <1>3 DEF Reading
<1>5. IsFresh(r)' /\ IsFresh(o)'  BY <1>3, <1>4 DEF IsFresh
<1>6. IsFresh("call")' /\ IsFresh("update")'  BY <1>1, <1>5 DEF ReaderNames
<1>7. InstalledIsListed'  BY <1>2 DEF FreshInv, InstalledIsListed
<1>8. CacheIsFresh'
  <2> SUFFICES ASSUME ~astray', ~touched'
               PROVE  Reading("call")' \/ Reading("update")' \/ cache' = registry'
    BY DEF CacheIsFresh
  <2>1. IsFresh(r) /\ Reading(r)  BY <1>1, <1>2 DEF FreshInv, Reading
  <2>2. (r = "call" /\ Reading("update")) \/ HoldsTheMachine(r)
    BY <1>2, <2>1 DEF IsFresh
  <2>3. CASE HoldsTheMachine(r)  BY <1>2, <2>3 DEF HoldsTheMachine
  <2>4. CASE r = "call" /\ Reading("update")
    <3>1. o = "update"  BY <2>4 DEF o, Other
    <3> QED  BY <1>4, <2>4, <3>1
  <2> QED  BY <2>2, <2>3, <2>4
<1> QED  BY <1>6, <1>7, <1>8 DEF FreshInv

(* A reading begins: the monitor may forget what it saw only for an update.*)
LEMMA BeginFresh ==
    ASSUME IInv, FreshInv, NEW r \in ReaderNames, readers[r].at = "off",
           readers' = [readers EXCEPT ![r] = Begins],
           UNCHANGED <<manifests, registry, cache, astray>>,
           touched' = touched \/ r = "update"
    PROVE  FreshInv'
<1>1. readers \in [ReaderNames -> Readers]  BY ReaderTypes DEF IInv
<1>2. Begins.at = "begun"  BY DEF Begins, Rests
<1>3. readers'[r] = Begins /\ \A other \in ReaderNames \ {r} : readers'[other] = readers[other]
  BY <1>1
<1>4. Reading(r)' /\ HoldsTheMachine(r)'  BY <1>2, <1>3 DEF Reading, HoldsTheMachine
<1>5. IsFresh(r)'  BY <1>4 DEF IsFresh
<1>6. CASE r = "call"
  <2>1. readers'["update"] = readers["update"] /\ touched' = touched
    BY <1>3, <1>6 DEF ReaderNames
  <2>2. IsFresh("update")'
    BY <2>1 DEF FreshInv, IsFresh, Reading, HoldsTheMachine
  <2>3. InstalledIsListed' /\ CacheIsFresh'
    BY <1>4, <1>6 DEF FreshInv, InstalledIsListed, CacheIsFresh
  <2> QED  BY <1>5, <1>6, <2>2, <2>3 DEF FreshInv
<1>7. CASE r = "update"
  <2>1. IsFresh("call")'  BY <1>4, <1>7 DEF IsFresh
  <2>2. InstalledIsListed' /\ CacheIsFresh'
    BY <1>4, <1>7 DEF FreshInv, InstalledIsListed, CacheIsFresh
  <2> QED  BY <1>5, <1>7, <2>1, <2>2 DEF FreshInv
<1> QED  BY <1>6, <1>7 DEF ReaderNames

(* Steps of the pushing, and the end of a pause.                           *)
LEMMA RestsFresh ==
    ASSUME IInv, FreshInv, UNCHANGED <<manifests, registry, touched, cache, astray>>,
           readers' = readers \/ UpdateEnds
    PROVE  FreshInv'
<1>1. CASE readers' = readers
  BY <1>1 DEF FreshInv, InstalledIsListed, IsFresh, CacheIsFresh, Reading, HoldsTheMachine
<1>2. CASE UpdateEnds
  <2>1. /\ readers \in [ReaderNames -> Readers] /\ readers["update"].at = "cooling"
        /\ readers' = [readers EXCEPT !["update"] = Rests]
    BY <1>2, ReaderTypes DEF UpdateEnds, Reads, IInv, ReaderNames
  <2>2. readers'["update"].at = "off" /\ readers'["call"] = readers["call"]
    BY <2>1, NewReaders DEF ReaderNames
  <2>3. ~Reading("update") /\ ~Reading("update")'  BY <2>1, <2>2 DEF Reading
  <2> QED  BY <2>2, <2>3
           DEF FreshInv, InstalledIsListed, IsFresh, CacheIsFresh, Reading, HoldsTheMachine
<1> QED  BY <1>1, <1>2

LEMMA FreshStep == IInv /\ FreshInv /\ [Next]_vars => FreshInv'
<1> SUFFICES ASSUME IInv, FreshInv, [Next]_vars PROVE FreshInv'  OBVIOUS
<1>0. "call" \in ReaderNames /\ "update" \in ReaderNames  BY DEF ReaderNames
<1>1. ASSUME NEW game \in Games, WriteManifest(game) PROVE FreshInv'
  <2>1. "none" \in States  BY DEF States
  <2> QED  BY <1>1, <2>1, MachineFresh
<1>2. ASSUME NEW game \in Games, NEW state \in States, SetRegistry(game, state) PROVE FreshInv'
  BY <1>2, MachineFresh
<1>3. ASSUME NEW r \in ReaderNames, ReadingStep(r) PROVE FreshInv'
  BY <1>3, ReadingFresh
<1>4. CASE GetLocalGames
  <2>1. /\ readers["call"].at = "off" /\ readers' = [readers EXCEPT !["call"] = Begins]
        /\ UNCHANGED <<manifests, registry, cache, astray, touched>>
    BY <1>4 DEF GetLocalGames, machine
  <2> QED  BY <1>0, <2>1, BeginFresh
<1>5. CASE CallReturns
  <2>1. Caches("call", Rests) /\ UNCHANGED machine  BY <1>5 DEF CallReturns
  <2> QED  BY <1>0, <2>1, NewReaders, CachesFresh
<1>6. CASE UpdateReturns
  <2> DEFINE rests == [Rests EXCEPT !.at = "cooling"]
  <2>1. Caches("update", rests) /\ UNCHANGED machine  BY <1>6 DEF UpdateReturns
  <2>2. rests \in Readers /\ rests.at = "cooling"  BY NewReaders
  <2> HIDE DEF rests
  <2> QED  BY <1>0, <2>1, <2>2, CachesFresh
<1>7. CASE UpdateEnds
  <2>1. UNCHANGED <<manifests, registry, touched, cache, astray>>
    BY <1>7 DEF UpdateEnds, Reads, machine
  <2> QED  BY <1>7, <2>1, RestsFresh
<1>8. CASE WriteCache \/ StoreVersion \/ Push \/ PushEnds
  <2>1. UNCHANGED <<manifests, registry, touched, cache, astray, readers>>
    BY <1>8 DEF WriteCache, StoreVersion, Push, PushEnds, machine, local
  <2> QED  BY <2>1, RestsFresh
<1>9. CASE Tick
  <2>1. UNCHANGED <<manifests, registry, cache, astray>>  BY <1>9 DEF Tick
  <2>2. CASE UpdateIsDue
    <3>1. readers["update"].at = "off" /\ readers' = [readers EXCEPT !["update"] = Begins]
      BY <1>9, <2>2 DEF Tick, UpdateIsDue
    <3> QED  BY <1>0, <2>1, <3>1, BeginFresh
  <2>3. CASE ~UpdateIsDue
    <3>1. touched' = touched /\ readers' = readers  BY <1>9, <2>3 DEF Tick
    <3> QED  BY <2>1, <3>1, RestsFresh
  <2> QED  BY <2>2, <2>3
<1>10. CASE UNCHANGED vars
  <2>1. UNCHANGED <<manifests, registry, touched, cache, astray, readers>>
    BY <1>10 DEF vars, machine, local
  <2> QED  BY <2>1, RestsFresh
<1> QED  BY <1>1, <1>2, <1>3, <1>4, <1>5, <1>6, <1>7, <1>8, <1>9, <1>10 DEF Next, ReadingStep

(* When nobody reads and the monitor has nothing to tell, Galaxy knows the *)
(* games as they are - if what was cached last neither failed nor was      *)
(* overtaken - for any games and however the two readings and the changes  *)
(* interleave (plugin.py 210-219, 231-236, 241-244; client.py 133-149): the*)
(* safety half of ChangesAreTold.                                          *)
THEOREM QuietCurrent == Spec => []QuietIsCurrent
<1>1. Init => FreshInv
  <2> SUFFICES ASSUME Init PROVE FreshInv  OBVIOUS
  <2>1. ~Reading("call") /\ ~Reading("update")
    BY NewReaders DEF Init, Reading, ReaderNames
  <2> QED  BY <2>1 DEF Init, FreshInv, InstalledIsListed, IsFresh, CacheIsFresh
<1>2. IInv /\ FreshInv /\ [Next]_vars => FreshInv'  BY FreshStep
<1>3. IInv /\ FreshInv => QuietIsCurrent
  <2> SUFFICES ASSUME IInv, FreshInv, cache # NotRead, ~astray, ~touched,
                      \A r \in ReaderNames : ~Reading(r)
               PROVE  told = Machines
    BY DEF QuietIsCurrent
  <2>1. told = cache /\ cache = registry
    BY DEF IInv, ToldIsCached, FreshInv, CacheIsFresh, ReaderNames
  <2>2. registry \in [Games -> States]  BY DEF IInv, TypeOK, Readings
  <2>3. \A game \in Games : Machines[game] = registry[game]
    BY DEF Machines, FreshInv, InstalledIsListed
  <2>4. Machines = registry  BY <2>2, <2>3 DEF Machines
  <2> QED  BY <2>1, <2>4
<1> QED  BY <1>1, <1>2, <1>3, Invariance, PTL DEF Spec
================================================================================
