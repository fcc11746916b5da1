------------------------------- MODULE PluginLoop -------------------------------
(***************************************************************************)
(* The plugin's own loop (plugin.py 210-244): the tick, which has the      *)
(* local games read again when the registry changed and the persistent     *)
(* cache pushed when it was modified; Galaxy's call for the local games;   *)
(* and the reading of them on an executor thread (client.py 127-163).      *)
(*                                                                         *)
(* A game that is not listed and one listed with LocalGameState.None_ are  *)
(* both "none".  The backend's part of the tick is in GamesImport and      *)
(* Credentials.                                                            *)
(***************************************************************************)
EXTENDS Integers

CONSTANTS
    Games,
    NotRead,     \* the local games before they are first read
    MaxChanges,  \* bound: changes of the machine
    MaxCalls,    \* bound: Galaxy's calls for the local games
    MaxFailures, \* bound: readings that fail
    MaxCooling   \* bound: pushes whose pause is not over

ASSUME BoundAssumption ==
    MaxChanges \in Nat /\ MaxCalls \in Nat /\ MaxFailures \in Nat /\ MaxCooling \in Nat

ASSUME NotReadAssumption == NotRead \notin [Games -> {"none", "installed", "running"}]

VARIABLES
    manifests,  \* the games with an app manifest in a library folder
    registry,   \* Steam's registry: the state of each game
    touched,    \* whether the registry changed since the monitor was asked
    readers,    \* the two coroutines that read the local games
    cache,      \* _local_games_cache
    told,       \* what Galaxy was last told of each game
    astray,     \* history: whether the cached reading failed or overlapped one
                \* that was cached before it
    modified,   \* _persistent_storage_state.modified
    unpushed,   \* history: whether the persistent cache differs from Galaxy's
    scheduled,  \* whether the tick has created a push that has not started
    cooling,    \* pushes in their pause
    changes, calls, failures  \* counters for the bounds

machine == <<manifests, registry, touched, changes>>
local   == <<readers, cache, told, astray, calls, failures>>
pushing == <<modified, unpushed, scheduled, cooling>>
vars    == <<machine, local, pushing>>

States == {"none", "installed", "running"}

Readings == [Games -> States]

(* The call, and the task of the tick: where it stands, what it read so    *)
(* far, whether that failed somewhere and whether the other one cached a   *)
(* reading meanwhile.                                                      *)
ReaderNames == {"call", "update"}

Other(r) == IF r = "call" THEN "update" ELSE "call"

Nowhere == [game \in Games |-> "none"]

Rests == [at |-> "off", result |-> Nowhere, failed |-> FALSE, overlapped |-> FALSE]

Begins == [Rests EXCEPT !.at = "begun"]

Init ==
    /\ manifests \in SUBSET Games
    /\ registry \in Readings
    /\ \A game \in Games : registry[game] # "none" => game \in manifests
    /\ touched = FALSE
    /\ readers = [r \in ReaderNames |-> Rests]
    /\ cache = NotRead /\ told = Nowhere /\ astray = FALSE
    /\ modified = FALSE /\ unpushed = FALSE /\ scheduled = FALSE /\ cooling = 0
    /\ changes = 0 /\ calls = 0 /\ failures = 0

--------------------------------------------------------------------------------
(* The machine.  Steam has a game's manifest whenever the registry calls   *)
(* it installed; only the registry is watched.                             *)

Change ==
    /\ changes < MaxChanges
    /\ changes' = changes + 1
    /\ UNCHANGED <<local, pushing>>

WriteManifest(game) ==
    /\ Change
    /\ registry[game] = "none"
    /\ manifests' \in {manifests \cup {game}, manifests \ {game}} \ {manifests}
    /\ UNCHANGED <<registry, touched>>

SetRegistry(game, state) ==
    /\ Change
    /\ state # registry[game] /\ game \in manifests
    /\ registry' = [registry EXCEPT ![game] = state]
    /\ touched' = TRUE
    /\ UNCHANGED manifests

--------------------------------------------------------------------------------
(* A reading, on its thread: first the registry; the manifests are globbed *)
(* lazily, in the loop that looks their games up in what was read there.   *)

Reads(r, at, reader) ==
    /\ readers[r].at = at
    /\ readers' = [readers EXCEPT ![r] = reader]
    /\ UNCHANGED <<machine, cache, told, astray, calls, pushing>>

(* The part of a reading that is about some games; of the others, nothing. *)
Only(reading, part) == [game \in Games |-> IF game \in part THEN reading[game] ELSE "none"]

ReadStates(r) ==
    /\ Reads(r, "begun", [readers[r] EXCEPT !.at = "states", !.result = registry])
    /\ UNCHANGED failures

ListGames(r) ==
    /\ Reads(r, "states",
             [readers[r] EXCEPT !.at = "read", !.result = Only(readers[r].result, manifests)])
    /\ UNCHANGED failures

\* Mutant of FailedReading: a reading that fails returns nothing at all.
NoReading(reading, part) == NotRead

(* Whatever goes wrong, and wherever, the part that was read is a result.  *)
FailedReading(reading, part) == Only(reading, part)

Fails ==
    /\ failures < MaxFailures
    /\ failures' = failures + 1

(* The registry ends early, or cannot be read at all; the listing goes on. *)
StatesFail(r, part) ==
    /\ Reads(r, "begun", [readers[r] EXCEPT !.at = "states", !.failed = TRUE,
                                            !.result = FailedReading(registry, part)])
    /\ Fails

(* The listing breaks off: the games before are returned.                  *)
ListingFails(r, part) ==
    /\ Reads(r, "states",
             [readers[r] EXCEPT !.at = "read", !.failed = TRUE,
                                !.result = FailedReading(readers[r].result, manifests \cap part)])
    /\ Fails

(* Back in the event loop with what the thread returned.                   *)
Caches(r, reader) ==
    /\ readers[r].at = "read"
    /\ cache' = readers[r].result
    /\ astray' = (readers[r].failed \/ readers[r].overlapped)
    /\ readers' = [readers EXCEPT
                      ![r] = reader,
                      ![Other(r)].overlapped = readers[Other(r)].at \in {"begun", "states", "read"}]

GetLocalGames ==
    /\ calls < MaxCalls /\ readers["call"].at = "off"
    /\ calls' = calls + 1
    /\ readers' = [readers EXCEPT !["call"] = Begins]
    /\ UNCHANGED <<machine, cache, told, astray, failures, pushing>>

CallReturns ==
    /\ Caches("call", Rests)
    /\ told' = readers["call"].result
    /\ UNCHANGED <<machine, calls, failures, pushing>>

\* Mutant of StateChanges: games that are gone are not among the changes.
ChangesOfListed(old, new) == { game \in Games : new[game] # "none" /\ old[game] # new[game] }

StateChanges(old, new) == { game \in Games : old[game] # new[game] }

UpdateReturns ==
    /\ Caches("update", [Rests EXCEPT !.at = "cooling"])
    /\ told' = [game \in Games |-> IF game \in StateChanges(cache, readers["update"].result)
                                   THEN readers["update"].result[game] ELSE told[game]]
    /\ UNCHANGED <<machine, calls, failures, pushing>>

UpdateEnds ==
    /\ Reads("update", "cooling", Rests)
    /\ UNCHANGED failures

--------------------------------------------------------------------------------
(* The persistent cache is written and marked without a wait between.      *)
WriteCache ==
    /\ modified' = TRUE /\ unpushed' = TRUE
    /\ UNCHANGED <<machine, local, scheduled, cooling>>

(* The version that a login stores is pushed at once, and all with it.     *)
StoreVersion ==
    /\ unpushed /\ unpushed' = FALSE
    /\ UNCHANGED <<machine, local, modified, scheduled, cooling>>

Push ==
    /\ scheduled /\ cooling < MaxCooling
    /\ scheduled' = FALSE /\ modified' = FALSE /\ unpushed' = FALSE
    /\ cooling' = cooling + 1
    /\ UNCHANGED <<machine, local>>

\* Mutant of PushEnds: the mark is taken off after the pause.
PushEndsUnmarking ==
    /\ cooling > 0
    /\ cooling' = cooling - 1 /\ modified' = FALSE
    /\ UNCHANGED <<machine, local, unpushed, scheduled>>

PushEnds ==
    /\ cooling > 0
    /\ cooling' = cooling - 1
    /\ UNCHANGED <<machine, local, modified, unpushed, scheduled>>

UpdateIsDue == cache # NotRead /\ readers["update"].at = "off" /\ touched

\* Mutant of Tick: the monitor is asked even if no task can be started.
TickAskingFirst ==
    /\ ~scheduled /\ (touched \/ modified)
    /\ touched' = FALSE
    /\ readers' = IF UpdateIsDue THEN [readers EXCEPT !["update"] = Begins] ELSE readers
    /\ scheduled' = modified
    /\ UNCHANGED <<manifests, registry, changes, cache, told, astray, calls, failures,
                   modified, unpushed, cooling>>

\* Mutant of Tick: the cache is looked at only with the local games.
TickNested ==
    /\ ~scheduled /\ UpdateIsDue
    /\ touched' = FALSE /\ readers' = [readers EXCEPT !["update"] = Begins]
    /\ scheduled' = modified
    /\ UNCHANGED <<manifests, registry, changes, cache, told, astray, calls, failures,
                   modified, unpushed, cooling>>

(* tick, at most one push of which waits to start: the event loop runs the *)
(* task of one tick before the next.                                       *)
Tick ==
    /\ ~scheduled /\ (UpdateIsDue \/ modified)
    /\ IF UpdateIsDue
       THEN touched' = FALSE /\ readers' = [readers EXCEPT !["update"] = Begins]
       ELSE UNCHANGED <<touched, readers>>
    /\ scheduled' = modified
    /\ UNCHANGED <<manifests, registry, changes, cache, told, astray, calls, failures,
                   modified, unpushed, cooling>>

Next ==
    \/ \E game \in Games : WriteManifest(game) \/ \E state \in States : SetRegistry(game, state)
    \/ \E r \in ReaderNames :
          \/ ReadStates(r) \/ ListGames(r)
          \/ \E part \in SUBSET Games : StatesFail(r, part) \/ ListingFails(r, part)
    \/ GetLocalGames \/ CallReturns \/ UpdateReturns \/ UpdateEnds
    \/ WriteCache \/ StoreVersion \/ Push \/ PushEnds \/ Tick

Spec == Init /\ [][Next]_vars

(* Galaxy ticks once a second, threads end, the loop runs what is ready.   *)
FairSpec ==
    /\ Spec
    /\ WF_vars(Tick) /\ WF_vars(Push) /\ WF_vars(PushEnds)
    /\ \A r \in ReaderNames : WF_vars(ReadStates(r)) /\ WF_vars(ListGames(r))
    /\ WF_vars(CallReturns) /\ WF_vars(UpdateReturns) /\ WF_vars(UpdateEnds)

--------------------------------------------------------------------------------
TypeOK ==
    /\ manifests \in SUBSET Games /\ registry \in Readings /\ touched \in BOOLEAN
    /\ readers \in [ReaderNames ->
           [at : {"off", "begun", "states", "read", "cooling"},
            result : Readings, failed : BOOLEAN, overlapped : BOOLEAN]]
    /\ cache \in Readings \cup {NotRead} /\ told \in Readings /\ astray \in BOOLEAN
    /\ modified \in BOOLEAN /\ unpushed \in BOOLEAN /\ scheduled \in BOOLEAN
    /\ cooling \in Nat /\ changes \in Nat /\ calls \in Nat /\ failures \in Nat

(* Galaxy knows exactly what is cached, whatever calls and updates cached  *)
(* in whichever order: the next differences are taken from what it knows   *)
(* (plugin.py 210-219, 241-244; client.py 152-163).                        *)
ToldIsCached == cache = NotRead \/ told = cache

(* What is not pushed is marked, though a push takes the mark off while    *)
(* others write (plugin.py 221-226).                                       *)
UnpushedIsMarked == unpushed => modified

Machines == [game \in Games |-> IF game \in manifests THEN registry[game] ELSE "none"]

Reading(r) == readers[r].at \in {"begun", "states", "read"}

(* When nobody reads and no change of the registry waits for the tick,     *)
(* Galaxy knows the games as they are: a change before, between or after   *)
(* the registry's reading and the listing of either reader is never passed *)
(* over.  Of a last reading that failed or was overtaken it says nothing   *)
(* (plugin.py 210-219, 231-236, 241-244; client.py 133-149).               *)
QuietIsCurrent ==
    cache # NotRead /\ ~astray /\ ~touched /\ (\A r \in ReaderNames : ~Reading(r))
        => told = Machines

(* Once the games stop changing, Galaxy knows them as they are, whenever   *)
(* the registry changed and was looked at - but for a last reading that    *)
(* failed, in whole or in part, or was overtaken by another: these are     *)
(* left to the next change (plugin.py 231-236, 214-216; client.py 133-149).*)
ChangesAreTold == <>[](cache = NotRead \/ astray \/ told = Machines)

(* The cache that was written is pushed (plugin.py 238-239).               *)
CacheIsPushed == unpushed ~> ~unpushed

(* A push waits for the pause of the one before it: the comment of         *)
(* plugin.py 224-226.                                                      *)
PushesAreSpaced == [][Push => cooling = 0]_vars
================================================================================
