------------------------------ MODULE GamesImport ------------------------------
(***************************************************************************)
(* The import of owned games: Steam's licence lists and product infos as   *)
(* protocol_client.py and protobuf_client.py handle them, the games cache  *)
(* they fill (games_cache.py), and the three ways the plugin reads it      *)
(* (backend_steam_network.py): the walk over the owned games, the walk     *)
(* over the shared ones, and the tick that adds games found later.         *)
(*                                                                         *)
(* One product info message at a time is handled on an executor thread,    *)
(* while the walks and the tick go on in the event loop: the steps of the  *)
(* one interleave with those of the others.  A dump of the cache holds the *)
(* event loop until it ends, but not the thread.                           *)
(***************************************************************************)
EXTENDS Integers, Sequences, FiniteSets, Bags

CONSTANTS
    Packages,      \* Steam's packages
    Apps,          \* its applications
    AppsOf,        \* per package, the applications in it
    Games,         \* the applications of type 'game'
    LicenseLists,  \* the licence lists Steam may send for the user
    Threshold,     \* the number of packages from which no cache is reset
    MaxLists,      \* bound: licence lists in one session
    MaxPlays,      \* bound: applications the user is seen playing
    MaxWalks,      \* bound: walks over the licences in one session
    MaxRestarts    \* bound: crashes of the plugin

Kinds == {"owned", "shared"}

Entries == [package : Packages, shared : BOOLEAN, apps : SUBSET Apps]

ASSUME AppsAssumption ==
    /\ AppsOf \in [Packages -> SUBSET Apps]
    /\ Games \subseteq Apps /\ Packages \cap Apps = {}
    /\ LicenseLists \subseteq Seq([package : Packages, shared : BOOLEAN])

ASSUME BoundAssumption ==
    {Threshold, MaxLists, MaxPlays, MaxWalks, MaxRestarts} \subseteq Nat

VARIABLES
    licenses,  \* _storing_map.licenses
    apps,      \* the keys of _storing_map.apps
    packagesToParse, appsToParse,  \* _parsing_status
    ready,     \* _ready_event
    lever,     \* add_game_lever: whether apps found from now on are added
    sent,      \* _sent_apps
    added,     \* _apps_added
    parsed,    \* _owned_games_parsed: whether the tick adds games
    stored,    \* the persistent cache: licenses and apps as last dumped
    dump,      \* the dump under way: for whom, the games it is to be followed
               \* by, and the licences it has got
    walk,      \* per kind, its walk over the licences
    told,      \* the games Galaxy was told the user owns
    imported,  \* whether an import of the owned games has succeeded
    unsaid,    \* history: games noted as sent by what then told nobody
    loaded,    \* history: what the cache was taken up with and has kept
    listed,    \* history: the packages of Steam's first list
    requests,  \* product info requests: of each, the ids not answered yet
    thread,    \* the message handled on the executor thread
    lists, plays, walks, restarts  \* counters for the bounds

map      == <<licenses, apps>>
status   == <<packagesToParse, appsToParse, ready>>
adding   == <<lever, sent, added, parsed>>
storage  == <<stored, dump>>
galaxy   == <<walk, told, imported, unsaid>>
session  == <<loaded, listed>>
counters == <<lists, plays, walks, restarts>>
vars     == <<map, status, adding, storage, galaxy, session, requests, thread, counters>>

(* A walk keeps the list it started on: 'detached' once that list was      *)
(* replaced by a new one, and 'list' what it was then.                     *)
NoWalk == [at |-> 0, detached |-> FALSE, list |-> <<>>, found |-> {}]

NoCache == [licenses |-> <<>>, apps |-> {}]

NoDump == [by |-> "none", games |-> {}, licenses |-> <<>>]

Idle == [busy |-> FALSE, ids |-> {}, package |-> {}, toList |-> {}, found |-> {}]

Init ==
    /\ licenses = <<>> /\ apps = {}
    /\ packagesToParse = 0 /\ appsToParse = 0 /\ ready = FALSE
    /\ lever = FALSE /\ sent = {} /\ added = {} /\ parsed = FALSE
    /\ stored = NoCache /\ dump = NoDump
    /\ walk = [kind \in Kinds |-> NoWalk] /\ told = {} /\ imported = FALSE
    /\ unsaid = {} /\ loaded = NoCache /\ listed = {}
    /\ requests = EmptyBag /\ thread = Idle
    /\ lists = 0 /\ plays = 0 /\ walks = 0 /\ restarts = 0

PackageIds == { licenses[i].package : i \in DOMAIN licenses }

ListedIn(list) == { list[i].package : i \in DOMAIN list }

\* Mutant of ResolvedPackages: a package with any application is resolved.
ListedPackages ==
    { licenses[i].package : i \in { j \in DOMAIN licenses : licenses[j].apps # {} } }

ResolvedIn(cache) ==
    { cache.licenses[i].package : i \in
        { j \in DOMAIN cache.licenses : /\ cache.licenses[j].apps # {}
                                       /\ cache.licenses[j].apps \subseteq cache.apps } }

ResolvedPackages == ResolvedIn([licenses |-> licenses, apps |-> apps])

UpdateReady == ready' = (packagesToParse' = 0 /\ appsToParse' = 0)

\* Nothing is sent for an empty set of ids: it is as good as answered.
Ask(ids) == requests' = IF ids = {} THEN requests ELSE requests (+) SetToBag({ids})

(* A walk under way goes on over the list that is thrown away.             *)
Detach ==
    walk' = [kind \in Kinds |->
                IF walk[kind].at > 0 /\ ~walk[kind].detached
                THEN [walk[kind] EXCEPT !.detached = TRUE, !.list = licenses]
                ELSE walk[kind]]

(* start_packages_import and get_packages_info.  The ids of the list are   *)
(* ints and those of the cache are strings, so none is ever skipped.       *)
StartImport(old, list) ==
    /\ licenses' = old \o [i \in DOMAIN list |->
            [package |-> list[i].package, shared |-> list[i].shared, apps |-> {}]]
    /\ packagesToParse' = Len(list) /\ appsToParse' = 0
    /\ UpdateReady
    /\ Ask(ListedIn(list))

Unresolved(list) == { i \in DOMAIN list : list[i].package \notin ResolvedPackages }

(* The entries of the list at these places, in the list's order.           *)
Filtered(list, places) ==
    { [n \in DOMAIN order |-> list[order[n]]] : order \in
        { f \in [1..Cardinality(places) -> places] :
            \A m, n \in DOMAIN f : m < n => f[m] < f[n] } }

(* Steam sends the user's licences: a list that differs from the cached    *)
(* one replaces it, otherwise what is not resolved is imported again.      *)
LicenseList(list) ==
    /\ lists < MaxLists /\ ~thread.busy
    /\ lists' = lists + 1
    /\ IF Cardinality(ListedIn(list)) < Threshold /\ ListedIn(list) # PackageIds
       THEN /\ Detach
            /\ apps' = {} /\ loaded' = NoCache
            /\ StartImport(<<>>, list)
       ELSE /\ \E rest \in Filtered(list, Unresolved(list)) : StartImport(licenses, rest)
            /\ UNCHANGED <<apps, walk, loaded>>
    /\ listed' = IF lists = 0 THEN ListedIn(list) ELSE listed
    /\ UNCHANGED <<adding, storage, told, imported, unsaid, thread, plays, walks, restarts>>

(* The user is seen playing: the application's info is asked for.          *)
Play(a) ==
    /\ plays < MaxPlays /\ lists > 0 /\ ~thread.busy
    /\ plays' = plays + 1
    /\ Ask({a})
    /\ UNCHANGED <<map, status, adding, storage, galaxy, session, thread, lists, walks,
                   restarts>>

--------------------------------------------------------------------------------
(* Product infos                                                           *)

(* Steam answers a request, in as many messages as it likes; the message   *)
(* is handed to the thread.                                                *)
ProductInfo(request, ids) ==
    /\ ~thread.busy
    /\ BagIn(request, requests)
    /\ ids # {} /\ ids \subseteq request
    /\ thread' = [Idle EXCEPT !.busy = TRUE, !.ids = ids]
    /\ LET others == requests (-) SetToBag({request})
       IN  requests' = IF ids = request THEN others ELSE others (+) SetToBag({request \ ids})
    /\ UNCHANGED <<map, status, adding, storage, galaxy, session, counters>>

(* update_packages: the package is counted off, its apps come next.        *)
CountPackage(p) ==
    /\ thread.toList = {} /\ p \in thread.ids
    /\ thread' = [thread EXCEPT !.ids = @ \ {p}, !.package = {p}, !.toList = AppsOf[p]]
    /\ packagesToParse' = packagesToParse - 1
    /\ UNCHANGED appsToParse
    /\ UpdateReady
    /\ UNCHANGED <<map, adding, storage, galaxy, session, requests, counters>>

(* update_license_apps: the app is counted, and listed in every licence of *)
(* its package.                                                            *)
ListApp(a) ==
    /\ a \in thread.toList
    /\ thread' = [thread EXCEPT !.toList = @ \ {a}, !.found = @ \cup {a}]
    /\ appsToParse' = appsToParse + 1
    /\ licenses' = [i \in DOMAIN licenses |->
            IF licenses[i].package \in thread.package
            THEN [licenses[i] EXCEPT !.apps = @ \cup {a}] ELSE licenses[i]]
    /\ UNCHANGED <<apps, packagesToParse, ready, adding, storage, galaxy, session, requests,
                   counters>>

\* Mutant of Added: an app is added only while no import is under way.
AddedWhenReady(a) == IF lever /\ ready /\ a \notin sent THEN added \cup {a} ELSE added

Added(a) == IF lever /\ a \notin sent THEN added \cup {a} ELSE added

(* The app is counted off once for every licence it is listed in.          *)
CountOff(a) == Cardinality({ i \in DOMAIN licenses : a \in licenses[i].apps })

(* update_app_title.                                                       *)
TitleApp(a) ==
    /\ a \in thread.ids
    /\ thread' = [thread EXCEPT !.ids = @ \ {a}]
    /\ appsToParse' = appsToParse - CountOff(a)
    /\ apps' = apps \cup {a}
    /\ added' = Added(a)
    /\ UNCHANGED packagesToParse
    /\ UpdateReady
    /\ UNCHANGED <<licenses, lever, sent, parsed, storage, galaxy, session, requests,
                   counters>>

(* The thread is done, and the apps it found are asked for.                *)
Finish ==
    /\ thread.busy /\ thread.ids = {} /\ thread.toList = {}
    /\ thread' = Idle
    /\ Ask(thread.found)
    /\ UNCHANGED <<map, status, adding, storage, galaxy, session, counters>>

--------------------------------------------------------------------------------
(* Reading the cache                                                       *)

\* These were noted as sent, and nobody is told them for that.
Unsaid(games) == unsaid' = unsaid \cup (games \ (told \cup added))

(* The dump goes over the licences, and then over the applications.  What  *)
(* called it goes on only when it ends.                                    *)
StartDump(by, games) == dump' = [by |-> by, games |-> games, licenses |-> <<>>]

DumpOn ==
    /\ dump.by # "none" /\ Len(dump.licenses) < Len(licenses)
    /\ dump' = [dump EXCEPT !.licenses = Append(@, licenses[Len(@) + 1])]
    /\ UNCHANGED <<map, status, adding, stored, galaxy, session, requests, thread, counters>>

(* Stored; the import returns its games, or the tick adds them.            *)
DumpEnds ==
    /\ dump.by # "none" /\ Len(dump.licenses) = Len(licenses)
    /\ stored' = [licenses |-> dump.licenses, apps |-> apps]
    /\ told' = told \cup dump.games
    /\ imported' = (imported \/ dump.by = "import")
    /\ dump' = NoDump
    /\ UNCHANGED <<map, status, adding, walk, unsaid, session, requests, thread, counters>>

(* The thread lists an application in the very set the dump iterates over, *)
(* or adds one to the dictionary: Python raises, and the import fails or   *)
(* the tick's task dies.                                                   *)
DumpBreaks ==
    /\ dump.by # "none"
    /\ LET next == Len(dump.licenses) + 1 IN
       IF next \in DOMAIN licenses
       THEN /\ licenses[next].package \in thread.package
            /\ thread.toList \ licenses[next].apps # {}
       ELSE (thread.ids \cap Apps) \ apps # {}
    /\ Unsaid(dump.games)
    /\ dump' = NoDump
    /\ UNCHANGED <<map, status, adding, stored, walk, told, imported, session, requests,
                   thread, counters>>

(* A walk starts when the cache is ready, or after 90 seconds.             *)
StartWalk(kind) ==
    /\ walk[kind].at = 0 /\ walks < MaxWalks
    /\ walks' = walks + 1
    /\ walk' = [walk EXCEPT ![kind] = [NoWalk EXCEPT !.at = 1]]
    /\ lever' = (lever \/ kind = "owned")
    /\ UNCHANGED <<map, status, sent, added, parsed, storage, told, imported, unsaid,
                   session, requests, thread, lists, plays, restarts>>

Walked(kind) == IF walk[kind].detached THEN walk[kind].list ELSE licenses

Here(kind) == Walked(kind)[walk[kind].at]

(* The walk handles one licence and sleeps.                                *)
WalkOn(kind) ==
    /\ walk[kind].at \in DOMAIN Walked(kind)
    /\ LET games == IF Here(kind).shared = (kind = "shared")
                    THEN Here(kind).apps \cap apps \cap Games ELSE {}
       IN  /\ sent' = sent \cup games
           /\ walk' = [walk EXCEPT ![kind].at = @ + 1, ![kind].found = @ \cup games]
           /\ Unsaid(IF kind = "shared" THEN games ELSE {})
    /\ UNCHANGED <<map, status, lever, added, parsed, storage, told, imported, session,
                   requests, thread, counters>>

(* get_owned_games has its games, and dumps the cache.                     *)
OwnedWalked ==
    /\ walk["owned"].at = Len(Walked("owned")) + 1
    /\ StartDump("import", walk["owned"].found)
    /\ walk' = [walk EXCEPT !["owned"] = NoWalk]
    /\ parsed' = TRUE
    /\ UNCHANGED <<map, status, lever, sent, added, stored, told, imported, unsaid, session,
                   requests, thread, counters>>

(* get_subscription_games returns, or get_subscriptions without a game.    *)
SharedWalked ==
    /\ walk["shared"].at = Len(Walked("shared")) + 1
    /\ walk' = [walk EXCEPT !["shared"] = NoWalk]
    /\ UNCHANGED <<map, status, adding, storage, told, imported, unsaid, session, requests,
                   thread, counters>>

(* get_subscriptions returns on the first shared game.                     *)
SharedFound(g) ==
    /\ walk["shared"].at \in DOMAIN Walked("shared") /\ walk["shared"].found = {}
    /\ Here("shared").shared /\ g \in Here("shared").apps \cap apps \cap Games
    /\ sent' = sent \cup {g} /\ Unsaid({g})
    /\ walk' = [walk EXCEPT !["shared"] = NoWalk]
    /\ UNCHANGED <<map, status, lever, added, parsed, storage, told, imported, session,
                   requests, thread, counters>>

(* The thread lists an app in the very set a walk iterates over: Python    *)
(* raises, after the walk has sent some of the set's games.                *)
WalkBreaks(kind, games) ==
    /\ walk[kind].at \in DOMAIN Walked(kind) /\ ~walk[kind].detached
    /\ Here(kind).package \in thread.package /\ thread.toList \ Here(kind).apps # {}
    /\ Here(kind).shared = (kind = "shared")
    /\ games \subseteq Here(kind).apps \cap apps \cap Games
    /\ sent' = sent \cup games /\ Unsaid(walk[kind].found \cup games)
    /\ walk' = [walk EXCEPT ![kind] = NoWalk]
    /\ parsed' = (parsed \/ kind = "owned")
    /\ UNCHANGED <<map, status, lever, added, storage, told, imported, session, requests,
                   thread, counters>>

\* Mutant of AddGames: what is found is added whatever its type.
AddApps ==
    /\ parsed /\ added # {}
    /\ sent' = sent \cup added
    /\ added' = {}
    /\ StartDump("tick", added)
    /\ UNCHANGED <<map, status, lever, parsed, stored, galaxy, session, requests, thread,
                   counters>>

(* The tick takes the games found since the lever is set, and if there are *)
(* any dumps the cache and then adds them.                                 *)
AddGames ==
    /\ parsed /\ added # {}
    /\ sent' = sent \cup added
    /\ added' = {}
    /\ IF added \cap Games # {} THEN StartDump("tick", added \cap Games) ELSE UNCHANGED dump
    /\ UNCHANGED <<map, status, lever, parsed, stored, galaxy, session, requests, thread,
                   counters>>

(* The plugin crashes and starts again from what it has stored.            *)
Restart ==
    /\ restarts < MaxRestarts
    /\ restarts' = restarts + 1
    /\ licenses' = stored.licenses /\ apps' = stored.apps
    /\ packagesToParse' = 0 /\ appsToParse' = 0 /\ ready' = FALSE
    /\ lever' = FALSE /\ sent' = {} /\ added' = {} /\ parsed' = FALSE
    /\ walk' = [kind \in Kinds |-> NoWalk] /\ told' = {} /\ imported' = FALSE
    /\ requests' = EmptyBag /\ thread' = Idle
    /\ lists' = 0 /\ plays' = 0 /\ walks' = 0
    /\ dump' = NoDump /\ unsaid' = {} /\ loaded' = stored /\ listed' = {}
    /\ UNCHANGED stored

--------------------------------------------------------------------------------
ThreadStep ==
    \/ \E p \in Packages : CountPackage(p)
    \/ \E a \in Apps : ListApp(a) \/ TitleApp(a)

DumpStep == DumpOn \/ DumpEnds \/ DumpBreaks

SteamAnswers ==
    \E request \in BagToSet(requests) : \E ids \in SUBSET request : ProductInfo(request, ids)

SteamStep ==
    \/ \E list \in LicenseLists : LicenseList(list)
    \/ \E a \in Apps : Play(a)
    \/ SteamAnswers

WalkStep ==
    \/ \E kind \in Kinds :
          \/ StartWalk(kind) \/ WalkOn(kind)
          \/ \E games \in SUBSET Games : WalkBreaks(kind, games)
    \/ OwnedWalked \/ SharedWalked
    \/ \E g \in Games : SharedFound(g)

(* While the cache is dumped the event loop does nothing else.             *)
Next ==
    \/ dump.by = "none" /\ (SteamStep \/ Finish \/ WalkStep \/ AddGames)
    \/ ThreadStep \/ DumpStep \/ Restart

Spec == Init /\ [][Next]_vars

(* Galaxy ticks the plugin for ever; walks, dumps and thread go on; Steam  *)
(* answers.                                                                *)
FairSpec ==
    /\ Spec
    /\ WF_vars(AddGames) /\ WF_vars(ThreadStep) /\ WF_vars(Finish) /\ WF_vars(SteamAnswers)
    /\ WF_vars(OwnedWalked) /\ \A kind \in Kinds : WF_vars(WalkOn(kind))
    /\ WF_vars(DumpOn \/ DumpEnds)

(***************************************************************************)
(* Properties                                                              *)
(***************************************************************************)
Caches == [licenses : Seq(Entries), apps : SUBSET Apps]

(* Every variable has its type; in particular only games are told to       *)
(* Galaxy, though the tick is handed applications of every type            *)
(* (games_cache.py:82-90).                                                 *)
TypeOK ==
    /\ licenses \in Seq(Entries) /\ apps \subseteq Apps
    /\ packagesToParse \in Int /\ appsToParse \in Int /\ ready \in BOOLEAN
    /\ lever \in BOOLEAN /\ parsed \in BOOLEAN /\ imported \in BOOLEAN
    /\ sent \subseteq Apps /\ added \subseteq Apps /\ told \subseteq Games
    /\ stored \in Caches /\ loaded \in Caches /\ listed \subseteq Packages
    /\ dump \in [by : {"none", "import", "tick"}, games : SUBSET Games, licenses : Seq(Entries)]
    /\ unsaid \subseteq Games
    /\ walk \in [Kinds -> [at : Nat, detached : BOOLEAN, list : Seq(Entries),
                           found : SUBSET Games]]
    /\ IsABag(requests) /\ BagToSet(requests) \subseteq SUBSET (Packages \cup Apps)
    /\ thread \in [busy : BOOLEAN, ids : SUBSET (Packages \cup Apps),
                   package : SUBSET Packages, toList : SUBSET Apps, found : SUBSET Apps]
    /\ lists \in 0..MaxLists /\ plays \in 0..MaxPlays /\ walks \in 0..MaxWalks
    /\ restarts \in 0..MaxRestarts

(* Steam owes the answer for an id, or the thread has it before it.        *)
Asked(id) == id \in thread.ids \/ \E request \in BagToSet(requests) : id \in request

\* An application is asked for, or will be once its package is answered.
Coming(a) ==
    \/ Asked(a) \/ a \in thread.found \cup thread.toList
    \/ \E p \in Packages : a \in AppsOf[p] /\ Asked(p)

\* Some licence of the same package and owner lists it, or the thread is at it.
Listed(license, a) ==
    \/ \E i \in DOMAIN licenses :
          /\ licenses[i].package = license.package /\ licenses[i].shared = license.shared
          /\ a \in licenses[i].apps
    \/ license.package \in thread.package /\ a \in thread.toList

\* Every application of the licence's package is listed and known, or is
\* being asked for.
Remembers(i) ==
    /\ \/ Asked(licenses[i].package)
       \/ \A a \in AppsOf[licenses[i].package] : Listed(licenses[i], a)
    /\ \A a \in licenses[i].apps : a \in apps \/ Coming(a)

\* A stored entry: all of the package's applications are listed for its
\* owner, and those it lists are known.
Whole(entry, cache) ==
    /\ entry.apps \subseteq cache.apps
    /\ \A a \in AppsOf[entry.package] : \E i \in DOMAIN cache.licenses :
          /\ cache.licenses[i].package = entry.package
          /\ cache.licenses[i].shared = entry.shared
          /\ a \in cache.licenses[i].apps

\* Taken up from storage as resolved, though it lacks an application.
TakenUpHalf(package) ==
    /\ package \in ResolvedIn(loaded)
    /\ \E i \in DOMAIN loaded.licenses :
          loaded.licenses[i].package = package /\ ~Whole(loaded.licenses[i], loaded)

\* Taken up from storage, and not in Steam's list that was to confirm it.
LetGo(package) == package \in ListedIn(loaded.licenses) \ listed

(* Once Steam has sent its licences, what is not in the cache yet is being *)
(* asked for, of every licence but two kinds that the cache was taken up   *)
(* with from storage: a package that was stored half listed, with what is  *)
(* listed of it known, passes for resolved (partial_package.cfg); and one  *)
(* that a large list no longer names.  Crashes at any moment, dumps that   *)
(* the thread runs beside, new lists, answers to the requests before them  *)
(* and answers in parts forget nothing else (protocol_client.py:361-399,   *)
(* protobuf_client.py:685-728, games_cache.py:89-102).                     *)
NothingForgotten ==
    lists > 0 => \A i \in DOMAIN licenses :
        \/ Remembers(i)
        \/ TakenUpHalf(licenses[i].package) \/ LetGo(licenses[i].package)

(* No cache is stuck on a package stored half listed: "Don't get stuck on  *)
(* broken cache in subsequent runs, instead always reimport packages which *)
(* didn't end up being resolved" (version.py:116).                         *)
HalvesAreMended ==
    lists > 0 => \A i \in DOMAIN licenses : Remembers(i) \/ LetGo(licenses[i].package)

Owned(g) ==
    g \in apps /\ \E i \in DOMAIN licenses : ~licenses[i].shared /\ g \in licenses[i].apps

(* Once an import has succeeded every owned game was told to Galaxy, or is *)
(* kept for the next tick, on its way through a walk or a dump, or asked   *)
(* for again; or it was noted as sent by a walk over the shared games, a   *)
(* walk that broke or a dump that did, and those the code never tells.  No *)
(* other game is lost, whatever the thread lists before, beside and behind *)
(* the walks and dumps, and whatever list replaces the one that is walked  *)
(* over (games_cache.py 82-161, backend_steam_network.py 142-164, 354-397).*)
OwnedAreKept ==
    imported => \A g \in Games : Owned(g) =>
        \/ g \in told \cup added \cup walk["owned"].found \cup dump.games \cup unsaid
        \/ Coming(g)

(* An owned game that is known is told to Galaxy, once an import has       *)
(* succeeded: by that import, or by the tick if it was found later; unless *)
(* what noted it as sent broke or walked over the shared games             *)
(* (games_cache.py:158-159, backend_steam_network.py:142-164).             *)
OwnedAreTold ==
    \A g \in Games :
        (imported /\ Owned(g)) ~> (g \in told \cup unsaid \/ ~Owned(g) \/ ~imported)

(* Steam has answered everything, so the cache is ready                    *)
(* (games_cache.py:163-170).                                               *)
ReadyWhenAnswered ==
    lists > 0 /\ requests = EmptyBag /\ ~thread.busy => ready

(* Once a list is handled, each of its licences is in the cache with the   *)
(* owner the list gives it: "Fix for owned games which are also present in *)
(* one of family sharings being reported only as family shared"            *)
(* (version.py:120).                                                       *)
OwnersAreKept ==
    [][\A list \in LicenseLists : LicenseList(list) =>
        \A i \in DOMAIN list : \E j \in DOMAIN licenses' :
            /\ licenses'[j].package = list[i].package
            /\ licenses'[j].shared = list[i].shared]_vars

(* What Galaxy is told is owned, some licence of the user's own contains:  *)
(* "Return Family sharing games as a subscriptions" (version.py:135).      *)
OnlyOwnedAreTold ==
    \A g \in told : \E list \in LicenseLists : \E i \in DOMAIN list :
        ~list[i].shared /\ g \in AppsOf[list[i].package]
================================================================================
