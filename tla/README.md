# A TLA+ model of the Steam integration

The plugin connects GOG Galaxy to Steam. Galaxy starts it as a process, calls its
methods and ticks it about once a second; the plugin holds one websocket to a Steam
connection manager, logs the user in over it, and keeps the answers in caches from
which Galaxy's imports are served. Paths below are relative to `src/src/`;
`steam_network/` is shortened to `sn/`.

This directory models the parts of it that keep state: the login and the connection that
carries it, the user's credentials across logins and processes, the import of owned games,
the jobs that import achievements, play times and collections, the friends, their presence,
and the plugin's own loop. Each part is checked with TLC on small instances, and about each
there are theorems proved for every value of the constants.

## 1. The system

### Components

| component | code | state | operations |
|---|---|---|---|
| login dialogue | `backend_steam_network.py` 166-350 | which page the user sees; the call it awaits | `authenticate`, `pass_login_credentials` |
| supervisor | `sn/websocket_client.py` 84-169 | the turn of its loop, the tasks it waits for, the websocket and its protocol client | `run`, `_ensure_connected`, `_close_*` |
| authentication task | `sn/websocket_client.py` 237-305 | the call it serves, one task per turn | `_all_auth_calls` |
| Steam RPCs | `sn/protocol_client.py`, `sn/protocol/protobuf_client.py` | one future per RPC, the `auth_lost_handler` | key, login, code, poll, logon, log-off |
| authentication cache | `sn/authentication_cache.py`, `sn/steam_auth_polling_data.py` | the two-factor methods offered, the polling data | update, reset |
| user info cache | `sn/user_info_cache.py` | id, account name, persona name, refresh token | set, `Clear`, store, load |
| server list | `sn/websocket_list.py` | servers, ignored servers with expiry | `get`, `add_server_to_ignored` |
| owned games import | `sn/games_cache.py`, `protocol_client.py` 361-399, `protobuf_client.py` 425-444 and 655-728 | licences, their applications, counters of what is not parsed yet, what Galaxy was sent | licence list, product infos, walks, adding games, dump, load |
| friends cache | `sn/friends_cache.py`, `sn/cache_proto.py` | friends known and pending, nicknames | list, info, nicknames, wait |
| achievements, playtime, collections | `sn/stats_cache.py`, `sn/times_cache.py`, job list in `protobuf_client.py` 134-180 | games awaited, answers, queued jobs | start, update, wait |
| presence | `sn/presence.py`, `friends_cache.py` 70-90, `protocol_client.py` 401-413 | translations cache | push, import |
| plugin loop, local games | `plugin.py` | local games list, running tasks, whether the cache changed | `tick`, `get_local_games`, `push_cache` |
| local Steam client, registry watch, URI handler | `client.py`, `registry_monitor.py`, `uri_scheme_handler.py` | none but the watch | reads of the machine |
| Witcher 3 packs, local machine cache, wire formats | `sn/w3_hack.py`, `sn/local_machine_cache.py`, `sn/protocol/` | none or one value | pure functions, generated classes |

`PROJECT.json` lists them all, with those that no running code imports.

### How they interact

* The dialogue and the authentication tasks talk over two `asyncio.Queue`s, `websocket`
  (calls) and `plugin` (answers). There is one pair for the whole process, while each
  turn of the supervisor starts a new authentication task that reads from it. Neither a
  call nor an answer carries an identifier.
* An authentication task sends an RPC through the protocol client and waits on a future;
  the receive task (`run_task`) resolves it when the packet arrives. What raises in a
  packet handler ends the receive task, and with it the connection.
* The supervisor waits first for the receive *and* the authentication task, then for the
  receive task and `auth_lost`, a future the log-off handler gives an exception.
* Licence lists and product infos come in through the same receive task; product infos
  are unpacked on an executor thread, which updates the games cache while walks over it
  and the tick run in the event loop.
* The imports decide whether the user is logged in by looking at the user info cache.
* Jobs for achievements, play times and collections go into a list of the current protocol
  client; its receive loop sends two at a time between packets. The caches that wait for
  the answers outlive the client.
* A changed friend is pushed to Galaxy from the receive task, while Galaxy's own import
  computes the presence of the same friend in the event loop.
* Every tick of Galaxy may store changed credentials, add games, have the local games read
  on a thread, and push the persistent cache.

### What is hard

* *Interleaving.* Old and new authentication tasks on one queue; a dialogue that times
  out while its call is served; a supervisor that clears caches between the queueing of
  a call and the reading of its data; a thread that changes the very sets a walk iterates
  over; two readers of the local games; a presence computed across an await.
* *Failure.* A connection may close, an RPC be refused, the server list be unavailable,
  at every point of a login. Each exception of the loop goes to its own `except` clause.
* *Order.* A log-off before the supervisor waits for it; answers to requests made before
  the cache was thrown away; a package counted off before its applications are counted;
  packets of one Multi that follow each other before a woken coroutine runs.
* *Restart.* The games cache is stored at any moment of an import and taken up again; the
  credentials at any moment of a login. A new connection brings a new protocol client, but
  the caches and queues stay.

`PROJECT.json` lists these as hazards, each at its line.

### What makes each component correct

* Dialogue: every question gets at most one answer, an answer of its own kind; the user
  is connected only when Steam accepted a token; one call is under way at a time.
* Supervisor: a closed connection is noticed; a log-off reaches the future the current
  turn waits on; after a loss the plugin knows it is logged out; after a reconnection the
  user is logged on again.
* Games import: whatever Steam licensed is known or being asked for; whatever is known
  and owned is told to Galaxy, and nothing else is; the cache gets ready once all is
  answered; each licence has the owner Steam last gave it.
* Credentials: what is stored belongs to one user; a connected user's are stored.
* Friends: the cache is ready exactly when every friend has a name and a state; it holds
  the friends Steam last named; Galaxy's call ends with complete friends.
* Statistics, times, collections: what an import waits for has exactly one job or request,
  or was lost; few requests are ahead of their answers; a preparation ends complete.
* Presence: what Galaxy last heard of a friend is his present info.
* Plugin loop: Galaxy knows what is cached, and in the end the games as they are; every
  write of the persistent cache is pushed.

## 2. The modules

| module | what it is |
|---|---|
| `SteamResults` | pure: `translate_error`, the preferred two-factor method, the answer each result leads to |
| `AuthDialogue` | abstract: what the login dialogue promises |
| `SteamSession` | detailed: dialogue, supervisor, authentication tasks, RPCs, connection |
| `SteamSession_proofs` | theorems about `SteamSession`: types, one call in flight, the refinement of `AuthDialogue` |
| `SessionLogin_proofs` | further ones, resting on those: the log-off handler, the data of the calls, what the user is told of his login |
| `GamesImport`, `GamesImport_proofs` | licences, product infos, executor thread, walks, tick, dump, crash |
| `ImportLedger` | abstract: what the imports promise, whatever becomes of the connection |
| `ImportJobs`, `ImportJobs_proofs` | the job list of a connection, the imports that wait for its answers |
| `Friends`, `Friends_proofs` | friend lists, infos in parts, nicknames, a lost connection, Galaxy's call with three waits |
| `Presence`, `Presence_proofs` | the presence pushed and imported, translations |
| `Credentials`, `Credentials_proofs` | the values of the user info cache over logins and processes |
| `PluginLoop`, `PluginLoop_proofs` | local games, the tick, the push of the persistent cache |
| `MC...` | small instances for TLC |

`SteamSession` EXTENDS `SteamResults` and instantiates `AuthDialogue`, `ImportJobs`
instantiates `ImportLedger`. The other components meet it
and each other in few places, each an action of theirs with any timing: a connection lost
and replaced (`Lose`, `Connect` of `ImportJobs`, `Lose` of `Friends` and `Presence`), the steps of the
dialogue (as writes, in `Credentials`), lists of friends (`Befriend`, `Unfriend` of
`Presence`), a write to the persistent cache (`WriteCache` of `PluginLoop`). No one module
composes them all: the product has far more states and no interaction that these actions,
always enabled, do not already allow.

### SteamSession and the code

A step is what runs between two points where another coroutine may run.

| variable | code |
|---|---|
| `plugin` | where `authenticate` or `pass_login_credentials` stands: a page shown, a call awaited, an end |
| `wsQueue`, `plQueue` | `communication_queues` |
| `info`, `polling`, `methods` | which fields of the user info cache are set; `_steam_polling_data`; the authentication cache |
| `sup`, `epoch` | the await at which `run` stands, and the number of its turn |
| `authLost[e]`, `task[e]` | the future and the authentication task of turn `e` |
| `socket`, `session`, `handler` | the websocket; Steam's session over it; whose `auth_lost_handler` the protocol client holds |
| `runTask` | the receive task |
| `getters` | the FIFO of tasks in `await queue.get()` |

| actions | code |
|---|---|
| `Authenticate`, `SubmitLogin`, `SubmitCode`, `PressConfirm` | Galaxy's two calls, per page |
| `Receive`, `TimeOut` | `_get_websocket_auth_step`: the answer, or 60 seconds |
| `TakeCall` | a task takes a call, reads its data and sends the RPC |
| `AnswerRsa` ... `AnswerLogon`, `RefuseRsa` | the packet handlers that resolve the futures |
| `RsaResumes` ... `LogonResumes` | the task goes on with the result: next RPC, answer or exception |
| `VolunteerLogon`, `LogOff`, `SocketCloses`, `ReceiveFails` | what Steam or the network does unasked |
| `Connect`, `KeepConnection`, `AttemptFails`, `ListFails` | `_ensure_connected` |
| `FirstWait`, `SecondWait` | the supervisor's waits, with all clauses of its `except` |

Assumed of the environment, and why:

* Galaxy calls `authenticate` once per process: a failed dialogue makes it restart the
  plugin. One dialogue step is under way at a time. Within the dialogue a login may be
  refused and tried again any number of times; that a login lost later is not made again is
  what `reconnect_login` shows, and no property takes it for right.
* A LogOnResponse nobody asked for is never OK or LoggedInElsewhere, a log-off never
  carries OK, and the public server list never answers 401 (`ResultAssumption`).
* A second LogOnResponse to the same future is not modelled.
* Stored credentials are absent or complete. A page re-shown because its URL lacks a
  parameter is a stutter.
* A future's waiter, and a task for which there is a call in the queue, are in the loop's
  ready queue before the supervisor's wait can end, so they run first (`TasksRest`, the
  guard of `FirstWait` and `SecondWait`). Opening a connection takes a round trip over the
  network, by the end of which the dialogue has run too (`LoopIsIdle`, the guard of
  `Connect`).
* The websocket and its protocol client are created and dropped together; `Clear` and
  closing are one step: no other coroutine is awaited that would see the difference.
* Sleeps between attempts are abstracted: an attempt may come at any time.

### GamesImport and the code

| variable | code |
|---|---|
| `licenses`, `apps` | `_storing_map` |
| `packagesToParse`, `appsToParse`, `ready` | `_parsing_status`, `_ready_event` |
| `lever`, `sent`, `added`, `parsed` | `add_game_lever`, `_sent_apps`, `_apps_added`, `_owned_games_parsed` |
| `stored`, `dump` | the persistent cache; the dump under way, what it has got and what waits for it |
| `walk` | the generators over owned and over shared licences, with the list they started on |
| `told`, `imported` | what Galaxy learnt: history, read by no action |
| `unsaid`, `loaded`, `listed` | history: games noted as sent by what then told nobody; what the cache was taken up with; Steam's first list |
| `requests`, `thread` | product info requests Steam has not answered in full; the message on the executor thread |

`LicenseList` is `_license_import_handler`; `ProductInfo` receives a message, and
`CountPackage`, `ListApp` and `TitleApp` are the calls the thread makes, each a step, so
that they interleave with `StartWalk`, `WalkOn`, `OwnedWalked`, `SharedWalked`,
`SharedFound`, `WalkBreaks` and `AddGames` in the loop; `Finish` is the handler going on
when the thread is done. A dump (`GamesCache.dump`) is started by a walk over the owned
licences that came to its end, or by a tick that has taken games: `DumpOn` goes over the
licences one by one, `DumpEnds` over the applications and back to its caller, which returns
or adds the games. Meanwhile the event loop stands, but the thread goes on, and if it
changes the very set or dictionary that is iterated over the dump raises (`DumpBreaks`):
the import fails, or the tick's task dies, and the games they had noted as sent are told to
nobody. `Restart` loses all but `stored`.

Assumed:

* The licence list comes before any news of what the user plays.
* Steam has infos on every package and application, answers each id of a request once, in
  as many messages as it likes and in any order, and no message answers two requests.
* The receive task handles one packet at a time and awaits the thread, so no licence list
  is handled while a message is unpacked. A lost connection in the middle of an import is
  not modelled: nothing logs in again after it (see `reconnect_login`).
* A walk may start at any time: `wait_ready` gives up after 90 seconds. At most one walk
  of each kind runs.
* One application's update is atomic. What a dump has stored is at once with Galaxy: the
  push of the persistent cache is in `PluginLoop`.
* `_apps_added` and `_sent_apps` are sets: an application added twice is told twice to
  Galaxy, which does not matter.
* The Witcher 3 packs and the DLC walk are left out, and the pause after 50 games added.

### ImportJobs and the code

| variable | code |
|---|---|
| `connected` | whether there is a protocol client |
| `jobs`, `ahead`, `batch` | `job_list`; `jobs_to_process`; what is left of the loop's copy of the first jobs |
| `sent` | requests Steam has not answered |
| `awaited`, `answered` | `_games_to_import`, `_times_imported` and the collections' event; the caches |
| `waiting`, `asked` | Galaxy's call per kind and what it queued: history for `PreparedIsComplete` |
| `lost` | history: awaited jobs that went with a connection |
| `merged` | history: answers that came in one packet with others, for which the loop counts one |

`Start`, `Join`, `Ready` and `GiveUp` are the `prepare_..._context` methods; `SendJob`,
`Answer`, `OtherPacket` and `RecvTimeout` the turns of `ProtobufClient.run`;
`StartUnconnected` the call that raises between two connections. Assumed: Steam answers a
request once, alone or in one packet (a Multi) with others, up to `MaxBundle`; the wait for
collections has no time-out; nothing is promised of *when* the ten minutes of the others
are over.

### Friends and the code

`info` and `pending` are the two maps of `friends_cache.py`, an info being the set of its
fields that are known; `ready` and `nicknames` its two events; `toCome` what Steam was asked
for and has not sent; `call` where `get_friends` waits; `word`, `died` and `overtaken` are
history. `Lose` replaces the connection: the cache, and a call that waits for it, stay,
while what was asked for dies with its client (`died`); lists and answers come over a later
connection only if somebody logs on over it, which the model allows and does not promise.
Every packet is one action. An event wakes its waiter for good, so a call that was woken
goes on even when the event is clear again: that can happen only between the packets of one
Multi (`_process_multi`), and `overtaken` remembers it. The pushes of presence are in
`Presence`. A friend who becomes blocked or ignored by an incremental change is passed over
by the code and stays: `FriendsAreSteams` leaves such users open.

### Presence and the code

`friend` and `info` are the friends cache reduced to what a presence is made of: the state,
the game, and which of four kinds the rich presence is. `translations` and `requests` are
the translations cache and what Steam was asked for it; `push` is the push the receive task
awaits; `getters` is where Galaxy's import stands per user; `told` is what Galaxy last
heard. Assumed: rich presence comes in the message that names the game, and none with game
0; the receive task handles a packet and its push before the next packet, and the
connection is not lost in the middle of a push; one import at a time, its users side by
side; what a status becomes with translations is given per game (`TextOf`). Two things the
code does are kept and worth knowing: a friend who becomes complete is not pushed, and a
status whose translations are not there yet is pushed without its text and not pushed again
when they come (`IsOf` therefore accepts both).

### Credentials and the code

`info` is the user info cache, the value of a field being the user it belongs to (or the id
0); `initialized` and `changed` its event and flag; `stored` what Galaxy keeps; `stage` the
dialogue. A step of the dialogue is what it writes, in the order of the code: the handler's
id before the task's name, the poll's names and tokens, the logon's id. Assumed: a refused
logon carries either the user's id or 0; the access token goes with the refresh token and
is never stored. A refused logon's 0 may be stored by a tick: the next logon corrects it,
which is why `OfOneUser` admits it and `ConnectedHasItsOwn` does not.

### PluginLoop and the code

`manifests`, `registry` and `touched` are the machine and the registry watch; `readers` the
coroutines `get_local_games` and `_update_local_games` with their reading on a thread;
`cache` is `_local_games_cache`; `modified`, `scheduled` and `cooling` the push of the
persistent cache; `told`, `astray` and `unpushed` are history. A reading looks at the
registry first (`ReadStates`): `get_installed_games` returns a generator, and the manifests
are globbed by the loop that consumes it (`ListGames`). Either may fail, and what was read
before is the result (`StatesFail`, `ListingFails`, `FailedReading`), the empty list being
one case. Assumed: Steam writes a manifest before the registry calls the game installed,
and removes it after; only the registry is watched; the registry is read in one step, and
so are the manifests; the event loop runs the task a tick created before the next tick; one
call at a time.

## 3. The runs

Deadlock is not checked: the dialogue may end in failure, and the bounds stop the rest.

| run | properties | states | what it shows |
|---|---|---|---|
| `session_safety` | `TypeOK`, `OneCallInFlight`, `CallsHaveTheirData`, `WatcherIsCurrent`, `ConnectedWasLoggedIn`, `ImplementsDialogue`, `LossIsKept`, `LossIsHandled`, `ClosedIsNoticed` | 239 000 | calls and answers stay paired and keep their data; the log-off of a login made in the current turn finds the right future; `SteamSession` implements `AuthDialogue` and says connected only of a login Steam accepted; a login elsewhere that was reported to the turn under way stays so until it clears the user's data; a closed connection is not waited on for ever |
| `games_safety` | `TypeOK`, `NothingForgotten` | 2 749 000 | with overlapping packages, own and shared licences, a played game, dumps that may break and a crash at any moment, what is not in the cache is being asked for; but for a package taken up half listed and one that a large list no longer names |
| `games_liveness` | `OwnedAreKept`, `OwnedAreTold` | 451 000 | with a licence that changes its owner, a list that replaces the cache during a walk, two walks and dumps that may break, every owned game is told or on a way that leads to it, and is told in the end; but for what a shared walk, or a walk or dump that broke, has noted as sent |
| `import_jobs` | `TypeOK`, `OneRequestEach`, `WindowKept`, `RoomIsLeft`, `PreparedIsComplete`, `ImplementsLedger`, `PreparationsEnd` | 137 000 | over a lost connection, and with two answers in a packet, every job awaited is queued, under way or lost, exactly once, as `ImportLedger` says; the loop's count is off by the answers that came together and by nothing else; a preparation ends complete, without its time-out, unless the connection is lost or the window is full of such answers |
| `friends` | `TypeOK`, `ReadyMeansComplete`, `FriendsAreSteams`, `GotIsComplete`, `WaitsAreForSteam`, `GetFriendsEnds` | 305 000 | with two full lists, changes, infos in parts and a lost connection, a ready cache is complete; Galaxy's call waits only for what was asked for, and ends, with complete friends unless overtaken in a Multi, unless what it waits for need not come: nicknames, or what went with a connection |
| `credentials` | `StoredIsOfOneUser`, `ConnectedHasItsOwn`, `UnmarkedIsStored`, `ConnectedIsStored` | 800 | three users in turn, refused and cut off anywhere: nothing stored mixes two of them, and what is not marked as changed is stored |
| `plugin_loop` | `TypeOK`, `ToldIsCached`, `UnpushedIsMarked`, `QuietIsCurrent`, `ChangesAreTold`, `CacheIsPushed` | 996 000 | two readers on threads, failing in part and overtaking each other: Galaxy knows what is cached; and the games as they are whenever no reading is under way or due, unless the last one failed or was overtaken |
| `presence` | `TypeOK`, `PresenceIsCurrent`, `TokensAreLookedUp`, `AskedIsAnswered` | 281 000 | pushes and an import that wait for translations: Galaxy's last word is the present info, but for an import that answers with what it read before a change; translations a status lacks are being asked for, unless the request went with its connection |

Four runs each show one statement of the repository's own comments, tests or change log
that the code does not keep (`findings` in `PROJECT.json` quote them):

| run | the statement that fails |
|---|---|
| `stale_watcher` | a log-off reaches the supervisor; it does not when the task of an earlier turn, never cancelled, did the login: it waits on the queue before the task of the new turn, and so takes the call of the login page |
| `reconnect_login` | after a reconnection the login is made again; nobody queues the call |
| `reimport_ready` | the cache gets ready when part of it was already there; the licences imported again are counted off twice |
| `blocked_import` | an import that misses an answer does not block later ones; one whose request was lost with its connection, or made between two connections, is in progress for ever |

Six further configurations are kept to be run by hand (`tlc -config X.cfg M`); TLC finds
each property violated. They show lesser disagreements of the same kind:

| configuration, module | the statement that fails |
|---|---|
| `failed_poll`, `MCSteamSession` | a poll that fails otherwise is answered InvalidAuthData; it raises |
| `lost_credentials`, `MCSteamSession` | the loop that ends on lost credentials tells the plugin; it leaves the user info cache complete |
| `partial_package`, `MCGamesImport` | packages that are not resolved are imported again (`HalvesAreMended`); one stored half listed, with what is listed known, is taken as resolved |
| `bought_shared`, `MCGamesImport` | owned games that are also shared are owned; the package keeps its old owner |
| `shared_as_owned`, `MCGamesImport` | shared games are subscriptions; one found after the import is added as a purchase |
| `push_cooldown`, `MCPluginLoop` | the persistent cache is not pushed again during the pause; the task is stored under another name than the tick looks at |

What the code gets wrong in a way that no comment or test of the repository speaks of is
named in the properties, so that they say that nothing *else* goes wrong:

| exception | what it stands for | properties |
|---|---|---|
| `TakenUpHalf`, `LetGo` | a package stored half listed passes for resolved; a list of `Threshold` packages or more never throws the cache away, and so leaves in it what it no longer names | `NothingForgotten` |
| `unsaid` | one list of sent applications serves both walks, and a walk or a dump that breaks has noted its games before anybody was told them | `OwnedAreKept`, `OwnedAreTold` |
| `merged`, `HeldBack` | the window takes a Multi with two answers for one, so jobs may stay behind until other packets come | `RoomIsLeft`, `PreparationsEnd` |
| `losses > 0`, `lost` | requests die with their connection, and nobody asks again | `PreparationsEnd`, `OneRequestEach` |
| `Stranded` | the nicknames of an account that has none, and what died with a connection, are waited for without a time-out | `GetFriendsEnds` |
| `overtaken` | a Multi's next packet is processed before a woken call goes on | `GotIsComplete` |
| `astray` | the older of two readings may be cached last; a failed one counts like any other | `QuietIsCurrent`, `ChangesAreTold` |
| `missed`, an overtaken import | a lost translation is not asked for again; an import answers with what it has read | `AskedIsAnswered`, `TokensAreLookedUp`, `PresenceIsCurrent` |

`OwnedAreTold` speaks only of the time after an import that succeeded: until then the
tick adds nothing that Galaxy would not get from the import.

### Bounds and why they are enough

* `MaxEpoch` is the number of turns of the supervisor: 3 in `session_safety`, so that the
  task of a turn can outlive two later ones; it is the only bound of `SteamSession`.
  Queues need none: `OneCallInFlight` bounds them.
* `Results` has one result for each way the code treats a result (`MCResults`), and
  `Confirmations` one set for each page a login leads to. More would repeat branches.
* Two packages and two applications make packages of one and of two applications, which
  overlap, shared and owned; a package of two may be stored half listed. `Threshold` 2 puts
  both branches of the reset (below and from 12000 packages) within two packages.
* `MaxLists`, `MaxPlays`, `MaxWalks` and `MaxRestarts` bound how often each happens, in one
  session. `games_safety` takes one list in each of two sessions, the second of which may
  differ from the one the cache was stored of; `games_liveness` takes two lists, for a reset,
  for answers to requests made before it and for a licence that changes its owner, and two
  walks, for an import after a broken one and for a shared walk beside an owned one.

* `ImportJobs`: three games, the window being three; four imports, so that each kind can be
  asked for again after a loss; two lists of games, one of which contains the other; one
  unrelated packet per connection and two answers in a packet (`MaxBundle`), which are what
  lets the window slip, the one forwards and the other backwards.
* `Friends`: infos come whole, or as name and state apart. Two users, two lists and two
  changes make a user come, go and come again with an answer still on its way; one lost
  connection falls before, between and after them.
* `Credentials` has no bounds; three users let a third's login overwrite two others'.
* `PluginLoop`: two changes and two calls, so that a change falls before, into and after
  either reading, between its two steps too, and both readers overtake each other; one failed
  step, of any part; one push in pause.
* `Presence`: four pieces of news (one to complete a friend, one to ask for translations,
  two changes while a push or an import waits), three relations so that a friend leaves and
  comes back, one import, one loss.

### Fairness

* `LoopFairness`: the event loop runs what is ready. A closed socket is heard by the
  receive task, a task takes a call, a resolved future resumes its task: weak fairness. A
  wait whose condition holds ends, strong fairness: `TasksRest` puts the tasks first, each
  of which is in the ready queue once, and that queue being FIFO no number of them keeps
  the supervisor from its turn.
* `HealthySpec` adds that a server can be reached, Steam answers and the dialogue reads the
  answers; only `reconnect_login` uses it, to refute the claim even on a good network.
* `GamesImport`'s `FairSpec`: Galaxy goes on ticking, a walk sleeps 0.1 ms per licence and
  goes on, a dump and the thread run to their ends, Steam answers. Nothing is assumed of
  Galaxy's calls, of licence lists or of crashes.

* `ImportJobs`: the loop of the receive task goes on, also without a packet, every ten
  seconds; the supervisor connects again; Steam answers each request of the first
  connection, but over a later one, on which nobody need log on, it need not. The time-outs
  of Galaxy's calls have no fairness, so `PreparationsEnd` is not theirs.
* `Friends`: Steam sends a list of friends over its first connection and answers, in full,
  every request whose connection lasts. It need not send nicknames, nor anything unasked
  over a later connection.
* `Credentials`, `PluginLoop`: Galaxy ticks, threads end. `Presence`: the loop runs what is
  ready, and Steam answers, if with nothing.

### Mutants

Every property of a passing run has a mutant in the module it belongs to, a definition
changed as a plausible bug would change it (`WatchFirst` registers the watcher only once, `AddedWhenReady` keeps for
the tick only what is found while no import is under way, `AfterTokenTrusting` reports
the user as connected on any answer). TLC finds each.

## 4. What is proved

All theorems hold for every value of the constants that the named assumptions of the
modules allow, and so for every bound. Each follows from an inductive invariant, with one
case per action.

`SteamSession_proofs`:

* `TypeCorrect == Spec => []TypeOK`. The one delicate part is that an answer an
  authentication task passes on is always a `UserActionRequired`, for every result of
  `EResult`: `SteamResults` treats the results by sets, and the lemmas show the sets cover
  what is needed.
* `OneCall == Spec => []OneCallInFlight`. Calls carry no identifier and are served by the
  tasks of all turns, so this is what lets the dialogue take the next answer on its queue
  for the answer to its question. The argument: a call is only ever moved, from the call
  queue to a task, from the task to the answer queue, from there to the dialogue, and the
  dialogue queues a new one only when it read an answer or the user left a page. A task
  that dies takes its call with it, a supervisor that starts a new turn brings an idle
  task, and a dialogue that times out ends for good, so that its late answer has nobody to
  mislead.
* `Refinement == Spec => ImplementsDialogue`. One call in flight is not enough for it: what
  is queued, served or answered while the dialogue waits must also be *its* call, and an
  answer one the abstract dialogue allows to that question. That is `Paired`, itself
  inductive beside the first two; each step then maps to a step of `AuthDialogue` or a
  stutter.

`SessionLogin_proofs`, which takes those three as its base:

* `WatcherCurrent == Spec => []WatcherIsCurrent`. `TasksOfEpochs` says that a task waits on
  the queue once, and that the turns to come have no task yet; `LoginInv` that the session is
  on only if some turn's task got its token accepted, that a task that is done answered the
  last call there will be, and that a log-off was of the only session there will be. So the
  task that is done in the current turn is the one whose handler was registered last.
* `DataThere == Spec => []CallsHaveTheirData`. The supervisor clears the user's data when a
  task or the receive task failed. The first has no call queued, since the failed task took
  the only one with it (`FailedHasNoCall`); the second never fails of what clears them
  (`RunTaskOther`); and the dialogue gets to a second factor only with polling data
  (`DialogueHasItsData`).
* `ConnectedLoggedIn == Spec => []ConnectedWasLoggedIn`. Old tasks live on and take calls, and
  answers carry no identifier, so that "connected" might be read off an answer to another
  call. `AcceptedIsDone` says that a dialogue that is connected, or about to read that it is,
  owes it to a task that is done, for the answer that ends the dialogue well is given by such
  a task alone; and a task that is done stays so (`DoneMoves`).
* `LossKept == Spec => LossIsKept`, an action property and the safe half of `LossIsHandled`:
  between a log-off that was reported to the turn under way and the `except` clause that
  clears the user's data no step takes the reason off the future or moves the supervisor to a
  turn that would not look at it. By `LoginInv` no dialogue starts again, the task of the turn
  stays done, and so the supervisor goes on only through the second wait (`SecondWait`),
  whatever the receive task died of. It says nothing of a log-off that goes to an earlier
  turn's future, as in `stale_watcher`.

`GamesImport_proofs`: `TypeCorrect`, and two theorems on memory. `MemoryLasts == Spec =>
[]NothingForgotten` holds over any number of restarts, and without a premise on what is
stored: what may be forgotten is named in `NothingForgotten` itself, package by package
(`TakenUpHalf`, `LetGo`). The invariant (`LastingInv`) says that an id leaves a request only
to be in the thread's hands, and leaves those as a listed package or a known application
(`Remembered`); that before Steam's first list the cache is what was stored, and nothing is
asked for (`FreshSession`); that an entry, and what a dump has got of it, lists applications
of its own package only (`Content`), so that asking for the package again makes what is not
known come; and that the first list either replaces the cache, or asks for every package that
is not resolved (`FilteredAll`: the filtered list holds all the places it was filtered by, a
strictly monotone map between finite sets of one size being onto). `FirstSession` says that
before the first restart there is no exception: nothing was taken up, so nothing at all is
forgotten.

`OwnedKept == Spec => []OwnedAreKept` holds across any number of restarts, walks, dumps and
lists, and leaves `OwnedAreTold` only its fairness to rely on. While a walk over the owned
licences runs or has run, `add_game_lever` is set, so that what the thread titles is kept
for the tick; every entry the walk has passed is dealt with, and once its list was replaced
every entry of the new one is, since all of it is unresolved; what the walk has found is
promised by the dump that follows it (`OwnedInv`, `Promised`). The other half (`Accounted`)
is that whatever is noted as sent was told, is in the hands of a walk, a tick or a dump that
will tell it, or is in `unsaid`: each step that notes a game moves it from one to the next,
and each that breaks moves all it held to `unsaid`.

`ImportJobs_proofs`: `TypeCorrect`, `OneRequest` (`OneRequestEach`), `WindowIsKept`
(`WindowKept`), `PreparedComplete` (`PreparedIsComplete`). `OneRequestEach` is inductive with
the types: it is an equality, `awaited` being the disjoint union of what is queued, under way
and lost, so that each action moves a job from one of the three to the next. It also bounds
the unanswered requests, whose number the window needs; `WindowKept` adds that they are
finitely many. `RoomLeft` proves `RoomIsLeft` for any `MaxBundle`: an answer takes one off
the requests and off the count, and each further one in its packet is in `merged`.
`LedgerImplemented` is the refinement of `ImportLedger`; `SendJob`, the receive loop's other
turns and Galaxy's waits are its stutters, and a call between two
connections, whose jobs nobody will send, is `AskInVain`. `PreparedIsComplete` needs that
what a call asked for is awaited or answered.

`Friends_proofs`: `TypeCorrect`, `ReadyIsComplete`, `HoldsSteamsFriends`,
`CallGetsComplete`. The invariant says that a friend is complete or pending, and what is
marked as come has come (`KnownOrPending`); that a ready cache has none pending; and that a
woken call still finds the cache ready until a packet overtakes it (`WokenMeansReady`),
from which the call's friends are complete. `WaitsForSteam` (`WaitsAreForSteam`) is the
safe half of `GetFriendsEnds`: nothing but the code wakes a waiter, so one that sleeps must
be owed something that Steam was asked for. `WaitInv` says that a friend who is pending lacks
only fields that were asked for, by a request under way or one that died with its connection;
that a cache that is not ready has a friend who is pending or had no list yet; and that an
event that is set has no sleeper (`UnwokenWaits`). A lost connection moves what is owed from
the one to the other.

`Credentials_proofs`: `TypeCorrect`, `StoredOfOneUser`, `ConnectedOwn`. The strengthening
(`Shape`) says at each stage of the dialogue which fields belong to whom: no token before a
poll is confirmed, the id of an accepted password's user, one user at the logon; so that a
cache that is complete at *any* moment is of one user, whenever the tick reads it.
`UnmarkedStored` (`UnmarkedIsStored`) is inductive as it stands: `Clear` does not mark the
cache as changed but leaves it incomplete, and each setter marks what it changes.

`PluginLoop_proofs`: `TypeCorrect`, `GalaxyKnowsTheCache` (`ToldIsCached`), `NoWriteIsLost`
(`UnpushedIsMarked`), with the help of one fact: an update runs only once the local games
have been read, so that its differences are taken from what Galaxy knows. `QuietCurrent`
(`QuietIsCurrent`) needs to know of either reading how fresh it is after each of its two
steps (`IsFresh`): what it has is the registry as it stands, or the registry has been touched
since and the next tick reads again, or the reading failed or was overtaken. That what the
registry calls installed has its manifest (`InstalledIsListed`, an assumption on Steam) makes
the listing, which comes after the registry's reading, leave out nothing of it.

`Presence_proofs`: `TypeCorrect`, `PresentInfoIsTold` (`PresenceIsCurrent`). The invariant is
said per user: the push under way is of the present info, so is what an import that was not
overtaken has computed, an import that has not read yet will read the live info, and a friend
who is not complete has not been told of. `TokensLookedUp` (`TokensAreLookedUp`): the entry
that keeps a second reader from asking (`LookUpInv`) is never there without the request of
the first, its answer, or its loss.

Only model-checked is all liveness (`LossIsHandled`, `ClosedIsNoticed`, `OwnedAreTold`,
`PreparationsEnd`, `GetFriendsEnds`, `ConnectedIsStored`, `ChangesAreTold`, `CacheIsPushed`,
`AskedIsAnswered`), which is beyond this prover. What a
step could break of it is proved apart: `LossIsKept` for `LossIsHandled`, `OwnedAreKept` for
`OwnedAreTold`, `RoomIsLeft` for `PreparationsEnd`, `WaitsAreForSteam` for `GetFriendsEnds`,
`UnmarkedIsStored` for `ConnectedIsStored`, `QuietIsCurrent` for `ChangesAreTold`,
`UnpushedIsMarked` for `CacheIsPushed`, `TokensAreLookedUp` for `AskedIsAnswered`. They say
that whatever is owed is still on its way; that it arrives takes the fairness.
Where a model has history variables (`lost`, `died`, `merged`, `unsaid`, `overtaken`,
`astray`, `missed`), the theorem speaks of the
cases they leave, and the table of exceptions in section 3 says which those are.

## 5. What is not modelled

* A connection lost in the middle of the import of owned games: nothing logs in again after it
  (`reconnect_login`), so nothing more comes to the games cache.
* Shutdown (`close`, `wait_closed`, `shutdown_steam`): the process ends with it, and what it
  leaves behind are the stored caches, which the restarts of `Credentials` and
  `GamesImport` take up.
* The blacklist of servers: it only decides which server an attempt goes to.
* The Witcher 3 packs and the DLC walk: a subset test, and a lookup for games already told.
* What the answers contain (names of nicknames, statistics, tags), and the substitution of
  parameters and tokens in a status: data that no control depends on.
* Launch, install and uninstall, the size of a game: one call of the operating system each.
* The generated message classes (`sn/protocol/messages`, most lines of the repository), the
  other constants, the parsing of Steam's files, caches no running code imports, abstract
  interfaces and build scripts: no behaviour to model. The map covers the code that has
  some, and so a small share of all lines.

## 6. The plan

1. `SteamResults`, `AuthDialogue`, `SteamSession`: done; all invariants and the refinement
   proved.
2. `GamesImport`: done; types, the memory within a session and over restarts, and the ways of
   owned games proved.
3. `ImportJobs`, `Friends`, `Credentials`, `PluginLoop`, `Presence`: done, all their
   invariants proved, and the refinement of `ImportLedger`.
4. Left: `close` at any moment of the supervisor; a reading of the registry key by key.
