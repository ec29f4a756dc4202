# A TLA+ verification of v2sp

v2sp runs Xray inbounds ("nodes") on behalf of a panel: it fetches each node's
configuration and users over HTTP, keeps the inbound, the user limits and the
traffic counters in step with them, and reports traffic and online devices
back. This directory models that program in TLA+, checks the models with TLC
and proves their safety properties with TLAPS. Paths below are relative to `src/`.

## 1. Inventory

| Component | State it keeps | Operations | What makes it correct |
|---|---|---|---|
| Periodic task, `common/task/task.go` | `running`, `timer`, mutex `access` | `Start`, `Close`, `checkedExecute` (re-arms its own timer) | executions never overlap; it runs until closed; after `Close` it falls silent |
| Node controller, `node/controller.go`, `node/task.go`, `node/user.go` | `userList`, `info`, `tag`, `limiter`, its tasks | `Start`, `nodeInfoMonitor`, `compareUserList`, `Close`, background import | inbound, limiter and list agree between rounds; panel changes arrive; closed means closed |
| Panel client, `api/panel` | `nodeEtag`, `userEtag`, retry count | `GetNodeInfo`, `GetUserList`, `GetUserAlive`, `ReportUserTraffic`, `ReportNodeOnlineUsers` | a 304 is only taken for content already applied |
| Xray adapter, `core/xray` | handlers, `uidMap`, report thresholds | `AddNode`, `DelNode`, `AddUsers`, `DelUsers`, `GetUserTrafficSlice`, `Start`, `Close` | whoever is served has a uid |
| Limiter, `limiter` | seven maps: limits, online addresses, old addresses, buckets, alive counts | `CheckLimit` (each connection), `UpdateUser`, `UpdateUserLimits`, `GetOnlineDevice` | one bucket per user; a rejected device leaves no trace; limits take effect |
| Link managers, `core/xray/app/mydispatcher` | `LinkManagers`, `connStates`, each manager's list and index | `getLinkManager`, `AddLink`, `RemoveWriter`, `CloseAll`, `userCleanupLoop` | the index is the open links; a deleted user is cut off; idle users are freed |
| Traffic counters, `common/counter`, `mydispatcher` | `Counter[tag]`, a storage per user | counting, collection with reset, deletion | nobody is charged too much, nothing is lost |
| Server process, `cmd/server.go`, `conf/watch.go`, `node/node.go` | the configuration, the core `vc`, the controllers, the debounce timer | start-up, reload callback, watcher loop | nodes run on a live core; the last edit wins; reloads end |
| Core selector, `core/selector.go` | its cores, the core of each node | `Start`, `Close`, `AddNode`, `DelNode` | no inbound outlives its configuration or its core |
| Dispatcher: sniffing and routing, `mydispatcher/default.go`, `sniffer.go`, `countreader.go` | `cachedReader.cache`, the sniffers in question | `Cache`, `Sniff`, `ReadMultiBuffer`, `Interrupt`, `routedDispatch` | the outbound gets the client's stream unharmed; sniffing ends; what the rules reject is stopped |
| Rules, `limiter/rule.go` | `DomainRules`, `ProtocolRules` | `CheckDomainRule`, `CheckProtocolRule`, `UpdateRule` | a check sees the rules and does not fail |
| Configuration reader, `common/json5` | the text and a position in it | `prep`, `consumeComment` | comments and trailing commas go, nothing else changes |
| Certificates, command line, configuration types | see section 8 | | |

Who runs when: every node has a monitor task and a report task, whose callbacks
run in timer goroutines; every connection runs `Dispatch`/`DispatchLink` in a
goroutine of its own; `userCleanupLoop` and the file watcher are goroutines; the
watcher's goroutine runs the reload callback, which closes and restarts all of
the above. Shared state is mostly in `sync.Map`s that are read and written in
several separate operations, in a few plain maps, and behind two mutexes
(`Task.access`, `UserMap.mapLock`).

The hard behaviours, each listed at its line under `hazards` in `PROJECT.json`:
a check that is stale when it is acted on (`hasClosed`, the cleanup loop's count,
the alive list); Load-then-Store on a `sync.Map`; handlers of several calls of
which one fails; ETags saved before their content is applied; a callback that
outlives `Close`; a reply that is lost and a request that is retried; an editor
that writes or replaces the watched file at any time; a sniffer that reads a
connection ahead of its outbound handler, against a deadline; a rule list that is
emptied and refilled under the connections that check it; several cores of which
some start and some do not.

## 2. Modules

Modules are named after what they model; actions carry the names of the Go
functions they stand for, and `map` in `PROJECT.json` gives each one its lines.

| Module | Models | State and actions |
|---|---|---|
| `PeriodicTask` | `task.go` | A *chain* is one self-perpetuating sequence of callbacks. `Start`, `Fire`, `HasClosed`, `BeginExecute`, `ExecuteOK`, `ExecuteErr`, `Close` are the pieces between two acquisitions of the mutex. |
| `ControllerTasks` (extends `PeriodicTask`) | how `node/task.go` uses the tasks | The monitor task: `OwnerStart` restricts `Start` to its one owner; `SelfClose` is the call of `Close` from inside `Execute`. |
| `NodeController` | `Start`, `nodeInfoMonitor`, the import goroutine, `Close`, with the panel client and the Xray adapter | A user list is a function from users to limits, an ETag is the content it stands for. Handlers are cut at each call of the panel or the core, so edits, faults, `Close` and the import fall between any two calls. `Close` is three steps: `CloseLimiter`, `CloseTasks` (which waits for the round in progress), `CloseNode` (`DelNode`); between and after the last two a `late` round, which had passed `hasClosed`, may run. |
| `Limiter` | `limiter.go`, `determineSpeedLimit` | One step per `sync.Map` operation of `CheckLimit`, `UpdateUser`, `UpdateUserLimits`, `GetOnlineDevice`. |
| `Links` | link managers, cleanup loop, the links' side of `DelUsers` | One step per map operation; `AddLink`, `RemoveWriter`, `CloseAll` are atomic (they hold the manager's mutex). `len` is `list.Len()` of the Go list. The owner of a link that `CloseAll` has cut still removes its element from the re-initialised list, which lowers `len` and re-links the ends; the list is then no longer described by the index, and `Found` lets a further `CloseAll` meet any part of the index, or panic (`down`) at the root element. That is more than the pointers allow, and only a manager that has been closed before is affected. `closers` is history: who has closed a manager. |
| `Traffic` | counters, `GetUserTrafficSlice`, push, the counters' side of `DelUsers` and of the cleanup loop | Upload and download are one amount. Load and Store(0) of a counter are two steps. |
| `Server` | `serverHandle`, `Conf.Watch`, `Node.Start`/`Close`, the life of the cores, the selector, `updateDNSConfig` | A usable configuration is the set of its nodes; `Broken` is a file that yields no core. `started` is the set of running cores, `home` the core that has a node's inbound. `many` are the nodes with several DNS routes, whose order in the file is that of a Go map. `wedged` are the nodes whose monitor has closed its own task after a change of the intervals (`ControllerTasks`) and never returns; `nodes.Close` then waits for it (`CloseNodesHangs`, `pc = "hung"`). Editors, fsnotify and the panel are external. |
| `Stream` | what an outbound handler expects of its reader | The abstract specification: `Write`, `Read` and `Break` of a queue of chunks, and that what was written is read in the end. `Safety` is the first part alone. |
| `Dispatcher` | one connection from `getLink` to the handler: `cachedReader`, `sniffer`, `Sniffer.Sniff`, the composite result, `routedDispatch`, the rules | Chunks are numbered; a sniffer is named after its protocol and its verdict is a function of the number of chunks it is shown, chosen in `Init`; a destination is named after what gave it. The rule lists are sequences; a check takes the range of a list (`bound`) and then reads the list that is there at each index, for the domains and then for the protocols, while `UpdateRule` empties and refills one list and then replaces the other, with any rules. `wrapped` tells `DispatchLink` (a `CounterReader`) from `Dispatch` (a pipe). Implements `Stream`. |
| `Json5` | `prep` and `consumeComment` | One action per branch of a loop, over all texts of bounded length. `Clean` is the reference, defined without a walk: a text is a row of tokens (`Row`), `Tokens` the positions where they begin. |
| `MCLimiter` (extends `Limiter`) | | the symmetry of connections, users and addresses, nothing else |
| `MCDispatcher` (extends `Dispatcher`) | | the two rule sets of the run, nothing else |
| `PeriodicTaskProofs`, `NodeControllerProofs`, `LimiterProofs`, `LinksProofs`, `TrafficProofs`, `ServerProofs`, `DispatcherProofs`, `Json5Proofs` | | theorems about the module of that name |

Definitions that are not used by any action (`...Forgotten`, `...NeverArms`,
`...Drains` and so on, each just above the definition it varies) are slips a
programmer could make there; `mutants` in `PROJECT.json` pairs each with the
property that detects it, so that every property is known to depend on the code.

Abstractions worth knowing. `NodeController` gives a node one tag (a tag changes
only if the panel changes the node's type or id) and folds the requests, the
rule update and the certificate request that precede `AddNode` into its success
or failure. `GetUserAlive` never fails and only feeds the limiter, where
`SetAlive` stands for it. A list longer than `MaxSync` (10000 in the code) is
imported in the background. `Limiter` leaves out the dynamic speed limit, which is
never called. `Links` lets `userIdleTimeout` (ten minutes) pass only when no
connection of that user is between `markUserActive` and `AddLink`. `Server`
starts all nodes in one step, lets every node go to any core (by name, by type or
by the order of a Go map) and keeps the DNS file only as the node that wrote it
last; that the file of a node with several routes differs from what the same node
wrote before is possible at every write. `Dispatcher` takes a rejection for want of
a route as possible whenever a handler is picked, and a rule as matching the
destination or protocol it is named after; a slice header that is read while another
goroutine writes it is taken as old or new, not as a mixture. Data that a reader
returns together with an error is not modelled: a read gives one or the other.

The refinement. `Dispatcher` instantiates `Stream` with the cache followed by the
pipe as the queue, and an interrupted pipe or a rejected connection as a broken
stream. `SniffingIsInvisible` says that every behaviour of the detailed model is
one of `Stream` under this mapping: that the sniffer moves data from the pipe to
the cache is a stuttering step, a read of either is a read of the queue's head,
and the fair read of `Stream` follows from the goroutine's progress.

## 3. Passing runs

| Run | Instance | Checks | Distinct states |
|---|---|---|---|
| `Task` | 2 chains, 2 closers, fair | `TypeOK`, `MutualExclusion`, `RunningHasDriver`, `LoneTimerIsStoppable`, `Quiesces`, `PeriodicallyExecutes`, `CloseReturns` | 2,564 |
| `Controller` | 2 users, 2 limits, 2 configurations of which `Start` accepts 1, with and without a name, import of 2 users in the background, 2 edits, 1 failed request, 1 core fault, 1 late round, fair | `TypeOK`, `InSync`, `ServedHaveUid`, `ListeningHasLimiter`, `ClosedStaysDown`, `OnlyChangesReload`, `UsersConverge`, `ChangesArrive` | 1.89M |
| `Limiter` | 3 connections, 1 user, 2 addresses, 2 speeds, device limits 0 and 1, 1 update, 1 report | `TypeOK`, `NoGhostDevice`, `AdmittedIsCounted`, `FullUserStaysFull`, `SharedBucket` | 6.0M |
| `Links` | 3 connections, 1 user, 1 deletion, fair | `TypeOK`, `IndexIsOpenLinks`, `PanicNeedsBoth`, `IdleUserFreed` | 470k |
| `Traffic` | 2 connections, 2 users, 3 bytes each, 1 deletion, 1 failed push, 1 lost reply, fair | `TypeOK`, `NeverOverCharged`, `CounterCollected` | 1.0M |
| `ServerReload` | 2 cores, configurations of up to 2 nodes, 1 of them with one or several DNS routes, 3 edits (a change of a node, with or without another interval, is one), 1 core fault, 2 node faults, 1 late callback, fair | `TypeOK`, `NodesOnLiveCore`, `NoStrayInbound`, `LastEditApplied`, `ReloadsEnd` | 1.34M |
| `Dispatcher` | pipe and wrapped reader, 3 sniffing modes, 2 content sniffers with every stable verdict, 2 chunks, 2 rule sets (2 domains and 2 protocols; 1 domain and none), 1 update to either, fair | `TypeOK`, `BlockedIsStopped`, `PanicsOnlyIfReplaced`, `SniffingIsInvisible`, `SniffingEnds` | 2.86M |
| `Json5` | every text of up to 6 bytes of 9 classes, fair | `TypeOK`, `Cleaned`, `PrepEnds` | 4.9M |

What they show, in words. A task may have several chains at once, and yet never
executes twice at a time, never loses its last chain while `running` is set, and
dies out after `Close`. Failed panel requests and edits between the requests of
a round never leave a half-applied user list behind, and the list converges.
Concurrent first connections share one bucket and lose no admitted device, and a
rejected device is not reported as online; until the first report a user whose
limit the panel's count has reached gets no further device, whatever the monitor
changes meanwhile. While an inbound listens it has a limiter. A
manager's index is exactly its open links, and `CloseAll` does not panic, as long as not both `DelUsers` and the cleanup loop
close it. Nobody is charged for more than was carried as long as no reply is lost.
A reload that fails at any step leaves no controller and no inbound on a dead
core, and the last edit the watcher can see takes effect. Sniffing does not change
what the outbound handler reads, and ends; a blocked protocol that was recognised
is stopped; a check of the rules panics only if the very list it walks was replaced
since it took its range. A controller whose `Close` returned no error has no inbound
again, though a late round runs beside it. The configuration reader blanks what a definition by tokens blanks.

Some of these properties state a condition (no failed request, no fault, no edit
that nothing watched). Section 5 says what the code does when it does not hold.

Bounds. Two users and two limits are enough for one user to be deleted, one
added and one updated by the same round; two configurations for a change and a
change back; one failed request and one core fault fall before, in or after the
round that applies an edit, and the second edit comes after it. Two connections race for a map entry, a third one
arrives when the race is decided. Three bytes exceed the threshold of one and
leave something to be lost. Two nodes are one to keep and one to drop, two cores
one that starts and one that fails. Two content sniffers are one that decides and
one that is still in question; no loop of the sniffer makes more than two attempts, so
that two chunks are one for each, and the second may also be left to the handler,
which reads it after the cache. Two rule sets are a longer and a shorter list of
each kind, and the update goes from either to either, itself included. Six bytes hold a trailing
comma with a whole block comment before the bracket, and every pair of constructs
of two bytes next to each other. Two chains
are the stale callback and the one a new `Start` begins; any number of them is
covered by the proofs. Deadlock is checked for the periodic task only; in the
other models the bounded inputs run out.

## 4. Fairness

- Timers fire, `Execute` returns, a goroutine that waits for a Go mutex gets it:
  `sync.Mutex` hands over to a waiter that has starved for a millisecond, which
  is strong fairness of the steps that lock.
- The monitor and report tasks keep starting rounds (this is what
  `PeriodicallyExecutes` shows of a task that is not closed by itself), and HTTP
  calls return because the client has a timeout (`api/panel/panel.go` 42-46).
- `Controller.Close` waits for the monitor's mutex between two rounds, which needs
  strong fairness (`CloseTasks`); `DelNode` then follows (`CloseNode`, weak fairness).
- Deadlines pass: a read with a timeout returns (200 ms, or one second in a
  `CounterReader`), and the outbound handler reads what there is.
- Goroutines are scheduled, the cleanup ticker ticks, time passes; a write of
  the configuration file that began ends.
- Nobody has to connect, edit, delete, close or fail.

## 5. Where code and documentation disagree

Each of these runs states what a comment, a log message or the repository's
README says, and TLC shows a behaviour of the code that contradicts it. The
quotation and the line are under `findings` in `PROJECT.json`.

| Run | Property | What happens |
|---|---|---|
| `MonitorTaskRuns` | `PeriodicallyExecutes` | An interval change closes the monitor from inside itself: it waits for its own mutex, and the monitor never runs again. |
| `ControllerConfigLost` | `ConfigConverges` | A failed user request drops the new configuration, whose ETag is already saved. |
| `TrafficPushFailed` | `NothingLost` | The counters are reset before the push; a push that fails loses them. |
| `ServerPanic` | `NoPanic` | After a reload in which `NewCore` failed, the next one closes a nil core. |

The models also reach the following behaviours. No property of the passing runs
claims the contrary; where one would, it carries the condition that excludes
them, and the hazard at that line says so.

- Two chains of one task, when `Close` and `Start` fall between `hasClosed` and the
  lock of a callback: the report task then runs twice per interval.
- A reload of an unchanged node after a failed request, which cleared the ETag
  (`OnlyChangesReload` speaks of behaviours without one).
- A node that no round adds again after `AddNode` failed; a configuration
  `Start` would refuse, installed by the monitor.
- A named node whose limiter stays the old one when its configuration changes
  (`InSync` excludes nodes with a name); a limiter registered by a round that was
  in progress when `Close` began, which nothing removes.
- A `Close` that a late round overtakes: the round passed `hasClosed`, ran while
  `Close` waited for the report task and has just taken the handler away, `DelNode`
  fails, `Close` returns an error, and the round's `AddNode` leaves the inbound up
  (`ClosedStaysDown` speaks of a `Close` without an error).
- An inbound that listens although `AddNode` failed, because the outbound could not
  be added (`core/xray/node.go` 33-40).
- A reload that waits in `nodes.Close` for ever, for a node whose monitor has closed
  its own task after a change of the intervals (the deadlock of `MonitorTaskRuns`);
  later edits are not applied (`LastEditApplied` and `ReloadsEnd` exclude it).
- An import in the background that adds a user a round has just deleted
  (`ServedHaveUid`, `UsersConverge` exclude edits beside an import).
- A bucket of the old rate stored after the limit changed; a device limit that
  is compared with the panel's last count; an address admitted because another
  user had it; `AliveList`, a plain map, read and written at once.
- A link that survives the deletion of its user, in a manager that lost the race
  for the map entry or added after `CloseAll`; a link cut by the cleanup loop
  although it was opened after the count; a list length below zero.
- A second `CloseAll` of a manager that both `DelUsers` and the cleanup loop had
  loaded: if the owner of a cut link has removed its element in between, the walk
  starts at nil, past some links, or at the root of the list, where the type
  assertion panics (`PanicNeedsBoth` and `IndexIsOpenLinks` show that it takes both).
- Traffic lost between `Load` and `Store(0)`, or in a `TrafficCounter` that another
  first connection overwrote; traffic charged twice when a reply was lost and
  the push repeated (`NeverOverCharged` excludes lost replies).
- A broken or half-written file that stops all nodes; a late callback that uses a
  closed core; an edit missed because the watch is not there yet or went with the
  replaced file (`LastEditApplied` excludes the broken file and the missed edit).
- Reloads that never end: two nodes with different DNS routes overwrite each other,
  and one node with several routes writes them in the order of a Go map (`dns.go` 32),
  so that each reload may find the file different and cause the next (`ReloadsEnd`
  excludes them by `DnsUnsettled`).
- An inbound without a controller, after a controller failed behind `AddNode`, until
  the next reload.
- A protocol that is not recognised because its first message came in two parts:
  the sniffer that asks for more data is dropped (`sniffer.go` 66-70), although the
  loop says "allow to read until timeout" (`default.go` 587).
- A connection that passes because the rules are being replaced, or that makes the
  process panic because the list became shorter under its loop (`rule.go` 11-12 for the
  domains, 21-22 for the protocols): amid the update, or long after it when the new
  list is the shorter one. Both need a named node, which keeps its limiter when its
  configuration changes, or one whose limiter is known before it has its rules.
- An upload that goes on after `CloseAll`: a `CounterReader` cannot be interrupted,
  and a `cachedReader` keeps what the sniffer has read.
- Text left over from a block comment, or swallowed by it, after a star that does
  not end it (`json5.go` 34-43; `Cleaned` excludes such comments), and a byte
  skipped after a stray slash behind a comma.

## 6. Proofs

Every invariant the passing runs check, and the action property
`OnlyChangesReload`, is a theorem for every value of the constants; so is the
safety part of the refinement. The bounds on edits, faults, bytes or updates are
constants too, so that a theorem speaks of any number of them.

Assumptions. Each module names one. They say that bounds are natural numbers and
limits are numbers, that `None`, `Nil`, `Broken` and the words for "nothing" are
none of the values they stand beside, that `Supported` configurations are
configurations, and that sets which the code holds in a map or a slice (the users
of a node, connections, nodes, sniffers, rules) are finite. TLC evaluates them in
every run.

The inductive invariants were checked by TLC on the instance of the run before they
were proved. What each adds to the property, and why it is needed:

- `PeriodicTaskProofs`. `TypeCorrect` is inductive as it stands.
  `ExecutionsNeverOverlap` needs `ExecHoldsAccess`: the chain in `Execute` is the
  one that holds the mutex. `RunningTaskIsDriven` and `CloseReachesLoneTimer` rest
  on `DriverInv`: besides `RunningHasDriver` it says that a pending timer which
  `t.timer` does not point to is never the last chain of a running task. Without
  it `Close` followed by `Start` could take the last driver away. The lemmas say
  that no step of a running task ends a chain (`DriversRemain`), that only `Start`
  sets `running` and begins a fresh chain (`StartBeginsChain`), and how a timer
  loses its handle (`TimerLostToAnother`).
- `NodeControllerProofs`. `ControllerInv` says what a round has in its hands at each
  call (`RoundInv`), that a tag is free when a node is about to be added to it
  (`TagFreeInv`), the order of the steps of `Close`, and that after a `Close` without an error no
  late round is about to add the node and no import has its handler (`CloseInv`),
  that before the first edit every list is the one `Start` got (`UneditedInv`), and
  what the import has added so far (`ImportInv`). `ControllerInSync` needs `SyncInv`:
  `InSync` speaks of idle controllers only, and between two rounds lie up to six
  calls, each of which leaves inbound, limiter and list in a different relation.
  `ControllerReloadsChanges` is an action property; it follows from the same
  invariant, in which `EtagInv` says that without a failed request the saved ETag is
  that of the inbound, but for a round that was given another configuration.
- `LimiterProofs`. `TypeInv` says that the map a connection works on was published
  by a connection of the same user (`ConnInv`, `OnlineInv`). On it rest `BucketInv`
  for `UsersShareBuckets` (who is admitted has the bucket that is stored, and the
  connections of a user compute one rate), `HolderInv` for
  `LimiterKeepsNoGhosts` (an address in a map was entered by a connection that has
  not been rejected yet), `AddressInv` and `FullInv` for
  `FullUsersStayFull`, and `CountedInv` for `AdmittedAreCounted`. The proof of
  `FullUsersStayFull` uses no fact about updates, so the property no longer excludes
  them.
- `LinksProofs`. `LinksTypeCorrect` needs that whoever is about to call
  `CloseAll` has a manager (`ClosersHaveManager`). The other three share one
  inductive invariant. `CloserInv` says that neither closer closes a manager twice:
  a manager belongs to one user (`OwnerInv`), and one that a closer has been
  through is out of the map, or that closer is about to delete it (`CloseOnceInv`).
  `IndexInv` says that the length is right until the first `CloseAll`
  (`LengthInv`) and that only a manager that has been closed has cut links
  (`CutInv`), whose removal puts the length behind. So the first `CloseAll` finds
  exactly the index, and only the second, by the other closer, can miss a link
  (`IndexIsExact`) or panic (`PanicTakesBoth`); that the length is
  never ahead of the index (`CountIsNotAhead`) holds throughout.
- `TrafficProofs`. `UsersAreNeverOverCharged` is an inequality between sums over all
  connections. `Held(u)` is therefore the set of the bytes that the counters of `u`
  hold, whose cardinality is the sum, so that a counted byte is one element more and
  a reset takes elements away; the lemmas about finite sets replace an induction.
  `ReportInv` says that a counter holds at least what the report has read from it,
  since nobody else resets it: without it `Store(0)` could take away more than was
  put into the slice, or less. `SlotInv` says that every entry, also one of a
  `TrafficCounter` that was overwritten, counts for its own user.
- `ServerProofs`. `ServerTypeCorrect`, and with one inductive invariant,
  `ServerInv`, `NodesRunOnLiveCore` and `InboundsFollowConfig`. `PhaseInv` relates
  the step a reload is in to
  what is left of the old service and to the configuration it has read, and says
  that a late round meets an open core only between `nodes.Close` and `vc.Close`
  or while a reload hangs in `nodes.Close`;
  `HomeInv` says that there is no inbound from there to the first `AddNode`.
  Without them a late `AddNode` could put an inbound on the new cores.
- `DispatcherProofs`. `BlockedIsAlwaysStopped` needs the history of the attempts:
  a sniffer that has not matched has said no or is still asked (`AttemptInv`),
  what sniffing ended with is what is checked (`ResultInv`), and what a check knows of a
  list that was not replaced since it took its range: the list is at least as long as
  the range, the rules before the index do not match, and once the loop is over none
  does (`CheckInv`; `LoopStep` is a turn of a loop, `AppendRuleGives` says what it is
  for a list to grow under it). `DispatcherPanicsIfReplaced` follows from the same. That an answer of a sniffer
  outlives the next chunk is `VerdictInv`, from `Stable` in `Init`.
  `SniffingKeepsTheStream` is the refinement of `Stream` without its fairness:
  `StreamStep` shows each action to be `Write`, `Read`, `Break` or a stutter. That
  `CacheData` stutters is the associativity of concatenation, that `CloseAll` is a
  `Break` says that the cache is the head of the queue. `HandlerReadsInOrder` draws
  the consequence: the handler reads chunk 1, 2, 3 and so on.
- `Json5Proofs`. `PrepTypeCorrect` says that `prep` writes blanks and nothing else,
  on texts of every length. `InnerInv` tells the loop that may be entered three
  bytes past the end from those that may not. `PrepCleans` says that what is left
  is `Clean`, under the exclusions of `Cleaned`. `Clean` needs a row of tokens, and
  `TextIsRow` that every text has one: take the longest beginning of the text that
  is a row, and `OneMoreToken` makes it longer. That is an induction over the text, in
  the form of a least counterexample (`LeastElement`, from the library's fact that
  `<` on the naturals is well-founded). The invariant, `Walk`, says for each loop how
  the text so far compares with the clean one: `CleanTo` up to the beginning of a
  token, but for a comma in question, which only comments and white space follow;
  raw from there (`Rest`), or blank as far as the walk has come into a comment
  (`Blanked`), or in a string whose closing quote has not been met (`InString`, by
  `EscapedStep`: skipping the byte after an escape is counting the escapes before
  it). One lemma per turn of a loop carries it. `PrepAdvances` is the safety part of
  `PrepEnds`: every turn increases a number that is bounded by the length of the
  text; `Rank` orders the loops, since leaving one need not move the position.

Only model-checked: all liveness, which is out of this prover's reach (`Quiesces`,
`PeriodicallyExecutes`, `CloseReturns`, `UsersConverge`, `ChangesArrive`,
`IdleUserFreed`, `CounterCollected`, `LastEditApplied`, `ReloadsEnd`,
`SniffingEnds`, `PrepEnds`), and the fairness part of `SniffingIsInvisible`.

## 7. Plan

Done: the modules and theorems above. Next, in this order:

1. Action properties: what a round of the controller may never do to a user whom
   no edit touched.
2. Two controllers on one core: shared `nodeReportMinTrafficBytes`, `uidMap` and
   link managers, also with the same tag on two cores of a selector.
3. An abstract specification of the limiter's admission as one atomic decision.

## 8. Not modelled

- The protocol parsers behind the sniffers, the router and the matching of the
  rules' regular expressions: their answers are inputs of `Dispatcher`.
- The dynamic speed limit (`UpdateDynamicSpeedLimit`): never called.
- Certificates (`node/cert.go`, `node/lego.go`): nodes that `Start` accepts do not
  use them, the renewal task is never created, and a request by a monitor round is
  part of the success or failure of `AddNode`; the ACME exchange is I/O.
- Field-by-field translation of inbounds, outbounds and users; configuration
  structs and their defaults.
- The command line (`cmd/config_init.go` and the one-shot commands), key
  derivation, generated protobuf code.
- Xray itself, resty, fsnotify and the panel are external: modelled from how the
  code uses them.
