# Insolar in TLA+

A verification project for the Insolar platform, the ledger and the execution
of smart contracts in particular: TLA+ modules that model parts of the code,
TLC configurations that check them on small instances, and TLAPS proofs that
some of it holds for every instance. `PROJECT.json` says, definition by
definition, which lines of the source a module models.

Run from this directory:

    tlc -workers 2 -config MCHeavyFinalization.cfg MCHeavyFinalization
    tlapm HeavyFinalizationProofs.tla

The longest run takes about four minutes with two workers, the proofs about five
altogether.

## 1. The system

Time in an Insolar network is cut into *pulses*. A pulse comes from the pulsar
and gives every object (and every *jet*, a shard of the address space) a new
*executor*. Three kinds of nodes take part:

* **virtual nodes** execute contracts: in a pulse, requests to an object are
  executed by one virtual node only;
* **light material nodes** keep the working data of their jets (records, indexes,
  the *filament* of pending requests of an object), hand the recent part over
  as *hot data* when the pulse ends, and replicate the pulse to the heavy node;
* the **heavy material node** stores everything for ever, and declares a pulse
  *final* when it has it from everybody and has made a backup.

Everything hard happens at the change of a pulse: executors change while
executions and messages are under way, nodes notice the new pulse at different
moments, and what the old executor knows has to reach the new one.

### Components

| Component (source) | State | Operations | Interacts with | What is hard | What makes it correct | Module |
|---|---|---|---|---|---|---|
| light write controller (`ledger/light/executor/writecontroller.go`) | current pulse, closed flag, wait group | `Begin`/done, `CloseAndWait`, `Open` | flow procedures, light pulse manager | `CloseAndWait` waits without its lock | nobody writes for a pulse that has been left; the pulse change is never blocked for good | `WriteController` |
| light pulse manager (`pulsemanager.go`) | latest pulse, `setLock` | `Set` | write controller, hot data waiter, hot sender, replicator, dispatchers | order of its steps | no write after the hot data were collected | in the module of each component it drives: `WriteController`, `LightHotData`, `FlowDispatcher`, `LightReplication` |
| heavy jet keeper (`ledger/heavy/executor/*jetkeeper.go`, `jetinfo.go`) | a record per pulse and jet, top sync pulse | add drop / hot / backup confirmation, consistency of a pulse, truncation | replicator, handlers | confirmations of several pulses in any order | the top sync pulse moves one by one, over complete pulses only | `HeavyFinalization` |
| heavy finalization (`finalize_pulse.go`, `backuper.go`) | `finalizationLock`, `lastBackupedPulse` | `FinalizePulse` | jet keeper, backup maker, index storage | check and action under different locks; no polling | one finalizer per pulse; no pulse forgotten | `HeavyFinalization` |
| heavy replicator, hot confirmation handler | storages, jet tree | `sync`, `handleGotHotConfirmation` | light nodes, finalization | run concurrently | nothing stops the node | `HeavyFinalization` |
| heavy restart (`db_rollback.go`, `initial_state_keeper.go`, `finalization_keeper.go`) | the databases | truncation database by database, initial state, panic when far behind | jet keeper, light nodes | crash between any two writes | the rollback always leads to a state to go on from | `HeavyFinalization` |
| execution broker (`logicrunner/executionbroker.go`) | pending state, `ledgerHasMoreRequests`, deduplication table, queue | `HasMoreRequests`, the processor, `OnPulse`, answers to four messages | other virtual nodes, ledger | two executors at once, lost and late messages | no update lost; no request forgotten | `ExecutionHandoff` |
| execution registry, state storage | what the node executes, brokers | register, done, `OnPulse` | brokers | outlives the broker | the next executor hears of what still runs | `ExecutionHandoff` |
| request fetcher (`request_fetcher.go`) | skip list | fetch rounds, abort | ledger, broker | request registered after the last round | the request is seen in a later round or pulse | `ExecutionHandoff` (rounds) |
| virtual message handlers, contract requester, retrying senders | calls under way | `HandleCall`, `AdditionalCall`, `PendingFinished`, ... | each other | pulse change between registration and write access | a call that was accepted is executed | `ExecutionHandoff` |
| light request procedures (`ledger/light/proc`) | filament of an object | `SetRequest`, `SetResult`, `HasPendings`, `GetPendings`, `SendObject`, `notifyPending` | virtual nodes | requests of executors that are behind | mutable requests are closed in order | `ExecutionHandoff` (one object) |
| filament calculator, request checker | filament caches | opened/pending requests, validity of a request | light nodes of past pulses | data from several nodes | same answer as the whole filament | planned |
| flow dispatcher and threads (`insolar/flow`) | the controller's three channels, a thread per message | `ClosePulse`, `BeginPulse`, `Process`, `Procedure`, `Migrate` | every handler, the three pulse managers | channels read one by one | a message is handled in its pulse or cancelled; none waits for ever | `FlowDispatcher` |
| message bus, retries (`insolar/bus`) | reply channels under a mutex, retry goroutines | `SendRole`, `sendTarget`, `removeReplyChannel`, `IncomingMessageRouter`, `retryWrapper` | every node | reply against timeout against done | no write to a closed channel, no reply to another attempt, no lock held for good | `MessageBus` |
| virtual write controller (`logicrunner/writecontroller`) | as the light one, plus `WaitOpened`; a new wait group at every `Open` | `Begin`/done, `WaitOpened`, `CloseAndWait`, `Open` | handlers, virtual pulse manager, network | the wait group has two uses | as the light one; nobody sleeps on a group that was replaced | `VirtualWriteController` |
| hot data waiter, hot sender, hot objects (`ledger/light/executor/waiter.go`, `hot_sender.go`, `proc/hot_objects.go`) | channel per pulse and jet, indexes per pulse | `Wait`, `Unlock`, `CloseAllUntil`, `SendHot`, `HotObjects` | pulse manager, write controller, request procedures | wait against close; hot data late or lost | an accepted request is in every later index; nobody waits in vain | `LightHotData` |
| jet fetcher (`jet_fetcher.go`) | sequencer of entries with channels | `Fetch`, `Release` | jet tree, hot data handler | concurrent fetches share a result | every caller returns, with an actual jet or an error | `JetFetcher` |
| jet tree, jet splitter | trees | `Update`, `Split`, leaves | light nodes, heavy node | concurrent use | the leaves partition the address space | planned; `Update` and leaves in `HeavyFinalization` and `JetFetcher` |
| light replicator and cleaner (`lightreplicator.go`, `cleaner.go`) | goroutines that notify, two workers, the pulse storage in memory | `NotifyAboutPulse`, `sync`, `clean` | pulse manager, heavy node, handlers that read old pulses | notifications overtake one another | cleaned only after replication, and only what no handler was promised | `LightReplication` |
| outgoing sender, result matcher, shutdown | actor mailbox, maps | | virtual nodes | limit on goroutines | every outgoing is sent | planned |
| storages, network consensus, gateways, pulsar, VM and contracts, API, exporter | | | | | | not modelled (section 8) |

## 2. Modules

| Module | Role |
|---|---|
| `WriteBarrier` | abstract: a pulse that is entered and left, shut, and advanced only when it is shut and empty |
| `WriteAccess` | what the two write controllers have in common: the pulse that can be written, who writes, and the properties that both must keep |
| `WriteController` | the light node's write controller and the pulse manager that drives it; implements `WriteBarrier` |
| `VirtualWriteController` (`WriteControllerProofs`, for both controllers) | the virtual node's, with `WaitOpened`, the network that starts a goroutine per pulse and the two pulse storages; implements `WriteBarrier` |
| `FlowDispatcher` (`...Proofs`) | controller, threads and message handlers against the three pulse managers |
| `MessageBus` (`...Proofs`) | request, retry, timeout, reply and router |
| `LightHotData` (`...Proofs`) | a composition on the light nodes: pulse manager, hot data waiter, hot sender, hot objects, write controller, registration of requests, index |
| `JetFetcher` (`...Proofs`) | concurrent fetches of a jet, with hot data that arrive meanwhile |
| `LightReplication` (`...Proofs`) | replicator, cleaner, pulse storage and handlers of old data |
| `FinalLedger` | abstract: pulses become known in order and final one by one, each with the jets that the one before left, and for good |
| `HeavyFinalization` (`...Proofs`) | a composition of the heavy node's components: jet keeper, replicator, handlers, finalization, backup, crash, rollback, and the light nodes as the source of messages; implements `FinalLedger` |
| `ExecutionHandoff` (`...Proofs`) | a composition: virtual nodes, their messages and the ledger, for one object: broker, registry, fetcher, handlers, senders and light procedures |
| `MC...` | the same for TLC, with constants and symmetry sets; one `.cfg` per question |

Definitions whose comment starts with *Slip* are not part of a specification:
each is a definition of the module as a plausible mistake in the code would
make it, kept to show that a property notices it (`mutants` in `PROJECT.json`).

### WriteController

One action per method; the lock makes a method atomic except that
`CloseAndWait` is split where it unlocks (`CloseAndWait`, `WaitReturns`).
`writing[w]` is the pulse that goroutine `w` got access for. `PulseManager.Set`
is a process with a program counter `set`; its panics stop the node. The network
may hand over any pulse number, also a repeated or an old one. `Done` acts on
the controller's *current* wait group, as `m.wg.Done()` does: that it is the one
the writer was counted in is a consequence (`NoStaleWriter`), not an assumption.

### VirtualWriteController

`gen` numbers the wait groups, because `Open` replaces the group. A waiter takes the
group under the lock (`WaitOpened`) and waits on it later (`Wait`); a `sync.WaitGroup`
is modelled with the sleepers of Go's implementation: at zero `Wait` returns at once,
the `Done` that reaches zero wakes all sleepers, and one that wakes into a group that is
in use again panics (`panicked`). `CloseAndWait` is four actions: closing under the lock,
waiting, `wg.Add(1)`, which like the waiting is done without the lock, and `Open` in a later step of `Set`.
`OnPulseFromConsensus` starts a goroutine per pulse and these take `setLock` in any
order; an error of `Set` stops the node.

### FlowDispatcher

Channels are numbered by the calls that made them, so a thread's `cancel`, `canBegin` and
`canProcess` say from which pulse change they come. The creation of a thread is one action
per read (`Process`, `Processes`, `ReadCancel`, `ReadCanBegin`, `Choose`): a pulse
change fits between any two. `ClosesFirst` tells the heavy node's `Set`, which closes the
pulse before it looks at the node list, from the other two.

### MessageBus

A request is the retry goroutine of `retryWrapper` with its client. Attempt `n` of request `q`
is `<<q, n>>`; its `lockedReply` has a hash, a wait group and the state of its removal
(`no` - `lock` - `wait` - `over`: done closed, mutex taken and hash deleted, routers left and
channel closed). The hash is the pair of request and number of UUIDs drawn, so that two attempts
have different hashes only because the code draws a new UUID. Any number of replies to any
attempt that was sent may come, in any order, at any time, or never.

### LightHotData

`executor[j][p]` is chosen at the start and constant, as the coordinator's answer is. Nodes follow
the pulses each at its own pace, may miss some and join late (`Join`, `SetPulse`). `Set` is
the sequence `CheckHot` - `CloseAllUntil` - `Close` - `Drain` - `Open` - `Append`, one action
per call, and `Append` starts the goroutines that send the hot data. A hot message may be
lost or late; the procedure stores the indexes (`StoreHot`) and opens the jet (`UnlockHot`) in two
steps. `waiters`, `opened` and `closedUntil` are the waiter's fields; `raised` remembers closed
channels that were removed from the map, because somebody may still wait on them. A request
goes through `Dispatch`, `Wait`, `Lock` (the object's lock and the search for a duplicate),
`Begin` (write access) and `Store`; one that failed may be sent again in a later pulse.
A request in `wait` whose pulse was closed gets the timeout (`RaiseTimeouts`, a part of `CloseAllUntil`) and goes
to `timeout`, from which it fails, or goes on if its channel was closed as well (a `select` takes either).
`stored` is a history variable: what the callers were told is stored.

### JetFetcher

The local tree of one pulse: `actual` and `split`; a routine's key is the jet its tree has for the
object. `Enter` takes `seqMutex` and finds or makes an entry, `Wake` looks again after the channel
was closed, `Close` and `Delete` are the two halves of the deferred function. `Release` deletes
entries of routines that still run, as the code does.

### LightReplication

Pulses are numbered by their place in the pulse storage. `notify` and `notifyCl` are the goroutines
that `NotifyAboutPulse` is called in; they run in any order. The replicator's worker sends jet by
jet. `Clean` deletes the data of a pulse and `Shift` moves the storage's head over it, two steps.
`MaxLag` is an assumption on the environment: no notification is more than so many pulses behind;
`CleanerDelay` pulses is what a handler may take between its check of the limit and its
read. Both are guards of `SetPulse`. Without the first one the code loses data
(`MCLightReplicationSlow.cfg`).

### HeavyFinalization

A goroutine has a control point `pc`, its message and the pulse it finalizes.
There is one `Replicator` and a set of `Handlers`; a free handler stands for the
goroutine that watermill starts for a message. One action is the code between two
points where other goroutines can see a difference:

`Receive` - `StoreDrop` - `AddDropConfirmation` - `UpdateJets` (replicator), or
`Receive` - `AddHotConfirmation` (handler), then for both `CheckConfirms` -
`CheckNextTop` - `MakeBackup` - `AddBackupConfirmation` - `UpdateTopSyncPulse` -
`CheckNewTop` - `UpdateLastKnownPulse`, and again from `CheckConfirms` for the next
pulse. The three locks (the jet keeper's, the backup maker's, `finalizationLock`)
are the guards `JetKeeperFree` and `FinalizationFree` and the atomicity of
`MakeBackup`. `CheckConfirms` and `CheckNextTop` are two actions because
`shouldStartFinalization` takes the jet keeper's lock twice.

A jet is its path in the tree. `NewPulse(S)` ends the last pulse with the jets in
`S` split; the light nodes then send one drop per jet and one hot confirmation per
jet of the next pulse, and these may arrive in any order and late. A crash
(`Crash`, also a failed backup) or a `logger.Fatal` empties the process, at any control
point and in the middle of a rollback; `Restart`, then `TruncateHead` once per database in the order of `components.go`, then
`StartComponents`. A heavy node that died stops the network: the light nodes start
again with the jets of the top sync pulse, but messages they sent before may still
come.

### ExecutionHandoff

One object. `nodePulse[n]` is the pulse in which a node is: it lags behind `pulse`,
the network's and the light node's, by at most one. `broker[n]` is the broker of
the node's own pulse; brokers of past pulses are closed and in pending and live on
only in `exec[n][r].by` and `leaving[n]`, the goroutines that they still have to
finish. An element of `leaving[n]` also says whether the registry of its broker is still the
node's: `stateStorage.OnPulse` deletes a registry that is empty (`DropRegistry`), the next broker gets a
new one, and the old broker goes on to look at the old one. `exec[n][r]` is a goroutine in `processTranscript`
(`registered` - `reading` - `running` - `done`, or `refused` when the ledger names
another earliest request; `reading` is between the two reads of `SendObject`); all of them together are the execution registry.

Goroutines in `startProcessor` are counted (`starters`), and the one that waits for
the answer to `HasPendings` keeps the answer in `asked`: the ledger was read at one
moment, and the answer is applied at another. A question that fails (`AskLedgerFails`) leaves the
state unknown and ends the goroutine; it counts as a fault. The deduplication table and the
fetcher's skip list are one set (`fetched`). Messages are records in `net` that
carry the pulse they were sent in; a handler runs in that pulse only, and a late
message goes through the cancelled-flow path: retried once for `CallMethod`,
`AdditionalCall` and `PendingFinished`, dropped for `ExecutorResults`,
`StillExecuting` and the light node's `AbandonedRequests`. Nobody answers for a dead
node; a timeout is not retried.

The ledger is the filament in the order of registration with the pulse of
registration and of the result. A node that lags is answered from the index of its
own pulse (`OpenedRequests(nodePulse[n])`), and can write only once it has caught up.

An execution takes arbitrarily many pulses. `Timely` is the assumption of a useful
pulse length that the recovery properties need: within a pulse the messages sent at
its beginning arrive and are looked at, and a goroutine gets from
`finishTranscript` to `finishPendingIfNeeded`. The safety properties are checked
without it.

## 3. Runs

| Run | Config | Checks | Bounds | States |
|---|---|---|---|---|
| `light_write_barrier` | `MCWriteController.cfg` | no stale writer, refinement of `WriteBarrier`, `CloseAndWait` returns | 3 writers, 4 pulses | 403 |
| `virtual_write_barrier` | `MCVirtualWriteController.cfg` | wait groups exact, nobody left asleep, pulse storages agree, refinement of `WriteBarrier`, `CloseAndWait` and `WaitOpened` return | 2 writers, 2 waiters, 4 pulses | 15 557 |
| `dispatcher_threads` | `MCFlowDispatcher.cfg` | no panic, the handlers of messages of a pulse that has ended (those that were of the present when they came) are cancelled, no message of the future sleeps through its pulse, every message is handled or waits for its pulse | 1 message, 4 pulses, light and virtual `Set` | 67 275 |
| `bus_replies` | `MCMessageBus.cfg` | no send on a closed channel, no stale reply, no leak, every attempt ends | 1 request with 1 retry, 2 answers, 2 routers, 2 pulses | 35 400 |
| `light_hot_data` | `MCLightHotData.cfg` | no accepted request is lost or stored twice, hot data before writes, nobody waits in vain | 2 nodes, 1 jet, 2 requests, 3 pulses | 4 508 990 (symmetry) |
| `jet_fetch` | `MCJetFetcher.cfg` | a found jet is actual, nobody left asleep, no dead entry, every fetch returns | 3 routines, 2 jets | 206 903 |
| `light_replication` | `MCLightReplication.cfg` | sent before cleaned, handlers find their data, everything is sent | 2 jets, 1 handler, limit 2, delay 2, lag 3, 7 pulses | 248 331 |
| `finalization` | `MCHeavyFinalization.cfg` | type, no fatal, final pulses complete, one finalizer, backups ordered, index follows top, refinement of `FinalLedger`, every ended pulse becomes final | 3 pulses, jets of depth 1, 2 handlers, 1 crash | 317 690 |
| `finalization_postgres` | `MCHeavyFinalizationPostgres.cfg` | `StepReachesTop`: **violated** | 3 pulses, no split | |
| `handoff_overlap` | `MCExecutionHandoff.cfg` | one update at a time, accepted requests are remembered | 2 nodes, 2 mutable requests, 3 pulses | 3 313 355 (symmetry) |
| `handoff_recovery` | `MCExecutionHandoffRecovery.cfg` | accepted requests are remembered, and closed | 2 nodes, 1 request, 4 pulses, 1 fault, `Timely` | 1 212 316 |
| `handoff_lost_update` | `MCExecutionHandoffLost.cfg` | `NoLostUpdate`: **violated** | as `handoff_overlap` | |

Further configurations, for the same modules, that are not part of the list of runs:

| Config | Shows |
|---|---|
| `MCVirtualWriteControllerOpened.cfg` | `WaitsForOpen` violated (section 4, 6) |
| `MCVirtualWriteControllerReuse.cfg` | `NoReusePanic` violated (7) |
| `MCFlowDispatcherFresh.cfg` | `CancelledOnlyByPulse` violated (8) |
| `MCFlowDispatcherHeavy.cfg` | `NoPanic` violated by the heavy node's `Set` (9) |
| `MCMessageBusPulse.cfg` | `RetriesAfterPulse` violated (10) |
| `MCMessageBusTwo.cfg` | two requests share the mutex of the replies: passes |
| `MCLightHotDataSender.cfg` | `HotReachesExecutor` violated (11) |
| `MCJetFetcherGroup.cfg` | `GroupIsSequential` violated (12) |
| `MCLightReplicationSlow.cfg` | `SentBeforeCleaned` violated without a bound on the lag (13) |
| `MCLightReplicationLeft.cfg` | `NothingStaysBehind` violated (14) |
| `MCExecutionHandoffOneNode.cfg` | the type invariant, and recovery on a single node, with an immutable request: passes |
| `MCExecutionHandoffOverlap.cfg`, `...Again.cfg`, `...Refused.cfg` | `ExclusiveExecution`, `NotExecutedAgain`, `NeverRefused` violated (2, 3, 4) |

Why the bounds are enough to meet the interesting cases:

* *write barriers*: three writers let one finish, one hang on and one be refused
  while `CloseAndWait` waits; four pulses allow two pulse changes, then a past
  and a repeated number. On the virtual node two waiters meet every combination of early, sleeping
  and woken, and three pulse changes reuse the controller with two replaced groups.
* *dispatcher*: messages do not interact (the controller's state does not depend on them), so one
  message of any pulse suffices; four pulses give it two pulse changes on the way and one after.
* *bus*: two routers race with each other for one `lockedReply`; one retry is enough for a late
  reply to meet a later attempt, and two answers for a reply between answers. The shared
  mutex is the business of `MCMessageBusTwo.cfg`, and the proof has no bounds.
* *hot data*: two nodes and three pulses contain each case of the same and of another executor twice
  in a row, a pulse missed, and a node that joins late; two requests for one object give an order, a
  duplicate and a conflict for the object's lock. Jets are independent of one another here.
* *jet fetch*: two routines of one group and one of another group under the same root; a routine
  that waits, one that fetches and one that enters under the key meanwhile.
* *replication*: seven pulses are more than limit, delay and lag together, so that pulses are cleaned
  while notifications are as far behind as they may. `MaxLag` 3 is the largest value below
  limit + delay, for which the property holds. The defaults of the code are a limit
  of 5 and a delay of 3.
* *finalization*: with three pulses the confirmations of one pulse overtake those
  of the two before it, and a goroutine propagates twice. Depth 1 has the split
  and the unsplit pulse. Two handlers and the replicator are three goroutines
  in `FinalizePulse`, one more than the races found need. One crash hits every control point, and the
  restart and the rollback as well. The limit (`LightChainLimit`, 5 by default) is 4, above
  the number of pulses: the finalization keeper's panic is modelled (`FallsBehind`) and not reached in
  these bounds.
* *handoff*: overlap of executors needs two nodes and three pulses (executor, next
  executor, and the return of the first); two mutable requests give an order to
  violate. A dead executor is found out after two pulse changes, so the recovery
  run has four pulses and lets calls and faults come in the first two. The
  threshold after which light nodes speak of abandoned requests, two pulses in the
  code, is 0 there, so that the notification happens within the four pulses; the
  other runs keep 2. A fault is a crash of a virtual node, a lost message, a
  failed execution or a failed question to the ledger. One request suffices for the recovery, which is about
  one request being told on from executor to executor; what needs a second one, a request that is registered while the broker fetches or
  stands behind one that failed, is the business of `AcceptedIsRemembered` in `handoff_overlap`.

Symmetry is used only in runs without liveness. `CHECK_DEADLOCK FALSE` is set because
the system may stop: pulses are bounded and nobody is obliged to call.

### Fairness

* `WriteController`, `VirtualWriteController`: a procedure that has access reaches its deferred
  `done`, `Set` goes on, and a goroutine that can run in `WaitOpened` runs. Neither `Begin` nor a
  pulse is owed.
* `FlowDispatcher`: weak fairness for `Set` once called and for each thread; strong fairness for the
  return of a handler, since no handler calls procedures for ever. Pulses are not owed: a message of
  the future may wait for its pulse, and `MessageHandled` lets it.
* `MessageBus`: weak fairness for goroutines, the timeout and a client that reads until it calls
  done; strong fairness for those who take `repliesMutex`, which Go's mutexes give (no starvation).
  Neither replies nor pulses are owed, and `Publish` may fail.
* `JetFetcher`: goroutines run, and a fetch comes back, because each request in it ends with the
  timeout of the bus.
* `LightReplication`: notifications and the replicator's worker run. Nothing is asked of the cleaner,
  the handlers or the pulses.
* `HeavyFinalization`: weak fairness for each goroutine's next step and for the receipt
  of a message: the Go scheduler runs what can run, and light nodes send until
  they get an answer or exit. Pulses and crashes are not owed.
* `ExecutionHandoff`: weak fairness for the delivery of messages (a lost message is a
  `Lose` step, limited by `MaxFaults`), handling of calls, each node's processor,
  its change to a pulse it knows of, and each execution; pulses keep coming up to
  the bound, as the pulsar sends them by the clock. Calls and faults are not owed.
  `AcceptedIsClosed` speaks of requests accepted up to `LastInput`, since after the
  last pulse of the model nobody would recover anything.

## 4. What the runs show

**The write barriers hold.** Nobody writes for a pulse that the controller has left,
although `CloseAndWait` waits without its lock; on the light node the wait group that `done`
decrements is always the one that `Begin` incremented. The two controllers, different as their wait
groups are, implement the same abstract barrier (`ImplementsBarrier`): a pulse is advanced only when it is shut
and empty, and nobody enters a pulse that is shut. On the virtual node the double use of the wait group does no
harm to the writers, and no caller of `WaitOpened` is left on a replaced group.

**A message is handled in its pulse, or cancelled.** Wherever the pulse change falls while a thread is
made, the thread's `cancel` is not younger than its pulse, so that a handler of an ended pulse is cancelled,
and its `canBegin` is one that the beginning of its pulse closes.

**The bus neither panics, leaks nor blocks.** The count under the lock and the wait before closing make
the race of reply, timeout and done harmless; the mutex held while waiting for the routers does not
block them, because `done` is closed before it is taken.

**No accepted request is lost with the hot data.** When hot data are lost or late, the jet stays shut for the
pulse and nobody writes to an incomplete index; the node that should have got them stops at the next pulse change
(`CheckHot`), unless it has just joined. What was stored and told to the caller is in the index of every later
executor that opened the jet. A request that is sent again is stored once, by whichever executor and in whichever
pulse (`StoredOnce`, which also says that whoever is about to write has not been overtaken by another handler
of the same request in the same pulse). Whoever waits for hot data waits in the latest pulse of its node, or its timeout has been raised
(`NobodyWaitsInVain`).

**Fetches of a jet always return**, with a jet that is actual or with an error, although a routine may delete the
entry of another (12).

**Replication comes before cleaning** as long as no notification is `LightChainLimit + CleanerDelay` pulses
behind, and a handler that passed the check of the limit finds its data within `CleanerDelay` pulses.

**Finalization with Badger holds.** `shouldStartFinalization` and
`AddBackupConfirmation` are not atomic; what makes them safe is
`lastBackupedPulse`, which lets one goroutine per pulse through. No confirmation is
lost between goroutines: whoever comes last finds everything, and whoever finalizes
goes on with the next pulse. A crash between any two writes is repaired by the
rollback, also if it hits the rollback.
What comes out is a ledger of final pulses that only grows (`ImplementsLedger`): it
walks along the known pulses one by one, the jets of each go on from those of the one
before, and what is final stays as it is.

**One update at a time.** The pending protocol does not keep two virtual nodes from
executing requests of one object at the same time (below). What protects the
object is the ledger: it names the earliest request when the object is read, and
accepts a result only from the earliest request. From the first of these checks to
the second nobody else can change the object (`OneUpdateAtATime`), whatever executors
overlap and however late they are. What the ledger hands out at the first check may be older
than the check, though: finding 5.

**What was accepted is remembered.** A request that is registered while the broker fetches, or after it has seen the
end of the filament, leaves a token behind (`probablyMoreSinceLastFetch`); the broker either has the request,
fetches, or will fetch again, and it goes on to say that there is work on the ledger, also when
an execution failed (`AcceptedIsRemembered`).

**Accepted requests are executed**, through one crash, lost message or failed
execution, provided pulses keep coming and are long enough (`Timely`).

### Where the code disagrees with itself

1. *Postgres finalization* (`finalize_pulse.go:164`). `PostgresBackupMaker` remembers
   nothing, so two goroutines can pass `MakeBackup` for the same pulse; the
   faster one makes the next pulse final too, and the slower one exits the node
   with "pulse has not been changed after adding backup confirmation".
2. *NotPending* (`executionbroker.go:545`, `insolar/vm.go:123`). A `PendingFinished`
   is believed whoever sends it. If it comes from the executor of two pulses ago, it
   frees the object while the executor of the previous pulse is at work.
3. *Request that is not open* (`send_object.go:87`). `errors.Wrap(err, ...)` with a
   nil `err` is nil: the error "request isn't opened" is never returned, and a closed
   request is executed again. Its result is not accepted a second time.
4. *Different earliest request* (`executionbroker.go:341`). "This shouldn't happen"
   happens after any failed execution: the failed request stays open and
   in front of the requests that the broker already has in its queue. They are
   refused, and taken up again in the next pulse.
5. *Lost update* (`send_object.go:180`). `SendObject` takes no lock; it reads the index,
   whose state it hands out, and after that the open requests. A result that is saved in
   between makes the asking request the earliest one, and it is executed on the
   state before that result. Nothing compares `PrevState` when the result is saved.
   It takes two executions of one object at a time, and those are possible (2, or an
   executor that does not hear in time that the previous one is at work).

6. *WaitOpened* (`logicrunner/writecontroller/writecontroller.go:146`). "Wait for Open to be called after
   CloseAndWait" (line 28). `CloseAndWait` sets `closed`, gives up the lock, waits for the writers and only
   then adds one to the wait group: a waiter that comes before that `Add` waits for the writers only, and
   returns while the pulse is closed.
7. *A wait group in use again* (same place). "we won't have race condition here, since every new Open we'll
   have new WaitGroup" (line 117). A waiter that slept with `CloseAndWait` on the last writer and wakes after
   the `Add(1)` meets the panic "WaitGroup is reused before previous Wait has returned".
8. *Cancelled without a pulse* (`thread.go:43`). "the Procedure is marked as canceled if a pulse happens during
   it's execution" (`insolar/flow/flow.go:26`). A goroutine that passed `CanProcess` just before `ClosePulse`
   may make its thread between `ClosePulse` and `BeginPulse`: it takes the closed channel of the old pulse, and
   is of the new pulse if it reads the latest pulse late enough; its procedures are refused in the middle
   of that pulse.
9. *The heavy node's dispatcher* (`ledger/heavy/pulsemanager/pulsemanager.go:85`). `Set` returns between
   `ClosePulse` and `BeginPulse` when there are no working nodes; the next `ClosePulse` closes a closed channel. The
   two other pulse managers look at the node list first.
10. *A retry in the same pulse* (`retryer.go:82`). "it retries request after pulse on current node will be
    changed" (line 54). The pulse that the loop compares with is read before the pulse that `SendRole` sends in.
11. *Hot data for the wrong executor* (`hot_sender.go:163`). "SendHot send hot records from oldPulse to all jets in
    newPulse" (line 102). The goroutine asks for the executor of the latest pulse when it runs. After another
    pulse change they go to the executor of the later pulse, which has no use for them. No stored request is lost by it (`NothingIsLost`), but the
    executor of `newPulse` has to stop.
12. *Groups of fetches* (`jet_fetcher.go:173`). "Routines within one group executed sequentially" (line 83). `Release`
    deletes the entry of a routine that is fetching; the next one fetches at the same time.
13. *A slow notification* (`lightreplicator.go:97`). "After sending a heavy payload to a heavy, data is deleted"
    (line 85). The cleaning of a pulse is tied to the sending of a pulse that is later by a fixed number. A
    notification that is further behind finds its pulse gone and only logs it: the pulse never comes to the heavy
    node.
14. *An overtaken cleaner's notification* (`cleaner.go:119`). Its pulse was shifted out of the storage together with
    a later one; nothing is done, and the data stay in memory.

## 5. What is proved

The theorems hold for all values of the constants under the modules' named
assumptions (bounds are naturals, the replicator is not a handler, the writers and routers are
finite, the requests to an object are finite, and so on).

**`WriteBarrierHolds`** (`WriteControllerProofs`, where the light node's controller is `Light`): `Light!Spec => []NoStaleWriter` together
with the exact counter and the quiet between pulses. `NoStaleWriter` alone is not
inductive: `Open` preserves it because nobody is active, which follows from the
counter being zero, so the counter must be exact, and from the closed flag being set
while `Set` waits and opens. `Inv` is the conjunction; `Done` and `Begin` change a
cardinality by one, the rest is case analysis. **`LightImplementsBarrier`**: with the invariant, every step is a
step of `WriteBarrier` or leaves it alone.

**`VirtualControllerCorrect`** (`WriteControllerProofs`): the counter of the current wait group is the number
of writers, plus one between `AddOne` and `Open`; the groups before it are at zero and have no sleepers
(`GroupsAreExact`, `NobodyLeftAsleep`); nobody writes late, and the write controller and the pulse storage have the same
pulse between pulse changes. Each of these needs the others at `Open`, where the group is replaced.
**`VirtualImplementsBarrier`** follows as on the light node.

**`DispatcherCorrect`** (`FlowDispatcherProofs`, for `ClosesFirst = FALSE`): `NoPanic`, `EndedIsCancelled` and
`FutureWakes`. `EndedIsCancelled` is about the handlers of messages that were of the present when they came; a thread that
waited for its pulse, or that migrated into it, is outside it. The invariant (`ControllerInv` and one about each thread) says which channels are closed at
each control point of `Set`, and ties the number of the channel a thread has read to the pulses that began before it read
the next.

**`BusIsSafe`** (`MessageBusProofs`): `NoSendOnClosed`, `NoStaleReply`, `NothingLeaks` and the exact wait groups.
The invariant: a request's number of attempts and its number of UUIDs go together (`CountInv`), so every attempt has its own hash
(`HashInv`); an attempt that is over has been removed (`PastInv`), one that has not begun has left no trace
(`FutureInv`); the map has only attempts that nobody has deleted (`RepliesInv`); a router holds the reply of the attempt it
has an answer to, and that is not closed (`RouterInv`), because the count is the cardinality of the holders.

**`NobodyIsLost`** (`JetFetcherProofs`): `FoundIsActual`, `NobodyLeftAsleep` and `NoDeadEntry`. Entries may be deleted by
others, so the invariant does not speak of the sequencer for those who sleep but of channels: whoever sleeps on an open
channel has a routine that holds the same entry and is before its `Close`, and an entry in the sequencer has such a
routine with the same key before its `Delete`.

**`ReplicationIsSafe`** (`LightReplicationProofs`, for `MaxLag < LightChainLimit + CleanerDelay`): `SentBeforeCleaned`,
`HandlerFindsData`, and, of the replicator's worker, `WorkerFindsData`, which is proved only. The invariant keeps the cleaner `CleanFrom` pulses behind the latest pulse
(`CleanerInv`) and everything unsent within `MaxLag` of it (`LagInv`), so the two never meet; and every ended pulse is sent
or on its way (`SendingInv`).

**`GateIsSafe`** (`LightHotDataProofs`): `HotBeforeWrite` and `NobodyWaitsInVain`. `Wait` lets a request of an ended pulse
pass at once, without hot data, so the invariant has to show that such a request gets no write access: it says for
each control point of `Set` how `closedUntil` and the latest pulse lie (`ClosedInv`), what the write controller accepts
(`WritableInv`), and that between `CheckHot` and the closing of the write controller, the only time when the pulse that
can be written is one whose waiters are closed, its hot data are there (`CheckedInv`, from `RaisedInv`). That nobody waits in vain
rests on the check that `Wait` makes of `closedUntil` under the lock: whoever got past it has a pulse whose timeouts are still
to be raised, and `CloseAllUntil` raises them all in the step in which it moves `closedUntil` on.

**`DataIsSafe`** (`LightHotDataProofs`): `NothingIsLost` and `StoredOnce`. The index of a jet travels from executor to
executor, and the argument follows it. On top of the gate's invariant, `DataInv` says: the hot data of a jet are in one place at
most, waiting in a sender's goroutine or on the way (`OnePlaceInv`), and what is there holds everything that any node has stored
for the jet (`HotInv`); while they are under way, every executor before has left its pulse (`NewestInv`), so nothing can be
added behind their back, because whoever writes keeps its node in the pulse (`WriterInv`, which is what the write controller
is for); `CheckHot` makes sure that there is something to hand on (`SetInv`). `StoredOnce` needs more than an index that is complete:
the request that is about to write has read the index under the object's lock, and the lock makes
what it has read still true when it writes (`BaseInv`, `LockInv`). `WriterIsFirst` puts this together: had the request
been stored before, in an earlier pulse or in this one, the jet was open then, and the index that was read under
the lock would have it.

**`TypeCorrect`** (`HeavyFinalizationProofs`): `TypeOK`, strengthened by
`MessagesFit`: messages name jets and pulses that exist, and what a goroutine holds at
a control point is of the kind that this point expects. Without it `AddHotConfirmation`
could look up the parent of no jet at all.

**`FinalizerIsUnique`** (with `Backuper = "badger"`): no two goroutines are at work on
the same pulse beyond its backup, in any number of pulses, handlers and crashes. The
strengthening `FinalizerInv` says that a goroutine beyond `MakeBackup` works on
`lastBackuped` (`Covered`), that a rollback has no goroutines (`QuietRollback`), that the
top sync pulse has been backed up (`TopBackuped`), that whoever is in front of the
backup has a pulse that directly follows some top sync pulse (`Candidate`), and that the pulses
below the newest known one do not change (`PulsesKnown`). The point is that a candidate that is
no longer the successor of the top is not greater than `lastBackuped`, so
`MakeBackup` turns it away.

**`BackupsStayOrdered`**: the backups never skip a pulse, from the same invariant.

**`HeavyImplementsLedger`**, with either backend and for jet trees of any depth: `HeavyFinalization` implements `FinalLedger`. The
refinement maps the pulse storage to the pulses that are known, and what a reader finds of the pulses up to the top sync pulse, the jets whose
drop is stored and which of them split (`FinalRecords`), to the ledger. `Spec => ImplementsLedger` says that the top moves by one
known pulse at a time, that the pulse it moves to has exactly the jets that the pulse before it left, and that what is final is never
changed, by no late confirmation and by no rollback. The first of these is the guard of `updateTopSyncPulse` and needs that nothing
else writes the top (`TopStep`). The second (`FollowingIsTop`, `FinalizeStep`) and the last (`FinalUntouched`) need `ConfirmInv`,
described below: a complete pulse has no message left, so nobody holds one that could still change its records.

**`IndexKeepsUp`**, with either backend: `IndexFollowsTop` needs that `finalizationLock` excludes (`LockInv`) through all the control
points from the backup confirmation to the index update, that whoever updates the index holds the top sync pulse (`IndexInv`), and
that a rollback that was itself cut short by a crash has not left the index behind (`RollbackIndexInv`).

**`FinalizedStaysComplete`**, with either backend and for jet trees of any depth: every pulse up to the top has all that belongs to it,
and its jets are the ones that were executed in it. The invariant, `ConfirmInv`, relates what the light nodes have sent, what the
goroutines hold and what the JetKeeper has written. For each pulse there is one set `S` of jets that split
(`SplitInv`) such that every message still to be applied and every record written agree with it, and the next pulse goes on with
the jets that `S` leaves. A message is in one place (`OnceInv`) and what it brings is not there yet (`FreshInv`). So a complete
pulse has no message left (`NothingPending`), and a record that is complete is never written again but for its backup flag. The
heart is `CheckedIsComplete`: `HasAllJetConfirms` compares the records with the jets of the top sync pulse, and because the pulse
after the top begins with exactly these (`ChainInv`), the records it finds are all there will be. What was found out under one
acquisition of the JetKeeper's lock is still true under the next (`ConsistInv`): the pulse is complete and directly follows the
top, or the top has reached it. `RollbackInv` and `PulseInv` carry all this through a rollback, database by database, and
through a crash in the middle of one.

**`NodeNeverStopsItself`** (with `Backuper = "badger"`): `NoFatal` and `StepReachesTop`. The node has seven places where it
stops itself. The confirmations are accepted because messages are fresh and agree with the records (`DropAccepted`, `HotAccepted`; a jet that
split has two children, so the third confirmation cannot come); the records of the top are there because it is complete
(`TopIsRecorded`, `InitialStateIsThere`). That the finalization step reaches the top (`AheadInv`) needs all
the invariants together: the backup maker lets only a pulse through that is newer than the last backup and so newer than the
top; the pulse is complete and follows the top, so `updateTopSyncPulse` succeeds (`SyncSucceeds`); and nobody else waits at the lock with the
same pulse, because the finalizer is unique. With the Postgres backend, whose backup maker turns nobody away, the last
step of the argument fails, and so does the code: see `finalization_postgres`.

**`HandoffTypeCorrect`** (`ExecutionHandoffProofs`): `TypeOK`, for every set of nodes and every finite set of requests. Types alone are
not inductive: that `accepted` is part of the filament, and that what is fed to the goroutines are requests of the right kind, needs
that nobody works on a request that the ledger does not know (`KnownInv`), from the call through `GetPendings` and
the queue to the registry; that a goroutine's message has an addressee needs that a dead node does nothing (`DeadIsQuiet`) and
that everything executed belongs to the broker of some pulse (`HasBroker`).

**`OneUpdater`** and **`UpdatesAreOrdered`**: `OneUpdateAtATime`, and that the results of mutable requests are accepted in the order of
registration (`ResultsInOrder`), without an assumption on the length of pulses (`Timely`), on delivery or on who is alive. The invariant is
`UpdateInv`: the filament has each registered request once, and along it the pulses of registration do not decrease
(`FilamentInv`). The point is `OldestThenIsOldestNow`: a node that lags behind asks the ledger with the index of its own pulse `p`. A
request before the asking one was registered no later, so it is in the index of `p`; if it is not open there, it was closed by
`p`, and it is closed now. What the node learns in a past pulse is therefore still true when it comes to save the
result, and no step of anybody else makes it false: the filament grows at its end, and results only close requests (`OldestStays`).
The two checks, in `GetObject` and in `SetResult`, guard the same thing twice; `NoLostUpdate`, which the code violates, is not about
the order but about the state that goes with it.

**`AcceptedStayRemembered`**: `AcceptedIsRemembered`, again without `Timely` and with any number of faults. There are two halves. One is about
the broker (`BrokersInv`): no handler and no step of the processor forgets; a fetch that comes back empty has asked for
everything that is open, so what it was not given is fetched already (`NothingLeft`, from `ThoseFinds`, by induction over the filament);
and a broker that is not there remembers nothing (`Quiet`). The other is about calls (`CallerInv`), and without it the first is not inductive: a
request may be registered in one pulse and accepted in another, and the broker that ought to remember it must be the one that was
told. There is one call of a request at a time (`CallsInv`); a request is registered by an executor that has come to the pulse already,
so its `OnPulse` into that pulse cannot make it forget (`NeverBehind`); and a call of a request that was registered in
an earlier pulse is a repeated one, so that the node that registered it has left that pulse (`FollowInv`).

Along the way: lemmas on jets (`JetIsSeq`, `ParentOfChild`, `TwoChildren`), on cardinalities (`HotFacts`), on the predecessor
relation of pulses, and on what each action leaves alone (`PulseFrame`, `StorageFrame`, `WriteFrame`, `BackupFrame`). The library's induction theorems
take an operator as a parameter, which the provers cannot instantiate; `LeastNat` and `Induction` (`ExecutionHandoffProofs`) state
the least element of a set of naturals and induction for a set instead, from the fact that the order of the naturals is well-founded, and
`ThoseType` and `ThoseFinds` use them to say what the recursive selection from a sequence returns (`Those`).

A convention of the models that have proofs: one `EXCEPT` never updates two fields under the same index
(`![r].a = x, ![r].b = y`), but nests them (`![r] = [@ EXCEPT !.a = x, !.b = y]`). The two mean the same and TLC
agrees, but the SMT translation of tlapm 1.4.5 mistranslates two such updates and could then prove too much. For the same
reason the empty sequence that the selection of `Those` begins with has a name in the proofs (`NoneYet`), which no SMT leaf about
the selecting function expands: a function that maps numbers to `<< >>` and sequences is translated into a contradiction.
Every leaf of the proofs was tried with `FALSE` as its goal; it is provable only where the step itself argues by contradiction.

Every invariant and every refinement that a passing run checks is also proved. Only model-checked: the liveness properties
(`CloseReturns`, `WaiterReturns`, `EndedPulseFinalized`, `AcceptedIsClosed`, `MessageHandled`, `AttemptEnds`, `FetchReturns`,
`EverythingIsSent`), since fairness and ENABLED are out of the prover's reach; and of course the violations.

## 6. Hazards

`PROJECT.json` lists the places where this code is hard to test with the properties
that watch over them. Those without a property are places where the code does not keep what a comment promises
(section 4, 3, 10, 11, 14; what holds all the same is checked), and the request fetcher's goroutine that may be left
blocked on its channel, which waits for a module of the fetcher.

## 7. Plan

1. An abstract object, a sequence of atomic updates, that the ledger's part of `ExecutionHandoff` implements. As the code
   is, it can promise the order of the updates (`UpdatesAreOrdered`) but not the state each begins with (finding 5).
2. `LightHotData` with splits of jets, which `HeavyFinalization` takes as given.
3. `JetTree`: the tree as a function checked against the partition it stands for.
4. `Filament`: iterators and caches checked against the whole filament; request checker.
5. `RequestFetcher`, `OutgoingSender`, the result matcher and shutdown.
6. `NetworkGateway`: the states of a node between joining and the complete network, which
   `VirtualWriteController` sees only as goroutines that set a pulse.

## 8. What is not modelled, and why

* *Network consensus* (`network/consensus/gcpv2`), gateways, bootstrap and pulsar:
  a system of its own; the models take pulses and the list of executors as given.
* *Storages* over Badger and Postgres, the exporter and the API: database and network
  I/O; their effect is a variable of the models.
* *Contracts and the virtual machine*: an execution is one step that takes as long as
  it likes and succeeds or fails.
* In `ExecutionHandoff`: outgoing requests and sagas, the limits on the skip list (300),
  on the fetcher's channel (10) and on concurrent immutable executions (30), the
  fetcher's abort, failed reads of the ledger other than `HasPendings` (`AskLedgerFails`), validation of requests, redirects
  to other light nodes. Light nodes do not fail, and one light node stands for the chain of them. A node comes to a
  new pulse in one step (`OnPulse`): in the code the pulse is appended to the storage, then the write controller is
  closed, then the brokers are; in between, a broker of the old pulse can still ask the ledger, which answers for the new
  pulse. It may then fetch and begin a request of the new pulse, beside the new executor. Two executors at work on one
  object are in the model all the same (finding 2), and the argument for `OneUpdateAtATime` does not depend on the pulse
  for which the ledger answers (`OldestThenIsOldestNow` has any pulse up to the latest).
* In `LightHotData`: splits of jets (an executor has the same jets throughout), indexes that are not handed on because
  nobody used them for long, and the request's way from one light node to another.
* In `LightReplication`: the cleaning of the filament cache and `Stop`; in `FlowDispatcher`: `Thread.Continue`, which
  nothing calls; in `MessageBus`: wrapping, routing by type and the metrics, which have no state; in `JetFetcher`:
  what the other nodes answer, beyond actual or not.
* In `HeavyFinalization`: the content of records, indexes and backups, the value
  log garbage collection that a finalization starts, and abandoned requests in the initial
  state.
