# AieClaw run scheduling and gateway services: TLA+ models, checks and proofs

AieClaw is a gateway that connects chat channels to AI agents. Inbound messages
become agent runs; at any moment many of them are queued, running, being
aborted, retried or cleared. Everything runs on one JavaScript event loop, so
state changes are atomic between two `await`s and arbitrary between them. The
code that decides *which run may start when, and what happens to a message that
has to wait* is small, is used by every channel, and is hard to test: its
failures need a particular interleaving of callers, timers and late promises.
Around it stand services with the same kind of difficulty: durable deliveries that
survive crashes, wakes, restarts that wait for replies, approvals that expire,
and progress that clients restore after a restart. This directory models them,
checks them with TLC and proves their safety properties with TLAPS. Paths below are
relative to the repository root (`src/process/...` is `src/src/process/...` in
`PROJECT.json`).

Contents: [inventory](#inventory), [modules](#modules),
[runs](#runs-bounds-and-what-they-show), [fairness](#fairness),
[refinement](#refinement), [proofs](#proofs),
[findings](#disagreements-between-code-and-documentation),
[limits](#what-is-not-modelled), [plan](#plan).

## Inventory

| Component | State | Operations | What makes it correct |
|---|---|---|---|
| Command queue `src/process/command-queue.ts` | per lane: queue, active task ids, cap, generation; draining flag; waiters | enqueue, pump, settle, lane timeout, resize, clear, reset, wait | slots exact, order kept, no work left beside a free slot, no waiter forgotten |
| Run lanes `src/agents/pi-embedded-runner/{run,lanes,compact.queued}.ts`, `src/gateway/server-lanes.ts`, `src/agents/session-suspension.ts` | nested lane entries of each run, configured caps, resume timers | run, compact, manual cron run, reload, suspend, resume | one run per session, no deadlock between nested lanes |
| Followup queue `src/auto-reply/reply/queue/*`, `src/utils/queue-helpers.ts` | per session: queued messages, overflow summary, draining flag; recent ids | enqueue, drain loop, clear, abort | no message lost or answered twice, batches never mix senders, every accepted message answered |
| Reply run registry `src/auto-reply/reply/reply-run-registry.ts` | five maps from session keys and ids to operations and waiters | create, rotate id, attach, complete, fail, abort, force-clear, wait | a key belongs to one operation until it clears it; indexes and waiters follow |
| Reply dispatcher `src/auto-reply/reply/{reply-dispatcher,dispatcher-registry}.ts` | send chain, pending counter with a reservation; registry of dispatchers | create, send, settle, markComplete, idle | idle announced once and never early; a restart sees every pending reply |
| Outbound delivery queue `src/infra/outbound/{deliver,delivery-queue-*}.ts` | one file per delivery, claims in memory | enqueue, mark attempt, ack, fail, recover, drain | one owner at a time; no loss and no blind replay across a crash |
| Session delivery queue `src/infra/session-delivery-queue-*.ts` | the same, for deliveries into sessions | the same | the same |
| Heartbeat wake `src/infra/heartbeat-wake.ts` | pending wakes per target, one timer, running flag, handler generation | request, timer, handler change | every wake is handled or retried, at its urgency; heartbeats run one at a time |
| Exec approvals `src/gateway/exec-approval-manager.ts`, `src/gateway/server-methods/{exec-approval,approval-shared}.ts`, `src/gateway/node-invoke-system-run-approval.ts` | records by id, their timers and promises | register, resolve, expire, clean up, consume | one decision; allow-once used once; every requester answered |
| Gateway restart `src/infra/restart.ts`, `src/cli/gateway-cli/run-loop.ts`, `src/gateway/server-reload-handlers.ts` | scheduled restart, polls, emission token, authorization; loop state, shutdown flag; intent file | request, coalesce, defer, emit, signals, close, start | what a request is coalesced into really happens; a shutdown has an owner |
| Channel manager `src/gateway/server-channels.ts` | running channels, backoff | start, stop, restart | a manual stop wins over automatic restarts |
| Node pending work, node registry, pairing `src/gateway/node-*.ts`, `src/infra/*-pairing.ts` | per node: items with a revision; pending invokes; pairing requests | enqueue, drain, acknowledge, invoke, connect | acknowledged work gone, late results ignored |
| Cron service `src/cron/service/*` | jobs and their run state in a store under a lock | timer, manual run, add, update, recover | a job runs once per due time and is not left "running" |
| Session write lock `src/agents/session-write-lock.ts` | lock files and held handles | acquire, release, watchdog | one writer per session file; stale locks reclaimed |
| Subagent, task and flow registries, ACP control plane, process supervisor | records of detached work | spawn, report, finish, recover | terminal states final, completion announced once |
| AieMAS SOP tracker and run state `aiemas/src/sop-tracker/*`, `aiemas/src/gateway-bridge/run-state-store.ts`, `src/gateway/mas4s-integration.ts` | steps per session, calls in flight, one SQLite row per session | tool start, result, background end, delete, startup reset | the pipeline moves in step; nothing looks busy after a restart |
| AieMAS auth, RBAC, stores, bridge `aiemas/src/*` | users, sessions, topology in SQLite | login, chat, lookup | mostly single statements and pure checks |
| Channels, UI, mobile and desktop apps | adapters, views | - | outside TLC's reach: I/O and rendering |

How the modelled parts interact: a channel message reaches `runReplyAgent`
(`agent-runner.ts`). If the session has an active *reply operation* (registry),
the message goes to the *followup queue*; otherwise the message opens an
operation and runs. A run is queued in the *lane* of its session and, from
inside that task, in a global lane. When the operation is released, a *drain* of
the followup queue starts; each of its turns opens a reply operation of its own
and may be refused because another message was faster. `/stop`, restarts and a
watchdog end operations from outside; `clearSessionQueues` empties the followup
queue and the session's lane. The reply of a run leaves through a *reply
dispatcher*; payloads that must survive a crash go through the *outbound
delivery queue*, whose files a start-up recovery and the channels' reconnect
drains work off. A *restart* waits until the dispatchers are idle, and an
in-process one replaces the *heartbeat* handler. Commands an agent wants to run
on a node wait for an *exec approval*. Tool events of agents that follow a SOP
reach the *SOP tracker*.

The hard behaviours, each at its line, are listed under `hazards` in
`PROJECT.json`: late settles of tasks that were reset or timed out, positional
removal from an array after an `await`, objects replaced under a running loop,
stale "is active" snapshots, repeated and late endings of one operation, nested
waiting, caps at and below what is already running, crashes between a platform's
answer and the file that records it, tokens and flags that outlive what they
stand for, timers that race decisions.

## Modules

* **CommandQueue** - one action per exported function that changes lane state.
  Entries are named by their sequence number; `phase` follows an entry from
  `queued` to `done`, `cleared` or `late` (the lane timeout released the slot
  while the body still runs). `Pump` is `drainLane`'s loop as a function of a
  set of lanes, because every caller pumps before it returns. The generation
  counter is kept, so completions of an earlier generation are told apart as in
  `completeTask`. Warnings, wait callbacks and diagnostics are left out.
* **RunLanes** (extends CommandQueue) - a job is a chain of entries, outermost
  first: `cron` (manual cron runs only), the session lane, the global lane of
  `resolveGlobalLane`. A session task enqueues its inner task in the same
  synchronous step (`OwesInner` forces this); the outer promise settles with
  the inner one (`Resolved`). A session's lane is never one of the configured
  lanes (`PathsAssumption`: `resolveSessionLane` prefixes its name). Configuration reloads and quota suspension change
  the caps; a suspension keeps the cap that its timer will restore.
* **FollowupQueue** - one session's queue. A drain is modelled by its locals at
  its awaits (`aborting`, `debounce`, `starting`, `running`, `failing`), and
  everything between two awaits is one step. `Loop`, `Scan`, `Decide`,
  `AfterRun` and `Finally` are the pieces of `scheduleFollowupDrain` between
  awaits, as functions of the queue object. `owns = FALSE` marks a drain whose
  queue object `clearSessionQueues` has replaced. The run itself ends in one of
  five ways, as in `followup-runner.ts`: its configuration cannot be resolved
  (`RunUnprepared`) or it is refused when it opens the operation (`RunRefused`),
  and the drain retries; the agent fails, which the runner catches,
  so that the turn counts as taken (`AgentFails`, then `RunReturns`); an error
  after the agent ran escapes, and the messages are run again (`RunEscapes`); or
  it returns. Messages, routes and authorization keys are model values; a message
  may name no origin (`NoRoute`), which fits any batch, or half of one
  (`Unroutable`), which forces single runs. Messages in `interrupt` mode start a
  run of their own and never come here. The recent-id cache never expires in the model (five minutes in the code).
* **ReplyRunRegistry** - the five maps and the closure variables of every
  operation; each method is synchronous and one action. Methods may be called on
  an operation at any time after its creation, as often as the owner likes:
  that is what late `complete` calls are. Backends are modelled by what they
  show to the registry (attached, cancelled), one attempt of an operation at a
  time. Session ids are fresh UUIDs, so no id is used under two keys: the error of
  `updateSessionId` for an id that is active elsewhere, and a second operation
  taking over an id, cannot be represented.
* **DeliveryQueue** - the life of a delivery's file. `live` is the call of
  `deliverOutboundPayloads` with its position between two awaits, `worker` the
  loops of start-up recovery and drains, `claimed` the `entriesInProgress` set.
  A read-modify-write of a file is two steps, a platform send one step that may
  be accepted and still end in an error, and may return without having sent anything
  it can name (which counts as withdrawn: the adapter chose to send nothing). A
  delivery of several payloads is one send: accepted means that any of them was.
  `deferring` are the `failDelivery`
  calls of an exceeded recovery budget, which claim nothing. A crash empties the
  memory and keeps the files. The flags of a call (`required`, `bestEffort`,
  `reconcilable`) are chosen per delivery. Rendering, chunking and the selection
  of a drain by channel and account are left out.
* **DurableDelivery** - the abstract promise: an intended delivery is open until
  it is delivered, set aside or withdrawn, and gets there in the end.
  `DeliveryQueue` instantiates it with the mapping `intentOf`.
* **HeartbeatWake** - pending wakes with their priorities, the one timer, the
  running flag, the handler's generation, and the loops, of which there may be
  two: one belongs to a handler that has been replaced. The wakes of a batch are
  served in any order.
* **ReplyDispatcher** - a counter with a reservation, the sends in flight, the
  `markComplete` microtask and the registration; everything that announces idle
  goes through `ClearReservation`.
* **GatewayRestart** (extends ReplyDispatcher, whose dispatchers stand for all
  work that defers a restart) - `restart.ts` as functions of its module state,
  the run loop as its position and flags, signals as handler bodies still to run,
  the CLI with its intent file. Left out: Windows, a process without the loop's
  listener, checks that throw, a CLI that dies between file and signal, and the
  `.catch` of `onSigusr1` (`run-loop.ts:765-778`, "defense in depth": the module is
  loaded before the listeners are installed). An authorization and an intent may
  expire (`AuthorizationExpires`, `IntentExpires`); the intent's pid always fits,
  because the model ends with the process.
* **ExecApprovals** - an entry per request, the map by id (an id may be used
  again after the cleanup), the forwarders that are awaited, the answer each
  requester got, and the runs an approval lets through, none of them after
  `expiresAtMs` (`ApprovalExpires`). Only calls that pass the visibility and
  parameter checks are modelled. A resolver always has a name, since clients
  connect with a `client.id` (`ConnectParamsSchema`).
* **SopProgress** - the tracker's steps per session, the calls that have been
  started or went to the background, and the row written on every change. A
  restart is a new process: tracker and calls are gone, rows are repaired. (An
  in-process restart also leaves the earlier listener with its tracker registered.)
  Simplified: every session has a row of its own, while the code's row key is shared
  by a session and its sub-agents; a background end belongs to the session of its
  call, while the code takes that of the poll; a snapshot that is no JSON, which
  nothing writes, would be cleared by the reset.
* **MC\*** modules give TLC its constants. **MCGatewayServices** puts the
  services of the gateway process into one run: `focus` is chosen in the
  initial state and says which of them moves, so that the state spaces add up
  instead of multiplying; restart and dispatchers, which do share state, move
  together.
* **\*Proofs** modules hold the theorems: CommandQueue (and RunLanes above it),
  ReplyRunRegistry, FollowupQueue, DeliveryQueue, GatewayRestart (and the reply
  dispatchers it waits for), ExecApprovals, HeartbeatWake, SopProgress.

Definitions marked "Mutation:" are faulty variants of the definition below
them. Each property is shown able to fail by putting one of them in place of
the original (`mutants` in `PROJECT.json`).

## Runs, bounds and what they show

| Run | Instance | States | Shows |
|---|---|---|---|
| `lane` | 1 lane, 3 entries of three priorities, caps 0-2, one reset | 457 k | slots exact, each entry queued once, no stranded work, cap respected at every start |
| `live` | a normal and a probe lane, 2 entries, caps 0-2, 1 waiter, one reset, hanging bodies | 219 k | a waiter has a reason to wait; "drained" is true; queued entries leave; waiters are answered |
| `followup_refuse` | 3 messages of one of four mixes: two senders and a room event; two of one sender and a guest; two routes and no route; an unroutable origin. Policy `new`, two modes, one outside run, failure and clear | 1.04 M | nothing lost, answered once, lifecycles, batches, one drain |
| `followup_policies` | 3 messages of one of two mixes (two senders; a room event), settings that change between `summarize` and `new` or between `summarize` and `old`, and between modes, fair | 369 k | queued work always has somebody to drain it, evicted room events are completed, and the queue keeps becoming empty |
| `followup_old_loses` | 3 messages, `drop: "old"` | refuted | a message disappears (see below) |
| `reply_registry` | 2 keys, 3 ids (one key rotates), 3 operations, 1 backend, 1 waiter | 626 k | ownership, indexes, waits by current and former ids, cancellation |
| `run_lanes` | a heartbeat and a cron job of one session and a user run with a lane timeout in another; caps 1 then 2, one suspension, fair | 70 k | one run per session; every submitted job ends |
| `run_lanes_timeout` | a run with a lane timeout and a second one of its session | refuted | two runs of a session overlap (see below) |
| `delivery` | 1 delivery of every throwing kind, recovery and a drain, 2 retries, 2 crashes, 1 file error, 1 exceeded budget, fair | 387 k | one owner, nothing lost, a marked live send is not replayed, and `DurableDelivery` is implemented, its liveness included |
| `delivery_best_effort` | a best-effort delivery, 1 crash | refuted | acknowledged although nothing was sent (see below) |
| `delivery_replay` | a required, reconcilable delivery, 1 crash | refuted | the platform shows the message twice (see below) |
| `gateway_services` | wakes: 2 targets, 2 priorities, 3 requests, 2 handlers, a busy skip, an exception; dispatchers: 2 with 2 replies; restart: 2 requests, a foreign signal, a failed start, an expired authorization or intent, 1 dispatcher; approvals: 2 ids, 2 requests, 2 runs; SOP: 3 steps, 2 calls, a failed write, 2 restarts | 252 k | wakes kept at their urgency, one loop, all served; idle reliable and seen by restarts; coalesced restarts happen, shutdowns have an owner; approvals answered and used once, undecided ones found under their ids; the pipeline in step |

Why the bounds are enough for the cases of interest: one reset gives two
generations, which is all `completeTask` compares; three entries are needed for
an insertion between two others and for a slot freed while two wait; two drains
are one that was orphaned by a clear and one for the replacement queue; three
messages give a queue at its cap beside a running head, two senders beside a
room event, and a batch of two beside a third message that does not belong to it;
only the messages of one mix arrive in a behaviour, because what a batch may hold
is a matter of three messages; three operations give a predecessor, a successor on the same key and
one on another key. Settings change from message to message, as `/queue` does.
Deliveries do not influence each other except through the loops that visit them
one by one, so one delivery with a live sender, a recovery and a drain has every
pair of owners; two retries are the least that tell a retry from exhaustion; the
second crash hits what the first recovery was doing. Two handlers give one old
loop beside a new one. Two restart requests are one and its coalesced successor.
Two approval requests over two ids let an id be used again and let two requests
coexist. Two calls give a late result beside a new round.

Deadlock checking is off where the system really may stop: all messages
answered, all jobs done, the gateway stopped, and the bounds on new arrivals
reached.

Every invariant and every action property of a passing run except
`EvictedComplete` is also a theorem for all values of the constants, some under a
hypothesis that [proofs](#proofs) names; the runs show them on these instances, and each passing property fails
under its mutant. Type invariants are not
repeated in the runs, and neither are `QueueOrdered`, `ResultIsFinal` and
`IdleRowsShowNoRun`, which are close to what one routine computes: they are proved.

## Fairness

* `CommandQueue`: timers fire, and a task without a lane timeout settles. A
  task *with* a timeout may hang for ever: its slot must come back through the
  timer. Callers are never obliged to do anything. `ProgressStops` excludes a
  body that reports progress for ever, which rearms its timer for ever.
* `RunLanes`: the same for timers and resume timers; outer promises settle once
  the inner ones have (promise reactions always run); a run without a lane
  timeout is assumed to end, and one whose gateway drains before it is started
  is told so.
* `FollowupQueue`: debounce timers fire, runs end (the embedded runner has
  timeouts of its own), and a handler that has started reaches its enqueue.
  Fairness never forces an error (`RunUnprepared`, `RunEscapes`); failures are
  bounded, since a delivery that
  fails for ever is retried for ever by design.
* `DeliveryQueue`: a call or loop that has begun goes on after each await; a
  recovery is started with the process; the channel's drain comes back
  (reconnects and the periodic drain) and, strongly fair, finds the entry's
  backoff over some time, since the backoff ends and the drains repeat. Nothing
  forces the platform to accept anything, and no crash is forced.
* `MCGatewayServices`: `WakeFairness` (the timer fires, a handler returns and the
  runtime is not busy for ever), `RestartFairness` (timers and polls fire, hooks
  return, signal handlers run, the CLI goes on from its file to its signal,
  closes and starts end or their force-exit timers fire, replies are delivered)
  and `ApprovalFairness` (expiry timers fire, forwarders return, handlers go on).
  Requests, decisions, failures and foreign signals are never forced.

## Refinement

`DeliveryQueue` implements `DurableDelivery` under the mapping `intentOf`: a
delivery is `delivered` once the platform accepted it, `withdrawn` once its
sender gave it up, `failed` when its file lies in `failed/`, `open` from its
first durable write until then; one without a file and without any of these
would be `lost`, which no abstract step produces. That every step of the detailed
specification is a step of the abstract one or leaves its state alone is proved
(`RefinesDurableDelivery`). The abstract fairness, that an open delivery is
eventually settled, is what TLC checks in addition: it is the statement that
crashes, claims, backoff and the budget path never leave a file that nobody works
on. Both are about calls whose payload errors throw; `delivery_best_effort` shows
where the promise fails for the others.

## Proofs

All theorems hold for every value of the constants. Assumptions: bounds are
naturals; `QueueAssumption` (probe lanes are lanes); `RegistryAssumption`
(session ids are fresh UUIDs, so no id is used by two keys; `None` is not a value
of anything); `ApprovalAssumption` (`NoRequest` is neither a request nor an id);
`WakeAssumption` (priorities lie in 0..3); `SopAssumption`; `DispatcherAssumption`
(finitely many dispatchers); `DeliveryAssumption` (kinds are sets of call flags,
at least one retry, distinct names); `FollowupAssumption` (every message has a
route and an authorization key, caps are positive); `LanesAssumption` and
`PathsAssumption` (jobs are of the three kinds, their lanes exist, and a session's
lane is not a configured one). A hypothesis that restricts a theorem further is
part of its statement and is named below.

**Command queue.** The inductive invariant is `IInv`: types; `EntriesConsistent`
(an entry's generation never exceeds its lane's, unissued sequence numbers are
unused); `ActiveIsCurrent`; `QueuedExactlyOnce`; `QueueOrdered`;
`NoStrandedWork`; `WaiterHasReason`. The conjuncts need each other: that a settle
frees exactly one slot needs `ActiveIsCurrent` and `EntriesConsistent`; that the
pump after it leaves no stranded work needs the slot count, hence that what it
starts was queued once (`QueuedExactlyOnce`) and was not active. The
central lemma, `PumpKeeps`, says what the pump preserves for any state in which
these hold of the unpumped lane; every action is then a small change followed by
it. `DrainedMeansIdle` is an action property with a trap: `completeTask` notifies
waiters before it pumps, and the pump of the same step may start more work. It
holds because what a waiter captured was already started (`CapturedStarted`) and
the pump starts only what was queued (`Refilled`): `QueueDrainedMeansIdle`. From
`IInv`: `QueueTypeOK`, `QueueNeverStrandsWork`, `QueueSlotsExact`,
`QueueLosesNothing`, `QueueKeepsOrder`, `QueueWaitersHaveReason`, and the action
property `QueueStartsWithinCap` (with `StartsInOrder` proved for every action).

**Run lanes.** `LanesInvariant` carries the command queue's lane invariant through
the steps of `RunLanes` (`LanesStayPumped`) and adds what nesting needs: a job's
entries match the lanes of its path (`ChainsMatch`) and are nobody else's
(`ChainsApart`); an outer task keeps its slot while the inner one waits or runs
(`OuterHolds`); only entries with a lane timeout become late (`LateAreTimed`);
reloads, suspensions and resume timers never widen a session's lane
(`SessionsNarrow`); no lane is reset (`FirstGeneration`: resets are
`CommandQueue`'s subject and really let runs overlap). A body that runs on time
then holds the one slot of its session's lane, which gives `OverlapNeedsTimeout`:
two runs of a session overlap only if one of them is a body its lane timeout has
given up. Where runs that share a session have no lane timeout
(`SharedSessionsUntimed`), this is `SessionRunsOneAtATime`; without that
hypothesis `run_lanes_timeout` refutes it.

**Followup queue.** Two invariants. `DrainInv` holds under every overflow policy:
the draining flag, the owner and the map agree (`Ownership`), the operation is held
by whom it names (`OperationHeld`), and until the first clear queued work has
somebody to drain it (`BackedUntilCleared`). The pieces of the drain between two
awaits are functions of the queue object, and the lemmas about `Loop`, `Scan`,
`Decide` and `AfterRun` say what a drain that goes on, and one that stops, leaves
behind. It gives `FollowupTypes`, `OneDrain`, `SendersKeptApart` and, without
clears (`MaxClears = 0`), `WorkNeverStranded`; after a clear it is false, because a
message accepted beside an orphaned drain may wait for a later run. `QueueInv`
follows the messages when the queue refuses new ones at its cap (`RefusesNew`): what
a drain has in its hands is the head of its queue (`Aligned`), which is what makes
the positional `shift()` after a run remove what was run; a drain whose queue was
replaced works on cleared messages nobody else has (`OrphanOK`); and every accepted
message is queued, answered once, withdrawn or cleared (`Accounted`). It gives
`AcceptedNeverLost`, `MessageAnsweredOnce` and `LifecyclesCompleted`. The hypothesis
is needed: `followup_old_loses` breaks exactly `Aligned` under `drop: "old"`, and
`summarize` drops messages by design.

**Delivery queue.** `DeliveryInv` says of each delivery: who claims it
(`OwnedOnce`); that nothing is known of it before its file is written
(`Untouched`); that an acknowledgement under way has an outcome (`AckJustified`);
that it is not lost (`Kept`); and that the mark of a required live send is in the
file and in every copy that will be written back (`MarkKept`), because a
read-modify-write is two steps and the copy in memory is what survives. A step of a
live call, of a worker or of the budget path touches one delivery, so one frame
lemma for each (`LiveStepKeeps`, `WorkerStepKeeps`, `DeferStepKeeps`) leaves one
delivery to look at per action. From it `DeliveryTypes`, `OwnersExclusive`,
`LiveSendsTraced`, and `ThrowingNeverLost`: a delivery whose payload errors throw is
never lost. `IntentsNeverLost` is the same for all deliveries if no call is
best-effort (`Throwing`); `delivery_best_effort` refutes it otherwise. For
`RefinesDurableDelivery`, also under `Throwing`, a step changes what is read of at
most one delivery (`About`), and the ways it may change are abstract steps.

**Reply run registry.** `IInv` adds to the checked properties:
`ActiveIsCreated` (what a key holds was created for it), `ClosuresConsistent`
(an operation that cleared its state has a result, and its ids belong to its
key), `IdsRegistered` (every id of a live operation is registered for waits),
`BackendsKnown` (an operation without a result knows the backend that works for
it). Ownership is the core: `stateCleared` is the only thing that keeps an old
operation's late `complete` from deleting its successor's entries, because the
maps are keyed by session and not by operation. `OldIdsStillWait` is not
inductive alone: it follows from `IdsRegistered` and `IndexFollowsRuns`. From
`IInv`: `RegistryTypeOK`, `RegistryOwnership`, `RegistryIndex`,
`RegistryOldIds`, `RegistryWaiters`, `RegistryAbortsReach`, and the action
property `RegistryResults`.

**Reply dispatcher** (in `GatewayRestartProofs`). Each dispatcher's `pending` equals
its sends in flight plus the reservation while it is registered, no reply is late
while it is registered, and the idle signals plus the sends never exceed what was
queued plus the markComplete checks; from this, `DispatcherTypes` (the counter never
goes below zero) and `IdleSignalIsReliable`. `RestartsWaitForReplies` is about the
sum over the registry: registered dispatchers count at least one, so a total of zero
means that none is registered. That a sum of positive numbers is positive needs
induction over the fold; it is done by taking a least counterexample, for the
existence of the fold as well as for its value.

**Gateway restart.** `CoalescingIsBacked` speaks of handler bodies still to run,
which several sources use up: emissions, foreign signals, the CLI's signal. What
is inductive is an account of them, `SignalsPay`: the bodies beyond the one an
unconsumed token needs, plus the signal a CLI that wrote its file still owes,
cover what the intent file needs. Together with the parts about preparation and
the run loop (`RestartInv`) it gives `RestartTypes`, `CoalescedAreCarriedOut` and
`ShutdownsArePerformed`.

**Exec approvals.** `ApprovalInv` relates, entry by entry, promise, record,
consumption and the number of runs (`EntryOK`), and says that the map leads only
to requests with that id (`MapOK`): `ApprovalTypes`, `OneRunPerAllowOnce`,
`RecordsAgree`, `UndecidedCanBeDecided`.

**Heartbeat wake.** `WakeInv` replaces the maximum in `WakesKept` by a
disjunction (`Covered`: the pending wake, or some loop's remaining one, is at
least as urgent as what is owed) and the cardinality in `OneWakeLoop` by
`SoleLoop`: `WakeTypes`, `NoStrandedWakes`, `WakesAreKept`, `OneLoop`.

**SOP progress.** The two properties are inductive together with the types and
`CallsKnown` (a call that was started belongs to a session and a step):
`SopTypes`, `PipelineStaysInStep`, `NoIdleRowRuns`.

Only model-checked: `EvictedComplete` and the liveness properties (`QueuedEventuallyLeaves`,
`WaiterEventuallyAnswered`, `QueueEmptiesAgain`, `JobsEventuallyEnd`,
`WakesEventuallyServed`, `RequestsEventuallyRestart`,
`RequestersEventuallyAnswered`) and the liveness half of
`ImplementsDurableDelivery`: fairness and `ENABLED` are outside the prover.

## Disagreements between code and documentation

Each is a run that TLC must refute (`expect: violation`) and a `findings` entry
that quotes the sentence.

* `followup_old_loses`: with `drop: "old"`, an overflow during a run evicts the
  running head, and the `shift()` after the run removes a message that never
  ran and that no policy dropped (`queue-helpers.ts:157-158`, `drain.ts:416`).
* `run_lanes_timeout`: the lane timeout of the inner task releases the session
  lane although the run's body still executes, so two runs of a session overlap
  until the first one notices its abort (`run.ts:436-439`,
  `command-queue.ts:293-324`).
* `delivery_best_effort`: recovery passes the entry's `bestEffort` on, a payload
  error then does not throw, and the entry is acknowledged although nothing was
  sent; the live path tracks exactly this (`delivery-queue-recovery.ts:443-444`).
* `delivery_replay`: recovery sends with `skipQueue`, hence without the mark of a
  started send; after a crash during that send the next start replays blindly
  what the adapter could have reconciled.

Observed while modelling, without a run of their own:

* Followup queue: in followup mode the summary of dropped messages is run
  *instead of* the prompt of the head of the queue, which is then removed
  (`drain.ts:432-446`); lines added to the summary while a summary turn runs are
  cleared with it; dropped messages without a queued one make the drain break and
  reschedule itself for ever (`drain.ts:447-449`, `471-472`); a message accepted
  while an orphaned drain's turn is running waits in the replacement queue until
  some later run ends (`drain.ts:463-470`, `agent-runner.ts:1212`). A room event
  that the positional `shift()` removes unrun, as in `followup_old_loses`, never has
  its lifecycle completed: `LifecyclesComplete` holds only where the queue refuses
  new messages, `EvictedComplete` under every policy.
* Lanes: a resume timer restores the cap it computed at suspension time even
  after a reload, and always 1 for the `nested` lane;
  `forceClearReplyRunBySessionId` leaves the backend running; lane resets
  (in-process restart) let an old body overlap a new run, which is why the
  session property is checked without resets.
* Deliveries: the budget path's `failDelivery` claims nothing, so it can erase a
  mark or bring an acknowledged entry back (`overwritten` in the model); the
  restart notice is sent unclaimed beside recovery; a channel without a drain
  leaves failed entries to the next start.
* Heartbeat: the loop of a replaced handler may overlap one of the new handler
  (`outlived` in the model); a retry's cooldown is cut short by a timer that was
  already set.
* Dispatchers and restart: replies may still be queued after `markComplete`; a
  refused emission leaves `restartPending` set, so that later configuration
  changes that find work pending are swallowed (`server-reload-handlers.ts:533`);
  a prepared emission that lingers over an in-process restart may cause a second
  one; a handler body that consumes the CLI's intent leaves the token to the
  signal after it.
* Approvals: the no-route path answers null even if a decision was made while the
  forwarders were awaited, and expires by id.
* SOP: a step that is started again in a new round stays "pending", because
  "running" is set on the object that was replaced (`sop-tracker.ts:151-165`);
  `isChatting` is reset only at startup, since nothing calls
  `finalizeRunningSteps` or `clearSession`; the startup reset sets `completedAt`
  although later steps are pending (`types.ts:42` says only when all are over);
  `updateStepStatus` matches skills by exact name while `onToolEvent` normalises
  underscores, so the background end of a hyphenated skill is ignored; a row's
  run id is the latest of any session; the tracker keeps deleted sessions.

## What is not modelled

Time is reduced to the order in which timers fire. `refreshQueuedFollowupSession`
rewrites the session id of queued runs and touches nothing the properties see.
The remembered drain callback only matters to callers that pass
`restartIfIdle = true`; the one production caller passes `false`. The recent-id
cache's expiry is left out, so at-most-once means "within the cache's memory".
Steering (`steer` mode into a streaming run) is represented by its fallback, the
enqueue. Model calls, prompts, rendering and channel I/O are data. What each
partly modelled component leaves out, and why the remaining ones are not
modelled, is said under `components` in `PROJECT.json`. The repository is far
larger than what is modelled here: most of it is adapters to channels and model
providers, user interfaces, command-line tools, tests and scripts, whose
correctness lies in I/O.

## Plan

Done: CommandQueue, ReplyRunRegistry, FollowupQueue, RunLanes; then
DeliveryQueue with DurableDelivery, HeartbeatWake, ReplyDispatcher with
GatewayRestart, ExecApprovals, SopProgress, each with its proofs where listed.

Proved: every safety property the runs check except `EvictedComplete`, and the safety half of the
refinement.

Next, in order of importance:

1. Composition of FollowupQueue with ReplyRunRegistry, whose operation variable
   is an abstraction of one key of the registry: that the registry implements it
   can be proved from `RegistryOwnership`.
2. The session delivery queue, which shares the storage discipline.
3. Cron service: due runs, manual runs and restarts over one job store.
4. A proof of `EvictedComplete`, which needs what `DrainInv` leaves out about
   summaries.
5. Session write lock; node pending work; channel manager.
