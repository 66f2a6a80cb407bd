---------------------------- MODULE CommandQueue ----------------------------
(***************************************************************************)
(* The in-process command queue of src/src/process/command-queue.ts.       *)
(*                                                                         *)
(* Every agent run, cron job and compaction goes through a lane: a         *)
(* priority queue with a concurrency cap.  The state lives on globalThis   *)
(* and is mutated by synchronous JavaScript only, so every exported        *)
(* function, and every continuation of a finished or timed-out task, is    *)
(* one atomic step.  Lane flag `draining` is therefore FALSE between       *)
(* steps and is not a variable: drainLane() sets it and pump()'s finally   *)
(* clears it within the same step.                                         *)
(*                                                                         *)
(* An entry is named by its queue sequence number.  The task id a lane     *)
(* assigns when it starts the entry is a second never-reused counter;      *)
(* an entry is started at most once, so the sequence number stands for     *)
(* both.                                                                   *)
(***************************************************************************)
EXTENDS Integers, Sequences, FiniteSets, SequencesExt

CONSTANTS
    Lanes,          \* lane names after normalizeLane
    ProbeLanes,     \* the "auth-probe:" / "session:probe-" lanes among them
    NoLane,         \* lane of an entry that was never enqueued
    Waiters,        \* calls of waitForActiveTasks
    CallerPriorities, \* priorities the callers of enqueueCommandInLane pass
    MaxEntries,     \* bound: entries ever accepted
    MaxConcurrency, \* bound: largest value given to setCommandLaneConcurrency
    MaxGeneration   \* bound: resets per lane

\* resolveQueuePriority: background, normal, foreground.
Priorities == {-1, 0, 1}

ASSUME QueueAssumption ==
    /\ ProbeLanes \subseteq Lanes
    /\ NoLane \notin Lanes
    /\ CallerPriorities \subseteq Priorities
    /\ MaxEntries \in Nat
    /\ MaxConcurrency \in Nat \ {0}
    /\ MaxGeneration \in Nat

Entries == 1..MaxEntries

\* "late": the lane timeout released the slot but the task body still runs.
Phases == {"none", "queued", "running", "late", "done", "cleared"}

WaiterStates == {"idle", "waiting", "drained", "timedOut"}

VARIABLES
    gatewayDraining,    \* the global flag
    lanes,              \* lanes present in the map (getLaneState creates them)
    queue,              \* LaneState.queue: entries in start order
    activeTaskIds,      \* LaneState.activeTaskIds
    maxConcurrent,      \* LaneState.maxConcurrent
    generation,         \* LaneState.generation
    nextQueueSequence,
    laneOf, priority, hasTimeout,   \* QueueEntry fields, fixed at enqueue
    taskGeneration,     \* the closure variable captured when an entry starts
    phase,              \* where the entry is in its life
    progressed,         \* timed tasks that reported progress since the timer was armed
    waiter,             \* state of each waitForActiveTasks call
    captured,           \* ActiveTaskWaiter.activeTaskIds
    waiterTimed         \* the call passed a timeoutMs

laneVars == <<lanes, queue, activeTaskIds, maxConcurrent, generation>>
entryVars == <<laneOf, priority, hasTimeout, nextQueueSequence>>
waiterVars == <<waiter, captured, waiterTimed>>
vars == <<gatewayDraining, laneVars, entryVars, taskGeneration, phase,
          progressed, waiterVars>>

TypeOK ==
    /\ gatewayDraining \in BOOLEAN
    /\ lanes \in SUBSET Lanes
    /\ queue \in [Lanes -> Seq(Entries)]
    /\ activeTaskIds \in [Lanes -> SUBSET Entries]
    /\ maxConcurrent \in [Lanes -> Nat]
    /\ generation \in [Lanes -> Nat]
    /\ nextQueueSequence \in 1..(MaxEntries + 1)
    /\ laneOf \in [Entries -> Lanes \cup {NoLane}]
    /\ priority \in [Entries -> Priorities]
    /\ hasTimeout \in [Entries -> BOOLEAN]
    /\ taskGeneration \in [Entries -> Nat]
    /\ phase \in [Entries -> Phases]
    /\ progressed \in SUBSET Entries
    /\ waiter \in [Waiters -> WaiterStates]
    /\ captured \in [Waiters -> SUBSET Entries]
    /\ waiterTimed \in [Waiters -> BOOLEAN]

\* getQueueState: sequence numbers start at one.
InitSequence == nextQueueSequence = 1

Init ==
    /\ gatewayDraining = FALSE
    /\ lanes = {}
    /\ queue = [l \in Lanes |-> <<>>]
    /\ activeTaskIds = [l \in Lanes |-> {}]
    /\ maxConcurrent = [l \in Lanes |-> 1]
    /\ generation = [l \in Lanes |-> 0]
    /\ InitSequence
    /\ laneOf = [e \in Entries |-> NoLane]
    /\ priority = [e \in Entries |-> 0]
    /\ hasTimeout = [e \in Entries |-> FALSE]
    /\ taskGeneration = [e \in Entries |-> 0]
    /\ phase = [e \in Entries |-> "none"]
    /\ progressed = {}
    /\ waiter = [w \in Waiters |-> "idle"]
    /\ captured = [w \in Waiters |-> {}]
    /\ waiterTimed = [w \in Waiters |-> FALSE]

-----------------------------------------------------------------------------
(***************************************************************************)
(* The lane's start order and the pump.                                    *)
(***************************************************************************)

\* Entry a is started before entry b: higher priority first, then the order
\* of arrival (the findIndex predicate of enqueueLaneEntry).
Ahead(prio, a, b) ==
    \/ prio[b] < prio[a]
    \/ prio[b] = prio[a] /\ b > a

\* enqueueLaneEntry: splice in before the first queued entry the new one
\* precedes, or push at the end.
EnqueueLaneEntry(q, prio, e) ==
    LET insertAt == SelectInSeq(q, LAMBDA queued : Ahead(prio, e, queued))
    IN  IF insertAt = 0 THEN Append(q, e) ELSE InsertAt(q, insertAt, e)

\* Mutation: `<=` for `<` in the loop condition of pump().
AdmittedOneMore(q, active, cap) ==
    LET free == cap - Cardinality(active) + 1
    IN  IF free <= 0 THEN 0 ELSE IF Len(q) <= free THEN Len(q) ELSE free

\* How many entries the while loop of pump() shifts off the queue.
Admitted(q, active, cap) ==
    LET free == cap - Cardinality(active)
    IN  IF free <= 0 THEN 0 ELSE IF Len(q) <= free THEN Len(q) ELSE free

Started(q, active, cap) == {q[i] : i \in 1..Admitted(q, active, cap)}

\* Mutation: the last started entry is not shifted off the queue.
LeftQueuedTwice(q, active, cap) ==
    IF Admitted(q, active, cap) = 0 THEN q ELSE SubSeq(q, Admitted(q, active, cap), Len(q))

LeftQueued(q, active, cap) == SubSeq(q, Admitted(q, active, cap) + 1, Len(q))

\* drainLane for the lanes in D, run on the lane contents the calling
\* operation has produced so far (q, active, ph); maxConcurrent', generation'
\* and laneOf' are the operation's own.
Pump(D, q, active, ph) ==
    LET starts == [l \in Lanes |->
            IF l \in D THEN Started(q[l], active[l], maxConcurrent'[l]) ELSE {}]
    IN  /\ queue' = [l \in Lanes |->
              IF l \in D THEN LeftQueued(q[l], active[l], maxConcurrent'[l])
                         ELSE q[l]]
        /\ activeTaskIds' = [l \in Lanes |-> active[l] \cup starts[l]]
        /\ phase' = [e \in Entries |->
              IF \E l \in D : e \in starts[l] THEN "running" ELSE ph[e]]
        /\ taskGeneration' = [e \in Entries |->
              IF \E l \in D : e \in starts[l] THEN generation'[laneOf'[e]]
                                              ELSE taskGeneration[e]]

\* Mutation: a waiter is resolved as soon as one lane is done with its tasks.
NotifyEagerly(active) ==
    waiter' = [w \in Waiters |->
        IF waiter[w] = "waiting" /\ \E l \in Lanes : captured[w] \cap active[l] = {}
        THEN "drained" ELSE waiter[w]]

\* notifyActiveTaskWaiters: a waiter whose captured tasks have all left the
\* active sets is resolved with drained = true.
Notify(active) ==
    waiter' = [w \in Waiters |->
        IF waiter[w] = "waiting" /\ \A l \in Lanes : captured[w] \cap active[l] = {}
        THEN "drained" ELSE waiter[w]]

-----------------------------------------------------------------------------
(***************************************************************************)
(* Operations of the queue.                                                *)
(***************************************************************************)

\* While the gateway drains, the call is rejected and changes nothing.
EnqueueCommandInLane(l, p, timed) ==
    LET e == nextQueueSequence
        prio == [priority EXCEPT ![e] = p]
        q == [queue EXCEPT ![l] = EnqueueLaneEntry(@, prio, e)]
    IN  /\ ~gatewayDraining
        /\ e <= MaxEntries
        /\ nextQueueSequence' = e + 1
        /\ lanes' = lanes \cup {l}
        /\ laneOf' = [laneOf EXCEPT ![e] = l]
        /\ priority' = prio
        /\ hasTimeout' = [hasTimeout EXCEPT ![e] = timed]
        /\ UNCHANGED <<maxConcurrent, generation>>
        /\ Pump({l}, q, activeTaskIds, [phase EXCEPT ![e] = "queued"])
        /\ UNCHANGED <<gatewayDraining, progressed, waiterVars>>

\* The continuation after runQueueEntryTask: completeTask ignores a task of an
\* earlier generation; a current one frees its slot, wakes the waiters and pumps.
ReleaseSlot(e, next) ==
    LET l == laneOf[e]
        ph == [phase EXCEPT ![e] = next]
        freed == [activeTaskIds EXCEPT ![l] = @ \ {e}]
    IN  /\ UNCHANGED <<lanes, maxConcurrent, generation, entryVars, gatewayDraining>>
        /\ progressed' = progressed \ {e}
        /\ UNCHANGED <<captured, waiterTimed>>
        /\ IF taskGeneration[e] = generation[l]
           THEN Notify(freed) /\ Pump({l}, queue, freed, ph)
           ELSE /\ phase' = ph
                /\ UNCHANGED <<queue, activeTaskIds, taskGeneration, waiter>>

\* The task body resolves or rejects first in the race.
TaskSettles(e) ==
    /\ phase[e] = "running"
    /\ ReleaseSlot(e, "done")

\* The lane timer fires: re-armed when the task reported progress since it was
\* armed, otherwise the slot is released while the body keeps unwinding.
TimerRearms(e) ==
    /\ phase[e] = "running" /\ hasTimeout[e]
    /\ e \in progressed
    /\ progressed' = progressed \ {e}
    /\ UNCHANGED <<gatewayDraining, laneVars, entryVars, taskGeneration, phase, waiterVars>>

\* Mutation: the timeout rejects the caller but keeps the slot.
TaskTimesOutKeepingSlot(e) ==
    /\ phase[e] = "running" /\ hasTimeout[e]
    /\ e \notin progressed
    /\ phase' = [phase EXCEPT ![e] = "late"]
    /\ UNCHANGED <<gatewayDraining, laneVars, entryVars, taskGeneration, progressed, waiterVars>>

TaskTimesOut(e) ==
    /\ phase[e] = "running" /\ hasTimeout[e]
    /\ e \notin progressed
    /\ ReleaseSlot(e, "late")

\* The body of a timed-out task ends; its late result is only logged.
LateTaskEnds(e) ==
    /\ phase[e] = "late"
    /\ phase' = [phase EXCEPT ![e] = "done"]
    /\ UNCHANGED <<gatewayDraining, laneVars, entryVars, taskGeneration, progressed, waiterVars>>

\* taskTimeoutProgressAtMs advances.
ReportProgress(e) ==
    /\ phase[e] = "running" /\ hasTimeout[e]
    /\ e \notin progressed
    /\ progressed' = progressed \cup {e}
    /\ UNCHANGED <<gatewayDraining, laneVars, entryVars, taskGeneration, phase, waiterVars>>

MarkGatewayDraining ==
    /\ ~gatewayDraining
    /\ gatewayDraining' = TRUE
    /\ UNCHANGED <<laneVars, entryVars, taskGeneration, phase, progressed, waiterVars>>

\* A probe lane never goes below one slot; a lane set to zero is paused.
SetCommandLaneConcurrency(l, n) ==
    LET cap == IF l \in ProbeLanes /\ n < 1 THEN 1 ELSE n
    IN  /\ lanes' = lanes \cup {l}
        /\ maxConcurrent' = [maxConcurrent EXCEPT ![l] = cap]
        /\ UNCHANGED <<generation, laneOf>>
        /\ Pump(IF cap > 0 THEN {l} ELSE {}, queue, activeTaskIds, phase)
        /\ UNCHANGED <<gatewayDraining, priority, hasTimeout, nextQueueSequence,
                       progressed, waiterVars>>

\* Every queued entry is rejected with CommandLaneClearedError.
ClearCommandLane(l) ==
    /\ l \in lanes
    /\ queue[l] # <<>>
    /\ queue' = [queue EXCEPT ![l] = <<>>]
    /\ phase' = [e \in Entries |->
          IF \E i \in DOMAIN queue[l] : queue[l][i] = e THEN "cleared" ELSE phase[e]]
    /\ UNCHANGED <<gatewayDraining, lanes, activeTaskIds, maxConcurrent, generation,
                   entryVars, taskGeneration, progressed, waiterVars>>

\* Mutation: a reset wakes the waiters but leaves the queued entries alone.
ResetLanesWithoutPump(D) ==
    LET idle == [l \in Lanes |-> IF l \in D THEN {} ELSE activeTaskIds[l]]
    IN  /\ generation' = [l \in Lanes |->
              IF l \in D THEN generation[l] + 1 ELSE generation[l]]
        /\ UNCHANGED <<lanes, maxConcurrent, entryVars, progressed, captured, waiterTimed>>
        /\ Pump({}, queue, idle, phase)
        /\ Notify(activeTaskIds')

\* Mutation: a reset pumps but does not notify the waiters.
ResetLanesSilently(D) ==
    LET idle == [l \in Lanes |-> IF l \in D THEN {} ELSE activeTaskIds[l]]
    IN  /\ generation' = [l \in Lanes |->
              IF l \in D THEN generation[l] + 1 ELSE generation[l]]
        /\ UNCHANGED <<lanes, maxConcurrent, entryVars, progressed, waiterVars>>
        /\ Pump(D, queue, idle, phase)

\* Forget the running tasks of the lanes in D (their completions become stale)
\* and pump what is queued there.
ResetLanes(D) ==
    LET idle == [l \in Lanes |-> IF l \in D THEN {} ELSE activeTaskIds[l]]
    IN  /\ generation' = [l \in Lanes |->
              IF l \in D THEN generation[l] + 1 ELSE generation[l]]
        /\ UNCHANGED <<lanes, maxConcurrent, entryVars, progressed, captured, waiterTimed>>
        /\ Pump(D, queue, idle, phase)
        /\ Notify(activeTaskIds')

ResetCommandLane(l) ==
    /\ l \in lanes
    /\ generation[l] < MaxGeneration
    /\ ResetLanes({l})
    /\ UNCHANGED gatewayDraining

\* After an in-process restart.
ResetAllLanes ==
    /\ \A l \in lanes : generation[l] < MaxGeneration
    /\ gatewayDraining' = FALSE
    /\ ResetLanes(lanes)

\* waitForActiveTasks: an empty active set, or a non-positive timeout, is
\* answered at once; otherwise the active set is captured.
WaitForActiveTasks(w, timeout) ==
    LET activeAtStart == UNION {activeTaskIds[l] : l \in Lanes}
    IN  /\ waiter[w] = "idle"
        /\ waiter' = [waiter EXCEPT ![w] =
              IF activeAtStart = {} THEN "drained"
              ELSE IF timeout = "expired" THEN "timedOut" ELSE "waiting"]
        /\ captured' = [captured EXCEPT ![w] = activeAtStart]
        /\ waiterTimed' = [waiterTimed EXCEPT ![w] = timeout # "none"]
        /\ UNCHANGED <<gatewayDraining, laneVars, entryVars, taskGeneration, phase, progressed>>

WaiterTimesOut(w) ==
    /\ waiter[w] = "waiting" /\ waiterTimed[w]
    /\ waiter' = [waiter EXCEPT ![w] = "timedOut"]
    /\ UNCHANGED <<gatewayDraining, laneVars, entryVars, taskGeneration, phase, progressed,
                   captured, waiterTimed>>

Next ==
    \/ \E l \in Lanes, p \in CallerPriorities, timed \in BOOLEAN : EnqueueCommandInLane(l, p, timed)
    \/ \E e \in Entries : TaskSettles(e)
    \/ \E e \in Entries : TimerRearms(e)
    \/ \E e \in Entries : TaskTimesOut(e)
    \/ \E e \in Entries : LateTaskEnds(e)
    \/ \E e \in Entries : ReportProgress(e)
    \/ MarkGatewayDraining
    \/ \E l \in Lanes, n \in 0..MaxConcurrency : SetCommandLaneConcurrency(l, n)
    \/ \E l \in Lanes : ClearCommandLane(l)
    \/ \E l \in Lanes : ResetCommandLane(l)
    \/ ResetAllLanes
    \/ \E w \in Waiters, t \in {"none", "expired", "pending"} : WaitForActiveTasks(w, t)
    \/ \E w \in Waiters : WaiterTimesOut(w)

Spec == Init /\ [][Next]_vars

\* The event loop keeps running.  A task body may hang, so a task with a lane
\* timeout is only promised that its timer fires; one without is assumed to
\* end.  Nothing is promised about callers.
Fairness ==
    \A e \in Entries :
        /\ WF_vars(~hasTimeout[e] /\ TaskSettles(e))
        /\ WF_vars(TimerRearms(e) \/ TaskTimesOut(e))

FairSpec == Spec /\ Fairness

-----------------------------------------------------------------------------
(***************************************************************************)
(* Properties.                                                             *)
(***************************************************************************)

\* An accepted entry belongs to a lane, whose generation never falls behind the
\* one the entry was started in, so a completion is stale exactly when a reset
\* came between; sequence numbers not yet given out name no entry.
EntriesConsistent ==
    \A e \in Entries :
        IF e < nextQueueSequence
        THEN /\ phase[e] # "none" /\ laneOf[e] \in Lanes
             /\ taskGeneration[e] <= generation[laneOf[e]]
        ELSE phase[e] = "none" /\ taskGeneration[e] = 0

\* A lane's active set is exactly the running tasks it started in its current
\* generation: no completion, timeout or reset leaks a slot or frees one twice.
ActiveIsCurrent ==
    \A l \in Lanes : activeTaskIds[l] =
        {e \in Entries : phase[e] = "running" /\ laneOf[e] = l /\ taskGeneration[e] = generation[l]}

\* An accepted entry waits in one position of the queue of its own lane and
\* nowhere else: pump, clear and reset neither lose nor duplicate work.
QueuedExactlyOnce ==
    /\ \A l \in Lanes : \A i \in DOMAIN queue[l] :
          /\ phase[queue[l][i]] = "queued" /\ laneOf[queue[l][i]] = l
          /\ \A j \in DOMAIN queue[l] : queue[l][i] = queue[l][j] => i = j
    /\ \A e \in Entries : phase[e] = "queued" =>
          \E l \in Lanes : \E i \in DOMAIN queue[l] : queue[l][i] = e

\* enqueueLaneEntry keeps every queue in start order.
QueueOrdered ==
    \A l \in Lanes : \A i, j \in DOMAIN queue[l] :
        i < j => Ahead(priority, queue[l][i], queue[l][j])

\* Work is never stranded: a lane with queued entries has no free slot, whatever
\* mixture of completions, timeouts, resets and concurrency changes led there.
NoStrandedWork ==
    \A l \in Lanes : queue[l] # <<>> => Cardinality(activeTaskIds[l]) >= maxConcurrent[l]

\* A pending waitForActiveTasks call still has a captured task to wait for: no
\* wake-up is lost by a completion, a timeout or a reset.
WaiterHasReason ==
    \A w \in Waiters : waiter[w] = "waiting" =>
        \E l \in Lanes : captured[w] \cap activeTaskIds[l] # {}

\* A step starts entries only up to the lane's cap, counting what the lane
\* already runs, and never past an entry that is ahead of them in the queue.
StartsInOrder ==
    \A l \in Lanes : \A e \in activeTaskIds'[l] \ activeTaskIds[l] :
        /\ Cardinality(activeTaskIds'[l]) <= maxConcurrent'[l]
        /\ \A i \in DOMAIN queue'[l] : Ahead(priority', e, queue'[l][i])

StartsWithinCap == [][StartsInOrder]_vars

\* drained = true is only reported when no captured task holds a slot.
DrainedMeansIdle ==
    [][\A w \in Waiters : waiter[w] # "drained" /\ waiter'[w] = "drained" =>
          \A l \in Lanes : captured'[w] \cap activeTaskIds'[l] = {}]_vars

ProgressStops == <>[](progressed = {})

\* A queued entry eventually leaves the queue if its lane is not left paused and
\* no task reports progress for ever.
QueuedEventuallyLeaves ==
    ProgressStops => \A e \in Entries :
        (phase[e] = "queued" /\ maxConcurrent[laneOf[e]] > 0)
            ~> (phase[e] # "queued" \/ maxConcurrent[laneOf[e]] = 0)

\* A waitForActiveTasks call without timeout is answered in the end.
WaiterEventuallyAnswered ==
    ProgressStops => \A w \in Waiters : waiter[w] = "waiting" ~> waiter[w] # "waiting"
=============================================================================
