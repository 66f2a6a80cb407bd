---------------------------- MODULE HeartbeatWake ----------------------------
(***************************************************************************)
(* Heartbeat wakes: requests are coalesced per target, a timer hands them  *)
(* to the registered handler one after the other, and what the handler is  *)
(* too busy for, or throws on, is queued again.  The handler is replaced   *)
(* by an in-process restart, possibly while an old loop still waits.       *)
(* infra/heartbeat-wake.ts                                                 *)
(*                                                                         *)
(* Time is left out: a timer fires at some point after it was set, and     *)
(* whether a new one would fire sooner than the present one is a choice.   *)
(***************************************************************************)
EXTENDS Integers, FiniteSets, FiniteSetsExt

CONSTANTS
    Targets,         \* agent and session a wake is for
    WakePriorities,  \* REASON_PRIORITY values in use
    MaxHandlers,     \* bound: registrations
    MaxRequests, MaxBusy, MaxThrows   \* bounds: requests, busy skips, exceptions

ASSUME WakeAssumption ==
    /\ WakePriorities \subseteq 0..3
    /\ MaxHandlers \in Nat /\ MaxRequests \in Nat /\ MaxBusy \in Nat /\ MaxThrows \in Nat

VARIABLES
    handler,       \* generation of the registered handler, 0 for null
    handlerGeneration,
    pendingWakes,  \* priority of the pending wake of a target, or NoWake
    scheduled, running,
    wakeTimer,     \* timerKind, "none" without a timer
    wakeLoops,     \* the timer callbacks that still await their handler
    wakeCounts,    \* how often each bounded event happened
    \* observed by the properties only
    owed,          \* highest priority requested for a target and not yet served
    outlived       \* a loop was still waiting when a new handler was registered

wakeVars == <<handler, handlerGeneration, pendingWakes, scheduled, running, wakeTimer,
              wakeLoops, wakeCounts, owed, outlived>>

NoWake == -1
LoopIds == 1..MaxHandlers
Levels == WakePriorities \cup {NoWake}
NoBatch == [t \in Targets |-> NoWake]
NotLooping == [batch |-> NoBatch, rest |-> {}]

WakeTypeOK ==
    /\ handlerGeneration \in Nat /\ handler \in 0..handlerGeneration
    /\ pendingWakes \in [Targets -> Levels] /\ owed \in [Targets -> Levels]
    /\ scheduled \in BOOLEAN /\ running \in BOOLEAN /\ outlived \in BOOLEAN
    /\ wakeTimer \in {"none", "normal", "retry"}
    /\ wakeLoops \in [LoopIds -> [batch : [Targets -> Levels], rest : SUBSET Targets]]
    /\ wakeCounts \in [{"handlers", "requests", "busy", "throws"} -> Nat]

WakeInit ==
    /\ handler = 0 /\ handlerGeneration = 0
    /\ pendingWakes = NoBatch
    /\ scheduled = FALSE /\ running = FALSE /\ wakeTimer = "none"
    /\ wakeLoops = [i \in LoopIds |-> NotLooping]
    /\ wakeCounts = [event \in {"handlers", "requests", "busy", "throws"} |-> 0]
    /\ owed = NoBatch /\ outlived = FALSE

Counted(event, bound) ==
    /\ wakeCounts[event] < bound
    /\ wakeCounts' = [wakeCounts EXCEPT ![event] = @ + 1]

Looping == {i \in LoopIds : wakeLoops[i].rest # {}}
SomePending(wakes) == \E t \in Targets : wakes[t] # NoWake

\* Mutation: the last request wins.
LatestWake(wakes, t, priority) == [wakes EXCEPT ![t] = priority]

\* queuePendingWakeReason: the more urgent of two wakes of a target stays.
QueuedWake(wakes, t, priority) == [wakes EXCEPT ![t] = Max({@, priority})]

QueuedBatch(wakes, batch) == [t \in Targets |-> Max({wakes[t], batch[t]})]

\* schedule: the timers it may leave behind.  A retry cooldown stays, another timer
\* is replaced by one that is due sooner.
Schedules(timer, timerKind) ==
    CASE timer = "none" -> {timerKind}
      [] timer = "retry" -> {"retry"}
      [] timer = "normal" -> {"normal", timerKind}

-----------------------------------------------------------------------------
RequestHeartbeat(t, priority) ==
    /\ Counted("requests", MaxRequests)
    /\ pendingWakes' = QueuedWake(pendingWakes, t, priority)
    /\ owed' = [owed EXCEPT ![t] = Max({@, priority})]
    /\ wakeTimer' \in Schedules(wakeTimer, "normal")
    /\ UNCHANGED <<handler, handlerGeneration, scheduled, running, wakeLoops, outlived>>

\* A new lifecycle forgets timer and flags of the previous one.
SetHeartbeatWakeHandler ==
    /\ Counted("handlers", MaxHandlers)
    /\ handlerGeneration' = handlerGeneration + 1
    /\ handler' = handlerGeneration'
    /\ running' = FALSE /\ scheduled' = FALSE
    /\ wakeTimer' = IF SomePending(pendingWakes) THEN "normal" ELSE "none"
    /\ outlived' = (outlived \/ Looping # {})
    /\ UNCHANGED <<pendingWakes, wakeLoops, owed>>

\* The disposer of the present registration; those of older ones do nothing.
DisposeHandler ==
    /\ handler # 0
    /\ handlerGeneration' = handlerGeneration + 1
    /\ handler' = 0
    /\ UNCHANGED <<pendingWakes, scheduled, running, wakeTimer, wakeLoops, wakeCounts, owed,
                   outlived>>

\* The timer fires without a handler; the wakes stay pending.
TimerFindsNoHandler ==
    /\ wakeTimer # "none" /\ handler = 0
    /\ wakeTimer' = "none" /\ scheduled' = FALSE
    /\ UNCHANGED <<handler, handlerGeneration, pendingWakes, running, wakeLoops, wakeCounts,
                   owed, outlived>>

\* Mutation: a running loop does not keep the timer from starting another.
TimerAlwaysStarts(i) ==
    /\ wakeTimer # "none" /\ handler # 0
    /\ wakeTimer' = "none" /\ scheduled' = FALSE
    /\ wakeLoops[i].rest = {}
    /\ pendingWakes' = NoBatch
    /\ running' = SomePending(pendingWakes)
    /\ wakeLoops' = [wakeLoops EXCEPT ![i] =
          [batch |-> pendingWakes, rest |-> {t \in Targets : pendingWakes[t] # NoWake}]]
    /\ UNCHANGED <<handler, handlerGeneration, wakeCounts, owed, outlived>>

\* The timer fires during a loop and is set again, or takes all pending wakes.
TimerFires(i) ==
    /\ wakeTimer # "none" /\ handler # 0
    /\ IF running
       THEN /\ scheduled' = TRUE
            /\ UNCHANGED <<wakeTimer, pendingWakes, running, wakeLoops>>
       ELSE /\ wakeTimer' = "none" /\ scheduled' = FALSE
            /\ wakeLoops[i].rest = {}
            /\ pendingWakes' = NoBatch
            /\ running' = SomePending(pendingWakes)
            /\ wakeLoops' = [wakeLoops EXCEPT ![i] =
                  [batch |-> pendingWakes, rest |-> {t \in Targets : pendingWakes[t] # NoWake}]]
    /\ UNCHANGED <<handler, handlerGeneration, wakeCounts, owed, outlived>>

\* Mutation: the flag is only reset when nothing more is to be done.
LoopLeavesFlag(timer, wakes) ==
    /\ running' = (SomePending(wakes) \/ scheduled)
    /\ wakeTimer' \in IF SomePending(wakes) \/ scheduled THEN Schedules(timer, "normal") ELSE {timer}

\* The finally block, with the timer and the wakes the body leaves.
LoopEnds(timer, wakes) ==
    /\ running' = FALSE
    /\ wakeTimer' \in IF SomePending(wakes) \/ scheduled THEN Schedules(timer, "normal") ELSE {timer}

\* The loop goes on to the next wake or ends.
LoopGoesOn(i, t, timer) ==
    LET left == wakeLoops[i].rest \ {t}
    IN  /\ wakeLoops' = [wakeLoops EXCEPT ![i] =
              IF left = {} THEN NotLooping ELSE [@ EXCEPT !.rest = left]]
        /\ IF left = {} THEN LoopEnds(timer, pendingWakes')
           ELSE wakeTimer' = timer /\ UNCHANGED running

\* What is still owed to t when loop i has served it.
StillOwed(i, t) ==
    Max({pendingWakes[t]} \cup {wakeLoops[j].batch[t] : j \in {j \in LoopIds \ {i} : t \in wakeLoops[j].rest}})

HandlerServes(i, t) ==
    /\ t \in wakeLoops[i].rest
    /\ UNCHANGED <<pendingWakes, wakeCounts>>
    /\ owed' = [owed EXCEPT ![t] = StillOwed(i, t)]
    /\ LoopGoesOn(i, t, wakeTimer)
    /\ UNCHANGED <<handler, handlerGeneration, scheduled, outlived>>

\* A skip because the runtime is busy: the wake is queued again.
HandlerIsBusy(i, t) ==
    /\ t \in wakeLoops[i].rest
    /\ Counted("busy", MaxBusy)
    /\ pendingWakes' = QueuedWake(pendingWakes, t, wakeLoops[i].batch[t])
    /\ \E timer \in Schedules(wakeTimer, "retry") : LoopGoesOn(i, t, timer)
    /\ UNCHANGED <<handler, handlerGeneration, scheduled, owed, outlived>>

\* An exception: the whole batch is queued again, served wakes included.
HandlerThrows(i) ==
    /\ wakeLoops[i].rest # {}
    /\ Counted("throws", MaxThrows)
    /\ pendingWakes' = QueuedBatch(pendingWakes, wakeLoops[i].batch)
    /\ wakeLoops' = [wakeLoops EXCEPT ![i] = NotLooping]
    /\ \E timer \in Schedules(wakeTimer, "retry") : LoopEnds(timer, pendingWakes')
    /\ UNCHANGED <<handler, handlerGeneration, scheduled, owed, outlived>>

LoopProgresses(i) ==
    \/ \E t \in Targets : HandlerServes(i, t) \/ HandlerIsBusy(i, t)
    \/ HandlerThrows(i)

WakeTimerFires == TimerFindsNoHandler \/ \E i \in LoopIds : TimerFires(i)

WakeNext ==
    \/ \E t \in Targets, priority \in WakePriorities : RequestHeartbeat(t, priority)
    \/ SetHeartbeatWakeHandler
    \/ DisposeHandler
    \/ WakeTimerFires
    \/ \E i \in LoopIds : LoopProgresses(i)

WakeSpec == WakeInit /\ [][WakeNext]_wakeVars

-----------------------------------------------------------------------------
(***************************************************************************)
(* Properties.                                                             *)
(***************************************************************************)

\* A pending wake always has a timer that will hand it to the handler, through
\* skips, exceptions, disposal and replacement of the handler and loops that
\* outlive theirs.
NoWakeStranded == SomePending(pendingWakes) /\ handler # 0 => wakeTimer # "none"

\* Coalescing, retries and handler changes neither drop a requested wake nor
\* turn it into a less urgent one before it was served.
WakesKept == \A t \in Targets : owed[t] <= Max({pendingWakes[t]} \cup
    {wakeLoops[i].batch[t] : i \in {i \in Looping : t \in wakeLoops[i].rest}})

\* Heartbeats run one after the other, as long as no loop outlives the handler it
\* was started with.
OneWakeLoop == ~outlived => Cardinality(Looping) <= 1 /\ (running <=> Looping # {})

\* Every requested wake is served, if a handler stays registered.
WakesEventuallyServed == <>[](handler # 0) => <>[](\A t \in Targets : owed[t] = NoWake)
=============================================================================
