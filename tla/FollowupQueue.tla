---------------------------- MODULE FollowupQueue ----------------------------
(***************************************************************************)
(* The followup queue of one session: src/src/auto-reply/reply/queue/*.ts  *)
(* with the helpers of src/src/utils/queue-helpers.ts, and its caller in   *)
(* src/src/auto-reply/reply/agent-runner.ts.                               *)
(*                                                                         *)
(* A message that arrives while the session has an active reply operation  *)
(* is queued; a drain (an async loop) later runs what is queued.  JavaScript*)
(* interleaves at awaits only: a drain is modelled by the state it has at  *)
(* its awaits, and everything up to the next await is one step.  A scan    *)
(* that finds no aborted message yields for a microtask only and is part   *)
(* of the step that follows it.                                            *)
(*                                                                         *)
(* clearSessionQueues empties the queue object and removes it from the map *)
(* while a drain may still hold it.  Nothing is ever added to a removed    *)
(* object, so only the drain's own locals matter afterwards: such a drain  *)
(* has owns = FALSE.                                                       *)
(***************************************************************************)
EXTENDS Integers, Sequences, FiniteSets, SequencesExt

CONSTANTS
    Messages,       \* inbound messages, named by their message id
    RouteOf,        \* route key of each message, or NoRoute or Unroutable
    NoRoute,        \* the message names no origin
    Unroutable,     \* it names one only in part: resolveCrossChannelKey answers "cross"
    AuthOf,         \* resolveFollowupAuthorizationKey of each message
    RoomEvents,     \* messages with an abort signal and a queued lifecycle
    Settings,       \* queue settings the callers resolve
    Drains,         \* bound: drains alive at once
    MaxMains,       \* bound: runs started outside the queue
    MaxFailures,    \* bound: followup runs whose preparation, agent or delivery fails
    MaxClears       \* bound: calls of clearSessionQueues

\* The modes in which messages are queued; an "interrupt" message never is.
Modes == {"followup", "steer", "collect"}
DropPolicies == {"old", "new", "summarize"}

ASSUME FollowupAssumption ==
    /\ DOMAIN RouteOf = Messages /\ DOMAIN AuthOf = Messages
    /\ RoomEvents \subseteq Messages
    /\ Settings \subseteq [mode : Modes, cap : Nat \ {0}, dropPolicy : DropPolicies]
    /\ Drains \cap {"none", "main"} = {}
    /\ MaxMains \in Nat /\ MaxFailures \in Nat /\ MaxClears \in Nat

VARIABLES
    queue,          \* the FollowupQueueState the map holds for the session
    drains,         \* the drains' program counters and locals
    op,             \* holder of the session's reply operation
    main,           \* the run started outside the queue
    pending,        \* messages that saw an active run and are about to enqueue
    recent,         \* RECENT_QUEUE_MESSAGE_IDS
    aborted,        \* messages whose abort signal fired
    accepted, turns, summarised, dropped, cleared, completed,  \* history
    mains, failures, clears                                    \* bounded counters

history == <<accepted, turns, summarised, dropped, cleared, completed>>
counters == <<mains, failures, clears>>
vars == <<queue, drains, op, main, pending, recent, aborted, history, counters>>

\* No entry in the map.
Absent == [present |-> FALSE, items |-> <<>>, draining |-> FALSE,
           mode |-> "followup", cap |-> 1, dropPolicy |-> "new",
           droppedCount |-> 0, summaryLines |-> <<>>, summarySources |-> <<>>]

\* No drain.
Idle == [pc |-> "none", owns |-> FALSE, force |-> FALSE, scan |-> 1, index |-> 0,
         kind |-> "single", batch |-> <<>>, rest |-> <<>>, summary |-> FALSE, lines |-> {}]

QueueStates ==
    [present : BOOLEAN, items : Seq(Messages), draining : BOOLEAN,
     mode : Modes, cap : Nat \ {0}, dropPolicy : DropPolicies,
     droppedCount : Nat, summaryLines : Seq(Messages), summarySources : Seq(Messages)]

DrainStates ==
    [pc : {"none", "aborting", "debounce", "starting", "running", "failing"},
     owns : BOOLEAN, force : BOOLEAN, scan : {1, 2}, index : Nat,
     kind : {"single", "group", "summaryItem", "summaryOnly"},
     batch : Seq(Messages), rest : Seq(Messages),
     summary : BOOLEAN, lines : SUBSET Messages]

TypeOK ==
    /\ queue \in QueueStates
    /\ drains \in [Drains -> DrainStates]
    /\ op \in {"none", "main"} \cup Drains
    /\ main \in {"none", "running", "failing"}
    /\ {pending, recent, aborted, accepted, summarised, dropped, cleared, completed}
          \subseteq SUBSET Messages
    /\ turns \in [Messages -> Nat]
    /\ mains \in 0..MaxMains /\ failures \in 0..MaxFailures /\ clears \in 0..MaxClears

Init ==
    /\ queue = Absent
    /\ drains = [d \in Drains |-> Idle]
    /\ op = "none" /\ main = "none"
    /\ pending = {} /\ recent = {} /\ aborted = {}
    /\ accepted = {} /\ summarised = {} /\ dropped = {} /\ cleared = {} /\ completed = {}
    /\ turns = [m \in Messages |-> 0]
    /\ mains = 0 /\ failures = 0 /\ clears = 0

-----------------------------------------------------------------------------
(***************************************************************************)
(* What a drain does between two awaits, as functions of the queue object. *)
(* Each returns the queue and the drain's locals at its next await.        *)
(***************************************************************************)

Work(q) == q.items # <<>> \/ q.droppedCount > 0

\* previewQueueSummaryPrompt is defined.
HasSummary(q) == q.dropPolicy = "summarize" /\ q.droppedCount > 0

\* clearFollowupQueueSummaryState (its lifecycles: see SummarySources).
WithoutSummary(q) ==
    [q EXCEPT !.droppedCount = 0, !.summaryLines = <<>>, !.summarySources = <<>>]

\* The first aborted message dropAbortedFollowups meets going down from
\* position i, or 0.
LastAborted(items, i) == SelectLastInSubSeq(items, 1, i, LAMBDA m : m \in aborted)

Aborting(q, scan, i, force) ==
    [queue |-> q,
     drain |-> [pc |-> "aborting", owns |-> TRUE, force |-> force, scan |-> scan, index |-> i,
                kind |-> "single", batch |-> <<q.items[i]>>, rest |-> <<>>, summary |-> FALSE, lines |-> {}]]

\* waitForQueueDebounce
Debouncing(q, force) ==
    [queue |-> q,
     drain |-> [pc |-> "debounce", owns |-> TRUE, force |-> force, scan |-> 1, index |-> 0,
                kind |-> "single", batch |-> <<>>, rest |-> <<>>, summary |-> FALSE, lines |-> {}]]

\* The head of the while loop.  Leaving it runs the finally block: an empty
\* queue is deleted from the map.
Loop(q, force) ==
    LET i == LastAborted(q.items, Len(q.items))
    IN  CASE ~Work(q) -> [queue |-> Absent, drain |-> Idle]
          [] Work(q) /\ i > 0 -> Aborting(q, 1, i, force)
          [] OTHER -> Debouncing(q, force)

\* break, or a caught error: the finally block schedules a new drain when work
\* is left.
Finally(q) == Loop(q, FALSE)

Launch(q, force, kind, batch, rest, summary) ==
    [queue |-> q,
     drain |-> [pc |-> "starting", owns |-> TRUE, force |-> force, scan |-> 1, index |-> 0,
                kind |-> kind, batch |-> batch, rest |-> rest, summary |-> summary,
                lines |-> IF summary THEN ToSet(q.summaryLines) ELSE {}]]

\* items.splice(0, n)
Shift(items, n) == SubSeq(items, n + 1, Len(items))

\* Mutation: messages of every sender are collected into one turn.
OneGroup(items) == Len(items)

\* splitCollectItemsByAuthorization makes groups of the maximal runs of one
\* authorization key: the first group ends before the first message with another key.
FirstGroup(items) ==
    Min({i \in DOMAIN items : AuthOf[items[i]] # AuthOf[items[1]]} \cup {Len(items) + 1}) - 1

\* The groups are run in turn; those still to come are kept as one sequence.
LaunchGroup(q, force, items, summary) ==
    LET n == FirstGroup(items)
    IN  Launch(q, force, "group", SubSeq(items, 1, n), Shift(items, n), summary)

\* Mutation: messages are collected whatever their route.
IgnoresRoutes(items) == ToSet(items) \cap RoomEvents # {}

\* isCrossChannel: several routes, one that is not routable, or runtime-only metadata.
CrossChannel(items) ==
    \/ Cardinality({RouteOf[m] : m \in ToSet(items)} \ {NoRoute}) > 1
    \/ Unroutable \in {RouteOf[m] : m \in ToSet(items)}
    \/ ToSet(items) \cap RoomEvents # {}

\* The choice of the next run after the debounce and the second scan.  In
\* followup mode a pending summary takes the place of the head's own prompt.
Decide(q, force) ==
    LET cross == CrossChannel(q.items)
        individually == cross \/ (force /\ Len(q.items) <= 1)
        head == <<q.items[1]>>
    IN  CASE q.items = <<>> /\ q.mode = "collect" /\ HasSummary(q) ->
                 Launch(q, force, "summaryOnly", <<>>, <<>>, TRUE)
          [] q.items = <<>> /\ ~(q.mode = "collect" /\ HasSummary(q)) -> Finally(q)
          [] q.items # <<>> /\ q.mode = "collect" /\ individually ->
                 Launch(q, TRUE, "single", head, <<>>, FALSE)
          [] q.items # <<>> /\ q.mode = "collect" /\ ~individually ->
                 LaunchGroup(q, FALSE, q.items, HasSummary(q))
          [] q.items # <<>> /\ q.mode # "collect" /\ HasSummary(q) ->
                 Launch(q, force, "summaryItem", head, <<>>, TRUE)
          [] OTHER -> Launch(q, force, "single", head, <<>>, FALSE)

\* The end of a scan that removed messages iff `removed`.
ScanEnds(q, scan, force, removed) ==
    LET q1 == IF removed /\ q.items = <<>> THEN WithoutSummary(q) ELSE q
    IN  IF ~Work(q1) THEN Finally(q1)
        ELSE IF scan = 1
        THEN Debouncing(q1, force)
        ELSE Decide(q1, force)

\* dropAbortedFollowups from position i downwards; reading past the end of a
\* queue that shrank meanwhile is a TypeError, which ends the drain.
Scan(q, scan, i, force, removed) ==
    LET k == LastAborted(q.items, i)
    IN  CASE i > Len(q.items) -> Finally(q)
          [] i <= Len(q.items) /\ k > 0 -> Aborting(q, scan, k, force)
          [] OTHER -> ScanEnds(q, scan, force, removed)

\* Mutation: the drain empties the queue after a turn, with what arrived meanwhile.
AfterRunEmptiesQueue(q, dr) ==
    LET q1 == [q EXCEPT !.items = <<>>]
    IN  Loop(IF dr.summary THEN WithoutSummary(q1) ELSE q1, dr.force)

\* The continuation of a followup run that returned: the run's messages are
\* taken to be the first ones of the queue.
AfterRun(q, dr) ==
    LET n == CASE dr.kind = "group" -> Len(dr.batch)
               [] dr.kind = "summaryOnly" -> 0
               [] OTHER -> 1
        q1 == [q EXCEPT !.items = Shift(@, n)]
        q2 == IF dr.summary THEN WithoutSummary(q1) ELSE q1
    IN  IF dr.rest = <<>> THEN Loop(q2, dr.force)
        ELSE LaunchGroup(q2, dr.force, dr.rest, FALSE)

\* A drain whose queue was cleared finds it empty; only the groups it has
\* already collected are still run.
Orphan(dr, ok) ==
    IF ok /\ dr.rest # <<>>
    THEN [LaunchGroup(Absent, FALSE, dr.rest, FALSE).drain EXCEPT !.owns = FALSE]
    ELSE Idle

\* Apply a continuation of drain d: an orphan leaves the map alone.
Resume(d, next, ok) ==
    IF drains[d].owns
    THEN queue' = next.queue /\ drains' = [drains EXCEPT ![d] = next.drain]
    ELSE queue' = queue /\ drains' = [drains EXCEPT ![d] = Orphan(@, ok)]

\* Mutation: a queue that is draining is drained again.
ScheduleAgain(q) ==
    IF ~q.present
    THEN queue' = q /\ UNCHANGED drains
    ELSE LET free == {d \in Drains : drains[d].pc = "none"}
             next == Loop([q EXCEPT !.draining = TRUE], FALSE)
         IN  /\ free # {}
             /\ queue' = next.queue
             /\ drains' = [drains EXCEPT ![CHOOSE d \in free : TRUE] = next.drain]

\* scheduleFollowupDrain on queue q, which may already be draining.
Schedule(q) ==
    IF ~q.present \/ q.draining
    THEN queue' = q /\ UNCHANGED drains
    ELSE LET free == {d \in Drains : drains[d].pc = "none"}
             next == Loop([q EXCEPT !.draining = TRUE], FALSE)
         IN  /\ free # {}
             /\ queue' = next.queue
             /\ drains' = [drains EXCEPT ![CHOOSE d \in free : TRUE] = next.drain]

-----------------------------------------------------------------------------
(***************************************************************************)
(* Inbound messages and the session's other runs.                          *)
(***************************************************************************)

\* A message arrives, possibly redelivered, and sees an active run.
Arrive(m) ==
    /\ op # "none"
    /\ m \notin pending
    /\ pending' = pending \cup {m}
    /\ UNCHANGED <<queue, drains, op, main, recent, aborted, history, counters>>

\* Mutation: the queue trusts the transport not to deliver twice.
NoDedupe(q, m) == FALSE

\* The recent-id cache, then isRunAlreadyQueued.
Duplicate(q, m) == m \in recent \/ m \in ToSet(q.items)

\* applyQueueDropPolicy on a queue that accepts m: the messages that make room.
Evicted(q) == SubSeq(q.items, 1, Len(q.items) - q.cap + 1)

\* The last n elements of s.
LastOf(s, n) == IF Len(s) <= n THEN s ELSE SubSeq(s, Len(s) - n + 1, Len(s))

\* The queue after m was pushed: evicted messages leave a summary line, at most
\* `cap` of them, and a source per line.
Pushed(q, m) ==
    LET out == Evicted(q)
        lines == LastOf(q.summaryLines \o out, q.cap)
        q1 == [q EXCEPT !.items = Append(Shift(@, Len(out)), m)]
    IN  IF q.dropPolicy = "summarize" /\ out # <<>>
        THEN [q1 EXCEPT !.droppedCount = @ + Len(out), !.summaryLines = lines,
                        !.summarySources = LastOf(@ \o out, Len(lines))]
        ELSE IF q.dropPolicy = "summarize"
        THEN [q1 EXCEPT !.summarySources = LastOf(@, Len(q.summaryLines))]
        ELSE q1

\* Mutation: the liveness of the active run is not read again after the enqueue.
NoRecheck(q) == queue' = q /\ UNCHANGED drains

\* agent-runner: schedule a drain at once when the run it saw has ended.
Recheck(q) ==
    IF op = "none" THEN Schedule(q) ELSE queue' = q /\ UNCHANGED drains

\* enqueueFollowupRun with restartIfIdle = false, and the caller's recheck.
EnqueueFollowupRun(m, s) ==
    LET q == [queue EXCEPT !.present = TRUE, !.mode = s.mode, !.cap = s.cap,
                           !.dropPolicy = s.dropPolicy]
        refused == Duplicate(q, m) \/ (Len(q.items) >= q.cap /\ q.dropPolicy = "new")
        q1 == Pushed(q, m)
        gone == (ToSet(q.items) \cup ToSet(q.summaryLines)) \ (ToSet(q1.items) \cup ToSet(q1.summaryLines))
    IN  /\ m \in pending
        /\ pending' = pending \ {m}
        /\ CASE m \in aborted ->
                  Recheck(queue) /\ UNCHANGED <<recent, accepted, dropped, completed>>
             [] m \notin aborted /\ refused ->
                  Recheck(q) /\ UNCHANGED <<recent, accepted, dropped, completed>>
             [] OTHER ->
                  /\ Recheck(q1)
                  /\ recent' = recent \cup {m}
                  /\ accepted' = accepted \cup {m}
                  /\ dropped' = dropped \cup gone
                  /\ completed' = completed \cup
                        ((gone \cup ToSet(q.summarySources)) \ ToSet(q1.summarySources))
        /\ UNCHANGED <<op, main, aborted, turns, summarised, cleared, counters>>

\* A message that finds the session idle runs at once.
MainStarts ==
    /\ op = "none" /\ main = "none"
    /\ mains < MaxMains
    /\ op' = "main" /\ main' = "running" /\ mains' = mains + 1
    /\ UNCHANGED <<queue, drains, pending, recent, aborted, history, failures, clears>>

\* completeThen: release the reply operation, then drain.
MainCompletes ==
    /\ main = "running"
    /\ op' = "none" /\ main' = "none"
    /\ Schedule(queue)
    /\ UNCHANGED <<pending, recent, aborted, history, counters>>

\* fail() releases the operation before the code awaits and drains.
MainFails ==
    /\ main = "running"
    /\ op' = "none" /\ main' = "failing"
    /\ UNCHANGED <<queue, drains, pending, recent, aborted, history, counters>>

MainFailureReturns ==
    /\ main = "failing"
    /\ main' = "none"
    /\ Schedule(queue)
    /\ UNCHANGED <<op, pending, recent, aborted, history, counters>>

\* The source channel withdraws a room event.
AbortMessage(m) ==
    /\ m \in RoomEvents \ aborted
    /\ aborted' = aborted \cup {m}
    /\ UNCHANGED <<queue, drains, op, main, pending, recent, history, counters>>

\* clearSessionQueues (the command lane is CommandQueue's ClearCommandLane).
ClearSessionQueues ==
    /\ clears < MaxClears
    /\ queue.present
    /\ clears' = clears + 1
    /\ LET gone == UNION {ToSet(queue.items), ToSet(queue.summaryLines), ToSet(queue.summarySources)}
       IN  cleared' = cleared \cup gone /\ completed' = completed \cup gone
    /\ queue' = Absent
    /\ drains' = [d \in Drains |-> [drains[d] EXCEPT !.owns = FALSE]]
    /\ UNCHANGED <<op, main, pending, recent, aborted, accepted, turns, summarised, dropped,
                   mains, failures>>

-----------------------------------------------------------------------------
(***************************************************************************)
(* The steps of a drain, from one await to the next.                       *)
(***************************************************************************)

SummarySources(d) == IF drains[d].owns THEN ToSet(queue.summarySources) ELSE {}

\* runFollowup returns at once for an aborted message, which is then removed
\* by its position in the queue.
AbortedHandled(d) ==
    LET dr == drains[d]
        items == IF dr.index <= Len(queue.items) THEN RemoveAt(queue.items, dr.index) ELSE queue.items
        next == Scan([queue EXCEPT !.items = items], dr.scan, dr.index - 1, dr.force, TRUE)
    IN  /\ dr.pc = "aborting"
        /\ Resume(d, next, FALSE)
        /\ completed' = completed \cup ToSet(dr.batch) \cup
              (IF dr.owns THEN ToSet(queue.summarySources) \ ToSet(next.queue.summarySources) ELSE {})
        /\ dropped' = dropped \cup
              (IF dr.owns THEN ToSet(queue.summaryLines) \ ToSet(next.queue.summaryLines) ELSE {})
        /\ UNCHANGED <<op, main, pending, recent, aborted, accepted, turns, summarised, cleared,
                       counters>>

\* Mutation: the debounce is measured from now, and starts again while messages wait.
DebounceRearms(d) ==
    LET dr == drains[d]
    IN  /\ dr.pc = "debounce" /\ queue.items = <<>>
        /\ Resume(d, Scan(queue, 2, Len(queue.items), dr.force, FALSE), FALSE)
        /\ UNCHANGED <<op, main, pending, recent, aborted, history, counters>>

\* waitForQueueDebounce resolves; the second scan starts.
DebounceEnds(d) ==
    LET dr == drains[d]
    IN  /\ dr.pc = "debounce"
        /\ Resume(d, Scan(queue, 2, Len(queue.items), dr.force, FALSE), FALSE)
        /\ UNCHANGED <<op, main, pending, recent, aborted, history, counters>>

\* The followup runner opens the session's reply operation ...
RunBegins(d) ==
    /\ drains[d].pc = "starting"
    /\ op = "none"
    /\ op' = d
    /\ drains' = [drains EXCEPT ![d].pc = "running"]
    /\ UNCHANGED <<queue, main, pending, recent, aborted, history, counters>>

\* Mutation: a turn completes the lifecycles of the summary, not those of its own messages.
RunCleansUpOnlySources(d) ==
    completed' = completed \cup (IF drains[d].summary THEN SummarySources(d) ELSE {})

\* Mutation: the turn of a summary leaves the lifecycles of its sources open.
RunCleansUpOnlyBatch(d) == completed' = completed \cup ToSet(drains[d].batch)

\* The runner's and runWithSummarySourceCleanup's finally blocks, in either outcome.
RunCleansUp(d) ==
    completed' = completed \cup ToSet(drains[d].batch) \cup
        (IF drains[d].summary THEN SummarySources(d) ELSE {})

\* The error reaches the drain's catch and finally; the messages stay queued.
RunThrows(d) ==
    /\ RunCleansUp(d)
    /\ Resume(d, Finally(IF drains[d].summary THEN [queue EXCEPT !.summarySources = <<>>]
                                              ELSE queue), FALSE)
    /\ UNCHANGED <<main, pending, recent, aborted, accepted, turns, summarised, dropped, cleared,
                   mains, clears>>

\* ... or finds one open: ReplyRunAlreadyActiveError.
RunRefused(d) ==
    /\ drains[d].pc = "starting"
    /\ op # "none"
    /\ RunThrows(d)
    /\ UNCHANGED <<op, failures>>

\* An error of resolveQueuedReplyExecutionConfig, before an operation is opened.
RunUnprepared(d) ==
    /\ drains[d].pc = "starting"
    /\ failures < MaxFailures
    /\ failures' = failures + 1
    /\ RunThrows(d)
    /\ UNCHANGED op

\* The agent has run, and an error of what follows (persisting the usage, the
\* delivery) escapes the runner: the messages will be run again.
RunEscapes(d) ==
    /\ drains[d].pc = "running"
    /\ failures < MaxFailures
    /\ failures' = failures + 1
    /\ op' = "none"
    /\ RunThrows(d)

\* The agent fails: the runner catches it and releases the reply operation, then
\* awaits the progress deliveries and returns as if the turn had been taken.
AgentFails(d) ==
    /\ drains[d].pc = "running"
    /\ failures < MaxFailures
    /\ failures' = failures + 1
    /\ op' = "none"
    /\ drains' = [drains EXCEPT ![d].pc = "failing"]
    /\ UNCHANGED <<queue, main, pending, recent, aborted, history, mains, clears>>

\* The messages whose own prompt the run carries.
Prompts(dr) == IF dr.kind = "summaryItem" THEN {} ELSE ToSet(dr.batch)

\* The runner returns: its finally block completes the operation (once), and
\* the drain removes what was run.
RunReturns(d) ==
    LET dr == drains[d]
    IN  /\ dr.pc \in {"running", "failing"}
        /\ op' = IF dr.pc = "running" THEN "none" ELSE op
        /\ Resume(d, AfterRun(queue, dr), TRUE)
        /\ RunCleansUp(d)
        /\ turns' = [m \in Messages |-> turns[m] + IF m \in Prompts(dr) THEN 1 ELSE 0]
        /\ summarised' = summarised \cup dr.lines
        /\ UNCHANGED <<main, pending, recent, aborted, accepted, dropped, cleared, counters>>

DrainStep(d) ==
    \/ AbortedHandled(d)
    \/ DebounceEnds(d)
    \/ RunBegins(d)
    \/ RunRefused(d)
    \/ RunUnprepared(d)
    \/ RunEscapes(d)
    \/ AgentFails(d)
    \/ RunReturns(d)

Next ==
    \/ \E m \in Messages : Arrive(m)
    \/ \E m \in Messages, s \in Settings : EnqueueFollowupRun(m, s)
    \/ MainStarts
    \/ MainCompletes
    \/ MainFails
    \/ MainFailureReturns
    \/ \E m \in Messages : AbortMessage(m)
    \/ ClearSessionQueues
    \/ \E d \in Drains : DrainStep(d)

Spec == Init /\ [][Next]_vars

\* Timers fire, runs end (the embedded runner has its own timeouts), and a
\* handler that started reaches its enqueue.
Fairness ==
    /\ \A d \in Drains : WF_vars(DrainStep(d) /\ ~RunUnprepared(d) /\ ~RunEscapes(d))
    /\ WF_vars(MainCompletes \/ MainFails \/ MainFailureReturns)
    /\ \A m \in Messages : WF_vars(\E s \in Settings : EnqueueFollowupRun(m, s))

FairSpec == Spec /\ Fairness

-----------------------------------------------------------------------------
(***************************************************************************)
(* Properties.                                                             *)
(***************************************************************************)

InFlight == UNION {Prompts(drains[d]) \cup ToSet(drains[d].rest) \cup drains[d].lines :
                       d \in {d \in Drains : drains[d].pc # "none"}}

\* Every accepted message is queued, summarised, in flight, or was answered,
\* aborted by its channel, dropped by the overflow policy or cleared by the
\* user: the drain's positional splice and shift remove what was run and
\* nothing else.
NothingLost ==
    accepted \subseteq ToSet(queue.items) \cup ToSet(queue.summaryLines) \cup InFlight
        \cup {m \in Messages : turns[m] > 0} \cup summarised \cup aborted \cup dropped \cup cleared

\* A message has at most one turn that the runner ends by returning, whatever is
\* redelivered, refused, retried or cleared meanwhile: the recent-id cache and the
\* removal after the run together keep a redelivered message from a second one.
AnsweredOnce == \A m \in Messages : turns[m] <= 1

\* A room event that is no longer queued, summarised or running has had its
\* lifecycle completed.
LifecyclesComplete ==
    (accepted \cap RoomEvents) \ completed \subseteq
        ToSet(queue.items) \cup ToSet(queue.summarySources) \cup
        UNION {ToSet(drains[d].batch) : d \in Drains}

\* The lifecycle of a room event that the overflow policy evicted stays open only
\* while the event is a source of the pending summary, or in a turn that is being
\* taken: it is completed when the summary lines are trimmed, when the summary was
\* told, when telling it failed and when the last queued message is withdrawn.
EvictedComplete ==
    (RoomEvents \cap (ToSet(queue.summaryLines) \cup summarised \cup dropped)) \ completed
        \subseteq ToSet(queue.summarySources) \cup UNION {ToSet(drains[d].batch) : d \in Drains}

\* A turn that carries several messages carries those of one sender
\* authorization, of one route besides the messages that name none, and no room
\* event, although messages of other senders and routes are queued between them
\* and the mode changes: nobody is answered with another sender's rights or in
\* another chat.
BatchesHomogeneous ==
    \A d \in Drains : \A m, n \in ToSet(drains[d].batch) :
        m # n =>
            /\ AuthOf[m] = AuthOf[n]
            /\ RouteOf[m] = RouteOf[n] \/ NoRoute \in {RouteOf[m], RouteOf[n]}
            /\ Unroutable \notin {RouteOf[m], RouteOf[n]}
            /\ m \notin RoomEvents

\* One drain per queue, and the flag says so: no message is run by two drains.
OneDrainPerQueue ==
    /\ queue.draining <=> \E d \in Drains : drains[d].owns
    /\ \A d, other \in Drains : drains[d].owns /\ drains[other].owns => d = other

\* Queued work always has someone who will drain it: a drain, or the run whose
\* end schedules one.  It holds as long as no queue is cleared under its drain.
NeverStranded ==
    Work(queue) => queue.draining \/ main # "none"

\* The queue empties again and again, whatever the overflow policy: no message
\* waits for ever while the drain collides with other runs, retries or debounces.
\* It holds as long as no queue is cleared under its drain.
QueueEmptiesAgain == []<>(queue.items = <<>>)
=============================================================================
