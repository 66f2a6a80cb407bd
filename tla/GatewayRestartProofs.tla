------------------------ MODULE GatewayRestartProofs ------------------------
(***************************************************************************)
(* Proofs about gateway restarts: a request is never coalesced into a      *)
(* restart that nobody will carry out, and signals are never ignored for a *)
(* shutdown that nobody performs; and about the reply dispatchers that a   *)
(* restart waits for.  They hold for any amount of pending work, requests, *)
(* signals and failures.                                                   *)
(***************************************************************************)
EXTENDS GatewayRestart, FiniteSetTheorems, WellFoundedInduction, TLAPS

-----------------------------------------------------------------------------
(***************************************************************************)
(* infra/restart.ts.                                                       *)
(*                                                                         *)
(* Signals that are on their way pay for the unconsumed token and for the  *)
(* intent file: every body takes at most one of the two.  Spare is what is *)
(* left of the bodies once the token is paid for.                          *)
(***************************************************************************)
PreparationOK(rs) == rs.preparing => "scheduled" \in rs.polls \/ rs.awaiting.pending > 0

RsOK(rs) == rs \in RestartStates /\ PreparationOK(rs)

Spare(rs) == rs.bodies - (IF rs.unconsumed THEN 1 ELSE 0)

CliOwes == IF cli = "wrote" THEN 1 ELSE 0
FileNeeds == IF intentFile THEN 1 ELSE 0

SignalsPay == Spare(restart) + CliOwes >= FileNeeds

\* clearPendingScheduledRestart ends the preparation and leaves signals alone.
LEMMA ClearFacts ==
  ASSUME NEW rs \in RestartStates
  PROVE  LET c == ClearPendingScheduledRestart(rs)
         IN  /\ c \in RestartStates /\ ~c.preparing /\ c.polls = rs.polls
             /\ c.bodies = rs.bodies /\ c.unconsumed = rs.unconsumed
             /\ c.authorized = rs.authorized /\ c.awaiting = rs.awaiting
  BY DEF ClearPendingScheduledRestart, RestartStates

\* So does discarding the polls as well.
LEMMA DiscardFacts ==
  ASSUME NEW rs \in RestartStates
  PROVE  LET c == Discarded(rs)
         IN  /\ c \in RestartStates /\ ~c.preparing
             /\ c.bodies = rs.bodies /\ c.unconsumed = rs.unconsumed
             /\ c.authorized = rs.authorized
  <1>1. [rs EXCEPT !.polls = {}] \in RestartStates
    BY DEF RestartStates
  <1>2. /\ [rs EXCEPT !.polls = {}].bodies = rs.bodies
        /\ [rs EXCEPT !.polls = {}].unconsumed = rs.unconsumed
        /\ [rs EXCEPT !.polls = {}].authorized = rs.authorized
    BY DEF RestartStates
  <1> QED BY <1>1, <1>2, ClearFacts DEF Discarded

\* emitGatewayRestart: a new token comes with the body that will consume it.
LEMMA EmitFacts ==
  ASSUME NEW rs \in RestartStates
  PROVE  RsOK(EmitGatewayRestart(rs)) /\ Spare(EmitGatewayRestart(rs)) = Spare(rs)
  <1> DEFINE c == Discarded(rs)
  <1>1. /\ c \in RestartStates /\ ~c.preparing
        /\ c.bodies = rs.bodies /\ c.unconsumed = rs.unconsumed /\ c.authorized = rs.authorized
    BY DiscardFacts
  <1>2. CASE rs.unconsumed
    BY <1>1, <1>2 DEF EmitGatewayRestart, RsOK, PreparationOK, Spare
  <1>3. CASE ~rs.unconsumed
    <2> DEFINE e == [c EXCEPT !.unconsumed = TRUE, !.authorized = @ + 1, !.bodies = @ + 1]
    <2>1. EmitGatewayRestart(rs) = e
      BY <1>3 DEF EmitGatewayRestart
    <2> HIDE DEF c
    <2>2. rs.bodies \in Nat
      BY DEF RestartStates
    <2>3. c.bodies + 1 \in Nat /\ c.authorized + 1 \in Nat
      BY <1>1 DEF RestartStates
    <2>4. e \in RestartStates /\ ~e.preparing /\ e.unconsumed /\ e.bodies = rs.bodies + 1
      <3>1. e = [c EXCEPT !.unconsumed = TRUE, !.authorized = c.authorized + 1,
                          !.bodies = c.bodies + 1]
        BY <1>1 DEF RestartStates
      <3>2. \A x, y \in Nat :
              LET f == [c EXCEPT !.unconsumed = TRUE, !.authorized = x, !.bodies = y]
              IN  f \in RestartStates /\ ~f.preparing /\ f.unconsumed /\ f.bodies = y
        BY <1>1 DEF RestartStates
      <3> QED BY <1>1, <3>1, <3>2, <2>3
    <2> HIDE DEF e
    <2> QED BY <1>3, <2>1, <2>2, <2>4 DEF RsOK, PreparationOK, Spare
  <1> QED BY <1>2, <1>3

\* emitPreparedGatewayRestart awaits its hooks or emits at once.
LEMMA EmitPreparedFacts ==
  ASSUME NEW rs \in RestartStates
  PROVE  RsOK(EmitPrepared(rs)) /\ Spare(EmitPrepared(rs)) = Spare(rs)
  <1>1. CASE rs.emitHooks
    <2> DEFINE e == [rs EXCEPT !.emitHooks = FALSE, !.awaiting.pending = @ + 1]
    <2>1. EmitPrepared(rs) = e
      BY <1>1 DEF EmitPrepared
    <2>2. /\ e \in RestartStates /\ e.bodies = rs.bodies /\ e.unconsumed = rs.unconsumed
          /\ e.awaiting.pending > 0
      <3> DEFINE aw == [rs.awaiting EXCEPT !.pending = @ + 1]
      <3>1. aw \in [pending : Nat, own : Nat] /\ aw.pending > 0
        BY DEF RestartStates
      <3>2. e = [rs EXCEPT !.emitHooks = FALSE, !.awaiting = aw]
        BY DEF RestartStates
      <3> HIDE DEF aw
      <3> QED BY <3>1, <3>2 DEF RestartStates
    <2> HIDE DEF e
    <2> QED BY <2>1, <2>2 DEF RsOK, PreparationOK, Spare
  <1>2. CASE ~rs.emitHooks
    BY <1>2, EmitFacts DEF EmitPrepared
  <1> QED BY <1>1, <1>2

\* The same with the reload handler's hooks, which leave the scheduled restart alone.
LEMMA EmissionFacts ==
  ASSUME NEW rs \in RestartStates, NEW poll \in DeferralPolls, poll = "reload" => RsOK(rs)
  PROVE  RsOK(Emission(rs, poll)) /\ Spare(Emission(rs, poll)) = Spare(rs)
  <1>1. CASE poll = "scheduled"
    BY <1>1, EmitPreparedFacts DEF Emission
  <1>2. CASE poll = "reload"
    <2> DEFINE e == [rs EXCEPT !.awaiting.own = @ + 1]
    <2>1. Emission(rs, poll) = e
      BY <1>2 DEF Emission, EmitOwn
    <2>2. /\ e \in RestartStates /\ e.bodies = rs.bodies /\ e.unconsumed = rs.unconsumed
          /\ e.preparing = rs.preparing /\ e.polls = rs.polls
          /\ e.awaiting.pending = rs.awaiting.pending
      BY DEF RestartStates
    <2> HIDE DEF e
    <2> QED BY <1>2, <2>1, <2>2 DEF RsOK, PreparationOK, Spare
  <1> QED BY <1>1, <1>2 DEF DeferralPolls

\* deferGatewayRestartUntilIdle: the poll takes the place of the emission.
LEMMA DeferFacts ==
  ASSUME NEW rs \in RestartStates, NEW poll \in DeferralPolls, poll = "reload" => RsOK(rs)
  PROVE  /\ RsOK(DeferGatewayRestartUntilIdle(rs, poll))
         /\ Spare(DeferGatewayRestartUntilIdle(rs, poll)) = Spare(rs)
  <1>1. CASE TotalPendingReplies <= 0
    BY <1>1, EmissionFacts DEF DeferGatewayRestartUntilIdle
  <1>2. CASE ~(TotalPendingReplies <= 0)
    <2> DEFINE e == [rs EXCEPT !.polls = @ \cup {poll}]
    <2>1. DeferGatewayRestartUntilIdle(rs, poll) = e
      BY <1>2 DEF DeferGatewayRestartUntilIdle
    <2>2. /\ e \in RestartStates /\ e.bodies = rs.bodies /\ e.unconsumed = rs.unconsumed
          /\ e.preparing = rs.preparing /\ e.polls = rs.polls \cup {poll}
          /\ e.awaiting = rs.awaiting
      BY DEF RestartStates
    <2> HIDE DEF e
    <2> QED BY <2>1, <2>2 DEF RsOK, PreparationOK, Spare, DeferralPolls
  <1> QED BY <1>1, <1>2

\* scheduleGatewaySigusr1Restart, in each of its four outcomes.
LEMMA ScheduleFacts ==
  ASSUME NEW rs, RsOK(rs), NEW skip \in BOOLEAN, NEW hooks \in BOOLEAN, NEW sooner \in BOOLEAN
  PROVE  LET s == ScheduleGatewaySigusr1Restart(rs, skip, hooks, sooner)
         IN  RsOK(s) /\ Spare(s) = Spare(rs)
  <1> DEFINE s == ScheduleGatewaySigusr1Restart(rs, skip, hooks, sooner)
             b == [rs EXCEPT !.polls = {}, !.emitHooks = hooks]
             j == [rs EXCEPT !.skipDeferral = @ \/ skip, !.emitHooks = @ \/ hooks]
             c == ClearPendingScheduledRestart(rs)
             t == [c EXCEPT !.timer = TRUE, !.skipDeferral = skip, !.emitHooks = hooks]
  <1>1. rs \in RestartStates
    BY DEF RsOK
  <1>2. s \in {rs, EmitPrepared(b), j, t}
    BY DEF ScheduleGatewaySigusr1Restart
  <1>3. b \in RestartStates /\ b.bodies = rs.bodies /\ b.unconsumed = rs.unconsumed
    BY <1>1 DEF RestartStates
  <1>4. RsOK(EmitPrepared(b)) /\ Spare(EmitPrepared(b)) = Spare(rs)
    <2> HIDE DEF b
    <2> QED BY <1>3, EmitPreparedFacts DEF Spare
  <1>5. RsOK(j) /\ Spare(j) = Spare(rs)
    <2>1. /\ j \in RestartStates /\ j.bodies = rs.bodies /\ j.unconsumed = rs.unconsumed
          /\ j.preparing = rs.preparing /\ j.polls = rs.polls /\ j.awaiting = rs.awaiting
      BY <1>1 DEF RestartStates
    <2> HIDE DEF j
    <2> QED BY <2>1 DEF RsOK, PreparationOK, Spare
  <1>6. RsOK(t) /\ Spare(t) = Spare(rs)
    <2>1. c \in RestartStates /\ ~c.preparing /\ c.bodies = rs.bodies /\ c.unconsumed = rs.unconsumed
      BY <1>1, ClearFacts
    <2> HIDE DEF c
    <2>2. /\ t \in RestartStates /\ ~t.preparing /\ t.bodies = rs.bodies
          /\ t.unconsumed = rs.unconsumed
      BY <2>1 DEF RestartStates
    <2> HIDE DEF t
    <2> QED BY <2>2 DEF RsOK, PreparationOK, Spare
  <1> HIDE DEF s, b, j, t
  <1>7. RsOK(s) /\ Spare(s) = Spare(rs)
    BY <1>2, <1>4, <1>5, <1>6
  <1> QED BY <1>7 DEF s

-----------------------------------------------------------------------------
(***************************************************************************)
(* run-loop.ts.                                                            *)
(*                                                                         *)
(* A pending startup request excludes a close in progress, and a loop that *)
(* waits has a server or a failed start: only then a restart is accepted   *)
(* at once, and only then it can be.                                       *)
(***************************************************************************)
OwnerOK(rl) ==
    /\ rl.shuttingDown => rl.closing # "none" \/ (rl.startupRequest /\ rl.at # "waiting")
    /\ rl.closing = "restart" => rl.at = "waiting"
    /\ rl.closing # "none" => rl.shuttingDown
    /\ rl.startupRequest => rl.shuttingDown /\ rl.closing = "none" /\ rl.at # "waiting"
    /\ rl.at = "waiting" /\ ~rl.shuttingDown => rl.server \/ rl.startupFailed

HandleOK(rl) ==
    /\ rl.at # "waiting" => ~rl.server
    /\ rl.at = "failed" /\ ~rl.shuttingDown => rl.startupFailed

RlOK(rl) == rl \in LoopStates /\ (rl.at # "exited" => OwnerOK(rl) /\ HandleOK(rl))

\* request("stop"): ignored, or closing from now on.
LEMMA StopFacts ==
  ASSUME NEW rl, RlOK(rl), rl.at # "exited"
  PROVE  RlOK(RequestStop(rl))
  <1>1. rl \in LoopStates /\ OwnerOK(rl) /\ HandleOK(rl)
    BY DEF RlOK
  <1>2. CASE ~rl.shuttingDown
    <2> DEFINE f == [rl EXCEPT !.shuttingDown = TRUE, !.closing = "stop"]
    <2>1. RequestStop(rl) = f
      BY <1>1, <1>2 DEF RequestStop, RunAcceptedRequest, LoopStates
    <2>2. /\ f \in LoopStates /\ f.at = rl.at /\ f.server = rl.server
          /\ f.shuttingDown /\ f.closing = "stop" /\ f.startupRequest = rl.startupRequest
      BY <1>1 DEF LoopStates
    <2> HIDE DEF f
    <2> QED BY <1>1, <1>2, <2>1, <2>2 DEF RlOK, OwnerOK, HandleOK
  <1>3. CASE rl.shuttingDown /\ rl.startupRequest /\ ~rl.server
    <2> DEFINE f == [rl EXCEPT !.startupRequest = FALSE, !.startupFailed = FALSE, !.closing = "stop"]
    <2>1. RequestStop(rl) = f
      BY <1>1, <1>3 DEF RequestStop, RunAcceptedRequest, LoopStates
    <2>2. /\ f \in LoopStates /\ f.at = rl.at /\ f.server = rl.server
          /\ f.shuttingDown = rl.shuttingDown /\ f.closing = "stop" /\ ~f.startupRequest
      BY <1>1 DEF LoopStates
    <2> HIDE DEF f
    <2> QED BY <1>1, <1>3, <2>1, <2>2 DEF RlOK, OwnerOK, HandleOK
  <1>4. CASE rl.shuttingDown /\ ~(rl.startupRequest /\ ~rl.server)
    <2>1. RequestStop(rl) = rl
      BY <1>4 DEF RequestStop
    <2> QED BY <2>1
  <1> QED BY <1>2, <1>3, <1>4

\* request("restart"): ignored, accepted, or kept until the start has ended.
LEMMA RestartFacts ==
  ASSUME NEW rl, RlOK(rl), rl.at # "exited"
  PROVE  RlOK(RequestRestart(rl))
  <1>1. rl \in LoopStates /\ OwnerOK(rl) /\ HandleOK(rl)
    BY DEF RlOK
  <1>2. CASE rl.shuttingDown
    <2>1. RequestRestart(rl) = rl
      BY <1>2 DEF RequestRestart
    <2> QED BY <2>1
  <1>3. CASE ~rl.shuttingDown /\ rl.at = "waiting"
    <2>1. RequestRestart(rl) \in
             {[rl EXCEPT !.shuttingDown = TRUE, !.startupFailed = FALSE, !.closing = "restart"],
              [rl EXCEPT !.shuttingDown = TRUE, !.closing = "restart"]}
      BY <1>1, <1>3 DEF RequestRestart, RunAcceptedRequest, LoopStates, OwnerOK
    <2>2. PICK f : f = RequestRestart(rl)
      OBVIOUS
    <2>3. /\ f \in LoopStates /\ f.at = rl.at /\ f.server = rl.server
          /\ f.shuttingDown /\ f.closing = "restart" /\ f.startupRequest = rl.startupRequest
      BY <1>1, <2>1, <2>2 DEF LoopStates
    <2> QED BY <1>1, <1>3, <2>2, <2>3 DEF RlOK, OwnerOK, HandleOK
  <1>4. CASE ~rl.shuttingDown /\ rl.at # "waiting"
    <2> DEFINE f == [rl EXCEPT !.shuttingDown = TRUE, !.startupRequest = TRUE]
    <2>1. RequestRestart(rl) = f
      BY <1>1, <1>4 DEF RequestRestart, LoopStates
    <2>2. /\ f \in LoopStates /\ f.at = rl.at /\ f.server = rl.server
          /\ f.shuttingDown /\ f.closing = rl.closing /\ f.startupRequest
          /\ f.startupFailed = rl.startupFailed
      BY <1>1 DEF LoopStates
    <2> HIDE DEF f
    <2> QED BY <1>1, <1>4, <2>1, <2>2 DEF RlOK, OwnerOK, HandleOK
  <1> QED BY <1>2, <1>3, <1>4

\* flushPendingStartupRequest: what was asked for during the start is carried out now.
LEMMA FlushFacts ==
  ASSUME NEW rl \in LoopStates, rl.at \in {"starting", "failed"}, OwnerOK(rl),
         ~rl.shuttingDown => rl.server \/ rl.startupFailed
  PROVE  RlOK(FlushPendingStartupRequest(rl))
  <1>1. CASE ~rl.startupRequest
    <2> DEFINE f == [rl EXCEPT !.at = "waiting"]
    <2>1. FlushPendingStartupRequest(rl) = f
      BY <1>1 DEF FlushPendingStartupRequest
    <2>2. /\ f \in LoopStates /\ f.at = "waiting" /\ f.server = rl.server
          /\ f.shuttingDown = rl.shuttingDown /\ f.closing = rl.closing
          /\ f.startupRequest = rl.startupRequest /\ f.startupFailed = rl.startupFailed
      BY DEF LoopStates
    <2> HIDE DEF f
    <2> QED BY <1>1, <2>1, <2>2 DEF RlOK, OwnerOK, HandleOK
  <1>2. CASE rl.startupRequest
    <2> DEFINE f == [rl EXCEPT !.at = "waiting", !.startupRequest = FALSE,
                               !.startupFailed = FALSE, !.closing = "restart"]
    <2>1. FlushPendingStartupRequest(rl) = f
      BY <1>2 DEF FlushPendingStartupRequest, RunAcceptedRequest, LoopStates
    <2>2. /\ f \in LoopStates /\ f.at = "waiting" /\ f.shuttingDown = rl.shuttingDown
          /\ f.closing = "restart" /\ ~f.startupRequest
      BY DEF LoopStates
    <2> HIDE DEF f
    <2> QED BY <1>2, <2>1, <2>2 DEF RlOK, OwnerOK, HandleOK
  <1> QED BY <1>1, <1>2

-----------------------------------------------------------------------------
(***************************************************************************)
(* Steps.                                                                  *)
(***************************************************************************)
FlagsOK ==
    /\ intentFile \in BOOLEAN /\ cli \in {"idle", "wrote"} /\ restartPending \in BOOLEAN
    /\ allowExternal \in BOOLEAN /\ restartOwed \in {"no", "asked", "refused"}
    /\ restartCounts \in [BoundedEvents -> Nat]

RestartInv == FlagsOK /\ RsOK(restart) /\ SignalsPay /\ RlOK(runLoop)

\* Counting keeps the counters natural numbers.
LEMMA CountFacts ==
  ASSUME FlagsOK, NEW event \in BoundedEvents, NEW bound, CountRestart(event, bound)
  PROVE  restartCounts' \in [BoundedEvents -> Nat]
  BY DEF FlagsOK, CountRestart

\* A step of infra/restart.ts that takes no signal away.
LEMMA RestartStep ==
  ASSUME RestartInv, UNCHANGED <<runLoop, intentFile, cli>>, allowExternal' \in BOOLEAN,
         RsOK(restart'), Spare(restart') = Spare(restart),
         restartPending' \in BOOLEAN, restartOwed' \in {"no", "asked", "refused"},
         restartCounts' \in [BoundedEvents -> Nat]
  PROVE  RestartInv'
  BY DEF RestartInv, FlagsOK, SignalsPay, CliOwes, FileNeeds

\* A step of the loop.
LEMMA LoopOnlyStep ==
  ASSUME RestartInv, UNCHANGED <<restart, intentFile, cli, allowExternal>>, RlOK(runLoop'),
         restartPending' \in BOOLEAN, restartOwed' \in {"no", "asked", "refused"},
         restartCounts' \in [BoundedEvents -> Nat]
  PROVE  RestartInv'
  BY DEF RestartInv, FlagsOK, SignalsPay, CliOwes, FileNeeds

\* One more body is on its way.
LEMMA MoreBodies ==
  ASSUME NEW rs, RsOK(rs)
  PROVE  LET m == [rs EXCEPT !.bodies = @ + 1] IN RsOK(m) /\ Spare(m) = Spare(rs) + 1
  <1> DEFINE m == [rs EXCEPT !.bodies = @ + 1]
  <1>1. rs.bodies \in Nat /\ rs \in RestartStates
    BY DEF RsOK, RestartStates
  <1>2. /\ m \in RestartStates /\ m.bodies = rs.bodies + 1 /\ m.unconsumed = rs.unconsumed
        /\ m.preparing = rs.preparing /\ m.polls = rs.polls /\ m.awaiting = rs.awaiting
    BY <1>1 DEF RestartStates
  <1> HIDE DEF m
  <1>3. RsOK(m) /\ Spare(m) = Spare(rs) + 1
    BY <1>1, <1>2 DEF RsOK, PreparationOK, Spare
  <1> QED BY <1>3 DEF m

\* Requests keep the invariant.
LEMMA RequestSteps ==
  ASSUME RestartInv,
         \/ \E skip, hooks, sooner \in BOOLEAN : RestartRequested(skip, hooks, sooner)
         \/ RequestGatewayRestart \/ RestartPolicyChanges
         \/ CliWritesIntent \/ CliSignals \/ ForeignSigusr1
  PROVE  RestartInv'
  <1>1. ASSUME NEW skip \in BOOLEAN, NEW hooks \in BOOLEAN, NEW sooner \in BOOLEAN,
               RestartRequested(skip, hooks, sooner)
        PROVE  RestartInv'
    <2>1. RsOK(restart') /\ Spare(restart') = Spare(restart)
      BY <1>1, ScheduleFacts DEF RestartRequested, RestartInv
    <2>2. restartCounts' \in [BoundedEvents -> Nat]
      BY <1>1, CountFacts DEF RestartRequested, RestartInv, BoundedEvents
    <2> QED BY <1>1, <2>1, <2>2, RestartStep DEF RestartRequested, Asked, RestartInv, FlagsOK
  <1>2. CASE RequestGatewayRestart
    <2>1. restart \in RestartStates
      BY DEF RestartInv, RsOK
    <2>2. restart' \in {EmitGatewayRestart(restart), restart,
                        DeferGatewayRestartUntilIdle(restart, "reload")}
      BY <1>2 DEF RequestGatewayRestart
    <2>3. RsOK(restart') /\ Spare(restart') = Spare(restart)
      BY <2>1, <2>2, EmitFacts, DeferFacts DEF RestartInv, DeferralPolls
    <2>4. restartCounts' \in [BoundedEvents -> Nat]
      BY <1>2, CountFacts DEF RequestGatewayRestart, RestartInv, BoundedEvents
    <2> QED BY <1>2, <2>3, <2>4, RestartStep DEF RequestGatewayRestart, Asked, RestartInv, FlagsOK
  <1>3. CASE CliWritesIntent
    <2>1. restartCounts' \in [BoundedEvents -> Nat]
      BY <1>3, CountFacts DEF CliWritesIntent, RestartInv, BoundedEvents
    <2>2. SignalsPay'
      <3>1. Spare(restart) \in Int
        BY DEF RestartInv, RsOK, RestartStates, Spare
      <3> QED BY <1>3, <3>1 DEF CliWritesIntent, RestartInv, SignalsPay, CliOwes, FileNeeds
    <2> QED BY <1>3, <2>1, <2>2 DEF CliWritesIntent, Asked, RestartInv, FlagsOK
  <1>4. CASE CliSignals
    <2>1. RsOK(restart') /\ Spare(restart') = Spare(restart) + 1
      BY <1>4, MoreBodies DEF CliSignals, RestartInv
    <2>2. Spare(restart) \in Int
      BY DEF RestartInv, RsOK, RestartStates, Spare
    <2>3. SignalsPay'
      BY <1>4, <2>1, <2>2 DEF CliSignals, RestartInv, SignalsPay, CliOwes, FileNeeds
    <2> QED BY <1>4, <2>1, <2>3 DEF CliSignals, RestartInv, FlagsOK
  <1>5. CASE ForeignSigusr1
    <2>1. RsOK(restart') /\ Spare(restart') = Spare(restart) + 1
      BY <1>5, MoreBodies DEF ForeignSigusr1, RestartInv
    <2>2. Spare(restart) \in Int
      BY DEF RestartInv, RsOK, RestartStates, Spare
    <2>3. SignalsPay'
      BY <1>5, <2>1, <2>2 DEF ForeignSigusr1, RestartInv, SignalsPay, CliOwes, FileNeeds
    <2>4. restartCounts' \in [BoundedEvents -> Nat]
      BY <1>5, CountFacts DEF ForeignSigusr1, RestartInv, BoundedEvents
    <2> QED BY <1>5, <2>1, <2>3, <2>4 DEF ForeignSigusr1, RestartInv, FlagsOK
  <1>6. CASE RestartPolicyChanges
    <2>1. /\ RsOK(restart') /\ Spare(restart') = Spare(restart)
          /\ UNCHANGED <<runLoop, intentFile, cli, restartPending, restartOwed, restartCounts>>
          /\ allowExternal' \in BOOLEAN
      BY <1>6 DEF RestartPolicyChanges, RestartInv
    <2> QED BY <2>1, RestartStep DEF RestartInv, FlagsOK
  <1> QED BY <1>1, <1>2, <1>3, <1>4, <1>5, <1>6

\* Timers, polls, prepared emissions and expiry keep the invariant.
LEMMA TimerSteps ==
  ASSUME RestartInv,
         \/ RestartTimerFires \/ ScheduledEmission \/ ReloadEmission \/ AuthorizationExpires
         \/ IntentExpires
         \/ \E poll \in DeferralPolls : PollEnds(poll)
  PROVE  RestartInv'
  <1>0. restart \in RestartStates
    BY DEF RestartInv, RsOK
  <1>1. CASE RestartTimerFires
    <2> DEFINE due == [restart EXCEPT !.timer = FALSE, !.skipDeferral = FALSE, !.preparing = TRUE]
    <2>1. /\ due \in RestartStates /\ due.bodies = restart.bodies
          /\ due.unconsumed = restart.unconsumed
      BY <1>0 DEF RestartStates
    <2>2. restart' \in {EmitPrepared(due), DeferGatewayRestartUntilIdle(due, "scheduled")}
      BY <1>1 DEF RestartTimerFires
    <2> HIDE DEF due
    <2>3. RsOK(restart') /\ Spare(restart') = Spare(restart)
      BY <2>1, <2>2, EmitPreparedFacts, DeferFacts DEF DeferralPolls, Spare
    <2> QED BY <1>1, <2>3, RestartStep DEF RestartTimerFires, OnlyRestart, RestartInv, FlagsOK
  <1>2. CASE ScheduledEmission
    <2> DEFINE aw == [restart.awaiting EXCEPT !.pending = @ - 1]
               back == [restart EXCEPT !.awaiting = aw]
    <2>1. aw \in [pending : Nat, own : Nat]
      BY <1>0, <1>2 DEF ScheduledEmission, RestartStates
    <2>2. restart' = EmitPrepared(back)
      BY <1>0, <1>2 DEF ScheduledEmission, RestartStates
    <2> HIDE DEF aw
    <2>3. /\ back \in RestartStates /\ back.bodies = restart.bodies
          /\ back.unconsumed = restart.unconsumed
      BY <1>0, <2>1 DEF RestartStates
    <2> HIDE DEF back
    <2>4. RsOK(restart') /\ Spare(restart') = Spare(restart)
      BY <2>2, <2>3, EmitPreparedFacts DEF Spare
    <2> QED BY <1>2, <2>4, RestartStep DEF ScheduledEmission, OnlyRestart, RestartInv, FlagsOK
  <1>3. CASE ReloadEmission
    <2> DEFINE aw == [restart.awaiting EXCEPT !.own = @ - 1]
               back == [restart EXCEPT !.awaiting = aw]
    <2>1. aw \in [pending : Nat, own : Nat]
      BY <1>0, <1>3 DEF ReloadEmission, RestartStates
    <2>2. restart' = EmitGatewayRestart(back)
      BY <1>0, <1>3 DEF ReloadEmission, RestartStates
    <2> HIDE DEF aw
    <2>3. /\ back \in RestartStates /\ back.bodies = restart.bodies
          /\ back.unconsumed = restart.unconsumed
      BY <1>0, <2>1 DEF RestartStates
    <2> HIDE DEF back
    <2>4. RsOK(restart') /\ Spare(restart') = Spare(restart)
      BY <2>2, <2>3, EmitFacts DEF Spare
    <2> QED BY <1>3, <2>4, RestartStep DEF ReloadEmission, OnlyRestart, RestartInv, FlagsOK
  <1>4. CASE AuthorizationExpires
    <2>1. /\ restart' \in RestartStates /\ restart'.bodies = restart.bodies
          /\ restart'.unconsumed = restart.unconsumed /\ restart'.preparing = restart.preparing
          /\ restart'.polls = restart.polls /\ restart'.awaiting = restart.awaiting
      BY <1>0, <1>4 DEF AuthorizationExpires, RestartStates
    <2>2. RsOK(restart') /\ Spare(restart') = Spare(restart)
      BY <2>1 DEF RestartInv, RsOK, PreparationOK, Spare
    <2>3. restartCounts' \in [BoundedEvents -> Nat]
      BY <1>4, CountFacts DEF AuthorizationExpires, RestartInv, BoundedEvents
    <2> QED BY <1>4, <2>2, <2>3, RestartStep DEF AuthorizationExpires, RestartInv, FlagsOK
  <1>5. ASSUME NEW poll \in DeferralPolls, PollEnds(poll) PROVE RestartInv'
    <2> DEFINE rest == [restart EXCEPT !.polls = @ \ {poll}]
    <2>1. restart' = Emission(rest, poll)
      BY <1>5 DEF PollEnds
    <2>2. /\ rest \in RestartStates /\ rest.bodies = restart.bodies
          /\ rest.unconsumed = restart.unconsumed /\ rest.preparing = restart.preparing
          /\ rest.polls = restart.polls \ {poll} /\ rest.awaiting = restart.awaiting
      BY <1>0 DEF RestartStates
    <2> HIDE DEF rest
    <2>3. poll = "reload" => RsOK(rest)
      BY <2>2 DEF RestartInv, RsOK, PreparationOK
    <2>4. RsOK(restart') /\ Spare(restart') = Spare(restart)
      BY <2>1, <2>2, <2>3, EmissionFacts DEF Spare
    <2> QED BY <1>5, <2>4, RestartStep DEF PollEnds, OnlyRestart, RestartInv, FlagsOK
  <1>6. CASE IntentExpires
    <2>1. restartCounts' \in [BoundedEvents -> Nat]
      BY <1>6, CountFacts DEF IntentExpires, RestartInv, BoundedEvents
    <2>2. Spare(restart) \in Int
      BY <1>0 DEF RestartStates, Spare
    <2>3. SignalsPay'
      BY <1>6, <2>2 DEF IntentExpires, RestartInv, SignalsPay, CliOwes, FileNeeds
    <2> QED BY <1>6, <2>1, <2>3 DEF IntentExpires, RestartInv, FlagsOK
  <1> QED BY <1>1, <1>2, <1>3, <1>4, <1>5, <1>6

\* Signal handlers keep the invariant: a body that takes the intent leaves the token
\* to another one, a body that finds no intent takes the token.
LEMMA SignalSteps ==
  ASSUME RestartInv, OnSigusr1 \/ OnSigterm \/ OnSigint
  PROVE  RestartInv'
  <1>0. /\ restart \in RestartStates /\ restart.bodies \in Nat /\ restart.unconsumed \in BOOLEAN
        /\ Spare(restart) \in Int
    BY DEF RestartInv, RsOK, RestartStates, Spare
  <1>1. CASE OnSigusr1
    <2> DEFINE taken == [restart EXCEPT !.bodies = @ - 1]
    <2>1. /\ taken \in RestartStates /\ taken.bodies = restart.bodies - 1
          /\ taken.unconsumed = restart.unconsumed /\ taken.preparing = restart.preparing
          /\ taken.polls = restart.polls /\ taken.awaiting = restart.awaiting
      <3>1. restart.bodies - 1 \in Nat
        BY <1>0, <1>1 DEF OnSigusr1
      <3> QED BY <1>0, <3>1 DEF RestartStates
    <2>2. RsOK(taken)
      BY <2>1 DEF RestartInv, RsOK, PreparationOK
    <2>3. /\ UNCHANGED <<cli, restartPending, allowExternal, restartCounts>>
          /\ intentFile' = FALSE /\ restartOwed' \in {"no", "asked", "refused"}
      BY <1>1 DEF OnSigusr1, RestartInv, FlagsOK
    <2>4. RlOK(runLoop')
      <3>1. runLoop' \in {RequestRestart(runLoop), runLoop} /\ runLoop.at # "exited"
        BY <1>1 DEF OnSigusr1, Alive
      <3> QED BY <3>1, RestartFacts DEF RestartInv
    <2>5. CASE intentFile
      <3>1. restart' = taken
        BY <1>1, <2>5 DEF OnSigusr1
      <3>2. Spare(taken) = Spare(restart) - 1
        BY <1>0, <2>1 DEF Spare
      <3>3. SignalsPay'
        BY <1>0, <2>3, <2>5, <3>1, <3>2 DEF RestartInv, SignalsPay, CliOwes, FileNeeds
      <3> QED BY <2>2, <2>3, <2>4, <3>1, <3>3 DEF RestartInv, FlagsOK
    <2>6. CASE ~intentFile /\ IsAuthorized(restart)
      <3>1. restart' = [taken EXCEPT !.authorized = @ - 1, !.unconsumed = FALSE]
        BY <1>1, <2>6 DEF OnSigusr1
      <3>2. taken.authorized - 1 \in Nat
        BY <1>0, <2>6 DEF IsAuthorized, RestartStates
      <3> HIDE DEF taken
      <3>3. /\ restart' \in RestartStates /\ restart'.bodies = taken.bodies
            /\ ~restart'.unconsumed /\ restart'.preparing = taken.preparing
            /\ restart'.polls = taken.polls /\ restart'.awaiting = taken.awaiting
        BY <2>1, <3>1, <3>2 DEF RestartStates
      <3>4. RsOK(restart') /\ restart'.bodies \in Nat
        BY <2>2, <3>3 DEF RsOK, PreparationOK, RestartStates
      <3>5. SignalsPay'
        BY <2>3, <3>3, <3>4 DEF SignalsPay, Spare, CliOwes, FileNeeds
      <3> QED BY <2>3, <2>4, <3>4, <3>5 DEF RestartInv, FlagsOK
    <2>7. CASE ~intentFile /\ ~IsAuthorized(restart)
      <3> DEFINE handled == [taken EXCEPT !.unconsumed = FALSE]
      <3>1. restart' \in HandledUnauthorized(taken)
        BY <1>1, <2>7 DEF OnSigusr1
      <3>2. \/ restart' = handled
            \/ \E sooner \in BOOLEAN :
                  restart' = ScheduleGatewaySigusr1Restart(handled, FALSE, FALSE, sooner)
        BY <3>1 DEF HandledUnauthorized
      <3> HIDE DEF taken
      <3>3. /\ handled \in RestartStates /\ handled.bodies = taken.bodies
            /\ ~handled.unconsumed /\ handled.preparing = taken.preparing
            /\ handled.polls = taken.polls /\ handled.awaiting = taken.awaiting
        BY <2>1 DEF RestartStates
      <3> HIDE DEF handled
      <3>4. RsOK(handled) /\ handled.bodies \in Nat
        BY <2>2, <3>3 DEF RsOK, PreparationOK, RestartStates
      <3>5. Spare(handled) = handled.bodies
        BY <3>3, <3>4 DEF Spare
      <3>6. RsOK(restart') /\ Spare(restart') = handled.bodies
        <4>1. CASE restart' = handled
          BY <3>4, <3>5, <4>1
        <4>2. ASSUME NEW sooner \in BOOLEAN,
                     restart' = ScheduleGatewaySigusr1Restart(handled, FALSE, FALSE, sooner)
              PROVE  RsOK(restart') /\ Spare(restart') = handled.bodies
          BY <3>4, <3>5, <4>2, ScheduleFacts
        <4> QED BY <3>2, <4>1, <4>2
      <3>7. SignalsPay'
        BY <2>3, <3>4, <3>6 DEF SignalsPay, CliOwes, FileNeeds
      <3> QED BY <2>3, <2>4, <3>6, <3>7 DEF RestartInv, FlagsOK
    <2> QED BY <2>5, <2>6, <2>7 DEF RestartInv, FlagsOK
  <1>2. CASE OnSigterm
    <2>1. RlOK(runLoop')
      BY <1>2, RestartFacts, StopFacts DEF OnSigterm, Alive, RestartInv
    <2>2. restartCounts' \in [BoundedEvents -> Nat]
      BY <1>2, CountFacts DEF OnSigterm, RestartInv, BoundedEvents
    <2>3. SignalsPay'
      BY <1>0, <1>2 DEF OnSigterm, RestartInv, SignalsPay, CliOwes, FileNeeds
    <2> QED BY <1>2, <2>1, <2>2, <2>3 DEF OnSigterm, RestartInv, FlagsOK
  <1>3. CASE OnSigint
    <2>1. RlOK(runLoop')
      BY <1>3, StopFacts DEF OnSigint, Alive, RestartInv
    <2>2. restartCounts' \in [BoundedEvents -> Nat]
      BY <1>3, CountFacts DEF OnSigint, RestartInv, BoundedEvents
    <2> QED BY <1>3, <2>1, <2>2, LoopOnlyStep DEF OnSigint, RestartInv, FlagsOK
  <1> QED BY <1>1, <1>2, <1>3

\* The loop keeps the invariant.
LEMMA LoopSteps ==
  ASSUME RestartInv, LoopStep
  PROVE  RestartInv'
  <1>0. runLoop \in LoopStates
    BY DEF RestartInv, RlOK
  <1>1. CASE RestartsInProcess
    <2>1. /\ runLoop' \in LoopStates /\ runLoop'.at = "iterating" /\ runLoop'.closing = "none"
          /\ ~runLoop'.server /\ ~runLoop'.shuttingDown
          /\ runLoop'.startupRequest = runLoop.startupRequest
      BY <1>0, <1>1 DEF RestartsInProcess, LoopStates
    <2>2. RlOK(runLoop')
      BY <1>1, <2>1 DEF RestartsInProcess, Alive, RestartInv, RlOK, OwnerOK, HandleOK
    <2> QED BY <1>1, <2>2, LoopOnlyStep DEF RestartsInProcess, OnlyLoop, RestartInv, FlagsOK
  <1>2. CASE ProcessExits
    <2>1. runLoop' \in LoopStates /\ runLoop'.at = "exited"
      BY <1>0, <1>2 DEF ProcessExits, LoopStates
    <2>2. RlOK(runLoop')
      BY <2>1 DEF RlOK
    <2> QED BY <1>2, <2>2, LoopOnlyStep DEF ProcessExits, OnlyLoop, RestartInv, FlagsOK
  <1>3. CASE NextIteration
    <2>1. /\ runLoop' \in LoopStates /\ runLoop'.at = "starting"
          /\ runLoop'.server = runLoop.server /\ runLoop'.shuttingDown = runLoop.shuttingDown
          /\ runLoop'.closing = runLoop.closing
          /\ runLoop'.startupRequest = runLoop.startupRequest
      BY <1>0, <1>3 DEF NextIteration, LoopStates
    <2>2. RlOK(runLoop')
      BY <1>3, <2>1 DEF NextIteration, RestartInv, RlOK, OwnerOK, HandleOK
    <2>3. RsOK(restart') /\ Spare(restart') = Spare(restart)
      BY <1>3, DiscardFacts DEF NextIteration, RestartInv, RsOK, PreparationOK, Spare
    <2> QED BY <1>3, <2>2, <2>3
            DEF NextIteration, OnlyLoop, RestartInv, FlagsOK, SignalsPay, CliOwes, FileNeeds
  <1>4. CASE StartSucceeds
    <2> DEFINE up == [runLoop EXCEPT !.server = TRUE, !.startupFailed = FALSE, !.firstStart = FALSE]
    <2>1. runLoop' = FlushPendingStartupRequest(up) /\ runLoop.at = "starting"
      BY <1>4 DEF StartSucceeds
    <2>2. /\ up \in LoopStates /\ up.at = runLoop.at /\ up.server
          /\ up.shuttingDown = runLoop.shuttingDown /\ up.closing = runLoop.closing
          /\ up.startupRequest = runLoop.startupRequest
      BY <1>0 DEF LoopStates
    <2> HIDE DEF up
    <2>3. OwnerOK(up)
      BY <2>1, <2>2 DEF RestartInv, RlOK, OwnerOK
    <2>4. RlOK(runLoop')
      BY <2>1, <2>2, <2>3, FlushFacts
    <2> QED BY <1>4, <2>4, LoopOnlyStep DEF StartSucceeds, OnlyLoop, RestartInv, FlagsOK
  <1>5. CASE StartFails
    <2>1. /\ runLoop' \in LoopStates /\ runLoop'.at \in {"failed", "exited"}
          /\ runLoop'.at = "failed" => runLoop'.startupFailed
          /\ runLoop'.server = runLoop.server /\ runLoop'.shuttingDown = runLoop.shuttingDown
          /\ runLoop'.closing = runLoop.closing
          /\ runLoop'.startupRequest = runLoop.startupRequest
      BY <1>0, <1>5 DEF StartFails, LoopStates
    <2>2. RlOK(runLoop')
      BY <1>5, <2>1 DEF StartFails, RestartInv, RlOK, OwnerOK, HandleOK
    <2>3. restartCounts' \in [BoundedEvents -> Nat]
      BY <1>5, CountFacts DEF StartFails, RestartInv, BoundedEvents
    <2> QED BY <1>5, <2>2, <2>3, LoopOnlyStep DEF StartFails, OnlyLoop, RestartInv, FlagsOK
  <1>6. CASE FailureReported
    <2>1. OwnerOK(runLoop) /\ HandleOK(runLoop) /\ runLoop.at = "failed"
      BY <1>6 DEF FailureReported, RestartInv, RlOK
    <2>2. RlOK(runLoop')
      BY <1>0, <1>6, <2>1, FlushFacts DEF FailureReported, HandleOK
    <2> QED BY <1>6, <2>2, LoopOnlyStep DEF FailureReported, OnlyLoop, RestartInv, FlagsOK
  <1> QED BY <1>1, <1>2, <1>3, <1>4, <1>5, <1>6 DEF LoopStep

\* Every step keeps the invariant.
LEMMA RestartInvStep == RestartInv /\ [RestartNext]_restartVars => RestartInv'
  <1> SUFFICES ASSUME RestartInv, [RestartNext]_restartVars PROVE RestartInv'
    OBVIOUS
  <1>1. ASSUME UNCHANGED <<restart, runLoop, intentFile, cli, restartPending, allowExternal,
                           restartCounts, restartOwed>>
        PROVE  RestartInv'
    BY <1>1 DEF RestartInv, FlagsOK, SignalsPay, CliOwes, FileNeeds
  <1>2. CASE \E d \in Dispatchers : RepliesStep(d)
    BY <1>1, <1>2 DEF RepliesStep, OnlyReplies
  <1>3. CASE UNCHANGED restartVars
    BY <1>1, <1>3 DEF restartVars
  <1>4. CASE \E poll \in DeferralPolls : PollFindsIdle(poll) \/ PollTimesOut(poll)
    <2>1. \E poll \in DeferralPolls : PollEnds(poll)
      BY <1>4 DEF PollFindsIdle, PollTimesOut
    <2> QED BY <2>1, TimerSteps
  <1>5. CASE \/ \E skip, hooks, sooner \in BOOLEAN : RestartRequested(skip, hooks, sooner)
             \/ RequestGatewayRestart \/ RestartPolicyChanges
             \/ CliWritesIntent \/ CliSignals \/ ForeignSigusr1
    BY <1>5, RequestSteps
  <1>6. CASE \/ RestartTimerFires \/ ScheduledEmission \/ ReloadEmission \/ AuthorizationExpires
             \/ IntentExpires
    BY <1>6, TimerSteps
  <1>7. CASE OnSigusr1 \/ OnSigterm \/ OnSigint
    BY <1>7, SignalSteps
  <1>8. CASE LoopStep
    BY <1>8, LoopSteps
  <1> QED BY <1>2, <1>3, <1>4, <1>5, <1>6, <1>7, <1>8 DEF RestartNext

\* The process starts with nothing scheduled and nobody waiting.
LEMMA RestartInvInit == RestartInit => RestartInv
  <1> SUFFICES ASSUME RestartInit PROVE RestartInv
    OBVIOUS
  <1>1. FlagsOK
    BY DEF RestartInit, FlagsOK
  <1>2. RsOK(restart) /\ Spare(restart) = 0
    BY DEF RestartInit, Clean, RsOK, PreparationOK, RestartStates, Spare
  <1>3. SignalsPay
    BY <1>2 DEF RestartInit, SignalsPay, CliOwes, FileNeeds
  <1>4. RlOK(runLoop)
    BY DEF RestartInit, NotListening, RlOK, LoopStates, OwnerOK, HandleOK
  <1> QED BY <1>1, <1>2, <1>3, <1>4 DEF RestartInv

\* The invariant holds in every reachable state.
THEOREM RestartInvariant == RestartSpec => []RestartInv
  BY RestartInvInit, RestartInvStep, PTL DEF RestartSpec

-----------------------------------------------------------------------------
(***************************************************************************)
(* The properties.                                                         *)
(***************************************************************************)

\* The variables of restarts keep their types.
THEOREM RestartTypes == RestartSpec => []RestartTypeOK
  <1>1. RestartInv => RestartTypeOK
    BY DEF RestartInv, FlagsOK, RsOK, RlOK, RestartTypeOK
  <1> QED BY <1>1, RestartInvariant, PTL

\* Requests are only coalesced into a restart that will be carried out: the signals on
\* their way pay for the token, polls and hooks for the preparation.
THEOREM CoalescedAreCarriedOut == RestartSpec => []CoalescingIsBacked
  <1>1. RestartInv => CoalescingIsBacked
    <2> SUFFICES ASSUME RestartInv PROVE CoalescingIsBacked
      OBVIOUS
    <2>1. restart.bodies \in Nat
      BY DEF RestartInv, RsOK, RestartStates
    <2>2. restart.unconsumed => restart.bodies > 0 \/ cli = "wrote"
      BY <2>1 DEF RestartInv, SignalsPay, Spare, CliOwes, FileNeeds
    <2>3. restart.preparing => "scheduled" \in restart.polls \/ restart.awaiting.pending > 0
      BY DEF RestartInv, RsOK, PreparationOK
    <2> QED BY <2>2, <2>3 DEF CoalescingIsBacked
  <1> QED BY <1>1, RestartInvariant, PTL

\* Signals are only ignored for a shutdown that somebody performs.
THEOREM ShutdownsArePerformed == RestartSpec => []ShutdownHasOwner
  <1>1. RestartInv => ShutdownHasOwner
    BY DEF RestartInv, RlOK, OwnerOK, ShutdownHasOwner, Alive
  <1> QED BY <1>1, RestartInvariant, PTL

-----------------------------------------------------------------------------

(***************************************************************************)
(* The reply dispatchers that a restart waits for: their idle signal is    *)
(* reliable, for any number of dispatchers and replies.                    *)
(*                                                                         *)
(* While the dispatcher is registered the reservation is counted on top of *)
(* the sends; afterwards nothing is left.  Calls of onIdle are paid for by *)
(* a send that settled or by the deferred check.                           *)
(***************************************************************************)
Checked(st) == IF st.completeCalled /\ ~st.microtask THEN 1 ELSE 0

DispatcherOK(st) ==
    /\ st \in DispatcherStates
    /\ st.sends <= st.queuedCount
    /\ st.idles + st.sends <= st.queuedCount + Checked(st)
    /\ st.microtask => st.completeCalled
    /\ ~st.created => st = NotCreated
    /\ st.registered => ~st.late
    /\ st.created /\ ~st.late /\ st.registered => st.idles = 0 /\ st.pending = st.sends + 1
    /\ st.created /\ ~st.late /\ ~st.registered =>
          st.idles = 1 /\ st.pending = 0 /\ st.sends = 0 /\ st.completeCalled

DispatchersOK ==
    /\ dispatcher \in [Dispatchers -> DispatcherStates]
    /\ \A d \in Dispatchers : DispatcherOK(dispatcher[d])

\* Announcing idleness at most counts one more call of onIdle.
LEMMA AnnouncedFacts ==
  ASSUME NEW st \in DispatcherStates, st.pending = 0 => st.idles + 1 \in 0..(MaxReplies + 1)
  PROVE  LET a == Announced(st)
         IN  /\ a \in DispatcherStates
             /\ a.created = st.created /\ a.pending = st.pending /\ a.sends = st.sends
             /\ a.queuedCount = st.queuedCount /\ a.completeCalled = st.completeCalled
             /\ a.microtask = st.microtask /\ a.late = st.late
             /\ a.registered = (st.registered /\ st.pending # 0)
             /\ a.idles = IF st.pending = 0 THEN st.idles + 1 ELSE st.idles
  BY DispatcherAssumption DEF Announced, DispatcherStates

\* A step of one dispatcher keeps it in order.
LEMMA DispatcherStepOK ==
  ASSUME DispatchersOK, NEW d \in Dispatchers, NEW next, Becomes(d, next), DispatcherOK(next)
  PROVE  DispatchersOK'
  BY DEF DispatchersOK, Becomes, DispatcherOK

\* Every operation keeps dispatchers in order.
LEMMA DispatchersStep ==
  DispatchersOK /\ [\E d \in Dispatchers : DispatcherStep(d)]_dispatcher => DispatchersOK'
  <1> SUFFICES ASSUME DispatchersOK, NEW d \in Dispatchers, DispatcherStep(d)
               PROVE  DispatchersOK'
    BY DEF DispatchersOK
  <1> USE DispatcherAssumption
  <1> DEFINE st == dispatcher[d]
  <1>0. DispatcherOK(st) /\ st \in DispatcherStates
    BY DEF DispatchersOK
  <1>a. /\ st.sends \in 0..MaxReplies /\ st.queuedCount \in 0..MaxReplies
        /\ st.idles \in 0..(MaxReplies + 1) /\ st.pending \in Int
    BY <1>0 DEF DispatcherStates
  <1>1. CASE CreateReplyDispatcher(d)
    <2> DEFINE next == [NotCreated EXCEPT !.created = TRUE, !.pending = 1, !.registered = TRUE]
    <2>1. /\ next.created /\ next.pending = 1 /\ next.sends = 0 /\ next.queuedCount = 0
          /\ ~next.completeCalled /\ ~next.microtask /\ next.registered /\ next.idles = 0
          /\ ~next.late
      BY DEF NotCreated
    <2>2. Becomes(d, next)
      BY <1>1 DEF CreateReplyDispatcher
    <2>3. NotCreated \in DispatcherStates
      BY DEF DispatcherStates, NotCreated
    <2>4. \A x \in DispatcherStates, b \in BOOLEAN, p \in Int :
            [x EXCEPT !.created = b, !.pending = p, !.registered = b] \in DispatcherStates
      BY DEF DispatcherStates
    <2>a. next \in DispatcherStates
      <3>1. 1 \in Int /\ TRUE \in BOOLEAN
        OBVIOUS
      <3> QED BY <2>3, <2>4, <3>1, Zenon
    <2> HIDE DEF next
    <2>5. DispatcherOK(next)
      BY <2>1, <2>a DEF DispatcherOK, Checked
    <2> QED BY <2>2, <2>5, DispatcherStepOK
  <1>2. CASE EnqueueReply(d)
    <2> DEFINE next == [st EXCEPT !.queuedCount = @ + 1, !.pending = @ + 1, !.sends = @ + 1,
                                  !.late = @ \/ st.pending = st.sends]
    <2>1. Becomes(d, next) /\ st.created /\ st.queuedCount < MaxReplies
      BY <1>2 DEF EnqueueReply
    <2> HIDE DEF st
    <2>2. st.sends + 1 \in 0..MaxReplies /\ st.queuedCount + 1 \in 0..MaxReplies
      BY <1>0, <1>a, <2>1 DEF DispatcherOK
    <2>3. /\ next \in DispatcherStates /\ next.created = st.created
          /\ next.pending = st.pending + 1 /\ next.sends = st.sends + 1
          /\ next.queuedCount = st.queuedCount + 1 /\ next.completeCalled = st.completeCalled
          /\ next.microtask = st.microtask /\ next.registered = st.registered
          /\ next.idles = st.idles /\ next.late = (st.late \/ st.pending = st.sends)
      <3>1. (st.late \/ st.pending = st.sends) \in BOOLEAN
        BY Zenon
      <3>2. st.pending + 1 \in Int
        BY <1>a
      <3>3. \A x \in BOOLEAN :
              LET a == [st EXCEPT !.queuedCount = st.queuedCount + 1, !.pending = st.pending + 1,
                                  !.sends = st.sends + 1, !.late = x]
              IN  /\ a \in DispatcherStates /\ a.created = st.created
                  /\ a.pending = st.pending + 1 /\ a.sends = st.sends + 1
                  /\ a.queuedCount = st.queuedCount + 1
                  /\ a.completeCalled = st.completeCalled
                  /\ a.microtask = st.microtask /\ a.registered = st.registered
                  /\ a.idles = st.idles /\ a.late = x
        BY <1>0, <2>2, <3>2 DEF DispatcherStates
      <3> QED BY <3>1, <3>3, Zenon
    <2> HIDE DEF next
    <2>4. next.sends <= next.queuedCount
      BY <1>0, <1>a, <2>3 DEF DispatcherOK
    <2>5. Checked(next) = Checked(st)
      BY <2>3 DEF Checked
    <2>6. Checked(st) \in {0, 1}
      BY DEF Checked
    <2>7. next.idles + next.sends <= next.queuedCount + Checked(next)
      BY <1>0, <1>a, <2>3, <2>5, <2>6 DEF DispatcherOK
    <2>8. CASE st.late \/ st.pending = st.sends
      <3>0. ~st.registered
        BY <1>0, <1>a, <2>1, <2>8 DEF DispatcherOK
      <3>1. DispatcherOK(next)
        BY <1>0, <2>1, <2>3, <2>4, <2>7, <2>8, <3>0 DEF DispatcherOK
      <3> QED BY <2>1, <3>1, DispatcherStepOK
    <2>9. CASE ~st.late /\ st.pending # st.sends
      <3>1. ~next.late /\ st.registered /\ st.idles = 0 /\ st.pending = st.sends + 1
        BY <1>0, <2>1, <2>3, <2>9 DEF DispatcherOK
      <3>2. next.pending = next.sends + 1
        BY <1>a, <2>3, <3>1
      <3>3. DispatcherOK(next)
        BY <1>0, <2>1, <2>3, <2>4, <2>7, <3>1, <3>2 DEF DispatcherOK
      <3> QED BY <2>1, <3>3, DispatcherStepOK
    <2> QED BY <2>8, <2>9
  <1>3. CASE SendSettles(d)
    <2> DEFINE left == st.pending - 1
               mid == [st EXCEPT !.sends = @ - 1,
                                 !.pending = IF left = 1 /\ st.completeCalled THEN 0 ELSE left]
               next == Announced(mid)
    <2>1. Becomes(d, next) /\ st.sends > 0
      BY <1>3 DEF SendSettles
    <2> HIDE DEF st
    <2>a. /\ st.sends - 1 \in 0..MaxReplies
          /\ (IF left = 1 /\ st.completeCalled THEN 0 ELSE left) \in Int
      BY <1>a, <2>1
    <2>b. \A n \in 0..MaxReplies, p \in Int :
            LET a == [st EXCEPT !.sends = n, !.pending = p]
            IN  /\ a \in DispatcherStates
                /\ a.created = st.created /\ a.pending = p /\ a.sends = n
                /\ a.queuedCount = st.queuedCount /\ a.completeCalled = st.completeCalled
                /\ a.microtask = st.microtask /\ a.registered = st.registered
                /\ a.idles = st.idles /\ a.late = st.late
      BY <1>0 DEF DispatcherStates
    <2>2. /\ mid \in DispatcherStates /\ mid.created = st.created /\ mid.sends = st.sends - 1
          /\ mid.pending = IF left = 1 /\ st.completeCalled THEN 0 ELSE left
          /\ mid.queuedCount = st.queuedCount /\ mid.completeCalled = st.completeCalled
          /\ mid.microtask = st.microtask /\ mid.registered = st.registered
          /\ mid.idles = st.idles /\ mid.late = st.late
      BY <2>a, <2>b, ZenonT(40)
    <2>3. st.idles + 1 \in 0..(MaxReplies + 1)
      BY <1>0, <1>a, <2>1 DEF DispatcherOK, Checked
    <2>4. st.created
      BY <1>0, <2>1 DEF DispatcherOK, NotCreated
    <2> HIDE DEF mid
    <2>5. /\ next \in DispatcherStates
          /\ next.created = mid.created /\ next.pending = mid.pending /\ next.sends = mid.sends
          /\ next.queuedCount = mid.queuedCount /\ next.completeCalled = mid.completeCalled
          /\ next.microtask = mid.microtask /\ next.late = mid.late
          /\ next.registered = (mid.registered /\ mid.pending # 0)
          /\ next.idles = IF mid.pending = 0 THEN mid.idles + 1 ELSE mid.idles
      BY <2>2, <2>3, AnnouncedFacts
    <2> HIDE DEF next
    <2>6. Checked(next) = Checked(st) /\ Checked(st) \in {0, 1}
      BY <2>2, <2>5 DEF Checked
    <2>7. /\ next.sends <= next.queuedCount
          /\ next.idles + next.sends <= next.queuedCount + Checked(next)
      BY <1>0, <1>a, <2>2, <2>5, <2>6 DEF DispatcherOK
    <2>8. ~st.late => st.registered /\ st.idles = 0 /\ st.pending = st.sends + 1
      BY <1>0, <1>a, <2>1, <2>4 DEF DispatcherOK
    <2>9. CASE mid.pending = 0
      <3>1. ~st.late => next.sends = 0 /\ st.completeCalled /\ next.idles = 1
        BY <1>a, <2>1, <2>2, <2>5, <2>8, <2>9
      <3>2. DispatcherOK(next)
        BY <1>0, <2>2, <2>4, <2>5, <2>7, <2>8, <2>9, <3>1 DEF DispatcherOK
      <3> QED BY <2>1, <3>2, DispatcherStepOK
    <2>10. CASE mid.pending # 0
      <3>1. ~st.late => next.pending = next.sends + 1 /\ next.idles = 0
        BY <1>a, <2>1, <2>2, <2>5, <2>8, <2>10
      <3>2. DispatcherOK(next)
        BY <1>0, <2>2, <2>4, <2>5, <2>7, <2>8, <2>10, <3>1 DEF DispatcherOK
      <3> QED BY <2>1, <3>2, DispatcherStepOK
    <2> QED BY <2>9, <2>10
  <1>4. CASE MarkComplete(d)
    <2> DEFINE next == [st EXCEPT !.completeCalled = TRUE, !.microtask = TRUE]
    <2>1. Becomes(d, next) /\ st.created /\ ~st.completeCalled
      BY <1>4 DEF MarkComplete
    <2> HIDE DEF st
    <2>2. /\ next \in DispatcherStates /\ next.created = st.created
          /\ next.pending = st.pending /\ next.sends = st.sends
          /\ next.queuedCount = st.queuedCount /\ next.completeCalled /\ next.microtask
          /\ next.registered = st.registered /\ next.idles = st.idles /\ next.late = st.late
      BY <1>0 DEF DispatcherStates
    <2> HIDE DEF next
    <2>3. DispatcherOK(next)
      BY <1>0, <1>a, <2>1, <2>2 DEF DispatcherOK, Checked
    <2> QED BY <2>1, <2>3, DispatcherStepOK
  <1>5. CASE ClearReservation(d)
    <2> DEFINE ran == [st EXCEPT !.microtask = FALSE]
               mid == [ran EXCEPT !.pending = 0]
    <2>1. /\ Becomes(d, IF ran.pending = 1 THEN Announced(mid) ELSE ran)
          /\ st.microtask
      BY <1>5 DEF ClearReservation
    <2> HIDE DEF st
    <2>2. /\ ran \in DispatcherStates /\ ran.created = st.created /\ ran.sends = st.sends
          /\ ran.pending = st.pending /\ ran.queuedCount = st.queuedCount
          /\ ran.completeCalled = st.completeCalled /\ ~ran.microtask
          /\ ran.registered = st.registered /\ ran.idles = st.idles /\ ran.late = st.late
      BY <1>0 DEF DispatcherStates
    <2>3. st.created /\ st.completeCalled
      BY <1>0, <2>1 DEF DispatcherOK, NotCreated
    <2> HIDE DEF ran
    <2>4. CASE ran.pending # 1
      <3>1. DispatcherOK(ran)
        BY <1>0, <1>a, <2>1, <2>2, <2>3, <2>4 DEF DispatcherOK, Checked
      <3> QED BY <2>1, <2>4, <3>1, DispatcherStepOK
    <2>5. CASE ran.pending = 1
      <3> DEFINE next == Announced(mid)
      <3>1. /\ mid \in DispatcherStates /\ mid.created = st.created /\ mid.sends = st.sends
            /\ mid.pending = 0 /\ mid.queuedCount = st.queuedCount
            /\ mid.completeCalled = st.completeCalled /\ ~mid.microtask
            /\ mid.registered = st.registered /\ mid.idles = st.idles /\ mid.late = st.late
        BY <2>2 DEF DispatcherStates
      <3>2. st.idles + 1 \in 0..(MaxReplies + 1)
        BY <1>0, <1>a, <2>1, <2>3 DEF DispatcherOK, Checked
      <3> HIDE DEF mid
      <3>3. /\ next \in DispatcherStates
            /\ next.created = mid.created /\ next.pending = mid.pending /\ next.sends = mid.sends
            /\ next.queuedCount = mid.queuedCount /\ next.completeCalled = mid.completeCalled
            /\ next.microtask = mid.microtask /\ next.late = mid.late
            /\ next.registered = (mid.registered /\ mid.pending # 0)
            /\ next.idles = IF mid.pending = 0 THEN mid.idles + 1 ELSE mid.idles
        BY <3>1, <3>2, AnnouncedFacts
      <3> HIDE DEF next
      <3>4. /\ next.sends <= next.queuedCount
            /\ next.idles + next.sends <= next.queuedCount + Checked(next)
        <4>1. Checked(next) = 1 /\ Checked(st) = 0
          BY <2>1, <2>3, <3>1, <3>3 DEF Checked
        <4> QED BY <1>0, <1>a, <3>1, <3>3, <4>1 DEF DispatcherOK
      <3>5. ~st.late => st.registered /\ st.idles = 0 /\ st.sends = 0
        BY <1>0, <1>a, <2>2, <2>3, <2>5 DEF DispatcherOK
      <3>6. ~next.registered /\ next.idles = st.idles + 1
        BY <3>1, <3>3
      <3>7. ~st.late => next.idles = 1
        BY <1>a, <3>5, <3>6
      <3>8. DispatcherOK(next)
        BY <2>3, <3>1, <3>3, <3>4, <3>5, <3>6, <3>7 DEF DispatcherOK
      <3> QED BY <2>1, <2>5, <3>8, DispatcherStepOK DEF next
    <2> QED BY <2>4, <2>5
  <1> QED BY <1>1, <1>2, <1>3, <1>4, <1>5 DEF DispatcherStep

\* The state of the dispatchers is in order in every reachable state.
THEOREM DispatcherInvariant == DispatcherSpec => []DispatchersOK
  <1>1. DispatcherInit => DispatchersOK
    BY DispatcherAssumption
    DEF DispatcherInit, DispatchersOK, DispatcherOK, NotCreated, DispatcherStates, Checked
  <1> QED BY <1>1, DispatchersStep, PTL DEF DispatcherSpec

\* The dispatchers keep their types; onIdle is called at most once per reply and once more.
THEOREM DispatcherTypes == DispatcherSpec => []DispatcherTypeOK
  <1>1. DispatchersOK => DispatcherTypeOK
    BY DEF DispatchersOK, DispatcherTypeOK
  <1> QED BY <1>1, DispatcherInvariant, PTL

\* onIdle is called once, after the last reply, and the registry holds the dispatcher
\* until then, unless a reply comes after the reservation was given back.
THEOREM IdleSignalIsReliable == DispatcherSpec => []IdleIsReliable
  <1>1. DispatchersOK => IdleIsReliable
    BY DEF DispatchersOK, DispatcherOK, IdleIsReliable, DispatcherStates
  <1> QED BY <1>1, DispatcherInvariant, PTL

-----------------------------------------------------------------------------
(***************************************************************************)
(* The registry's total.  It is a fold over the registered dispatchers; an *)
(* induction over a set, written as the choice of a least counterexample.  *)
(***************************************************************************)
Registered == {d \in Dispatchers : dispatcher[d].registered}

Pick(s) == CHOOSE d \in s : TRUE

\* One step of the fold, which continues with f.
AddOne(s, f) == IF s = {} THEN 0 ELSE dispatcher[Pick(s)].pending + f[s \ {Pick(s)}]

Total == CHOOSE f : f = [s \in SUBSET Registered |-> AddOne(s, f)]

Small(n) == {s \in SUBSET Registered : Cardinality(s) <= n}

\* getTotalPendingReplies is that fold.
LEMMA TotalIsFold ==
    TotalPendingReplies = Total[Registered]
  BY Zenon DEF TotalPendingReplies, MapThenSumSet, MapThenFoldSet, Total, AddOne, Pick, Registered

\* A non-empty set of naturals has a least element.
LEMMA LeastNat ==
    ASSUME NEW S \in SUBSET Nat, S # {}
    PROVE  \E x \in S : \A y \in S : x <= y
  <1>1. PICK x \in S : \A y \in S : ~(<<y, x>> \in OpToRel(<, Nat))
    BY NatLessThanWellFounded, WFMin
  <1>2. ASSUME NEW y \in S PROVE x <= y
    <2>1. <<y, x>> \notin OpToRel(<, Nat)
      BY <1>1
    <2>2. <<y, x>> \in Nat \X Nat /\ <<y, x>>[1] = y /\ <<y, x>>[2] = x
      OBVIOUS
    <2>3. ~(y < x)
      BY <2>1, <2>2, Zenon DEF OpToRel
    <2> QED BY <2>2, <2>3
  <1> QED BY <1>2

\* The set of registered dispatchers is finite, and so is what the fold leaves.
LEMMA RegisteredFinite ==
    ASSUME NEW s \in SUBSET Registered
    PROVE  /\ IsFiniteSet(s) /\ Cardinality(s) \in Nat
           /\ s # {} => /\ Pick(s) \in s /\ s \ {Pick(s)} \in SUBSET Registered
                        /\ Cardinality(s \ {Pick(s)}) = Cardinality(s) - 1
           /\ Cardinality(s) = 0 <=> s = {}
  <1>1. IsFiniteSet(Dispatchers) /\ s \subseteq Dispatchers
    BY DispatcherAssumption DEF Registered
  <1>2. IsFiniteSet(s)
    BY <1>1, FS_Subset
  <1>3. Cardinality(s) \in Nat
    BY <1>2, FS_CardinalityType
  <1>4. s # {} => Pick(s) \in s
    BY DEF Pick
  <1>5. s # {} => Cardinality(s \ {Pick(s)}) = Cardinality(s) - 1
    BY <1>2, <1>4, FS_RemoveElement
  <1>6. Cardinality(s) = 0 <=> s = {}
    BY <1>2, FS_EmptySet
  <1> QED BY <1>2, <1>3, <1>4, <1>5, <1>6

\* The fold is defined: a function that continues with itself exists.
LEMMA FoldExists ==
    \A n \in Nat : \E f : f = [s \in Small(n) |-> AddOne(s, f)]
  <1> DEFINE Bad == {n \in Nat : ~ \E f : f = [s \in Small(n) |-> AddOne(s, f)]}
  <1>1. SUFFICES ASSUME Bad # {} PROVE FALSE
    BY Zenon
  <1>2. PICK m \in Bad : \A y \in Bad : m <= y
    BY <1>1, LeastNat
  <1>3. m \in Nat /\ ~ \E f : f = [s \in Small(m) |-> AddOne(s, f)]
    BY <1>2
  <1>4. CASE m = 0
    <2> DEFINE f == [s \in Small(0) |-> 0]
    <2>1. ASSUME NEW s \in Small(0) PROVE AddOne(s, f) = 0
      <3>1. s \in SUBSET Registered /\ Cardinality(s) <= 0
        BY DEF Small
      <3>a. Cardinality(s) \in Nat /\ (Cardinality(s) = 0 <=> s = {})
        BY <3>1, RegisteredFinite, Zenon
      <3>b. Cardinality(s) = 0
        BY <3>1, <3>a
      <3>2. s = {}
        BY <3>a, <3>b, Zenon
      <3> QED BY <3>2 DEF AddOne
    <2> HIDE DEF f
    <2>2. [s \in Small(0) |-> AddOne(s, f)] = [s \in Small(0) |-> 0]
      BY <2>1
    <2>3. f = [s \in Small(0) |-> AddOne(s, f)]
      BY <2>2 DEF f
    <2> QED BY <1>3, <1>4, <2>3
  <1>5. CASE m # 0
    <2>1. m - 1 \in Nat /\ m - 1 \notin Bad
      BY <1>2, <1>3, <1>5
    <2>2. PICK g : g = [s \in Small(m - 1) |-> AddOne(s, g)]
      BY <2>1
    <2> HIDE DEF Bad
    <2> DEFINE h == [s \in Small(m) |-> AddOne(s, g)]
    <2>3. ASSUME NEW s \in Small(m) PROVE AddOne(s, h) = AddOne(s, g)
      <3>1. s \in SUBSET Registered /\ Cardinality(s) <= m
        BY DEF Small
      <3>2. CASE s = {}
        BY <3>2 DEF AddOne
      <3>3. CASE s # {}
        <4> DEFINE t == s \ {Pick(s)}
        <4>1. t \in SUBSET Registered /\ Cardinality(t) = Cardinality(s) - 1
              /\ Cardinality(s) \in Nat
          BY <3>1, <3>3, RegisteredFinite
        <4>2. t \in Small(m - 1) /\ t \in Small(m)
          BY <1>3, <3>1, <4>1 DEF Small
        <4> HIDE DEF t
        <4>3. h[t] = AddOne(t, g)
          BY <4>2
        <4>4. g[t] = AddOne(t, g)
          BY <2>2, <4>2
        <4> QED BY <3>3, <4>3, <4>4 DEF AddOne, t
      <3> QED BY <3>2, <3>3
    <2> HIDE DEF h
    <2>4. [s \in Small(m) |-> AddOne(s, h)] = [s \in Small(m) |-> AddOne(s, g)]
      BY <2>3
    <2>5. h = [s \in Small(m) |-> AddOne(s, h)]
      BY <2>4 DEF h
    <2> QED BY <1>3, <2>5
  <1> QED BY <1>4, <1>5

\* What the fold computes, from a subset with one dispatcher less.
LEMMA TotalUnfolds ==
    ASSUME NEW s \in SUBSET Registered
    PROVE  Total[s] = AddOne(s, Total)
  <1>1. Registered \in SUBSET Registered
    OBVIOUS
  <1> DEFINE n == Cardinality(Registered)
  <1>2. n \in Nat /\ IsFiniteSet(Registered)
    BY <1>1, RegisteredFinite
  <1>3. Small(n) = SUBSET Registered
    <2>1. ASSUME NEW t \in SUBSET Registered PROVE Cardinality(t) <= n
      BY <1>2, FS_Subset
    <2> QED BY <2>1 DEF Small
  <1>4. \E f : f = [t \in Small(n) |-> AddOne(t, f)]
    BY <1>2, FoldExists
  <1>5. \E f : f = [t \in SUBSET Registered |-> AddOne(t, f)]
    BY <1>3, <1>4
  <1>6. Total = [t \in SUBSET Registered |-> AddOne(t, Total)]
    BY <1>5, Zenon DEF Total
  <1> QED BY <1>6

\* A fold over counters that are all positive is zero only over the empty set.
LEMMA TotalPositive ==
    ASSUME \A d \in Registered : dispatcher[d].pending \in Nat \ {0}
    PROVE  \A s \in SUBSET Registered : Total[s] \in Nat /\ (s # {} => Total[s] > 0)
  <1> DEFINE Fine(s) == Total[s] \in Nat /\ (s # {} => Total[s] > 0)
             Bad == {n \in Nat : \E s \in SUBSET Registered : Cardinality(s) = n /\ ~Fine(s)}
  <1>1. SUFFICES ASSUME Bad # {} PROVE FALSE
    <2>1. ASSUME NEW s \in SUBSET Registered, ~Fine(s) PROVE Cardinality(s) \in Bad
      <3>1. Cardinality(s) \in Nat
        BY RegisteredFinite
      <3> HIDE DEF Fine
      <3> QED BY <2>1, <3>1
    <2> HIDE DEF Bad
    <2> QED BY <2>1
  <1>2. PICK m \in Bad : \A y \in Bad : m <= y
    BY <1>1, LeastNat
  <1>3. m \in Nat /\ \E s \in SUBSET Registered : Cardinality(s) = m /\ ~Fine(s)
    BY <1>2
  <1>4. PICK s \in SUBSET Registered : Cardinality(s) = m /\ ~Fine(s)
    BY <1>3
  <1>5. Total[s] = AddOne(s, Total)
    BY TotalUnfolds
  <1>6. CASE s = {}
    BY <1>4, <1>5, <1>6 DEF AddOne
  <1>7. CASE s # {}
    <2> DEFINE t == s \ {Pick(s)}
    <2>1. /\ Pick(s) \in s /\ t \in SUBSET Registered
          /\ Cardinality(t) = m - 1 /\ Cardinality(t) \in Nat
      <3>1. /\ Pick(s) \in s /\ t \in SUBSET Registered /\ Cardinality(t) = Cardinality(s) - 1
        BY <1>7, RegisteredFinite
      <3>2. Cardinality(t) \in Nat
        BY <3>1, RegisteredFinite
      <3> QED BY <3>1, <3>2, <1>4
    <2>2. Fine(t)
      <3>1. m - 1 \notin Bad /\ m - 1 \in Nat
        BY <1>2, <1>3, <2>1
      <3> HIDE DEF Fine, t
      <3> QED BY <2>1, <3>1
    <2>3. dispatcher[Pick(s)].pending \in Nat \ {0}
      BY <2>1
    <2> HIDE DEF t
    <2>4. Total[s] = dispatcher[Pick(s)].pending + Total[t]
      BY <1>5, <1>7 DEF AddOne, t
    <2> QED BY <1>4, <1>7, <2>2, <2>3, <2>4
  <1> QED BY <1>6, <1>7

\* getTotalPendingReplies is zero only when every dispatcher that got no reply after
\* its reservation was given back has been completed and has sent every reply: a
\* restart that waits for it does not cut one off.
THEOREM RestartsWaitForReplies == DispatcherSpec => []RestartSeesReplies
  <1>1. DispatchersOK => RestartSeesReplies
    <2> SUFFICES ASSUME DispatchersOK, TotalPendingReplies = 0,
                        NEW d \in Dispatchers, dispatcher[d].created, ~dispatcher[d].late
                 PROVE  dispatcher[d].sends = 0 /\ dispatcher[d].completeCalled
      BY DEF RestartSeesReplies
    <2>1. ASSUME NEW x \in Registered PROVE dispatcher[x].pending \in Nat \ {0}
      <3>1. DispatcherOK(dispatcher[x]) /\ dispatcher[x].registered
        BY DEF DispatchersOK, Registered
      <3>2. /\ dispatcher[x].created /\ ~dispatcher[x].late
            /\ dispatcher[x].sends \in Nat
        BY <3>1, DispatcherAssumption DEF DispatcherOK, DispatcherStates, NotCreated
      <3>3. dispatcher[x].pending = dispatcher[x].sends + 1
        BY <3>1, <3>2 DEF DispatcherOK
      <3> QED BY <3>2, <3>3
    <2>2. Total[Registered] = 0 /\ Registered \in SUBSET Registered
      BY TotalIsFold
    <2>3. Registered = {}
      BY <2>1, <2>2, TotalPositive
    <2>4. ~dispatcher[d].registered
      BY <2>3 DEF Registered
    <2> QED BY <2>4 DEF DispatchersOK, DispatcherOK
  <1> QED BY <1>1, DispatcherInvariant, PTL
=============================================================================
