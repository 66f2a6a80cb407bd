--------------------------- MODULE GatewayRestart ---------------------------
(***************************************************************************)
(* Gateway restarts: requests are coalesced into one scheduled restart,    *)
(* deferred until replies are delivered, and emitted as an authorized      *)
(* SIGUSR1 that the run loop turns into close, exit or a new iteration.    *)
(* The CLI announces a restart in an intent file before it signals.        *)
(* infra/restart.ts, cli/gateway-cli/run-loop.ts,                          *)
(* gateway/server-reload-handlers.ts                                       *)
(*                                                                         *)
(* Work that defers a restart is represented by the reply dispatchers.     *)
(* Delays are left out: timers fire at some time, and whether a request is *)
(* due sooner than the scheduled one is a choice.                          *)
(***************************************************************************)
EXTENDS ReplyDispatcher

CONSTANTS
    MaxRestartRequests,  \* bound: scheduled requests, configuration changes, CLI restarts
    MaxProcessSignals,   \* bound: SIGTERM, SIGINT and foreign SIGUSR1
    MaxStartFailures, MaxExpiries   \* bounds: failed starts; expired authorizations, intents

ASSUME RestartAssumption ==
    /\ MaxRestartRequests \in Nat /\ MaxProcessSignals \in Nat
    /\ MaxStartFailures \in Nat /\ MaxExpiries \in Nat

VARIABLES
    restart,      \* module state of infra/restart.ts
    runLoop,      \* closure state of runGatewayLoop
    intentFile,   \* the restart intent is on disk
    cli,          \* "wrote" between the intent and the signal of a CLI restart
    restartPending,   \* the reload handler's flag
    allowExternal,    \* setGatewaySigusr1RestartPolicy
    restartCounts,    \* how often each bounded event happened
    restartOwed   \* observed: whether a restart was asked for, or may be refused, in this iteration

restartVars == <<restart, runLoop, intentFile, cli, restartPending, allowExternal, restartCounts,
                 restartOwed, dispatcher>>

BoundedEvents == {"requests", "signals", "failures", "expiries"}
DeferralPolls == {"scheduled", "reload"}

Clean ==
    [timer |-> FALSE, skipDeferral |-> FALSE, preparing |-> FALSE, emitHooks |-> FALSE,
     polls |-> {},
     awaiting |-> [pending |-> 0, own |-> 0],  \* emitPreparedGatewayRestart calls in beforeEmit
     unconsumed |-> FALSE,       \* emittedRestartToken > consumedRestartToken
     authorized |-> 0,
     bodies |-> 0]               \* onSigusr1 bodies that await the module

NotListening ==
    [at |-> "starting", server |-> FALSE, shuttingDown |-> FALSE, closing |-> "none",
     startupRequest |-> FALSE, startupFailed |-> FALSE, firstStart |-> TRUE]

RestartStates ==
    [timer : BOOLEAN, skipDeferral : BOOLEAN, preparing : BOOLEAN, emitHooks : BOOLEAN,
     polls : SUBSET DeferralPolls, awaiting : [pending : Nat, own : Nat],
     unconsumed : BOOLEAN, authorized : Nat, bodies : Nat]

LoopStates ==
    [at : {"iterating", "starting", "failed", "waiting", "exited"}, server : BOOLEAN,
     shuttingDown : BOOLEAN, closing : {"none", "restart", "stop"},
     startupRequest : BOOLEAN, startupFailed : BOOLEAN, firstStart : BOOLEAN]

RestartTypeOK ==
    /\ restart \in RestartStates /\ runLoop \in LoopStates
    /\ intentFile \in BOOLEAN /\ cli \in {"idle", "wrote"} /\ restartPending \in BOOLEAN
    /\ allowExternal \in BOOLEAN /\ restartOwed \in {"no", "asked", "refused"}
    /\ restartCounts \in [BoundedEvents -> Nat]

RestartInit ==
    /\ restart = Clean /\ runLoop = NotListening
    /\ intentFile = FALSE /\ cli = "idle" /\ restartPending = FALSE
    /\ allowExternal = FALSE
    /\ restartCounts = [event \in BoundedEvents |-> 0]
    /\ restartOwed = "no"
    /\ DispatcherInit

CountRestart(event, bound) ==
    /\ restartCounts[event] < bound
    /\ restartCounts' = [restartCounts EXCEPT ![event] = @ + 1]

Alive == runLoop.at # "exited"

-----------------------------------------------------------------------------
(***************************************************************************)
(* infra/restart.ts: the state rs after a call.                            *)
(***************************************************************************)

\* Mutation: the preparing flag survives.
ForgetsPreparing(rs) ==
    [rs EXCEPT !.timer = FALSE, !.skipDeferral = FALSE, !.emitHooks = FALSE]

ClearPendingScheduledRestart(rs) ==
    [rs EXCEPT !.timer = FALSE, !.skipDeferral = FALSE, !.emitHooks = FALSE, !.preparing = FALSE]

\* resetGatewayRestartStateForInProcessRestart, also the first half of an emission.
Discarded(rs) == ClearPendingScheduledRestart([rs EXCEPT !.polls = {}])

\* With the run loop's listener installed.
EmitGatewayRestart(rs) ==
    LET clear == Discarded(rs)
    IN  IF rs.unconsumed THEN clear
        ELSE [clear EXCEPT !.unconsumed = TRUE, !.authorized = @ + 1, !.bodies = @ + 1]

\* emitPreparedGatewayRestart on the hooks of the scheduled restart, up to its first
\* await: an emission without hooks is immediate.
EmitPrepared(rs) ==
    IF rs.emitHooks THEN [rs EXCEPT !.emitHooks = FALSE, !.awaiting.pending = @ + 1]
    ELSE EmitGatewayRestart(rs)

\* The same call with the hooks of the reload handler.
EmitOwn(rs) == [rs EXCEPT !.awaiting.own = @ + 1]

Emission(rs, poll) == IF poll = "scheduled" THEN EmitPrepared(rs) ELSE EmitOwn(rs)

DeferGatewayRestartUntilIdle(rs, poll) ==
    IF TotalPendingReplies <= 0 THEN Emission(rs, poll)
    ELSE [rs EXCEPT !.polls = @ \cup {poll}]

\* A request joins the restart in flight or scheduled, ends its deferral, or
\* replaces it by an earlier one.
ScheduleGatewaySigusr1Restart(rs, skip, hooks, sooner) ==
    LET scheduled == ~rs.unconsumed /\ (rs.timer \/ rs.preparing)
        bypasses == scheduled /\ rs.preparing /\ skip /\ rs.polls # {}
        pullsEarlier == scheduled /\ ~rs.preparing /\ (sooner \/ (skip /\ ~rs.skipDeferral))
    IN  CASE rs.unconsumed -> rs
          [] bypasses -> EmitPrepared([rs EXCEPT !.polls = {}, !.emitHooks = hooks])
          [] scheduled /\ ~bypasses /\ ~pullsEarlier ->
                [rs EXCEPT !.skipDeferral = @ \/ skip, !.emitHooks = @ \/ hooks]
          [] OTHER -> [ClearPendingScheduledRestart(rs) EXCEPT
                          !.timer = TRUE, !.skipDeferral = skip, !.emitHooks = hooks]

-----------------------------------------------------------------------------
(***************************************************************************)
(* run-loop.ts: the state rl after a call.                                 *)
(***************************************************************************)

\* runAcceptedRequest up to the end of server.close.
RunAcceptedRequest(rl, action) == [rl EXCEPT !.closing = action]

RequestStop(rl) ==
    CASE ~rl.shuttingDown -> RunAcceptedRequest([rl EXCEPT !.shuttingDown = TRUE], "stop")
      [] rl.shuttingDown /\ rl.startupRequest /\ ~rl.server ->
            RunAcceptedRequest([rl EXCEPT !.startupRequest = FALSE, !.startupFailed = FALSE], "stop")
      [] OTHER -> rl

RequestRestart(rl) ==
    LET accepted == [rl EXCEPT !.shuttingDown = TRUE]
    IN  CASE rl.shuttingDown -> rl
          [] ~rl.shuttingDown /\ rl.at = "waiting" /\ ~rl.server /\ rl.startupFailed ->
                RunAcceptedRequest([accepted EXCEPT !.startupFailed = FALSE], "restart")
          [] ~rl.shuttingDown /\ rl.at = "waiting" /\ rl.server ->
                RunAcceptedRequest(accepted, "restart")
          [] OTHER -> [accepted EXCEPT !.startupRequest = TRUE]

\* Mutation: a request made during the start is forgotten.
FlushForgets(rl) == [rl EXCEPT !.at = "waiting", !.startupRequest = FALSE]

\* restartResolver is set and flushPendingStartupRequest is called, with a server or
\* after a failed start.
FlushPendingStartupRequest(rl) ==
    LET waiting == [rl EXCEPT !.at = "waiting"]
    IN  IF ~rl.startupRequest THEN waiting
        ELSE RunAcceptedRequest([waiting EXCEPT !.startupRequest = FALSE, !.startupFailed = FALSE],
                                "restart")

-----------------------------------------------------------------------------
(***************************************************************************)
(* Requests.                                                               *)
(***************************************************************************)

Asked == IF restartOwed = "refused" THEN "refused" ELSE "asked"

Serving == runLoop.server \/ runLoop.at = "starting"

\* An RPC, a tool or an update asks for a restart.
RestartRequested(skip, hooks, sooner) ==
    /\ Alive /\ Serving
    /\ CountRestart("requests", MaxRestartRequests)
    /\ restart' = ScheduleGatewaySigusr1Restart(restart, skip, hooks, sooner)
    /\ restartOwed' = Asked
    /\ UNCHANGED <<runLoop, intentFile, cli, restartPending, allowExternal, dispatcher>>

\* requestGatewayRestart: a configuration change that needs a restart; it may change the
\* restart policy as well.
RequestGatewayRestart ==
    /\ Alive /\ runLoop.server
    /\ CountRestart("requests", MaxRestartRequests)
    /\ restart' = CASE TotalPendingReplies = 0 -> EmitGatewayRestart(restart)
                    [] TotalPendingReplies > 0 /\ restartPending -> restart
                    [] OTHER -> DeferGatewayRestartUntilIdle(restart, "reload")
    /\ restartPending' = (restartPending \/ TotalPendingReplies > 0)
    /\ allowExternal' \in BOOLEAN
    /\ restartOwed' = Asked
    /\ UNCHANGED <<runLoop, intentFile, cli, dispatcher>>

\* A start or a hot reload applies the configuration's restart policy.
RestartPolicyChanges ==
    /\ Alive /\ Serving
    /\ allowExternal' = ~allowExternal
    /\ UNCHANGED <<restart, runLoop, intentFile, cli, restartPending, restartCounts, restartOwed,
                   dispatcher>>

\* restartGatewayWithoutServiceManager; it refuses unless restarts are enabled.
CliWritesIntent ==
    /\ Alive /\ runLoop.server /\ allowExternal /\ cli = "idle"
    /\ CountRestart("requests", MaxRestartRequests)
    /\ intentFile' = TRUE /\ cli' = "wrote" /\ restartOwed' = Asked
    /\ UNCHANGED <<restart, runLoop, restartPending, allowExternal, dispatcher>>

CliSignals ==
    /\ Alive /\ cli = "wrote"
    /\ cli' = "idle"
    /\ restart' = [restart EXCEPT !.bodies = @ + 1]
    /\ UNCHANGED <<runLoop, intentFile, restartPending, allowExternal, restartCounts,
                   restartOwed, dispatcher>>

\* Somebody else sends SIGUSR1.
ForeignSigusr1 ==
    /\ Alive /\ CountRestart("signals", MaxProcessSignals)
    /\ restart' = [restart EXCEPT !.bodies = @ + 1]
    /\ UNCHANGED <<runLoop, intentFile, cli, restartPending, allowExternal, restartOwed, dispatcher>>

-----------------------------------------------------------------------------
(***************************************************************************)
(* Timers, polls and prepared emissions.                                   *)
(***************************************************************************)

OnlyRestart ==
    UNCHANGED <<runLoop, intentFile, cli, allowExternal, restartCounts, restartOwed, dispatcher>>

RestartTimerFires ==
    LET due == [restart EXCEPT !.timer = FALSE, !.skipDeferral = FALSE, !.preparing = TRUE]
    IN  /\ Alive /\ restart.timer
        /\ restart' = IF restart.skipDeferral THEN EmitPrepared(due)
                      ELSE DeferGatewayRestartUntilIdle(due, "scheduled")
        /\ OnlyRestart /\ UNCHANGED restartPending

\* A poll ends: its emission begins and the reload handler drops its flag.
PollEnds(poll) ==
    /\ Alive /\ poll \in restart.polls
    /\ restart' = Emission([restart EXCEPT !.polls = @ \ {poll}], poll)
    /\ restartPending' = (restartPending /\ poll # "reload")
    /\ OnlyRestart

PollFindsIdle(poll) == TotalPendingReplies <= 0 /\ PollEnds(poll)

\* maxWaitMs is over.
PollTimesOut(poll) == TotalPendingReplies > 0 /\ PollEnds(poll)

\* beforeEmit has returned or failed; hooks that were replaced meanwhile run as well.
ScheduledEmission ==
    LET returned == [restart EXCEPT !.awaiting.pending = @ - 1]
    IN  /\ Alive /\ restart.awaiting.pending > 0
        /\ restart' = EmitPrepared(returned)
        /\ OnlyRestart /\ UNCHANGED restartPending

ReloadEmission ==
    LET returned == [restart EXCEPT !.awaiting.own = @ - 1]
    IN  /\ Alive /\ restart.awaiting.own > 0
        /\ restart' = EmitGatewayRestart(returned)
        /\ OnlyRestart /\ UNCHANGED restartPending

\* resetSigusr1AuthorizationIfExpired.
AuthorizationExpires ==
    /\ Alive /\ restart.authorized > 0
    /\ CountRestart("expiries", MaxExpiries)
    /\ restart' = [restart EXCEPT !.authorized = 0]
    /\ UNCHANGED <<runLoop, intentFile, cli, restartPending, allowExternal, restartOwed, dispatcher>>

\* consumeGatewayRestartIntentPayloadSync ignores an intent that is too old: the signal
\* that finds it counts as one without an intent, and the request may be refused.
IntentExpires ==
    /\ Alive /\ intentFile
    /\ CountRestart("expiries", MaxExpiries)
    /\ intentFile' = FALSE /\ restartOwed' = "refused"
    /\ UNCHANGED <<restart, runLoop, cli, restartPending, allowExternal, dispatcher>>

-----------------------------------------------------------------------------
(***************************************************************************)
(* Signal handlers.                                                        *)
(***************************************************************************)

\* The answer of consumeGatewaySigusr1RestartAuthorization.
IsAuthorized(rs) == rs.authorized > 0

\* Mutation: an unauthorized signal leaves the token of the cycle it interrupted.
UnauthorizedKeepsToken(rs) ==
    IF allowExternal /\ ~runLoop.shuttingDown
    THEN {ScheduleGatewaySigusr1Restart(rs, FALSE, FALSE, sooner) : sooner \in BOOLEAN}
    ELSE {rs}

\* The body of onSigusr1 without an authorization.
HandledUnauthorized(rs) ==
    LET handled == [rs EXCEPT !.unconsumed = FALSE]
    IN  IF allowExternal /\ ~runLoop.shuttingDown
        THEN {ScheduleGatewaySigusr1Restart(handled, FALSE, FALSE, sooner) : sooner \in BOOLEAN}
        ELSE {handled}

\* onSigusr1, once the lifecycle module is loaded: an intent comes first and leaves
\* the authorization and the token to the signal that follows it.  An emission whose
\* authorization has expired is refused where external restarts are not allowed.
\* The intent's pid is this process's, because the model ends with the process.  The
\* .catch of the body is left out: the module is loaded before the listeners are
\* installed (eagerLifecycleRuntime), and the calls of the body catch their file errors.
OnSigusr1 ==
    LET taken == [restart EXCEPT !.bodies = @ - 1]
    IN  /\ Alive /\ restart.bodies > 0
        /\ intentFile' = FALSE
        /\ \/ /\ intentFile
              /\ restart' = taken
              /\ runLoop' = RequestRestart(runLoop)
              /\ UNCHANGED restartOwed
           \/ /\ ~intentFile /\ IsAuthorized(restart)
              /\ restart' = [taken EXCEPT !.authorized = @ - 1, !.unconsumed = FALSE]
              /\ runLoop' = RequestRestart(runLoop)
              /\ UNCHANGED restartOwed
           \/ /\ ~intentFile /\ ~IsAuthorized(restart)
              /\ restart' \in HandledUnauthorized(taken)
              /\ restartOwed' = IF restart.unconsumed /\ ~allowExternal THEN "refused" ELSE restartOwed
              /\ UNCHANGED runLoop
        /\ UNCHANGED <<cli, restartPending, allowExternal, restartCounts, dispatcher>>

\* onSigterm: a restart if an intent is there.
OnSigterm ==
    /\ Alive /\ CountRestart("signals", MaxProcessSignals)
    /\ intentFile' = FALSE
    /\ runLoop' = IF intentFile THEN RequestRestart(runLoop) ELSE RequestStop(runLoop)
    /\ UNCHANGED <<restart, cli, restartPending, allowExternal, restartOwed, dispatcher>>

OnSigint ==
    /\ Alive /\ CountRestart("signals", MaxProcessSignals)
    /\ runLoop' = RequestStop(runLoop)
    /\ UNCHANGED <<restart, intentFile, cli, restartPending, allowExternal, restartOwed, dispatcher>>

-----------------------------------------------------------------------------
(***************************************************************************)
(* The loop.                                                               *)
(***************************************************************************)

OnlyLoop == UNCHANGED <<intentFile, cli, allowExternal, dispatcher>>

\* handleRestartAfterServerClose without a new process.
RestartsInProcess ==
    /\ Alive /\ runLoop.closing = "restart"
    /\ runLoop' = [runLoop EXCEPT !.closing = "none", !.server = FALSE, !.shuttingDown = FALSE,
                                  !.at = "iterating"]
    /\ OnlyLoop /\ UNCHANGED <<restart, restartPending, restartCounts, restartOwed>>

\* The process ends: stopped, handed over to a new process, or forced out because
\* a close or a start with a restart pending took too long.
ProcessExits ==
    /\ Alive
    /\ runLoop.closing # "none" \/ runLoop.startupRequest
    /\ runLoop' = [runLoop EXCEPT !.at = "exited", !.server = FALSE]
    /\ OnlyLoop /\ UNCHANGED <<restart, restartPending, restartCounts, restartOwed>>

\* onIteration of a restart.
NextIteration ==
    /\ runLoop.at = "iterating"
    /\ runLoop' = [runLoop EXCEPT !.at = "starting"]
    /\ restart' = Discarded(restart)
    /\ restartOwed' = "no"
    /\ OnlyLoop /\ UNCHANGED <<restartPending, restartCounts>>

\* The server gets a reload handler of its own.
StartSucceeds ==
    /\ runLoop.at = "starting"
    /\ runLoop' = FlushPendingStartupRequest(
          [runLoop EXCEPT !.server = TRUE, !.startupFailed = FALSE, !.firstStart = FALSE])
    /\ restartPending' = FALSE
    /\ OnlyLoop /\ UNCHANGED <<restart, restartCounts, restartOwed>>

\* The first start reports its error and ends the process; later ones stay alive,
\* and report before they wait.
StartFails ==
    /\ runLoop.at = "starting" /\ CountRestart("failures", MaxStartFailures)
    /\ runLoop' = [runLoop EXCEPT !.at = IF runLoop.firstStart THEN "exited" ELSE "failed",
                                  !.startupFailed = ~runLoop.firstStart]
    /\ OnlyLoop /\ UNCHANGED <<restart, restartPending, restartOwed>>

FailureReported ==
    /\ runLoop.at = "failed"
    /\ runLoop' = FlushPendingStartupRequest(runLoop)
    /\ OnlyLoop /\ UNCHANGED <<restart, restartPending, restartCounts, restartOwed>>

LoopStep ==
    \/ RestartsInProcess \/ ProcessExits \/ NextIteration
    \/ StartSucceeds \/ StartFails \/ FailureReported

OnlyReplies ==
    UNCHANGED <<restart, runLoop, intentFile, cli, restartPending, allowExternal, restartCounts,
                restartOwed>>

RepliesStep(d) == Alive /\ DispatcherStep(d) /\ OnlyReplies
RepliesProgress(d) == Alive /\ DispatcherProgress(d) /\ OnlyReplies

RestartNext ==
    \/ \E skip, hooks, sooner \in BOOLEAN : RestartRequested(skip, hooks, sooner)
    \/ RequestGatewayRestart \/ RestartPolicyChanges
    \/ CliWritesIntent \/ CliSignals \/ ForeignSigusr1
    \/ RestartTimerFires
    \/ \E poll \in DeferralPolls : PollFindsIdle(poll) \/ PollTimesOut(poll)
    \/ ScheduledEmission \/ ReloadEmission \/ AuthorizationExpires \/ IntentExpires
    \/ OnSigusr1 \/ OnSigterm \/ OnSigint
    \/ LoopStep
    \/ \E d \in Dispatchers : RepliesStep(d)

RestartSpec == RestartInit /\ [][RestartNext]_restartVars

-----------------------------------------------------------------------------
(***************************************************************************)
(* Properties.                                                             *)
(***************************************************************************)

\* A request is only coalesced into a restart that is really on its way: an
\* unconsumed token has a handler body that will run, and a restart in preparation
\* has a poll or an emission that will end it.
CoalescingIsBacked ==
    /\ restart.unconsumed => restart.bodies > 0 \/ cli = "wrote"
    /\ restart.preparing => "scheduled" \in restart.polls \/ restart.awaiting.pending > 0

\* While signals are ignored as "during shutdown" somebody is closing the server or
\* will do so when the start ends, and a restart is only closed for a waiting loop.
ShutdownHasOwner ==
    /\ Alive /\ runLoop.shuttingDown =>
          runLoop.closing # "none" \/ (runLoop.startupRequest /\ runLoop.at # "waiting")
    /\ Alive /\ runLoop.closing = "restart" => runLoop.at = "waiting"

\* Every request leads to a new iteration or to the end of the process, whatever it was
\* coalesced with, through deferral, expired authorizations, changes of policy, foreign
\* signals, requests during a start and failed starts, unless an emission is refused or
\* the intent of the CLI has expired.
RequestsEventuallyRestart ==
    restartOwed = "asked" ~> restartOwed # "asked" \/ runLoop.at = "exited"
=============================================================================
