-------------------------- MODULE MCGatewayServices --------------------------
(***************************************************************************)
(* The services of the gateway process that share no state: heartbeat      *)
(* wakes, reply dispatchers, restarts (which wait for dispatchers), exec   *)
(* approvals and the progress of SOPs.  A behaviour is one of the service  *)
(* in focus; the others do not move, so the state spaces add up instead of *)
(* multiplying.                                                            *)
(***************************************************************************)
EXTENDS HeartbeatWake, GatewayRestart, ExecApprovals, SopProgress

VARIABLE focus

services == <<wakeVars, restartVars, approvalVars, sopVars, focus>>

Init ==
    /\ WakeInit /\ RestartInit /\ ApprovalInit /\ SopInit
    /\ focus \in {"wakes", "replies", "restart", "approvals", "sop"}

\* Restarts are checked with one dispatcher and one reply, dispatchers alone with more.
FewReplies ==
    \A d \in Dispatchers : /\ dispatcher[d].created => d = CHOOSE first \in Dispatchers : TRUE
                           /\ dispatcher[d].queuedCount <= 1

OfWakes(A) == focus = "wakes" /\ A /\ UNCHANGED <<restartVars, approvalVars, sopVars, focus>>
OfReplies(A) == focus = "replies" /\ A /\ UNCHANGED <<wakeVars, approvalVars, sopVars, focus>>
OfRestart(A) == focus = "restart" /\ A /\ FewReplies'
                    /\ UNCHANGED <<wakeVars, approvalVars, sopVars, focus>>
OfApprovals(A) == focus = "approvals" /\ A /\ UNCHANGED <<wakeVars, restartVars, sopVars, focus>>
OfSop(A) == focus = "sop" /\ A /\ UNCHANGED <<wakeVars, restartVars, approvalVars, focus>>

Next ==
    \/ OfWakes(WakeNext)
    \/ \E d \in Dispatchers : OfReplies(RepliesStep(d))
    \/ OfRestart(RestartNext)
    \/ OfApprovals(ApprovalNext)
    \/ OfSop(SopNext)

\* Timers fire, handlers return and the runtime is not busy for ever.
WakeFairness ==
    /\ WF_services(OfWakes(WakeTimerFires))
    /\ \A i \in LoopIds : WF_services(OfWakes(LoopProgresses(i)))

\* Timers fire, hooks return, handlers run, the CLI goes on to its signal, starts and
\* closes end (or their force-exit timers fire), and replies are delivered.
RestartFairness ==
    /\ WF_services(OfRestart(RestartTimerFires))
    /\ \A poll \in DeferralPolls : WF_services(OfRestart(PollFindsIdle(poll)))
    /\ WF_services(OfRestart(ScheduledEmission)) /\ WF_services(OfRestart(ReloadEmission))
    /\ WF_services(OfRestart(OnSigusr1)) /\ WF_services(OfRestart(CliSignals))
    /\ WF_services(OfRestart(LoopStep))
    /\ \A d \in Dispatchers : WF_services(OfRestart(RepliesProgress(d)))

\* Timers fire, forwarders return and handlers go on after an await.
ApprovalFairness ==
    \A r \in ApprovalRequests :
        /\ WF_services(OfApprovals(ApprovalTimesOut(r)))
        /\ WF_services(OfApprovals(DeliveryEnds(r)))
        /\ WF_services(OfApprovals(RequestAnswered(r)))

Spec == Init /\ [][Next]_services /\ WakeFairness /\ RestartFairness /\ ApprovalFairness
=============================================================================
