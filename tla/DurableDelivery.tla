-------------------------- MODULE DurableDelivery --------------------------
(***************************************************************************)
(* What the outbound queue promises its callers: once a delivery has been  *)
(* intended (its file is on disk), it is eventually either visible on the  *)
(* platform, set aside in failed/ for an operator, or withdrawn by its     *)
(* sender.  It never silently disappears, and it is never forgotten.       *)
(***************************************************************************)
CONSTANT Deliveries

VARIABLE intent

Outcomes == {"delivered", "failed", "withdrawn"}

Init == intent = [e \in Deliveries |-> "none"]

\* The intent becomes durable.
Intend(e) ==
    /\ intent[e] = "none"
    /\ intent' = [intent EXCEPT ![e] = "open"]

\* An open intent gets its outcome.
Settle(e) ==
    /\ intent[e] = "open"
    /\ \E outcome \in Outcomes : intent' = [intent EXCEPT ![e] = outcome]

\* One set aside or withdrawn may be tried again; a delivered one is final.
Revise(e) ==
    /\ intent[e] \in {"failed", "withdrawn"}
    /\ \E outcome \in Outcomes : intent' = [intent EXCEPT ![e] = outcome]

Next == \E e \in Deliveries : Intend(e) \/ Settle(e) \/ Revise(e)

SafeSpec == Init /\ [][Next]_intent

Spec == SafeSpec /\ \A e \in Deliveries : WF_intent(Settle(e))
=============================================================================
