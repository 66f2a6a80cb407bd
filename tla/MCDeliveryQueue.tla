--------------------------- MODULE MCDeliveryQueue ---------------------------
(***************************************************************************)
(* Small instances of DeliveryQueue.                                       *)
(***************************************************************************)
EXTENDS DeliveryQueue, TLC

CONSTANTS e1, d1

MCDeliveries == {e1}
MCDrains == {d1}

\* Throwing calls of either queue policy, with and without reconciliation.
MCThrowing == SUBSET {"required", "reconcilable"}

\* A call of the live reply path: best effort throughout.
MCBestEffort == {{"bestEffort", "reconcilable"}}

\* A call of the durable path on a channel that reconciles.
MCDurable == {{"required", "reconcilable"}}
=============================================================================
