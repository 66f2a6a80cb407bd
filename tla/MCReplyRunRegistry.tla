------------------------- MODULE MCReplyRunRegistry -------------------------
(* Small instances of ReplyRunRegistry for TLC. *)
EXTENDS ReplyRunRegistry, TLC

CONSTANTS k1, k2

\* Two ids for the session that is compacted, one for the other.
MCIdsOf == (k1 :> {"id1", "id2"}) @@ (k2 :> {"id3"})

\* Operations, backends and waiters are interchangeable.
Symmetry == Permutations(Ops) \cup Permutations(Handles) \cup Permutations(Waiters)
=============================================================================
