--------------------------- MODULE MCCommandQueue ---------------------------
(* Small instances of CommandQueue for TLC. *)
EXTENDS CommandQueue

\* foreground, normal and background callers
AllPriorities == {-1, 0, 1}
=============================================================================
