--------------------------- MODULE MCV3Lifecycle ---------------------------
(* One worktree: the source's own (o1 ran it) or a fresh one.               *)
EXTENDS V3Lifecycle, TLC

CONSTANTS o1, o2, r1, r2, elsewhere

Symmetry == Permutations(Recoveries)
=============================================================================
