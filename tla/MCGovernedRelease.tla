------------------------- MODULE MCGovernedRelease -------------------------
(* Two operators in one worktree, two candidates.                           *)
EXTENDS GovernedRelease, TLC

CONSTANTS o1, o2, l1, l2

Symmetry == Permutations(Operators) \union Permutations(Locks)
=============================================================================
