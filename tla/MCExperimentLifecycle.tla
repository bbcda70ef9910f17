----------------------- MODULE MCExperimentLifecycle -----------------------
(* Two operators in one worktree that is of v1 or of v2.                    *)
EXTENDS ExperimentLifecycle, TLC

CONSTANTS o1, o2

Merged(code) == [code |-> code, clean |-> TRUE, main |-> TRUE, protocol |-> TRUE,
                 isolated |-> TRUE, preserved |-> TRUE]

\* Two commits of main, a branch, and a state in which nothing may run.
Trees == {Merged(1), Merged(2), [Merged(3) EXCEPT !.main = FALSE], [Merged(2) EXCEPT !.clean = FALSE]}

Symmetry == Permutations(Operators)
=============================================================================
