-------------------------- MODULE MCModelPromotion --------------------------
(* A scored and a loss-like field: both directions, ties on either.         *)
EXTENDS ModelPromotion, TLC

CONSTANTS p1, p2

TwoRules == << [field |-> "average_precision", direction |-> "maximize"],
               [field |-> "brier_score", direction |-> "minimize"] >>

Symmetry == Permutations(Promoters)

\* A run that only has its record left to write reads nothing of what it holds:
\* states that differ in that alone behave alike.
View ==
  <<registry, alias, outside,
    [p \in Promoters |-> IF attempt[p].pc \in {"moved", "audit"} THEN attempt[p].pc
                         ELSE attempt[p]]>>
=============================================================================
