------------------------ MODULE SealedQualification ------------------------
(***************************************************************************)
(* What the v3 lifecycle promises about December 2025: it stays sealed     *)
(* until one November winner is frozen, the winner never changes after     *)
(* that, and December is opened at most once, for that winner.             *)
(***************************************************************************)
CONSTANTS
  Runs,    \* the campaigns that may produce a winner
  None

VARIABLES
  winner,  \* the run whose winner is frozen, or None
  opened   \* the runs December was opened for, in order

vars == <<winner, opened>>

Init == winner = None /\ opened = <<>>

Freeze == winner = None /\ winner' \in Runs /\ UNCHANGED opened

Open == winner # None /\ opened = <<>> /\ opened' = <<winner>> /\ UNCHANGED winner

Next == Freeze \/ Open

Spec == Init /\ [][Next]_vars
=============================================================================
