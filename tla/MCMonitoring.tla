---------------------------- MODULE MCMonitoring ----------------------------
(* A traffic run of two requests on the second day of the window, pages of one *)
(* item, two versions of which v10 sorts before v9, and a scan limit that the  *)
(* table outgrows.  The window of three days is refused.                       *)
EXTENDS Monitoring, TLC

CONSTANTS s1, v9, v10

SecondDay == <<2, 2>>
TwoWindows == {[first |-> 1, last |-> 2], [first |-> 1, last |-> 3]}
Lexicographic == (v9 :> 2) @@ (v10 :> 1)
=============================================================================
