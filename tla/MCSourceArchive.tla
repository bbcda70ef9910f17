-------------------------- MODULE MCSourceArchive --------------------------
(* Two batches that share a month; the second is prepared as v3 is, and its *)
(* last month, December, is sealed.                                         *)
EXTENDS SourceArchive, TLC

CONSTANTS v0, v3

MonthsOfBatch == (v0 :> <<1, 2>>) @@ (v3 :> <<2, 3>>)
SplitOfMonth == (v0 :> <<"train", "test", None>>) @@ (v3 :> <<None, "history", None>>)
SplitsOfBatch == (v0 :> <<"train", "test">>) @@ (v3 :> <<"history">>)
CommandsOf == [download |-> 2, prepare |-> 1]
=============================================================================
