--------------------------- MODULE FeedbackLedger ---------------------------
(***************************************************************************)
(* What the event store promises its callers, with every operation done in *)
(* one step: a prediction is recorded once and its answer never changes;   *)
(* each accepted outcome report gets the next revision of its prediction,  *)
(* is judged against the recorded answer, and replaces the report before   *)
(* it; a report or a prediction may be kept although its sender was never  *)
(* told.  Only demo records may be removed.  Module EventStore, with its   *)
(* reads, conditional writes, lost answers and crashes, implements this.   *)
(***************************************************************************)
EXTENDS Naturals, Sequences

CONSTANTS
  ApiIds,      \* identifiers of real predictions
  DemoIds,     \* identifiers of labelled demo records
  Absent,      \* no record under an identifier
  NoFeedback   \* a record nobody has reported an outcome for

VARIABLES
  ledger,      \* identifier -> Absent or [predicted, revision, feedback]
  told,        \* identifier -> the outcome reports confirmed to their senders
  confirmed    \* the predictions confirmed to their requesters

vars == <<ledger, told, confirmed>>

Ids == ApiIds \union DemoIds

Judged(actual, predicted, revision) ==
  [actual |-> actual, correct |-> actual = predicted, revision |-> revision]

Init ==
  /\ ledger = [id \in Ids |-> Absent]
  /\ told = [id \in Ids |-> <<>>]
  /\ confirmed = {}

\* A prediction enters the ledger, once, without an outcome.
Record(id) ==
  /\ ledger[id] = Absent
  /\ \E predicted \in BOOLEAN :
       ledger' = [ledger EXCEPT ![id] =
         [predicted |-> predicted, revision |-> 0, feedback |-> NoFeedback]]
  /\ \/ UNCHANGED confirmed
     \/ confirmed' = confirmed \union {id}
  /\ UNCHANGED told

\* A demo record enters the ledger, perhaps with an outcome already.
RecordDemo(id) ==
  /\ ledger[id] = Absent
  /\ \E predicted \in BOOLEAN :
       \/ ledger' = [ledger EXCEPT ![id] =
            [predicted |-> predicted, revision |-> 0, feedback |-> NoFeedback]]
       \/ \E actual \in BOOLEAN :
            ledger' = [ledger EXCEPT ![id] =
              [predicted |-> predicted, revision |-> 1,
               feedback |-> Judged(actual, predicted, 1)]]
  /\ told' = [told EXCEPT ![id] = <<>>]
  /\ UNCHANGED confirmed

\* An outcome report becomes revision `next` of its prediction.
Report(id, next) ==
  /\ ledger[id] # Absent
  /\ \E actual \in BOOLEAN :
       LET report == Judged(actual, ledger[id].predicted, next)
       IN  /\ ledger' = [ledger EXCEPT ![id] =
                [predicted |-> @.predicted, revision |-> next, feedback |-> report]]
           /\ \/ UNCHANGED told
              \/ told' = [told EXCEPT ![id] = Append(@, report)]
  /\ UNCHANGED confirmed

\* A real prediction's revisions are consecutive; a demo record's only grow.
ReportApi(id) == /\ ledger[id] # Absent
                 /\ Report(id, ledger[id].revision + 1)

ReportDemo(id) == /\ ledger[id] # Absent
                  /\ ledger'[id] # Absent
                  /\ ledger'[id].revision > ledger[id].revision
                  /\ Report(id, ledger'[id].revision)

Remove(id) ==
  /\ ledger[id] # Absent
  /\ ledger' = [ledger EXCEPT ![id] = Absent]
  /\ UNCHANGED <<told, confirmed>>

Next ==
  \/ \E id \in ApiIds : Record(id) \/ ReportApi(id)
  \/ \E id \in DemoIds : RecordDemo(id) \/ ReportDemo(id) \/ Remove(id)

Spec == Init /\ [][Next]_vars
=============================================================================
