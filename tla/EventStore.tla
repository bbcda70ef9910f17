----------------------------- MODULE EventStore -----------------------------
(***************************************************************************)
(* The DynamoDB table flight-delay-events and the processes that write to  *)
(* it: API replicas (POST /predict, POST /feedback), Monitor UI sessions   *)
(* (the adjudication form), and the script that seeds and cleans up one    *)
(* labelled demo batch.                                                    *)
(*                                                                         *)
(* The API handlers are coroutines without an await around synchronous     *)
(* boto3 calls, so one replica runs one handler at a time; replicas,       *)
(* sessions and scripts interleave between their DynamoDB calls, which is  *)
(* the grain of the actions here.  boto3 re-sends a request whose answer   *)
(* is lost: a conditional write may thus be applied by one attempt and     *)
(* refused in the next.                                                    *)
(***************************************************************************)
EXTENDS Naturals, Sequences

CONSTANTS
  ApiIds,       \* uuid4 identifiers a replica may draw
  Replicas,     \* API processes
  Sessions,     \* Monitor UI sessions
  Scripts,      \* runs of scripts/seed_demo_events.py on the one batch
  DemoOrder,    \* the batch's uuid5 identifiers in seeding order
  DemoAnswer,   \* demo identifier -> [predicted, labelled, actual], deterministic
  MaxRevision,  \* bound: a record at this revision gets no further report
  Absent,       \* no item under a key
  NoFeedback,   \* the item's feedback is null
  Missing       \* an attribute the item does not have

DemoIds == {DemoOrder[i] : i \in 1..Len(DemoOrder)}
Ids     == ApiIds \union DemoIds
Writers == Replicas \union Sessions

Feedback == [actual : BOOLEAN, correct : BOOLEAN, revision : Nat]

\* An item: its answer, the attribute feedback_revision (0 stands for "not
\* there": the code never stores a zero), feedback, and demo_batch_id.
Item == [predicted : BOOLEAN \union {Missing}, revision : Nat,
         feedback : Feedback \union {NoFeedback}, demo : BOOLEAN]

\* What the ledger says of an item: all but the demo label.
PublicItem == [predicted : BOOLEAN \union {Missing}, revision : Nat,
               feedback : Feedback \union {NoFeedback}]

ASSUME StoreAssumption ==
  /\ ApiIds \intersect DemoIds = {}
  /\ Replicas \intersect Sessions = {}
  /\ DemoOrder \in Seq(DemoIds)
  /\ \A i, j \in 1..Len(DemoOrder) : DemoOrder[i] = DemoOrder[j] => i = j
  /\ DemoAnswer \in [DemoIds -> [predicted : BOOLEAN, labelled : BOOLEAN, actual : BOOLEAN]]
  /\ MaxRevision \in Nat
  /\ Missing \notin BOOLEAN
  /\ Absent \notin Item
  /\ Absent \notin PublicItem
  /\ NoFeedback \notin Feedback

VARIABLES
  table,      \* key -> Item or Absent
  call,       \* writer -> the request it is serving
  script,     \* demo script -> its progress
  told,       \* history: key -> feedback confirmed for the item now or last there
  confirmed   \* history: the predictions answered with 200

vars == <<table, call, script, told, confirmed>>

(***************************************************************************)
(* A call: its step, its key, the class predicted (in a /predict) or       *)
(* observed (in a feedback), the verdict on it, the revision it expects to *)
(* replace.                                                                *)
(***************************************************************************)
Call   == [pc : {"idle", "put", "get", "reread", "update"}, id : Ids \union {Absent},
           class : BOOLEAN, correct : BOOLEAN, expected : Nat]

Begun(pc, id, class) ==
  [pc |-> pc, id |-> id, class |-> class, correct |-> FALSE, expected |-> 0]

Ended == [pc |-> "idle", id |-> Absent, class |-> FALSE, correct |-> FALSE, expected |-> 0]

\* The call of w is over; its sender has an answer, or knows it gets none.
End(w) == call' = [call EXCEPT ![w] = Ended]

Script == [pc : {"idle", "seed", "scan", "delete"}, next : Nat, count : Nat,
           unscanned : SUBSET Ids, found : SUBSET Ids]

Stopped == [pc |-> "idle", next |-> 0, count |-> 0, unscanned |-> {}, found |-> {}]

Init ==
  /\ table = [id \in Ids |-> Absent]
  /\ call = [w \in Writers |-> Ended]
  /\ script = [s \in Scripts |-> Stopped]
  /\ told = [id \in Ids |-> <<>>]
  /\ confirmed = {}

-----------------------------------------------------------------------------
(* The conditional writes, evaluated by DynamoDB on the item as it is then. *)

\* attribute_not_exists(pk)
PutAllowed(id) == table[id] = Absent

\* Mutants: the revision is not compared; the item need not exist.
UpdateAllowedAnyRevision(id, expected) == table[id] # Absent
UpdateAllowedNoItem(id, expected) ==
  \/ table[id] = Absent
  \/ table[id].revision \in {0, expected}

\* attribute_exists(pk) AND
\*   (attribute_not_exists(feedback_revision) OR feedback_revision = :expected)
UpdateAllowed(id, expected) ==
  /\ table[id] # Absent
  /\ \/ table[id].revision = 0
     \/ table[id].revision = expected

\* demo_batch_id = :batch
DeleteAllowed(id) == /\ table[id] # Absent
                     /\ table[id].demo

\* Mutant: the counter attribute is not written.
RevisedWithoutCounter(item, report) ==
  IF item = Absent THEN Absent ELSE [item EXCEPT !.feedback = report]

\* SET feedback, feedback_revision.  UpdateItem on a missing key would make an
\* item that has these two attributes only.
Revised(item, report) ==
  IF item = Absent
    THEN [predicted |-> Missing, revision |-> report.revision,
          feedback |-> report, demo |-> FALSE]
    ELSE [item EXCEPT !.revision = report.revision, !.feedback = report]

-----------------------------------------------------------------------------
(* POST /predict: one conditional put under a fresh identifier.             *)

PredictionItem(predicted) ==
  [predicted |-> predicted, revision |-> 0, feedback |-> NoFeedback, demo |-> FALSE]

\* Any identifier, used or not: put_prediction is written for a collision too.
StartPredict(w) ==
  /\ call[w].pc = "idle"
  /\ \E id \in ApiIds, predicted \in BOOLEAN :
       call' = [call EXCEPT ![w] = Begun("put", id, predicted)]
  /\ UNCHANGED <<table, script, told, confirmed>>

PutPrediction(w) ==
  /\ call[w].pc = "put"
  /\ LET id == call[w].id IN
     \/ /\ PutAllowed(id)
        /\ table' = [table EXCEPT ![id] = PredictionItem(call[w].class)]
        /\ \/ /\ confirmed' = confirmed \union {id}      \* 200
              /\ End(w)
           \/ UNCHANGED <<call, confirmed>>               \* answer lost: sent again
     \/ /\ ~PutAllowed(id)                               \* PersistenceConflict: 409
        /\ End(w)
        /\ UNCHANGED <<table, confirmed>>
  /\ UNCHANGED <<script, told>>

-----------------------------------------------------------------------------
(* POST /feedback and the Monitor's adjudication form: read the prediction *)
(* and judge it; in update_feedback read it again for its revision; write  *)
(* the next revision if no other writer came first.                        *)

StartFeedback(w) ==
  /\ call[w].pc = "idle"
  /\ \E id \in Ids, actual \in BOOLEAN :
       call' = [call EXCEPT ![w] = Begun("get", id, actual)]
  /\ UNCHANGED <<table, script, told, confirmed>>

GetPrediction(w) ==
  /\ call[w].pc = "get"
  /\ LET item == table[call[w].id] IN
     \/ /\ item = Absent
        /\ End(w)
     \/ /\ item # Absent
        /\ call' = [call EXCEPT ![w].pc = "reread",
                                ![w].correct = (call[w].class = item.predicted)]
  /\ UNCHANGED <<table, script, told, confirmed>>

ReadRevision(w) ==
  /\ call[w].pc = "reread"
  /\ LET item == table[call[w].id] IN
     \/ /\ item = Absent
        /\ End(w)
     \/ /\ item # Absent
        /\ item.revision < MaxRevision
        /\ call' = [call EXCEPT ![w].pc = "update", ![w].expected = item.revision]
  /\ UNCHANGED <<table, script, told, confirmed>>

Report(c) == [actual |-> c.class, correct |-> c.correct, revision |-> c.expected + 1]

UpdateFeedback(w) ==
  /\ call[w].pc = "update"
  /\ LET id == call[w].id
         report == Report(call[w]) IN
     \/ /\ UpdateAllowed(id, call[w].expected)
        /\ table' = [table EXCEPT ![id] = Revised(@, report)]
        /\ \/ /\ told' = [told EXCEPT ![id] = Append(@, report)]
              /\ End(w)
           \/ UNCHANGED <<call, told>>                    \* answer lost: sent again
     \/ /\ ~UpdateAllowed(id, call[w].expected)             \* PersistenceConflict: 409
        /\ End(w)
        /\ UNCHANGED <<table, told>>
  /\ UNCHANGED <<script, confirmed>>

\* Mutant: put_prediction swallows errors, as put_error does.
GiveUpSilently(w) ==
  /\ call[w].pc # "idle"
  /\ End(w)
  /\ confirmed' = IF call[w].pc = "put" THEN confirmed \union {call[w].id} ELSE confirmed
  /\ UNCHANGED <<table, script, told>>

\* boto3 gives up, DynamoDB refuses, or the process dies: 503, 500 or no answer.
GiveUp(w) ==
  /\ call[w].pc # "idle"
  /\ End(w)
  /\ UNCHANGED <<table, script, told, confirmed>>

-----------------------------------------------------------------------------
(* scripts/seed_demo_events.py: --execute puts the first `count` events of  *)
(* the batch in order and stops at the first identifier that exists;        *)
(* --cleanup scans the table page by page and deletes the batch's items.    *)

DemoItem(id) ==
  LET a == DemoAnswer[id] IN
  [predicted |-> a.predicted, demo |-> TRUE,
   revision  |-> IF a.labelled THEN 1 ELSE 0,
   feedback  |-> IF a.labelled
                   THEN [actual |-> a.actual, correct |-> a.actual = a.predicted, revision |-> 1]
                   ELSE NoFeedback]

StartSeed(s) ==
  /\ script[s].pc = "idle"
  /\ \E count \in 1..Len(DemoOrder) :
       script' = [script EXCEPT ![s] = [Stopped EXCEPT !.pc = "seed", !.next = 1, !.count = count]]
  /\ UNCHANGED <<table, call, told, confirmed>>

SeedNext(s) ==
  /\ script[s].pc = "seed"
  /\ LET id == DemoOrder[script[s].next] IN
     \/ /\ PutAllowed(id)
        /\ table' = [table EXCEPT ![id] = DemoItem(id)]
        /\ told' = [told EXCEPT ![id] = <<>>]
        /\ \/ /\ script[s].next < script[s].count
              /\ script' = [script EXCEPT ![s].next = @ + 1]
           \/ /\ script[s].next = script[s].count
              /\ script' = [script EXCEPT ![s] = Stopped]
           \/ UNCHANGED script                            \* answer lost: sent again
     \/ /\ ~PutAllowed(id)                                \* PersistenceConflict
        /\ script' = [script EXCEPT ![s] = Stopped]
        /\ UNCHANGED <<table, told>>
  /\ UNCHANGED <<call, confirmed>>

StartCleanup(s) ==
  /\ script[s].pc = "idle"
  /\ script' = [script EXCEPT ![s] = [Stopped EXCEPT !.pc = "scan", !.unscanned = Ids]]
  /\ UNCHANGED <<table, call, told, confirmed>>

\* The scan is eventually consistent: of the batch's keys on the page it may
\* report any.
Matching(page) == page \intersect DemoIds

ScanPage(s) ==
  /\ script[s].pc = "scan"
  /\ \/ /\ script[s].unscanned = {}
        /\ script' = [script EXCEPT ![s] = Stopped]
     \/ \E page \in SUBSET script[s].unscanned \ {{}} : \E found \in SUBSET Matching(page) :
          script' = [script EXCEPT ![s].pc = "delete", ![s].found = found,
                                   ![s].unscanned = @ \ page]
  /\ UNCHANGED <<table, call, told, confirmed>>

DeleteNext(s) ==
  /\ script[s].pc = "delete"
  /\ \/ /\ script[s].found = {}
        /\ script' = [script EXCEPT ![s].pc = "scan"]
        /\ UNCHANGED table
     \/ \E id \in script[s].found :
          \/ /\ DeleteAllowed(id)
             /\ table' = [table EXCEPT ![id] = Absent]
             /\ \/ script' = [script EXCEPT ![s].found = @ \ {id}]
                \/ UNCHANGED script                       \* answer lost: sent again
          \/ /\ ~DeleteAllowed(id)                        \* ClientError ends the run
             /\ script' = [script EXCEPT ![s] = Stopped]
             /\ UNCHANGED table
  /\ UNCHANGED <<call, told, confirmed>>

ScriptDies(s) ==
  /\ script[s].pc # "idle"
  /\ script' = [script EXCEPT ![s] = Stopped]
  /\ UNCHANGED <<table, call, told, confirmed>>

-----------------------------------------------------------------------------
Next ==
  \/ \E w \in Replicas : StartPredict(w) \/ PutPrediction(w)
  \/ \E w \in Writers : \/ StartFeedback(w) \/ GetPrediction(w) \/ ReadRevision(w)
                        \/ UpdateFeedback(w) \/ GiveUp(w)
  \/ \E s \in Scripts : \/ StartSeed(s) \/ SeedNext(s) \/ StartCleanup(s)
                        \/ ScanPage(s) \/ DeleteNext(s) \/ ScriptDies(s)

Spec == Init /\ [][Next]_vars

-----------------------------------------------------------------------------
(* Properties *)

\* Every variable has its type, and a call in progress names a key its kind of
\* request can name.
TableTyped == table \in [Ids -> Item \union {Absent}]

CallsTyped ==
  /\ call \in [Writers -> Call]
  /\ \A w \in Writers : /\ call[w].pc = "put" => call[w].id \in ApiIds
                        /\ call[w].pc # "idle" => call[w].id \in Ids

ScriptsTyped ==
  /\ script \in [Scripts -> Script]
  /\ \A s \in Scripts : /\ script[s].pc = "seed" => script[s].next \in 1..Len(DemoOrder)
                        /\ script[s].next <= script[s].count
                        /\ script[s].count <= Len(DemoOrder)
                        /\ script[s].found \subseteq DemoIds

HistoryTyped == /\ told \in [Ids -> Seq(Feedback)]
                /\ confirmed \in SUBSET ApiIds

TypeOK == TableTyped /\ CallsTyped /\ ScriptsTyped /\ HistoryTyped

\* No feedback brings a deleted record back to life: every item in the table was
\* put whole, by /predict or by the seeder (which answers the same every time),
\* however late a writer's update lands after a cleanup (attribute_exists(pk) in
\* update_feedback).
NoPartialItem ==
  \A id \in Ids : table[id] # Absent =>
    /\ table[id].predicted \in BOOLEAN
    /\ table[id].demo <=> id \in DemoIds
    /\ id \in DemoIds => table[id].predicted = DemoAnswer[id].predicted

\* The stored verdict is about the stored prediction, although submit_feedback
\* computes it from a read two calls before the write, and the record may have
\* been deleted and seeded again in between.
VerdictsAgree ==
  \A id \in Ids : table[id] # Absent =>
    LET item == table[id] IN
    \/ item.revision = 0 /\ item.feedback = NoFeedback
    \/ /\ item.feedback \in Feedback
       /\ item.feedback.revision = item.revision
       /\ item.feedback.correct = (item.feedback.actual = item.predicted)

\* What every call in progress knows of the record it is about: the verdict it
\* carries is the right one for the record it will write to, and the revision it
\* expects of a real prediction is one that prediction has reached.
CallsKnow ==
  \A w \in Writers : call[w].pc \in {"reread", "update"} =>
    LET id == call[w].id IN
    /\ id \in DemoIds => call[w].correct = (call[w].class = DemoAnswer[id].predicted)
    /\ id \in ApiIds =>
         /\ table[id] # Absent
         /\ call[w].correct = (call[w].class = table[id].predicted)
         /\ call[w].pc = "update" => call[w].expected <= table[id].revision

\* A prediction answered with 200 can be retrieved ever after: neither a
\* colliding put nor a demo cleanup takes it away.
ConfirmedIsKept == \A id \in confirmed : table[id] # Absent

\* No two writers are told the same revision of a record, and no writer is told
\* an older revision after a newer one was confirmed: the optimistic condition
\* of update_feedback makes the read-then-write of the revision atomic.
ConfirmationsAdvance ==
  \A id \in Ids : \A i, j \in 1..Len(told[id]) :
    i < j => told[id][i].revision < told[id][j].revision

\* A confirmed outcome is lost only to a later revision: while the record has
\* the confirmed revision it holds exactly the confirmed report, it never goes
\* back below it, and no outcome is confirmed for a prediction that is not there.
LatestConfirmedSurvives ==
  \A id \in Ids :
    /\ table[id] # Absent =>
         \A i \in 1..Len(told[id]) :
           /\ told[id][i].revision <= table[id].revision
           /\ told[id][i].revision = table[id].revision => told[id][i] = table[id].feedback
    /\ table[id] = Absent /\ id \in ApiIds => told[id] = <<>>

\* The inductive invariant behind the theorems of ServingProofs.
StoreInv ==
  /\ TypeOK
  /\ NoPartialItem
  /\ VerdictsAgree
  /\ CallsKnow
  /\ ConfirmedIsKept
  /\ ConfirmationsAdvance
  /\ LatestConfirmedSurvives

Public(item) ==
  IF item = Absent THEN Absent
  ELSE [predicted |-> item.predicted, revision |-> item.revision, feedback |-> item.feedback]

PublicTable == [id \in Ids |-> Public(table[id])]

Ledger == INSTANCE FeedbackLedger WITH ledger <- PublicTable
\* EventStore does what the ledger promises, each of its steps one operation of
\* the ledger on the item it touches, or none.
ImplementsLedger == Ledger!Spec
=============================================================================
