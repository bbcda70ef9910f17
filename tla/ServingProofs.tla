----------------------------- MODULE ServingProofs -----------------------------
(***************************************************************************)
(* Theorems of EventStore and of ApiService: the table, and the replicas   *)
(* that serve predictions from a verified release and record them there.   *)
(* For every set of replicas, sessions, scripts, releases and identifiers, *)
(* any cache size and every bound on revisions.                            *)
(***************************************************************************)
EXTENDS EventStore, ApiService, TLAPS

\* The batch's keys are table keys, and each has its deterministic answer.
LEMMA DemoKeys ==
  /\ \A i \in 1..Len(DemoOrder) : DemoOrder[i] \in DemoIds
  /\ Len(DemoOrder) \in Nat
  /\ \A id \in DemoIds : /\ DemoItem(id) \in Item
                         /\ DemoItem(id).demo
                         /\ DemoItem(id).predicted = DemoAnswer[id].predicted
  <1>1. \A i \in 1..Len(DemoOrder) : DemoOrder[i] \in DemoIds
    BY DEF DemoIds
  <1>2. Len(DemoOrder) \in Nat
    BY StoreAssumption
  <1>3. ASSUME NEW id \in DemoIds
        PROVE  /\ DemoItem(id) \in Item
               /\ DemoItem(id).demo
               /\ DemoItem(id).predicted = DemoAnswer[id].predicted
    <2>1. DemoAnswer[id] \in [predicted : BOOLEAN, labelled : BOOLEAN, actual : BOOLEAN]
      BY StoreAssumption
    <2> QED
      BY <2>1 DEF DemoItem, Item, Feedback
  <1> QED
    BY <1>1, <1>2, <1>3

\* Replacing one call, or one script, by a well-typed one.
LEMMA CallStep ==
  ASSUME CallsTyped, NEW w \in Writers, NEW c \in Call,
         c.pc = "put" => c.id \in ApiIds, c.pc # "idle" => c.id \in Ids,
         call' = [call EXCEPT ![w] = c]
  PROVE  CallsTyped'
  BY DEF CallsTyped

LEMMA ScriptStep ==
  ASSUME ScriptsTyped, NEW s \in Scripts, NEW p \in Script,
         p.pc = "seed" => p.next \in 1..Len(DemoOrder),
         p.next <= p.count, p.count <= Len(DemoOrder), p.found \subseteq DemoIds,
         script' = [script EXCEPT ![s] = p]
  PROVE  ScriptsTyped'
  BY DEF ScriptsTyped

\* A seeded outcome is judged against the seeded answer.
LEMMA DemoVerdict ==
  ASSUME NEW id \in DemoIds
  PROVE  /\ DemoItem(id).predicted \in BOOLEAN
         /\ \/ DemoItem(id).revision = 0 /\ DemoItem(id).feedback = NoFeedback
            \/ /\ DemoItem(id).feedback \in Feedback
               /\ DemoItem(id).feedback.revision = DemoItem(id).revision
               /\ DemoItem(id).feedback.correct =
                    (DemoItem(id).feedback.actual = DemoItem(id).predicted)
  <1>1. DemoAnswer[id] \in [predicted : BOOLEAN, labelled : BOOLEAN, actual : BOOLEAN]
    BY StoreAssumption
  <1> QED
    BY <1>1 DEF DemoItem, Feedback

LEMMA BegunType ==
  ASSUME NEW pc \in {"idle", "put", "get", "reread", "update"},
         NEW id \in Ids \union {Absent}, NEW class \in BOOLEAN
  PROVE  /\ Begun(pc, id, class) \in Call
         /\ Begun(pc, id, class).pc = pc
         /\ Begun(pc, id, class).id = id
  BY DEF Begun, Call

\* Ending a call keeps the calls well typed.
LEMMA EndType ==
  ASSUME CallsTyped, NEW w \in Writers, End(w)
  PROVE  CallsTyped'
  <1>1. Ended \in Call /\ Ended.pc = "idle"
    BY DEF Ended, Call
  <1> QED
    BY <1>1, CallStep DEF End

LEMMA StopType ==
  ASSUME ScriptsTyped, NEW s \in Scripts, script' = [script EXCEPT ![s] = Stopped]
  PROVE  ScriptsTyped'
  <1>1. /\ Stopped \in Script /\ Stopped.pc = "idle" /\ Stopped.next = 0
        /\ Stopped.count = 0 /\ Stopped.found = {}
    BY DEF Stopped, Script
  <1>2. /\ Stopped.pc # "seed" /\ Stopped.next <= Stopped.count
        /\ Stopped.count <= Len(DemoOrder) /\ Stopped.found \subseteq DemoIds
    BY <1>1, DemoKeys
  <1> QED
    BY <1>1, <1>2, ScriptStep

\* What an update writes is a report, and leaves a well-typed item.
LEMMA ReportType ==
  ASSUME NEW c \in Call
  PROVE  /\ Report(c) \in Feedback
         /\ Report(c) = [actual |-> c.class, correct |-> c.correct, revision |-> c.expected + 1]
  BY DEF Report, Feedback, Call

LEMMA RevisedType ==
  ASSUME NEW item \in Item \union {Absent}, NEW report \in Feedback
  PROVE  Revised(item, report) \in Item
  BY DEF Revised, Item, Feedback

LEMMA TypeInit == Init => TypeOK
  <1> SUFFICES ASSUME Init PROVE TypeOK
    OBVIOUS
  <1>1. Ended \in Call /\ Ended.pc = "idle"
    BY DEF Ended, Call
  <1>2. Stopped \in Script /\ Stopped = [pc |-> "idle", next |-> 0, count |-> 0,
                                        unscanned |-> {}, found |-> {}]
    BY DEF Script, Stopped
  <1>3. TableTyped /\ HistoryTyped
    BY DEF Init, TableTyped, HistoryTyped
  <1>4. CallsTyped
    BY <1>1 DEF Init, CallsTyped
  <1>5. ScriptsTyped
    BY <1>2, DemoKeys DEF Init, ScriptsTyped
  <1> QED
    BY <1>3, <1>4, <1>5 DEF TypeOK

LEMMA TypeNext == TypeOK /\ [Next]_vars => TypeOK'
  <1> SUFFICES ASSUME TypeOK, [Next]_vars PROVE TypeOK'
    OBVIOUS
  <1> USE DEF TypeOK
  <1>1. ASSUME NEW w \in Replicas, StartPredict(w) PROVE TypeOK'
    <2>1. PICK id \in ApiIds, predicted \in BOOLEAN :
            call' = [call EXCEPT ![w] = Begun("put", id, predicted)]
      BY <1>1 DEF StartPredict
    <2>2. CallsTyped'
      <3>1. /\ Begun("put", id, predicted) \in Call
            /\ Begun("put", id, predicted).pc = "put"
            /\ Begun("put", id, predicted).id = id
        BY BegunType DEF Ids
      <3> QED
        BY <2>1, <3>1, CallStep DEF Writers, Ids
    <2> QED
      BY <1>1, <2>2 DEF StartPredict, TableTyped, ScriptsTyped, HistoryTyped
  <1>2. ASSUME NEW w \in Replicas, PutPrediction(w) PROVE TypeOK'
    <2> DEFINE id == call[w].id
    <2>1. w \in Writers /\ id \in ApiIds /\ id \in Ids /\ call[w] \in Call
      BY <1>2 DEF PutPrediction, CallsTyped, Writers, Ids
    <2>2. PredictionItem(call[w].class) \in Item
      BY <2>1 DEF PredictionItem, Item, Call
    <2>3. TableTyped'
      BY <1>2, <2>1, <2>2 DEF PutPrediction, TableTyped
    <2>4. CallsTyped'
      <3>1. CASE End(w)
        BY <2>1, <3>1, EndType
      <3>2. CASE UNCHANGED call
        BY <3>2 DEF CallsTyped
      <3> QED
        BY <1>2, <3>1, <3>2 DEF PutPrediction
    <2>5. HistoryTyped'
      BY <1>2, <2>1 DEF PutPrediction, HistoryTyped
    <2> QED
      BY <1>2, <2>3, <2>4, <2>5 DEF PutPrediction, ScriptsTyped
  <1>3. ASSUME NEW w \in Writers, StartFeedback(w) PROVE TypeOK'
    <2>1. PICK id \in Ids, actual \in BOOLEAN :
            call' = [call EXCEPT ![w] = Begun("get", id, actual)]
      BY <1>3 DEF StartFeedback
    <2>2. CallsTyped'
      <3>1. /\ Begun("get", id, actual) \in Call
            /\ Begun("get", id, actual).pc = "get"
            /\ Begun("get", id, actual).id = id
        BY BegunType
      <3> QED
        BY <2>1, <3>1, CallStep
    <2> QED
      BY <1>3, <2>2 DEF StartFeedback, TableTyped, ScriptsTyped, HistoryTyped
  <1>4. ASSUME NEW w \in Writers, GetPrediction(w) PROVE TypeOK'
    <2>1. call[w] \in Call /\ call[w].id \in Ids
      BY <1>4 DEF GetPrediction, CallsTyped
    <2>2. CallsTyped'
      <3>1. CASE End(w)
        BY <3>1, EndType
      <3>2. ASSUME NEW b \in BOOLEAN,
                   call' = [call EXCEPT ![w] = [@ EXCEPT !.pc = "reread", !.correct = b]]
            PROVE  CallsTyped'
        <4> DEFINE c == [call[w] EXCEPT !.pc = "reread", !.correct = b]
        <4>1. c \in Call /\ c.pc = "reread" /\ c.id \in Ids
          BY <2>1 DEF Call
        <4> HIDE DEF c
        <4>2. call' = [call EXCEPT ![w] = c]
          BY <3>2 DEF c
        <4> QED
          BY <4>1, <4>2, CallStep
      <3> QED
        BY <1>4, <3>1, <3>2 DEF GetPrediction
    <2> QED
      BY <1>4, <2>2 DEF GetPrediction, TableTyped, ScriptsTyped, HistoryTyped
  <1>5. ASSUME NEW w \in Writers, ReadRevision(w) PROVE TypeOK'
    <2>1. call[w] \in Call /\ call[w].id \in Ids
      BY <1>5 DEF ReadRevision, CallsTyped
    <2>2. CallsTyped'
      <3>1. CASE End(w)
        BY <3>1, EndType
      <3>2. ASSUME NEW n \in Nat,
                   call' = [call EXCEPT ![w] = [@ EXCEPT !.pc = "update", !.expected = n]]
            PROVE  CallsTyped'
        <4> DEFINE c == [call[w] EXCEPT !.pc = "update", !.expected = n]
        <4>1. c \in Call /\ c.pc = "update" /\ c.id \in Ids
          BY <2>1 DEF Call
        <4> HIDE DEF c
        <4>2. call' = [call EXCEPT ![w] = c]
          BY <3>2 DEF c
        <4> QED
          BY <4>1, <4>2, CallStep
      <3>3. table[call[w].id] # Absent => table[call[w].id].revision \in Nat
        BY <2>1 DEF TableTyped, Item
      <3> QED
        BY <1>5, <3>1, <3>2, <3>3 DEF ReadRevision
    <2> QED
      BY <1>5, <2>2 DEF ReadRevision, TableTyped, ScriptsTyped, HistoryTyped
  <1>6. ASSUME NEW w \in Writers, UpdateFeedback(w) PROVE TypeOK'
    <2> DEFINE id == call[w].id
               report == Report(call[w])
    <2>1. id \in Ids /\ call[w] \in Call /\ report \in Feedback
      BY <1>6, ReportType DEF UpdateFeedback, CallsTyped
    <2>2. Revised(table[id], report) \in Item
      BY <2>1, RevisedType DEF TableTyped
    <2> HIDE DEF report
    <2>3. TableTyped'
      BY <1>6, <2>1, <2>2 DEF UpdateFeedback, TableTyped, report
    <2>4. HistoryTyped'
      <3>1. CASE told' = [told EXCEPT ![id] = Append(@, report)]
        <4>1. Append(told[id], report) \in Seq(Feedback)
          BY <2>1 DEF HistoryTyped
        <4>2. told' \in [Ids -> Seq(Feedback)]
          BY <2>1, <3>1, <4>1 DEF HistoryTyped
        <4> QED
          BY <1>6, <4>2 DEF UpdateFeedback, HistoryTyped
      <3>2. CASE UNCHANGED told
        BY <1>6, <3>2 DEF UpdateFeedback, HistoryTyped
      <3> QED
        BY <1>6, <3>1, <3>2 DEF UpdateFeedback, report
    <2>5. CallsTyped'
      <3>1. CASE End(w)
        BY <3>1, EndType
      <3>2. CASE UNCHANGED call
        BY <3>2 DEF CallsTyped
      <3> QED
        BY <1>6, <3>1, <3>2 DEF UpdateFeedback
    <2> QED
      BY <1>6, <2>3, <2>4, <2>5 DEF UpdateFeedback, ScriptsTyped
  <1>7. ASSUME NEW w \in Writers, GiveUp(w) PROVE TypeOK'
    <2>1. CallsTyped'
      BY <1>7, EndType DEF GiveUp
    <2> QED
      BY <1>7, <2>1 DEF GiveUp, TableTyped, ScriptsTyped, HistoryTyped
  <1>8. ASSUME NEW s \in Scripts, StartSeed(s) PROVE TypeOK'
    <2>1. PICK count \in 1..Len(DemoOrder) :
            script' = [script EXCEPT ![s] =
                         [Stopped EXCEPT !.pc = "seed", !.next = 1, !.count = count]]
      BY <1>8 DEF StartSeed
    <2>2. ScriptsTyped'
      <3> DEFINE p == [Stopped EXCEPT !.pc = "seed", !.next = 1, !.count = count]
      <3>1. /\ count \in Nat /\ 1 <= count /\ count <= Len(DemoOrder)
            /\ 1 \in 1..Len(DemoOrder)
        BY DemoKeys
      <3>2. p \in Script /\ p.next = 1 /\ p.count = count /\ p.found = {}
        BY <3>1 DEF Stopped, Script
      <3> HIDE DEF p
      <3>3. /\ p.next \in 1..Len(DemoOrder) /\ p.next <= p.count
            /\ p.count <= Len(DemoOrder) /\ p.found \subseteq DemoIds
        BY <3>1, <3>2
      <3>4. script' = [script EXCEPT ![s] = p]
        BY <2>1 DEF p
      <3> QED
        BY <3>2, <3>3, <3>4, ScriptStep
    <2> QED
      BY <1>8, <2>2 DEF StartSeed, TableTyped, CallsTyped, HistoryTyped
  <1>9. ASSUME NEW s \in Scripts, SeedNext(s) PROVE TypeOK'
    <2> DEFINE id == DemoOrder[script[s].next]
    <2>1. id \in DemoIds /\ id \in Ids
      BY <1>9, DemoKeys DEF SeedNext, ScriptsTyped, Ids
    <2>2. TableTyped' /\ HistoryTyped'
      <3>1. DemoItem(id) \in Item /\ <<>> \in Seq(Feedback)
        BY <2>1, DemoKeys
      <3>2. \/ UNCHANGED <<table, told>>
            \/ /\ table' = [table EXCEPT ![id] = DemoItem(id)]
               /\ told' = [told EXCEPT ![id] = <<>>]
        BY <1>9 DEF SeedNext
      <3>3. UNCHANGED confirmed
        BY <1>9 DEF SeedNext
      <3> HIDE DEF id
      <3> QED
        BY <2>1, <3>1, <3>2, <3>3 DEF TableTyped, HistoryTyped
    <2>3. ScriptsTyped'
      <3>1. script[s] \in Script /\ script[s].count <= Len(DemoOrder)
        BY DEF ScriptsTyped
      <3>2. CASE script[s].next < script[s].count /\ script' = [script EXCEPT ![s].next = @ + 1]
        <4>1. script[s].next \in 1..Len(DemoOrder) /\ script[s].next \in Nat
          BY <1>9, DemoKeys DEF SeedNext, ScriptsTyped
        <4>2. script[s].count \in Nat
          BY <3>1 DEF Script
        <4> DEFINE p == [script[s] EXCEPT !.next = @ + 1]
        <4>3. /\ p \in Script /\ p.next = script[s].next + 1 /\ p.count = script[s].count
              /\ p.found = script[s].found
          BY <3>1, <4>1 DEF Script
        <4> HIDE DEF p
        <4>4. p.next \in 1..Len(DemoOrder) /\ p.next <= p.count /\ p.count <= Len(DemoOrder)
          BY <3>1, <3>2, <4>1, <4>2, <4>3, DemoKeys
        <4>5. script' = [script EXCEPT ![s] = p]
          BY <3>2 DEF p
        <4> QED
          BY <4>3, <4>4, <4>5, ScriptStep DEF ScriptsTyped
      <3> QED
        BY <1>9, <3>2, StopType DEF SeedNext, ScriptsTyped
    <2> QED
      BY <1>9, <2>2, <2>3 DEF SeedNext, CallsTyped
  <1>10. ASSUME NEW s \in Scripts, StartCleanup(s) PROVE TypeOK'
    <2>1. ScriptsTyped'
      <3> DEFINE p == [Stopped EXCEPT !.pc = "scan", !.unscanned = Ids]
      <3>1. p \in Script /\ p.pc = "scan" /\ p.next = 0 /\ p.count = 0 /\ p.found = {}
        BY DEF Stopped, Script
      <3> HIDE DEF p
      <3>2. script' = [script EXCEPT ![s] = p]
        BY <1>10 DEF StartCleanup, p
      <3>3. /\ p.pc # "seed" /\ p.next <= p.count /\ p.count <= Len(DemoOrder)
            /\ p.found \subseteq DemoIds
        BY <3>1, DemoKeys
      <3> QED
        BY <3>1, <3>2, <3>3, ScriptStep
    <2> QED
      BY <1>10, <2>1 DEF StartCleanup, TableTyped, CallsTyped, HistoryTyped
  <1>11. ASSUME NEW s \in Scripts, ScanPage(s) PROVE TypeOK'
    <2>1. ScriptsTyped'
      <3>1. ASSUME NEW page \in SUBSET script[s].unscanned, NEW found \in SUBSET Matching(page),
                   script' = [script EXCEPT ![s].pc = "delete", ![s].found = found,
                                            ![s].unscanned = @ \ page]
            PROVE  ScriptsTyped'
        BY ZenonT(60), <3>1 DEF ScriptsTyped, Script, Matching
      <3> QED
        BY <1>11, <3>1, StopType DEF ScanPage
    <2> QED
      BY <1>11, <2>1 DEF ScanPage, TableTyped, CallsTyped, HistoryTyped
  <1>12. ASSUME NEW s \in Scripts, DeleteNext(s) PROVE TypeOK'
    <2>1. script[s].found \subseteq DemoIds /\ DemoIds \subseteq Ids
      BY DEF ScriptsTyped, Ids
    <2>2. TableTyped'
      BY <1>12, <2>1 DEF DeleteNext, TableTyped
    <2>3. ScriptsTyped'
      <3>1. CASE script' = [script EXCEPT ![s].pc = "scan"]
        BY <3>1 DEF ScriptsTyped, Script
      <3>2. ASSUME NEW id, script' = [script EXCEPT ![s].found = @ \ {id}]
            PROVE  ScriptsTyped'
        BY <3>2 DEF ScriptsTyped, Script
      <3> QED
        BY <1>12, <3>1, <3>2, StopType DEF DeleteNext, ScriptsTyped
    <2> QED
      BY <1>12, <2>2, <2>3 DEF DeleteNext, CallsTyped, HistoryTyped
  <1>13. ASSUME NEW s \in Scripts, ScriptDies(s) PROVE TypeOK'
    BY <1>13, StopType DEF ScriptDies, TableTyped, CallsTyped, HistoryTyped
  <1>14. CASE UNCHANGED vars
    BY <1>14 DEF vars, TableTyped, CallsTyped, ScriptsTyped, HistoryTyped
  <1> QED
    BY <1>1, <1>2, <1>3, <1>4, <1>5, <1>6, <1>7, <1>8, <1>9, <1>10, <1>11, <1>12,
       <1>13, <1>14 DEF Next

\* Every variable keeps its type, and every call, script and history stays
\* within the keys it may name.
THEOREM TypeCorrect == Spec => []TypeOK
  BY TypeInit, TypeNext, PTL DEF Spec


-----------------------------------------------------------------------------
(* The store's safety: StoreInv is inductive. *)

\* The parts of StoreInv that only speak of items and histories.
ItemsInv ==
  NoPartialItem /\ VerdictsAgree /\ ConfirmedIsKept /\ ConfirmationsAdvance
    /\ LatestConfirmedSurvives

LEMMA QuietStep ==
  ASSUME ItemsInv, UNCHANGED <<table, told, confirmed>>
  PROVE  ItemsInv'
  BY DEF ItemsInv, NoPartialItem, VerdictsAgree, ConfirmedIsKept, ConfirmationsAdvance,
         LatestConfirmedSurvives

\* A call that is not between its read and its write knows nothing yet.
LEMMA QuietCall ==
  ASSUME TypeOK, CallsKnow, UNCHANGED table, NEW w \in Writers, NEW c,
         c.pc \notin {"reread", "update"}, call' = [call EXCEPT ![w] = c]
  PROVE  CallsKnow'
  <1> SUFFICES ASSUME NEW v \in Writers, call'[v].pc \in {"reread", "update"}
               PROVE  v # w /\ call'[v] = call[v]
    BY DEF CallsKnow
  <1> QED
    BY DEF TypeOK, CallsTyped

LEMMA QuietEnd ==
  ASSUME TypeOK, CallsKnow, UNCHANGED table, NEW w \in Writers, End(w)
  PROVE  CallsKnow'
  <1>1. Ended.pc \notin {"reread", "update"}
    BY DEF Ended
  <1> QED
    BY <1>1, QuietCall DEF End

LEMMA InvInit == Init => StoreInv
  <1> SUFFICES ASSUME Init PROVE StoreInv
    OBVIOUS
  <1>1. TypeOK
    BY TypeInit
  <1>2. NoPartialItem /\ VerdictsAgree /\ ConfirmedIsKept
    BY DEF Init, NoPartialItem, VerdictsAgree, ConfirmedIsKept
  <1>3. CallsKnow
    BY DEF Init, CallsKnow, Ended
  <1>4. ConfirmationsAdvance /\ LatestConfirmedSurvives
    BY DEF Init, ConfirmationsAdvance, LatestConfirmedSurvives
  <1> QED
    BY <1>1, <1>2, <1>3, <1>4 DEF StoreInv

\* An item that appears with no confirmed report of it, and whole, keeps the
\* items' invariant; one that is removed, if it is a demo record, does too.
LEMMA AppearStep ==
  ASSUME TypeOK, ItemsInv, NEW id \in Ids, NEW item \in Item, table[id] = Absent,
         item.predicted \in BOOLEAN, item.demo <=> (id \in DemoIds),
         id \in DemoIds => item.predicted = DemoAnswer[id].predicted,
         \/ item.revision = 0 /\ item.feedback = NoFeedback
         \/ /\ item.feedback \in Feedback
            /\ item.feedback.revision = item.revision
            /\ item.feedback.correct = (item.feedback.actual = item.predicted),
         table' = [table EXCEPT ![id] = item],
         \A j \in Ids : told'[j] = IF j = id THEN <<>> ELSE told[j],
         confirmed' = confirmed \/ confirmed' = confirmed \union {id}
  PROVE  ItemsInv'
  <1> USE DEF TypeOK, TableTyped, HistoryTyped
  <1>0. item # Absent
    BY StoreAssumption
  <1>1. NoPartialItem'
    BY DEF ItemsInv, NoPartialItem
  <1>2. VerdictsAgree'
    BY DEF ItemsInv, VerdictsAgree
  <1>3. ConfirmedIsKept'
    BY <1>0 DEF ItemsInv, ConfirmedIsKept, Ids
  <1>4. ConfirmationsAdvance'
    BY DEF ItemsInv, ConfirmationsAdvance
  <1>5. LatestConfirmedSurvives'
    BY <1>0 DEF ItemsInv, LatestConfirmedSurvives
  <1> QED
    BY <1>1, <1>2, <1>3, <1>4, <1>5 DEF ItemsInv

LEMMA RemoveStep ==
  ASSUME TypeOK, ItemsInv, NEW id \in DemoIds, id \in Ids,
         table' = [table EXCEPT ![id] = Absent], UNCHANGED <<told, confirmed>>
  PROVE  ItemsInv'
  <1> USE DEF TypeOK, TableTyped, HistoryTyped
  <1>1. id \notin ApiIds
    BY StoreAssumption
  <1>2. NoPartialItem' /\ VerdictsAgree' /\ ConfirmationsAdvance'
    BY DEF ItemsInv, NoPartialItem, VerdictsAgree, ConfirmationsAdvance
  <1>3. ConfirmedIsKept'
    BY <1>1 DEF ItemsInv, ConfirmedIsKept
  <1>4. LatestConfirmedSurvives'
    BY <1>1 DEF ItemsInv, LatestConfirmedSurvives
  <1> QED
    BY <1>2, <1>3, <1>4 DEF ItemsInv

\* A report with a higher revision and the right verdict replaces the one before.
LEMMA ReviseStep ==
  ASSUME TypeOK, ItemsInv, NEW id \in Ids, table[id] # Absent,
         NEW report \in Feedback,
         report.revision > table[id].revision,
         report.correct = (report.actual = table[id].predicted),
         table' = [table EXCEPT ![id] = Revised(@, report)],
         told' = told \/ told' = [told EXCEPT ![id] = Append(@, report)],
         UNCHANGED confirmed
  PROVE  ItemsInv'
  <1> USE DEF TypeOK, TableTyped, HistoryTyped
  <1> DEFINE item == Revised(table[id], report)
  <1>1. /\ table[id] \in Item /\ table[id].revision \in Nat /\ report.revision \in Nat
        /\ told \in [Ids -> Seq(Feedback)]
    BY DEF Item, Feedback
  <1>2. /\ item \in Item /\ item # Absent
        /\ item.predicted = table[id].predicted /\ item.demo = table[id].demo
        /\ item.revision = report.revision /\ item.feedback = report
    <2>1. item = [table[id] EXCEPT !.revision = report.revision, !.feedback = report]
      BY DEF Revised
    <2>2. item \in Item
      BY RevisedType
    <2>3. item # Absent
      BY <2>2, StoreAssumption
    <2> HIDE DEF item
    <2>4. /\ item.predicted = table[id].predicted /\ item.demo = table[id].demo
          /\ item.revision = report.revision /\ item.feedback = report
      BY <1>1, <2>1 DEF Item
    <2> QED
      BY <2>2, <2>3, <2>4
  <1>3. table' = [table EXCEPT ![id] = item]
    OBVIOUS
  <1> HIDE DEF item
  <1>4. NoPartialItem'
    BY <1>2, <1>3 DEF ItemsInv, NoPartialItem
  <1>5. VerdictsAgree'
    BY <1>2, <1>3 DEF ItemsInv, VerdictsAgree
  <1>6. ConfirmedIsKept'
    BY <1>2, <1>3 DEF ItemsInv, ConfirmedIsKept
  <1>7. \A i \in 1..Len(told[id]) : /\ told[id][i] \in Feedback
                                    /\ told[id][i].revision \in Nat
                                    /\ told[id][i].revision < report.revision
    <2> SUFFICES ASSUME NEW i \in 1..Len(told[id])
                 PROVE  /\ told[id][i] \in Feedback
                        /\ told[id][i].revision \in Nat
                        /\ told[id][i].revision < report.revision
      OBVIOUS
    <2>1. told[id] \in Seq(Feedback)
      BY <1>1
    <2>2. told[id][i] \in Feedback
      BY <2>1
    <2>3. told[id][i].revision \in Nat
      BY <2>2 DEF Feedback
    <2>4. told[id][i].revision <= table[id].revision
      BY DEF ItemsInv, LatestConfirmedSurvives
    <2> QED
      BY <1>1, <2>2, <2>3, <2>4
  <1>8. /\ \A j \in Ids : j # id => table'[j] = table[j]
        /\ table'[id] = item
    <2>1. table \in [Ids -> Item \union {Absent}]
      OBVIOUS
    <2> QED
      BY <1>3, <2>1
  <1>9. CASE told' = told
    <2>1. ConfirmationsAdvance'
      BY <1>9 DEF ItemsInv, ConfirmationsAdvance
    <2>2. LatestConfirmedSurvives'
      <3>1. \A i \in 1..Len(told'[id]) :
              /\ told'[id][i].revision <= item.revision
              /\ told'[id][i].revision # item.revision
        BY <1>1, <1>2, <1>7, <1>9
      <3> QED
        BY <1>2, <1>8, <1>9, <3>1 DEF ItemsInv, LatestConfirmedSurvives
    <2> QED
      BY <1>4, <1>5, <1>6, <2>1, <2>2 DEF ItemsInv
  <1>10. CASE told' = [told EXCEPT ![id] = Append(@, report)]
    <2>0. \A j \in Ids : j # id => told'[j] = told[j]
      BY <1>1, <1>10
    <2> DEFINE n == Len(told[id])
    <2>1. /\ n \in Nat /\ told'[id] = Append(told[id], report) /\ Len(told'[id]) = n + 1
          /\ told'[id][n + 1] = report
          /\ \A i \in 1..n : told'[id][i] = told[id][i]
      BY <1>1, <1>10
    <2>2. ConfirmationsAdvance'
      <3> SUFFICES ASSUME NEW i \in 1..Len(told'[id]), NEW j \in 1..Len(told'[id]), i < j
                   PROVE  told'[id][i].revision < told'[id][j].revision
        BY <2>0 DEF ItemsInv, ConfirmationsAdvance
      <3>1. CASE j = n + 1
        BY <1>7, <2>1, <3>1
      <3>2. CASE j # n + 1
        <4>1. i \in 1..n /\ j \in 1..n
          BY <2>1, <3>2
        <4> QED
          BY <2>1, <4>1 DEF ItemsInv, ConfirmationsAdvance
      <3> QED
        BY <3>1, <3>2
    <2>3. LatestConfirmedSurvives'
      <3>1. \A i \in 1..Len(told'[id]) :
              /\ told'[id][i].revision <= item.revision
              /\ told'[id][i].revision = item.revision => told'[id][i] = item.feedback
        <4> SUFFICES ASSUME NEW i \in 1..Len(told'[id])
                     PROVE  /\ told'[id][i].revision <= item.revision
                            /\ told'[id][i].revision = item.revision => told'[id][i] = item.feedback
          OBVIOUS
        <4>1. CASE i = n + 1
          BY <1>1, <1>2, <2>1, <4>1
        <4>2. CASE i # n + 1
          <5>1. i \in 1..n
            BY <2>1, <4>2
          <5> QED
            BY <1>1, <1>2, <1>7, <2>1, <5>1
        <4> QED
          BY <4>1, <4>2
      <3> QED
        BY <1>2, <1>8, <2>0, <3>1 DEF ItemsInv, LatestConfirmedSurvives
    <2> QED
      BY <1>4, <1>5, <1>6, <2>2, <2>3 DEF ItemsInv
  <1> QED
    BY <1>9, <1>10

\* Calls keep knowing what they know while real predictions keep their answers
\* and their revisions do not fall.
LEMMA KnowStep ==
  ASSUME TypeOK, TypeOK', CallsKnow,
         \A id \in ApiIds : table[id] # Absent =>
            /\ table'[id] # Absent
            /\ table'[id].predicted = table[id].predicted
            /\ table'[id].revision >= table[id].revision,
         \A v \in Writers : call'[v].pc \in {"reread", "update"} =>
            /\ call'[v].pc = call[v].pc /\ call'[v].id = call[v].id
            /\ call'[v].class = call[v].class /\ call'[v].correct = call[v].correct
            /\ call'[v].expected = call[v].expected
  PROVE  CallsKnow'
  <1> SUFFICES ASSUME NEW v \in Writers, call'[v].pc \in {"reread", "update"}
               PROVE  LET id == call[v].id IN
                      /\ id \in DemoIds => call[v].correct = (call[v].class = DemoAnswer[id].predicted)
                      /\ id \in ApiIds =>
                           /\ table'[id] # Absent
                           /\ call[v].correct = (call[v].class = table'[id].predicted)
                           /\ call[v].pc = "update" => call[v].expected <= table'[id].revision
    BY DEF CallsKnow
  <1> DEFINE id == call[v].id
  <1>1. CASE id \in DemoIds
    <2>1. id \notin ApiIds
      BY <1>1, StoreAssumption
    <2> QED
      BY <1>1, <2>1 DEF CallsKnow
  <1>2. CASE id \in ApiIds
    <2>1. id \notin DemoIds
      BY <1>2, StoreAssumption
    <2>2. /\ table[id] # Absent
          /\ call[v].correct = (call[v].class = table[id].predicted)
          /\ call[v].pc = "update" => call[v].expected <= table[id].revision
      BY <1>2 DEF CallsKnow
    <2>3. /\ table'[id] # Absent
          /\ table'[id].predicted = table[id].predicted
          /\ table'[id].revision >= table[id].revision
      BY <1>2, <2>2
    <2>4. id \in Ids
      BY <1>2 DEF Ids
    <2>5. table[id] \in Item /\ table'[id] \in Item
      BY <2>2, <2>3, <2>4 DEF TypeOK, TableTyped
    <2>6. call[v].expected \in Nat
      BY DEF TypeOK, CallsTyped, Call
    <2>7. table[id].revision \in Nat /\ table'[id].revision \in Nat
      BY <2>5 DEF Item
    <2>8. call[v].pc = "update" => call[v].expected <= table'[id].revision
      BY <2>2, <2>3, <2>6, <2>7
    <2> QED
      BY <2>1, <2>2, <2>3, <2>8
  <1> QED
    BY <1>1, <1>2

\* What a call in progress writes is the next revision of the record and carries
\* the right verdict on it.
LEMMA ReportFits ==
  ASSUME StoreInv, NEW w \in Writers, call[w].pc = "update",
         UpdateAllowed(call[w].id, call[w].expected)
  PROVE  LET id == call[w].id
             report == Report(call[w])
         IN  /\ id \in Ids /\ table[id] # Absent /\ table[id] \in Item
             /\ report \in Feedback
             /\ report.actual = call[w].class
             /\ report.revision > table[id].revision
             /\ report.correct = (report.actual = table[id].predicted)
             /\ id \in ApiIds => report.revision = table[id].revision + 1
  <1> DEFINE id == call[w].id
             report == Report(call[w])
  <1>1. call[w] \in Call /\ id \in Ids
    BY DEF StoreInv, TypeOK, CallsTyped
  <1>2. table[id] # Absent /\ table[id] \in Item
    BY <1>1 DEF UpdateAllowed, StoreInv, TypeOK, TableTyped
  <1>3. table[id].revision \in Nat /\ call[w].expected \in Nat
    BY <1>1, <1>2 DEF Item, Call
  <1>4. /\ report \in Feedback
        /\ report.actual = call[w].class /\ report.correct = call[w].correct
        /\ report.revision = call[w].expected + 1
    BY <1>1, ReportType
  <1>5. report.revision > table[id].revision
    BY <1>3, <1>4 DEF UpdateAllowed
  <1>6. id \in ApiIds =>
          /\ report.correct = (report.actual = table[id].predicted)
          /\ report.revision = table[id].revision + 1
    <2> SUFFICES ASSUME id \in ApiIds
                 PROVE  /\ call[w].correct = (call[w].class = table[id].predicted)
                        /\ call[w].expected = table[id].revision
      BY <1>4
    <2>1. /\ call[w].correct = (call[w].class = table[id].predicted)
          /\ call[w].expected <= table[id].revision
      BY DEF StoreInv, CallsKnow
    <2>2. call[w].expected = table[id].revision
      BY <1>3, <2>1 DEF UpdateAllowed
    <2> QED
      BY <2>1, <2>2
  <1>7. id \in DemoIds => report.correct = (report.actual = table[id].predicted)
    <2> SUFFICES ASSUME id \in DemoIds
                 PROVE  call[w].correct = (call[w].class = table[id].predicted)
      BY <1>4
    <2>1. call[w].correct = (call[w].class = DemoAnswer[id].predicted)
      BY DEF StoreInv, CallsKnow
    <2>2. table[id].predicted = DemoAnswer[id].predicted
      BY <1>1, <1>2 DEF StoreInv, NoPartialItem
    <2> QED
      BY <2>1, <2>2
  <1> QED
    BY <1>1, <1>2, <1>4, <1>5, <1>6, <1>7 DEF Ids

LEMMA InvNext == StoreInv /\ [Next]_vars => StoreInv'
  <1> SUFFICES ASSUME StoreInv, [Next]_vars PROVE StoreInv'
    OBVIOUS
  <1>1. TypeOK /\ TypeOK'
    BY TypeNext DEF StoreInv
  <1>2. ItemsInv /\ CallsKnow
    BY DEF StoreInv, ItemsInv
  <1>3. SUFFICES ItemsInv' /\ CallsKnow'
    BY <1>1 DEF StoreInv, ItemsInv
  <1>4. ASSUME NEW w \in Replicas, StartPredict(w) PROVE ItemsInv' /\ CallsKnow'
    <2>1. PICK id \in ApiIds, predicted \in BOOLEAN :
            call' = [call EXCEPT ![w] = Begun("put", id, predicted)]
      BY <1>4 DEF StartPredict
    <2>2. Begun("put", id, predicted).pc = "put"
      BY DEF Begun
    <2> QED
      BY <1>1, <1>2, <1>4, <2>1, <2>2, QuietStep, QuietCall DEF StartPredict, Writers
  <1>5. ASSUME NEW w \in Replicas, PutPrediction(w) PROVE ItemsInv' /\ CallsKnow'
    <2> DEFINE id == call[w].id
    <2>1. w \in Writers /\ id \in ApiIds /\ id \in Ids /\ id \notin DemoIds /\ call[w] \in Call
      BY <1>1, <1>5, StoreAssumption DEF PutPrediction, TypeOK, CallsTyped, Writers, Ids
    <2>2. /\ call' \in [Writers -> Call]
          /\ \A v \in Writers : v # w => call'[v] = call[v]
          /\ call'[w].pc \in {"put", "idle"}
      BY <1>1, <1>5, <2>1 DEF PutPrediction, End, Ended, TypeOK, CallsTyped, Call
    <2>3. CASE UNCHANGED <<table, confirmed>>
      <3>1. ItemsInv'
        BY <1>2, <1>5, <2>3, QuietStep DEF PutPrediction
      <3>2. \A j \in ApiIds : table[j] # Absent =>
              /\ table'[j] # Absent /\ table'[j].predicted = table[j].predicted
              /\ table'[j].revision >= table[j].revision
        BY <1>1, <2>3 DEF TypeOK, TableTyped, Item, Ids
      <3> QED
        BY <1>1, <1>2, <2>2, <3>1, <3>2, KnowStep
    <2>4. CASE PutAllowed(id)
      <3> DEFINE item == PredictionItem(call[w].class)
      <3>1. /\ item \in Item /\ item.predicted \in BOOLEAN /\ item.demo = FALSE
            /\ item.revision = 0 /\ item.feedback = NoFeedback
        BY <2>1 DEF PredictionItem, Item, Call
      <3>2. table[id] = Absent /\ told[id] = <<>>
        BY <1>2, <2>1, <2>4 DEF PutAllowed, ItemsInv, LatestConfirmedSurvives
      <3>3. /\ table' = [table EXCEPT ![id] = item]
            /\ confirmed' = confirmed \/ confirmed' = confirmed \union {id}
            /\ told' = told
        BY <1>5, <2>4 DEF PutPrediction
      <3> HIDE DEF item
      <3>4. \A j \in Ids : told'[j] = IF j = id THEN <<>> ELSE told[j]
        <4> HIDE DEF id
        <4> SUFFICES ASSUME NEW j \in Ids
                     PROVE  told[j] = IF j = id THEN <<>> ELSE told[j]
          BY <3>3
        <4>1. CASE j = id
          BY <3>2, <4>1
        <4>2. CASE j # id
          BY <4>2
        <4> QED
          BY <4>1, <4>2
      <3>5. ItemsInv'
        <4>0. item.demo = FALSE /\ ~(id \in DemoIds)
          BY <2>1, <3>1
        <4>1. item.demo <=> (id \in DemoIds)
          BY <4>0
        <4>2. id \in DemoIds => item.predicted = DemoAnswer[id].predicted
          BY <2>1
        <4> HIDE DEF id
        <4> QED
          BY <1>1, <1>2, <2>1, <3>1, <3>2, <3>3, <3>4, <4>1, <4>2, AppearStep
      <3>6. \A j \in ApiIds : table[j] # Absent =>
              /\ table'[j] # Absent /\ table'[j].predicted = table[j].predicted
              /\ table'[j].revision >= table[j].revision
        BY <1>1, <3>2, <3>3 DEF TypeOK, TableTyped, Item, Ids
      <3> QED
        BY <1>1, <1>2, <2>2, <3>5, <3>6, KnowStep
    <2> QED
      BY <1>5, <2>3, <2>4 DEF PutPrediction
  <1>6. ASSUME NEW w \in Writers, StartFeedback(w) PROVE ItemsInv' /\ CallsKnow'
    <2>1. PICK id \in Ids, actual \in BOOLEAN :
            call' = [call EXCEPT ![w] = Begun("get", id, actual)]
      BY <1>6 DEF StartFeedback
    <2>2. Begun("get", id, actual).pc = "get"
      BY DEF Begun
    <2> QED
      BY <1>1, <1>2, <1>6, <2>1, <2>2, QuietStep, QuietCall DEF StartFeedback
  <1>7. ASSUME NEW w \in Writers, GetPrediction(w) PROVE ItemsInv' /\ CallsKnow'
    <2>1. ItemsInv'
      BY <1>2, <1>7, QuietStep DEF GetPrediction
    <2>2. CASE End(w)
      BY <1>1, <1>2, <1>7, <2>1, <2>2, QuietEnd DEF GetPrediction
    <2>3. CASE ~End(w)
      <3> DEFINE id == call[w].id
      <3>1. /\ id \in Ids /\ call[w] \in Call /\ table[id] # Absent
            /\ table' = table
            /\ call' = [call EXCEPT ![w] = [@ EXCEPT !.pc = "reread",
                                        !.correct = (call[w].class = table[id].predicted)]]
        BY <1>1, <1>7, <2>3 DEF GetPrediction, TypeOK, CallsTyped
      <3>2. /\ \A v \in Writers : v # w => call'[v] = call[v]
            /\ call'[w].pc = "reread" /\ call'[w].id = id /\ call'[w].class = call[w].class
            /\ call'[w].correct = (call[w].class = table[id].predicted)
        BY <1>1, <3>1 DEF TypeOK, CallsTyped, Call
      <3>3. id \in DemoIds => table[id].predicted = DemoAnswer[id].predicted
        BY <1>2, <3>1 DEF ItemsInv, NoPartialItem
      <3>4. CallsKnow'
        BY <1>2, <3>1, <3>2, <3>3 DEF CallsKnow
      <3> QED
        BY <2>1, <3>4
    <2> QED
      BY <2>2, <2>3
  <1>8. ASSUME NEW w \in Writers, ReadRevision(w) PROVE ItemsInv' /\ CallsKnow'
    <2>1. ItemsInv'
      BY <1>2, <1>8, QuietStep DEF ReadRevision
    <2>2. CASE End(w)
      BY <1>1, <1>2, <1>8, <2>1, <2>2, QuietEnd DEF ReadRevision
    <2>3. CASE ~End(w)
      <3> DEFINE id == call[w].id
      <3>1. /\ id \in Ids /\ call[w] \in Call /\ call[w].pc = "reread" /\ table[id] # Absent
            /\ table' = table
            /\ call' = [call EXCEPT ![w] = [@ EXCEPT !.pc = "update",
                                                    !.expected = table[id].revision]]
        BY <1>1, <1>8, <2>3 DEF ReadRevision, TypeOK, CallsTyped
      <3>2. /\ \A v \in Writers : v # w => call'[v] = call[v]
            /\ call'[w].pc = "update" /\ call'[w].id = id /\ call'[w].class = call[w].class
            /\ call'[w].correct = call[w].correct
            /\ call'[w].expected = table[id].revision
        BY <1>1, <3>1 DEF TypeOK, CallsTyped, Call
      <3>3. table[id].revision \in Nat
        BY <1>1, <3>1 DEF TypeOK, TableTyped, Item
      <3>4. CallsKnow'
        BY <1>2, <3>1, <3>2, <3>3 DEF CallsKnow
      <3> QED
        BY <2>1, <3>4
    <2> QED
      BY <2>2, <2>3
  <1>9. ASSUME NEW w \in Writers, UpdateFeedback(w) PROVE ItemsInv' /\ CallsKnow'
    <2> DEFINE id == call[w].id
               report == Report(call[w])
    <2>1. /\ call' \in [Writers -> Call]
          /\ \A v \in Writers : v # w => call'[v] = call[v]
          /\ \/ call'[w].pc = "idle"
             \/ call'[w] = call[w]
      BY <1>1, <1>9 DEF UpdateFeedback, End, Ended, TypeOK, CallsTyped
    <2>2. call[w] \in Call
      BY <1>1 DEF TypeOK, CallsTyped
    <2>3. \A v \in Writers : call'[v].pc \in {"reread", "update"} =>
            /\ call'[v].pc = call[v].pc /\ call'[v].id = call[v].id
            /\ call'[v].class = call[v].class /\ call'[v].correct = call[v].correct
            /\ call'[v].expected = call[v].expected
      BY <2>1, <2>2 DEF Call
    <2>4. CASE ~UpdateAllowed(id, call[w].expected)
      <3>1. ItemsInv'
        BY <1>2, <1>9, <2>4, QuietStep DEF UpdateFeedback
      <3>2. \A j \in ApiIds : table[j] # Absent =>
              /\ table'[j] # Absent /\ table'[j].predicted = table[j].predicted
              /\ table'[j].revision >= table[j].revision
        <4>1. table' = table
          BY <1>9, <2>4 DEF UpdateFeedback
        <4> QED
          BY <1>1, <4>1 DEF TypeOK, TableTyped, Item, Ids
      <3> QED
        BY <1>1, <1>2, <2>3, <3>1, <3>2, KnowStep
    <2>5. CASE UpdateAllowed(id, call[w].expected)
      <3>1. /\ id \in Ids /\ table[id] # Absent /\ table[id] \in Item
            /\ report \in Feedback
            /\ report.revision > table[id].revision
            /\ report.correct = (report.actual = table[id].predicted)
        BY <1>9, <2>5, ReportFits DEF UpdateFeedback
      <3>2. /\ table' = [table EXCEPT ![id] = Revised(@, report)]
            /\ told' = told \/ told' = [told EXCEPT ![id] = Append(@, report)]
            /\ confirmed' = confirmed
        BY <1>9, <2>5 DEF UpdateFeedback
      <3> HIDE DEF report
      <3>3. ItemsInv'
        BY <1>1, <1>2, <3>1, <3>2, ReviseStep
      <3>4. /\ Revised(table[id], report) \in Item
            /\ Revised(table[id], report) # Absent
            /\ Revised(table[id], report).predicted = table[id].predicted
            /\ Revised(table[id], report).revision = report.revision
        <4> DEFINE item == Revised(table[id], report)
        <4>1. item \in Item
          BY <3>1, RevisedType
        <4>2. item = [table[id] EXCEPT !.revision = report.revision, !.feedback = report]
          BY <3>1 DEF Revised
        <4> HIDE DEF item
        <4>3. item.predicted = table[id].predicted /\ item.revision = report.revision
          BY <3>1, <4>2 DEF Item
        <4>4. item # Absent
          BY <4>1, StoreAssumption
        <4> QED
          BY <4>1, <4>3, <4>4 DEF item
      <3>5. \A j \in ApiIds : table[j] # Absent =>
              /\ table'[j] # Absent /\ table'[j].predicted = table[j].predicted
              /\ table'[j].revision >= table[j].revision
        <4> SUFFICES ASSUME NEW j \in ApiIds, table[j] # Absent
                     PROVE  /\ table'[j] # Absent /\ table'[j].predicted = table[j].predicted
                            /\ table'[j].revision >= table[j].revision
          OBVIOUS
        <4>1. j \in Ids /\ table \in [Ids -> Item \union {Absent}]
          BY <1>1 DEF Ids, TypeOK, TableTyped
        <4>2. table[j].revision \in Nat /\ report.revision \in Nat
          BY <3>1, <4>1 DEF Item, Feedback
        <4>3. CASE j = id
          BY <3>1, <3>2, <3>4, <4>1, <4>2, <4>3
        <4>4. CASE j # id
          BY <3>2, <4>1, <4>2, <4>4
        <4> QED
          BY <4>3, <4>4
      <3> QED
        BY <1>1, <1>2, <2>3, <3>3, <3>5, KnowStep
    <2> QED
      BY <2>4, <2>5
  <1>10. ASSUME NEW w \in Writers, GiveUp(w) PROVE ItemsInv' /\ CallsKnow'
    BY <1>1, <1>2, <1>10, QuietStep, QuietEnd DEF GiveUp
  <1>11. ASSUME UNCHANGED <<table, call, told, confirmed>> PROVE ItemsInv' /\ CallsKnow'
    BY <1>2, <1>11, QuietStep DEF CallsKnow
  <1>12. ASSUME NEW s \in Scripts, SeedNext(s) PROVE ItemsInv' /\ CallsKnow'
    <2> DEFINE id == DemoOrder[script[s].next]
    <2>1. CASE ~PutAllowed(id)
      BY <1>11, <1>12, <2>1 DEF SeedNext
    <2>2. CASE PutAllowed(id)
      <3>1. id \in DemoIds /\ id \in Ids /\ id \notin ApiIds
        BY <1>1, <1>12, DemoKeys, StoreAssumption DEF SeedNext, TypeOK, ScriptsTyped, Ids
      <3>2. /\ table[id] = Absent
            /\ table' = [table EXCEPT ![id] = DemoItem(id)]
            /\ told' = [told EXCEPT ![id] = <<>>]
            /\ UNCHANGED <<call, confirmed>>
        BY <1>12, <2>2 DEF SeedNext, PutAllowed
      <3> HIDE DEF id
      <3>3. /\ DemoItem(id) \in Item /\ DemoItem(id).demo
            /\ DemoItem(id).predicted = DemoAnswer[id].predicted
            /\ DemoItem(id).predicted \in BOOLEAN
            /\ \/ DemoItem(id).revision = 0 /\ DemoItem(id).feedback = NoFeedback
               \/ /\ DemoItem(id).feedback \in Feedback
                  /\ DemoItem(id).feedback.revision = DemoItem(id).revision
                  /\ DemoItem(id).feedback.correct =
                       (DemoItem(id).feedback.actual = DemoItem(id).predicted)
        BY <3>1, DemoKeys, DemoVerdict
      <3>6. \A j \in Ids : told'[j] = IF j = id THEN <<>> ELSE told[j]
        BY <1>1, <3>2 DEF TypeOK, HistoryTyped
      <3>4. ItemsInv'
        BY <1>1, <1>2, <3>1, <3>2, <3>3, <3>6, AppearStep
      <3>5. \A j \in ApiIds : table[j] # Absent =>
              /\ table'[j] # Absent /\ table'[j].predicted = table[j].predicted
              /\ table'[j].revision >= table[j].revision
        BY <1>1, <3>1, <3>2 DEF TypeOK, TableTyped, Item, Ids
      <3> QED
        BY <1>1, <1>2, <3>2, <3>4, <3>5, KnowStep
    <2> QED
      BY <2>1, <2>2
  <1>13. ASSUME NEW s \in Scripts, DeleteNext(s) PROVE ItemsInv' /\ CallsKnow'
    <2>1. CASE UNCHANGED table
      BY <1>11, <1>13, <2>1 DEF DeleteNext
    <2>2. ASSUME NEW id \in script[s].found, table' = [table EXCEPT ![id] = Absent]
          PROVE  ItemsInv' /\ CallsKnow'
      <3>1. id \in DemoIds /\ id \in Ids /\ id \notin ApiIds
        BY <1>1, <2>2, StoreAssumption DEF TypeOK, ScriptsTyped, Ids
      <3>2. UNCHANGED <<call, told, confirmed>>
        BY <1>13 DEF DeleteNext
      <3>3. ItemsInv'
        BY <1>1, <1>2, <2>2, <3>1, <3>2, RemoveStep
      <3>4. \A j \in ApiIds : table[j] # Absent =>
              /\ table'[j] # Absent /\ table'[j].predicted = table[j].predicted
              /\ table'[j].revision >= table[j].revision
        BY <1>1, <2>2, <3>1 DEF TypeOK, TableTyped, Item, Ids
      <3> QED
        BY <1>1, <1>2, <3>2, <3>3, <3>4, KnowStep
    <2> QED
      BY <1>13, <2>1, <2>2 DEF DeleteNext
  <1>14. CASE UNCHANGED vars
    BY <1>11, <1>14 DEF vars
  <1> QED
    BY <1>4, <1>5, <1>6, <1>7, <1>8, <1>9, <1>10, <1>11, <1>12, <1>13, <1>14
    DEF Next, StartSeed, StartCleanup, ScanPage, ScriptDies

\* The store's safety, for every number of writers, records and scripts: the
\* inductive invariant holds in every reachable state.
THEOREM StoreSafe == Spec => []StoreInv
  BY InvInit, InvNext, PTL DEF Spec

\* A verdict in the table is always about the prediction it is stored with,
\* however many feedback calls, demo cleanups and re-seedings interleave.
THEOREM VerdictsAlwaysAgree == Spec => []VerdictsAgree
  BY StoreSafe, PTL DEF StoreInv

\* No two writers are ever told the same revision of a record.
THEOREM ConfirmationsAlwaysAdvance == Spec => []ConfirmationsAdvance
  BY StoreSafe, PTL DEF StoreInv

\* The last outcome a caller was told is the one stored, unless a later revision
\* replaced it.
THEOREM ConfirmedNeverLost == Spec => []LatestConfirmedSurvives
  BY StoreSafe, PTL DEF StoreInv

\* A prediction the API answered with is never deleted, whatever the demo scripts
\* remove beside it.
THEOREM ConfirmedPersists == Spec => []ConfirmedIsKept
  BY StoreSafe, PTL DEF StoreInv

\* A feedback update never brings a deleted record back as a partial item.
THEOREM NeverPartial == Spec => []NoPartialItem
  BY StoreSafe, PTL DEF StoreInv

-----------------------------------------------------------------------------
(* The store implements the ledger. *)

LEMMA PublicKeeps ==
  ASSUME NEW item \in Item
  PROVE  /\ item # Absent
         /\ Public(item) # Absent
         /\ Public(item) = [predicted |-> item.predicted, revision |-> item.revision,
                            feedback |-> item.feedback]
  <1>1. item # Absent
    BY StoreAssumption
  <1>2. Public(item) = [predicted |-> item.predicted, revision |-> item.revision,
                        feedback |-> item.feedback]
    BY <1>1 DEF Public
  <1>3. Public(item) \in PublicItem
    BY <1>2 DEF PublicItem, Item
  <1> QED
    BY <1>1, <1>2, <1>3, StoreAssumption

LEMMA PublicEdit ==
  ASSUME TableTyped, NEW id \in Ids, NEW item, table' = [table EXCEPT ![id] = item]
  PROVE  PublicTable' = [PublicTable EXCEPT ![id] = Public(item)]
  BY DEF TableTyped, PublicTable, Public

LEMMA PublicRead ==
  ASSUME TableTyped, NEW id \in Ids
  PROVE  /\ table[id] = Absent <=> PublicTable[id] = Absent
         /\ table[id] # Absent => /\ table[id] \in Item
                                  /\ PublicTable[id].predicted = table[id].predicted
                                  /\ PublicTable[id].revision = table[id].revision
  <1>1. PublicTable[id] = Public(table[id])
    BY DEF PublicTable
  <1>2. CASE table[id] = Absent
    BY <1>1, <1>2 DEF Public
  <1>3. CASE table[id] # Absent
    <2>1. table[id] \in Item
      BY <1>3 DEF TableTyped
    <2> QED
      BY <1>1, <1>3, <2>1, PublicKeeps
  <1> QED
    BY <1>2, <1>3

LEMMA LedgerQuiet ==
  ASSUME UNCHANGED <<table, told, confirmed>>
  PROVE  UNCHANGED Ledger!vars
  BY DEF Ledger!vars, PublicTable, Public

LEMMA LedgerInit == Init => Ledger!Init
  BY DEF Init, Ledger!Init, Ledger!Ids, Ids, PublicTable, Public

LEMMA LedgerStep == StoreInv /\ [Next]_vars => [Ledger!Next]_(Ledger!vars)
  <1> SUFFICES ASSUME StoreInv, [Next]_vars PROVE [Ledger!Next]_(Ledger!vars)
    OBVIOUS
  <1>1. TableTyped /\ CallsTyped /\ ScriptsTyped /\ HistoryTyped
    BY DEF StoreInv, TypeOK
  <1>2. ASSUME NEW w \in Replicas, PutPrediction(w) PROVE [Ledger!Next]_(Ledger!vars)
    <2> DEFINE id == call[w].id
               item == PredictionItem(call[w].class)
    <2>1. id \in ApiIds /\ id \in Ids /\ call[w].class \in BOOLEAN
      BY <1>1, <1>2 DEF PutPrediction, CallsTyped, Call, Writers, Ids
    <2>2. CASE ~PutAllowed(id)
      BY <1>2, <2>2, LedgerQuiet DEF PutPrediction
    <2>3. CASE PutAllowed(id)
      <3>1. /\ table[id] = Absent
            /\ table' = [table EXCEPT ![id] = item]
            /\ \/ UNCHANGED confirmed
               \/ confirmed' = confirmed \union {id}
            /\ UNCHANGED told
        BY <1>2, <2>3 DEF PutPrediction, PutAllowed
      <3>2. /\ item \in Item
            /\ item.predicted = call[w].class /\ item.revision = 0 /\ item.feedback = NoFeedback
        BY <2>1 DEF PredictionItem, Item
      <3> HIDE DEF id, item
      <3>3. Public(item) = [predicted |-> call[w].class, revision |-> 0, feedback |-> NoFeedback]
        BY <3>2, PublicKeeps
      <3>4. PublicTable[id] = Absent /\ PublicTable' = [PublicTable EXCEPT ![id] = Public(item)]
        BY <1>1, <2>1, <3>1, PublicRead, PublicEdit
      <3>5. Ledger!Record(id)
        BY <2>1, <3>1, <3>3, <3>4 DEF Ledger!Record
      <3> QED
        BY <2>1, <3>5 DEF Ledger!Next
    <2> QED
      BY <2>2, <2>3
  <1>3. ASSUME NEW w \in Writers, UpdateFeedback(w) PROVE [Ledger!Next]_(Ledger!vars)
    <2> DEFINE id == call[w].id
               report == Report(call[w])
               item == Revised(table[id], report)
    <2>1. CASE ~UpdateAllowed(id, call[w].expected)
      BY <1>3, <2>1, LedgerQuiet DEF UpdateFeedback
    <2>2. CASE UpdateAllowed(id, call[w].expected)
      <3>1. /\ id \in Ids /\ table[id] # Absent /\ table[id] \in Item
            /\ report \in Feedback
            /\ report.actual = call[w].class
            /\ report.revision > table[id].revision
            /\ report.correct = (report.actual = table[id].predicted)
            /\ id \in ApiIds => report.revision = table[id].revision + 1
        BY <1>3, <2>2, ReportFits DEF UpdateFeedback
      <3>2. /\ table' = [table EXCEPT ![id] = item]
            /\ \/ UNCHANGED told
               \/ told' = [told EXCEPT ![id] = Append(@, report)]
            /\ UNCHANGED confirmed
        BY <1>3, <2>2 DEF UpdateFeedback
      <3>3. /\ item \in Item /\ item.predicted = table[id].predicted
            /\ item.revision = report.revision /\ item.feedback = report
        <4>1. item \in Item
          BY <3>1, RevisedType
        <4>2. item = [table[id] EXCEPT !.revision = report.revision, !.feedback = report]
          BY <3>1 DEF Revised
        <4> HIDE DEF item
        <4> QED
          BY <3>1, <4>1, <4>2 DEF Item
      <3>4. report = [actual |-> report.actual, correct |-> report.correct,
                      revision |-> report.revision]
        BY <3>1 DEF Feedback
      <3> HIDE DEF id, report, item
      <3>5. /\ PublicTable[id] # Absent
            /\ PublicTable[id].predicted = table[id].predicted
            /\ PublicTable[id].revision = table[id].revision
            /\ PublicTable' = [PublicTable EXCEPT ![id] = Public(item)]
            /\ Public(item) = [predicted |-> PublicTable[id].predicted,
                               revision |-> report.revision, feedback |-> report]
        <4>1. /\ PublicTable[id] # Absent
              /\ PublicTable[id].predicted = table[id].predicted
              /\ PublicTable[id].revision = table[id].revision
          BY <1>1, <3>1, PublicRead
        <4>2. PublicTable' = [PublicTable EXCEPT ![id] = Public(item)]
          BY <1>1, <3>1, <3>2, PublicEdit
        <4>3. Public(item) = [predicted |-> item.predicted, revision |-> item.revision,
                              feedback |-> item.feedback]
          BY <3>3, PublicKeeps
        <4> QED
          BY <3>3, <4>1, <4>2, <4>3
      <3>6. report.actual \in BOOLEAN
        BY <3>1 DEF Feedback
      <3>7. report = Ledger!Judged(report.actual, PublicTable[id].predicted, report.revision)
        BY <3>1, <3>4, <3>5 DEF Ledger!Judged
      <3>8. Ledger!Report(id, report.revision)
        BY <3>2, <3>5, <3>6, <3>7 DEF Ledger!Report
      <3>9. CASE id \in ApiIds
        BY <3>1, <3>5, <3>8, <3>9 DEF Ledger!Next, Ledger!ReportApi
      <3>10. CASE id \in DemoIds
        <4>1. Public(item) # Absent
          BY <3>3, PublicKeeps
        <4>2. PublicTable'[id] # Absent /\ PublicTable'[id].revision = report.revision
          BY <3>1, <3>5, <4>1 DEF PublicTable
        <4> QED
          BY <3>1, <3>5, <3>8, <3>10, <4>2 DEF Ledger!Next, Ledger!ReportDemo
      <3> QED
        BY <3>1, <3>9, <3>10 DEF Ids
    <2> QED
      BY <2>1, <2>2
  <1>4. ASSUME NEW s \in Scripts, SeedNext(s) PROVE [Ledger!Next]_(Ledger!vars)
    <2> DEFINE id == DemoOrder[script[s].next]
    <2>1. id \in DemoIds /\ id \in Ids
      BY <1>1, <1>4, DemoKeys DEF SeedNext, ScriptsTyped, Ids
    <2>2. CASE ~PutAllowed(id)
      BY <1>4, <2>2, LedgerQuiet DEF SeedNext
    <2>3. CASE PutAllowed(id)
      <3>1. /\ table[id] = Absent
            /\ table' = [table EXCEPT ![id] = DemoItem(id)]
            /\ told' = [told EXCEPT ![id] = <<>>]
            /\ UNCHANGED confirmed
        BY <1>4, <2>3 DEF SeedNext, PutAllowed
      <3> HIDE DEF id
      <3>2. DemoItem(id) \in Item
        BY <2>1, DemoKeys
      <3>3. PublicTable[id] = Absent
            /\ PublicTable' = [PublicTable EXCEPT ![id] = Public(DemoItem(id))]
        BY <1>1, <2>1, <3>1, PublicRead, PublicEdit
      <3> DEFINE a == DemoAnswer[id]
      <3>4. a.predicted \in BOOLEAN /\ a.actual \in BOOLEAN
        BY <2>1, StoreAssumption
      <3>5. \/ Public(DemoItem(id)) =
                 [predicted |-> a.predicted, revision |-> 0, feedback |-> NoFeedback]
            \/ Public(DemoItem(id)) =
                 [predicted |-> a.predicted, revision |-> 1,
                  feedback |-> Ledger!Judged(a.actual, a.predicted, 1)]
        <4>1. Public(DemoItem(id)) =
                [predicted |-> DemoItem(id).predicted, revision |-> DemoItem(id).revision,
                 feedback |-> DemoItem(id).feedback]
          BY <3>2, PublicKeeps
        <4>2. CASE a.labelled
          <5>1. /\ DemoItem(id).predicted = a.predicted /\ DemoItem(id).revision = 1
                /\ DemoItem(id).feedback = Ledger!Judged(a.actual, a.predicted, 1)
            BY <4>2 DEF DemoItem, Ledger!Judged
          <5> QED
            BY <4>1, <5>1
        <4>3. CASE ~a.labelled
          <5>1. /\ DemoItem(id).predicted = a.predicted /\ DemoItem(id).revision = 0
                /\ DemoItem(id).feedback = NoFeedback
            BY <4>3 DEF DemoItem
          <5> QED
            BY <4>1, <5>1
        <4> QED
          BY <4>2, <4>3
      <3>6. Ledger!RecordDemo(id)
        BY <3>1, <3>3, <3>4, <3>5 DEF Ledger!RecordDemo
      <3> QED
        BY <2>1, <3>6 DEF Ledger!Next
    <2> QED
      BY <2>2, <2>3
  <1>5. ASSUME NEW s \in Scripts, DeleteNext(s) PROVE [Ledger!Next]_(Ledger!vars)
    <2>1. UNCHANGED <<told, confirmed>>
      BY <1>5 DEF DeleteNext
    <2>2. CASE UNCHANGED table
      BY <2>1, <2>2, LedgerQuiet
    <2>3. ASSUME NEW id \in script[s].found, DeleteAllowed(id),
                 table' = [table EXCEPT ![id] = Absent]
          PROVE  [Ledger!Next]_(Ledger!vars)
      <3>1. id \in DemoIds /\ id \in Ids /\ table[id] # Absent
        BY <1>1, <2>3 DEF ScriptsTyped, Ids, DeleteAllowed
      <3>2. PublicTable[id] # Absent /\ PublicTable' = [PublicTable EXCEPT ![id] = Absent]
        BY <1>1, <2>3, <3>1, PublicRead, PublicEdit DEF Public
      <3>3. Ledger!Remove(id)
        BY <2>1, <3>2 DEF Ledger!Remove
      <3> QED
        BY <3>1, <3>3 DEF Ledger!Next
    <2> QED
      BY <1>5, <2>2, <2>3 DEF DeleteNext
  <1> QED
    BY <1>2, <1>3, <1>4, <1>5, LedgerQuiet
    DEF Next, vars, StartPredict, StartFeedback, GetPrediction, ReadRevision, GiveUp,
        StartSeed, StartCleanup, ScanPage, ScriptDies

\* Reads, conditional writes, lost answers, re-sent requests, deaths of writers
\* and demo runs together behave as single operations of the ledger.
THEOREM StoreImplementsLedger == Spec => ImplementsLedger
  <1>1. Spec => []StoreInv
    BY StoreSafe
  <1> QED
    BY <1>1, LedgerInit, LedgerStep, PTL DEF Spec, ImplementsLedger, Ledger!Spec

-----------------------------------------------------------------------------
(* The replicas: what is served and stored is the pinned, recorded release's *)

USE ServiceAssumption

\* A cache starts empty.
LEMMA EmptyCacheType == EmptyCache \in [Keys -> Answers \union {None}]
  BY DEF EmptyCache

\* A process that is down is a process.
LEMMA DownType == Down \in Process
  BY EmptyCacheType DEF Down, Process

\* Every release has a version.
LEMMA VersionType == \A release \in Releases : Version[release] \in Versions
  BY DEF Versions

\* Every request has a key.
LEMMA KeyType == \A request \in Requests : CacheKey(request) \in Keys
  BY DEF Keys

\* Two requests have two keys.
LEMMA KeyInjective == \A q1, q2 \in Requests : CacheKey(q1) = CacheKey(q2) => q1 = q2
  BY DEF CacheKey

\* A process that is down is sound whatever is on record.
LEMMA DownSound == \A recorded : Sound(Down, recorded)
<1>1. \A request \in Requests : EmptyCache[CacheKey(request)] = None
  BY KeyType DEF EmptyCache
<1> QED
  BY DownType, <1>1 DEF Sound, Down

\* The invariant of the replicas holds at first.
LEMMA ApiInit == ServiceInit => ServiceInv
<1> SUFFICES ASSUME ServiceInit PROVE ServiceInv
  OBVIOUS
<1>1. \A r \in Servers : replica[r] = Down
  BY DEF ServiceInit
<1>2. \A r \in Servers : Sound(replica[r], models)
  BY <1>1, DownSound
<1>3. \A id \in EventIds : SoundEvent(events[id], models)
  BY DEF ServiceInit, SoundEvent
<1> QED
  BY <1>2, <1>3, DownType DEF ServiceInv, ServiceInit

\* A step that replaces one process by a sound one, and changes no record of a
\* model or a prediction, keeps the invariant.
LEMMA OneProcess ==
  ASSUME ServiceInv, NEW r \in Servers, NEW p,
         replica' = [replica EXCEPT ![r] = p],
         Sound(p, models),
         errors' \in SUBSET EventIds,
         UNCHANGED <<alias, models, events>>
  PROVE  ServiceInv'
<1>1. p \in Process
  BY DEF Sound
<1>2. replica' \in [Servers -> Process]
  BY <1>1 DEF ServiceInv
<1>3. \A s \in Servers : Sound(replica'[s], models')
  BY DEF ServiceInv
<1>4. \A id \in EventIds : SoundEvent(events'[id], models')
  BY DEF ServiceInv
<1> QED
  BY <1>2, <1>3, <1>4 DEF ServiceInv

\* What is sound stays so when a version is recorded that had no record.
LEMMA RecordKeeps ==
  ASSUME NEW release \in Releases,
         models \in [Versions -> Releases \union {None}],
         models[Version[release]] \in {None, release},
         models' = [models EXCEPT ![Version[release]] = release]
  PROVE  /\ models' \in [Versions -> Releases \union {None}]
         /\ models'[Version[release]] = release
         /\ \A other \in Releases :
              models[Version[other]] = other => models'[Version[other]] = other
         /\ \A p : Sound(p, models) => Sound(p, models')
         /\ \A event \in Event \union {None} :
              SoundEvent(event, models) => SoundEvent(event, models')
<1>1. models' \in [Versions -> Releases \union {None}] /\ models'[Version[release]] = release
  BY VersionType
<1>2. \A other \in Releases : models[Version[other]] = other => models'[Version[other]] = other
  BY VersionType
<1>3. ASSUME NEW p, Sound(p, models) PROVE Sound(p, models')
  <2>1. p \in Process /\ (p.pc # "down" => p.pinned \in Releases)
    BY <1>3 DEF Sound, Process
  <2> QED
    BY <1>2, <1>3, <2>1 DEF Sound
<1>4. ASSUME NEW event \in Event \union {None}, SoundEvent(event, models)
      PROVE  SoundEvent(event, models')
  <2>1. event # None => event.release \in Releases
    BY DEF Event
  <2> QED
    BY <1>2, <1>4, <2>1 DEF SoundEvent
<1> QED
  BY <1>1, <1>2, <1>3, <1>4

-----------------------------------------------------------------------------
(* Every action keeps the invariant. *)

LEMMA StartInv ==
  ASSUME ServiceInv, NEW r \in Servers, Start(r)
  PROVE  ServiceInv'
<1>1. PICK pinned \in Releases :
        replica' = [replica EXCEPT ![r] = [Down EXCEPT !.pc = "load", !.pinned = pinned]]
  BY DEF Start
<1> DEFINE p == [Down EXCEPT !.pc = "load", !.pinned = pinned]
<1>2. \A request \in Requests : EmptyCache[CacheKey(request)] = None
  BY KeyType DEF EmptyCache
<1>3. Sound(p, models)
  BY <1>2, EmptyCacheType DEF Sound, Down, Process
<1> QED
  BY <1>1, <1>3, OneProcess DEF Start, ServiceInv

LEMMA LoadInv ==
  ASSUME ServiceInv, NEW r \in Servers, Load(r)
  PROVE  ServiceInv'
<1> DEFINE old == replica[r]
<1>1. Sound(old, models) /\ old \in Process /\ alias \in Releases
  BY DEF ServiceInv
<1>2. \A request \in Requests : EmptyCache[CacheKey(request)] = None
  BY KeyType DEF EmptyCache
<1>3. CASE replica' = [replica EXCEPT ![r] = [old EXCEPT !.pc = "connect"]]
  <2>1. Sound([old EXCEPT !.pc = "connect"], models)
    BY <1>1 DEF Sound, Process, Load
  <2> QED
    BY <1>3, <2>1, OneProcess DEF Load, ServiceInv
<1>4. CASE replica' = [replica EXCEPT ![r] = [old EXCEPT !.pc = "connect", !.runtime = old.pinned]]
  <2>1. Sound([old EXCEPT !.pc = "connect", !.runtime = old.pinned], models)
    BY <1>1, <1>2 DEF Sound, Process, Load
  <2> QED
    BY <1>4, <2>1, OneProcess DEF Load, ServiceInv
<1> QED
  BY <1>1, <1>3, <1>4 DEF Load, Verified

LEMMA ConnectInv ==
  ASSUME ServiceInv, NEW r \in Servers, Connect(r)
  PROVE  ServiceInv'
<1> DEFINE old == replica[r]
<1>1. Sound(old, models) /\ old \in Process /\ old.pc = "connect"
  BY DEF ServiceInv, Connect
<1>2. PICK connected \in BOOLEAN :
        replica' = [replica EXCEPT ![r] = [old EXCEPT !.repository = connected,
          !.pc = IF connected /\ old.runtime # None THEN "register" ELSE "up"]]
  BY DEF Connect
<1>3. Sound([old EXCEPT !.repository = connected,
               !.pc = IF connected /\ old.runtime # None THEN "register" ELSE "up"], models)
  <2>1. CASE connected /\ old.runtime # None
    BY <1>1, <2>1 DEF Sound, Process
  <2>2. CASE ~connected
    BY <1>1, <2>2 DEF Sound, Process
  <2>3. CASE connected /\ old.runtime = None
    BY <1>1, <2>3 DEF Sound, Process
  <2> QED
    BY <2>1, <2>2, <2>3
<1> QED
  BY <1>2, <1>3, OneProcess DEF Connect, ServiceInv

LEMMA RegisterInv ==
  ASSUME ServiceInv, NEW r \in Servers, Register(r)
  PROVE  ServiceInv'
<1> DEFINE old == replica[r]
           release == old.pinned
           failed == [old EXCEPT !.pc = "up", !.repository = FALSE]
<1>1. Sound(old, models) /\ old \in Process /\ old.pc = "register" /\ release \in Releases
  BY DEF ServiceInv, Register, Sound, Process
<1>2. \A recorded : Sound(old, recorded) => Sound(failed, recorded)
  BY <1>1 DEF Sound, Process
<1>3. CASE replica' = RegisterFailed(r) /\ UNCHANGED models
  BY ZenonT(60), <1>1, <1>2, <1>3, OneProcess DEF Register, RegisterFailed, ServiceInv
<1>4. CASE /\ RegisterAllowed(release)
           /\ models' = [models EXCEPT ![Version[release]] = release]
           /\ \/ replica' = [replica EXCEPT ![r].pc = "up"]
              \/ replica' = RegisterFailed(r)
  <2>1. /\ models' \in [Versions -> Releases \union {None}]
        /\ models'[Version[release]] = release
        /\ \A p : Sound(p, models) => Sound(p, models')
        /\ \A event \in Event \union {None} :
             SoundEvent(event, models) => SoundEvent(event, models')
    BY <1>1, <1>4, RecordKeeps DEF RegisterAllowed, ServiceInv
  <2>2. Sound([old EXCEPT !.pc = "up"], models')
    BY <1>1, <2>1 DEF Sound, Process
  <2>3. Sound(failed, models')
    BY <1>1, <1>2, <2>1
  <2>4. PICK p : Sound(p, models') /\ replica' = [replica EXCEPT ![r] = p]
    BY <1>4, <2>2, <2>3 DEF RegisterFailed
  <2>5. replica' \in [Servers -> Process]
    BY <2>4 DEF ServiceInv, Sound
  <2>6. \A s \in Servers : Sound(replica'[s], models')
    BY <2>1, <2>4 DEF ServiceInv
  <2>7. \A id \in EventIds : SoundEvent(events'[id], models')
    BY <2>1 DEF ServiceInv, Register
  <2> QED
    BY <2>1, <2>5, <2>6, <2>7 DEF ServiceInv, Register
<1> QED
  BY <1>3, <1>4 DEF Register

LEMMA StopInv ==
  ASSUME ServiceInv, NEW r \in Servers, Stop(r)
  PROVE  ServiceInv'
  BY DownSound, OneProcess DEF Stop, ServiceInv

LEMMA PredictInv ==
  ASSUME ServiceInv, NEW r \in Servers, Predict(r)
  PROVE  ServiceInv'
<1> DEFINE old == replica[r]
<1>1. /\ Sound(old, models) /\ old \in Process /\ old.pc = "up"
      /\ old.runtime = old.pinned /\ old.pinned \in Releases /\ old.repository
      /\ models[Version[old.pinned]] = old.pinned
  BY DEF ServiceInv, Predict, Ready, Sound, Process
<1>2. PICK request \in Requests, id \in EventIds :
        PredictHit(r, request, id) \/ PredictMiss(r, request, id) \/ PredictError(r, id)
  BY DEF Predict
<1>3. CASE PredictError(r, id)
  <2>1. replica' = replica /\ errors' \in SUBSET EventIds
    BY <1>3 DEF PredictError, ServiceInv
  <2> QED
    BY <2>1 DEF ServiceInv, Predict
<1>4. CASE PredictHit(r, request, id)
  <2> DEFINE event == Recorded(r, request, old.cache[CacheKey(request)], TRUE)
             p == [old EXCEPT !.pc = "put", !.id = id, !.event = event]
  <2>1. old.cache[CacheKey(request)] = Answer(old.pinned, request)
    BY <1>1, <1>4 DEF PredictHit, Sound
  <2>2. event \in Event /\ event.release = old.pinned /\ event.request = request
        /\ event.answer = Answer(old.pinned, request)
    BY <1>1, <2>1 DEF Event, Recorded, Answer, Answers
  <2> HIDE DEF event
  <2>3. Sound(p, models)
    BY <1>1, <2>2 DEF Sound, Process
  <2>4. replica' = [replica EXCEPT ![r] = p]
    BY <1>4 DEF PredictHit, event
  <2> HIDE DEF p
  <2> QED
    BY <1>4, <2>3, <2>4, OneProcess DEF PredictHit, Predict, ServiceInv
<1>5. CASE PredictMiss(r, request, id)
  <2> DEFINE answer == Answer(old.runtime, request)
             event == Recorded(r, request, answer, FALSE)
  <2>1. PICK rest \in Survivors(old.cache) :
          replica' = [replica EXCEPT ![r].pc = "put", ![r].id = id,
                        ![r].cache = [rest EXCEPT ![CacheKey(request)] = answer],
                        ![r].event = event]
    BY <1>5 DEF PredictMiss
  <2> DEFINE cache == [rest EXCEPT ![CacheKey(request)] = answer]
             p == [old EXCEPT !.pc = "put", !.id = id, !.cache = cache, !.event = event]
  <2>2. answer \in Answers
    BY <1>1 DEF Answer, Answers
  <2>3. event \in Event /\ event.release = old.pinned /\ event.request = request
        /\ event.answer = Answer(old.pinned, request)
    BY <1>1, <2>2 DEF Event, Recorded
  <2>4. /\ rest \in [Keys -> Answers \union {None}]
        /\ \A key \in Keys : rest[key] \in {None, old.cache[key]}
    BY <1>1 DEF Survivors, Process
  <2>5. cache \in [Keys -> Answers \union {None}]
    BY <2>2, <2>4
  <2>6. \A q \in Requests : cache[CacheKey(q)] \in {None, Answer(old.runtime, q)}
    <3> SUFFICES ASSUME NEW q \in Requests
                 PROVE  cache[CacheKey(q)] \in {None, Answer(old.runtime, q)}
      OBVIOUS
    <3>1. old.cache[CacheKey(q)] \in {None, Answer(old.runtime, q)}
      BY <1>1 DEF Sound
    <3>2. CASE CacheKey(q) = CacheKey(request)
      BY <2>4, <3>2, KeyType, KeyInjective
    <3>3. CASE CacheKey(q) # CacheKey(request)
      BY <2>4, <3>1, <3>3, KeyType
    <3> QED
      BY <3>2, <3>3
  <2>7. replica' = [replica EXCEPT ![r] = p]
    BY <2>1
  <2> HIDE DEF event, cache, answer
  <2>8. Sound(p, models)
    BY <1>1, <2>3, <2>5, <2>6 DEF Sound, Process
  <2> HIDE DEF p
  <2> QED
    BY <1>5, <2>7, <2>8, OneProcess DEF PredictMiss, Predict, ServiceInv
<1> QED
  BY <1>2, <1>3, <1>4, <1>5

LEMMA PutInv ==
  ASSUME ServiceInv, NEW r \in Servers, PutEvent(r)
  PROVE  ServiceInv'
<1> DEFINE old == replica[r]
           p == [old EXCEPT !.pc = "up", !.id = None, !.event = None]
<1>1. Sound(old, models) /\ old \in Process /\ old.pc = "put"
  BY DEF ServiceInv, PutEvent
<1>2. replica' = [replica EXCEPT ![r] = p]
  BY DEF PutEvent
<1>3. Sound(p, models)
  BY <1>1 DEF Sound, Process
<1> HIDE DEF p
<1>4. CASE UNCHANGED events
  BY <1>2, <1>3, <1>4, OneProcess DEF PutEvent, ServiceInv
<1>5. CASE events' = [events EXCEPT ![old.id] = old.event]
  <2>1. replica' \in [Servers -> Process] /\ \A s \in Servers : Sound(replica'[s], models)
    BY <1>2, <1>3 DEF ServiceInv, Sound
  <2>2. old.id \in EventIds /\ old.event \in Event /\ old.event # None
    BY <1>1 DEF Sound, Process
  <2>3. SoundEvent(old.event, models)
    BY <1>1 DEF Sound, SoundEvent
  <2>4. events' \in [EventIds -> Event \union {None}]
    BY <1>5, <2>2 DEF ServiceInv
  <2>5. \A id \in EventIds : SoundEvent(events'[id], models)
    BY <1>5, <2>2, <2>3 DEF ServiceInv
  <2> QED
    BY <2>1, <2>4, <2>5 DEF ServiceInv, PutEvent
<1> QED
  BY <1>4, <1>5 DEF PutEvent

\* Every step keeps the invariant of the replicas.
LEMMA ApiNext == ServiceInv /\ [ServiceNext]_serviceVars => ServiceInv'
<1> SUFFICES ASSUME ServiceInv, [ServiceNext]_serviceVars PROVE ServiceInv'
  OBVIOUS
<1>1. CASE MoveAlias
  BY <1>1 DEF MoveAlias, ServiceInv
<1>2. CASE UNCHANGED serviceVars
  BY <1>2 DEF serviceVars, ServiceInv
<1> QED
  BY <1>1, <1>2, StartInv, LoadInv, ConnectInv, RegisterInv, StopInv, PredictInv, PutInv
  DEF ServiceNext

\* The serving and recording invariant holds in every reachable state.
THEOREM ServiceSafe == ServiceSpec => []ServiceInv
  BY ApiInit, ApiNext, PTL DEF ServiceSpec

\* Every variable keeps its type.
THEOREM ServiceTyped == ServiceSpec => []ServiceTypeOK
<1>1. ServiceInv => ServiceTypeOK
  BY DEF ServiceInv, ServiceTypeOK
<1> QED
  BY <1>1, ServiceSafe, PTL

\* A replica that serves runs the verified bundle its decision names, and that
\* release is the one on record.
THEOREM ServesVerified == ServiceSpec => []ReadyIsVerified
<1>1. ServiceInv => ReadyIsVerified
  BY DEF ServiceInv, ReadyIsVerified, Ready, Sound
<1> QED
  BY <1>1, ServiceSafe, PTL

\* A stored prediction's release is the one on record under its version
\* (put_model_metadata's condition).
THEOREM EventsTraceable == ServiceSpec => []EventsAttributable
<1>1. ServiceInv => EventsAttributable
  BY DEF ServiceInv, EventsAttributable, SoundEvent
<1> QED
  BY <1>1, ServiceSafe, PTL

\* A stored answer is the recorded release's answer to the stored request, from
\* the cache or not (predict).
THEOREM AnswersSafe == ServiceSpec => []AnswersAreTheModels
<1>1. ServiceInv => AnswersAreTheModels
  BY DEF ServiceInv, AnswersAreTheModels, SoundEvent
<1> QED
  BY <1>1, ServiceSafe, PTL

\* A replica caches, and is about to store, only answers of the bundle it runs.
THEOREM CachesSafe == ServiceSpec => []CachesAreTheModels
<1>1. ServiceInv => CachesAreTheModels
  BY DEF ServiceInv, CachesAreTheModels, Sound
<1> QED
  BY <1>1, ServiceSafe, PTL
=============================================================================
