----------------------------- MODULE Thresholds -----------------------------
(***************************************************************************)
(* The decision-threshold searches of the model generations, over a sample *)
(* of labelled scores.  A ratio of counts is held as an exact number of    *)
(* parts of Unit; a key is a tuple of numbers, the smaller the better.     *)
(***************************************************************************)
EXTENDS Integers, Sequences, FiniteSets

CONSTANTS
  Unit,    \* how many parts one has: ratios are held in them
  Limits,  \* what a protocol asks of a threshold: recall, precision, rate, f1, in parts of Unit
  NoRow    \* no threshold satisfies it

\* What a threshold is and what it achieves.
Measures ==
  [threshold : Int, precision : Int, recall : Int, f1 : Int, rate : Int]

ASSUME LimitsAssumption ==
  /\ Unit \in Nat \ {0}
  /\ Limits \in [recall : 1..Unit, precision : 1..Unit, rate : 0..Unit, f1 : 0..Unit]
  /\ NoRow \notin Measures

\* Exact where b divides Unit.
Ratio(a, b) == IF b = 0 THEN 0 ELSE (a * Unit) \div b
Distance(t) == IF t < 50 THEN 50 - t ELSE t - 50

\* A sample is a sequence of [label, score]; scores are percents.
Positives(sample) == Cardinality({i \in DOMAIN sample : sample[i].label = 1})
Scores(sample) == {sample[i].score : i \in DOMAIN sample}

\* What a threshold achieves, from its counts of true and predicted positives.
Row(sample, t, tp, pp) ==
  [threshold |-> t,
   precision |-> Ratio(tp, pp),
   recall |-> Ratio(tp, Positives(sample)),
   f1 |-> Ratio(2 * tp, Positives(sample) + pp),
   rate |-> Ratio(pp, Len(sample))]

\* The rows at or above a threshold, counted one threshold at a time.
CountedRow(sample, t) ==
  Row(sample, t,
      Cardinality({i \in DOMAIN sample : sample[i].score >= t /\ sample[i].label = 1}),
      Cardinality({i \in DOMAIN sample : sample[i].score >= t}))

\* precision_recall_curve: one row for every distinct score.
CurveRows(sample) == {CountedRow(sample, t) : t \in Scores(sample)}

-----------------------------------------------------------------------------
(* Lexicographic choice *)

Precedes(a, b) ==
  \E i \in DOMAIN a : a[i] < b[i] /\ \A j \in 1..(i - 1) : a[j] = b[j]

\* The first in the order of its key.
Best(S, Key(_)) ==
  IF S = {} THEN NoRow ELSE CHOOSE r \in S : \A o \in S : ~Precedes(Key(o), Key(r))

-----------------------------------------------------------------------------
(* v0: the best F1 of enough recall, then recall, precision, nearness to 0.5 *)

\* Among equal F1, the larger recall.
SelectThresholdKey(r) == <<-r.f1, -r.recall, -r.precision, Distance(r.threshold)>>

SelectThreshold(sample) ==
  Best({r \in CurveRows(sample) : r.recall >= Limits.recall}, SelectThresholdKey)

\* The remediation prefers precision among equal F1.
RemediationKey(r) == <<-r.f1, -r.precision, Distance(r.threshold), r.threshold>>

SelectThresholdRemediation(sample) ==
  Best({r \in CurveRows(sample) : r.recall >= Limits.recall}, RemediationKey)

-----------------------------------------------------------------------------
(* v1, and the finalists of v2 and v3: one sweep over the sorted scores *)

\* Descending and stable: as many places are before each as it has before it.
Sooner(sample, i, j) ==
  sample[i].score > sample[j].score \/ (sample[i].score = sample[j].score /\ i < j)

Sorted(sample) ==
  [k \in DOMAIN sample |->
     sample[CHOOSE i \in DOMAIN sample :
              Cardinality({j \in DOMAIN sample : Sooner(sample, j, i)}) = k - 1]]

Cumulative(sorted) ==
  LET sum[k \in 0..Len(sorted)] == IF k = 0 THEN 0 ELSE sum[k - 1] + sorted[k].label
  IN sum

\* The last place of every group of equal scores.
GroupEnds(sorted) ==
  {k \in DOMAIN sorted : k = Len(sorted) \/ sorted[k + 1].score # sorted[k].score}

SweepRows(sample) ==
  LET sorted == Sorted(sample)
      cumulative == Cumulative(sorted)
  IN {Row(sample, sorted[k].score, cumulative[k], k) : k \in GroupEnds(sorted)}

\* Mutant: how many flights are flagged is not bounded.
EligibleAnyRate(r) == r.recall >= Limits.recall /\ r.precision >= Limits.precision

\* What the protocol asks of a threshold.
Eligible(r) ==
  r.recall >= Limits.recall /\ r.precision >= Limits.precision /\ r.rate <= Limits.rate

V1Key(r) == <<-r.f1, -r.precision, -r.recall, r.rate, Distance(r.threshold), -r.threshold>>

ChooseThresholdRow(rows) == Best({r \in rows : Eligible(r)}, V1Key)

SelectV1Threshold(sample) == ChooseThresholdRow(SweepRows(sample))

-----------------------------------------------------------------------------
(* The search metric of v2 and v3 *)

\* Mutant: precision is no part of the order.
OperatingKeyNearest(r) == <<-r.recall, Distance(r.threshold), r.rate, -r.threshold>>

OperatingKey(r) == <<-r.precision, -r.recall, r.rate, Distance(r.threshold), -r.threshold>>

\* The most precise threshold of enough recall within the rate; all zero when
\* there is none, with the best F1 of the rate beside it.
SearchOperatingPoint(sample) ==
  LET bounded == {r \in {CountedRow(sample, t) : t \in Scores(sample)} : r.rate <= Limits.rate}
      best == Best({r \in bounded : r.recall >= Limits.recall}, OperatingKey)
      f1 == {r.f1 : r \in bounded} \union {0}
  IN [precision |-> IF best = NoRow THEN 0 ELSE best.precision,
      recall |-> IF best = NoRow THEN 0 ELSE best.recall,
      bestF1 |-> CHOOSE m \in f1 : \A o \in f1 : o <= m]
=============================================================================
