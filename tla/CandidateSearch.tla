-------------------------- MODULE CandidateSearch --------------------------
(***************************************************************************)
(* The search for a model, in its five generations: the v0 selection       *)
(* (select), its remediation (remediate), and the governed v1, v2 and v3.  *)
(* Candidates are fitted one after another over the temporal folds, the    *)
(* best advance under the generation's ranking - in v2 and v3 after a      *)
(* second fit on the CPU - and the finalists made of them are measured on  *)
(* the November selection partition, each with a threshold of its own,     *)
(* until one winner or none is left.                                       *)
(*                                                                         *)
(* A fold's evidence is the level of its leading metric, and the metrics   *)
(* that rank behind the folds are one level; a finalist's gates on         *)
(* probabilities, latency, size and governance are one quality.            *)
(***************************************************************************)
EXTENDS Thresholds, SequencesExt

CONSTANTS
  Results,      \* what fitting a candidate may show: [folds, rest]
  Matrix,       \* generation -> family -> how many identities it has
  Confirmed,    \* per family, how many are fitted again on the CPU
  Advanced,     \* per family, how many are refitted for November
  Methods,      \* generation -> the calibration variants of a finalist
  Ensembles,    \* how many blends v3 makes of its two bases
  Labels,       \* the label sequences the selection partition may have
  Scorings,     \* the score sequences the threshold searches are compared on
  Assessments   \* those of them that a finalist is measured with

Generations == {"select", "remediate", "v1", "v2", "v3"}
Governed == {"v1", "v2", "v3"}

\* The order of families in the configuration and in the protocols.
Families(g) ==
  CASE g = "select" -> <<"tuned">>
    [] g = "remediate" -> <<"R">>
    [] g = "v1" -> <<"CB">>
    [] OTHER -> <<"lightgbm", "catboost">>

ASSUME SearchAssumption ==
  /\ \A r \in Results : r.rest \in Nat /\ r.folds \in Seq(Nat) /\ Len(r.folds) >= 2
  /\ \A g \in Generations : \A i \in DOMAIN Families(g) : Matrix[g][Families(g)[i]] \in Nat \ {0}
  /\ Matrix["v1"]["CB"] >= 2
  /\ \A g \in {"v2", "v3"} : \A i \in DOMAIN Families(g) : Confirmed <= Matrix[g][Families(g)[i]]
  /\ \A g \in Generations : Methods[g] \in Seq({"isotonic", "none", "sigmoid"})
  /\ Assessments \subseteq Scorings
  /\ \A l \in Labels : l \in Seq({0, 1}) /\ Scorings \subseteq [DOMAIN l -> 0..100]
  /\ \A l \in Labels : \A d \in 1..(2 * Len(l)) : Unit % d = 0   \* every ratio is exact
  /\ Confirmed \in Nat \ {0} /\ Advanced \in 1..Confirmed /\ Ensembles \in Nat
  /\ NoRow \notin Results \union [precision : Int, f1 : Int, rate : Int]

VARIABLES
  generation,
  labels,      \* of the selection partition, once it is read
  stage,       \* "control", "search", "confirm", "refit", "november", "decided", "failed"
  queue,       \* what is still to be fitted or measured in this stage
  rows,        \* the evidence of this stage
  screening,   \* the evidence of the stage before the CPU confirmation
  advanced,    \* the identities refitted for November
  finalists,   \* those measured
  winner

searchVars == <<generation, labels, stage, queue, rows, screening, advanced, finalists, winner>>

Identity(family, n) == [family |-> family, n |-> n]

\* Every identity of the matrix, in its order; R0 is the first of its family.
Plan(g) ==
  FlattenSeq([i \in DOMAIN Families(g) |->
    [n \in 1..Matrix[g][Families(g)[i]] |-> Identity(Families(g)[i], n)]])

\* The place of an identity in the matrix.
MatrixOrder(id) ==
  <<CHOOSE i \in DOMAIN Families(generation) : Families(generation)[i] = id.family, id.n>>

SearchInit ==
  /\ generation \in Generations
  /\ labels = <<>>
  /\ stage = IF generation \in Governed THEN "control" ELSE "search"
  /\ queue = Plan(generation)
  /\ rows = <<>> /\ screening = <<>> /\ advanced = <<>> /\ finalists = <<>>
  /\ winner = NoRow

-----------------------------------------------------------------------------
(* Fitting the candidates of a stage *)

\* No challenger is trusted before the governed R3 is reproduced.
Reconstruct ==
  /\ stage = "control"
  /\ stage' = "search"
  /\ UNCHANGED <<generation, labels, queue, rows, screening, advanced, finalists, winner>>

\* An exception nothing catches, anywhere; no report is written.
Abort ==
  /\ stage \in {"control", "search", "confirm", "refit", "november"}
  /\ stage' = "failed"
  /\ UNCHANGED <<generation, labels, queue, rows, screening, advanced, finalists, winner>>

Evidence(id, status, result) == [id |-> id, status |-> status, result |-> result]

Fitted(evidence) ==
  /\ stage \in {"search", "confirm"}
  /\ rows' = Append(rows, evidence)
  /\ queue' = Tail(queue)
  /\ UNCHANGED <<generation, labels, stage, screening, advanced, finalists, winner>>

\* One candidate over every fold.
RunCandidate(result) ==
  /\ queue # <<>>
  /\ Fitted(Evidence(Head(queue), "completed", result))

\* Only the remediation goes on after a RuntimeError.
FailCandidate ==
  /\ generation = "remediate" /\ queue # <<>>
  /\ Fitted(Evidence(Head(queue), "failed", NoRow))

-----------------------------------------------------------------------------
(* Rankings *)

\* Means are over the same number of folds: their sums order as they do.
Mean(folds) ==
  LET sum[i \in 0..Len(folds)] == IF i = 0 THEN 0 ELSE sum[i - 1] + folds[i]
  IN sum[Len(folds)]

Worst(folds) == CHOOSE m \in Range(folds) : \A k \in Range(folds) : m <= k

\* The variance, which orders as the deviation does.
Spread(folds) ==
  Len(folds) * Mean([i \in DOMAIN folds |-> folds[i] * folds[i]]) - Mean(folds) * Mean(folds)

\* One tuning fold; max keeps the first of equals.
TuningKey(r) == <<-r.result.folds[1], -r.result.rest, r.id.n>>

RemediationRank(r) ==
  <<-Mean(r.result.folds), -r.result.rest, Spread(r.result.folds), r.id.n>>

V1Rank(r) ==
  <<-Mean(r.result.folds), -r.result.rest, Spread(r.result.folds), r.id.n>>

V2Rank(r) ==
  <<-Mean(r.result.folds), -Worst(r.result.folds), -r.result.rest,
    Spread(r.result.folds), r.id.n>>

\* The worst fold and the November fold before every mean.
V3Rank(r) ==
  <<-Worst(r.result.folds), -r.result.folds[Len(r.result.folds)],
    -Mean(Tail(r.result.folds)), -Mean(r.result.folds), -r.result.rest, r.id.n>>

\* The key a generation ranks its candidates by.
Rank(r) ==
  CASE generation = "select" -> TuningKey(r)
    [] generation = "remediate" -> RemediationRank(r)
    [] generation = "v1" -> V1Rank(r)
    [] generation = "v2" -> V2Rank(r)
    [] generation = "v3" -> V3Rank(r)

Completed(evidence) == {r \in Range(evidence) : r.status = "completed"}

\* Sorted by a key that no two share: as many are before each as have a lesser key.
RankedBy(S, Key(_)) ==
  [k \in 1..Cardinality(S) |->
     CHOOSE r \in S : Cardinality({o \in S : Precedes(Key(o), Key(r))}) = k - 1]

RankCandidates(S) == RankedBy(S, Rank)

Ids(ranked) == [i \in DOMAIN ranked |-> ranked[i].id]

OfFamily(evidence, family) == {r \in Range(evidence) : r.id.family = family}

\* The top of one family, every one of whose candidates completed.
AdvanceFamily(evidence, family, count) ==
  SubSeq(Ids(RankCandidates(OfFamily(evidence, family))), 1, count)

\* The best two bases, and the control R0 if it completed.
AuthorizedCalibrationIds(ranked) ==
  LET top == SubSeq(Ids(ranked), 1, 2)
      control == Identity("R", 1)
  IN IF control \in Range(Ids(ranked)) /\ control \notin Range(top)
     THEN Append(top, control) ELSE top

-----------------------------------------------------------------------------
(* From a stage to the next *)

\* Base by base, method by method.
Finalists(bases) ==
  FlattenSeq([i \in DOMAIN bases |->
    [m \in DOMAIN Methods[generation] |->
      [family |-> bases[i].family, n |-> bases[i].n, method |-> Methods[generation][m]]]])

Blends == [e \in 1..Ensembles |-> Identity("ensemble", e)]

Advance(bases) ==
  /\ stage' = "refit"
  /\ advanced' = bases
  /\ UNCHANGED <<generation, labels, queue, rows, screening, finalists, winner>>

\* The control, then the candidate with the parameters that tuned best.
EndTuning ==
  /\ generation = "select" /\ stage = "search" /\ queue = <<>>
  /\ Advance(<<Identity("control", 1), Head(Ids(RankCandidates(Range(rows))))>>)

EndBaseSearch ==
  /\ generation = "remediate" /\ stage = "search" /\ queue = <<>>
  /\ LET ranked == RankCandidates(Completed(rows))
     IN IF Len(ranked) < 2
        THEN /\ stage' = "failed"
             /\ UNCHANGED <<generation, labels, queue, rows, screening, advanced, finalists, winner>>
        ELSE Advance(AuthorizedCalibrationIds(ranked))

TopTwoCatboost == SubSeq(Ids(RankCandidates(Completed(rows))), 1, 2)

EndRolling ==
  /\ generation = "v1" /\ stage = "search" /\ queue = <<>>
  /\ Advance(TopTwoCatboost)

\* Screened on the GPU or the CPU; the best of each family are fitted again, in
\* the order of the matrix.
EndScreening ==
  /\ generation \in {"v2", "v3"} /\ stage = "search" /\ queue = <<>>
  /\ stage' = "confirm"
  /\ LET chosen == {AdvanceFamily(rows, f, Confirmed) : f \in Range(Families(generation))}
     IN queue' = RankedBy(UNION {Range(top) : top \in chosen}, MatrixOrder)
  /\ screening' = rows
  /\ rows' = <<>>
  /\ UNCHANGED <<generation, labels, advanced, finalists, winner>>

\* Mutant: the screening is decisive.
DecidingScreening == screening

\* The evidence the refit is decided on.
Deciding == rows

EndConfirmation ==
  /\ stage = "confirm" /\ queue = <<>>
  /\ Advance(FlattenSeq([i \in DOMAIN Families(generation) |->
                  AdvanceFamily(Deciding, Families(generation)[i], Advanced)]))

\* The bases are fitted on the whole period and the selection partition is read;
\* the evidence of the search is for the report only from here on.
OpenNovember ==
  /\ stage = "refit"
  /\ stage' = "november"
  /\ labels' \in Labels
  /\ queue' = Finalists(advanced \o IF generation = "v3" THEN Blends ELSE <<>>)
  /\ rows' = <<>> /\ screening' = <<>>
  /\ UNCHANGED <<generation, advanced, finalists, winner>>

-----------------------------------------------------------------------------
(* November *)

\* The gates of a finalist that has a threshold: those on what the threshold
\* achieves, and all the others, that its quality stands for.
NovemberGates(point, quality) ==
  <<point.recall >= Limits.recall, point.f1 >= Limits.f1, quality > 0>>

GovernedGates(point, quality) ==
  NovemberGates(point, quality)
    \o <<point.precision >= Limits.precision, point.rate <= Limits.rate>>

\* No evidence passes no gate.
AllGatesPass(gates) == gates # <<>> /\ \A i \in DOMAIN gates : gates[i]

\* What a ranking of finalists reads of a row, its threshold left out.
Achieved(point) ==
  IF point = NoRow THEN NoRow
  ELSE [precision |-> point.precision, f1 |-> point.f1, rate |-> point.rate]

Sample(scores) == [i \in DOMAIN labels |-> [label |-> labels[i], score |-> scores[i]]]

\* The finalist at the head of the queue, with its threshold and its gates.
Measured(point, quality, gates) ==
  /\ finalists' = Append(finalists,
       [id |-> Head(queue), metrics |-> Achieved(point), quality |-> quality,
        passed |-> AllGatesPass(gates)])
  /\ queue' = Tail(queue)
  /\ stage' = stage

Measuring(g) ==
  /\ generation = g /\ stage = "november" /\ queue # <<>>
  /\ UNCHANGED <<generation, labels, rows, screening, advanced, winner>>

\* Of v0, control and candidate, and of the remediation: the search raises when
\* no threshold satisfies it, and the run with it.
MeasureOrRaise(point, quality) ==
  IF point = NoRow
  THEN /\ stage' = "failed"
       /\ UNCHANGED <<queue, finalists>>
  ELSE Measured(point, quality, NovemberGates(point, quality))

RunFinalCandidate(scores, quality) ==
  /\ Measuring("select")
  /\ MeasureOrRaise(SelectThreshold(Sample(scores)), quality)

RunFinalist(scores, quality) ==
  /\ Measuring("remediate")
  /\ MeasureOrRaise(SelectThresholdRemediation(Sample(scores)), quality)

\* Without a threshold there is no gate evidence, and the run goes on.
MeasureOrRecord(point, quality) ==
  Measured(point, quality, IF point = NoRow THEN <<>> ELSE GovernedGates(point, quality))

RunV1Finalist(scores, quality) ==
  /\ Measuring("v1")
  /\ MeasureOrRecord(SelectV1Threshold(Sample(scores)), quality)

RunV2Finalist(scores, quality) ==
  /\ Measuring("v2")
  /\ MeasureOrRecord(SelectV1Threshold(Sample(scores)), quality)

\* A base or a blend of the two.
RunV3Finalist(scores, quality) ==
  /\ Measuring("v3")
  /\ MeasureOrRecord(SelectV1Threshold(Sample(scores)), quality)

\* Lexicographic order of the names of finalists.
FamilyName == [R |-> 1, CB |-> 1, control |-> 1, tuned |-> 2,
               catboost |-> 1, ensemble |-> 2, lightgbm |-> 3]
MethodName == [isotonic |-> 1, none |-> 2, sigmoid |-> 3]
Name(id) == <<FamilyName[id.family], id.n, MethodName[id.method]>>

Place(f) == CHOOSE i \in DOMAIN finalists : finalists[i] = f

\* v0: no name, the first of equals; the remediation by name.
ValidationOrder(f) == <<-f.quality, -f.metrics.f1, Place(f)>>
RemediationOrder(f) == <<-f.quality>> \o Name(f.id)
V1Order(f) == <<-f.quality, -f.metrics.f1, f.metrics.rate>> \o Name(f.id)

\* Mutant: the larger rate first, as if it were a merit.
PrecisionOrderRateFirst(f) ==
  <<-f.metrics.rate, -f.metrics.precision, -f.quality, -f.metrics.f1>> \o Name(f.id)

\* Of v2 and v3: the precision at the selected threshold comes first.
PrecisionOrder(f) ==
  <<-f.metrics.precision, -f.quality, -f.metrics.f1, f.metrics.rate>> \o Name(f.id)

Acceptable == {f \in Range(finalists) : f.passed}

ChooseWinner ==
  CASE generation = "select" -> Best(Acceptable, ValidationOrder)
    [] generation = "remediate" -> Best(Acceptable, RemediationOrder)
    [] generation = "v1" -> Best(Acceptable, V1Order)
    [] OTHER -> Best(Acceptable, PrecisionOrder)

\* One winner, or none: "blocked" in v0, a governed stop since.
Decide ==
  /\ stage = "november" /\ queue = <<>>
  /\ stage' = "decided"
  /\ winner' = ChooseWinner
  /\ UNCHANGED <<generation, labels, queue, rows, screening, advanced, finalists>>

SearchNext ==
  \/ Reconstruct
  \/ \E result \in Results : RunCandidate(result)
  \/ FailCandidate
  \/ EndTuning \/ EndBaseSearch \/ EndRolling \/ EndScreening \/ EndConfirmation
  \/ OpenNovember
  \/ \E scores \in Assessments, quality \in 0..2 :
       \/ RunFinalCandidate(scores, quality)
       \/ RunFinalist(scores, quality)
       \/ RunV1Finalist(scores, quality)
       \/ RunV2Finalist(scores, quality)
       \/ RunV3Finalist(scores, quality)
  \/ Decide
  \/ Abort

SearchSpec == SearchInit /\ [][SearchNext]_searchVars
-----------------------------------------------------------------------------
(* Properties *)

\* The threshold searches are compared when the partition has been read, on
\* whatever a finalist may score.
Unmeasured == IF stage = "november" /\ finalists = <<>> THEN {Sample(s) : s \in Scorings} ELSE {}

\* The metric v2 and v3 search by foretells November: a finalist has an
\* eligible threshold exactly when its operating point on the same rows is
\* precise enough, and neither its precision nor its F1 exceeds that point's.
SearchForetellsNovember ==
  \A sample \in Unmeasured :
    LET point == SearchOperatingPoint(sample)
        governed == SelectV1Threshold(sample)
    IN /\ governed = NoRow <=> point.precision < Limits.precision
       /\ governed # NoRow => /\ governed.precision <= point.precision
                              /\ governed.f1 <= point.bestF1

Leading(key) == SubSeq(key, 1, 2)

\* Two thresholds of one sample never tie on what they achieve: the last keys of
\* every search, the distance to one half and the threshold, decide nothing.
ChoiceIsUnique ==
  \A sample \in Unmeasured :
    \A a, b \in {r \in CurveRows(sample) : r.recall >= Limits.recall} :
      a # b => /\ Leading(V1Key(a)) # Leading(V1Key(b))
               /\ Leading(RemediationKey(a)) # Leading(RemediationKey(b))
               /\ Leading(SelectThresholdKey(a)) # Leading(SelectThresholdKey(b))
               /\ Leading(OperatingKey(a)) # Leading(OperatingKey(b))

Advancing == Range(advanced)

\* What the CPU confirmed decides the refit in v2 and v3, whatever the screening
\* showed: every family has its bases, an advanced base was confirmed, and no
\* confirmed base of its family that stays behind has a better mean over the
\* folds (v2) or a better worst fold (v3, which prefers the robust).
ConfirmationDecides ==
  generation \in {"v2", "v3"} /\ stage = "refit" =>
    /\ \A f \in Range(Families(generation)) :
         Cardinality({id \in Advancing : id.family = f}) = Advanced
    /\ \A id \in Advancing : \E r \in Range(rows) :
         /\ r.id = id
         /\ \A o \in OfFamily(rows, id.family) :
              o.id \notin Advancing =>
                IF generation = "v2" THEN Mean(o.result.folds) <= Mean(r.result.folds)
                ELSE Worst(o.result.folds) <= Worst(r.result.folds)

\* The winner is a finalist that has a threshold and passes every gate, and none
\* that does is ahead of it on the first key of its generation; nothing wins
\* exactly when none passes.
WinnerEarned ==
  stage = "decided" =>
    LET fit == {f \in Range(finalists) : f.metrics # NoRow /\ f.passed /\ f.quality > 0}
    IN IF fit = {} THEN winner = NoRow
       ELSE /\ winner \in fit
            /\ \A f \in fit :
                 IF generation \in {"v2", "v3"} THEN f.metrics.precision <= winner.metrics.precision
                 ELSE f.quality <= winner.quality
=============================================================================
