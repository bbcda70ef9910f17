-------------------------- MODULE FeaturePreparation --------------------------
(***************************************************************************)
(* The governed data access of v1, v2 and v3: which prepared flights are   *)
(* read, after which checks, how the training, November and December rows  *)
(* are given features by the historical state of their month, and which    *)
(* rows a fold, the refit and the calibration may learn from.  The         *)
(* prepared files are not in Git: they may be rewritten between two reads, *)
(* and between the comparison of a file's digest and the read of its rows. *)
(***************************************************************************)
EXTENDS HistoricalState

CONSTANTS
  Datasets,   \* the sets of prepared flights to start from
  Manifests,  \* what the v3 development manifest may declare
  SampleCap   \* search_rows_per_month_max

VARIABLES
  generation,
  flights,      \* the flights the processed manifest describes
  files,        \* split -> its parquet file, or None
  manifest,     \* the declarations of the v3 development manifest
  stage,
  checked,      \* the period whose file is checked and not yet read, or None
  history, november,             \* the frames read
  search, refit,                 \* the training matrices
  folds,                         \* the rolling-origin folds of the search
  calibration, selection,        \* the halves of November
  artifact,                      \* the historical state of October 31, serialized
  december,
  consumed,     \* history: which version of its file each period was read from
  replaced      \* history: the periods whose file changed between check and read

frames == <<history, november, search, refit, folds, calibration, selection, artifact, december>>
vars == <<generation, flights, files, manifest, stage, checked, frames, consumed, replaced>>

Periods == {"history", "november", "december"}

Split(period) ==
  IF generation = "v3"
  THEN CASE period = "history" -> "v3_history"
         [] period = "november" -> "v3_november"
         [] period = "december" -> "v3_december"
  ELSE IF period = "history" THEN "train" ELSE "validation"

Splits == {Split(p) : p \in Periods}

November == 20251101
NovemberHalf == 20251116
Cutoff == 20251031
December == 20251201
NewYear == 20260101

HistoryStart == IF generation = "v3" THEN 20240101 ELSE 20250101

\* The first month is burn-in for every state that follows.
ModelStart == CASE generation = "v1" -> 20250101
                [] generation = "v2" -> 20250201
                [] generation = "v3" -> 20240201

Start == [history |-> HistoryStart, november |-> November, december |-> December]
End == [history |-> November, november |-> December, december |-> NewYear]

\* What the manifest describes is version 0, of its size and in the canonical columns.
Described == [version |-> 0, sized |-> TRUE, canonical |-> TRUE]

FileVersions == [version : {0, 1}, sized : BOOLEAN, canonical : BOOLEAN]

\* The days of both years, and the rows of the prepared files: the identifier
\* is a row's identity; a row that is not in a frame has the index 0.
Dates2Years ==
  {d \in 20240101..20251231 : CalendarMonth(d) \in 1..12 /\ d % 100 \in 1..31}

Carriers == {f.carrier : f \in UNION Datasets}
Routes == {f.route : f \in UNION Datasets}

Row == [id : Nat, index : Nat, date : Dates2Years, carrier : Carriers, route : Routes,
        target : {0, 1}]

ASSUME PreparationAssumption ==
  /\ SampleCap \in Nat \ {0, 1}
  /\ Manifests \subseteq [december_decoded : BOOLEAN, sealed : BOOLEAN]
  /\ None \notin Periods \union FileVersions
  /\ \A d \in Datasets : /\ IsFiniteSet(d) /\ d \subseteq Row
                         /\ \A f, g \in d : f.id = g.id => f = g

Init ==
  /\ generation \in {"v1", "v2", "v3"}
  /\ flights \in Datasets
  /\ manifest \in Manifests
  /\ files = [s \in Splits |-> IF s = "v3_december" THEN None ELSE Described]
  /\ stage = "begin" /\ checked = None
  /\ history = {} /\ november = {}
  /\ search = {} /\ refit = {} /\ folds = <<>>
  /\ calibration = {} /\ selection = {}
  /\ artifact = None
  /\ december = {}
  /\ consumed = [p \in Periods |-> None] /\ replaced = {}

-----------------------------------------------------------------------------
(* Frames: every row has an index *)

Precedes(a, b) == a.date < b.date \/ (a.date = b.date /\ a.id < b.id)

\* sort_values("flight_date", kind="stable").reset_index(drop=True)
Reindexed(rows) ==
  {[r EXCEPT !.index = Cardinality({o \in rows : Precedes(o, r)})] : r \in rows}

\* Mutant: the rows of both keep the index of the frame they were read into.
ConcatKeepsIndex(a, b) == a \union b

\* pd.concat(..., ignore_index=True)
Concat(a, b) == Reindexed(a \union b)

InPeriod(rows, start, end) == {r \in rows : start <= r.date /\ r.date < end}

\* Joined on the index, as target.loc[features.index] does.
Joined(features, targets) ==
  {[flight |-> p[1].flight, values |-> p[1].values, target |-> p[2].target] :
     p \in {q \in features \X targets : q[1].index = q[2].index}}

Targets(rows) == {[index |-> r.index, target |-> r.target] : r \in rows}

Featured(rows, values) ==
  {[index |-> r.index, flight |-> r, values |-> values[r]] : r \in rows}

-----------------------------------------------------------------------------
(* Reading *)

\* Version 1 holds other rows than the described: their labels are turned.
Held(version) ==
  IF version = 0 THEN flights ELSE {[r EXCEPT !.target = 1 - r.target] : r \in flights}

Content(split) ==
  {r \in Held(files[split].version) : \E p \in Periods :
     Split(p) = split /\ Start[p] <= r.date /\ r.date < End[p]}

\* Mutant: the digest of no file is compared.
VerifiedBySize(period) == FALSE

\* v1 compares the digest of every file; v2 and v3 leave November's to its size.
Verified(period) == generation = "v1" \/ period # "november"

\* The canonical file is there, of the described size and, where that is compared,
\* of the described digest.
Sound(period) ==
  LET file == files[Split(period)] IN
  file # None /\ file.sized /\ (Verified(period) => file.version = 0)

\* The rows of a file that is opened again to be read, through a filter on its dates.
ReadPeriod(period) ==
  LET rows == InPeriod(Content(Split(period)), Start[period], End[period]) IN
  IF ~files[Split(period)].canonical \/ rows = {} THEN Refused ELSE Reindexed(rows)

Consume(period) ==
  /\ checked' = None
  /\ consumed' = [consumed EXCEPT ![period] = files[Split(period)].version]

\* An exception: nothing more is read.
Refuse ==
  /\ stage' = "refused" /\ checked' = None
  /\ UNCHANGED <<frames, consumed>>

\* The v3 manifest must not know December.
RequireNoDecember ==
  generation = "v3" => ~manifest.december_decoded /\ manifest.sealed

\* The period each stage reads.
ReadAt == [begin |-> "history", november |-> "november", handoff |-> "december"]

CheckFile ==
  /\ stage \in DOMAIN ReadAt /\ checked = None
  /\ LET period == ReadAt[stage] IN
     IF ~Sound(period) \/ (period # "november" /\ ~RequireNoDecember) THEN Refuse
     ELSE /\ checked' = period
          /\ UNCHANGED <<stage, frames, consumed>>
  /\ UNCHANGED <<generation, flights, files, manifest, replaced>>

ReadHistory ==
  /\ checked = "history"
  /\ LET rows == ReadPeriod("history") IN
     IF rows = Refused THEN Refuse
     ELSE /\ stage' = "november"
          /\ history' = rows
          /\ Consume("history")
          /\ UNCHANGED <<november, search, refit, folds, calibration, selection, artifact, december>>
  /\ UNCHANGED <<generation, flights, files, manifest, replaced>>

ReadNovember ==
  /\ checked = "november"
  /\ LET rows == ReadPeriod("november") IN
     IF rows = Refused THEN Refuse
     ELSE /\ stage' = "prepare"
          /\ november' = rows
          /\ Consume("november")
          /\ UNCHANGED <<history, search, refit, folds, calibration, selection, artifact, december>>
  /\ UNCHANGED <<generation, flights, files, manifest, replaced>>

-----------------------------------------------------------------------------
(* Features *)

MonthEnd(month) == month * 100 + 31

Prior(rows, month) == {r \in rows : r.date < MonthStart(month)}

Build(rows, cutoff) ==
  CASE generation = "v1" -> None
    [] generation = "v2" -> BuildHistoricalState(rows, cutoff)
    [] generation = "v3" -> BuildV3HistoricalState(rows, cutoff)

\* v1 has no features but those of the schedule.
Transform(rows, state) ==
  CASE generation = "v1" -> [r \in rows |-> None]
    [] generation = "v2" -> TransformWithState(rows, state)
    [] generation = "v3" -> TransformWithV3State(rows, state)

\* The first month that training may not contain.
TrainingEnd == IF generation = "v3" THEN December ELSE November

\* Month by month, each from all the history before it.
TransformTrainingRows(full, rows) ==
  LET months == {Month(r.date) : r \in rows}
      monthly(m) == {r \in rows : Month(r.date) = m}
      state == [m \in months |-> Build(Prior(full, m), MonthEnd(MonthsBefore(m, 1)))]
      values == [m \in months |-> IF state[m] = Refused THEN Refused
                                  ELSE Transform(monthly(m), state[m])]
  IN IF rows # InPeriod(rows, ModelStart, TrainingEnd) \/ \E m \in months : values[m] = Refused
     THEN Refused
     ELSE Joined(UNION {Featured(monthly(m), values[m]) : m \in months}, Targets(rows))

\* At most so many rows of a month; a month that has more keeps some of every label.
Samples(rows) ==
  LET monthly(s, m) == {r \in s : Month(r.date) = m}
      labels(s) == {r.target : r \in s}
      crowded == {m \in {Month(r.date) : r \in rows} : Cardinality(monthly(rows, m)) > SampleCap}
      drawn == {r \in rows : Month(r.date) \in crowded}
  IN {(rows \ drawn) \union kept :
        kept \in {s \in SUBSET drawn : \A m \in crowded :
                    /\ Cardinality(monthly(s, m)) = SampleCap
                    /\ labels(monthly(s, m)) = labels(monthly(rows, m))}}

\* Calibration on the first half of November, selection on the second.
Halves(rows) ==
  <<InPeriod(rows, November, NovemberHalf), InPeriod(rows, NovemberHalf, December)>>

Evaluated(rows, state) ==
  LET values == Transform(rows, state) IN
  IF rows = {} \/ values = Refused THEN Refused ELSE Joined(Featured(rows, values), Targets(rows))

Serialize(state) ==
  CASE generation = "v1" -> None
    [] generation = "v2" -> ToBytes(state)
    [] generation = "v3" -> ToBytesV3(state)

ModelRows == InPeriod(history, ModelStart, November)

\* Fold 4 of v3 is evaluated on November: its rows join those of the search.
SearchSource == IF generation = "v3" THEN Concat(ModelRows, november) ELSE ModelRows

PrepareDevelopmentData ==
  /\ stage = "prepare"
  /\ \E sample \in IF generation = "v1" THEN {ModelRows} ELSE Samples(SearchSource) :
       LET state == Build(history, Cutoff)
           searched == TransformTrainingRows(history, sample)
           refitted == TransformTrainingRows(history, ModelRows)
           early == Evaluated(Halves(november)[1], state)
           late == Evaluated(Halves(november)[2], state)
       IN IF Refused \in {state, searched, refitted} \/ Refused \in {early, late}
          THEN Refuse
          ELSE /\ stage' = "folds"
               /\ search' = searched /\ refit' = refitted
               /\ calibration' = early /\ selection' = late
               /\ artifact' = Serialize(state)
               /\ UNCHANGED <<checked, history, november, folds, december, consumed>>
  /\ UNCHANGED <<generation, flights, files, manifest, replaced>>

\* What is fitted ends where the evaluation starts.
Fold(month) ==
  [fitEnd |-> MonthStart(month), start |-> MonthStart(month), end |-> MonthEnd(month) + 1]

FoldMonths ==
  IF generation = "v3" THEN <<202508, 202509, 202510, 202511>> ELSE <<202507, 202508, 202509, 202510>>

FoldFrame(month) ==
  LET rows(start, end) == {m \in search : start <= m.flight.date /\ m.flight.date < end}
  IN [fit |-> rows(ModelStart, Fold(month).fitEnd),
      evaluation |-> rows(Fold(month).start, Fold(month).end)]

FoldFrames ==
  /\ stage = "folds"
  /\ LET all == [i \in DOMAIN FoldMonths |-> FoldFrame(FoldMonths[i])] IN
     IF \E i \in DOMAIN all : all[i].fit = {} \/ all[i].evaluation = {} THEN Refuse
     ELSE /\ stage' = "handoff"
          /\ folds' = all
          /\ UNCHANGED <<checked, history, november, search, refit, calibration, selection,
                         artifact, december, consumed>>
  /\ UNCHANGED <<generation, flights, files, manifest, replaced>>

-----------------------------------------------------------------------------
(* December *)

\* The archive of December is decoded once, out of the development data.
Materialize ==
  /\ generation = "v3" /\ stage = "handoff" /\ files["v3_december"] = None
  /\ InPeriod(flights, December, NewYear) # {}
  /\ files' = [files EXCEPT !["v3_december"] = Described]
  /\ UNCHANGED <<generation, flights, manifest, stage, checked, frames, consumed, replaced>>

Deserialized ==
  CASE generation = "v1" -> None
    [] generation = "v2" -> FromBytes(artifact)
    [] generation = "v3" -> FromBytesV3(artifact)

AsOf(state) ==
  CASE generation = "v1" -> Cutoff
    [] generation = "v2" -> state.asOf
    [] generation = "v3" -> state.base.asOf

LoadDecemberFeatures ==
  /\ checked = "december"
  /\ LET state == Deserialized
         rows == ReadPeriod("december")
         evaluated == IF state = Refused \/ AsOf(state) # Cutoff \/ rows = Refused
                      THEN Refused ELSE Evaluated(rows, state)
     IN IF evaluated = Refused
        THEN Refuse
        ELSE /\ stage' = "qualified"
             /\ december' = evaluated
             /\ Consume("december")
             /\ UNCHANGED <<history, november, search, refit, folds, calibration, selection, artifact>>
  /\ UNCHANGED <<generation, flights, files, manifest, replaced>>

\* What is still to be read.
Awaited(split) == \E p \in Periods : consumed[p] = None /\ Split(p) = split

\* A preparation replaces a split with other rows and is killed before its
\* manifest, or restores it: it is deterministic.  Two bounds: of the splits still
\* to be read, which are those it matters for, one at a time is not as described.
Rewrite(split) ==
  /\ stage \notin {"refused", "qualified"}
  /\ Awaited(split) /\ files[split] # None
  /\ \A s \in Splits \ {split} : Awaited(s) => files[s] \in {Described, None}
  /\ \E file \in {f \in FileVersions : f.version = 1} \union {Described} :
       /\ file # files[split]
       /\ files' = [files EXCEPT ![split] = file]
  /\ replaced' = replaced \union {p \in {checked} \ {None} : Split(p) = split}
  /\ UNCHANGED <<generation, flights, manifest, stage, checked, frames, consumed>>

Next ==
  \/ CheckFile \/ ReadHistory \/ ReadNovember
  \/ PrepareDevelopmentData \/ FoldFrames
  \/ Materialize \/ LoadDecemberFeatures
  \/ \E split \in Splits : Rewrite(split)

Spec == Init /\ [][Next]_vars
-----------------------------------------------------------------------------
(* Properties *)

\* Every row that was given features, looked at when the last of them are.
Matrices == IF stage = "qualified" THEN search \union refit \union calibration \union selection \union december
            ELSE {}

SameRate(a, b) == a[1] * b[2] = b[1] * a[2]

\* A rate as its definition has it: the late flights of a set, shrunk towards
\* those of all the labels that may be known.
Rate(rows, known) ==
  LET late(s) == Cardinality({r \in s : r.target = 1}) IN
  <<late(rows) * Cardinality(known) + Strength * late(known),
    (Cardinality(rows) + Strength) * Cardinality(known)>>

\* What may be known for a row: the flights, as the history read holds them, of the
\* months before its own, none of them after October 31.
Known(row) ==
  {h \in Held(consumed.history) : HistoryStart <= h.date /\ h.date < November /\ Month(h.date) < Month(row.date)}

\* The last months that may be known.
Lately(row) ==
  LET last == IF row.date < November THEN MonthsBefore(Month(row.date), 1) ELSE 202510 IN
  {h \in Known(row) : Month(h.date) >= MonthsBefore(last, Trailing - 1)}

Alike(rows, row, columns) == {h \in rows : Key(h, columns) = Key(row, columns)}

Base(m) == IF generation = "v3" THEN m.values.base ELSE m.values

\* No label of a flight's own month or of a later one, nor one after October 31,
\* is in any feature it is given, in any matrix; and all the earlier ones are,
\* though the search sees only a sample of the rows.
PriorMonthsOnly ==
  generation # "v1" =>
    \A m \in Matrices :
      LET row == m.flight IN
      /\ SameRate(Base(m).global, Rate(Known(row), Known(row)))
      /\ SameRate(Base(m).recentGlobal, Rate(Lately(row), Known(row)))
      /\ \A t \in FullTables :
           SameRate(Base(m).full[t], Rate(Alike(Known(row), row, t), Known(row)))
      /\ \A t \in RecentTables :
           SameRate(Base(m).recent[t], Rate(Alike(Lately(row), row, t), Known(row)))
      /\ \A t \in DOMAIN Base(m).support :
           Base(m).support[t] = Cardinality(Alike(Known(row), row, t))

\* A seasonal feature counts the same calendar month of earlier years and
\* nothing else: December 2025 is scored on December 2024.
PriorYearsOnly ==
  generation = "v3" =>
    \A m \in Matrices :
      LET row == m.flight
          season == {h \in Held(consumed.history) :
                       /\ CalendarMonth(h.date) = CalendarMonth(row.date)
                       /\ Year(h.date) < Year(row.date)}
      IN \A t \in SeasonalTables :
           SameRate(m.values.seasonal[t], Rate(Alike(season, row, t), Known(row)))

\* What a flight is given in a batch is what the serving transformer gives it
\* alone, from the state that was read back: v3 scores December in columns.
ServingParity ==
  stage = "qualified" /\ generation # "v1" =>
    \A m \in calibration \union selection \union december :
      IF generation = "v2" THEN m.values = TransformOne(m.flight, Deserialized)
      ELSE LET one == TransformOneV3(m.flight, Deserialized) IN
           /\ ~OwnYear(m.flight, Deserialized)
           /\ \A t \in FullTables : SameRate(one.base.full[t], m.values.base.full[t])
           /\ \A t \in RecentTables : SameRate(one.base.recent[t], m.values.base.recent[t])
           /\ \A t \in SeasonalTables : SameRate(one.seasonal[t], m.values.seasonal[t])
           /\ one.base.support = m.values.base.support

\* Every row keeps its own label through the samples, months and halves it is
\* taken apart into, and is in a matrix once.
RowsKeepTheirLabels ==
  stage # "begin" =>
    \A matrix \in {search, refit, calibration, selection, december} :
      /\ \A m \in matrix : m.target = m.flight.target
      /\ \A m, n \in matrix : m.flight.id = n.flight.id => m = n

Dates(matrix) == {m.flight.date : m \in matrix}

\* November teaches nothing but the calibration, and that on its first half
\* alone; no fold is fitted on a month it is evaluated on, or on a later one;
\* December is in no development matrix.
NovemberNeverFitted ==
  /\ \A d \in Dates(refit) : ModelStart <= d /\ d < November
  /\ \A d \in Dates(search) : d < December
  /\ \A i \in DOMAIN folds :
       /\ \A d \in Dates(folds[i].fit) :
            d < November /\ \A e \in Dates(folds[i].evaluation) : Month(d) < Month(e)
  /\ \A d \in Dates(calibration), e \in Dates(selection) : November <= d /\ d < e /\ e < December
  /\ stage \in {"folds", "handoff", "qualified"} =>
       Cardinality(calibration) + Cardinality(selection) = Cardinality(november)

\* Nothing from its own time or from later ones reaches what a row is fitted or
\* scored with: neither through its features nor through the rows beside it.
NoLookAhead == PriorMonthsOnly /\ PriorYearsOnly /\ NovemberNeverFitted

\* Where a digest is compared, what was learnt from and what December was scored on
\* is what the manifest describes, however often the files are rewritten and
\* restored: but for a file that is replaced after its digest was compared and
\* before it is opened to be read.  v2 and v3 compare none for November.
DescribedData ==
  \A p \in Periods \ replaced :
    (p = "november" => generation = "v1") /\ consumed[p] # None => consumed[p] = 0
=============================================================================
