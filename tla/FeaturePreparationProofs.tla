---------------------- MODULE FeaturePreparationProofs ----------------------
(***************************************************************************)
(* Theorems of FeaturePreparation and of the operators of HistoricalState, *)
(* for any prepared flights of the two years, any carriers and routes, any *)
(* cap of the sample, prior strength and trailing window: no feature knows *)
(* of its own time, the serving transformer agrees with the batch, rows    *)
(* keep their labels, and what is learnt from is what was described.       *)
(***************************************************************************)
EXTENDS FeaturePreparation, FiniteSetTheorems, TLAPS

-----------------------------------------------------------------------------
(* Dates *)

\* A date is before a month's start exactly when its month is before it.
LEMMA DateIs ==
  ASSUME NEW d \in Dates2Years
  PROVE  /\ d \in Int
         /\ Month(d) \in Int /\ Year(d) \in Int /\ CalendarMonth(d) \in 1..12
         /\ Month(d) = Year(d) * 100 + CalendarMonth(d)
         /\ \A month \in Int : /\ d < MonthStart(month) <=> Month(d) < month
                               /\ d >= MonthStart(month) <=> Month(d) >= month
  <1>1. d \in 20240101..20251231 /\ CalendarMonth(d) \in 1..12 /\ d % 100 \in 1..31
    BY DEF Dates2Years
  <1>2. d = 100 * Month(d) + (d % 100) /\ Month(d) \in Int
    BY <1>1, SMT DEF Month
  <1>3. Month(d) = 100 * Year(d) + CalendarMonth(d) /\ Year(d) \in Int
    BY <1>1, SMT DEF Month, Year, CalendarMonth
  <1>4. ASSUME NEW month \in Int
        PROVE  /\ d < MonthStart(month) <=> Month(d) < month
               /\ d >= MonthStart(month) <=> Month(d) >= month
    BY <1>1, <1>2, SMT DEF MonthStart
  <1> QED
    BY <1>1, <1>2, <1>3, <1>4

-----------------------------------------------------------------------------
(* The invariant *)

\* A frame: its rows are flights of the prepared months, each once and with an
\* index of its own.
Frame(rows) ==
  /\ IsFiniteSet(rows) /\ rows \subseteq Row
  /\ \A r \in rows : \E f \in flights : f.id = r.id /\ f.date = r.date
  /\ \A r, s \in rows : r.index = s.index \/ r.id = s.id => r = s

\* The state a row of a matrix is given its features from, and what it is given.
StateFor(row) ==
  Build(Prior(history, Month(row.date)),
        MonthEnd(IF row.date < November THEN MonthsBefore(Month(row.date), 1) ELSE 202510))

Given(row) ==
  CASE generation = "v1" -> None
    [] generation = "v2" -> TransformOne(row, StateFor(row))
    [] generation = "v3" -> TransformOneV3(row, StateFor(row))

Usable(row) ==
  /\ row \in Row
  /\ StateFor(row) # Refused
  /\ generation = "v3" => ~OwnYear(row, StateFor(row))

Labelled(matrix) ==
  /\ \A m \in matrix : m.target = m.flight.target
  /\ \A m, n \in matrix : m.flight.id = n.flight.id => m = n

\* A matrix: every row once, with its label and the features of its month.
Whole(matrix) ==
  /\ Labelled(matrix)
  /\ \A m \in matrix : Usable(m.flight) /\ m.values = Given(m.flight)

Typed ==
  /\ generation \in {"v1", "v2", "v3"}
  /\ flights \in Datasets
  /\ DOMAIN files = Splits /\ \A s \in Splits : files[s] \in FileVersions \union {None}
  /\ consumed \in [Periods -> {0, 1, None}]

\* What is read before what, which file is checked when, and what is empty until then.
Staged ==
  /\ stage \in {"begin", "november", "prepare", "folds", "handoff", "qualified", "refused"}
  /\ checked # None => stage \in DOMAIN ReadAt /\ checked = ReadAt[stage]
  /\ stage = "begin" => history = {}
  /\ stage \in {"begin", "november"} => november = {} /\ consumed["november"] = None
  /\ stage \in {"begin", "november", "prepare"} =>
       /\ search = {} /\ refit = {} /\ calibration = {} /\ selection = {} /\ december = {}
       /\ folds = <<>>
  /\ stage \in {"prepare", "folds", "handoff", "qualified"} => consumed["november"] # None
  /\ stage \notin {"qualified", "refused"} => consumed["december"] = None

\* The months of the history, as the version of its file that was read holds them.
HistoryRows == InPeriod(Held(consumed["history"]), HistoryStart, November)

\* The history is what was read of it, and November is a frame.
Frames ==
  /\ stage \notin {"begin", "refused"} => history = Reindexed(HistoryRows)
  /\ Frame(november)
  /\ \A r \in november : November <= r.date /\ r.date < December

Matrixes == \A matrix \in {search, refit, calibration, selection, december} : Whole(matrix)

\* The artifact is the state of October 31.
Carried ==
  stage \in {"folds", "handoff", "qualified"} =>
    /\ generation # "v1" => Build(history, Cutoff) # Refused
    /\ artifact = Serialize(Build(history, Cutoff))

\* Those whose states end at October 31.
LateRows ==
  \A m \in calibration \union selection \union december : November <= m.flight.date

\* The file that is checked is there and, where its digest is compared and it has not
\* been replaced since, what the manifest describes.
Traced ==
  /\ DescribedData
  /\ checked # None => files[Split(checked)] # None
  /\ checked # None /\ checked \notin replaced /\ Verified(checked) =>
       files[Split(checked)].version = 0

Inv == Typed /\ Staged /\ Frames /\ Matrixes /\ Carried /\ LateRows /\ NovemberNeverFitted /\ Traced

-----------------------------------------------------------------------------
(* Frames *)

\* Two rows of one flight, wherever they are in a frame.
Same(a, b) ==
  /\ a.id = b.id /\ a.date = b.date /\ a.target = b.target
  /\ a.carrier = b.carrier /\ a.route = b.route

UniqueIds(rows) == \A r, s \in rows : r.id = s.id => r = s
UniqueIndexes(rows) == \A r, s \in rows : r.index = s.index => r = s

\* Where reindexing puts a row.
Moved(r, rows) == [r EXCEPT !.index = Cardinality({o \in rows : Precedes(o, r)})]

\* Reindexing changes the indexes only, and makes them unique.
LEMMA ReindexedIs ==
  ASSUME NEW rows, IsFiniteSet(rows), rows \subseteq Row, UniqueIds(rows)
  PROVE  /\ \A r \in rows : Moved(r, rows) \in Row /\ Same(r, Moved(r, rows))
         /\ Reindexed(rows) = {Moved(r, rows) : r \in rows}
         /\ Reindexed(rows) \subseteq Row
         /\ UniqueIds(Reindexed(rows)) /\ UniqueIndexes(Reindexed(rows))
         /\ [r \in rows |-> Moved(r, rows)] \in Bijection(rows, Reindexed(rows))
         /\ IsFiniteSet(Reindexed(rows))
  <1> DEFINE before(r) == {o \in rows : Precedes(o, r)}
             rank == [r \in rows |-> Cardinality(before(r))]
             g == [r \in rows |-> Moved(r, rows)]
  <1>1. ASSUME NEW r \in rows
        PROVE  IsFiniteSet(before(r)) /\ rank[r] \in Nat
    <2>1. before(r) \subseteq rows
      OBVIOUS
    <2>2. IsFiniteSet(before(r))
      BY <2>1, FS_Subset
    <2> QED
      BY <2>2, FS_CardinalityType
  <1>2. \A r \in rows : r \in Row /\ r.date \in Int /\ r.id \in Int
    BY DateIs DEF Row
  <1>3. ASSUME NEW r \in rows, NEW s \in rows, Precedes(r, s)
        PROVE  rank[r] < rank[s]
    <2>1. \A o \in rows : Precedes(o, r) => Precedes(o, s)
      BY <1>2, <1>3 DEF Precedes
    <2>2. r \in before(s) /\ r \notin before(r)
      BY <1>2, <1>3 DEF Precedes
    <2>3. before(r) \in SUBSET before(s)
      BY <2>1
    <2>4. Cardinality(before(r)) <= Cardinality(before(s)) /\ Cardinality(before(r)) # Cardinality(before(s))
      BY <1>1, <2>2, <2>3, FS_Subset
    <2> QED
      BY <1>1, <2>4
  <1>4. ASSUME NEW r \in rows, NEW s \in rows, rank[r] = rank[s]
        PROVE  r = s
    <2>1. Precedes(r, s) \/ Precedes(s, r) \/ r.id = s.id
      BY <1>2 DEF Precedes
    <2>2. ~Precedes(r, s) /\ ~Precedes(s, r)
      BY <1>1, <1>3, <1>4
    <2> QED
      BY <2>1, <2>2 DEF UniqueIds
  <1>5. \A r \in rows : rank[r] = Cardinality({o \in rows : Precedes(o, r)})
    OBVIOUS
  <1> HIDE DEF rank, before
  <1>6. ASSUME NEW r \in rows
        PROVE  /\ Moved(r, rows) \in Row /\ Same(r, Moved(r, rows))
               /\ Moved(r, rows).index = rank[r]
    <2>1. Moved(r, rows) = [r EXCEPT !.index = rank[r]]
      BY <1>5 DEF Moved
    <2> QED
      BY <1>1, <1>2, <2>1 DEF Row, Same
  <1>7. Reindexed(rows) = {Moved(r, rows) : r \in rows}
    BY DEF Reindexed, Moved
  <1>8. UniqueIndexes(Reindexed(rows))
    <2> SUFFICES ASSUME NEW a \in rows, NEW b \in rows,
                        Moved(a, rows).index = Moved(b, rows).index
                 PROVE  Moved(a, rows) = Moved(b, rows)
      BY <1>7 DEF UniqueIndexes
    <2> QED
      BY <1>4, <1>6
  <1>9. UniqueIds(Reindexed(rows))
    <2> SUFFICES ASSUME NEW a \in rows, NEW b \in rows,
                        Moved(a, rows).id = Moved(b, rows).id
                 PROVE  Moved(a, rows) = Moved(b, rows)
      BY <1>7 DEF UniqueIds
    <2> QED
      BY <1>6 DEF Same, UniqueIds
  <1>10. g \in Bijection(rows, Reindexed(rows))
    <2>1. g \in [rows -> Reindexed(rows)]
      BY <1>7
    <2>2. \A a, b \in rows : g[a] = g[b] => a = b
      BY <1>4, <1>6
    <2>3. \A t \in Reindexed(rows) : \E r \in rows : g[r] = t
      BY <1>7
    <2> QED
      BY <2>1, <2>2, <2>3 DEF Bijection, Injection, Surjection, IsInjective
  <1>11. IsFiniteSet(Reindexed(rows))
    <2>1. ExistsBijection(rows, Reindexed(rows))
      BY <1>10 DEF ExistsBijection
    <2> QED
      BY <2>1, FS_Bijection
  <1> QED
    BY <1>6, <1>7, <1>8, <1>9, <1>10, <1>11

\* Rows of a bijection are counted where they come from.
LEMMA Counted ==
  ASSUME NEW S, NEW T, IsFiniteSet(S), NEW g \in Bijection(S, T), NEW A, A \subseteq T
  PROVE  /\ IsFiniteSet(A) /\ IsFiniteSet({s \in S : g[s] \in A})
         /\ Cardinality(A) = Cardinality({s \in S : g[s] \in A})
  <1> DEFINE B == {s \in S : g[s] \in A}
             h == [s \in B |-> g[s]]
  <1>1. B \subseteq S
    OBVIOUS
  <1>2. IsFiniteSet(B)
    BY <1>1, FS_Subset
  <1>3. h \in Bijection(B, A)
    <2>1. g \in [S -> T] /\ (\A a, b \in S : g[a] = g[b] => a = b) /\ \A t \in T : \E s \in S : g[s] = t
      BY DEF Bijection, Injection, Surjection, IsInjective
    <2>2. h \in [B -> A]
      BY <2>1
    <2>3. \A a, b \in B : h[a] = h[b] => a = b
      BY <2>1
    <2>4. \A t \in A : \E s \in B : h[s] = t
      BY <2>1
    <2> QED
      BY <2>2, <2>3, <2>4 DEF Bijection, Injection, Surjection, IsInjective
  <1>4. ExistsBijection(B, A)
    BY <1>3 DEF ExistsBijection
  <1> HIDE DEF B, h
  <1>5. IsFiniteSet(A) /\ Cardinality(A) = Cardinality(B)
    BY <1>2, <1>4, FS_Bijection
  <1> QED
    BY <1>2, <1>5 DEF B

\* What is joined on a unique index is every row with what it was given and its label.
Matrix(rows, given) == {[flight |-> r, values |-> given[r], target |-> r.target] : r \in rows}

LEMMA JoinedIs ==
  ASSUME NEW rows, UniqueIndexes(rows), NEW given
  PROVE  Joined(Featured(rows, given), Targets(rows)) = Matrix(rows, given)
  <1> DEFINE features == Featured(rows, given)
             targets == Targets(rows)
  <1>1. ASSUME NEW q \in Joined(features, targets)
        PROVE  q \in Matrix(rows, given)
    <2>1. PICK p \in features \X targets :
            /\ p[1].index = p[2].index
            /\ q = [flight |-> p[1].flight, values |-> p[1].values, target |-> p[2].target]
      BY <1>1 DEF Joined
    <2>2. PICK r \in rows : p[1] = [index |-> r.index, flight |-> r, values |-> given[r]]
      BY <2>1 DEF Featured
    <2>3. PICK s \in rows : p[2] = [index |-> s.index, target |-> s.target]
      BY <2>1 DEF Targets
    <2>4. r = s
      BY <2>1, <2>2, <2>3 DEF UniqueIndexes
    <2> QED
      BY <2>1, <2>2, <2>3, <2>4 DEF Matrix
  <1>2. ASSUME NEW q \in Matrix(rows, given)
        PROVE  q \in Joined(features, targets)
    <2>1. PICK r \in rows : q = [flight |-> r, values |-> given[r], target |-> r.target]
      BY <1>2 DEF Matrix
    <2> DEFINE p == <<[index |-> r.index, flight |-> r, values |-> given[r]],
                      [index |-> r.index, target |-> r.target]>>
    <2>2. p \in features \X targets
      BY DEF Featured, Targets
    <2>3. /\ p[1].index = p[2].index
          /\ q = [flight |-> p[1].flight, values |-> p[1].values, target |-> p[2].target]
      BY <2>1
    <2> HIDE DEF p, features, targets
    <2> QED
      BY <2>2, <2>3 DEF Joined
  <1> QED
    BY <1>1, <1>2

\* A matrix has a row of every flight, once.
LEMMA MatrixIs ==
  ASSUME NEW rows, UniqueIds(rows), IsFiniteSet(rows), NEW given
  PROVE  /\ Labelled(Matrix(rows, given))
         /\ Cardinality(Matrix(rows, given)) = Cardinality(rows)
  <1>1. Labelled(Matrix(rows, given))
    BY DEF Labelled, Matrix, UniqueIds
  <1> DEFINE h == [r \in rows |-> [flight |-> r, values |-> given[r], target |-> r.target]]
  <1>2. h \in Bijection(rows, Matrix(rows, given))
    <2>1. h \in [rows -> Matrix(rows, given)]
      BY DEF Matrix
    <2>2. \A a, b \in rows : h[a] = h[b] => a = b
      <3> SUFFICES ASSUME NEW a \in rows, NEW b \in rows, h[a] = h[b]
                   PROVE  a = b
        OBVIOUS
      <3>1. h[a].flight = a /\ h[b].flight = b
        OBVIOUS
      <3> QED
        BY <3>1
    <2>3. \A t \in Matrix(rows, given) : \E r \in rows : h[r] = t
      BY DEF Matrix
    <2> HIDE DEF h
    <2> QED
      BY <2>1, <2>2, <2>3 DEF Bijection, Injection, Surjection, IsInjective
  <1>3. ExistsBijection(rows, Matrix(rows, given))
    BY <1>2 DEF ExistsBijection
  <1> QED
    BY <1>1, <1>3, FS_Bijection

-----------------------------------------------------------------------------
(* A historical state: the batch agrees with the serving transformer, and the *)
(* state survives being an artifact                                           *)

Tallies == {c \in [count : Nat, positive : Nat] : ValidCounts(c)}

\* Tables whose entries are counts.
Tallied(tables, expected) ==
  /\ tables = [t \in expected |-> tables[t]]
  /\ \A t \in expected : /\ tables[t] = [key \in DOMAIN tables[t] |-> tables[t][key]]
                         /\ \A key \in DOMAIN tables[t] : tables[t][key] \in Tallies

StateTyped(base) ==
  /\ base = [asOf |-> base.asOf, global |-> base.global, recentGlobal |-> base.recentGlobal,
             full |-> base.full, recent |-> base.recent]
  /\ base.global \in Tallies /\ base.recentGlobal \in Tallies
  /\ Tallied(base.full, FullTables) /\ Tallied(base.recent, RecentTables)

V3StateTyped(state) ==
  /\ state = [base |-> state.base, seasonal |-> state.seasonal, maxYear |-> state.maxYear]
  /\ state.base # Refused /\ StateTyped(state.base)
  /\ Tallied(state.seasonal, SeasonalTables)

LEMMA TalliesAre ==
  /\ None \notin Tallies /\ None \notin Nat
  /\ \A c \in Tallies : /\ c = [count |-> c.count, positive |-> c.positive]
                        /\ c.count \in Nat /\ c.positive \in Nat /\ ValidCounts(c)
  BY StateAssumption DEF Tallies

\* The rows of some flights have counts, if there are any.
LEMMA CountsAre ==
  ASSUME NEW rows, IsFiniteSet(rows)
  PROVE  /\ IsFiniteSet({r \in rows : r.target = 1})
         /\ Counts(rows) \in [count : Nat, positive : Nat]
         /\ rows # {} => Counts(rows) \in Tallies
         /\ Counts(rows).count = Cardinality(rows)
         /\ Counts(rows).positive = Cardinality({r \in rows : r.target = 1})
  <1> DEFINE late == {r \in rows : r.target = 1}
  <1>1. late \in SUBSET rows
    OBVIOUS
  <1> HIDE DEF late
  <1>2. IsFiniteSet(late) /\ Cardinality(late) <= Cardinality(rows)
    BY <1>1, FS_Subset
  <1>3. Cardinality(late) \in Nat /\ Cardinality(rows) \in Nat
    BY <1>2, FS_CardinalityType
  <1>4. Counts(rows) = [count |-> Cardinality(rows), positive |-> Cardinality(late)]
    BY DEF Counts, late
  <1>5. rows # {} => Cardinality(rows) > 0
    BY <1>3, FS_EmptySet
  <1> QED
    BY <1>2, <1>3, <1>4, <1>5 DEF Tallies, ValidCounts, late

\* An aggregate has the counts of every group.
LEMMA AggregateIs ==
  ASSUME NEW keys, IsFiniteSet(DOMAIN keys)
  PROVE  /\ Aggregate(keys) = [key \in DOMAIN Aggregate(keys) |-> Aggregate(keys)[key]]
         /\ \A key \in DOMAIN Aggregate(keys) : Aggregate(keys)[key] \in Tallies
         /\ \A key : LET group == {r \in DOMAIN keys : keys[r] = key} IN
              Lookup(Aggregate(keys), key) = IF group = {} THEN None ELSE Counts(group)
  <1> DEFINE group(key) == {r \in DOMAIN keys : keys[r] = key}
             known == {keys[r] : r \in DOMAIN keys}
  <1>1. Aggregate(keys) = [key \in known |-> Counts(group(key))]
    BY DEF Aggregate
  <1>2. \A key : key \in known <=> group(key) # {}
    OBVIOUS
  <1>3. ASSUME NEW key \in known
        PROVE  Counts(group(key)) \in Tallies
    <2>1. group(key) \in SUBSET DOMAIN keys
      OBVIOUS
    <2>2. group(key) # {}
      BY <1>2
    <2> HIDE DEF group
    <2>3. IsFiniteSet(group(key))
      BY <2>1, FS_Subset
    <2> QED
      BY <2>2, <2>3, CountsAre
  <1>4. DOMAIN Aggregate(keys) = known /\ \A key \in known : Aggregate(keys)[key] = Counts(group(key))
    BY <1>1
  <1>5. Aggregate(keys) = [key \in DOMAIN Aggregate(keys) |-> Aggregate(keys)[key]]
    BY <1>1
  <1> HIDE DEF known
  <1>6. \A key : Lookup(Aggregate(keys), key) = IF group(key) = {} THEN None ELSE Counts(group(key))
    BY <1>2, <1>4 DEF Lookup
  <1> QED
    BY <1>3, <1>4, <1>5, <1>6

\* A column aligned with a table has, row by row, what a lookup gives.
LEMMA VectorIs ==
  ASSUME NEW base, NEW table, \A key \in DOMAIN table : table[key] \in Tallies,
         NEW keys, NEW r \in DOMAIN keys
  PROVE  /\ SmoothedVector(base, AlignedCounts(table, keys))[r] = Smoothed(base, Lookup(table, keys[r]))
         /\ Filled(AlignedCounts(table, keys).count)[r] = Support(Lookup(table, keys[r]))
  <1> DEFINE aligned == AlignedCounts(table, keys)
  <1>1. /\ DOMAIN aligned.count = DOMAIN keys
        /\ aligned.count[r] = IF keys[r] \in DOMAIN table THEN table[keys[r]].count ELSE None
        /\ aligned.positive[r] = IF keys[r] \in DOMAIN table THEN table[keys[r]].positive ELSE None
    BY DEF AlignedCounts
  <1> HIDE DEF aligned
  <1>2. SmoothedVector(base, aligned)[r] =
          IF aligned.count[r] = None THEN GlobalRate(base)
          ELSE <<aligned.positive[r] * base.global.count + Strength * base.global.positive,
                 (aligned.count[r] + Strength) * base.global.count>>
    BY <1>1 DEF SmoothedVector
  <1>3. Filled(aligned.count)[r] = IF aligned.count[r] = None THEN 0 ELSE aligned.count[r]
    BY <1>1 DEF Filled
  <1>4. CASE keys[r] \in DOMAIN table
    <2>1. table[keys[r]] \in Tallies
      BY <1>4
    <2>2. table[keys[r]] # None /\ table[keys[r]].count # None /\ Lookup(table, keys[r]) = table[keys[r]]
      BY <1>4, <2>1, TalliesAre DEF Lookup
    <2> QED
      BY <1>1, <1>2, <1>3, <1>4, <2>2 DEF Smoothed, Support, aligned
  <1>5. CASE keys[r] \notin DOMAIN table
    BY <1>1, <1>2, <1>3, <1>5 DEF Smoothed, Support, Lookup, aligned
  <1> QED
    BY <1>4, <1>5

\* The features of a month in columns are those of its flights one by one.
LEMMA BatchIsServing ==
  ASSUME NEW rows, NEW state, V3StateTyped(state), NEW r \in rows,
         TransformWithV3State(rows, state) # Refused
  PROVE  /\ ~OwnYear(r, state)
         /\ TransformWithV3State(rows, state)[r] = TransformOneV3(r, state)
  <1> DEFINE base == state.base
             frame == BaseHistoricalFrame(rows, base)
             seasonal == SeasonalHistoricalFrame(rows, state)
             supports == {<<"route">>, <<"carrier", "route">>}
  <1>1. /\ ~OwnYear(r, state)
        /\ TransformWithV3State(rows, state)[r] =
             [base |-> [global |-> frame.global[r], full |-> RowOf(frame.full, r),
                        support |-> RowOf(frame.support, r),
                        recentGlobal |-> frame.recentGlobal[r],
                        recent |-> RowOf(frame.recent, r)],
              seasonal |-> RowOf(seasonal, r)]
    BY DEF TransformWithV3State
  <1>2. /\ \A t : Keys(rows, t)[r] = Key(r, t) /\ r \in DOMAIN Keys(rows, t)
        /\ \A t : SeasonalKeys(rows, t)[r] = SeasonalKey(r, t) /\ r \in DOMAIN SeasonalKeys(rows, t)
    BY DEF Keys, SeasonalKeys
  <1>3. /\ \A t \in FullTables : \A key \in DOMAIN base.full[t] : base.full[t][key] \in Tallies
        /\ \A t \in RecentTables : \A key \in DOMAIN base.recent[t] : base.recent[t][key] \in Tallies
        /\ \A t \in SeasonalTables : \A key \in DOMAIN state.seasonal[t] : state.seasonal[t][key] \in Tallies
    BY DEF V3StateTyped, StateTyped, Tallied
  <1>4. frame.global[r] = GlobalRate(base)
    BY DEF BaseHistoricalFrame
  <1>5. RowOf(frame.full, r) = [t \in FullTables |-> Smoothed(base, Lookup(base.full[t], Key(r, t)))]
    <2>1. frame.full = [t \in FullTables |-> SmoothedVector(base, AlignedCounts(base.full[t], Keys(rows, t)))]
      BY DEF BaseHistoricalFrame
    <2>2. \A t \in FullTables : SmoothedVector(base, AlignedCounts(base.full[t], Keys(rows, t)))[r]
                                  = Smoothed(base, Lookup(base.full[t], Key(r, t)))
      BY <1>2, <1>3, VectorIs
    <2> QED
      BY <2>1, <2>2 DEF RowOf
  <1>6. RowOf(frame.support, r) = [t \in supports |-> Support(Lookup(base.full[t], Key(r, t)))]
    <2>1. frame.support = [t \in supports |-> Filled(AlignedCounts(base.full[t], Keys(rows, t)).count)]
      BY DEF BaseHistoricalFrame
    <2>2. \A t \in supports : Filled(AlignedCounts(base.full[t], Keys(rows, t)).count)[r]
                                = Support(Lookup(base.full[t], Key(r, t)))
      <3>1. supports \subseteq FullTables
        BY DEF FullTables
      <3> HIDE DEF supports
      <3> TAKE t \in supports
      <3> DEFINE table == base.full[t]
                 keys == Keys(rows, t)
      <3>2. \A key \in DOMAIN table : table[key] \in Tallies
        BY <1>3, <3>1
      <3>3. r \in DOMAIN keys /\ keys[r] = Key(r, t)
        BY <1>2
      <3> HIDE DEF table, keys
      <3>4. Filled(AlignedCounts(table, keys).count)[r] = Support(Lookup(table, keys[r]))
        BY <3>2, <3>3, VectorIs
      <3> QED
        BY <3>3, <3>4 DEF table, keys
    <2> QED
      BY <2>1, <2>2 DEF RowOf
  <1>7. frame.recentGlobal[r] = Smoothed(base, base.recentGlobal)
    <2> DEFINE whole == [count |-> [q \in rows |-> base.recentGlobal.count],
                         positive |-> [q \in rows |-> base.recentGlobal.positive]]
    <2>1. frame.recentGlobal = SmoothedVector(base, whole)
      BY DEF BaseHistoricalFrame
    <2>2. base.recentGlobal \in Tallies
      BY DEF V3StateTyped, StateTyped
    <2>3. base.recentGlobal # None /\ base.recentGlobal.count # None
      BY <2>2, TalliesAre
    <2> QED
      BY <2>1, <2>3 DEF SmoothedVector, Smoothed
  <1>8. RowOf(frame.recent, r) = [t \in RecentTables |-> Smoothed(base, Lookup(base.recent[t], Key(r, t)))]
    <2>1. frame.recent = [t \in RecentTables |-> SmoothedVector(base, AlignedCounts(base.recent[t], Keys(rows, t)))]
      BY DEF BaseHistoricalFrame
    <2>2. \A t \in RecentTables : SmoothedVector(base, AlignedCounts(base.recent[t], Keys(rows, t)))[r]
                                    = Smoothed(base, Lookup(base.recent[t], Key(r, t)))
      BY <1>2, <1>3, VectorIs
    <2> QED
      BY <2>1, <2>2 DEF RowOf
  <1>9. RowOf(seasonal, r) = SeasonalHistoricalFeatures(r, state)
    <2>1. seasonal = [t \in SeasonalTables |->
                        SmoothedVector(base, AlignedCounts(state.seasonal[t], SeasonalKeys(rows, t)))]
      BY DEF SeasonalHistoricalFrame
    <2>2. \A t \in SeasonalTables :
            SmoothedVector(base, AlignedCounts(state.seasonal[t], SeasonalKeys(rows, t)))[r]
              = Smoothed(base, Lookup(state.seasonal[t], SeasonalKey(r, t)))
      BY <1>2, <1>3, VectorIs
    <2> QED
      BY <2>1, <2>2 DEF RowOf, SeasonalHistoricalFeatures
  <1> HIDE DEF frame, seasonal
  <1>10. TransformOne(r, base) =
           [global |-> frame.global[r], full |-> RowOf(frame.full, r),
            support |-> RowOf(frame.support, r),
            recentGlobal |-> frame.recentGlobal[r], recent |-> RowOf(frame.recent, r)]
    BY <1>4, <1>5, <1>6, <1>7, <1>8 DEF TransformOne
  <1> QED
    BY <1>1, <1>9, <1>10 DEF TransformOneV3

\* What is written entry by entry is read back.
LEMMA TableReadBack ==
  ASSUME NEW tables, NEW expected, Tallied(tables, expected)
  PROVE  ValidTables(Serialized(tables), expected) /\ Read(Serialized(tables)) = tables
  <1>1. DOMAIN tables = expected
    BY DEF Tallied
  <1>2. ASSUME NEW t \in expected
        PROVE  ValidEntries(Entries(tables[t])) /\ Table(Entries(tables[t])) = tables[t]
    <2> DEFINE table == tables[t]
               entries == Entries(table)
               entry(key) == [key |-> key, count |-> table[key].count, positive |-> table[key].positive]
    <2>1. table = [key \in DOMAIN table |-> table[key]] /\ \A key \in DOMAIN table : table[key] \in Tallies
      BY DEF Tallied
    <2>2. entries = {entry(key) : key \in DOMAIN table}
      BY DEF Entries
    <2>3. \A key : entry(key).key = key /\ entry(key).count = table[key].count
                   /\ entry(key).positive = table[key].positive
      OBVIOUS
    <2> HIDE DEF table, entry, entries
    <2>4. ValidEntries(entries)
      <3>1. \A key \in DOMAIN table : ValidCounts(entry(key))
        BY <2>1, <2>3, TalliesAre DEF ValidCounts
      <3> QED
        BY <2>2, <2>3, <3>1 DEF ValidEntries
    <2>5. {e.key : e \in entries} = DOMAIN table
      BY <2>2, <2>3
    <2>6. ASSUME NEW key \in DOMAIN table
          PROVE  (LET e == CHOOSE f \in entries : f.key = key
                  IN [count |-> e.count, positive |-> e.positive]) = table[key]
      <3> DEFINE e == CHOOSE f \in entries : f.key = key
      <3>1. e \in entries /\ e.key = key
        BY <2>2, <2>3
      <3>2. e = entry(key)
        BY <2>2, <2>3, <3>1
      <3> HIDE DEF e
      <3>3. [count |-> e.count, positive |-> e.positive] = table[key]
        BY <2>1, <2>3, <3>2, TalliesAre
      <3> QED
        BY <3>3 DEF e
    <2>7. Table(entries) = table
      BY <2>1, <2>5, <2>6 DEF Table
    <2> QED
      BY <2>4, <2>7 DEF table, entries
  <1>3. ValidTables(Serialized(tables), expected)
    BY <1>1, <1>2 DEF ValidTables, Serialized
  <1>4. Read(Serialized(tables)) = [t \in expected |-> tables[t]]
    BY <1>1, <1>2 DEF Read, Serialized
  <1> QED
    BY <1>3, <1>4 DEF Tallied

\* Replacing the tables of a state.
WithTables(s, full, recent) == [s EXCEPT !.full = full, !.recent = recent]
WithSeasonal(s, base, seasonal) == [s EXCEPT !.base = base, !.seasonal = seasonal]

LEMMA StateExcept ==
  ASSUME NEW s, NEW a, NEW g, NEW h, NEW f, NEW r, NEW full, NEW recent,
         s = [asOf |-> a, global |-> g, recentGlobal |-> h, full |-> f, recent |-> r]
  PROVE  WithTables(s, full, recent) =
           [asOf |-> a, global |-> g, recentGlobal |-> h, full |-> full, recent |-> recent]
  <1> DEFINE q == [s EXCEPT !.full = full]
  <1>1. [s EXCEPT !.full = full, !.recent = recent] = [q EXCEPT !.recent = recent]
    OBVIOUS
  <1>2. q = [asOf |-> a, global |-> g, recentGlobal |-> h, full |-> full, recent |-> r]
    OBVIOUS
  <1> HIDE DEF q
  <1>3. [q EXCEPT !.recent = recent] =
          [asOf |-> a, global |-> g, recentGlobal |-> h, full |-> full, recent |-> recent]
    BY <1>2
  <1> QED
    BY <1>1, <1>3 DEF WithTables

LEMMA V3StateExcept ==
  ASSUME NEW s, NEW b, NEW t, NEW m, NEW base, NEW seasonal,
         s = [base |-> b, seasonal |-> t, maxYear |-> m]
  PROVE  WithSeasonal(s, base, seasonal) =
           [base |-> base, seasonal |-> seasonal, maxYear |-> m]
  <1> DEFINE q == [s EXCEPT !.base = base]
  <1>1. [s EXCEPT !.base = base, !.seasonal = seasonal] = [q EXCEPT !.seasonal = seasonal]
    OBVIOUS
  <1>2. q = [base |-> base, seasonal |-> t, maxYear |-> m]
    OBVIOUS
  <1> HIDE DEF q
  <1>3. [q EXCEPT !.seasonal = seasonal] = [base |-> base, seasonal |-> seasonal, maxYear |-> m]
    BY <1>2
  <1> QED
    BY <1>1, <1>3 DEF WithSeasonal

LEMMA StateReadBack ==
  ASSUME NEW base, StateTyped(base)
  PROVE  FromBytes(ToBytes(base)) = base
  <1> DEFINE payload == ToBytes(base)
  <1>1. payload = [asOf |-> base.asOf, global |-> base.global, recentGlobal |-> base.recentGlobal,
                   full |-> Serialized(base.full), recent |-> Serialized(base.recent)]
    <2> DEFINE a == base.asOf
               g == base.global
               h == base.recentGlobal
               f == base.full
               r == base.recent
    <2>1. base = [asOf |-> a, global |-> g, recentGlobal |-> h, full |-> f, recent |-> r]
      BY DEF StateTyped
    <2>2. payload = WithTables(base, Serialized(f), Serialized(r))
      BY DEF ToBytes, WithTables
    <2> HIDE DEF a, g, h, f, r, payload
    <2>3. payload = [asOf |-> a, global |-> g, recentGlobal |-> h, full |-> Serialized(f),
                     recent |-> Serialized(r)]
      BY <2>1, <2>2, StateExcept
    <2> QED
      BY <2>3 DEF a, g, h, f, r
  <1> HIDE DEF payload
  <1>2. /\ ValidTables(payload.full, FullTables) /\ Read(payload.full) = base.full
        /\ ValidTables(payload.recent, RecentTables) /\ Read(payload.recent) = base.recent
    BY <1>1, TableReadBack DEF StateTyped
  <1>3. ValidCounts(payload.global) /\ ValidCounts(payload.recentGlobal)
    BY <1>1, TalliesAre DEF StateTyped
  <1>4. WithTables(payload, Read(payload.full), Read(payload.recent)) =
          [asOf |-> base.asOf, global |-> base.global, recentGlobal |-> base.recentGlobal,
           full |-> base.full, recent |-> base.recent]
    <2> DEFINE a == base.asOf
               g == base.global
               h == base.recentGlobal
               f == Serialized(base.full)
               r == Serialized(base.recent)
               full == Read(payload.full)
               recent == Read(payload.recent)
    <2>1. payload = [asOf |-> a, global |-> g, recentGlobal |-> h, full |-> f, recent |-> r]
      BY <1>1
    <2> HIDE DEF a, g, h, f, r, full, recent
    <2>2. WithTables(payload, full, recent) =
            [asOf |-> a, global |-> g, recentGlobal |-> h, full |-> full, recent |-> recent]
      BY <2>1, StateExcept
    <2> QED
      BY <1>2, <2>2 DEF a, g, h, full, recent
  <1> QED
    BY <1>2, <1>3, <1>4 DEF FromBytes, StateTyped, WithTables, payload

LEMMA V3StateReadBack ==
  ASSUME NEW state, V3StateTyped(state)
  PROVE  FromBytesV3(ToBytesV3(state)) = state
  <1> DEFINE payload == ToBytesV3(state)
  <1>1. payload = [base |-> ToBytes(state.base), seasonal |-> Serialized(state.seasonal),
                   maxYear |-> state.maxYear]
    <2> DEFINE b == state.base
               s == state.seasonal
               m == state.maxYear
    <2>1. state = [base |-> b, seasonal |-> s, maxYear |-> m]
      BY DEF V3StateTyped
    <2>2. payload = WithSeasonal(state, ToBytes(b), Serialized(s))
      BY DEF ToBytesV3, WithSeasonal
    <2> HIDE DEF b, s, m, payload
    <2>3. payload = [base |-> ToBytes(b), seasonal |-> Serialized(s), maxYear |-> m]
      BY <2>1, <2>2, V3StateExcept
    <2> QED
      BY <2>3 DEF b, s, m
  <1> HIDE DEF payload
  <1>2. FromBytes(payload.base) = state.base /\ state.base # Refused
    BY <1>1, StateReadBack DEF V3StateTyped
  <1>3. ValidTables(payload.seasonal, SeasonalTables) /\ Read(payload.seasonal) = state.seasonal
    BY <1>1, TableReadBack DEF V3StateTyped
  <1>4. WithSeasonal(payload, state.base, Read(payload.seasonal)) =
          [base |-> state.base, seasonal |-> state.seasonal, maxYear |-> state.maxYear]
    <2> DEFINE b == ToBytes(state.base)
               t == Serialized(state.seasonal)
               m == state.maxYear
               base == state.base
               seasonal == Read(payload.seasonal)
    <2>1. payload = [base |-> b, seasonal |-> t, maxYear |-> m]
      BY <1>1
    <2> HIDE DEF b, t, m, base, seasonal
    <2>2. WithSeasonal(payload, base, seasonal) =
            [base |-> base, seasonal |-> seasonal, maxYear |-> m]
      BY <2>1, V3StateExcept
    <2> QED
      BY <1>3, <2>2 DEF m, base, seasonal
  <1> QED
    BY <1>2, <1>3, <1>4 DEF FromBytesV3, V3StateTyped, WithSeasonal, payload

-----------------------------------------------------------------------------
(* What a state is built from, and what a row is given from it *)

LEMMA BuiltIs ==
  ASSUME NEW rows, IsFiniteSet(rows), NEW cutoff, BuildHistoricalState(rows, cutoff) # Refused
  PROVE  LET base == BuildHistoricalState(rows, cutoff) IN
         /\ StateTyped(base)
         /\ rows # {}
         /\ base.global = Counts(rows)
         /\ base.recentGlobal = Counts(Recent(rows, cutoff)) /\ Recent(rows, cutoff) # {}
         /\ \A t \in FullTables : base.full[t] = Aggregate(Keys(rows, t))
         /\ \A t \in RecentTables : base.recent[t] = Aggregate(Keys(Recent(rows, cutoff), t))
  <1> DEFINE base == BuildHistoricalState(rows, cutoff)
             recent == Recent(rows, cutoff)
  <1>1. /\ rows # {} /\ recent # {}
        /\ base = [asOf |-> cutoff, global |-> Counts(rows), recentGlobal |-> Counts(recent),
                   full |-> Tables(rows, FullTables), recent |-> Tables(recent, RecentTables)]
    BY DEF BuildHistoricalState
  <1>2. recent \in SUBSET rows
    BY DEF Recent
  <1> HIDE DEF base, recent
  <1>3. IsFiniteSet(recent)
    BY <1>2, FS_Subset
  <1>4. Counts(rows) \in Tallies /\ Counts(recent) \in Tallies
    BY <1>1, <1>3, CountsAre
  <1>5. ASSUME NEW some, IsFiniteSet(some), NEW tables
        PROVE  /\ Tallied(Tables(some, tables), tables)
               /\ \A t \in tables : Tables(some, tables)[t] = Aggregate(Keys(some, t))
    <2>1. \A t : DOMAIN Keys(some, t) = some
      BY DEF Keys
    <2>2. \A t : /\ Aggregate(Keys(some, t)) =
                      [key \in DOMAIN Aggregate(Keys(some, t)) |-> Aggregate(Keys(some, t))[key]]
                 /\ \A key \in DOMAIN Aggregate(Keys(some, t)) : Aggregate(Keys(some, t))[key] \in Tallies
      BY <1>5, <2>1, AggregateIs
    <2> QED
      BY <2>2 DEF Tallied, Tables
  <1>6. /\ Tallied(base.full, FullTables) /\ Tallied(base.recent, RecentTables)
        /\ \A t \in FullTables : base.full[t] = Aggregate(Keys(rows, t))
        /\ \A t \in RecentTables : base.recent[t] = Aggregate(Keys(recent, t))
    BY <1>1, <1>3, <1>5
  <1>7. StateTyped(base)
    BY <1>1, <1>4, <1>6 DEF StateTyped
  <1> QED
    BY <1>1, <1>6, <1>7 DEF base, recent

LEMMA V3BuiltIs ==
  ASSUME NEW rows, IsFiniteSet(rows), NEW cutoff, BuildV3HistoricalState(rows, cutoff) # Refused
  PROVE  LET state == BuildV3HistoricalState(rows, cutoff) IN
         /\ V3StateTyped(state)
         /\ state.base = BuildHistoricalState(rows, cutoff) /\ state.base # Refused
         /\ \A t \in SeasonalTables : state.seasonal[t] = Aggregate(SeasonalKeys(rows, t))
  <1> DEFINE state == BuildV3HistoricalState(rows, cutoff)
             base == BuildHistoricalState(rows, cutoff)
  <1>1. /\ base # Refused
        /\ state = [base |-> base, seasonal |-> SeasonalAggregates(rows), maxYear |-> MaxYear(rows)]
    BY DEF BuildV3HistoricalState
  <1> HIDE DEF state
  <1>2. StateTyped(base)
    BY <1>1, BuiltIs
  <1> HIDE DEF base
  <1>3. \A t : DOMAIN SeasonalKeys(rows, t) = rows
    BY DEF SeasonalKeys
  <1>4. \A t : LET table == Aggregate(SeasonalKeys(rows, t)) IN
                /\ table = [key \in DOMAIN table |-> table[key]]
                /\ \A key \in DOMAIN table : table[key] \in Tallies
    BY <1>3, AggregateIs
  <1>5. Tallied(SeasonalAggregates(rows), SeasonalTables)
    BY <1>4 DEF Tallied, SeasonalAggregates
  <1>6. \A t \in SeasonalTables : state.seasonal[t] = Aggregate(SeasonalKeys(rows, t))
    BY <1>1 DEF SeasonalAggregates
  <1>7. V3StateTyped(state)
    BY <1>1, <1>2, <1>5 DEF V3StateTyped
  <1> QED
    BY <1>1, <1>6, <1>7 DEF state, base

\* What is given in a batch is given row by row.
LEMMA TransformIs ==
  ASSUME generation \in {"v1", "v2", "v3"},
         NEW known, IsFiniteSet(known), NEW cutoff, Build(known, cutoff) # Refused,
         NEW rows, Transform(rows, Build(known, cutoff)) # Refused, NEW r \in rows
  PROVE  LET state == Build(known, cutoff)
             given == Transform(rows, state)[r] IN
         /\ generation = "v1" => given = None
         /\ generation = "v2" => given = TransformOne(r, state)
         /\ generation = "v3" => given = TransformOneV3(r, state) /\ ~OwnYear(r, state)
  <1> DEFINE state == Build(known, cutoff)
  <1>1. CASE generation = "v1"
    BY <1>1 DEF Transform
  <1>2. CASE generation = "v2"
    <2>1. Transform(rows, state) = TransformWithState(rows, state)
      BY <1>2 DEF Transform
    <2> HIDE DEF state
    <2>2. Transform(rows, state) = [q \in rows |-> TransformOne(q, state)]
      BY <2>1 DEF TransformWithState, state
    <2> QED
      BY <1>2, <2>2 DEF state
  <1>3. CASE generation = "v3"
    <2>1. Transform(rows, state) = TransformWithV3State(rows, state)
      BY <1>3 DEF Transform
    <2>2. state = BuildV3HistoricalState(known, cutoff)
      BY <1>3 DEF Build
    <2>3. V3StateTyped(state)
      BY <2>2, V3BuiltIs
    <2> HIDE DEF state
    <2>4. TransformWithV3State(rows, state) # Refused
      BY <2>1 DEF state
    <2>5. /\ ~OwnYear(r, state)
          /\ TransformWithV3State(rows, state)[r] = TransformOneV3(r, state)
      BY <2>3, <2>4, BatchIsServing
    <2> QED
      BY <1>3, <2>1, <2>5 DEF state
  <1> QED
    BY <1>1, <1>2, <1>3

\* The matrix of some rows that were all given what their months' states say.
Proper(matrix, rows) ==
  \E given : /\ matrix = Matrix(rows, given)
             /\ \A r \in rows : Usable(r) /\ given[r] = Given(r)

LEMMA ProperIsWhole ==
  ASSUME NEW rows, UniqueIds(rows), IsFiniteSet(rows), NEW matrix, Proper(matrix, rows)
  PROVE  /\ Whole(matrix)
         /\ Cardinality(matrix) = Cardinality(rows)
         /\ \A m \in matrix : m.flight \in rows
  <1>1. PICK given : /\ matrix = Matrix(rows, given)
                     /\ \A r \in rows : Usable(r) /\ given[r] = Given(r)
    BY DEF Proper
  <1>2. Labelled(matrix) /\ Cardinality(matrix) = Cardinality(rows)
    BY <1>1, MatrixIs
  <1>3. \A m \in matrix : m.flight \in rows /\ m.values = given[m.flight]
    BY <1>1 DEF Matrix
  <1> QED
    BY <1>1, <1>2, <1>3 DEF Whole

\* What is given from the state of a row's own month is what the row is to be given.
LEMMA GivenIs ==
  ASSUME generation \in {"v1", "v2", "v3"}, NEW r \in Row,
         IsFiniteSet(Prior(history, Month(r.date))),
         NEW state, state = StateFor(r), state # Refused,
         NEW rows, r \in rows, Transform(rows, state) # Refused
  PROVE  Usable(r) /\ Transform(rows, state)[r] = Given(r)
  <1> DEFINE known == Prior(history, Month(r.date))
             cutoff == MonthEnd(IF r.date < November THEN MonthsBefore(Month(r.date), 1) ELSE 202510)
  <1>1. StateFor(r) = Build(known, cutoff)
    BY DEF StateFor
  <1> HIDE DEF known, cutoff
  <1>2. IsFiniteSet(known)
    BY DEF known
  <1>3. LET s == Build(known, cutoff)
            given == Transform(rows, s)[r] IN
         /\ generation = "v1" => given = None
         /\ generation = "v2" => given = TransformOne(r, s)
         /\ generation = "v3" => given = TransformOneV3(r, s) /\ ~OwnYear(r, s)
    BY <1>1, <1>2, TransformIs
  <1> QED
    BY <1>1, <1>3 DEF Usable, Given

\* The rows of a training matrix have the features of their months.
LEMMA TrainingIs ==
  ASSUME generation \in {"v1", "v2", "v3"}, IsFiniteSet(history),
         NEW rows, rows \subseteq Row, UniqueIndexes(rows),
         TransformTrainingRows(history, rows) # Refused
  PROVE  /\ Proper(TransformTrainingRows(history, rows), rows)
         /\ \A r \in rows : ModelStart <= r.date /\ r.date < TrainingEnd
  <1> DEFINE months == {Month(r.date) : r \in rows}
             monthly(m) == {r \in rows : Month(r.date) = m}
             state == [m \in months |-> Build(Prior(history, m), MonthEnd(MonthsBefore(m, 1)))]
             values == [m \in months |-> IF state[m] = Refused THEN Refused
                                         ELSE Transform(monthly(m), state[m])]
             given == [r \in rows |-> values[Month(r.date)][r]]
  <1>1. /\ rows = InPeriod(rows, ModelStart, TrainingEnd)
        /\ \A m \in months : values[m] # Refused
        /\ TransformTrainingRows(history, rows)
             = Joined(UNION {Featured(monthly(m), values[m]) : m \in months}, Targets(rows))
    BY DEF TransformTrainingRows
  <1>2. \A r \in rows : ModelStart <= r.date /\ r.date < TrainingEnd
    BY <1>1 DEF InPeriod
  <1>3. UNION {Featured(monthly(m), values[m]) : m \in months} = Featured(rows, given)
    <2>1. ASSUME NEW m \in months, NEW q \in Featured(monthly(m), values[m])
          PROVE  q \in Featured(rows, given)
      <3>1. PICK r \in monthly(m) : q = [index |-> r.index, flight |-> r, values |-> values[m][r]]
        BY <2>1 DEF Featured
      <3>2. r \in rows /\ given[r] = values[m][r]
        BY <3>1
      <3> HIDE DEF given, values, state
      <3> QED
        BY <3>1, <3>2 DEF Featured
    <2>2. ASSUME NEW q \in Featured(rows, given)
          PROVE  \E m \in months : q \in Featured(monthly(m), values[m])
      <3>1. PICK r \in rows : q = [index |-> r.index, flight |-> r, values |-> given[r]]
        BY <2>2 DEF Featured
      <3>2. given[r] = values[Month(r.date)][r] /\ r \in monthly(Month(r.date)) /\ Month(r.date) \in months
        BY <3>1
      <3> HIDE DEF given, values, state
      <3> QED
        BY <3>1, <3>2 DEF Featured
    <2> HIDE DEF given, values, state, months, monthly
    <2> QED
      BY <2>1, <2>2
  <1>4. TransformTrainingRows(history, rows) = Matrix(rows, given)
    BY <1>1, <1>3, JoinedIs
  <1>5. ASSUME NEW r \in rows
        PROVE  Usable(r) /\ given[r] = Given(r)
    <2> DEFINE m == Month(r.date)
    <2>1. /\ m \in months /\ r \in monthly(m) /\ given[r] = values[m][r] /\ r \in Row
          /\ state[m] = Build(Prior(history, m), MonthEnd(MonthsBefore(m, 1)))
      OBVIOUS
    <2>2. state[m] # Refused /\ values[m] = Transform(monthly(m), state[m])
      BY <1>1, <2>1
    <2>3. r.date \in Dates2Years
      BY DEF Row
    <2>4. r.date >= November => MonthsBefore(m, 1) = 202510
      <3>1. SUFFICES ASSUME r.date >= November
                     PROVE  MonthsBefore(m, 1) = 202510
        OBVIOUS
      <3>2. r.date \in Int /\ r.date < December /\ m \in Int
        BY <1>2, <2>3, DateIs, SMT DEF TrainingEnd, November, December
      <3>3. r.date >= MonthStart(202511) /\ r.date < MonthStart(202512)
        BY <3>1, <3>2, SMT DEF MonthStart, November, December
      <3>4. m >= 202511 /\ m < 202512
        BY <2>3, <3>3, DateIs
      <3>5. m = 202511
        BY <3>2, <3>4, SMT
      <3> QED
        BY <3>5, SMT DEF MonthsBefore
    <2>5. state[m] = StateFor(r)
      <3>1. CASE r.date < November
        BY <2>1, <3>1 DEF StateFor
      <3>2. CASE ~(r.date < November)
        <4>1. r.date >= November
          BY <2>3, <3>2, DateIs, SMT DEF November
        <4> QED
          BY <2>1, <2>4, <3>2, <4>1 DEF StateFor
      <3> QED
        BY <3>1, <3>2
    <2>6. IsFiniteSet(Prior(history, m))
      <3>1. Prior(history, m) \in SUBSET history
        BY DEF Prior
      <3> QED
        BY <3>1, FS_Subset
    <2> DEFINE some == monthly(m)
               s == state[m]
    <2>7. r \in some /\ s = StateFor(r) /\ s # Refused /\ Transform(some, s) # Refused
      BY <1>1, <2>1, <2>2, <2>5
    <2>8. given[r] = Transform(some, s)[r]
      BY <2>1, <2>2
    <2> HIDE DEF some, s, given, values, state, months, monthly
    <2>9. Usable(r) /\ Transform(some, s)[r] = Given(r)
      BY <2>1, <2>6, <2>7, GivenIs
    <2> QED
      BY <2>8, <2>9
  <1> HIDE DEF given
  <1>6. Proper(TransformTrainingRows(history, rows), rows)
    BY <1>4, <1>5 DEF Proper
  <1> QED
    BY <1>2, <1>6

\* From November on the state is that of October 31.
LEMMA LateState ==
  ASSUME \A h \in history : h \in Row /\ h.date < November, NEW r \in Row, November <= r.date
  PROVE  StateFor(r) = Build(history, Cutoff)
  <1>1. r.date \in Dates2Years /\ November <= r.date /\ r.date \in Int
    BY DateIs DEF Row
  <1>2. ~(r.date < November) /\ MonthEnd(202510) = Cutoff
    BY <1>1, SMT DEF November, MonthEnd, Cutoff
  <1>3. r.date >= MonthStart(202511)
    BY <1>1, SMT DEF November, MonthStart
  <1>4. Month(r.date) >= 202511 /\ Month(r.date) \in Int
    BY <1>1, <1>3, DateIs
  <1>5. ASSUME NEW h \in history
        PROVE  h.date < MonthStart(Month(r.date))
    <2>1. h.date \in Dates2Years /\ h.date < November
      BY DEF Row
    <2>2. h.date \in Int /\ h.date < MonthStart(202511)
      BY <2>1, DateIs, SMT DEF November, MonthStart
    <2> QED
      BY <1>4, <2>2, SMT DEF MonthStart
  <1>6. Prior(history, Month(r.date)) = history
    BY <1>5 DEF Prior
  <1> QED
    BY <1>2, <1>6 DEF StateFor

\* So have those of an evaluation, from the state of October 31.
LEMMA EvaluationIs ==
  ASSUME generation \in {"v1", "v2", "v3"}, IsFiniteSet(history),
         \A h \in history : h \in Row /\ h.date < November,
         NEW rows, rows \subseteq Row, UniqueIndexes(rows), \A r \in rows : November <= r.date,
         NEW state, state = Build(history, Cutoff), state # Refused,
         Evaluated(rows, state) # Refused
  PROVE  Proper(Evaluated(rows, state), rows)
  <1> DEFINE given == Transform(rows, state)
  <1>1. given # Refused /\ Evaluated(rows, state) = Joined(Featured(rows, given), Targets(rows))
    BY DEF Evaluated
  <1>2. Evaluated(rows, state) = Matrix(rows, given)
    BY <1>1, JoinedIs
  <1>3. ASSUME NEW r \in rows
        PROVE  state = StateFor(r)
    BY LateState
  <1>4. ASSUME NEW r \in rows
        PROVE  Usable(r) /\ given[r] = Given(r)
    <2>1. r \in Row /\ state = StateFor(r)
      BY <1>3
    <2>2. Prior(history, Month(r.date)) \in SUBSET history
      BY DEF Prior
    <2>3. IsFiniteSet(Prior(history, Month(r.date)))
      BY <2>2, FS_Subset
    <2> QED
      BY <1>1, <2>1, <2>3, GivenIs
  <1> HIDE DEF given
  <1> QED
    BY <1>2, <1>4 DEF Proper

-----------------------------------------------------------------------------
(* Reading *)

LEMMA FlightsAre ==
  ASSUME Typed
  PROVE  IsFiniteSet(flights) /\ flights \subseteq Row /\ UniqueIds(flights)
  BY PreparationAssumption DEF Typed, UniqueIds

\* Every row is of a prepared flight.
Traceable(rows) == \A r \in rows : \E f \in flights : f.id = r.id /\ f.date = r.date

\* A version of the files holds the prepared flights, with labels of its own.
LEMMA HeldIs ==
  ASSUME Typed, NEW version
  PROVE  /\ IsFiniteSet(Held(version)) /\ Held(version) \subseteq Row
         /\ UniqueIds(Held(version)) /\ Traceable(Held(version))
  <1> DEFINE turned(r) == [r EXCEPT !.target = 1 - r.target]
             other == {turned(r) : r \in flights}
             g == [r \in flights |-> turned(r)]
  <1>1. Held(version) = IF version = 0 THEN flights ELSE other
    BY DEF Held
  <1>2. /\ IsFiniteSet(flights) /\ flights \subseteq Row /\ UniqueIds(flights)
        /\ Traceable(flights)
    BY FlightsAre DEF Traceable
  <1>3. \A r \in flights : turned(r) \in Row /\ turned(r).id = r.id /\ turned(r).date = r.date
    <2> SUFFICES ASSUME NEW r \in flights
                 PROVE  turned(r) \in Row /\ turned(r).id = r.id /\ turned(r).date = r.date
      OBVIOUS
    <2>1. r \in Row
      BY <1>2
    <2>2. 1 - r.target \in {0, 1}
      BY <2>1 DEF Row
    <2> QED
      BY <2>1, <2>2 DEF Row
  <1> HIDE DEF turned
  <1>4. IsFiniteSet(other)
    <2>1. g \in [flights -> other]
      OBVIOUS
    <2>2. \A a, b \in flights : g[a] = g[b] => a = b
      BY <1>2, <1>3 DEF UniqueIds
    <2>3. \A t \in other : \E r \in flights : g[r] = t
      OBVIOUS
    <2> HIDE DEF g, other
    <2>4. g \in Bijection(flights, other)
      BY <2>1, <2>2, <2>3 DEF Bijection, Injection, Surjection, IsInjective
    <2>5. ExistsBijection(flights, other)
      BY <2>4 DEF ExistsBijection
    <2> QED
      BY <1>2, <2>5, FS_Bijection
  <1>5. other \subseteq Row /\ UniqueIds(other) /\ Traceable(other)
    BY <1>2, <1>3 DEF UniqueIds, Traceable
  <1> QED
    BY <1>1, <1>2, <1>4, <1>5

\* Some of those.
LEMMA HeldSome ==
  ASSUME Typed, NEW version, NEW rows \in SUBSET Held(version)
  PROVE  IsFiniteSet(rows) /\ rows \subseteq Row /\ UniqueIds(rows) /\ Traceable(rows)
  <1>1. /\ IsFiniteSet(Held(version)) /\ Held(version) \subseteq Row
        /\ UniqueIds(Held(version)) /\ Traceable(Held(version))
    BY HeldIs
  <1>2. IsFiniteSet(rows)
    BY <1>1, FS_Subset
  <1> QED
    BY <1>1, <1>2 DEF UniqueIds, Traceable

\* Reindexed rows are a frame.
LEMMA FrameIs ==
  ASSUME NEW rows, IsFiniteSet(rows), rows \subseteq Row, UniqueIds(rows), Traceable(rows)
  PROVE  /\ Frame(Reindexed(rows))
         /\ \A q \in Reindexed(rows) : \E r \in rows : Same(r, q)
  <1>1. /\ \A r \in rows : Same(r, Moved(r, rows))
        /\ Reindexed(rows) = {Moved(r, rows) : r \in rows}
        /\ Reindexed(rows) \subseteq Row
        /\ UniqueIds(Reindexed(rows)) /\ UniqueIndexes(Reindexed(rows))
        /\ IsFiniteSet(Reindexed(rows))
    BY ReindexedIs
  <1>2. \A q \in Reindexed(rows) : \E r \in rows : Same(r, q)
    BY <1>1
  <1> QED
    BY <1>1, <1>2 DEF Frame, Traceable, Same, UniqueIds, UniqueIndexes

\* Some rows of a frame.
LEMMA SubFrame ==
  ASSUME NEW rows, Frame(rows), NEW some \in SUBSET rows
  PROVE  /\ Frame(some)
         /\ IsFiniteSet(some) /\ some \subseteq Row /\ UniqueIds(some) /\ UniqueIndexes(some)
  <1>1. IsFiniteSet(some)
    BY FS_Subset DEF Frame
  <1> QED
    BY <1>1 DEF Frame, UniqueIds, UniqueIndexes

\* A period that is read is a frame of its dates.
LEMMA ReadIs ==
  ASSUME Typed, NEW period \in Periods, files[Split(period)] # None,
         ReadPeriod(period) # Refused
  PROVE  /\ files[Split(period)] \in FileVersions
         /\ Frame(ReadPeriod(period))
         /\ \A r \in ReadPeriod(period) : Start[period] <= r.date /\ r.date < End[period]
         /\ ReadPeriod(period) =
              Reindexed(InPeriod(Held(files[Split(period)].version), Start[period], End[period]))
  <1> DEFINE split == Split(period)
             held == Held(files[split].version)
             rows == InPeriod(Content(split), Start[period], End[period])
  <1>1. ReadPeriod(period) = Reindexed(rows)
    BY DEF ReadPeriod
  <1>2. split \in Splits
    BY DEF Splits
  <1>3. rows = InPeriod(held, Start[period], End[period])
    BY DEF InPeriod, Content
  <1>4. rows \in SUBSET held /\ \A r \in rows : Start[period] <= r.date /\ r.date < End[period]
    BY <1>3 DEF InPeriod
  <1> HIDE DEF rows
  <1>5. IsFiniteSet(rows) /\ rows \subseteq Row /\ UniqueIds(rows) /\ Traceable(rows)
    BY <1>4, HeldSome
  <1>6. Frame(Reindexed(rows)) /\ \A q \in Reindexed(rows) : \E r \in rows : Same(r, q)
    BY <1>5, FrameIs
  <1>7. files[split] \in FileVersions
    BY <1>2 DEF Typed
  <1> QED
    BY <1>1, <1>3, <1>4, <1>6, <1>7 DEF Same

\* The rows that the history is made of, and the history.
LEMMA HistoryFrame ==
  ASSUME Typed
  PROVE  /\ IsFiniteSet(HistoryRows) /\ HistoryRows \subseteq Row /\ UniqueIds(HistoryRows)
         /\ Frame(Reindexed(HistoryRows))
         /\ \A h \in Reindexed(HistoryRows) : HistoryStart <= h.date /\ h.date < November
  <1>1. /\ HistoryRows \in SUBSET Held(consumed["history"])
        /\ \A h \in HistoryRows : HistoryStart <= h.date /\ h.date < November
    BY DEF HistoryRows, InPeriod
  <1>2. IsFiniteSet(HistoryRows) /\ HistoryRows \subseteq Row /\ UniqueIds(HistoryRows) /\ Traceable(HistoryRows)
    BY <1>1, HeldSome
  <1>3. /\ Frame(Reindexed(HistoryRows))
        /\ \A q \in Reindexed(HistoryRows) : \E r \in HistoryRows : Same(r, q)
    BY <1>2, FrameIs
  <1> QED
    BY <1>1, <1>2, <1>3 DEF Same

-----------------------------------------------------------------------------
(* The steps *)

LEMMA EmptyFrame == Frame({})
  BY FS_EmptySet DEF Frame

LEMMA EmptyWhole == \A matrix : matrix = {} => Whole(matrix)
  BY DEF Whole, Labelled

LEMMA InvInit == Init => Inv
  <1> SUFFICES ASSUME Init PROVE Inv
    OBVIOUS
  <1>1. Typed /\ Staged /\ Carried
    BY DEF Init, Typed, Staged, Carried, Periods, Described, FileVersions
  <1>2. stage = "begin" /\ november = {}
    BY DEF Init
  <1>3. Frames
    BY <1>2, EmptyFrame DEF Frames
  <1>4. \A matrix \in {search, refit, calibration, selection, december} : matrix = {}
    BY DEF Init
  <1>5. Matrixes
    BY <1>4, EmptyWhole DEF Matrixes
  <1>6. LateRows
    BY <1>4 DEF LateRows
  <1>7. NovemberNeverFitted
    BY <1>2, <1>4 DEF Init, NovemberNeverFitted, Dates
  <1>8. Traced
    BY TalliesAre DEF Init, Traced, DescribedData, Periods
  <1> QED
    BY <1>1, <1>3, <1>5, <1>6, <1>7, <1>8 DEF Inv

\* What a row is to be given is the same while the history is.
LEMMA GivenKept ==
  ASSUME UNCHANGED <<generation, history>>, NEW row
  PROVE  (Usable(row)' <=> Usable(row)) /\ Given(row)' = Given(row)
  <1>1. StateFor(row)' = StateFor(row)
    BY DEF StateFor, Build, Prior
  <1> QED
    BY <1>1 DEF Usable, Given

LEMMA MatrixesKept ==
  ASSUME Matrixes, UNCHANGED <<generation, history, search, refit, calibration, selection, december>>
  PROVE  Matrixes'
  <1>1. \A row : (Usable(row)' <=> Usable(row)) /\ Given(row)' = Given(row)
    BY GivenKept
  <1> QED
    BY <1>1 DEF Matrixes, Whole, Labelled

\* The parts of the invariant that a step leaves alone when it only moves files,
\* reads or stops.
LEMMA NovemberKept ==
  ASSUME NovemberNeverFitted,
         UNCHANGED <<generation, november, search, refit, folds, calibration, selection>>,
         stage' \in {"folds", "handoff", "qualified"} => stage \in {"folds", "handoff", "qualified"}
  PROVE  NovemberNeverFitted'
  <1>1. ModelStart' = ModelStart
    BY DEF ModelStart
  <1> QED
    BY <1>1 DEF NovemberNeverFitted, Dates

LEMMA CarriedKept ==
  ASSUME Carried, UNCHANGED <<generation, history, artifact>>,
         stage' \in {"folds", "handoff", "qualified"} => stage \in {"folds", "handoff", "qualified"}
  PROVE  Carried'
  <1>1. Build(history, Cutoff)' = Build(history, Cutoff)
    BY DEF Build
  <1>2. Serialize(Build(history, Cutoff))' = Serialize(Build(history, Cutoff))
    BY <1>1 DEF Serialize
  <1> QED
    BY <1>1, <1>2 DEF Carried

LEMMA FramesKept ==
  ASSUME Frames, UNCHANGED <<generation, flights, history, november>>,
         consumed'["history"] = consumed["history"],
         stage' \notin {"begin", "refused"} => stage \notin {"begin", "refused"}
  PROVE  Frames'
  BY DEF Frames, Frame, HistoryRows, HistoryStart, InPeriod, Held

LEMMA TypedKept ==
  ASSUME Typed, UNCHANGED <<generation, flights, files, consumed>>
  PROVE  Typed'
  BY DEF Typed, Splits, Split

\* An exception leaves everything as it is.
LEMMA RefuseStep ==
  ASSUME Inv, Refuse, UNCHANGED <<generation, flights, files, manifest, replaced>>
  PROVE  Inv'
  <1>1. /\ stage' = "refused" /\ checked' = None
        /\ UNCHANGED <<history, november, search, refit, folds, calibration, selection, artifact, december>>
        /\ UNCHANGED <<generation, flights, files, consumed, replaced>>
    BY DEF Refuse, frames
  <1>2. Typed'
    BY <1>1, TypedKept DEF Inv
  <1>3. Staged'
    BY <1>1 DEF Inv, Staged
  <1>4. Frames'
    BY <1>1, FramesKept DEF Inv
  <1>5. Matrixes'
    BY <1>1, MatrixesKept DEF Inv
  <1>6. Carried'
    BY <1>1 DEF Carried
  <1>7. LateRows'
    BY <1>1 DEF Inv, LateRows
  <1>8. NovemberNeverFitted'
    BY <1>1, NovemberKept DEF Inv
  <1>9. Traced'
    BY <1>1 DEF Inv, Traced, DescribedData
  <1> QED
    BY <1>2, <1>3, <1>4, <1>5, <1>6, <1>7, <1>8, <1>9 DEF Inv

\* Every split is one of those of the program.
LEMMA SplitsAre ==
  /\ \A period \in Periods : Split(period) \in Splits
  /\ "history" \in Periods /\ "november" \in Periods /\ "december" \in Periods
  BY DEF Splits, Periods, Split

LEMMA TypedRead ==
  ASSUME Typed, UNCHANGED <<generation, flights, files>>,
         NEW period \in Periods, files[Split(period)] \in FileVersions,
         consumed' = [consumed EXCEPT ![period] = files[Split(period)].version]
  PROVE  Typed'
  <1>1. files[Split(period)].version \in {0, 1, None}
    BY DEF FileVersions
  <1>2. consumed' \in [Periods -> {0, 1, None}]
    BY <1>1 DEF Typed
  <1>3. Splits' = Splits
    BY DEF Splits, Split
  <1> QED
    BY <1>2, <1>3 DEF Typed

\* A file that is checked.
LEMMA CheckStep ==
  ASSUME Inv, CheckFile
  PROVE  Inv'
  <1> DEFINE period == ReadAt[stage]
  <1>1. CASE Refuse /\ UNCHANGED <<generation, flights, files, manifest, replaced>>
    BY <1>1, RefuseStep
  <1>2. CASE ~(Refuse /\ UNCHANGED <<generation, flights, files, manifest, replaced>>)
    <2>1. /\ stage \in DOMAIN ReadAt /\ Sound(period) /\ checked' = period
          /\ UNCHANGED <<generation, flights, files, manifest, stage, consumed, replaced>>
          /\ UNCHANGED <<history, november, search, refit, folds, calibration, selection, artifact, december>>
      BY <1>2 DEF CheckFile, frames
    <2>2. Typed' /\ Frames'
      BY <2>1, TypedKept, FramesKept DEF Inv
    <2>3. Staged'
      BY <2>1 DEF Inv, Staged
    <2>4. Matrixes'
      BY <2>1, MatrixesKept DEF Inv
    <2>5. Carried' /\ NovemberNeverFitted'
      BY <2>1, CarriedKept, NovemberKept DEF Inv
    <2>6. LateRows'
      BY <2>1 DEF Inv, LateRows
    <2>7. Traced'
      BY <2>1 DEF Inv, Traced, DescribedData, Sound, Split, Verified
    <2> QED
      BY <2>2, <2>3, <2>4, <2>5, <2>6, <2>7 DEF Inv
  <1> QED
    BY <1>1, <1>2

\* What is read from a checked file, unless the file was replaced.
LEMMA DescribedRead ==
  ASSUME Typed, Traced, checked \in Periods, checked # None,
         UNCHANGED <<generation, replaced>>,
         checked' = None, consumed' = [consumed EXCEPT ![checked] = files[Split(checked)].version]
  PROVE  Traced'
  <1>1. \A p \in Periods : consumed'[p] = IF p = checked THEN files[Split(checked)].version
                                         ELSE consumed[p]
    BY DEF Typed
  <1> QED
    BY <1>1 DEF Traced, DescribedData, Verified

LEMMA HistoryStep ==
  ASSUME Inv, ReadHistory
  PROVE  Inv'
  <1>1. CASE Refuse /\ UNCHANGED <<generation, flights, files, manifest, replaced>>
    BY <1>1, RefuseStep
  <1>2. CASE ~(Refuse /\ UNCHANGED <<generation, flights, files, manifest, replaced>>)
    <2>1. /\ checked = "history" /\ stage' = "november" /\ checked' = None
          /\ ReadPeriod("history") # Refused /\ history' = ReadPeriod("history")
          /\ consumed' = [consumed EXCEPT !["history"] = files[Split("history")].version]
          /\ UNCHANGED <<november, search, refit, folds, calibration, selection, artifact, december>>
          /\ UNCHANGED <<generation, flights, files, manifest, replaced>>
      BY <1>2 DEF ReadHistory, Consume
    <2>2. Typed /\ Staged /\ Frames /\ Traced
      BY DEF Inv
    <2>3. checked # None /\ stage = "begin"
      BY <2>1, <2>2, SplitsAre, PreparationAssumption DEF Staged, ReadAt
    <2>a. files[Split("history")] # None
      BY <2>1, <2>2, <2>3 DEF Traced
    <2>b. /\ files[Split("history")] \in FileVersions
          /\ history' = Reindexed(InPeriod(Held(files[Split("history")].version), HistoryStart, November))
      <3>1. Start["history"] = HistoryStart /\ End["history"] = November
        BY DEF Start, End
      <3> QED
        BY <2>1, <2>2, <2>a, <3>1, SplitsAre, ReadIs
    <2>4. /\ search = {} /\ refit = {} /\ calibration = {} /\ selection = {} /\ december = {}
          /\ folds = <<>> /\ november = {} /\ consumed["november"] = None
          /\ consumed["december"] = None
      BY <2>2, <2>3 DEF Staged
    <2>5. Typed'
      BY <2>1, <2>2, <2>b, SplitsAre, TypedRead
    <2>6. Staged'
      BY <2>1, <2>2, <2>4, SplitsAre DEF Staged, Typed
    <2>7. Frames'
      <3>1. consumed'["history"] = files[Split("history")].version
        BY <2>1, <2>2, SplitsAre DEF Typed
      <3>2. HistoryRows' = InPeriod(Held(files[Split("history")].version), HistoryStart, November)
        BY <2>1, <3>1 DEF HistoryRows, HistoryStart, Held, InPeriod
      <3>3. Reindexed(HistoryRows)' = history'
        BY <2>b, <3>2 DEF Reindexed
      <3> QED
        BY <2>1, <2>2, <3>3 DEF Frames, Frame
    <2>8. Matrixes'
      BY <2>1, <2>4 DEF Matrixes, Whole, Labelled
    <2>9. Carried'
      BY <2>1 DEF Carried
    <2>10. LateRows'
      BY <2>1, <2>4 DEF LateRows
    <2>11. NovemberNeverFitted'
      BY <2>1, <2>4 DEF NovemberNeverFitted, Dates
    <2>12. Traced'
      BY <2>1, <2>2, <2>3, SplitsAre, DescribedRead
    <2> QED
      BY <2>5, <2>6, <2>7, <2>8, <2>9, <2>10, <2>11, <2>12 DEF Inv
  <1> QED
    BY <1>1, <1>2

LEMMA NovemberStep ==
  ASSUME Inv, ReadNovember
  PROVE  Inv'
  <1>1. CASE Refuse /\ UNCHANGED <<generation, flights, files, manifest, replaced>>
    BY <1>1, RefuseStep
  <1>2. CASE ~(Refuse /\ UNCHANGED <<generation, flights, files, manifest, replaced>>)
    <2>1. /\ checked = "november" /\ stage' = "prepare" /\ checked' = None
          /\ ReadPeriod("november") # Refused /\ november' = ReadPeriod("november")
          /\ consumed' = [consumed EXCEPT !["november"] = files[Split("november")].version]
          /\ UNCHANGED <<history, search, refit, folds, calibration, selection, artifact, december>>
          /\ UNCHANGED <<generation, flights, files, manifest, replaced>>
      BY <1>2 DEF ReadNovember, Consume
    <2>2. Typed /\ Staged /\ Frames /\ Matrixes /\ LateRows /\ NovemberNeverFitted /\ Traced
      BY DEF Inv
    <2>a. checked # None /\ stage = "november"
      BY <2>1, <2>2, SplitsAre, PreparationAssumption DEF Staged, ReadAt
    <2>b. files[Split("november")] # None
      BY <2>1, <2>2, <2>a DEF Traced
    <2>3. /\ files[Split("november")] \in FileVersions
          /\ Frame(ReadPeriod("november"))
          /\ \A r \in ReadPeriod("november") : Start["november"] <= r.date /\ r.date < End["november"]
      BY <2>1, <2>2, <2>b, SplitsAre, ReadIs
    <2>4. /\ search = {} /\ refit = {} /\ calibration = {} /\ selection = {} /\ december = {}
          /\ folds = <<>>
      BY <2>2, <2>a DEF Staged
    <2>5. Typed'
      BY <2>1, <2>2, <2>3, SplitsAre, TypedRead
    <2>6. consumed'["november"] = files[Split("november")].version /\ files[Split("november")].version \in {0, 1}
      BY <2>1, <2>2, <2>3, SplitsAre DEF Typed, FileVersions
    <2>7. Staged'
      <3>1. consumed'["december"] = consumed["december"]
        BY <2>1, <2>2, SplitsAre DEF Typed
      <3> QED
        BY <2>1, <2>2, <2>a, <2>4, <2>6, <3>1, TalliesAre DEF Staged
    <2>8. Frames'
      <3>1. /\ IsFiniteSet(november') /\ november' \subseteq Row
            /\ \A r \in november' : \E f \in flights' : f.id = r.id /\ f.date = r.date
            /\ \A r, s \in november' : r.index = s.index \/ r.id = s.id => r = s
        BY <2>1, <2>3 DEF Frame
      <3>2. Start["november"] = November /\ End["november"] = December
        BY DEF Start, End
      <3>3. \A r \in november' : November <= r.date /\ r.date < December
        BY <2>1, <2>3, <3>2
      <3>4. HistoryRows' = HistoryRows
        <4>1. consumed'["history"] = consumed["history"]
          BY <2>1, <2>2, SplitsAre DEF Typed
        <4> QED
          BY <2>1, <4>1 DEF HistoryRows, HistoryStart, Held, InPeriod
      <3>5. history' = Reindexed(HistoryRows)'
        BY <2>1, <2>2, <2>a, <3>4 DEF Frames, Reindexed
      <3> QED
        BY <3>1, <3>3, <3>5 DEF Frames, Frame
    <2>9. Matrixes'
      BY <2>1, <2>4 DEF Matrixes, Whole, Labelled
    <2>10. Carried'
      BY <2>1 DEF Carried
    <2>11. LateRows'
      BY <2>1, <2>4 DEF LateRows
    <2>12. NovemberNeverFitted'
      BY <2>1, <2>4 DEF NovemberNeverFitted, Dates
    <2>13. Traced'
      BY <2>1, <2>2, <2>a, SplitsAre, DescribedRead
    <2> QED
      BY <2>5, <2>7, <2>8, <2>9, <2>10, <2>11, <2>12, <2>13 DEF Inv
  <1> QED
    BY <1>1, <1>2

\* A split is materialized, rewritten or restored.
LEMMA FilesStep ==
  ASSUME Inv, Materialize \/ \E split \in Splits : Rewrite(split)
  PROVE  Inv'
  <1>1. /\ UNCHANGED <<generation, flights, manifest, stage, checked, consumed>>
        /\ UNCHANGED <<history, november, search, refit, folds, calibration, selection, artifact, december>>
    BY DEF Materialize, Rewrite, frames
  <1>2. Typed'
    <2>1. PICK split \in Splits, file \in FileVersions : files' = [files EXCEPT ![split] = file]
      <3>1. CASE Materialize
        <4>1. "v3_december" \in Splits
          BY <3>1 DEF Materialize, Splits, Periods, Split
        <4>2. Described \in FileVersions
          BY DEF Described, FileVersions
        <4> QED
          BY <3>1, <4>1, <4>2 DEF Materialize
      <3>2. CASE \E split \in Splits : Rewrite(split)
        <4>1. Described \in FileVersions
          BY DEF Described, FileVersions
        <4> QED
          BY <3>2, <4>1 DEF Rewrite
      <3> QED
        BY <3>1, <3>2
    <2>2. Splits' = Splits
      BY <1>1 DEF Splits, Split
    <2>3. DOMAIN files = Splits /\ \A s \in Splits : files[s] \in FileVersions \union {None}
      BY DEF Inv, Typed
    <2>4. DOMAIN files' = Splits /\ \A s \in Splits : files'[s] \in FileVersions \union {None}
      BY <2>1, <2>3
    <2> QED
      BY <1>1, <2>2, <2>4 DEF Inv, Typed
  <1>3. Staged'
    BY <1>1 DEF Inv, Staged
  <1>4. Frames'
    BY <1>1, FramesKept DEF Inv
  <1>5. Matrixes'
    BY <1>1, MatrixesKept DEF Inv
  <1>6. Carried'
    BY <1>1, CarriedKept DEF Inv
  <1>7. LateRows'
    BY <1>1 DEF Inv, LateRows
  <1>8. NovemberNeverFitted'
    BY <1>1, NovemberKept DEF Inv
  <1>9. Traced'
    <2>1. DescribedData /\ Split(checked)' = Split(checked) /\ (Verified(checked)' <=> Verified(checked))
      BY <1>1 DEF Inv, Traced, Split, Verified
    <2>a. /\ DOMAIN files = Splits
          /\ checked # None => checked \in Periods /\ Split(checked) \in Splits
      BY SplitsAre DEF Inv, Typed, Staged, ReadAt
    <2>2. CASE Materialize
      <3>1. /\ files["v3_december"] = None /\ replaced' = replaced
            /\ files' = [files EXCEPT !["v3_december"] = Described]
        BY <2>2 DEF Materialize
      <3>2. checked # None => Split(checked) # "v3_december"
        BY <3>1 DEF Inv, Traced
      <3>3. checked # None => files'[Split(checked)] = files[Split(checked)]
        BY <2>a, <3>1, <3>2
      <3> QED
        BY <1>1, <2>1, <3>1, <3>3 DEF Inv, Traced, DescribedData
    <2>3. ASSUME NEW split \in Splits, Rewrite(split)
          PROVE  Traced'
      <3>1. Described \in FileVersions
        BY DEF Described, FileVersions
      <3>2. PICK file \in FileVersions : files' = [files EXCEPT ![split] = file]
        BY <2>3, <3>1 DEF Rewrite
      <3>3. file # None
        BY PreparationAssumption
      <3>4. replaced' = replaced \union {p \in {checked} \ {None} : Split(p) = split}
        BY <2>3 DEF Rewrite
      <3>5. \A s \in Splits : files'[s] = IF s = split THEN file ELSE files[s]
        BY <2>a, <3>2
      <3>6. DescribedData'
        BY <1>1, <2>1, <3>4 DEF DescribedData
      <3>7. checked # None => files'[Split(checked)] # None
        BY <2>a, <3>3, <3>5 DEF Inv, Traced
      <3>8. ASSUME checked # None, checked \notin replaced', Verified(checked)
            PROVE  files'[Split(checked)].version = 0
        <4>1. Split(checked) # split /\ checked \notin replaced
          BY <3>4, <3>8
        <4> QED
          BY <2>a, <3>5, <3>8, <4>1 DEF Inv, Traced
      <3> QED
        BY <1>1, <2>1, <3>6, <3>7, <3>8 DEF Traced
    <2> QED
      BY <2>2, <2>3
  <1> QED
    BY <1>2, <1>3, <1>4, <1>5, <1>6, <1>7, <1>8, <1>9 DEF Inv

-----------------------------------------------------------------------------
(* The matrices *)

\* What the stages before the matrices promise.
LEMMA ReadFrames ==
  ASSUME Inv, stage \notin {"begin", "refused"}
  PROVE  /\ generation \in {"v1", "v2", "v3"}
         /\ history = Reindexed(HistoryRows) /\ Frame(history)
         /\ IsFiniteSet(history) /\ history \subseteq Row
         /\ \A h \in history : h \in Row /\ HistoryStart <= h.date /\ h.date < November
         /\ Frame(november) /\ IsFiniteSet(november)
         /\ \A r \in november : r \in Row /\ November <= r.date /\ r.date < December
  <1>1. Typed /\ Frames
    BY DEF Inv
  <1>2. history = Reindexed(HistoryRows)
    BY <1>1 DEF Frames
  <1>3. Frame(history) /\ \A h \in history : HistoryStart <= h.date /\ h.date < November
    BY <1>1, <1>2, HistoryFrame
  <1> QED
    BY <1>1, <1>2, <1>3 DEF Typed, Frames, Frame

\* The rows of two frames of different months.
LEMMA ConcatIs ==
  ASSUME Typed, NEW a, NEW b, Frame(a), Frame(b),
         \A r \in a : r.date < November, \A r \in b : November <= r.date
  PROVE  Frame(Concat(a, b))
  <1> DEFINE rows == a \union b
  <1>1. IsFiniteSet(rows)
    BY FS_Union DEF Frame
  <1>2. rows \subseteq Row /\ Traceable(rows)
    BY DEF Frame, Traceable
  <1>3. UniqueIds(rows)
    <2>1. ASSUME NEW r \in a, NEW s \in b, r.id = s.id
          PROVE  FALSE
      <3>1. PICK f \in flights : f.id = r.id /\ f.date = r.date
        BY DEF Frame
      <3>2. PICK g \in flights : g.id = s.id /\ g.date = s.date
        BY DEF Frame
      <3>3. f = g
        BY <2>1, <3>1, <3>2, FlightsAre DEF UniqueIds
      <3>4. r.date \in Int /\ November \in Int
        BY DateIs, SMT DEF Frame, Row, November
      <3>5. r.date = s.date /\ r.date < November /\ November <= s.date
        BY <3>1, <3>2, <3>3
      <3> QED
        BY <3>4, <3>5
    <2>2. UniqueIds(a) /\ UniqueIds(b)
      BY DEF Frame, UniqueIds
    <2> QED
      BY <2>1, <2>2 DEF UniqueIds
  <1> HIDE DEF rows
  <1>4. Frame(Reindexed(rows))
    BY <1>1, <1>2, <1>3, FrameIs
  <1> QED
    BY <1>4 DEF Concat, rows

\* What the search draws from.
LEMMA SourceIs ==
  ASSUME Inv, stage = "prepare"
  PROVE  Frame(SearchSource) /\ Frame(ModelRows) /\ ModelRows \subseteq history
  <1>1. /\ Frame(history) /\ Frame(november) /\ Typed
        /\ \A h \in history : h.date < November
        /\ \A r \in november : November <= r.date
    BY ReadFrames DEF Inv
  <1>2. ModelRows \in SUBSET history
    BY DEF ModelRows, InPeriod
  <1>3. Frame(ModelRows)
    BY <1>1, <1>2, SubFrame
  <1>4. \A r \in ModelRows : r.date < November
    BY <1>1, <1>2
  <1>5. Frame(Concat(ModelRows, november))
    BY <1>1, <1>3, <1>4, ConcatIs
  <1> QED
    BY <1>2, <1>3, <1>5 DEF SearchSource

\* A sample has no rows of its own.
LEMMA SampleIs ==
  ASSUME NEW rows, NEW sample \in Samples(rows)
  PROVE  sample \in SUBSET rows
  BY DEF Samples

\* The halves of November are all of it.
LEMMA HalvesAre ==
  ASSUME NEW rows, Frame(rows), \A r \in rows : November <= r.date /\ r.date < December
  PROVE  LET early == Halves(rows)[1]
             late == Halves(rows)[2] IN
         /\ early \in SUBSET rows /\ late \in SUBSET rows
         /\ \A r \in early : November <= r.date /\ r.date < NovemberHalf
         /\ \A r \in late : NovemberHalf <= r.date /\ r.date < December
         /\ Cardinality(early) + Cardinality(late) = Cardinality(rows)
  <1> DEFINE early == InPeriod(rows, November, NovemberHalf)
             late == InPeriod(rows, NovemberHalf, December)
  <1>1. Halves(rows)[1] = early /\ Halves(rows)[2] = late
    BY DEF Halves
  <1>2. \A r \in rows : r.date \in Int
    BY DateIs DEF Frame, Row
  <1>3. November \in Int /\ NovemberHalf \in Int /\ December \in Int
    BY SMT DEF November, NovemberHalf, December
  <1>4. early \union late = rows /\ early \intersect late = {}
    BY <1>2, <1>3 DEF InPeriod
  <1>5. early \in SUBSET rows /\ late \in SUBSET rows
    BY DEF InPeriod
  <1>6. /\ \A r \in early : November <= r.date /\ r.date < NovemberHalf
        /\ \A r \in late : NovemberHalf <= r.date /\ r.date < December
    BY DEF InPeriod
  <1> HIDE DEF early, late
  <1>7. IsFiniteSet(early) /\ IsFiniteSet(late)
    BY <1>5, FS_Subset DEF Frame
  <1>8. Cardinality(early \union late) = Cardinality(early) + Cardinality(late) - Cardinality(early \intersect late)
    BY <1>7, FS_Union
  <1>9. Cardinality(early) \in Nat /\ Cardinality(late) \in Nat /\ Cardinality({}) = 0
    BY <1>7, FS_CardinalityType, FS_EmptySet
  <1>10. Cardinality(early) + Cardinality(late) = Cardinality(rows)
    <2>1. Cardinality(early \union late) = Cardinality(rows)
      BY <1>4, Zenon
    <2>2. Cardinality(early \intersect late) = 0
      BY <1>4, <1>9, Zenon
    <2> QED
      BY <1>8, <1>9, <2>1, <2>2
  <1> QED
    BY <1>1, <1>5, <1>6, <1>10

\* What is whole is so after a step that leaves the history alone.
LEMMA WholeAfter ==
  ASSUME UNCHANGED <<generation, history>>, NEW matrix, Whole(matrix)
  PROVE  /\ Labelled(matrix)
         /\ \A m \in matrix : Usable(m.flight)' /\ m.values = Given(m.flight)'
  <1>1. \A row : (Usable(row)' <=> Usable(row)) /\ Given(row)' = Given(row)
    BY GivenKept
  <1> QED
    BY <1>1 DEF Whole

LEMMA PrepareStep ==
  ASSUME Inv, PrepareDevelopmentData
  PROVE  Inv'
  <1>1. CASE Refuse /\ UNCHANGED <<generation, flights, files, manifest, replaced>>
    BY <1>1, RefuseStep
  <1>2. CASE ~(Refuse /\ UNCHANGED <<generation, flights, files, manifest, replaced>>)
    <2> DEFINE state == Build(history, Cutoff)
               first == Halves(november)[1]
               second == Halves(november)[2]
               early == Evaluated(first, state)
               late == Evaluated(second, state)
               refitted == TransformTrainingRows(history, ModelRows)
    <2>1. PICK sample \in IF generation = "v1" THEN {ModelRows} ELSE Samples(SearchSource) :
            LET searched == TransformTrainingRows(history, sample) IN
            /\ Refused \notin {state, searched, refitted, early, late}
            /\ stage = "prepare" /\ stage' = "folds"
            /\ search' = searched /\ refit' = refitted
            /\ calibration' = early /\ selection' = late
            /\ artifact' = Serialize(state)
            /\ UNCHANGED <<checked, history, november, folds, december, consumed>>
            /\ UNCHANGED <<generation, flights, files, manifest, replaced>>
      BY <1>2 DEF PrepareDevelopmentData
    <2> DEFINE searched == TransformTrainingRows(history, sample)
    <2>2. /\ Typed /\ Staged /\ Frames /\ Matrixes /\ LateRows /\ Traced
          /\ generation \in {"v1", "v2", "v3"}
      BY DEF Inv, Typed
    <2>3. /\ IsFiniteSet(history) /\ \A h \in history : h \in Row /\ h.date < November
          /\ Frame(november) /\ \A r \in november : November <= r.date /\ r.date < December
      BY <2>1, ReadFrames
    <2>4. december = {} /\ folds = <<>>
      BY <2>1, <2>2 DEF Staged
    <2>5. /\ Whole(searched)
          /\ \A m \in searched : m.flight.date < December
      <3>1. sample \in SUBSET SearchSource
        <4>1. CASE generation = "v1"
          BY <2>1, <4>1 DEF SearchSource
        <4>2. CASE generation # "v1"
          BY <2>1, <4>2, SampleIs
        <4> QED
          BY <4>1, <4>2
      <3>2. Frame(SearchSource)
        BY <2>1, SourceIs
      <3>3. IsFiniteSet(sample) /\ sample \subseteq Row /\ UniqueIds(sample) /\ UniqueIndexes(sample)
        BY <3>1, <3>2, SubFrame
      <3>4. searched # Refused
        BY <2>1
      <3> HIDE DEF searched
      <3>5. Proper(searched, sample) /\ \A r \in sample : r.date < TrainingEnd
        BY <2>2, <2>3, <3>3, <3>4, TrainingIs DEF searched
      <3>6. Whole(searched) /\ \A m \in searched : m.flight \in sample
        BY <3>3, <3>5, ProperIsWhole
      <3>7. ASSUME NEW r \in sample
            PROVE  r.date < December
        <4>1. r.date \in Int
          BY <3>3, DateIs DEF Row
        <4> QED
          BY <3>5, <4>1, SMT DEF TrainingEnd, November, December
      <3> QED
        BY <3>6, <3>7
    <2>6. /\ Whole(refitted)
          /\ \A m \in refitted : ModelStart <= m.flight.date /\ m.flight.date < November
      <3>1. Frame(ModelRows)
        BY <2>1, SourceIs
      <3>2. /\ IsFiniteSet(ModelRows) /\ ModelRows \subseteq Row
            /\ UniqueIds(ModelRows) /\ UniqueIndexes(ModelRows)
        BY <3>1, SubFrame
      <3>3. refitted # Refused
        BY <2>1
      <3> HIDE DEF refitted
      <3>4. Proper(refitted, ModelRows)
        BY <2>2, <2>3, <3>2, <3>3, TrainingIs DEF refitted
      <3>5. Whole(refitted) /\ \A m \in refitted : m.flight \in ModelRows
        BY <3>2, <3>4, ProperIsWhole
      <3> QED
        BY <3>5 DEF ModelRows, InPeriod
    <2>7. /\ first \in SUBSET november /\ second \in SUBSET november
          /\ \A r \in first : November <= r.date /\ r.date < NovemberHalf
          /\ \A r \in second : NovemberHalf <= r.date /\ r.date < December
          /\ Cardinality(first) + Cardinality(second) = Cardinality(november)
      BY <2>3, HalvesAre
    <2> HIDE DEF first, second
    <2>8. ASSUME NEW rows \in {first, second}, Evaluated(rows, state) # Refused
          PROVE  /\ Whole(Evaluated(rows, state))
                 /\ Cardinality(Evaluated(rows, state)) = Cardinality(rows)
                 /\ \A m \in Evaluated(rows, state) : m.flight \in rows
      <3>1. rows \in SUBSET november
        BY <2>7
      <3>2. IsFiniteSet(rows) /\ rows \subseteq Row /\ UniqueIds(rows) /\ UniqueIndexes(rows)
        BY <2>3, <3>1, SubFrame
      <3>3. \A r \in rows : November <= r.date
        BY <2>3, <3>1
      <3>4. state # Refused
        BY <2>1
      <3>5. Proper(Evaluated(rows, state), rows)
        BY <2>2, <2>3, <2>8, <3>2, <3>3, <3>4, EvaluationIs
      <3> QED
        BY <3>2, <3>5, ProperIsWhole
    <2>9. /\ Whole(early) /\ Cardinality(early) = Cardinality(first) /\ \A m \in early : m.flight \in first
          /\ Whole(late) /\ Cardinality(late) = Cardinality(second) /\ \A m \in late : m.flight \in second
      BY <2>1, <2>8
    <2>10. /\ stage = "prepare" /\ stage' = "folds"
           /\ search' = searched /\ refit' = refitted /\ calibration' = early /\ selection' = late
           /\ artifact' = Serialize(state) /\ state # Refused
           /\ UNCHANGED <<checked, history, november, folds, december, consumed, replaced>>
           /\ UNCHANGED <<generation, flights, files>>
      BY <2>1
    <2> HIDE DEF searched, refitted, early, late
    <2>11. Typed'
      BY <2>2, <2>10, TypedKept
    <2>12. Staged'
      BY <2>2, <2>10 DEF Staged, ReadAt
    <2>13. Frames'
      BY <2>2, <2>10, FramesKept
    <2>14. Matrixes'
      <3>1. \A matrix \in {search', refit', calibration', selection', december'} : Whole(matrix)
        BY <2>2, <2>5, <2>6, <2>9, <2>10 DEF Matrixes
      <3>2. \A matrix \in {search', refit', calibration', selection', december'} :
              /\ Labelled(matrix)
              /\ \A m \in matrix : Usable(m.flight)' /\ m.values = Given(m.flight)'
        BY <2>10, <3>1, WholeAfter
      <3> QED
        BY <3>2 DEF Matrixes, Whole, Labelled
    <2>15. Carried'
      <3>1. Build(history, Cutoff)' = state
        BY <2>10 DEF Build
      <3>2. Serialize(Build(history, Cutoff))' = Serialize(state)
        BY <2>10, <3>1 DEF Serialize
      <3> QED
        BY <2>10, <3>1, <3>2 DEF Carried
    <2>16. LateRows'
      <3>1. \A r \in november : November <= r.date
        BY <2>3
      <3> QED
        BY <2>4, <2>7, <2>9, <2>10, <3>1 DEF LateRows
    <2>17. NovemberNeverFitted'
      <3>1. ModelStart' = ModelStart
        BY <2>10 DEF ModelStart
      <3>2. /\ \A d \in Dates(refit') : ModelStart <= d /\ d < November
            /\ \A d \in Dates(search') : d < December
        BY <2>5, <2>6, <2>10 DEF Dates
      <3>3. \A d \in Dates(calibration'), e \in Dates(selection') : November <= d /\ d < e /\ e < December
        <4>1. SUFFICES ASSUME NEW m \in early, NEW n \in late
                       PROVE  /\ November <= m.flight.date /\ m.flight.date < n.flight.date
                              /\ n.flight.date < December
          BY <2>10 DEF Dates
        <4>2. m.flight \in first /\ n.flight \in second
          BY <2>9
        <4>3. m.flight \in Row /\ n.flight \in Row
          BY <2>3, <2>7, <4>2 DEF Frame
        <4>4. m.flight.date \in Int /\ n.flight.date \in Int
          BY <4>3, DateIs DEF Row
        <4>5. NovemberHalf \in Int
          BY SMT DEF NovemberHalf
        <4> QED
          BY <2>7, <4>2, <4>4, <4>5
      <3>4. Cardinality(calibration') + Cardinality(selection') = Cardinality(november')
        BY <2>7, <2>9, <2>10
      <3>5. folds' = <<>>
        BY <2>4, <2>10
      <3> QED
        BY <3>1, <3>2, <3>3, <3>4, <3>5 DEF NovemberNeverFitted, Dates
    <2>18. Traced'
      BY <2>2, <2>10 DEF Traced, DescribedData, Split, Verified
    <2> QED
      BY <2>11, <2>12, <2>13, <2>14, <2>15, <2>16, <2>17, <2>18 DEF Inv
  <1> QED
    BY <1>1, <1>2

\* The folds are told from what the search matrix has.
LEMMA FoldsStep ==
  ASSUME Inv, FoldFrames
  PROVE  Inv'
  <1>1. CASE Refuse /\ UNCHANGED <<generation, flights, files, manifest, replaced>>
    BY <1>1, RefuseStep
  <1>2. CASE ~(Refuse /\ UNCHANGED <<generation, flights, files, manifest, replaced>>)
    <2> DEFINE all == [i \in DOMAIN FoldMonths |-> FoldFrame(FoldMonths[i])]
    <2>1. /\ stage = "folds" /\ stage' = "handoff" /\ folds' = all
          /\ UNCHANGED <<checked, history, november, search, refit, calibration, selection,
                         artifact, december, consumed>>
          /\ UNCHANGED <<generation, flights, files, manifest, replaced>>
      BY <1>2 DEF FoldFrames
    <2>2. /\ Typed /\ Staged /\ Frames /\ Matrixes /\ Carried /\ LateRows /\ NovemberNeverFitted /\ Traced
      BY DEF Inv
    <2>3. Typed'
      BY <2>1, <2>2, TypedKept
    <2>4. Staged'
      BY <2>1, <2>2 DEF Staged, ReadAt
    <2>5. Frames'
      BY <2>1, <2>2, FramesKept
    <2>6. Matrixes'
      BY <2>1, <2>2, MatrixesKept
    <2>7. Carried'
      BY <2>1, <2>2, CarriedKept
    <2>8. LateRows'
      BY <2>1, <2>2 DEF LateRows
    <2>9. Traced'
      BY <2>1, <2>2 DEF Traced, DescribedData, Split, Verified
    <2>10. ASSUME NEW i \in DOMAIN all
           PROVE  /\ \A d \in Dates(all[i].fit) :
                       d < November /\ \A e \in Dates(all[i].evaluation) : Month(d) < Month(e)
      <3> DEFINE month == FoldMonths[i]
      <3>1. i \in 1..4 /\ month \in 202507..202511
        BY SMT DEF FoldMonths
      <3>2. /\ all[i].fit = {m \in search : ModelStart <= m.flight.date /\ m.flight.date < MonthStart(month)}
            /\ all[i].evaluation =
                 {m \in search : MonthStart(month) <= m.flight.date /\ m.flight.date < MonthEnd(month) + 1}
        BY DEF FoldFrame, Fold
      <3> HIDE DEF all, month
      <3>3. \A m \in search : m.flight \in Row
        BY <2>2 DEF Matrixes, Whole, Usable
      <3>4. ASSUME NEW m \in all[i].fit
            PROVE  Month(m.flight.date) < month /\ m.flight.date < November
        <4>1. m.flight.date \in Dates2Years /\ m.flight.date < MonthStart(month)
          BY <3>2, <3>3 DEF Row
        <4>2. Month(m.flight.date) < month
          BY <3>1, <4>1, DateIs
        <4>3. m.flight.date \in Int
          BY <4>1, DateIs
        <4> QED
          BY <3>1, <4>1, <4>2, <4>3, SMT DEF MonthStart, November
      <3>5. ASSUME NEW n \in all[i].evaluation
            PROVE  month <= Month(n.flight.date) /\ Month(n.flight.date) \in Int
        <4>1. n.flight.date \in Dates2Years /\ MonthStart(month) <= n.flight.date
          BY <3>2, <3>3 DEF Row
        <4>2. n.flight.date \in Int /\ MonthStart(month) \in Int /\ month \in Int
          BY <3>1, <4>1, DateIs, SMT DEF MonthStart
        <4>3. n.flight.date >= MonthStart(month)
          BY <4>1, <4>2
        <4>4. Month(n.flight.date) >= month /\ Month(n.flight.date) \in Int
          BY <4>1, <4>2, <4>3, DateIs
        <4> QED
          BY <4>2, <4>4
      <3>6. \A m \in all[i].fit : Month(m.flight.date) \in Int
        <4>1. \A m \in all[i].fit : m.flight.date \in Dates2Years
          BY <3>2, <3>3 DEF Row
        <4> QED
          BY <4>1, DateIs
      <3>7. \A m \in all[i].fit, n \in all[i].evaluation : Month(m.flight.date) < Month(n.flight.date)
        BY <3>1, <3>4, <3>5, <3>6, SMT
      <3> QED
        BY <3>4, <3>7 DEF Dates
    <2>11. NovemberNeverFitted'
      <3>1. ModelStart' = ModelStart
        BY <2>1 DEF ModelStart
      <3>2. \A i \in DOMAIN folds' :
              \A d \in Dates(folds'[i].fit) :
                d < November /\ \A e \in Dates(folds'[i].evaluation) : Month(d) < Month(e)
        BY <2>1, <2>10
      <3>3. stage \in {"folds", "handoff", "qualified"}
        BY <2>1
      <3> HIDE DEF all
      <3> QED
        BY <2>1, <2>2, <3>1, <3>2, <3>3 DEF NovemberNeverFitted, Dates
    <2> QED
      BY <2>3, <2>4, <2>5, <2>6, <2>7, <2>8, <2>9, <2>11 DEF Inv
  <1> QED
    BY <1>1, <1>2

\* The artifact is read back as the state of October 31.
LEMMA Restored ==
  ASSUME Inv, stage \in {"handoff", "qualified"}
  PROVE  /\ Deserialized = Build(history, Cutoff)
         /\ generation # "v1" => Build(history, Cutoff) # Refused
  <1> DEFINE state == Build(history, Cutoff)
  <1>1. /\ generation \in {"v1", "v2", "v3"}
        /\ generation # "v1" => state # Refused
        /\ artifact = Serialize(state)
    BY DEF Inv, Typed, Carried
  <1>2. IsFiniteSet(history)
    BY ReadFrames
  <1>3. CASE generation = "v1"
    BY <1>3 DEF Deserialized, Build
  <1>4. CASE generation = "v2"
    <2>1. state = BuildHistoricalState(history, Cutoff) /\ artifact = ToBytes(state)
          /\ Deserialized = FromBytes(artifact)
      BY <1>1, <1>4 DEF Build, Serialize, Deserialized
    <2>2. StateTyped(state)
      BY <1>1, <1>2, <1>4, <2>1, BuiltIs
    <2> HIDE DEF state
    <2>3. FromBytes(ToBytes(state)) = state
      BY <2>2, StateReadBack
    <2> QED
      BY <1>1, <2>1, <2>3 DEF state
  <1>5. CASE generation = "v3"
    <2>1. state = BuildV3HistoricalState(history, Cutoff) /\ artifact = ToBytesV3(state)
          /\ Deserialized = FromBytesV3(artifact)
      BY <1>1, <1>5 DEF Build, Serialize, Deserialized
    <2>2. V3StateTyped(state)
      BY <1>1, <1>2, <1>5, <2>1, V3BuiltIs
    <2> HIDE DEF state
    <2>3. FromBytesV3(ToBytesV3(state)) = state
      BY <2>2, V3StateReadBack
    <2> QED
      BY <1>1, <2>1, <2>3 DEF state
  <1> QED
    BY <1>1, <1>3, <1>4, <1>5

LEMMA DecemberStep ==
  ASSUME Inv, LoadDecemberFeatures
  PROVE  Inv'
  <1>1. CASE Refuse /\ UNCHANGED <<generation, flights, files, manifest, replaced>>
    BY <1>1, RefuseStep
  <1>2. CASE ~(Refuse /\ UNCHANGED <<generation, flights, files, manifest, replaced>>)
    <2> DEFINE state == Build(history, Cutoff)
               rows == ReadPeriod("december")
               evaluated == Evaluated(rows, state)
    <2>1. stage = "handoff" /\ checked = "december" /\ checked # None
      BY SplitsAre, PreparationAssumption DEF LoadDecemberFeatures, Inv, Staged, ReadAt
    <2>2. Deserialized = state
      BY <2>1, Restored
    <2>3. /\ stage' = "qualified" /\ checked' = None /\ december' = evaluated
          /\ state # Refused /\ rows # Refused /\ evaluated # Refused
          /\ consumed' = [consumed EXCEPT !["december"] = files[Split("december")].version]
          /\ UNCHANGED <<history, november, search, refit, folds, calibration, selection, artifact>>
          /\ UNCHANGED <<generation, flights, files, manifest, replaced>>
      BY <1>2, <2>2 DEF LoadDecemberFeatures, Consume
    <2>4. /\ Typed /\ Staged /\ Frames /\ Matrixes /\ Carried /\ LateRows /\ NovemberNeverFitted /\ Traced
          /\ generation \in {"v1", "v2", "v3"}
      BY DEF Inv, Typed
    <2>5. /\ files[Split("december")] \in FileVersions
          /\ Frame(rows)
          /\ \A r \in rows : Start["december"] <= r.date /\ r.date < End["december"]
      <3>1. files[Split("december")] # None
        BY <2>1, <2>4 DEF Traced
      <3> QED
        BY <2>3, <2>4, <3>1, SplitsAre, ReadIs
    <2>6. \A r \in rows : November <= r.date
      <3>1. SUFFICES ASSUME NEW r \in rows
                     PROVE  November <= r.date
        OBVIOUS
      <3>2. Start["december"] = December
        BY DEF Start
      <3>3. r \in Row /\ December <= r.date
        BY <2>5, <3>2 DEF Frame
      <3>4. r.date \in Int
        BY <3>3, DateIs DEF Row
      <3> QED
        BY <3>3, <3>4, SMT DEF November, December
    <2>7. Whole(evaluated) /\ \A m \in evaluated : m.flight \in rows
      <3>1. IsFiniteSet(history) /\ \A h \in history : h \in Row /\ h.date < November
        BY <2>1, ReadFrames
      <3>2. IsFiniteSet(rows) /\ rows \subseteq Row /\ UniqueIds(rows) /\ UniqueIndexes(rows)
        BY <2>5 DEF Frame, UniqueIds, UniqueIndexes
      <3> HIDE DEF rows
      <3>3. Proper(evaluated, rows)
        BY <2>3, <2>4, <2>6, <3>1, <3>2, EvaluationIs
      <3> QED
        BY <3>2, <3>3, ProperIsWhole
    <2>8. Typed'
      BY <2>3, <2>4, <2>5, SplitsAre, TypedRead
    <2>9. consumed'["history"] = consumed["history"] /\ consumed'["november"] = consumed["november"]
      BY <2>3, <2>4, <2>5, SplitsAre DEF Typed
    <2>10. Staged'
      BY <2>1, <2>3, <2>4, <2>9 DEF Staged
    <2>11. Frames'
      BY <2>1, <2>3, <2>4, <2>9, FramesKept
    <2> HIDE DEF evaluated, rows
    <2>12. Matrixes'
      <3>1. \A matrix \in {search', refit', calibration', selection', december'} : Whole(matrix)
        BY <2>3, <2>4, <2>7 DEF Matrixes
      <3>2. \A matrix \in {search', refit', calibration', selection', december'} :
              /\ Labelled(matrix)
              /\ \A m \in matrix : Usable(m.flight)' /\ m.values = Given(m.flight)'
        BY <2>3, <3>1, WholeAfter
      <3> QED
        BY <3>2 DEF Matrixes, Whole, Labelled
    <2>13. Carried'
      BY <2>1, <2>3, <2>4, CarriedKept
    <2>14. LateRows'
      BY <2>3, <2>4, <2>6, <2>7 DEF LateRows
    <2>15. NovemberNeverFitted'
      BY <2>1, <2>3, <2>4, NovemberKept
    <2>16. Traced'
      BY <2>1, <2>3, <2>4, SplitsAre, DescribedRead
    <2> QED
      BY <2>8, <2>10, <2>11, <2>12, <2>13, <2>14, <2>15, <2>16 DEF Inv
  <1> QED
    BY <1>1, <1>2

LEMMA InvNext == Inv /\ [Next]_vars => Inv'
  <1> SUFFICES ASSUME Inv, [Next]_vars PROVE Inv'
    OBVIOUS
  <1>1. CASE ReadHistory
    BY <1>1, HistoryStep
  <1>2. CASE ReadNovember
    BY <1>2, NovemberStep
  <1>3. CASE PrepareDevelopmentData
    BY <1>3, PrepareStep
  <1>4. CASE FoldFrames
    BY <1>4, FoldsStep
  <1>5. CASE LoadDecemberFeatures
    BY <1>5, DecemberStep
  <1>6. CASE Materialize \/ \E split \in Splits : Rewrite(split)
    BY <1>6, FilesStep
  <1>7. CASE UNCHANGED vars
    <2>1. /\ UNCHANGED <<generation, flights, files, manifest, stage, checked, consumed, replaced>>
          /\ UNCHANGED <<history, november, search, refit, folds, calibration, selection, artifact, december>>
      BY <1>7 DEF vars, frames
    <2>2. Typed' /\ Staged'
      BY <2>1, TypedKept DEF Inv, Staged
    <2>3. Frames' /\ Matrixes'
      BY <2>1, FramesKept, MatrixesKept DEF Inv
    <2>4. Carried' /\ NovemberNeverFitted'
      BY <2>1, CarriedKept, NovemberKept DEF Inv
    <2>5. LateRows' /\ Traced'
      BY <2>1 DEF Inv, LateRows, Traced, DescribedData, Split, Verified
    <2> QED
      BY <2>2, <2>3, <2>4, <2>5 DEF Inv
  <1>8. CASE CheckFile
    BY <1>8, CheckStep
  <1> QED
    BY <1>1, <1>2, <1>3, <1>4, <1>5, <1>6, <1>7, <1>8 DEF Next

\* What is read, built, joined and written is as the invariant has it.
THEOREM Invariance == Spec => []Inv
  BY InvInit, InvNext, PTL DEF Spec

-----------------------------------------------------------------------------
(* What was learnt from, whose label a row has, and who serves the same *)

\* However often the files are rewritten and restored between the reads: what is
\* learnt from, and what December is scored on, is what the manifest describes,
\* where a digest is compared and the file is not replaced between that and the read.
THEOREM LearntFromDescribed == Spec => []DescribedData
  <1>1. Inv => DescribedData
    BY DEF Inv, Traced
  <1> QED
    BY <1>1, Invariance, PTL

\* Every row of a matrix has the label of its own flight, and is there once.
THEOREM LabelsKept == Spec => []RowsKeepTheirLabels
  <1>1. Inv => RowsKeepTheirLabels
    BY DEF Inv, Matrixes, Whole, Labelled, RowsKeepTheirLabels
  <1> QED
    BY <1>1, Invariance, PTL

\* A state is given to a row in a batch as it is to a flight alone, though it
\* was written to an artifact and read again in between.
THEOREM ServingAgrees == Spec => []ServingParity
  <1>1. ASSUME Inv, stage = "qualified", generation # "v1",
               NEW m \in calibration \union selection \union december
        PROVE  /\ generation = "v2" => m.values = TransformOne(m.flight, Deserialized)
               /\ generation = "v3" => /\ m.values = TransformOneV3(m.flight, Deserialized)
                                       /\ ~OwnYear(m.flight, Deserialized)
    <2>1. Usable(m.flight) /\ m.values = Given(m.flight) /\ November <= m.flight.date
      BY <1>1 DEF Inv, Matrixes, Whole, LateRows
    <2>2. /\ Deserialized = Build(history, Cutoff)
          /\ \A h \in history : h \in Row /\ h.date < November
      BY <1>1, Restored, ReadFrames
    <2>3. m.flight \in Row
      BY <2>1 DEF Usable
    <2>4. StateFor(m.flight) = Build(history, Cutoff)
      BY <2>1, <2>2, <2>3, LateState
    <2> QED
      BY <1>1, <2>1, <2>2, <2>4 DEF Usable, Given
  <1>2. \A a : SameRate(a, a)
    BY DEF SameRate
  <1>3. Inv => ServingParity
    <2> SUFFICES ASSUME Inv, stage = "qualified", generation # "v1",
                        NEW m \in calibration \union selection \union december
                 PROVE  IF generation = "v2" THEN m.values = TransformOne(m.flight, Deserialized)
                        ELSE LET one == TransformOneV3(m.flight, Deserialized) IN
                             /\ ~OwnYear(m.flight, Deserialized)
                             /\ \A t \in FullTables : SameRate(one.base.full[t], m.values.base.full[t])
                             /\ \A t \in RecentTables : SameRate(one.base.recent[t], m.values.base.recent[t])
                             /\ \A t \in SeasonalTables : SameRate(one.seasonal[t], m.values.seasonal[t])
                             /\ one.base.support = m.values.base.support
      BY DEF ServingParity
    <2>1. generation \in {"v2", "v3"}
      BY DEF Inv, Typed
    <2> QED
      BY <1>1, <1>2, <2>1
  <1> QED
    BY <1>3, Invariance, PTL

-----------------------------------------------------------------------------
(* No look-ahead: what the features of a row know *)

\* Two rows of one flight have the same keys.
LEMMA KeyIs ==
  ASSUME NEW a, NEW b, Same(a, b), NEW t \in FullTables \union RecentTables \union SeasonalTables
  PROVE  Key(a, t) = Key(b, t) /\ CalendarMonth(a.date) = CalendarMonth(b.date)
  <1>1. t \in {<<>>, <<"carrier">>, <<"route">>, <<"carrier", "route">>}
    BY DEF FullTables, RecentTables, SeasonalTables
  <1>2. \A i \in DOMAIN t : t[i] \in {"carrier", "route"}
    BY <1>1
  <1>3. a["carrier"] = b["carrier"] /\ a["route"] = b["route"]
    BY DEF Same
  <1>4. \A i \in DOMAIN t : a[t[i]] = b[t[i]]
    BY <1>2, <1>3
  <1> QED
    BY <1>4 DEF Key, Same

LEMMA Appended ==
  ASSUME NEW x, NEW y
  PROVE  (<<x>> \o <<y>>)[1] = x /\ (<<x>> \o <<y>>)[2] = y
  <1>1. <<x>> \in Seq({x, y}) /\ <<y>> \in Seq({x, y})
    OBVIOUS
  <1> QED
    BY <1>1

\* The key of a season is its calendar month and the key of its columns.
LEMMA SeasonalKeyIs ==
  ASSUME NEW a, NEW b, NEW t \in SeasonalTables
  PROVE  SeasonalKey(a, t) = SeasonalKey(b, t)
           <=> CalendarMonth(a.date) = CalendarMonth(b.date) /\ Key(a, t) = Key(b, t)
  <1>1. t \in {<<>>, <<"carrier">>, <<"route">>}
    BY DEF SeasonalTables
  <1>2. CASE t = <<>>
    <2>1. Key(a, t) = <<>> /\ Key(b, t) = <<>>
      BY <1>2 DEF Key
    <2>2. SeasonalKey(a, t) = <<CalendarMonth(a.date)>> /\ SeasonalKey(b, t) = <<CalendarMonth(b.date)>>
      BY <2>1 DEF SeasonalKey
    <2> QED
      BY <2>1, <2>2
  <1>3. CASE t # <<>>
    <2>1. PICK c \in {"carrier", "route"} : t = <<c>>
      BY <1>1, <1>3
    <2>2. Key(a, t) = <<a[c]>> /\ Key(b, t) = <<b[c]>>
      BY <2>1 DEF Key
    <2>3. /\ SeasonalKey(a, t) = <<CalendarMonth(a.date)>> \o <<a[c]>>
          /\ SeasonalKey(b, t) = <<CalendarMonth(b.date)>> \o <<b[c]>>
      BY <2>2 DEF SeasonalKey
    <2>4. /\ SeasonalKey(a, t)[1] = CalendarMonth(a.date) /\ SeasonalKey(a, t)[2] = a[c]
          /\ SeasonalKey(b, t)[1] = CalendarMonth(b.date) /\ SeasonalKey(b, t)[2] = b[c]
      BY <2>3, Appended
    <2>5. SeasonalKey(a, t) = SeasonalKey(b, t) => CalendarMonth(a.date) = CalendarMonth(b.date) /\ a[c] = b[c]
      BY <2>4
    <2>6. Key(a, t) = Key(b, t) => a[c] = b[c]
      BY <2>2
    <2> QED
      BY <2>2, <2>3, <2>5, <2>6
  <1> QED
    BY <1>2, <1>3

\* A smoothed rate is the rate of a set of rows, be it empty.
LEMMA SmoothedIs ==
  ASSUME NEW known, IsFiniteSet(known), NEW base, base.global = Counts(known),
         NEW some, IsFiniteSet(some),
         NEW counts, counts = IF some = {} THEN None ELSE Counts(some)
  PROVE  /\ SameRate(Smoothed(base, counts), Rate(some, known))
         /\ SameRate(GlobalRate(base), Rate(known, known))
         /\ Support(counts) = Cardinality(some)
  <1> DEFINE N == Cardinality(known)
             P == Cardinality({r \in known : r.target = 1})
             n == Cardinality(some)
             p == Cardinality({r \in some : r.target = 1})
             S == Strength
  <1>1. /\ base.global.count = N /\ base.global.positive = P
        /\ N \in Nat /\ P \in Nat /\ n \in Nat /\ p \in Nat /\ S \in Nat
        /\ Counts(some).count = n /\ Counts(some).positive = p
        /\ some # {} => Counts(some) \in Tallies
    BY CountsAre, FS_CardinalityType, StateAssumption
  <1>2. some = {} => n = 0 /\ p = 0
    <2>1. some = {} => {r \in some : r.target = 1} = {}
      OBVIOUS
    <2>2. Cardinality({}) = 0
      BY FS_EmptySet
    <2> QED
      BY <2>1, <2>2, Zenon
  <1>3. /\ Rate(some, known) = <<p * N + S * P, (n + S) * N>>
        /\ Rate(known, known) = <<P * N + S * P, (N + S) * N>>
    BY DEF Rate
  <1> HIDE DEF N, P, n, p, S
  <1>4. GlobalRate(base) = <<P, N>>
    BY <1>1 DEF GlobalRate
  <1>5. SameRate(GlobalRate(base), Rate(known, known))
    <2>1. P * ((N + S) * N) = (P * N + S * P) * N
      BY <1>1
    <2> QED
      BY <1>3, <1>4, <2>1 DEF SameRate
  <1>6. CASE some = {}
    <2>1. Smoothed(base, counts) = <<P, N>> /\ Support(counts) = 0
      BY <1>4, <1>6 DEF Smoothed, Support
    <2>2. P * ((0 + S) * N) = (0 * N + S * P) * N
      BY <1>1
    <2> QED
      BY <1>2, <1>3, <1>5, <1>6, <2>1, <2>2 DEF SameRate, n
  <1>7. CASE some # {}
    <2>1. counts = Counts(some) /\ counts # None
      BY <1>1, <1>7, TalliesAre
    <2>2. Smoothed(base, counts) = <<p * N + S * P, (n + S) * N>> /\ Support(counts) = n
      BY <1>1, <2>1 DEF Smoothed, Support, S
    <2> QED
      BY <1>3, <1>5, <2>2 DEF SameRate, n
  <1> QED
    BY <1>6, <1>7

\* The flights of the file behind some rows of the history.
Origin(some) == {f \in HistoryRows : Moved(f, HistoryRows) \in some}

\* The rate of rows of the history is that of the flights behind them.
LEMMA OriginIs ==
  ASSUME Typed, NEW some \in SUBSET Reindexed(HistoryRows), NEW known \in SUBSET Reindexed(HistoryRows)
  PROVE  /\ Cardinality(some) = Cardinality(Origin(some))
         /\ Rate(some, known) = Rate(Origin(some), Origin(known))
  <1> DEFINE X == HistoryRows
             T == Reindexed(HistoryRows)
             g == [f \in X |-> Moved(f, X)]
             late(s) == {r \in s : r.target = 1}
  <1>1. /\ IsFiniteSet(X) /\ g \in Bijection(X, T)
        /\ \A f \in X : Same(f, Moved(f, X))
    BY HistoryFrame, ReindexedIs
  <1>2. ASSUME NEW A \in SUBSET T
        PROVE  Cardinality(A) = Cardinality(Origin(A))
    <2>1. Origin(A) = {f \in X : g[f] \in A}
      BY DEF Origin
    <2>2. A \subseteq T
      OBVIOUS
    <2> HIDE DEF g, X, T
    <2>3. Cardinality(A) = Cardinality({f \in X : g[f] \in A})
      BY <1>1, <2>2, Counted
    <2> QED
      BY <2>1, <2>3
  <1>3. ASSUME NEW A \in SUBSET T
        PROVE  Cardinality(late(A)) = Cardinality(late(Origin(A)))
    <2>1. late(A) \in SUBSET T
      OBVIOUS
    <2>2. Origin(late(A)) = late(Origin(A))
      BY <1>1 DEF Origin, Same
    <2> HIDE DEF late, T
    <2>3. Cardinality(late(A)) = Cardinality(Origin(late(A)))
      BY <1>2, <2>1
    <2> QED
      BY <2>2, <2>3
  <1>4. /\ Cardinality(some) = Cardinality(Origin(some)) /\ Cardinality(known) = Cardinality(Origin(known))
        /\ Cardinality(late(some)) = Cardinality(late(Origin(some)))
        /\ Cardinality(late(known)) = Cardinality(late(Origin(known)))
    BY <1>2, <1>3
  <1> QED
    BY <1>4 DEF Rate

\* The labels that the state of a row is built from, and the last of them.
Labels(row) == Prior(Reindexed(HistoryRows), Month(row.date))

Last(row) == IF row.date < November THEN MonthsBefore(Month(row.date), 1) ELSE 202510

LateLabels(row) == Recent(Labels(row), MonthEnd(Last(row)))

\* They are of the flights that may be known, all of them.
LEMMA LabelsAre ==
  ASSUME Typed, NEW row \in Row
  PROVE  /\ Labels(row) \in SUBSET Reindexed(HistoryRows)
         /\ LateLabels(row) \in SUBSET Reindexed(HistoryRows)
         /\ Origin(Labels(row)) = Known(row)
         /\ Origin(LateLabels(row)) = Lately(row)
         /\ \A t \in FullTables \union RecentTables :
              /\ Origin(Alike(Labels(row), row, t)) = Alike(Known(row), row, t)
              /\ Origin(Alike(LateLabels(row), row, t)) = Alike(Lately(row), row, t)
  <1> DEFINE X == HistoryRows
             T == Reindexed(HistoryRows)
             M == Month(row.date)
             first == MonthsBefore(Last(row), Trailing - 1)
  <1>1. /\ T = {Moved(f, X) : f \in X} /\ X \subseteq Row
        /\ \A f \in X : Same(f, Moved(f, X)) /\ Moved(f, X) \in T
    BY HistoryFrame, ReindexedIs
  <1>2. /\ row.date \in Dates2Years /\ M \in Int
        /\ \A f \in X : f.date \in Dates2Years /\ Month(f.date) \in Int
    BY <1>1, DateIs DEF Row
  <1>3. Last(row) \in Int /\ first \in Int
    <2>1. Last(row) \in Int
      BY <1>2, SMT DEF Last, MonthsBefore
    <2> QED
      BY <2>1, StateAssumption, SMT DEF MonthsBefore
  <1>4. Month(MonthEnd(Last(row))) = Last(row)
    BY <1>3, SMT DEF Month, MonthEnd
  <1>5. Labels(row) = {r \in T : r.date < MonthStart(M)}
    BY DEF Labels, Prior
  <1>6. LateLabels(row) = {r \in Labels(row) : r.date >= MonthStart(first)}
    BY <1>4 DEF LateLabels, Recent
  <1>7. X = {h \in Held(consumed["history"]) : HistoryStart <= h.date /\ h.date < November}
    BY DEF HistoryRows, InPeriod
  <1>8. Known(row) = {f \in X : Month(f.date) < M}
    BY <1>7 DEF Known
  <1>9. Lately(row) = {f \in Known(row) : Month(f.date) >= first}
    BY DEF Lately, Last
  <1> HIDE DEF X, T, M, first
  <1>10. ASSUME NEW f \in X
         PROVE  /\ Moved(f, X).date < MonthStart(M) <=> Month(f.date) < M
                /\ Moved(f, X).date >= MonthStart(first) <=> Month(f.date) >= first
    <2>1. Moved(f, X).date = f.date
      BY <1>1 DEF Same
    <2> QED
      BY <1>2, <1>3, <2>1, DateIs
  <1>11. \A A : Origin(A) = {f \in X : Moved(f, X) \in A}
    BY DEF Origin, X
  <1>12. Origin(Labels(row)) = Known(row)
    BY <1>1, <1>5, <1>8, <1>10, <1>11
  <1>13. Origin(LateLabels(row)) = Lately(row)
    <2>1. \A f \in X : Moved(f, X) \in LateLabels(row) <=> f \in Known(row) /\ Month(f.date) >= first
      BY <1>6, <1>10, <1>11, <1>12
    <2>2. Lately(row) \subseteq X
      BY <1>8, <1>9
    <2> QED
      BY <1>9, <1>11, <2>1, <2>2
  <1>14. ASSUME NEW A, NEW t \in FullTables \union RecentTables
         PROVE  Origin(Alike(A, row, t)) = Alike(Origin(A), row, t)
    <2>1. \A f \in X : Key(Moved(f, X), t) = Key(f, t)
      BY <1>1, KeyIs
    <2> QED
      BY <1>11, <2>1 DEF Alike
  <1> QED
    BY <1>5, <1>6, <1>12, <1>13, <1>14 DEF T

LEMMA YearIs ==
  ASSUME NEW d \in Nat
  PROVE  Year(d) \in Int /\ 10000 * Year(d) <= d /\ d <= 10000 * Year(d) + 9999
  BY SMT DEF Year

\* Of two dates of one calendar month, the one of the earlier month is that of the
\* earlier year; then it is of 2024, before November 2025.
LEMMA EarlierYear ==
  ASSUME NEW d \in Dates2Years, NEW e \in Dates2Years, CalendarMonth(d) = CalendarMonth(e)
  PROVE  /\ 20240101 <= d
         /\ Month(d) < Month(e) <=> Year(d) < Year(e)
         /\ Year(d) < Year(e) => d < November
  <1> DEFINE y == Year(d)
             z == Year(e)
             c == CalendarMonth(d)
             m == Month(d)
             n == Month(e)
  <1>1. /\ d \in Nat /\ 20240101 <= d /\ d <= 20251231
        /\ e \in Nat /\ 20240101 <= e /\ e <= 20251231
    <2> DEFINE span == 20240101..20251231
               dated(x) == CalendarMonth(x) \in 1..12 /\ x % 100 \in 1..31
    <2>1. Dates2Years = {x \in span : dated(x)}
      BY SMTT(30) DEF Dates2Years
    <2> HIDE DEF span, dated
    <2>2. d \in span /\ e \in span
      BY <2>1, SMT
    <2> QED
      BY <2>2, SMTT(30) DEF span
  <1>2. y \in Int /\ z \in Int /\ c \in Int /\ m = y * 100 + c /\ n = z * 100 + c
    BY SMT, DateIs
  <1>3. 10000 * z <= e /\ d <= 10000 * y + 9999
    BY <1>1, YearIs, SMT
  <1> HIDE DEF y, z, c, m, n
  <1>4. m < n <=> y < z
    BY <1>2, SMT
  <1>5. y < z => d < 20251101
    <2>1. z < 2026
      BY <1>1, <1>2, <1>3, SMT
    <2>2. y < z => 10000 * y <= 20240000
      BY <1>2, <2>1, SMT
    <2> QED
      BY <1>1, <1>2, <1>3, <2>2, SMT
  <1> QED
    BY <1>1, <1>4, <1>5, SMT DEF y, z, m, n, November

\* The labels of earlier years are those of the same calendar month that are known.
LEMMA SeasonIs ==
  ASSUME Typed, generation = "v3", NEW row \in Row, NEW t \in SeasonalTables
  PROVE  LET group == {h \in Labels(row) : SeasonalKey(h, t) = SeasonalKey(row, t)}
             season == {h \in Held(consumed["history"]) :
                            /\ CalendarMonth(h.date) = CalendarMonth(row.date)
                            /\ Year(h.date) < Year(row.date)} IN
         group \in SUBSET Reindexed(HistoryRows) /\ Origin(group) = Alike(season, row, t)
  <1> DEFINE X == HistoryRows
             group == {h \in Labels(row) : SeasonalKey(h, t) = SeasonalKey(row, t)}
             season == {h \in Held(consumed["history"]) :
                            /\ CalendarMonth(h.date) = CalendarMonth(row.date)
                            /\ Year(h.date) < Year(row.date)}
             alike(f) == CalendarMonth(f.date) = CalendarMonth(row.date) /\ Key(f, t) = Key(row, t)
  <1>1. Labels(row) \in SUBSET Reindexed(HistoryRows) /\ Origin(Labels(row)) = Known(row)
    BY LabelsAre
  <1>2. \A f \in X : Same(f, Moved(f, X))
    BY HistoryFrame, ReindexedIs
  <1>3. \A f \in X : SeasonalKey(Moved(f, X), t) = SeasonalKey(row, t) <=> alike(f)
    <2>1. ASSUME NEW f \in X
          PROVE  SeasonalKey(Moved(f, X), t) = SeasonalKey(row, t) <=> alike(f)
      <3>1. Key(f, t) = Key(Moved(f, X), t) /\ CalendarMonth(f.date) = CalendarMonth(Moved(f, X).date)
        BY <1>2, KeyIs
      <3> QED
        BY <3>1, SeasonalKeyIs
    <2> QED
      BY <2>1
  <1>4. Origin(group) = {f \in Known(row) : alike(f)}
    <2>1. \A A : Origin(A) = {f \in X : Moved(f, X) \in A}
      BY DEF Origin
    <2>2. \A f \in X : Moved(f, X) \in group <=> Moved(f, X) \in Labels(row) /\ alike(f)
      BY <1>3
    <2> HIDE DEF X, group, alike
    <2> QED
      BY <1>1, <2>1, <2>2
  <1>5. row.date \in Dates2Years /\ \A f \in Held(consumed["history"]) : f.date \in Dates2Years
    BY HeldIs DEF Row
  <1>7. ASSUME NEW f \in Held(consumed["history"]), CalendarMonth(f.date) = CalendarMonth(row.date)
        PROVE  f \in Known(row) <=> Year(f.date) < Year(row.date)
    <2>1. f \in Known(row) <=> 20240101 <= f.date /\ f.date < November /\ Month(f.date) < Month(row.date)
      BY SMT DEF Known, HistoryStart
    <2>2. /\ 20240101 <= f.date
          /\ Month(f.date) < Month(row.date) <=> Year(f.date) < Year(row.date)
          /\ Year(f.date) < Year(row.date) => f.date < November
      BY <1>5, <1>7, EarlierYear, SMT
    <2> QED
      BY <2>1, <2>2, SMT
  <1>8. Known(row) \subseteq Held(consumed["history"])
    BY DEF Known
  <1>9. {f \in Known(row) : alike(f)} = Alike(season, row, t)
    BY <1>7, <1>8 DEF Alike
  <1>10. group \in SUBSET Reindexed(HistoryRows)
    BY <1>1
  <1> QED
    BY <1>4, <1>9, <1>10

LEMMA LabelsFinite ==
  ASSUME Typed, NEW row \in Row
  PROVE  IsFiniteSet(Labels(row)) /\ IsFiniteSet(LateLabels(row))
  BY LabelsAre, HistoryFrame, FS_Subset DEF Frame

\* What a row is given from the state of its month, table by table.
LEMMA FeaturesAre ==
  ASSUME Typed, NEW row \in Row, NEW base,
         base = BuildHistoricalState(Labels(row), MonthEnd(Last(row))), base # Refused
  PROVE  LET given == TransformOne(row, base) IN
         /\ SameRate(given.global, Rate(Known(row), Known(row)))
         /\ SameRate(given.recentGlobal, Rate(Lately(row), Known(row)))
         /\ \A t \in FullTables :
              SameRate(given.full[t], Rate(Alike(Known(row), row, t), Known(row)))
         /\ \A t \in RecentTables :
              SameRate(given.recent[t], Rate(Alike(Lately(row), row, t), Known(row)))
         /\ \A t \in DOMAIN given.support :
              given.support[t] = Cardinality(Alike(Known(row), row, t))
  <1> DEFINE K == Labels(row)
             R == LateLabels(row)
             given == TransformOne(row, base)
  <1>1. /\ K \in SUBSET Reindexed(HistoryRows) /\ R \in SUBSET Reindexed(HistoryRows)
        /\ Origin(K) = Known(row) /\ Origin(R) = Lately(row)
        /\ \A t \in FullTables \union RecentTables :
             /\ Origin(Alike(K, row, t)) = Alike(Known(row), row, t)
             /\ Origin(Alike(R, row, t)) = Alike(Lately(row), row, t)
    BY LabelsAre
  <1>2. IsFiniteSet(K) /\ IsFiniteSet(R)
    BY <1>1, HistoryFrame, FS_Subset DEF Frame
  <1>3. /\ base.global = Counts(K) /\ base.recentGlobal = Counts(R) /\ R # {}
        /\ \A t \in FullTables : base.full[t] = Aggregate(Keys(K, t))
        /\ \A t \in RecentTables : base.recent[t] = Aggregate(Keys(R, t))
    BY <1>2, BuiltIs DEF LateLabels
  <1> HIDE DEF K, R
  <1>4. ASSUME NEW S \in {K, R}, NEW t \in FullTables \union RecentTables
        PROVE  LET counts == Lookup(Aggregate(Keys(S, t)), Key(row, t)) IN
               /\ SameRate(Smoothed(base, counts), Rate(Origin(Alike(S, row, t)), Known(row)))
               /\ Support(counts) = Cardinality(Origin(Alike(S, row, t)))
    <2> DEFINE keys == Keys(S, t)
               group == Alike(S, row, t)
               counts == Lookup(Aggregate(keys), Key(row, t))
    <2>1. DOMAIN keys = S /\ IsFiniteSet(S) /\ \A r \in S : keys[r] = Key(r, t)
      BY <1>2 DEF Keys
    <2>2. {r \in DOMAIN keys : keys[r] = Key(row, t)} = group
      BY <2>1 DEF Alike
    <2>3. group \in SUBSET S
      BY DEF Alike
    <2>4. group \in SUBSET Reindexed(HistoryRows)
      BY <1>1, <2>3
    <2> HIDE DEF keys, group
    <2>5. IsFiniteSet(group)
      BY <2>1, <2>3, FS_Subset
    <2>6. counts = IF group = {} THEN None ELSE Counts(group)
      BY <2>1, <2>2, AggregateIs
    <2> HIDE DEF counts
    <2>7. SameRate(Smoothed(base, counts), Rate(group, K)) /\ Support(counts) = Cardinality(group)
      BY <1>2, <1>3, <2>5, <2>6, SmoothedIs
    <2>8. Rate(group, K) = Rate(Origin(group), Known(row)) /\ Cardinality(group) = Cardinality(Origin(group))
      BY <1>1, <2>4, OriginIs
    <2>9. SameRate(Smoothed(base, counts), Rate(Origin(group), Known(row))) /\ Support(counts) = Cardinality(Origin(group))
      BY <2>7, <2>8
    <2> QED
      BY <2>9 DEF keys, group, counts
  <1>5. SameRate(given.global, Rate(Known(row), Known(row)))
    <2>1. SameRate(GlobalRate(base), Rate(K, K))
      BY <1>2, <1>3, SmoothedIs
    <2>2. Rate(K, K) = Rate(Known(row), Known(row))
      BY <1>1, OriginIs
    <2> QED
      BY <2>1, <2>2 DEF TransformOne
  <1>6. SameRate(given.recentGlobal, Rate(Lately(row), Known(row)))
    <2>1. base.recentGlobal = IF R = {} THEN None ELSE Counts(R)
      BY <1>3
    <2>2. SameRate(Smoothed(base, base.recentGlobal), Rate(R, K))
      BY <1>2, <1>3, <2>1, SmoothedIs
    <2>3. Rate(R, K) = Rate(Lately(row), Known(row))
      BY <1>1, OriginIs
    <2> QED
      BY <2>2, <2>3 DEF TransformOne
  <1>7. \A t \in FullTables : SameRate(given.full[t], Rate(Alike(Known(row), row, t), Known(row)))
    <2> SUFFICES ASSUME NEW t \in FullTables
                 PROVE  SameRate(given.full[t], Rate(Alike(Known(row), row, t), Known(row)))
      OBVIOUS
    <2>1. given.full[t] = Smoothed(base, Lookup(Aggregate(Keys(K, t)), Key(row, t)))
      BY <1>3 DEF TransformOne
    <2>2. SameRate(Smoothed(base, Lookup(Aggregate(Keys(K, t)), Key(row, t))),
                   Rate(Origin(Alike(K, row, t)), Known(row)))
      BY <1>4
    <2> QED
      BY <1>1, <2>1, <2>2
  <1>8. \A t \in RecentTables : SameRate(given.recent[t], Rate(Alike(Lately(row), row, t), Known(row)))
    <2> SUFFICES ASSUME NEW t \in RecentTables
                 PROVE  SameRate(given.recent[t], Rate(Alike(Lately(row), row, t), Known(row)))
      OBVIOUS
    <2>1. given.recent[t] = Smoothed(base, Lookup(Aggregate(Keys(R, t)), Key(row, t)))
      BY <1>3 DEF TransformOne
    <2>2. SameRate(Smoothed(base, Lookup(Aggregate(Keys(R, t)), Key(row, t))),
                   Rate(Origin(Alike(R, row, t)), Known(row)))
      BY <1>4
    <2> QED
      BY <1>1, <2>1, <2>2
  <1>9. \A t \in DOMAIN given.support : given.support[t] = Cardinality(Alike(Known(row), row, t))
    <2>1. given.support = [t \in {<<"route">>, <<"carrier", "route">>} |->
                             Support(Lookup(base.full[t], Key(row, t)))]
      BY DEF TransformOne
    <2>2. ASSUME NEW t \in {<<"route">>, <<"carrier", "route">>}
          PROVE  Support(Lookup(base.full[t], Key(row, t))) = Cardinality(Alike(Known(row), row, t))
      <3>1. t \in FullTables
        BY DEF FullTables
      <3>2. Support(Lookup(Aggregate(Keys(K, t)), Key(row, t))) = Cardinality(Origin(Alike(K, row, t)))
        BY <1>4, <3>1
      <3> QED
        BY <1>1, <1>3, <3>1, <3>2
    <2> HIDE DEF given
    <2> QED
      BY <2>1, <2>2
  <1> QED
    BY <1>5, <1>6, <1>7, <1>8, <1>9

\* The seasonal features, too.
LEMMA SeasonalFeaturesAre ==
  ASSUME Typed, generation = "v3", NEW row \in Row, NEW state,
         state = BuildV3HistoricalState(Labels(row), MonthEnd(Last(row))), state # Refused,
         NEW t \in SeasonalTables
  PROVE  LET season == {h \in Held(consumed["history"]) :
                            /\ CalendarMonth(h.date) = CalendarMonth(row.date)
                            /\ Year(h.date) < Year(row.date)} IN
         SameRate(SeasonalHistoricalFeatures(row, state)[t], Rate(Alike(season, row, t), Known(row)))
  <1> DEFINE K == Labels(row)
             group == {h \in K : SeasonalKey(h, t) = SeasonalKey(row, t)}
             season == {h \in Held(consumed["history"]) :
                            /\ CalendarMonth(h.date) = CalendarMonth(row.date)
                            /\ Year(h.date) < Year(row.date)}
             keys == SeasonalKeys(K, t)
             counts == Lookup(Aggregate(keys), SeasonalKey(row, t))
  <1>1. K \in SUBSET Reindexed(HistoryRows) /\ Origin(K) = Known(row)
    BY LabelsAre
  <1>2. group \in SUBSET Reindexed(HistoryRows) /\ Origin(group) = Alike(season, row, t)
    BY SeasonIs
  <1>3. group \in SUBSET K
    OBVIOUS
  <1>4. {r \in DOMAIN keys : keys[r] = SeasonalKey(row, t)} = group /\ DOMAIN keys = K
    BY DEF SeasonalKeys
  <1> HIDE DEF K, group, keys, season
  <1>5. IsFiniteSet(K) /\ IsFiniteSet(group)
    BY <1>1, <1>3, HistoryFrame, FS_Subset DEF Frame
  <1>6. state.base.global = Counts(K) /\ state.seasonal[t] = Aggregate(keys)
    <2>1. /\ state.base = BuildHistoricalState(K, MonthEnd(Last(row))) /\ state.base # Refused
          /\ state.seasonal[t] = Aggregate(SeasonalKeys(K, t))
      BY <1>5, V3BuiltIs DEF K
    <2>2. state.base.global = Counts(K)
      BY <1>5, <2>1, BuiltIs
    <2> QED
      BY <2>1, <2>2 DEF keys
  <1>7. counts = IF group = {} THEN None ELSE Counts(group)
    BY <1>4, <1>5, AggregateIs
  <1>8. SeasonalHistoricalFeatures(row, state)[t] = Smoothed(state.base, counts)
    BY <1>6 DEF SeasonalHistoricalFeatures
  <1> HIDE DEF counts
  <1> DEFINE base == state.base
  <1>9. SameRate(Smoothed(base, counts), Rate(group, K))
    <2>1. base.global = Counts(K)
      BY <1>6
    <2> HIDE DEF base
    <2> QED
      BY <1>5, <1>7, <2>1, SmoothedIs
  <1>10. Rate(group, K) = Rate(Origin(group), Origin(K))
    BY <1>1, <1>2, OriginIs
  <1> QED
    BY <1>1, <1>2, <1>8, <1>9, <1>10 DEF season

\* No label of a row's own month or of a later one, nor one after October 31, is
\* in any feature it is given; all the earlier ones are; a seasonal feature
\* counts earlier years only; and November is fitted on by nothing but the
\* calibration.
THEOREM NoFutureSeen == Spec => []NoLookAhead
  <1>1. ASSUME Inv, stage = "qualified", generation # "v1", NEW m \in Matrices
        PROVE  /\ m.flight \in Row /\ Typed
               /\ generation = "v2" \/ generation = "v3"
               /\ StateFor(m.flight) = Build(Labels(m.flight), MonthEnd(Last(m.flight)))
               /\ StateFor(m.flight) # Refused
               /\ m.values = Given(m.flight)
               /\ generation = "v3" => ~OwnYear(m.flight, StateFor(m.flight))
    <2>1. history = Reindexed(HistoryRows)
      BY <1>1, ReadFrames
    <2>2. Usable(m.flight) /\ m.values = Given(m.flight)
      BY <1>1 DEF Inv, Matrixes, Whole, Matrices
    <2>3. StateFor(m.flight) = Build(Labels(m.flight), MonthEnd(Last(m.flight)))
      BY <2>1 DEF StateFor, Labels, Last
    <2> QED
      BY <1>1, <2>2, <2>3 DEF Usable, Inv, Typed
  <1>2. ASSUME Inv, stage = "qualified", generation # "v1", NEW m \in Matrices
        PROVE  \E base : /\ base = BuildHistoricalState(Labels(m.flight), MonthEnd(Last(m.flight)))
                         /\ base # Refused /\ Base(m) = TransformOne(m.flight, base)
    <2> DEFINE row == m.flight
    <2>1. CASE generation = "v2"
      <3>1. StateFor(row) = BuildHistoricalState(Labels(row), MonthEnd(Last(row))) /\ StateFor(row) # Refused
        BY <1>1, <1>2, <2>1 DEF Build
      <3>2. Base(m) = TransformOne(row, StateFor(row))
        BY <1>1, <1>2, <2>1 DEF Base, Given
      <3> QED
        BY <3>1, <3>2
    <2>2. CASE generation = "v3"
      <3>1. StateFor(row) = BuildV3HistoricalState(Labels(row), MonthEnd(Last(row))) /\ StateFor(row) # Refused
        BY <1>1, <1>2, <2>2 DEF Build
      <3>2. IsFiniteSet(Labels(row))
        BY <1>1, <1>2, LabelsFinite
      <3>3. /\ StateFor(row).base = BuildHistoricalState(Labels(row), MonthEnd(Last(row)))
            /\ StateFor(row).base # Refused
        BY <3>1, <3>2, V3BuiltIs
      <3>4. Base(m) = TransformOne(row, StateFor(row).base)
        <4>1. Base(m) = m.values.base /\ m.values = TransformOneV3(row, StateFor(row))
          BY <1>1, <1>2, <2>2 DEF Base, Given
        <4>2. ~OwnYear(row, StateFor(row))
          BY <1>1, <1>2, <2>2
        <4> QED
          BY <4>1, <4>2 DEF TransformOneV3
      <3> QED
        BY <3>3, <3>4
    <2> QED
      BY <1>1, <1>2, <2>1, <2>2
  <1>3. ASSUME Inv, stage = "qualified" PROVE PriorMonthsOnly
    <2> SUFFICES ASSUME generation # "v1", NEW m \in Matrices
                 PROVE  LET row == m.flight IN
                        /\ SameRate(Base(m).global, Rate(Known(row), Known(row)))
                        /\ SameRate(Base(m).recentGlobal, Rate(Lately(row), Known(row)))
                        /\ \A t \in FullTables :
                             SameRate(Base(m).full[t], Rate(Alike(Known(row), row, t), Known(row)))
                        /\ \A t \in RecentTables :
                             SameRate(Base(m).recent[t], Rate(Alike(Lately(row), row, t), Known(row)))
                        /\ \A t \in DOMAIN Base(m).support :
                             Base(m).support[t] = Cardinality(Alike(Known(row), row, t))
      BY DEF PriorMonthsOnly
    <2>1. PICK base : /\ base = BuildHistoricalState(Labels(m.flight), MonthEnd(Last(m.flight)))
                      /\ base # Refused /\ Base(m) = TransformOne(m.flight, base)
      BY <1>2, <1>3
    <2>2. m.flight \in Row /\ Typed
      BY <1>1, <1>3
    <2> QED
      BY <2>1, <2>2, FeaturesAre
  <1>4. ASSUME Inv, stage = "qualified" PROVE PriorYearsOnly
    <2> SUFFICES ASSUME generation = "v3", NEW m \in Matrices, NEW t \in SeasonalTables
                 PROVE  LET row == m.flight
                            season == {h \in Held(consumed["history"]) :
                                           /\ CalendarMonth(h.date) = CalendarMonth(row.date)
                                           /\ Year(h.date) < Year(row.date)}
                        IN SameRate(m.values.seasonal[t], Rate(Alike(season, row, t), Known(row)))
      BY DEF PriorYearsOnly
    <2> DEFINE row == m.flight
               state == StateFor(row)
    <2>1. /\ row \in Row /\ Typed /\ state # Refused
          /\ state = BuildV3HistoricalState(Labels(row), MonthEnd(Last(row)))
          /\ m.values = TransformOneV3(row, state) /\ ~OwnYear(row, state)
      BY <1>1, <1>4 DEF Build, Given
    <2>2. m.values.seasonal = SeasonalHistoricalFeatures(row, state)
      BY <2>1 DEF TransformOneV3
    <2> HIDE DEF state, row
    <2>3. LET season == {h \in Held(consumed["history"]) :
                             /\ CalendarMonth(h.date) = CalendarMonth(row.date)
                             /\ Year(h.date) < Year(row.date)}
          IN SameRate(SeasonalHistoricalFeatures(row, state)[t], Rate(Alike(season, row, t), Known(row)))
      BY <2>1, SeasonalFeaturesAre
    <2> QED
      BY <2>2, <2>3 DEF row
  <1>5. stage # "qualified" => PriorMonthsOnly /\ PriorYearsOnly
    BY DEF PriorMonthsOnly, PriorYearsOnly, Matrices
  <1>6. Inv => NoLookAhead
    BY <1>3, <1>4, <1>5 DEF NoLookAhead, Inv
  <1> QED
    BY <1>6, Invariance, PTL
=============================================================================
