--------------------------- MODULE HistoricalState ---------------------------
(***************************************************************************)
(* The historical propensity state of v2 and its seasonal layer of v3: how *)
(* labels up to a cutoff are counted, how scheduled flights are given the  *)
(* smoothed rates of those counts one by one (serving) and as a batch      *)
(* (training), and how a state survives being an artifact.  A date is the  *)
(* number YYYYMMDD; a rate is the pair of its numerator and denominator.   *)
(***************************************************************************)
EXTENDS Integers, Sequences, FiniteSets

CONSTANTS
  Strength,  \* PRIOR_STRENGTH
  Trailing,  \* TRAILING_MONTHS
  None,      \* no counts, and the NaN of a batch
  Refused    \* an exception

ASSUME StateAssumption ==
  /\ Strength \in Nat \ {0} /\ Trailing \in 1..12
  /\ None \notin Nat \union [count : Nat, positive : Nat] \union {Refused}

Month(date) == date \div 100
Year(date) == date \div 10000
CalendarMonth(date) == Month(date) % 100

MonthStart(month) == month * 100 + 1

MonthsBefore(month, k) ==
  IF month % 100 > k THEN month - k ELSE month - 100 + 12 - k

Latest(dates) == CHOOSE d \in dates : \A e \in dates : e <= d

\* The columns of a lookup table name it.  Origin, destination and the hours are
\* further columns of the same kind.
FullTables == {<<"carrier">>, <<"route">>, <<"carrier", "route">>}
RecentTables == {<<"carrier">>, <<"route">>}
SeasonalTables == {<<>>, <<"carrier">>, <<"route">>}

Key(row, columns) == [i \in DOMAIN columns |-> row[columns[i]]]

SeasonalKey(row, columns) == <<CalendarMonth(row.date)>> \o Key(row, columns)

-----------------------------------------------------------------------------
(* Building *)

Counts(rows) ==
  [count |-> Cardinality(rows), positive |-> Cardinality({r \in rows : r.target = 1})]

Keys(rows, columns) == [r \in rows |-> Key(r, columns)]
SeasonalKeys(rows, columns) == [r \in rows |-> SeasonalKey(r, columns)]

\* groupby(columns)["target"].agg(["count", "sum"]), keys giving the group of every row.
Aggregate(keys) ==
  [key \in {keys[r] : r \in DOMAIN keys} |-> Counts({r \in DOMAIN keys : keys[r] = key})]

Tables(rows, tables) == [t \in tables |-> Aggregate(Keys(rows, t))]

SeasonalAggregates(rows) == [t \in SeasonalTables |-> Aggregate(SeasonalKeys(rows, t))]

\* Mutant: one month more than the trailing window.
RecentLonger(rows, cutoff) ==
  {r \in rows : r.date >= MonthStart(MonthsBefore(Month(cutoff), Trailing))}

\* The trailing months, the month of the cutoff being the last of them.
Recent(rows, cutoff) ==
  {r \in rows : r.date >= MonthStart(MonthsBefore(Month(cutoff), Trailing - 1))}

\* Labels after the cutoff and empty windows are refused.
BuildHistoricalState(history, cutoff) ==
  IF history = {} \/ (\E r \in history : r.date > cutoff) \/ Recent(history, cutoff) = {}
  THEN Refused
  ELSE [asOf |-> cutoff,
        global |-> Counts(history),
        recentGlobal |-> Counts(Recent(history, cutoff)),
        full |-> Tables(history, FullTables),
        recent |-> Tables(Recent(history, cutoff), RecentTables)]

\* The last year that each calendar month is known from.
MaxYear(history) ==
  [month \in {CalendarMonth(r.date) : r \in history} |->
     Year(Latest({r.date : r \in {h \in history : CalendarMonth(h.date) = month}}))]

BuildV3HistoricalState(history, cutoff) ==
  LET base == BuildHistoricalState(history, cutoff) IN
  IF base = Refused THEN Refused
  ELSE [base |-> base,
        seasonal |-> SeasonalAggregates(history),
        maxYear |-> MaxYear(history)]

-----------------------------------------------------------------------------
(* Looking up: one flight *)

GlobalRate(base) == <<base.global.positive, base.global.count>>

\* Counts shrunk towards the global rate, which stands for counts never seen.
Smoothed(base, counts) ==
  IF counts = None THEN GlobalRate(base)
  ELSE <<counts.positive * base.global.count + Strength * base.global.positive,
         (counts.count + Strength) * base.global.count>>

Lookup(table, key) == IF key \in DOMAIN table THEN table[key] ELSE None
Support(counts) == IF counts = None THEN 0 ELSE counts.count

TransformOne(row, base) ==
  [global |-> GlobalRate(base),
   full |-> [t \in FullTables |-> Smoothed(base, Lookup(base.full[t], Key(row, t)))],
   support |-> [t \in {<<"route">>, <<"carrier", "route">>} |->
                  Support(Lookup(base.full[t], Key(row, t)))],
   recentGlobal |-> Smoothed(base, base.recentGlobal),
   recent |-> [t \in RecentTables |-> Smoothed(base, Lookup(base.recent[t], Key(row, t)))]]

\* The ledger of years says whether the row's own year contributed.
OwnYear(row, state) ==
  LET month == CalendarMonth(row.date) IN
  month \in DOMAIN state.maxYear /\ state.maxYear[month] >= Year(row.date)

SeasonalHistoricalFeatures(row, state) ==
  [t \in SeasonalTables |->
     Smoothed(state.base, Lookup(state.seasonal[t], SeasonalKey(row, t)))]

TransformOneV3(row, state) ==
  IF OwnYear(row, state) THEN Refused
  ELSE [base |-> TransformOne(row, state.base), seasonal |-> SeasonalHistoricalFeatures(row, state)]

-----------------------------------------------------------------------------
(* Looking up: a batch *)

\* A state must end before the month of every row.
EndsBefore(asOf, rows) == \A r \in rows : asOf < MonthStart(Month(r.date))

\* v2 applies the serving transformer to every row.
TransformWithState(rows, base) ==
  IF EndsBefore(base.asOf, rows) THEN [r \in rows |-> TransformOne(r, base)] ELSE Refused

\* v3 works on whole columns: reindexing leaves NaN where a key is unknown.
AlignedCounts(table, keys) ==
  LET known(r) == keys[r] \in DOMAIN table IN
  [count |-> [r \in DOMAIN keys |-> IF known(r) THEN table[keys[r]].count ELSE None],
   positive |-> [r \in DOMAIN keys |-> IF known(r) THEN table[keys[r]].positive ELSE None]]

\* Mutant: NaN becomes a rate of zero.
SmoothedVectorZero(base, aligned) ==
  [r \in DOMAIN aligned.count |->
     IF aligned.count[r] = None THEN <<0, 1>>
     ELSE <<aligned.positive[r] * base.global.count + Strength * base.global.positive,
            (aligned.count[r] + Strength) * base.global.count>>]

SmoothedVector(base, aligned) ==
  [r \in DOMAIN aligned.count |->
     IF aligned.count[r] = None THEN GlobalRate(base)
     ELSE <<aligned.positive[r] * base.global.count + Strength * base.global.positive,
            (aligned.count[r] + Strength) * base.global.count>>]

Filled(column) == [r \in DOMAIN column |-> IF column[r] = None THEN 0 ELSE column[r]]

BaseHistoricalFrame(rows, base) ==
  LET whole(counts) == [count |-> [r \in rows |-> counts.count],
                        positive |-> [r \in rows |-> counts.positive]]
      full(t) == AlignedCounts(base.full[t], Keys(rows, t))
      recent(t) == AlignedCounts(base.recent[t], Keys(rows, t))
  IN [global |-> [r \in rows |-> GlobalRate(base)],
      full |-> [t \in FullTables |-> SmoothedVector(base, full(t))],
      support |-> [t \in {<<"route">>, <<"carrier", "route">>} |-> Filled(full(t).count)],
      recentGlobal |-> SmoothedVector(base, whole(base.recentGlobal)),
      recent |-> [t \in RecentTables |-> SmoothedVector(base, recent(t))]]

SeasonalHistoricalFrame(rows, state) ==
  [t \in SeasonalTables |->
     SmoothedVector(state.base, AlignedCounts(state.seasonal[t], SeasonalKeys(rows, t)))]

\* The cells of one row of a frame of columns.
RowOf(columns, r) == [t \in DOMAIN columns |-> columns[t][r]]

TransformWithV3State(rows, state) ==
  IF ~EndsBefore(state.base.asOf, rows) \/ (\E r \in rows : OwnYear(r, state)) THEN Refused
  ELSE LET frame == BaseHistoricalFrame(rows, state.base)
           seasonal == SeasonalHistoricalFrame(rows, state)
       IN [r \in rows |->
             [base |-> [global |-> frame.global[r],
                        full |-> RowOf(frame.full, r),
                        support |-> RowOf(frame.support, r),
                        recentGlobal |-> frame.recentGlobal[r],
                        recent |-> RowOf(frame.recent, r)],
              seasonal |-> RowOf(seasonal, r)]]

-----------------------------------------------------------------------------
(* The artifact *)

Entries(table) ==
  {[key |-> key, count |-> table[key].count, positive |-> table[key].positive] : key \in DOMAIN table}

Serialized(tables) == [t \in DOMAIN tables |-> Entries(tables[t])]

ToBytes(base) ==
  [base EXCEPT !.full = Serialized(base.full), !.recent = Serialized(base.recent)]

ToBytesV3(state) ==
  [state EXCEPT !.base = ToBytes(state.base), !.seasonal = Serialized(state.seasonal)]

ValidCounts(c) == c.count > 0 /\ c.positive \in 0..c.count

\* A table is read entry by entry: no key twice, no count that cannot be one.
ValidEntries(entries) ==
  \A e \in entries : ValidCounts(e) /\ \A f \in entries : f.key = e.key => f = e

Table(entries) ==
  [key \in {e.key : e \in entries} |->
     LET e == CHOOSE f \in entries : f.key = key IN [count |-> e.count, positive |-> e.positive]]

ValidTables(tables, expected) ==
  DOMAIN tables = expected /\ \A t \in expected : ValidEntries(tables[t])

Read(tables) == [t \in DOMAIN tables |-> Table(tables[t])]

FromBytes(payload) ==
  IF /\ ValidCounts(payload.global) /\ ValidCounts(payload.recentGlobal)
     /\ ValidTables(payload.full, FullTables) /\ ValidTables(payload.recent, RecentTables)
  THEN [payload EXCEPT !.full = Read(payload.full), !.recent = Read(payload.recent)]
  ELSE Refused

\* The ledger of years is taken as it stands.
FromBytesV3(payload) ==
  LET base == FromBytes(payload.base) IN
  IF base = Refused \/ ~ValidTables(payload.seasonal, SeasonalTables) THEN Refused
  ELSE [payload EXCEPT !.base = base, !.seasonal = Read(payload.seasonal)]
=============================================================================
