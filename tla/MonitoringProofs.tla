-------------------------- MODULE MonitoringProofs --------------------------
(* What the traffic run leaves and what the dashboard shows, for any number of *)
(* requests, sessions, windows and versions and any size of a page.            *)
EXTENDS Monitoring, FiniteSetTheorems, TLAPS

Indexes == [Requests -> Item \union {None}]

Serving == [pc : {"idle", "serving", "200", "503"}, stamp : 0..Count,
            version : Versions \union {None}]

Runs == [pc : {"idle", "waiting", "audit", "done"}, next : 0..Count, ids : Seq(Requests),
         failed : Nat]

Audits == [planned : Nat, attempted : Nat, successful : Nat, failed : Nat, ids : Seq(Requests)]

Cached == [rows : Seq(Item), since : Indexes]

Views == [rows : Seq(Item), model : Versions \union {None}, reported : BOOLEAN,
          due : Versions \union {None}]

Scripts == [pc : {"idle", "query", "model"}, window : Windows \union {None}, day : Nat,
            key : 0..Count, rows : Seq(Item), since : Indexes \union {None},
            view : Views \union {None}]

Typed ==
  /\ server \in [Requests -> Serving]
  /\ table \in Indexes
  /\ index \in Indexes
  /\ loads \in [Versions -> 0..MaxLoads]
  /\ traffic \in Runs
  /\ audit \in Audits \union {None}
  /\ cache \in [Windows -> Cached \union {None}]
  /\ session \in [Sessions -> Scripts]

\* b is a, perhaps with feedback that a has not seen.
Newer(a, b) ==
  /\ a.request = b.request /\ a.stamp = b.stamp
  /\ a.status = b.status /\ a.version = b.version
  /\ a.revision <= b.revision

\* The stamp a request was accepted with, while it is served and once it is stored.
StampOf(k) ==
  IF server[k].pc = "serving" THEN server[k].stamp
  ELSE IF table[k] # None THEN table[k].stamp ELSE 0

\* Who answered 200 has stored a success of a model on record; no two requests have
\* a stamp in common; the index has nothing that the table has not.
Stored ==
  /\ \A v, w \in Models : loads[v] = loads[w] => v = w
  /\ \A k \in Requests :
      /\ server[k].pc = "serving" =>
           server[k].stamp \in 1..Cardinality(Accepted) /\ server[k].version \in Models
      /\ server[k].pc \in {"idle", "serving"} => table[k] = None
      /\ server[k].pc = "200" => table[k] # None /\ table[k].status = "success"
      /\ table[k] # None =>
           /\ table[k].request = k
           /\ table[k].stamp \in 1..Cardinality(Accepted)
           /\ table[k].version \in Models \union {None}
      /\ index[k] # None => table[k] # None /\ Newer(index[k], table[k])
      /\ \A j \in Requests \ {k} : StampOf(k) = StampOf(j) => StampOf(k) = 0

Named(ids) == {ids[i] : i \in DOMAIN ids}

\* Identifiers that stand for as many requests that these servers answered.
Answered(ids, servers) ==
  /\ Cardinality(Named(ids)) = Len(ids)
  /\ \A k \in Named(ids) : servers[k].pc = "200"

\* The run's account of the requests before the one it waits for, and the audit's.
Accounted ==
  /\ traffic.pc = "idle" => traffic.ids = <<>> /\ traffic.failed = 0
  /\ traffic.pc = "waiting" =>
       /\ traffic.next \in Requests
       /\ Len(traffic.ids) + traffic.failed = traffic.next - 1
       /\ Named(traffic.ids) \subseteq 1..(traffic.next - 1)
       /\ Answered(traffic.ids, server)
  /\ traffic.pc = "audit" =>
       /\ Len(traffic.ids) + traffic.failed = Count
       /\ Answered(traffic.ids, server)
  /\ audit # None /\ audit.attempted > 0 =>
       /\ audit.planned = Count /\ audit.attempted = Count
       /\ audit.successful = Len(audit.ids)
       /\ audit.successful + audit.failed = Count
       /\ Answered(audit.ids, server)

\* A row that was read is one of the items, perhaps an older revision of it.
Genuine(rows, items) ==
  \A i \in DOMAIN rows : /\ items[rows[i].request] # None
                         /\ Newer(rows[i], items[rows[i].request])

Ordered(rows) == \A i, j \in DOMAIN rows : i < j => rows[i].stamp < rows[j].stamp

Inside(w, rows) == \A i \in DOMAIN rows : Day[rows[i].stamp] \in w.first..w.last

Holds(rows, k, since) ==
  \E i \in DOMAIN rows : rows[i].request = k /\ rows[i].revision >= since[k].revision

\* The index only grows and only gets newer.
Since(since, items) ==
  \A k \in Requests : since[k] # None => items[k] # None /\ Newer(since[k], items[k])

\* The part of the window a query has been through.
Behind(stamp, q) == Day[stamp] < q.day \/ (Day[stamp] = q.day /\ stamp <= q.key)

\* A query holds what the index had in that part when it began.
Partial(q) ==
  /\ q.window \in Windows /\ q.day \in q.window.first..q.window.last
  /\ Ordered(q.rows) /\ Inside(q.window, q.rows)
  /\ \A i \in DOMAIN q.rows : Behind(q.rows[i].stamp, q)
  /\ \A k \in Within(q.window, q.since) :
       Behind(q.since[k].stamp, q) => Holds(q.rows, k, q.since)

Whole(w, rows, since) ==
  /\ Ordered(rows) /\ Inside(w, rows)
  /\ \A k \in Within(w, since) : Holds(rows, k, since)

\* What a script run may rely on, when the table and the index hold these items.
Script(q, stored, indexed) ==
  /\ q.pc = "query" => q.since \in Indexes /\ Since(q.since, indexed) /\ Partial(q)
  /\ q.pc = "model" => q.window \in Windows /\ q.since \in Indexes /\ Whole(q.window, q.rows, q.since)
  /\ Genuine(q.rows, stored)
  /\ q.view # None => Genuine(q.view.rows, stored)

Queried ==
  /\ \A w \in Windows : cache[w] # None =>
       Whole(w, cache[w].rows, cache[w].since) /\ Genuine(cache[w].rows, table)
  /\ \A s \in Sessions : Script(session[s], table, index)

\* What no step takes back.
Keeps ==
  /\ \A k \in Requests :
       /\ server[k].pc = "200" => server'[k].pc = "200"
       /\ table[k] # None => table'[k] # None /\ Newer(table[k], table'[k])
       /\ index[k] # None => index'[k] # None /\ Newer(index[k], index'[k])
  /\ Models \subseteq Models'

-----------------------------------------------------------------------------
(* A page of the index *)

\* A number of the items precede each of them: their order is a numbering.
LEMMA InOrderIs ==
  ASSUME NEW S, IsFiniteSet(S), \A a \in S : a.stamp \in Nat,
         \A a, b \in S : a.stamp = b.stamp => a = b
  PROVE  /\ InOrder(S) \in [1..Cardinality(S) -> S]
         /\ Ordered(InOrder(S))
         /\ \A a \in S : \E n \in 1..Cardinality(S) : InOrder(S)[n] = a
  <1> DEFINE n == Cardinality(S)
             before(a) == {b \in S : b.stamp < a.stamp}
             rank == [a \in S |-> Cardinality(before(a))]
             order == InOrder(S)
  <1>1. n \in Nat
    BY FS_CardinalityType
  <1>2. ASSUME NEW a \in S
        PROVE  IsFiniteSet(before(a)) /\ rank[a] \in 0..(n - 1)
    <2>1. before(a) \subseteq S /\ a \notin before(a)
      OBVIOUS
    <2>2. IsFiniteSet(before(a)) /\ Cardinality(before(a)) <= n /\ Cardinality(before(a)) # n
      BY <2>1, FS_Subset
    <2>3. Cardinality(before(a)) \in Nat
      BY <2>2, FS_CardinalityType
    <2> QED
      BY <1>1, <2>2, <2>3
  <1>3. ASSUME NEW a \in S, NEW b \in S, a.stamp < b.stamp
        PROVE  rank[a] < rank[b]
    <2>1. before(a) \subseteq before(b) /\ a \in before(b) /\ a \notin before(a)
      BY <1>3
    <2>2. Cardinality(before(a)) <= Cardinality(before(b)) /\ Cardinality(before(a)) # Cardinality(before(b))
      BY <1>2, <2>1, FS_Subset
    <2>3. Cardinality(before(a)) \in Nat /\ Cardinality(before(b)) \in Nat
      BY <1>2, FS_CardinalityType
    <2> QED
      BY <2>2, <2>3
  <1>a. rank \in [S -> 0..(n - 1)] /\ n = Cardinality(S)
    BY <1>2
  <1>b. \A a \in S : rank[a] = Cardinality({b \in S : b.stamp < a.stamp})
    OBVIOUS
  <1>c. \A a, b \in S : a.stamp < b.stamp => rank[a] < rank[b]
    BY <1>3
  <1> HIDE DEF rank, n, before
  <1>d. \A a \in S : rank[a] \in 0..(n - 1) /\ rank[a] \in Nat
    BY <1>1, <1>a
  <1>4. rank \in Injection(S, 0..(n - 1))
    <2>1. rank \in [S -> 0..(n - 1)]
      BY <1>a
    <2>2. ASSUME NEW a \in S, NEW b \in S, rank[a] = rank[b]
          PROVE  a = b
      <3>1. a.stamp < b.stamp \/ b.stamp < a.stamp \/ a.stamp = b.stamp
        OBVIOUS
      <3> QED
        BY <1>c, <1>d, <2>2, <3>1
    <2> QED
      BY <2>1, <2>2 DEF Injection, IsInjective
  <1>5. rank \in Surjection(S, 0..(n - 1))
    <2>1. IsFiniteSet(0..(n - 1)) /\ Cardinality(0..(n - 1)) = n
      BY <1>1, FS_Interval
    <2> QED
      BY <1>4, <1>a, <2>1, FS_Injection
  <1>6. ASSUME NEW i \in 1..n
        PROVE  order[i] \in S /\ rank[order[i]] = i - 1
    <2>1. i - 1 \in 0..(n - 1)
      BY <1>1
    <2>2. \E a \in S : rank[a] = i - 1
      BY <1>5, <2>1 DEF Surjection
    <2>3. order[i] = CHOOSE a \in S : rank[a] = i - 1
      BY <1>a, <1>b DEF InOrder
    <2> QED
      BY <2>2, <2>3
  <1>7. order \in [1..n -> S]
    BY <1>6, <1>a DEF InOrder
  <1> HIDE DEF order
  <1>8. Ordered(order)
    <2> SUFFICES ASSUME NEW i \in 1..n, NEW j \in 1..n, i < j
                 PROVE  order[i].stamp < order[j].stamp
      BY <1>7 DEF Ordered
    <2>1. order[i] \in S /\ order[j] \in S /\ rank[order[i]] < rank[order[j]]
      BY <1>1, <1>6
    <2>2. order[i] # order[j] /\ ~(order[j].stamp < order[i].stamp)
      BY <1>c, <1>d, <2>1
    <2> QED
      BY <2>1, <2>2
  <1>9. ASSUME NEW a \in S
        PROVE  \E i \in 1..n : order[i] = a
    <2>1. rank[a] + 1 \in 1..n /\ (rank[a] + 1) - 1 = rank[a]
      BY <1>1, <1>d
    <2>2. rank[order[rank[a] + 1]] = rank[a] /\ order[rank[a] + 1] \in S
      BY <1>6, <2>1
    <2>3. order[rank[a] + 1] = a
      BY <1>4, <2>2 DEF Injection, IsInjective
    <2> QED
      BY <2>1, <2>3
  <1> QED
    BY <1>7, <1>8, <1>9 DEF n, order

\* What k has in the index of a day after a key.
Ahead(k, day, key) ==
  index[k] # None /\ Day[index[k].stamp] = day /\ index[k].stamp > key

\* A page is ordered and genuine, and misses nothing up to its last item; nothing
\* at all when there is no more.
LEMMA PageIs ==
  ASSUME Typed, Stored, NEW day, NEW key \in Nat
  PROVE  LET page == Page(day, key) IN
         /\ page \in Seq(Item) /\ Ordered(page) /\ Genuine(page, table)
         /\ \A i \in DOMAIN page : Day[page[i].stamp] = day /\ page[i].stamp > key
         /\ HasMore(page) =>
              /\ Len(page) \in 1..Len(page)
              /\ \A k \in Requests :
                   Ahead(k, day, key) /\ index[k].stamp <= Last(page).stamp =>
                     \E i \in DOMAIN page : page[i] = index[k]
         /\ ~HasMore(page) =>
              \A k \in Requests :
                Ahead(k, day, key) => \E i \in DOMAIN page : page[i] = index[k]
  <1> DEFINE K == {k \in Requests : Ahead(k, day, key)}
             found == {index[k] : k \in K}
             n == Cardinality(found)
             order == InOrder(found)
             m == IF n < PageSize THEN n ELSE PageSize
             page == Page(day, key)
  <1>1. /\ \A k \in K : index[k] \in Item /\ index[k].stamp \in Nat
        /\ \A k \in K : table[k] # None /\ Newer(index[k], table[k]) /\ index[k].request = k
    BY DEF Typed, Stored, Indexes, Item, Newer, Stamps, Ahead
  <1>2. IsFiniteSet(found)
    <2>1. IsFiniteSet(K)
      <3>1. IsFiniteSet(1..Count)
        BY FS_Interval, MonitoringAssumption
      <3>2. K \subseteq 1..Count
        BY DEF Requests
      <3> QED
        BY <3>1, <3>2, FS_Subset
    <2>2. [k \in K |-> index[k]] \in Surjection(K, found)
      BY DEF Surjection
    <2> HIDE DEF K, found
    <2> QED
      BY <2>1, <2>2, FS_Surjection
  <1>3. \A a \in found : a.stamp \in Nat
    BY <1>1
  <1>4. \A a, b \in found : a.stamp = b.stamp => a = b
    <2> SUFFICES ASSUME NEW k \in K, NEW j \in K, index[k].stamp = index[j].stamp, k # j
                 PROVE  FALSE
      OBVIOUS
    <2>1. StampOf(k) = index[k].stamp /\ StampOf(j) = index[j].stamp
      BY <1>1 DEF Stored, StampOf, Newer
    <2>2. StampOf(k) # 0
      BY <2>1 DEF Ahead, Typed, Indexes, Item, Stamps
    <2> QED
      BY <2>1, <2>2 DEF Stored
  <1>5. /\ order \in [1..n -> found] /\ Ordered(order)
        /\ \A a \in found : \E i \in 1..n : order[i] = a
    <2> HIDE DEF found
    <2> QED
      BY <1>2, <1>3, <1>4, InOrderIs
  <1>6. n \in Nat /\ PageSize \in Nat \ {0} /\ m \in 0..n /\ m <= PageSize
    BY <1>2, FS_CardinalityType, MonitoringAssumption
  <1>7. page = SubSeq(order, 1, m)
    BY DEF Page, Ahead
  <1>8. \A a \in found : a \in Item
    BY <1>1
  <1> HIDE DEF order, n, m, page
  <1>9. order \in Seq(found) /\ Len(order) = n
    BY <1>5, <1>6
  <1>10. page \in Seq(found) /\ Len(page) = m /\ \A i \in 1..m : page[i] = order[i]
    BY <1>6, <1>7, <1>9
  <1>11. page \in Seq(Item)
    BY <1>8, <1>10
  <1>12. Ordered(page)
    BY <1>5, <1>6, <1>10 DEF Ordered
  <1>13. \A i \in DOMAIN page : page[i] \in found
    BY <1>10
  <1>14. Genuine(page, table) /\ \A i \in DOMAIN page : Day[page[i].stamp] = day /\ page[i].stamp > key
    BY <1>1, <1>13 DEF Genuine, Ahead
  <1>15. ASSUME HasMore(page), NEW k \in K, index[k].stamp <= Last(page).stamp
         PROVE  \E i \in DOMAIN page : page[i] = index[k]
    <2>1. m = PageSize /\ m \in 1..n /\ Last(page) = order[m]
      BY <1>6, <1>10, <1>15 DEF HasMore, Last
    <2>2. PICK i \in 1..n : order[i] = index[k]
      BY <1>5
    <2>3. ~(order[m].stamp < order[i].stamp)
      BY <1>1, <1>3, <1>5, <1>15, <2>1, <2>2
    <2>4. i <= m
      BY <1>5, <2>1, <2>3 DEF Ordered
    <2> QED
      BY <1>10, <2>1, <2>2, <2>4
  <1>16. ASSUME ~HasMore(page), NEW k \in K
         PROVE  \E i \in DOMAIN page : page[i] = index[k]
    <2>1. m = n
      BY <1>6, <1>10, <1>16 DEF HasMore, m
    <2>2. PICK i \in 1..n : order[i] = index[k]
      BY <1>5
    <2> QED
      BY <1>6, <1>10, <2>1, <2>2
  <1>17. HasMore(page) => Len(page) \in 1..Len(page)
    BY <1>6, <1>10 DEF HasMore
  <1> QED
    BY <1>11, <1>12, <1>14, <1>15, <1>16, <1>17 DEF page

-----------------------------------------------------------------------------
(* Types *)

\* A non-empty set of naturals has a least element.
LEMMA NaturalsMin ==
  ASSUME NEW T, T \subseteq Nat, T # {}
  PROVE  \E x \in T : \A y \in T : x <= y
  <1> DEFINE R == {ss \in Nat \X Nat : ss[1] < ss[2]}
  <1>1. IsWellFoundedOn(R, Nat)
    BY NatLessThanWellFounded DEF OpToRel
  <1>2. \E x \in T : \A y \in T : ~ (<<y, x>> \in R)
    <2> HIDE DEF R
    <2> QED
      BY <1>1, WFMin
  <1>3. PICK x \in T : \A y \in T : ~ (<<y, x>> \in R)
    BY <1>2
  <1>4. ASSUME NEW y \in T
        PROVE  x <= y
    <2>1. x \in Nat /\ y \in Nat
      OBVIOUS
    <2>2. <<y, x>> \in Nat \X Nat /\ <<y, x>>[1] = y /\ <<y, x>>[2] = x
      BY <2>1
    <2>3. ~(y < x)
      BY <1>3, <2>2
    <2> QED
      BY <2>1, <2>3
  <1> QED
    BY <1>4

\* A non-empty family of subsets of a finite set has a minimal one.
LEMMA SubsetsMin ==
  ASSUME NEW S, IsFiniteSet(S), NEW F, F \subseteq SUBSET S, F # {}
  PROVE  \E x \in F : \A y \in F : y \subseteq x => y = x
  <1>1. IsWellFoundedOn(StrictSubsetOrdering(S), SUBSET S)
    BY FS_FiniteSubsetsOfFinite, FS_StrictSubsetOrderingWellFounded
  <1>2. \E x \in F : \A y \in F : ~ (<<y, x>> \in StrictSubsetOrdering(S))
    BY <1>1, WFMin
  <1> QED
    BY <1>2 DEF StrictSubsetOrdering

\* A function into the integers has a largest value on a finite set.
LEMMA FiniteMax ==
  ASSUME NEW S, IsFiniteSet(S), S # {}, NEW f \in [S -> Int]
  PROVE  \E x \in S : \A y \in S : f[y] <= f[x]
  <1> DEFINE Has(T) == \E x \in T : \A y \in T : f[y] <= f[x]
             F == {T \in SUBSET S : T # {} /\ ~Has(T)}
  <1> SUFFICES ASSUME F # {}
               PROVE  FALSE
    OBVIOUS
  <1>1. PICK T \in F : \A U \in F : U \subseteq T => U = T
    <2> HIDE DEF F
    <2>1. F \subseteq SUBSET S
      BY DEF F
    <2> QED
      BY <2>1, SubsetsMin
  <1>2. PICK x \in T : TRUE
    OBVIOUS
  <1>3. CASE T = {x}
    BY <1>3
  <1>4. CASE T # {x}
    <2>1. T \ {x} \notin F /\ T \ {x} # {} /\ T \ {x} \in SUBSET S
      BY <1>1, <1>2, <1>4
    <2>2. PICK z \in T \ {x} : \A y \in T \ {x} : f[y] <= f[z]
      BY <2>1
    <2>3. \A y \in T : f[y] \in Int
      OBVIOUS
    <2>4. Has(T)
      <3>1. CASE f[x] <= f[z]
        BY <2>2, <3>1
      <3>2. CASE ~(f[x] <= f[z])
        BY <2>2, <2>3, <3>2
      <3> QED
        BY <3>1, <3>2
    <2> QED
      BY <2>4
  <1> QED
    BY <1>3, <1>4

\* Of some versions one was loaded last.
LEMMA LatestIs ==
  ASSUME Typed, NEW S \in SUBSET Versions, S # {}
  PROVE  LatestOf(S) \in S /\ \A w \in S : loads[w] <= loads[LatestOf(S)]
  <1> DEFINE T == {x \in Nat : \E v \in S : x = MaxLoads - loads[v]}
  <1>1. MaxLoads \in Nat /\ \A v \in S : loads[v] \in 0..MaxLoads
    BY MonitoringAssumption DEF Typed
  <1>2. \A v \in S : MaxLoads - loads[v] \in T
    BY <1>1
  <1>3. PICK x \in T : \A y \in T : x <= y
    <2>1. T # {} /\ T \subseteq Nat
      BY <1>2
    <2> HIDE DEF T
    <2> QED
      BY <2>1, NaturalsMin
  <1>4. PICK v \in S : x = MaxLoads - loads[v]
    OBVIOUS
  <1>5. \A w \in S : loads[w] <= loads[v]
    BY <1>1, <1>2, <1>3, <1>4
  <1> QED
    BY <1>5 DEF LatestOf

\* The last load is the largest number of the loads.
LEMMA LastLoadIs ==
  ASSUME Typed, Versions # {}
  PROVE  /\ LastLoad \in 0..MaxLoads
         /\ \E v \in Versions : loads[v] = LastLoad
         /\ \A v \in Versions : loads[v] <= LastLoad
  <1>1. PICK v \in Versions : \A w \in Versions : loads[w] <= loads[v]
    BY LatestIs
  <1>2. \A w \in Versions : loads[w] \in 0..MaxLoads /\ loads[w] \in Int
    BY MonitoringAssumption DEF Typed
  <1>3. LastLoad = loads[v]
    <2>1. \A t \in {loads[w] : w \in Versions} : t <= loads[v] /\ t \in Int
      BY <1>1, <1>2
    <2>2. LastLoad \in {loads[w] : w \in Versions} /\ loads[v] <= LastLoad
      BY <2>1 DEF LastLoad
    <2> QED
      BY SMTT(30), <2>1, <2>2
  <1> QED
    BY <1>1, <1>2, <1>3

\* The versions of some rows have a last one in the order of their strings.
LEMMA LastOptionIs ==
  ASSUME NEW rows \in Seq(Item), Options(rows) # {}
  PROVE  LastOption(Options(rows)) \in Options(rows)
  <1> DEFINE S == Options(rows)
             f == [v \in S |-> Rank[v]]
             all == {rows[i].version : i \in 1..Len(rows)}
  <1>1. IsFiniteSet(S)
    <2>1. IsFiniteSet(1..Len(rows))
      BY FS_Interval
    <2>2. [i \in 1..Len(rows) |-> rows[i].version] \in Surjection(1..Len(rows), all)
      BY DEF Surjection
    <2>3. IsFiniteSet(all)
      <3> HIDE DEF all
      <3> QED
        BY <2>1, <2>2, FS_Surjection
    <2>4. S \subseteq all
      BY DEF Options
    <2> QED
      BY <2>3, <2>4, FS_Subset
  <1>2. \A v \in S : v \in Versions
    <2>0. \A i \in DOMAIN rows : rows[i] \in Item
      OBVIOUS
    <2>1. \A i \in DOMAIN rows : rows[i].version \in Versions \union {None}
      BY <2>0 DEF Item
    <2> QED
      BY <2>1 DEF Options
  <1>3. f \in [S -> Int]
    BY <1>2, MonitoringAssumption
  <1>4. PICK v \in S : \A w \in S : f[w] <= f[v]
    <2> HIDE DEF f, S
    <2> QED
      BY <1>1, <1>3, FiniteMax DEF S
  <1>5. \A w \in S : Rank[w] <= Rank[v]
    BY <1>4
  <1> QED
    BY <1>5 DEF LastOption

\* There is a stamp left for a request that was not accepted.
LEMMA AcceptedSize ==
  ASSUME Typed
  PROVE  /\ IsFiniteSet(Accepted) /\ Cardinality(Accepted) \in 0..Count
         /\ \A k \in Requests : server[k].pc = "idle" => Cardinality(Accepted) + 1 \in Stamps
  <1>0. Count \in Nat /\ 1 \in Int /\ Count \in Int
    BY MonitoringAssumption
  <1>1. IsFiniteSet(1..Count) /\ Cardinality(1..Count) = Count
    BY <1>0, FS_Interval
  <1>2. Accepted \subseteq 1..Count
    BY DEF Accepted, Requests
  <1>3. /\ IsFiniteSet(Accepted) /\ Cardinality(Accepted) \in Nat /\ Cardinality(Accepted) <= Count
        /\ Cardinality(Accepted) = Count => Accepted = 1..Count
    BY <1>1, <1>2, FS_Subset, FS_CardinalityType
  <1>4. \A k \in Requests : server[k].pc = "idle" => k \notin Accepted /\ k \in 1..Count
    BY DEF Accepted, Requests
  <1> QED
    BY <1>0, <1>1, <1>3, <1>4 DEF Stamps

\* The initial state is of its type.
LEMMA TypedInit == Init => Typed
  BY MonitoringAssumption
  DEF Init, Typed, Serving, Indexes, Runs, Scripts, Unasked, Quiet, Idle, Requests

\* A page read, or the last of a window, leaves typed rows.
LEMMA PageTyped ==
  ASSUME Typed, Stored, Queried, NEW s \in Sessions, ReadPage(s)
  PROVE  session' \in [Sessions -> Scripts] /\ cache' \in [Windows -> Cached \union {None}]
  <1> DEFINE q == session[s]
             page == Page(q.day, q.key)
  <1>1. q \in Scripts /\ q.pc = "query" /\ q.key \in Nat
    <2>1. session[s] \in Scripts
      BY DEF Typed
    <2>2. session[s].key \in 0..Count
      BY <2>1 DEF Scripts
    <2>3. session[s].pc = "query"
      BY DEF ReadPage
    <2> QED
      BY <2>1, <2>2, <2>3
  <1>2. page \in Seq(Item) /\ (HasMore(page) => Len(page) \in 1..Len(page))
    BY <1>1, PageIs
  <1>3. q.rows \o page \in Seq(Item)
    BY <1>1, <1>2 DEF Scripts
  <1>4. HasMore(page) => Last(page) \in Item
    BY <1>2 DEF Last
  <1>5. q.window \in Windows /\ q.since \in Indexes /\ q.day + 1 \in Nat
    BY <1>1 DEF Queried, Script, Partial, Scripts
  <1>6. CASE /\ HasMore(page)
             /\ session' = [session EXCEPT ![s].rows = q.rows \o page,
                                           ![s].key = Last(page).stamp]
             /\ cache' = cache
    <2>1. Last(page).stamp \in 0..Count
      BY <1>4, <1>6 DEF Item, Stamps
    <2> QED
      BY <1>1, <1>3, <1>6, <2>1 DEF Typed, Scripts
  <1>7. CASE /\ session' = [session EXCEPT ![s].rows = q.rows \o page, ![s].key = 0,
                                           ![s].day = @ + 1]
             /\ cache' = cache
    <2>1. 0 \in 0..Count
      BY MonitoringAssumption
    <2> QED
      BY <1>1, <1>3, <1>5, <1>7, <2>1 DEF Typed, Scripts
  <1>8. CASE /\ session' = [session EXCEPT ![s] = Loaded(q.window, q.rows \o page, q.since)]
             /\ cache' = [cache EXCEPT ![q.window] = [rows |-> q.rows \o page, since |-> q.since]]
    <2>1. 0 \in 0..Count
      BY MonitoringAssumption
    <2>2. Loaded(q.window, q.rows \o page, q.since) \in Scripts
      BY <1>3, <1>5, <2>1 DEF Loaded, Idle, Scripts
    <2>3. [rows |-> q.rows \o page, since |-> q.since] \in Cached
      BY <1>3, <1>5 DEF Cached
    <2> QED
      BY <1>8, <2>2, <2>3 DEF Typed
  <1> QED
    BY <1>6, <1>7, <1>8 DEF ReadPage

\* Rows that were read name models on record, which the lookup finds; without any
\* it finds one, and the latest if it sees all.
LEMMA LookupIs ==
  ASSUME Typed, Stored, NEW rows \in Seq(Item), Genuine(rows, table)
  PROVE  /\ Options(rows) # {} => /\ Lookups(rows) \subseteq Options(rows) \intersect Models
                                  /\ ~NotFound(rows)
         /\ Options(rows) = {} =>
              /\ Lookups(rows) \subseteq Models
              /\ Models # {} /\ Size <= ScanLimit =>
                   /\ ~NotFound(rows)
                   /\ \A model \in Lookups(rows) :
                        model = CHOOSE v \in Models : loads[v] = LastLoad
  <1>1. Options(rows) \subseteq Models
    <2>0. \A i \in DOMAIN rows : rows[i] \in Item
      OBVIOUS
    <2>1. \A i \in DOMAIN rows : rows[i].request \in Requests /\ table[rows[i].request] # None
                                 /\ rows[i].version = table[rows[i].request].version
      BY <2>0 DEF Genuine, Newer, Item
    <2>2. \A i \in DOMAIN rows : rows[i].version \in Models \union {None}
      BY <2>1 DEF Stored
    <2> QED
      BY <2>2 DEF Options
  <1>2. CASE Options(rows) # {}
    BY <1>1, <1>2, LastOptionIs DEF Lookups, NotFound
  <1>3. CASE Options(rows) = {}
    <2>1. \A models \in Scanned \ {{}} : models \in SUBSET Versions /\ models \subseteq Models /\ models # {}
      BY DEF Scanned, Models
    <2>2. \A models \in Scanned \ {{}} : LatestOf(models) \in models
      BY <2>1, LatestIs
    <2>3. Lookups(rows) \subseteq Models
      BY <1>3, <2>1, <2>2 DEF Lookups
    <2>4. ASSUME Models # {}, Size <= ScanLimit, NEW model \in Lookups(rows)
          PROVE  model = CHOOSE v \in Models : loads[v] = LastLoad
      <3>1. model = LatestOf(Models)
        BY <1>3, <2>4 DEF Lookups, Scanned
      <3>2. model \in Models /\ \A w \in Models : loads[w] <= loads[model]
        BY <2>4, <3>1, LatestIs DEF Models
      <3>3. PICK v \in Versions : loads[v] = LastLoad /\ \A w \in Versions : loads[w] <= loads[v]
        BY <2>4, LastLoadIs DEF Models
      <3>4. \A w \in Versions : loads[w] \in Nat
        BY MonitoringAssumption DEF Typed
      <3>5. v \in Models /\ loads[v] = loads[model]
        BY <3>2, <3>3, <3>4 DEF Models
      <3>6. \A w \in Models : loads[w] = LastLoad => w = model
        BY <3>2, <3>3, <3>5 DEF Stored
      <3> QED
        BY <3>2, <3>3, <3>5, <3>6
    <2>5. Models # {} /\ Size <= ScanLimit => ~NotFound(rows)
      BY <1>3 DEF NotFound, Scanned
    <2> QED
      BY <1>3, <2>3, <2>4, <2>5
  <1> QED
    BY <1>2, <1>3

\* The model a session has to show is one on record.
LEMMA DueIs ==
  ASSUME Typed, Models # {}
  PROVE  (CHOOSE v \in Models : loads[v] = LastLoad) \in Models
  <1>1. PICK v \in Versions : loads[v] = LastLoad /\ \A w \in Versions : loads[w] <= loads[v]
    BY LastLoadIs DEF Models
  <1>2. \A w \in Versions : loads[w] \in Nat
    BY MonitoringAssumption DEF Typed
  <1>3. v \in Models
    BY <1>1, <1>2 DEF Models
  <1> QED
    BY <1>1, <1>3

\* What a dashboard shows is a model on record, or none.
LEMMA RenderTyped ==
  ASSUME Typed, Stored, Queried, NEW s \in Sessions, Render(s)
  PROVE  session' \in [Sessions -> Scripts]
  <1> DEFINE rows == session[s].rows
  <1>1. rows \in Seq(Item) /\ Genuine(rows, table)
    BY DEF Typed, Scripts, Queried, Script
  <1>2. PICK model : Shown(s, model) /\ model \in Models \union {None}
    <2>1. Lookups(rows) \subseteq Models
      BY <1>1, LookupIs
    <2> QED
      BY <2>1 DEF Render
  <1>3. Models \subseteq Versions
    BY DEF Models
  <1>4. View(s, model) \in Views
    <2>1. View(s, model).due \in Versions \union {None}
      BY <1>3, DueIs DEF View
    <2> HIDE DEF rows
    <2> QED
      BY <1>1, <1>2, <1>3, <2>1 DEF View, Views, Raises, rows
  <1>5. [Idle EXCEPT !.view = View(s, model)] \in Scripts
    <2>1. 0 \in 0..Count
      BY MonitoringAssumption
    <2> DEFINE v == View(s, model)
    <2>2. [Idle EXCEPT !.view = v] =
            [pc |-> "idle", window |-> None, day |-> 0, key |-> 0, rows |-> <<>>,
             since |-> None, view |-> v]
      BY DEF Idle
    <2>3. v \in Views
      BY <1>4
    <2>4. <<>> \in Seq(Item) /\ v \in Views \union {None} /\ 0 \in Nat
      BY <2>3
    <2> HIDE DEF v
    <2>5. [Idle EXCEPT !.view = v] \in Scripts
      BY <2>1, <2>2, <2>4 DEF Scripts
    <2> QED
      BY <2>5 DEF v
  <1> QED
    BY <1>2, <1>5 DEF Shown, Typed

\* The steps of the traffic generator, which leave the sessions alone.
TrafficNext == DryRun \/ StartTraffic \/ Received \/ Refused \/ WriteAudit \/ Abandon

\* Feedback is appended to a stored success, by a report or an adjudication.
Revised(k) ==
  /\ Reportable(k)
  /\ table' = [table EXCEPT ![k].revision = @ + 1]
  /\ UNCHANGED <<server, index, loads>>

\* A step on the tables keeps the types.
LEMMA TablesTyped ==
  ASSUME Typed, Stored
  PROVE  /\ \A v \in Versions : LoadModel(v) => Typed'
         /\ \A k \in Requests, v \in Versions : Accept(k, v) => Typed'
         /\ \A k \in Requests : Serve(k) \/ Propagate(k) => Typed'
         /\ \A k \in Requests : Revised(k) => table' \in Indexes
  <1>1. ASSUME NEW v \in Versions, LoadModel(v)
        PROVE  Typed'
    <2>1. LastLoad + 1 \in 0..MaxLoads
      BY <1>1, LastLoadIs, MonitoringAssumption DEF LoadModel
    <2> QED
      BY <1>1, <2>1 DEF LoadModel, Typed
  <1>2. ASSUME NEW k \in Requests, NEW v \in Versions, Accept(k, v)
        PROVE  Typed'
    <2>1. Cardinality(Accepted) + 1 \in 0..Count
      BY <1>2, AcceptedSize, MonitoringAssumption DEF Accept, Stamps
    <2>2. [pc |-> "serving", stamp |-> Cardinality(Accepted) + 1, version |-> v] \in Serving
      BY <2>1 DEF Serving
    <2> QED
      BY <1>2, <2>2 DEF Accept, Typed
  <1>3. ASSUME NEW k \in Requests, Serve(k)
        PROVE  Typed'
    <2>1. server[k].stamp \in Stamps /\ server[k].version \in Versions
      BY <1>3, AcceptedSize, MonitoringAssumption DEF Serve, Stored, Stamps, Models
    <2>2. 0 \in 0..MaxReports /\ 0 \in 0..Count
      BY MonitoringAssumption
    <2>3. Event(k, "success") \in Item /\ Event(k, "inference_error") \in Item
      BY <2>1, <2>2 DEF Event, Item
    <2>4. \A outcome \in Outcomes(k) :
            outcome[1] \in Item \union {None} /\ outcome[2] \in {"200", "503"}
      BY <2>3 DEF Outcomes
    <2>5. PICK outcome \in Outcomes(k) :
            /\ table' = [table EXCEPT ![k] = outcome[1]]
            /\ server' = [server EXCEPT ![k] = [Unasked EXCEPT !.pc = outcome[2]]]
      BY <1>3 DEF Serve
    <2>6. [Unasked EXCEPT !.pc = outcome[2]] \in Serving
      BY <2>2, <2>4 DEF Unasked, Serving
    <2> QED
      BY <1>3, <2>4, <2>5, <2>6 DEF Serve, Typed, Indexes
  <1>4. ASSUME NEW k \in Requests, Propagate(k)
        PROVE  Typed'
    BY <1>4 DEF Propagate, Typed, Indexes
  <1>5. ASSUME NEW k \in Requests, Revised(k)
        PROVE  table' \in Indexes
    <2>1. table[k] \in Item /\ table[k].revision + 1 \in 0..MaxReports
      BY <1>5, MonitoringAssumption DEF Revised, Reportable, Typed, Indexes, Item
    <2>2. [table[k] EXCEPT !.revision = @ + 1] \in Item
      BY <2>1 DEF Item
    <2> QED
      BY <1>5, <2>2 DEF Revised, Typed, Indexes
  <1> QED
    BY <1>1, <1>2, <1>3, <1>4, <1>5

\* A step of the traffic generator keeps the types.
LEMMA TrafficTyped ==
  ASSUME Typed, Accounted, TrafficNext
  PROVE  Typed'
  <1>1. Count \in Nat \ {0} /\ Requests = 1..Count
    BY MonitoringAssumption DEF Requests
  <1>2. <<>> \in Seq(Requests) /\ Len(<<>>) = 0
    OBVIOUS
  <1>3. traffic.ids \in Seq(Requests) /\ traffic.failed \in Nat /\ Len(traffic.ids) \in Nat
    BY DEF Typed, Runs
  <1>4. ASSUME DryRun
        PROVE  Typed'
    BY <1>1, <1>2, <1>4 DEF DryRun, Summary, Typed, Audits, tableVars
  <1>5. ASSUME StartTraffic
        PROVE  Typed'
    <2>1. traffic \in Runs /\ 1 \in 0..Count
      BY <1>1 DEF Typed
    <2>2. traffic' \in Runs
      <3>1. traffic' = [traffic EXCEPT !.pc = "waiting", !.next = 1]
        BY <1>5 DEF StartTraffic
      <3> QED
        BY <2>1, <3>1 DEF Runs
    <2> QED
      BY <1>5, <2>2 DEF StartTraffic, Typed, tableVars
  <1>6. ASSUME Received
        PROVE  Typed'
    <2>1. Append(traffic.ids, traffic.next) \in Seq(Requests) /\ traffic.next \in Requests
      BY <1>3, <1>6 DEF Received, Accounted
    <2>2. traffic' \in Runs
      BY <1>1, <1>3, <1>6, <2>1 DEF Received, Proceed, Runs
    <2> QED
      BY <1>6, <2>2 DEF Received, Typed, tableVars
  <1>7. ASSUME Refused
        PROVE  Typed'
    <2>1. traffic.next \in Requests
      BY <1>7 DEF Refused, Accounted
    <2>2. traffic' \in Runs
      BY <1>1, <1>3, <1>7, <2>1 DEF Refused, Proceed, Runs
    <2> QED
      BY <1>7, <2>2 DEF Refused, Typed, tableVars
  <1>8. ASSUME WriteAudit
        PROVE  Typed'
    <2>1. Summary(Count, traffic.ids, traffic.failed) \in Audits
      BY <1>1, <1>3 DEF Summary, Audits
    <2>2. traffic' \in Runs
      <3>1. traffic' = [pc |-> "done", next |-> Count, ids |-> <<>>, failed |-> 0]
        BY <1>8 DEF WriteAudit, Quiet
      <3> QED
        BY <1>1, <1>2, <3>1 DEF Runs
    <2> QED
      BY <1>8, <2>1, <2>2 DEF WriteAudit, Typed, tableVars
  <1>9. ASSUME Abandon
        PROVE  Typed'
    BY <1>1, <1>2, <1>9 DEF Abandon, Quiet, Typed, Runs, tableVars
  <1> QED
    BY <1>4, <1>5, <1>6, <1>7, <1>8, <1>9 DEF TrafficNext

\* Every step keeps the types.
LEMMA TypedStep ==
  ASSUME Typed, Stored, Accounted, Queried, [Next]_vars
  PROVE  Typed'
  <1>1. CASE UNCHANGED vars
    BY <1>1 DEF vars, tableVars, Typed
  <1>2. ASSUME NEW k \in Requests, Report(k)
        PROVE  Typed'
    BY <1>2, TablesTyped DEF Report, Revised, Typed
  <1>3. ASSUME NEW w \in Windows, Expire(w)
        PROVE  Typed'
    BY <1>3 DEF Expire, Typed, tableVars
  <1>4. ASSUME NEW s \in Sessions, NEW w \in Windows, Open(s, w)
        PROVE  Typed'
    <2>1. w.first \in Nat /\ 0 \in 0..Count
      BY MonitoringAssumption
    <2>2. Querier(w) \in Scripts
      BY <2>1 DEF Querier, Typed, Scripts
    <2>3. cache[w] # None => Loaded(w, cache[w].rows, cache[w].since) \in Scripts
      BY <2>1 DEF Loaded, Idle, Typed, Scripts, Cached
    <2> QED
      BY <1>4, <2>2, <2>3 DEF Open, Typed, tableVars
  <1>5. ASSUME NEW s \in Sessions, ReadPage(s)
        PROVE  Typed'
    BY <1>5, PageTyped DEF ReadPage, Typed, tableVars
  <1>6. ASSUME NEW s \in Sessions, QueryFails(s)
        PROVE  Typed'
    BY <1>6, MonitoringAssumption DEF QueryFails, Idle, Typed, Scripts, tableVars
  <1>7. ASSUME NEW s \in Sessions, Render(s)
        PROVE  Typed'
    BY <1>7, RenderTyped DEF Render, Typed, tableVars
  <1>8. ASSUME NEW s \in Sessions, NEW k \in Requests, Adjudicate(s, k)
        PROVE  Typed'
    <2>1. Revised(k) /\ cache' \in [Windows -> Cached \union {None}]
      BY <1>8 DEF Adjudicate, Revised, Cleared, Typed
    <2> QED
      BY <1>8, <2>1, TablesTyped DEF Adjudicate, Typed
  <1> QED
    BY <1>1, <1>2, <1>3, <1>4, <1>5, <1>6, <1>7, <1>8, TablesTyped, TrafficTyped
    DEF Next, TrafficNext

-----------------------------------------------------------------------------
(* The table and the index *)

\* What is stored has not been taken back.
LEMMA NewerSelf ==
  ASSUME Typed
  PROVE  /\ \A k \in Requests : table[k] # None => Newer(table[k], table[k])
         /\ \A k \in Requests : index[k] # None => Newer(index[k], index[k])
  BY MonitoringAssumption DEF Typed, Indexes, Item, Newer

\* Stored, of one request and of two.
StoredOne(k) ==
  /\ server[k].pc = "serving" =>
       server[k].stamp \in 1..Cardinality(Accepted) /\ server[k].version \in Models
  /\ server[k].pc \in {"idle", "serving"} => table[k] = None
  /\ server[k].pc = "200" => table[k] # None /\ table[k].status = "success"
  /\ table[k] # None =>
       /\ table[k].request = k
       /\ table[k].stamp \in 1..Cardinality(Accepted)
       /\ table[k].version \in Models \union {None}
  /\ index[k] # None => table[k] # None /\ Newer(index[k], table[k])

StampsDiffer == \A k, j \in Requests : k # j /\ StampOf(k) = StampOf(j) => StampOf(k) = 0

LoadsDiffer == \A v, w \in Models : loads[v] = loads[w] => v = w

\* The invariant of the table, one request at a time.
LEMMA StoredIs == Stored <=> LoadsDiffer /\ StampsDiffer /\ \A k \in Requests : StoredOne(k)
  BY DEF Stored, LoadsDiffer, StampsDiffer, StoredOne

\* A load puts its model on record, after the others.
LEMMA LoadModelStores ==
  ASSUME Typed, Stored, NEW v \in Versions, LoadModel(v)
  PROVE  Stored' /\ Keeps
  <1>1. LastLoad \in Nat /\ \A w \in Versions : loads[w] \in Nat /\ loads[w] <= LastLoad
    BY LastLoadIs, MonitoringAssumption DEF Typed
  <1>2. loads' = [loads EXCEPT ![v] = LastLoad + 1] /\ UNCHANGED <<server, table, index>>
    BY DEF LoadModel
  <1>3. \A w \in Versions : loads'[w] = IF w = v THEN LastLoad + 1 ELSE loads[w]
    BY <1>2 DEF Typed
  <1>4. Models \subseteq Models' /\ Models' \subseteq Versions
    BY <1>1, <1>3 DEF Models
  <1>5. LoadsDiffer'
    BY <1>1, <1>3, StoredIs DEF Models, LoadsDiffer
  <1>6. StampsDiffer'
    BY <1>2, StoredIs DEF StampsDiffer, StampOf
  <1>7. ASSUME NEW k \in Requests
        PROVE  StoredOne(k)'
    BY <1>2, <1>4, StoredIs DEF StoredOne, Newer, Accepted
  <1>8. Stored'
    BY <1>5, <1>6, <1>7, StoredIs DEF Stored, LoadsDiffer, StampsDiffer, StoredOne
  <1> QED
    BY <1>2, <1>4, <1>8, NewerSelf DEF Keeps

\* An accepted request gets a stamp no other has.
LEMMA AcceptStores ==
  ASSUME Typed, Stored, NEW k \in Requests, NEW v \in Versions, Accept(k, v)
  PROVE  Stored' /\ Keeps
  <1> DEFINE n == Cardinality(Accepted)
  <1>1. n \in Nat /\ IsFiniteSet(Accepted) /\ k \notin Accepted
    BY AcceptedSize DEF Accept, Accepted
  <1>2. /\ server' = [server EXCEPT ![k] = [pc |-> "serving", stamp |-> n + 1, version |-> v]]
        /\ UNCHANGED <<table, index, loads>>
        /\ v \in Models /\ server[k].pc = "idle"
    BY DEF Accept, Serves, Models
  <1>3. \A j \in Requests : server'[j] = IF j = k THEN [pc |-> "serving", stamp |-> n + 1, version |-> v]
                                         ELSE server[j]
    BY <1>2 DEF Typed
  <1>4. Cardinality(Accepted') = n + 1
    <2> HIDE DEF n
    <2>0. \A j \in Requests : server'[j].pc # "idle" <=> server[j].pc # "idle" \/ j = k
      BY <1>3
    <2>1. Accepted' = Accepted \union {k}
      BY <2>0 DEF Accepted
    <2> USE DEF n
    <2> QED
      BY <1>1, <2>1, FS_AddElement
  <1>5. Models' = Models /\ LoadsDiffer'
    BY <1>2, StoredIs DEF Models, LoadsDiffer
  <1> HIDE DEF n
  <1>6. \A j \in Requests : StoredOne(j)
    BY StoredIs
  <1>7. ASSUME NEW j \in Requests
        PROVE  StoredOne(j)'
    <2>1. Cardinality(Accepted)' = n + 1 /\ Cardinality(Accepted) = n
      BY <1>4 DEF n
    <2>2. CASE j = k
      <3>1. table'[k] = None /\ index'[k] = None
        BY <1>2, <1>6 DEF StoredOne
      <3> QED
        BY <1>1, <1>2, <1>3, <1>5, <2>1, <2>2, <3>1 DEF StoredOne
    <2>3. CASE j # k
      <3>1. server'[j] = server[j] /\ table'[j] = table[j] /\ index'[j] = index[j]
        BY <1>2, <1>3, <2>3
      <3>2. 1..n \subseteq 1..(n + 1)
        BY <1>1
      <3> QED
        BY <1>5, <1>6, <2>1, <3>1, <3>2 DEF StoredOne, Newer
    <2> QED
      BY <2>2, <2>3
  <1>8. StampsDiffer'
    <2>1. \A j \in Requests : j # k => StampOf(j)' = StampOf(j) /\ StampOf(j) # n + 1
      <3>1. \A j \in Requests : j # k => StampOf(j)' = StampOf(j)
        BY <1>2, <1>3 DEF StampOf
      <3>2. \A j \in Requests : StampOf(j) \in 0..n
        BY <1>1, <1>6 DEF StampOf, StoredOne, n
      <3> QED
        BY <1>1, <3>1, <3>2
    <2>2. StampOf(k)' = n + 1
      BY <1>3 DEF StampOf
    <2> QED
      BY <2>1, <2>2, StoredIs DEF StampsDiffer
  <1>9. Stored'
    BY <1>5, <1>7, <1>8 DEF Stored, LoadsDiffer, StampsDiffer, StoredOne
  <1> QED
    BY <1>2, <1>3, <1>5, <1>9, NewerSelf DEF Keeps

\* A served request leaves its row, under its stamp and version.
LEMMA ServeStores ==
  ASSUME Typed, Stored, NEW k \in Requests, Serve(k)
  PROVE  Stored' /\ Keeps
  <1>1. PICK outcome \in Outcomes(k) :
          /\ table' = [table EXCEPT ![k] = outcome[1]]
          /\ server' = [server EXCEPT ![k] = [Unasked EXCEPT !.pc = outcome[2]]]
    BY DEF Serve
  <1>2. server[k].pc = "serving" /\ UNCHANGED <<index, loads>>
    BY DEF Serve
  <1>3. \A j \in Requests : StoredOne(j)
    BY StoredIs
  <1>4. /\ server[k].stamp \in 1..Cardinality(Accepted) /\ server[k].version \in Models
        /\ table[k] = None /\ index[k] = None
    BY <1>2, <1>3 DEF StoredOne
  <1>5. /\ outcome[2] \in {"200", "503"}
        /\ outcome[1] # None =>
             /\ outcome[1].request = k /\ outcome[1].stamp = server[k].stamp
             /\ outcome[1].version \in Models \union {None}
        /\ outcome[2] = "200" => outcome[1] # None /\ outcome[1].status = "success"
    <2>1. outcome \in Outcomes(k)
      OBVIOUS
    <2>2. Event(k, "success") \in Item
      <3>1. server[k].stamp \in Stamps /\ server[k].version \in Versions /\ 0 \in 0..MaxReports
        BY SMTT(30), <1>4, AcceptedSize, MonitoringAssumption DEF Stamps, Models
      <3> QED
        BY <3>1 DEF Event, Item
    <2>3. Event(k, "success") # None
      BY <2>2, MonitoringAssumption
    <2> QED
      BY <1>4, <2>1, <2>3 DEF Outcomes, Event
  <1>6. /\ table'[k] = outcome[1] /\ server'[k].pc = outcome[2]
        /\ \A j \in Requests : j # k => table'[j] = table[j] /\ server'[j] = server[j]
    <2>1. server'[k] = [Unasked EXCEPT !.pc = outcome[2]] /\ table'[k] = outcome[1]
      BY <1>1 DEF Typed, Indexes
    <2>2. \A j \in Requests : j # k => table'[j] = table[j] /\ server'[j] = server[j]
      BY <1>1 DEF Typed, Indexes
    <2>3. [Unasked EXCEPT !.pc = outcome[2]].pc = outcome[2]
      BY DEF Unasked
    <2> QED
      BY <2>1, <2>2, <2>3
  <1>7. Accepted' = Accepted
    <2>1. \A j \in Requests : server'[j].pc # "idle" <=> server[j].pc # "idle"
      BY <1>2, <1>5, <1>6
    <2> QED
      BY <2>1 DEF Accepted
  <1>8. Models' = Models /\ LoadsDiffer'
    BY <1>2, StoredIs DEF Models, LoadsDiffer
  <1>9. ASSUME NEW j \in Requests
        PROVE  StoredOne(j)'
    <2>1. CASE j = k
      BY <1>2, <1>4, <1>5, <1>6, <1>7, <1>8, <2>1 DEF StoredOne
    <2>2. CASE j # k
      <3>1. server'[j] = server[j] /\ table'[j] = table[j] /\ index'[j] = index[j]
        BY <1>2, <1>6, <2>2
      <3> QED
        BY <1>3, <1>7, <1>8, <3>1 DEF StoredOne, Newer
    <2> QED
      BY <2>1, <2>2
  <1>10. StampsDiffer'
    <2>1. \A j \in Requests : j # k => StampOf(j)' = StampOf(j)
      BY <1>6 DEF StampOf
    <2>2. StampOf(k)' \in {0, StampOf(k)}
      BY <1>2, <1>5, <1>6 DEF StampOf
    <2> QED
      BY <2>1, <2>2, StoredIs DEF StampsDiffer
  <1>11. Stored'
    BY <1>8, <1>9, <1>10 DEF Stored, LoadsDiffer, StampsDiffer, StoredOne
  <1> QED
    BY <1>2, <1>4, <1>6, <1>8, <1>11, NewerSelf DEF Keeps

\* The index catches up with a row that exists.
LEMMA PropagateStores ==
  ASSUME Typed, Stored, NEW k \in Requests, Propagate(k)
  PROVE  Stored' /\ Keeps
  <1>1. index' = [index EXCEPT ![k] = table[k]] /\ UNCHANGED <<server, table, loads>>
    BY DEF Propagate
  <1>2. \A j \in Requests : index'[j] = IF j = k THEN table[k] ELSE index[j]
    BY <1>1 DEF Typed, Indexes
  <1>3. Models' = Models /\ LoadsDiffer' /\ StampsDiffer' /\ Accepted' = Accepted
    BY <1>1, StoredIs DEF Models, LoadsDiffer, StampsDiffer, StampOf, Accepted
  <1>4. \A j \in Requests : StoredOne(j)
    BY StoredIs
  <1>5. ASSUME NEW j \in Requests
        PROVE  StoredOne(j)'
    <2>1. index'[j] # None => table[j] # None /\ Newer(index'[j], table[j])
      BY <1>2, <1>4, NewerSelf DEF StoredOne
    <2> QED
      BY <1>1, <1>3, <1>4, <2>1 DEF StoredOne, Newer
  <1>6. Stored'
    BY <1>3, <1>5 DEF Stored, LoadsDiffer, StampsDiffer, StoredOne
  <1> QED
    BY <1>1, <1>2, <1>3, <1>4, <1>6, NewerSelf DEF Keeps, StoredOne

\* A late label or an expiry revises a row and moves none.
LEMMA RevisedStores ==
  ASSUME Typed, Stored, NEW k \in Requests, Revised(k)
  PROVE  Stored' /\ Keeps
  <1>1. /\ table' = [table EXCEPT ![k].revision = @ + 1] /\ UNCHANGED <<server, index, loads>>
        /\ table[k] # None
    BY DEF Revised, Reportable
  <1>2. \A j \in Requests : j # k => table'[j] = table[j]
    BY <1>1 DEF Typed, Indexes
  <1>3. table[k] \in Item /\ table[k].revision \in Nat
    BY <1>1, MonitoringAssumption DEF Typed, Indexes, Item
  <1>4. /\ table'[k] = [table[k] EXCEPT !.revision = @ + 1] /\ table'[k] \in Item
        /\ Newer(table[k], table'[k]) /\ table'[k] # None
    <2>1. table'[k] = [table[k] EXCEPT !.revision = @ + 1]
      BY <1>1 DEF Typed, Indexes
    <2>2. table' \in Indexes
      BY TablesTyped
    <2>3. Newer(table[k], table'[k])
      BY <1>3, <2>1 DEF Newer, Item
    <2>4. table'[k] # None
      <3>1. table'[k].request = table[k].request /\ table'[k].stamp = table[k].stamp
        BY <2>3 DEF Newer
      <3>2. [table[k] EXCEPT !.revision = @ + 1] \in Item
        <4>1. table[k].revision + 1 \in 0..MaxReports
          BY <1>3, MonitoringAssumption DEF Revised, Reportable
        <4> QED
          BY <1>3, <4>1 DEF Item
      <3> QED
        BY <2>1, <3>2, MonitoringAssumption
    <2> QED
      BY <2>1, <2>2, <2>3, <2>4 DEF Indexes
  <1>5. Models' = Models /\ LoadsDiffer' /\ Accepted' = Accepted
    BY <1>1, StoredIs DEF Models, LoadsDiffer, Accepted
  <1>6. \A j \in Requests : StoredOne(j)
    BY StoredIs
  <1>7. ASSUME NEW j \in Requests
        PROVE  StoredOne(j)'
    <2>1. CASE j = k
      <3>1. index[k] # None => Newer(index[k], table'[k])
        <4>1. index[k] # None => index[k].revision \in Nat
          BY MonitoringAssumption DEF Typed, Indexes, Item
        <4>2. table'[k].revision \in Nat
          BY <1>4, MonitoringAssumption DEF Item
        <4> QED
          BY <1>3, <1>4, <1>6, <4>1, <4>2 DEF StoredOne, Newer
      <3>2. /\ table'[k].request = table[k].request /\ table'[k].stamp = table[k].stamp
            /\ table'[k].status = table[k].status /\ table'[k].version = table[k].version
        BY <1>4 DEF Newer
      <3> QED
        BY <1>1, <1>4, <1>5, <1>6, <2>1, <3>1, <3>2 DEF StoredOne
    <2>2. CASE j # k
      <3>1. server'[j] = server[j] /\ table'[j] = table[j] /\ index'[j] = index[j]
        BY <1>1, <1>2, <2>2
      <3> QED
        BY <1>5, <1>6, <3>1 DEF StoredOne, Newer
    <2> QED
      BY <2>1, <2>2
  <1>8. StampsDiffer'
    <2>1. \A j \in Requests : StampOf(j)' = StampOf(j)
      BY <1>1, <1>2, <1>4 DEF StampOf, Newer
    <2> QED
      BY <2>1, StoredIs DEF StampsDiffer
  <1>9. Stored'
    BY <1>5, <1>7, <1>8 DEF Stored, LoadsDiffer, StampsDiffer, StoredOne
  <1> QED
    BY <1>1, <1>2, <1>4, <1>5, <1>9, NewerSelf DEF Keeps

\* No step takes back what is stored, answered, indexed or on record.
LEMMA StoredStep ==
  ASSUME Typed, Stored, [Next]_vars
  PROVE  Stored' /\ Keeps
  <1>1. CASE UNCHANGED tableVars
    <2>1. UNCHANGED <<server, table, index, loads>>
      BY <1>1 DEF tableVars
    <2>2. Stored'
      BY ZenonT(60), <2>1 DEF Stored, Models, Accepted, StampOf, Newer
    <2> QED
      BY <2>1, <2>2, NewerSelf DEF Keeps, Models
  <1>2. ASSUME NEW k \in Requests, Report(k)
        PROVE  Stored' /\ Keeps
    BY <1>2, RevisedStores DEF Report, Revised
  <1>3. ASSUME NEW s \in Sessions, NEW k \in Requests, Adjudicate(s, k)
        PROVE  Stored' /\ Keeps
    BY <1>3, RevisedStores DEF Adjudicate, Revised
  <1>4. CASE UNCHANGED vars
    BY <1>1, <1>4 DEF vars, tableVars
  <1> QED
    BY <1>1, <1>2, <1>3, <1>4, LoadModelStores, AcceptStores, ServeStores, PropagateStores
    DEF Next, DryRun, StartTraffic, Received, Refused, WriteAudit, Abandon, Expire, Open, ReadPage,
        QueryFails, Render

-----------------------------------------------------------------------------
(* The traffic run and its audit *)

\* The identifiers a run holds name so many requests.
LEMMA NamedIs ==
  ASSUME NEW ids \in Seq(Requests)
  PROVE  Named(ids) \subseteq Requests /\ IsFiniteSet(Named(ids))
  <1>1. Named(ids) \subseteq Requests
    BY DEF Named
  <1>2. IsFiniteSet(Requests)
    BY FS_Interval, MonitoringAssumption DEF Requests
  <1> QED
    BY <1>1, <1>2, FS_Subset

\* An answer given stays given.
LEMMA StillAnswered ==
  ASSUME Keeps, NEW ids \in Seq(Requests), Answered(ids, server)
  PROVE  Answered(ids, server')
  BY NamedIs DEF Keeps, Answered

\* One more identifier.
LEMMA OneMore ==
  ASSUME NEW ids \in Seq(Requests), NEW servers, Answered(ids, servers),
         NEW k \in Requests, servers[k].pc = "200", k \notin Named(ids)
  PROVE  /\ Answered(Append(ids, k), servers) /\ Len(Append(ids, k)) = Len(ids) + 1
         /\ Named(Append(ids, k)) = Named(ids) \union {k}
  <1> DEFINE more == Append(ids, k)
  <1>1. Len(more) = Len(ids) + 1 /\ Len(ids) \in Nat
    BY DEF more
  <1>2. Named(more) = Named(ids) \union {k}
    <2>1. DOMAIN more = 1..(Len(ids) + 1) /\ DOMAIN ids = 1..Len(ids)
      BY <1>1
    <2>2. \A i \in 1..Len(ids) : more[i] = ids[i]
      OBVIOUS
    <2>3. more[Len(ids) + 1] = k
      OBVIOUS
    <2>4. 1..(Len(ids) + 1) = (1..Len(ids)) \union {Len(ids) + 1}
      BY <1>1
    <2> HIDE DEF more
    <2>5. \A x \in Named(more) : x \in Named(ids) \/ x = k
      BY <2>1, <2>2, <2>3, <2>4 DEF Named
    <2>6. \A x \in Named(ids) : x \in Named(more)
      BY <2>1, <2>2, <2>4 DEF Named
    <2>7. k \in Named(more)
      BY <2>1, <2>3, <2>4 DEF Named
    <2> QED
      BY <2>5, <2>6, <2>7
  <1>3. Cardinality(Named(more)) = Len(more)
    BY ZenonT(60), <1>1, <1>2, NamedIs, FS_AddElement DEF Answered
  <1> QED
    BY <1>1, <1>2, <1>3 DEF Answered

\* Every step keeps the counts of the run true to its requests.
LEMMA AccountedStep ==
  ASSUME Typed, Typed', Accounted, Keeps, [Next]_vars
  PROVE  Accounted'
  <1>1. traffic.ids \in Seq(Requests) /\ traffic.failed \in Nat /\ Len(traffic.ids) \in Nat
    BY DEF Typed, Runs
  <1>2. audit # None => audit.ids \in Seq(Requests)
    BY DEF Typed, Audits
  <1>3. Count \in Nat \ {0} /\ Requests = 1..Count
    BY MonitoringAssumption DEF Requests
  <1>4. Answered(traffic.ids, server) => Answered(traffic.ids, server')
    BY <1>1, StillAnswered
  <1>5. audit # None /\ Answered(audit.ids, server) => Answered(audit.ids, server')
    BY <1>2, StillAnswered
  <1>6. CASE UNCHANGED <<traffic, audit>>
    BY <1>4, <1>5, <1>6 DEF Accounted
  <1>7. CASE DryRun
    BY <1>3, <1>4, <1>7 DEF DryRun, Summary, Accounted
  <1>8. CASE StartTraffic
    <2>1. Answered(<<>>, server') /\ Len(<<>>) = 0 /\ Named(<<>>) = {}
      BY FS_EmptySet DEF Answered, Named
    <2>2. traffic.pc = "idle" /\ traffic' = [traffic EXCEPT !.pc = "waiting", !.next = 1] /\ audit' = audit
      BY <1>8 DEF StartTraffic
    <2>3. traffic'.pc = "waiting" /\ traffic'.next = 1 /\ traffic'.ids = <<>> /\ traffic'.failed = 0
      BY <2>2 DEF Typed, Runs, Accounted
    <2> QED
      BY <1>3, <1>5, <2>1, <2>2, <2>3 DEF Accounted
  <1>9. ASSUME traffic.pc = "waiting", NEW ids \in Seq(Requests), NEW failed \in Nat,
               Proceed(ids, failed), audit' = audit, Len(ids) + failed = traffic.next,
               Named(ids) \subseteq 1..traffic.next, Answered(ids, server')
        PROVE  Accounted'
    <2>1. traffic.next \in Requests
      BY <1>9 DEF Accounted
    <2>2. CASE traffic.next < Count
      <3>1. traffic' = [pc |-> "waiting", next |-> traffic.next + 1, ids |-> ids, failed |-> failed]
        BY <1>9, <2>2 DEF Proceed
      <3>2. traffic.next + 1 \in Requests /\ (traffic.next + 1) - 1 = traffic.next
        BY <1>3, <2>1, <2>2
      <3> QED
        BY <1>5, <1>9, <3>1, <3>2 DEF Accounted
    <2>3. CASE ~(traffic.next < Count)
      <3>1. traffic' = [pc |-> "audit", next |-> traffic.next, ids |-> ids, failed |-> failed]
        BY <1>9, <2>3 DEF Proceed
      <3>2. traffic.next = Count
        BY <1>3, <2>1, <2>3
      <3> QED
        BY <1>5, <1>9, <3>1, <3>2 DEF Accounted
    <2> QED
      BY <2>2, <2>3
  <1>10. ASSUME traffic.pc = "waiting"
         PROVE  /\ traffic.next \in Requests /\ Answered(traffic.ids, server')
                /\ Len(traffic.ids) + traffic.failed = traffic.next - 1
                /\ Named(traffic.ids) \subseteq 1..(traffic.next - 1)
                /\ Named(traffic.ids) \subseteq 1..traffic.next
    <2>1. /\ traffic.next \in Requests /\ Answered(traffic.ids, server')
          /\ Len(traffic.ids) + traffic.failed = traffic.next - 1
          /\ Named(traffic.ids) \subseteq 1..(traffic.next - 1)
      BY <1>4, <1>10 DEF Accounted
    <2>2. 1..(traffic.next - 1) \subseteq 1..traffic.next
      BY <1>3, <2>1
    <2> QED
      BY <2>1, <2>2
  <1>11. CASE Received
    <2> DEFINE k == traffic.next
    <2>1. /\ traffic.pc = "waiting" /\ server[k].pc = "200" /\ audit' = audit /\ server' = server
          /\ Proceed(Append(traffic.ids, k), traffic.failed)
      BY <1>11 DEF Received, tableVars
    <2>2. k \in Requests /\ k \notin 1..(k - 1)
      BY <1>3, <1>10, <2>1
    <2>3. k \notin Named(traffic.ids)
      BY <1>10, <2>1, <2>2
    <2>4. /\ Answered(Append(traffic.ids, k), server')
          /\ Len(Append(traffic.ids, k)) = Len(traffic.ids) + 1
          /\ Named(Append(traffic.ids, k)) = Named(traffic.ids) \union {k}
      BY <1>1, <1>10, <2>1, <2>2, <2>3, OneMore
    <2>5. /\ Append(traffic.ids, k) \in Seq(Requests)
          /\ Len(Append(traffic.ids, k)) + traffic.failed = k
          /\ Named(Append(traffic.ids, k)) \subseteq 1..k
      <3>1. k \in 1..k /\ k \in Nat
        BY <1>3, <2>2
      <3> QED
        BY <1>1, <1>10, <2>1, <2>2, <2>4, <3>1
    <2> QED
      BY <1>1, <1>9, <2>1, <2>4, <2>5
  <1>12. CASE Refused
    <2>1. traffic.pc = "waiting" /\ audit' = audit /\ Proceed(traffic.ids, traffic.failed + 1)
      BY <1>12 DEF Refused
    <2>2. Len(traffic.ids) + (traffic.failed + 1) = traffic.next /\ traffic.failed + 1 \in Nat
      <3> DEFINE given == Len(traffic.ids)
                 failed == traffic.failed
                 next == traffic.next
      <3>1. given \in Nat /\ failed \in Nat
        BY <1>1
      <3>2. next \in Nat
        BY <1>3, <1>10, <2>1
      <3>3. given + failed = next - 1
        BY <1>10, <2>1
      <3> HIDE DEF given, failed, next
      <3>4. given + (failed + 1) = next /\ failed + 1 \in Nat
        BY <3>1, <3>2, <3>3, SMT
      <3> QED
        BY <3>4 DEF given, failed, next
    <2> QED
      BY <1>1, <1>9, <1>10, <2>1, <2>2
  <1>13. CASE WriteAudit
    <2>1. /\ traffic.pc = "audit" /\ audit' = Summary(Count, traffic.ids, traffic.failed)
          /\ traffic'.pc = "done"
      BY <1>13 DEF WriteAudit, Quiet
    <2>2. Len(traffic.ids) + traffic.failed = Count /\ Answered(traffic.ids, server')
      BY <1>4, <2>1 DEF Accounted
    <2> QED
      BY <2>1, <2>2 DEF Summary, Accounted
  <1>14. CASE Abandon
    <2>1. traffic'.pc = "done" /\ audit' = audit
      BY <1>14 DEF Abandon, Quiet
    <2> QED
      BY <1>5, <2>1 DEF Accounted
  <1> QED
    BY <1>6, <1>7, <1>8, <1>11, <1>12, <1>13, <1>14
    DEF Next, vars, LoadModel, Accept, Serve, Propagate, Report, Expire, Open, ReadPage, QueryFails,
        Render, Adjudicate

-----------------------------------------------------------------------------
(* The queries *)

\* Rows that were read stay genuine.
LEMMA KeepGenuine ==
  ASSUME Typed, Typed', Keeps, NEW rows \in Seq(Item), Genuine(rows, table)
  PROVE  Genuine(rows, table')
  <1> SUFFICES ASSUME NEW i \in DOMAIN rows
               PROVE  /\ table'[rows[i].request] # None
                      /\ Newer(rows[i], table'[rows[i].request])
    BY DEF Genuine
  <1> DEFINE k == rows[i].request
  <1>1. rows[i] \in Item
    OBVIOUS
  <1>2. k \in Requests /\ table[k] # None /\ Newer(rows[i], table[k])
    BY <1>1 DEF Item, Genuine
  <1>3. table'[k] # None /\ Newer(table[k], table'[k])
    BY <1>2 DEF Keeps
  <1>4. rows[i].revision \in Int /\ table[k].revision \in Int /\ table'[k].revision \in Int
    <2>1. table[k] \in Item /\ table'[k] \in Item
      BY <1>2, <1>3 DEF Typed, Indexes
    <2>2. 0..MaxReports \subseteq Int
      BY MonitoringAssumption
    <2> QED
      BY <1>1, <2>1, <2>2 DEF Item
  <1> QED
    BY <1>2, <1>3, <1>4 DEF Newer

\* What the index held when a query began, it still holds.
LEMMA KeepSince ==
  ASSUME Typed, Typed', Keeps, NEW since \in Indexes, Since(since, index)
  PROVE  Since(since, index')
  <1> SUFFICES ASSUME NEW k \in Requests, since[k] # None
               PROVE  index'[k] # None /\ Newer(since[k], index'[k])
    BY DEF Since
  <1>1. index[k] # None /\ Newer(since[k], index[k])
    BY DEF Since
  <1>2. index'[k] # None /\ Newer(index[k], index'[k])
    BY <1>1 DEF Keeps
  <1>3. since[k].revision \in Int /\ index[k].revision \in Int /\ index'[k].revision \in Int
    BY <1>1, <1>2, MonitoringAssumption DEF Typed, Indexes, Item
  <1> QED
    BY <1>1, <1>2, <1>3 DEF Newer

\* What others do meanwhile takes nothing from a script run.
LEMMA KeepScript ==
  ASSUME Typed, Typed', Keeps, NEW q \in Scripts, Script(q, table, index)
  PROVE  Script(q, table', index')
  <1>1. q.rows \in Seq(Item) /\ (q.view # None => q.view.rows \in Seq(Item))
    BY DEF Scripts, Views
  <1>2. Genuine(q.rows, table') /\ (q.view # None => Genuine(q.view.rows, table'))
    BY <1>1, KeepGenuine DEF Script
  <1>3. q.pc = "query" => Since(q.since, index')
    BY KeepSince DEF Script
  <1> QED
    BY <1>2, <1>3 DEF Script

\* A page more: the query has been through more of its window, and has all of that.
LEMMA PageStep ==
  ASSUME Typed, Stored, NEW q \in Scripts, q.pc = "query", Script(q, table, index)
  PROVE  LET page == Page(q.day, q.key)
             rows == q.rows \o page IN
         /\ Genuine(rows, table)
         /\ HasMore(page) => Partial([q EXCEPT !.rows = rows, !.key = Last(page).stamp])
         /\ ~HasMore(page) /\ q.day < q.window.last =>
              Partial([q EXCEPT !.rows = rows, !.key = 0, !.day = @ + 1])
         /\ ~HasMore(page) /\ q.day = q.window.last => Whole(q.window, rows, q.since)
  <1> DEFINE page == Page(q.day, q.key)
             rows == q.rows \o page
             n == Len(q.rows)
  <1>1. /\ q.window \in Windows /\ q.day \in q.window.first..q.window.last
        /\ q.window.first \in Nat /\ q.window.last \in Nat /\ q.day \in Nat /\ q.key \in Nat
        /\ q.since \in Indexes /\ q.rows \in Seq(Item) /\ n \in Nat
    BY MonitoringAssumption DEF Script, Partial, Scripts
  <1>2. /\ Since(q.since, index) /\ Genuine(q.rows, table) /\ Ordered(q.rows)
        /\ Inside(q.window, q.rows)
        /\ \A i \in DOMAIN q.rows : Behind(q.rows[i].stamp, q)
        /\ \A k \in Within(q.window, q.since) :
             Behind(q.since[k].stamp, q) => Holds(q.rows, k, q.since)
    BY DEF Script, Partial
  <1>3. /\ page \in Seq(Item) /\ Ordered(page) /\ Genuine(page, table)
        /\ \A i \in DOMAIN page : Day[page[i].stamp] = q.day /\ page[i].stamp > q.key
        /\ HasMore(page) =>
             /\ Len(page) \in 1..Len(page)
             /\ \A k \in Requests :
                  Ahead(k, q.day, q.key) /\ index[k].stamp <= Last(page).stamp =>
                    \E i \in DOMAIN page : page[i] = index[k]
        /\ ~HasMore(page) =>
             \A k \in Requests :
               Ahead(k, q.day, q.key) => \E i \in DOMAIN page : page[i] = index[k]
    BY <1>1, PageIs
  <1> HIDE DEF page
  <1>4. /\ rows \in Seq(Item) /\ DOMAIN rows = 1..(n + Len(page)) /\ Len(page) \in Nat
        /\ DOMAIN q.rows = 1..n /\ DOMAIN page = 1..Len(page)
        /\ \A i \in 1..n : rows[i] = q.rows[i]
        /\ \A i \in 1..Len(page) : rows[n + i] = page[i]
        /\ \A i \in 1..(n + Len(page)) : i \in 1..n \/ (i - n \in 1..Len(page) /\ n + (i - n) = i)
    BY <1>1, <1>3
  <1> HIDE DEF rows, n
  <1>5. \A i \in DOMAIN rows : \/ i \in DOMAIN q.rows /\ rows[i] = q.rows[i]
                               \/ i - n \in DOMAIN page /\ rows[i] = page[i - n]
    BY <1>4
  <1>6. /\ \A i \in DOMAIN q.rows : i \in DOMAIN rows
        /\ \A i \in DOMAIN page : n + i \in DOMAIN rows
    BY <1>1, <1>4
  <1>7. \A r \in Item : r.stamp \in Stamps /\ r.stamp \in Nat /\ r.stamp > 0 /\ Day[r.stamp] \in Nat
    BY MonitoringAssumption DEF Item, Stamps
  <1>8. Genuine(rows, table)
    BY <1>2, <1>3, <1>5 DEF Genuine
  <1>9. Inside(q.window, rows)
    BY <1>1, <1>2, <1>3, <1>5 DEF Inside
  <1>10. Ordered(rows)
    <2> SUFFICES ASSUME NEW i \in DOMAIN rows, NEW j \in DOMAIN rows, i < j
                 PROVE  rows[i].stamp < rows[j].stamp
      BY DEF Ordered
    <2>1. i \in Int /\ j \in Int /\ n \in Int
      BY <1>1, <1>4
    <2>2. CASE j \in DOMAIN q.rows
      <3>1. i \in DOMAIN q.rows
        BY <1>1, <1>4, <2>2
      <3> QED
        BY <1>2, <1>4, <2>2, <3>1 DEF Ordered
    <2>3. CASE j \notin DOMAIN q.rows /\ i \in DOMAIN q.rows
      <3>1. j - n \in DOMAIN page /\ rows[j] = page[j - n] /\ rows[i] = q.rows[i]
        BY <1>4, <1>5, <2>3
      <3>2. Behind(q.rows[i].stamp, q) /\ Day[page[j - n].stamp] = q.day /\ page[j - n].stamp > q.key
        BY <1>2, <1>3, <2>3, <3>1
      <3>3. q.rows[i] \in Item /\ page[j - n] \in Item
        BY <1>1, <1>3, <2>3, <3>1
      <3>4. page[j - n].stamp <= q.rows[i].stamp => Day[page[j - n].stamp] <= Day[q.rows[i].stamp]
        BY <1>7, <3>3, MonitoringAssumption
      <3> QED
        BY SMTT(30), <1>1, <1>7, <3>1, <3>2, <3>3, <3>4 DEF Behind
    <2>4. CASE j \notin DOMAIN q.rows /\ i \notin DOMAIN q.rows
      <3>1. j - n \in DOMAIN page /\ i - n \in DOMAIN page /\ i - n < j - n
            /\ rows[j] = page[j - n] /\ rows[i] = page[i - n]
        BY <1>5, <2>1, <2>4
      <3> QED
        BY <1>3, <3>1 DEF Ordered
    <2> QED
      BY <2>2, <2>3, <2>4
  <1>11. ASSUME NEW k \in Within(q.window, q.since), Behind(q.since[k].stamp, q)
         PROVE  Holds(rows, k, q.since)
    <2>1. PICK i \in DOMAIN q.rows : q.rows[i].request = k /\ q.rows[i].revision >= q.since[k].revision
      BY <1>2, <1>11 DEF Holds
    <2> QED
      BY <1>4, <1>6, <2>1 DEF Holds
  <1>12. ASSUME NEW k \in Within(q.window, q.since), Day[q.since[k].stamp] = q.day,
                q.since[k].stamp > q.key,
                HasMore(page) => q.since[k].stamp <= Last(page).stamp
         PROVE  Holds(rows, k, q.since)
    <2>1. k \in Requests /\ index[k] # None /\ Newer(q.since[k], index[k])
      BY <1>2 DEF Within, Since
    <2>2. Ahead(k, q.day, q.key) /\ (HasMore(page) => index[k].stamp <= Last(page).stamp)
      BY <1>12, <2>1 DEF Newer, Ahead
    <2>3. PICK i \in DOMAIN page : page[i] = index[k]
      BY <1>3, <2>1, <2>2
    <2>4. n + i \in DOMAIN rows /\ rows[n + i] = index[k]
      BY <1>4, <1>6, <2>3
    <2>5. index[k].request = k /\ index[k].revision >= q.since[k].revision
      <3>1. index[k] \in Item /\ q.since[k] \in Item
        BY <1>1, <2>1 DEF Typed, Indexes, Within
      <3>2. index[k].revision \in Int /\ q.since[k].revision \in Int
        BY <3>1, MonitoringAssumption DEF Item
      <3>3. index[k].request = k
        BY <2>1 DEF Stored, Newer
      <3> QED
        BY <2>1, <3>2, <3>3 DEF Newer
    <2> QED
      BY <2>4, <2>5 DEF Holds
  <1>13. \A k \in Within(q.window, q.since) :
           /\ q.since[k] \in Item
           /\ Day[q.since[k].stamp] \in Nat /\ Day[q.since[k].stamp] <= q.window.last
           /\ q.since[k].stamp \in Nat /\ q.since[k].stamp > 0
    <2> SUFFICES ASSUME NEW k \in Within(q.window, q.since)
                 PROVE  q.since[k] \in Item /\ Day[q.since[k].stamp] <= q.window.last
      BY <1>7
    <2> QED
      BY <1>1 DEF Within, Indexes
  <1>14. ASSUME HasMore(page)
         PROVE  Partial([q EXCEPT !.rows = rows, !.key = Last(page).stamp])
    <2> DEFINE last == Last(page).stamp
               p == [q EXCEPT !.rows = rows, !.key = last]
    <2>1. /\ p.window = q.window /\ p.day = q.day /\ p.since = q.since
          /\ p.rows = rows /\ p.key = last
      BY DEF Scripts
    <2>2. Len(page) \in DOMAIN page /\ last = page[Len(page)].stamp
      BY <1>3, <1>4, <1>14 DEF Last
    <2>3. last \in Nat /\ last > q.key
      BY <1>3, <1>7, <2>2
    <2>4. \A i \in DOMAIN page : page[i].stamp \in Nat /\ page[i].stamp <= last
      BY <1>3, <1>4, <1>7, <2>2, <2>3 DEF Ordered
    <2> HIDE DEF last, p
    <2>5. \A i \in DOMAIN q.rows : q.rows[i] \in Item
      BY <1>1
    <2>6. \A i \in DOMAIN q.rows : Day[q.rows[i].stamp] < q.day
                                   \/ (Day[q.rows[i].stamp] = q.day /\ q.rows[i].stamp <= last)
      BY <1>1, <1>2, <1>7, <2>3, <2>5 DEF Behind
    <2>7. \A i \in DOMAIN rows : Behind(rows[i].stamp, p)
      BY <1>3, <1>5, <2>1, <2>4, <2>6 DEF Behind
    <2>8. ASSUME NEW k \in Within(q.window, q.since), Behind(q.since[k].stamp, p)
          PROVE  Holds(rows, k, q.since)
      <3>1. Day[q.since[k].stamp] < q.day
            \/ (Day[q.since[k].stamp] = q.day /\ q.since[k].stamp <= last)
        BY <2>1, <2>8 DEF Behind
      <3> QED
        BY <1>1, <1>11, <1>12, <1>13, <3>1 DEF Behind, last
    <2>9. Partial(p)
      BY <1>1, <1>9, <1>10, <2>1, <2>7, <2>8 DEF Partial
    <2> QED
      BY <2>9 DEF p, last
  <1>15. ASSUME ~HasMore(page), NEW k \in Within(q.window, q.since),
                Day[q.since[k].stamp] <= q.day
         PROVE  Holds(rows, k, q.since)
    BY <1>1, <1>11, <1>12, <1>13, <1>15 DEF Behind
  <1>16. ASSUME ~HasMore(page), q.day < q.window.last
         PROVE  Partial([q EXCEPT !.rows = rows, !.key = 0, !.day = @ + 1])
    <2> DEFINE p == [q EXCEPT !.rows = rows, !.key = 0, !.day = @ + 1]
    <2>1. /\ p.window = q.window /\ p.day = q.day + 1 /\ p.since = q.since
          /\ p.rows = rows /\ p.key = 0
      BY DEF Scripts
    <2> HIDE DEF p
    <2>2. q.day + 1 \in q.window.first..q.window.last
      BY <1>1, <1>16
    <2>3. \A i \in DOMAIN q.rows : q.rows[i] \in Item
      BY <1>1
    <2>4. \A i \in DOMAIN q.rows : Day[q.rows[i].stamp] < q.day + 1
      BY <1>1, <1>2, <1>7, <2>3 DEF Behind
    <2>5. \A i \in DOMAIN page : Day[page[i].stamp] < q.day + 1
      BY <1>1, <1>3
    <2>6. \A i \in DOMAIN rows : Behind(rows[i].stamp, p)
      BY <1>5, <2>1, <2>4, <2>5 DEF Behind
    <2>7. ASSUME NEW k \in Within(q.window, q.since), Behind(q.since[k].stamp, p)
          PROVE  Holds(rows, k, q.since)
      <3>1. Day[q.since[k].stamp] <= q.day
        BY <1>1, <1>13, <2>1, <2>7 DEF Behind
      <3> QED
        BY <1>15, <1>16, <3>1
    <2>8. Partial(p)
      BY <1>9, <1>10, <1>1, <2>1, <2>2, <2>6, <2>7 DEF Partial
    <2> QED
      BY <2>8 DEF p
  <1>17. ASSUME ~HasMore(page), q.day = q.window.last
         PROVE  Whole(q.window, rows, q.since)
    <2>1. \A k \in Within(q.window, q.since) : Holds(rows, k, q.since)
      BY <1>13, <1>15, <1>17
    <2> QED
      BY <1>9, <1>10, <2>1 DEF Whole
  <1> QED
    BY <1>8, <1>14, <1>16, <1>17 DEF page, rows

\* Every step keeps every query, and every cached result, complete so far.
LEMMA QueriedStep ==
  ASSUME Typed, Typed', Stored, Queried, Keeps, [Next]_vars
  PROVE  Queried'
  <1>1. \A s \in Sessions : session[s] \in Scripts /\ Script(session[s], table, index)
    BY DEF Typed, Queried
  <1>2. \A s \in Sessions : Script(session[s], table', index')
    BY <1>1, KeepScript
  <1>3. ASSUME NEW w \in Windows, cache[w] # None
        PROVE  /\ cache[w].since \in Indexes
               /\ Whole(w, cache[w].rows, cache[w].since) /\ Genuine(cache[w].rows, table')
    <2>1. cache[w] \in Cached
      BY <1>3 DEF Typed
    <2>2. cache[w].rows \in Seq(Item) /\ cache[w].since \in Indexes
      BY <2>1 DEF Cached
    <2>3. Whole(w, cache[w].rows, cache[w].since) /\ Genuine(cache[w].rows, table)
      BY <1>3 DEF Queried
    <2> QED
      BY <2>2, <2>3, KeepGenuine
  <1>4. Genuine(<<>>, table')
    BY DEF Genuine
  <1>5. ASSUME UNCHANGED session, \A w \in Windows : cache'[w] \in {cache[w], None}
        PROVE  Queried'
    BY <1>2, <1>3, <1>5 DEF Queried
  <1>6. ASSUME NEW s \in Sessions, NEW q, Script(q, table', index'),
               session' = [session EXCEPT ![s] = q], UNCHANGED cache
        PROVE  Queried'
    <2>1. \A r \in Sessions : session'[r] = IF r = s THEN q ELSE session[r]
      BY <1>6 DEF Typed
    <2> QED
      BY <1>2, <1>3, <1>6, <2>1 DEF Queried
  <1>7. Script(Idle, table', index')
    BY <1>4 DEF Script, Idle
  <1>8. ASSUME NEW s \in Sessions, NEW w \in Windows, Open(s, w)
        PROVE  Queried'
    <2>1. CASE cache[w] # None
      <3> DEFINE q == Loaded(w, cache[w].rows, cache[w].since)
      <3>1. /\ q.pc = "model" /\ q.window = w /\ q.rows = cache[w].rows /\ q.since = cache[w].since
            /\ q.view = None
        BY DEF Loaded, Idle
      <3>2. session' = [session EXCEPT ![s] = q] /\ UNCHANGED cache
        BY <1>8, <2>1 DEF Open
      <3> HIDE DEF q
      <3>3. Script(q, table', index')
        BY <1>3, <2>1, <3>1 DEF Script
      <3> QED
        BY <1>6, <3>2, <3>3
    <2>2. CASE cache[w] = None
      <3> DEFINE q == Querier(w)
      <3>1. /\ q.pc = "query" /\ q.window = w /\ q.day = w.first /\ q.key = 0 /\ q.rows = <<>>
            /\ q.since = index /\ q.view = None
        BY DEF Querier
      <3>2. session' = [session EXCEPT ![s] = q] /\ UNCHANGED <<cache, index, table>>
        BY <1>8, <2>2 DEF Open, tableVars
      <3> HIDE DEF q
      <3>3. Since(q.since, index')
        BY <3>1, <3>2, NewerSelf DEF Since
      <3>4. \A k \in Within(w, q.since) : ~Behind(q.since[k].stamp, q)
        <4> SUFFICES ASSUME NEW k \in Within(w, q.since)
                     PROVE  ~Behind(q.since[k].stamp, q)
          OBVIOUS
        <4>1. index[k] \in Item /\ Day[index[k].stamp] \in w.first..w.last
          BY <3>1 DEF Within, Typed, Indexes
        <4>2. index[k].stamp > 0 /\ index[k].stamp \in Nat /\ Day[index[k].stamp] >= w.first
              /\ Day[index[k].stamp] \in Nat /\ w.first \in Nat
          BY SMTT(30), <4>1, MonitoringAssumption DEF Item, Stamps
        <4> QED
          BY <3>1, <4>2 DEF Behind
      <3>5. w.first \in w.first..w.last
        BY <1>8, MonitoringAssumption DEF Open, Bounded
      <3>6. Partial(q)
        BY <3>1, <3>4, <3>5 DEF Partial, Ordered, Inside
      <3>7. Script(q, table', index')
        BY <1>4, <3>1, <3>3, <3>6 DEF Script, Typed
      <3> QED
        BY <1>6, <3>2, <3>7
    <2> QED
      BY <2>1, <2>2
  <1>9. ASSUME NEW s \in Sessions, ReadPage(s)
        PROVE  Queried'
    <2> DEFINE q == session[s]
               page == Page(q.day, q.key)
               rows == q.rows \o page
    <2>1. q \in Scripts /\ q.pc = "query" /\ Script(q, table, index) /\ UNCHANGED <<table, index>>
      BY <1>1, <1>9 DEF ReadPage, tableVars
    <2>2. /\ Genuine(rows, table')
          /\ HasMore(page) => Partial([q EXCEPT !.rows = rows, !.key = Last(page).stamp])
          /\ ~HasMore(page) /\ q.day < q.window.last =>
               Partial([q EXCEPT !.rows = rows, !.key = 0, !.day = @ + 1])
          /\ ~HasMore(page) /\ q.day = q.window.last => Whole(q.window, rows, q.since)
      BY <2>1, PageStep
    <2>3. q.window \in Windows /\ q.since \in Indexes /\ Since(q.since, index')
      BY <1>2, <2>1 DEF Script, Partial
    <2>4. q.view # None => Genuine(q.view.rows, table')
      BY <1>2 DEF Script
    <2>5. CASE HasMore(page) /\ UNCHANGED cache
               /\ session' = [session EXCEPT ![s].rows = rows, ![s].key = Last(page).stamp]
      <3> DEFINE p == [q EXCEPT !.rows = rows, !.key = Last(page).stamp]
      <3>1. p.pc = "query" /\ p.since = q.since /\ p.rows = rows /\ p.view = q.view /\ Partial(p)
        BY <2>1, <2>2, <2>5 DEF Scripts
      <3>2. session' = [session EXCEPT ![s] = p]
        BY <2>5 DEF Typed
      <3> HIDE DEF p
      <3>3. Script(p, table', index')
        BY <2>2, <2>3, <2>4, <3>1 DEF Script
      <3> QED
        BY <1>6, <2>5, <3>2, <3>3
    <2>6. CASE ~HasMore(page) /\ q.day < q.window.last /\ UNCHANGED cache
               /\ session' = [session EXCEPT ![s].rows = rows, ![s].key = 0, ![s].day = @ + 1]
      <3> DEFINE p == [q EXCEPT !.rows = rows, !.key = 0, !.day = @ + 1]
      <3>1. p.pc = "query" /\ p.since = q.since /\ p.rows = rows /\ p.view = q.view /\ Partial(p)
        BY <2>1, <2>2, <2>6 DEF Scripts
      <3>2. session' = [session EXCEPT ![s] = p]
        BY <2>6 DEF Typed
      <3> HIDE DEF p
      <3>3. Script(p, table', index')
        BY <2>2, <2>3, <2>4, <3>1 DEF Script
      <3> QED
        BY <1>6, <2>6, <3>2, <3>3
    <2>7. CASE ~HasMore(page) /\ q.day = q.window.last
               /\ session' = [session EXCEPT ![s] = Loaded(q.window, rows, q.since)]
               /\ cache' = [cache EXCEPT ![q.window] = [rows |-> rows, since |-> q.since]]
      <3> DEFINE p == Loaded(q.window, rows, q.since)
                 c == [rows |-> rows, since |-> q.since]
      <3>1. /\ p.pc = "model" /\ p.window = q.window /\ p.rows = rows /\ p.since = q.since
            /\ p.view = None /\ Whole(q.window, rows, q.since)
        BY <2>2, <2>7 DEF Loaded, Idle
      <3>2. c.rows = rows /\ c.since = q.since
        OBVIOUS
      <3>3. \A w \in Windows : cache'[w] = IF w = q.window THEN c ELSE cache[w]
        BY <2>7 DEF Typed
      <3>4. \A r \in Sessions : session'[r] = IF r = s THEN p ELSE session[r]
        BY <2>7 DEF Typed
      <3> HIDE DEF p, c, rows
      <3>5. Script(p, table', index')
        BY <2>2, <2>3, <3>1 DEF Script
      <3> QED
        BY <1>2, <1>3, <2>2, <3>1, <3>2, <3>3, <3>4, <3>5 DEF Queried
    <2> QED
      BY <1>9, <2>5, <2>6, <2>7 DEF ReadPage
  <1>10. ASSUME NEW s \in Sessions, Render(s)
         PROVE  Queried'
    <2>1. PICK model : Shown(s, model)
      BY <1>10 DEF Render
    <2> DEFINE v == View(s, model)
               p == [Idle EXCEPT !.view = v]
    <2>2. v.rows = session[s].rows
      BY DEF View
    <2>3. p.pc = "idle" /\ p.rows = <<>> /\ p.view = v
      BY DEF Idle
    <2>4. session' = [session EXCEPT ![s] = p] /\ UNCHANGED cache
      BY <1>10, <2>1 DEF Shown, Render
    <2> HIDE DEF v, p
    <2>5. Script(p, table', index')
      BY <1>2, <1>4, <2>2, <2>3 DEF Script
    <2> QED
      BY <1>6, <2>4, <2>5
  <1>11. ASSUME NEW s \in Sessions, QueryFails(s)
         PROVE  Queried'
    BY <1>6, <1>7, <1>11 DEF QueryFails
  <1>12. ASSUME NEW w \in Windows, Expire(w)
         PROVE  Queried'
    BY <1>5, <1>12 DEF Expire, Typed
  <1>13. ASSUME NEW s \in Sessions, NEW k \in Requests, Adjudicate(s, k)
         PROVE  Queried'
    BY <1>5, <1>13 DEF Adjudicate, Cleared
  <1>14. CASE UNCHANGED <<cache, session>>
    BY <1>5, <1>14
  <1> QED
    BY <1>8, <1>9, <1>10, <1>11, <1>12, <1>13, <1>14
    DEF Next, vars, LoadModel, Accept, Serve, Propagate, Report, DryRun, StartTraffic, Received,
        Refused, WriteAudit, Abandon

-----------------------------------------------------------------------------
(* The theorems *)

Inv == Typed /\ Stored /\ Accounted /\ Queried /\ ActiveModelIsOnRecord

\* Every step keeps the model shown on record: a model is never taken off it.
LEMMA ActiveStep ==
  ASSUME Typed, Typed', Stored, Queried, Keeps, ActiveModelIsOnRecord, [Next]_vars
  PROVE  ActiveModelIsOnRecord'
  <1> DEFINE Recorded(view, models) ==
        (view # None /\ view.reported) =>
          IF Options(view.rows) # {} THEN view.model \in Options(view.rows) /\ view.model \in models
          ELSE /\ view.model \in models \union {None}
               /\ view.due # None => view.model = view.due
  <1>1. Models \subseteq Models'
    BY DEF Keeps
  <1>2. ASSUME NEW s \in Sessions
        PROVE  Recorded(session[s].view, Models)
    <2>1. (session[s].view # None /\ session[s].view.reported) =>
            IF Options(session[s].view.rows) # {}
            THEN /\ session[s].view.model \in Options(session[s].view.rows)
                 /\ loads[session[s].view.model] > 0
            ELSE /\ session[s].view.model \in Models \union {None}
                 /\ session[s].view.due # None => session[s].view.model = session[s].view.due
      BY DEF ActiveModelIsOnRecord
    <2>2. session[s].view # None => session[s].view.rows \in Seq(Item)
      BY DEF Typed, Scripts, Views
    <2>3. session[s].view # None => Options(session[s].view.rows) \subseteq Versions
      <3> SUFFICES ASSUME session[s].view # None
                   PROVE  Options(session[s].view.rows) \subseteq Versions
        OBVIOUS
      <3> DEFINE rows == session[s].view.rows
      <3>1. \A i \in DOMAIN rows : rows[i] \in Item
        BY <2>2
      <3> QED
        BY <3>1 DEF Options, Item
    <2> QED
      BY <2>1, <2>3 DEF Models
  <1>3. \A view : Recorded(view, Models) => Recorded(view, Models')
    BY <1>1
  <1>4. ASSUME \A s \in Sessions : Recorded(session'[s].view, Models')
        PROVE  ActiveModelIsOnRecord'
    BY <1>4 DEF ActiveModelIsOnRecord, Models
  <1> HIDE DEF Recorded
  <1>5. ASSUME NEW s \in Sessions, NEW q, session' = [session EXCEPT ![s] = q],
               Recorded(q.view, Models')
        PROVE  ActiveModelIsOnRecord'
    <2>1. \A r \in Sessions : session'[r] = IF r = s THEN q ELSE session[r]
      BY <1>5 DEF Typed
    <2> QED
      BY <1>2, <1>3, <1>4, <1>5, <2>1
  <1>6. \A models : Recorded(None, models)
    BY DEF Recorded
  <1>7. ASSUME NEW s \in Sessions, Render(s)
        PROVE  ActiveModelIsOnRecord'
    <2> DEFINE rows == session[s].rows
    <2>1. rows \in Seq(Item) /\ Genuine(rows, table)
      BY DEF Typed, Scripts, Queried, Script
    <2>2. PICK model : /\ Shown(s, model)
                       /\ \/ Raises(rows) /\ model = None
                          \/ ~Raises(rows) /\ model \in Lookups(rows)
                          \/ ~Raises(rows) /\ NotFound(rows) /\ model = None
      BY <1>7 DEF Render
    <2> DEFINE v == View(s, model)
               p == [Idle EXCEPT !.view = v]
    <2>3. /\ v.rows = rows /\ v.model = model /\ v.reported = ~Raises(rows)
          /\ v.due = IF rows = <<>> /\ Models # {} /\ Size <= ScanLimit
                     THEN CHOOSE u \in Models : loads[u] = LastLoad ELSE None
      BY DEF View
    <2>4. p.view = v /\ session' = [session EXCEPT ![s] = p]
      BY <2>2 DEF Shown, Idle
    <2>5. Recorded(v, Models')
      <3> SUFFICES ASSUME ~Raises(rows)
                   PROVE  IF Options(rows) # {} THEN model \in Options(rows) /\ model \in Models
                          ELSE /\ model \in Models \union {None}
                               /\ v.due # None => model = v.due
        BY <1>1, <2>3 DEF Recorded
      <3>1. CASE Options(rows) # {}
        BY <2>1, <2>2, <3>1, LookupIs
      <3>2. CASE Options(rows) = {}
        <4> HIDE DEF v, rows
        <4> QED
          BY <2>1, <2>2, <2>3, <3>2, LookupIs
      <3> QED
        BY <3>1, <3>2
    <2> HIDE DEF v, p
    <2> QED
      BY <1>5, <2>4, <2>5
  <1>8. ASSUME NEW s \in Sessions, ReadPage(s)
        PROVE  ActiveModelIsOnRecord'
    <2>1. \A r \in Sessions : session'[r].view \in {session[r].view, None}
      <3>1. DOMAIN session = Sessions /\ session[s] \in Scripts
        BY DEF Typed
      <3>2. session'[s].view \in {session[s].view, None}
        <4>1. \A w, rows, since : Loaded(w, rows, since).view = None
          BY DEF Loaded, Idle
        <4>2. CASE \E rows, key : session' = [session EXCEPT ![s].rows = rows, ![s].key = key]
          BY <3>1, <4>2 DEF Scripts
        <4>3. CASE \E rows, day : session' = [session EXCEPT ![s].rows = rows, ![s].key = 0,
                                                             ![s].day = day]
          BY <3>1, <4>3 DEF Scripts
        <4>4. CASE \E w, rows, since : session' = [session EXCEPT ![s] = Loaded(w, rows, since)]
          BY <3>1, <4>1, <4>4
        <4> DEFINE q == session[s]
                   page == Page(q.day, q.key)
                   rows == q.rows \o page
        <4>5. \/ session' = [session EXCEPT ![s].rows = rows, ![s].key = Last(page).stamp]
              \/ session' = [session EXCEPT ![s].rows = rows, ![s].key = 0, ![s].day = @ + 1]
              \/ session' = [session EXCEPT ![s] = Loaded(q.window, rows, q.since)]
          BY <1>8 DEF ReadPage
        <4>6. [session EXCEPT ![s].rows = rows, ![s].key = 0, ![s].day = @ + 1] =
              [session EXCEPT ![s].rows = rows, ![s].key = 0, ![s].day = q.day + 1]
          BY <3>1 DEF Scripts
        <4> HIDE DEF page, rows
        <4> QED
          BY <4>2, <4>3, <4>4, <4>5, <4>6
      <3>3. \A r \in Sessions : r # s => session'[r] = session[r]
        BY <1>8, <3>1 DEF ReadPage
      <3> QED
        BY <3>2, <3>3
    <2> QED
      BY <1>2, <1>3, <1>4, <1>6, <2>1
  <1>9. ASSUME NEW s \in Sessions, NEW w \in Windows, Open(s, w)
        PROVE  ActiveModelIsOnRecord'
    <2>1. PICK q : session' = [session EXCEPT ![s] = q] /\ q.view = None
      <3>1. Querier(w).view = None /\ Loaded(w, cache[w].rows, cache[w].since).view = None
        BY DEF Querier, Loaded, Idle
      <3> QED
        BY <1>9, <3>1 DEF Open
    <2> QED
      BY <1>5, <1>6, <2>1
  <1>10. ASSUME NEW s \in Sessions, QueryFails(s)
         PROVE  ActiveModelIsOnRecord'
    <2>1. Idle.view = None
      BY DEF Idle
    <2> QED
      BY <1>5, <1>6, <1>10, <2>1 DEF QueryFails
  <1>11. CASE UNCHANGED session
    BY <1>2, <1>3, <1>4, <1>11
  <1> QED
    BY <1>7, <1>8, <1>9, <1>10, <1>11
    DEF Next, vars, LoadModel, Accept, Serve, Propagate, Report, DryRun, StartTraffic, Received,
        Refused, WriteAudit, Abandon, Expire, Adjudicate

\* The inductive invariant holds at first.
LEMMA InvInit == Init => Inv
  <1> SUFFICES ASSUME Init
               PROVE  Inv
    OBVIOUS
  <1>1. Stored
    BY DEF Init, Stored, Models, StampOf, Unasked
  <1>2. Accounted
    BY DEF Init, Accounted, Quiet
  <1>3. Queried
    BY DEF Init, Queried, Script, Idle, Genuine
  <1>4. ActiveModelIsOnRecord
    BY DEF Init, ActiveModelIsOnRecord, Idle
  <1> QED
    BY <1>1, <1>2, <1>3, <1>4, TypedInit DEF Inv

\* Every step keeps the inductive invariant.
LEMMA InvStep == Inv /\ [Next]_vars => Inv'
  <1> SUFFICES ASSUME Inv, [Next]_vars
               PROVE  Inv'
    OBVIOUS
  <1>1. Typed /\ Stored /\ Accounted /\ Queried /\ ActiveModelIsOnRecord
    BY DEF Inv
  <1>2. Typed'
    BY <1>1, TypedStep
  <1>3. Stored' /\ Keeps
    BY <1>1, StoredStep
  <1>4. Accounted' /\ Queried' /\ ActiveModelIsOnRecord'
    BY <1>1, <1>2, <1>3, AccountedStep, QueriedStep, ActiveStep
  <1> QED
    BY <1>2, <1>3, <1>4 DEF Inv

\* Every state of the generator, the table, its index and the dashboards is of its
\* type, and the inductive invariant holds, for any number of each.
THEOREM Invariance == Spec => []Inv
  BY InvInit, InvStep, PTL DEF Spec

\* A query that went through its whole window is complete.
LEMMA CompleteIs ==
  ASSUME NEW w, NEW rows, NEW since, Whole(w, rows, since), Genuine(rows, table)
  PROVE  Complete(w, rows, since)
  BY DEF Complete, Whole, Genuine, Ordered, Inside, Holds, Newer

\* The rows about to be shown or kept are complete for their window, ordered and
\* genuine, however the table and its index change between the pages of the query.
THEOREM QueriesComplete == Spec => []QueriesAreComplete
  <1>1. Inv => QueriesAreComplete
    <2> SUFFICES ASSUME Inv
                 PROVE  QueriesAreComplete
      OBVIOUS
    <2>1. ASSUME NEW w \in Windows, cache[w] # None
          PROVE  Complete(w, cache[w].rows, cache[w].since)
      BY <2>1, CompleteIs DEF Inv, Queried
    <2>2. ASSUME NEW s \in Sessions, session[s].pc = "model"
          PROVE  Complete(session[s].window, session[s].rows, session[s].since)
      BY <2>2, CompleteIs DEF Inv, Queried, Script
    <2> QED
      BY <2>1, <2>2 DEF QueriesAreComplete
  <1> QED
    BY <1>1, Invariance, PTL

\* The audit accounts for every request of the plan, whatever the replicas did
\* with those the generator gave up on.
THEOREM AuditTrue == Spec => []AuditIsTrue
  <1>1. Inv => AuditIsTrue
    <2> SUFFICES ASSUME Inv, audit # None, audit.attempted > 0
                 PROVE  LET stored == {k \in Requests : table[k] # None /\ table[k].status = "success"}
                            named == {audit.ids[i] : i \in DOMAIN audit.ids} IN
                        /\ audit.planned = audit.attempted
                        /\ audit.attempted = audit.successful + audit.failed
                        /\ Cardinality(named) = audit.successful
                        /\ named \subseteq stored
                        /\ Cardinality(stored \ named) <= audit.failed
      BY DEF AuditIsTrue
    <2> DEFINE stored == {k \in Requests : table[k] # None /\ table[k].status = "success"}
               named == Named(audit.ids)
    <2>1. /\ audit.planned = Count /\ audit.attempted = Count
          /\ audit.successful + audit.failed = Count
          /\ Cardinality(named) = audit.successful
          /\ \A k \in named : server[k].pc = "200"
      BY DEF Inv, Accounted, Answered
    <2>2. audit.ids \in Seq(Requests) /\ audit.failed \in Nat /\ audit.successful \in Nat
      BY DEF Inv, Typed, Audits
    <2>3. named \subseteq Requests /\ IsFiniteSet(named)
      BY <2>2, NamedIs
    <2>4. named \subseteq stored
      BY <2>1, <2>3 DEF Inv, Stored
    <2>5. IsFiniteSet(Requests) /\ Cardinality(Requests) = Count /\ Count \in Nat
      <3>1. Count \in Nat \ {0} /\ 1 \in Int /\ Count \in Int
        BY MonitoringAssumption
      <3> QED
        BY <3>1, FS_Interval DEF Requests
    <2>6. /\ IsFiniteSet(Requests \ named)
          /\ Cardinality(Requests \ named) = Count - Cardinality(named)
      <3>1. Requests \cap named = named
        BY <2>3
      <3> QED
        BY <2>3, <2>5, <3>1, FS_Difference
    <2>7. Cardinality(stored \ named) <= Cardinality(Requests \ named)
          /\ IsFiniteSet(stored \ named)
      <3>1. stored \ named \subseteq Requests \ named
        OBVIOUS
      <3> HIDE DEF stored, named
      <3> QED
        BY <2>6, <3>1, FS_Subset
    <2>8. Cardinality(stored \ named) <= audit.failed
      <3>1. Cardinality(stored \ named) \in Nat
        BY <2>7, FS_CardinalityType
      <3> HIDE DEF stored, named
      <3> QED
        BY <2>1, <2>2, <2>5, <2>6, <2>7, <3>1
    <2>9. audit.planned = audit.attempted /\ audit.attempted = audit.successful + audit.failed
      BY <2>1
    <2> QED
      BY <2>1, <2>4, <2>8, <2>9 DEF Named
  <1> QED
    BY <1>1, Invariance, PTL

\* A dashboard that reports shows a model on record: the one that made its
\* predictions, or without any the one loaded last.
THEOREM ActiveOnRecord == Spec => []ActiveModelIsOnRecord
  BY Invariance, PTL DEF Inv
=============================================================================
