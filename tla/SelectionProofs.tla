-------------------------- MODULE SelectionProofs --------------------------
(* Theorems of ModelPromotion and of CandidateSearch, for every set of runs *)
(* and versions, every ranking, every matrix of candidates and every result *)
(* of fitting them: what is promoted, and what is taken into November, is   *)
(* what the policy ranks first.                                             *)
EXTENDS ModelPromotion, CandidateSearch, FiniteSetTheorems, TLAPS

\* A non-empty set of naturals has a least element.
LEMMA NaturalsMin ==
  ASSUME NEW T, T \subseteq Nat, T # {}
  PROVE  \E x \in T : \A y \in T : x <= y
  <1> DEFINE R == {ss \in Nat \X Nat : ss[1] < ss[2]}
  <1>1. IsWellFoundedOn(R, Nat)
    BY NatLessThanWellFounded DEF OpToRel
  <1>2. \E x \in T : \A y \in T : ~ (<<y, x>> \in R)
    <2> HIDE DEF R
    <2> QED
      BY <1>1, WFMin
  <1>3. PICK x \in T : \A y \in T : ~ (<<y, x>> \in R)
    BY <1>2
  <1>4. ASSUME NEW y \in T
        PROVE  x <= y
    <2>1. x \in Nat /\ y \in Nat
      OBVIOUS
    <2>2. <<y, x>> \in Nat \X Nat /\ <<y, x>>[1] = y /\ <<y, x>>[2] = x
      BY <2>1
    <2>3. ~(y < x)
      BY <1>3, <2>2
    <2> QED
      BY <2>1, <2>3
  <1> QED
    BY <1>4

-----------------------------------------------------------------------------
(* The Registry promotion: selector.py and scripts/promote_model.py *)

Servable(v) == v \in Versions /\ registry[v] # None /\ registry[v].standing = "eligible"

\* What a run holds: it only ever listed published versions, and from the
\* selection on its winner is one that passes the gates.
Sound(r) ==
  /\ r \in Attempt
  /\ r.listed \subseteq Published
  /\ r.pc \notin Ended => r.target \in Aliases
  /\ r.pc \in {"check", "link", "verify", "moved"} => Servable(r.winner)

Inv ==
  /\ registry \in [Versions -> Candidate \union {None}]
  /\ alias \in [Aliases -> Versions \union {None}]
  /\ outside \subseteq Aliases
  /\ \A a \in Aliases \ outside : alias[a] # None => Servable(alias[a])
  /\ attempt \in [Promoters -> Attempt]
  /\ \A p \in Promoters : Sound(attempt[p])

\* A step of one run that leaves the Registry alone.
LEMMA OneAttempt ==
  ASSUME Inv, NEW p \in Promoters, NEW r, Sound(r),
         registry' = registry, alias' = alias, outside' = outside,
         attempt' = [attempt EXCEPT ![p] = r]
  PROVE  Inv'
  BY DEF Inv, Sound, Servable, Published

\* What the selection returns is a listed version that passes the gates, or None.
LEMMA SelectedPasses ==
  ASSUME NEW listed, NEW incumbent, NEW chosen \in Selected(listed, incumbent)
  PROVE  chosen = None \/ (chosen \in listed /\ registry[chosen].standing = "eligible")
  BY DEF Selected, Winners, Passing

\* The Registry only grows: what was eligible stays it.
LEMMA PublishKeeps ==
  ASSUME Inv, Publish
  PROVE  /\ registry' \in [Versions -> Candidate \union {None}]
         /\ \A v : Servable(v) => Servable(v)' /\ registry'[v] = registry[v]
         /\ Published \subseteq Published'
  <1>1. PICK v \in Versions, candidate \in Candidate :
          registry[v] = None /\ registry' = [registry EXCEPT ![v] = candidate]
    BY DEF Publish
  <1>2. candidate # None
    BY PromotionAssumption
  <1> QED
    BY <1>1, <1>2 DEF Inv, Servable, Published

LEMMA InvInit == Init => Inv
  BY DEF Init, Inv, Sound, Attempt, Quiet, Ended, Servable

LEMMA InvStep == Inv /\ [Next]_vars => Inv'
  <1> SUFFICES ASSUME Inv, [Next]_vars
               PROVE  Inv'
    OBVIOUS
  <1>1. ASSUME NEW p \in Promoters, Start(p)
        PROVE  Inv'
    <2>1. PICK apply \in BOOLEAN, target \in Aliases, pin \in Pins :
            attempt' = [attempt EXCEPT ![p] =
              [Quiet EXCEPT !.pc = "list", !.apply = apply, !.target = target, !.pin = pin]]
      BY <1>1 DEF Start
    <2> DEFINE r == [Quiet EXCEPT !.pc = "list", !.apply = apply, !.target = target,
                                  !.pin = pin]
    <2>2. Sound(r)
      BY DEF Sound, Attempt, Quiet, Ended
    <2> QED
      BY <1>1, <2>1, <2>2, OneAttempt DEF Start
  <1>2. ASSUME NEW p \in Promoters, ListCandidates(p)
        PROVE  Inv'
    <2> DEFINE r == [attempt[p] EXCEPT
                       !.pc = "resolve",
                       !.listed = {v \in Published : attempt[p].pin \in {v, None}}]
    <2>1. Sound(r)
      BY <1>2 DEF ListCandidates, Inv, Sound, Attempt, Ended, Published
    <2>2. attempt' = [attempt EXCEPT ![p] = r]
      BY <1>2 DEF ListCandidates, Inv
    <2>3. registry' = registry /\ alias' = alias /\ outside' = outside
      BY <1>2 DEF ListCandidates
    <2> HIDE DEF r
    <2> QED
      BY <2>1, <2>2, <2>3, OneAttempt
  <1>3. ASSUME NEW p \in Promoters, Select(p)
        PROVE  Inv'
    <2> DEFINE before == alias[attempt[p].target]
    <2>1. PICK chosen \in Selected(attempt[p].listed, before) :
            attempt' = [attempt EXCEPT
              ![p].before = before, ![p].winner = chosen,
              ![p].pc = IF attempt[p].apply /\ Outcome(chosen, before) = "promote"
                        THEN "check" ELSE "audit"]
      BY <1>3 DEF Select
    <2> DEFINE pc == IF attempt[p].apply /\ Outcome(chosen, before) = "promote"
                     THEN "check" ELSE "audit"
               r == [attempt[p] EXCEPT !.before = before, !.winner = chosen, !.pc = pc]
    <2>2. chosen = None \/ Servable(chosen)
      BY SelectedPasses DEF Inv, Sound, Published, Servable
    <2>3. pc = "check" => chosen # None
      BY DEF Outcome
    <2>4. before \in Versions \union {None} /\ pc \in {"check", "audit"}
      BY <1>3 DEF Select, Inv, Sound, Ended
    <2>5. attempt' = [attempt EXCEPT ![p] = r]
      BY <2>1 DEF Inv
    <2> HIDE DEF pc, before
    <2>6. Sound(r)
      BY <1>3, <2>2, <2>3, <2>4 DEF Select, Inv, Sound, Attempt, Ended, Servable
    <2> QED
      BY <1>3, <2>5, <2>6, OneAttempt DEF Select
  <1>4. ASSUME NEW p \in Promoters, CheckAlias(p)
        PROVE  Inv'
    <2>1. PICK pc \in {"moved", "link"} : attempt' = [attempt EXCEPT ![p].pc = pc]
      BY <1>4 DEF CheckAlias
    <2> DEFINE r == [attempt[p] EXCEPT !.pc = pc]
    <2>2. Sound(r)
      BY <1>4 DEF CheckAlias, Inv, Sound, Attempt, Ended
    <2>3. attempt' = [attempt EXCEPT ![p] = r]
      BY <2>1 DEF Inv
    <2> QED
      BY <1>4, <2>2, <2>3, OneAttempt DEF CheckAlias
  <1>5. ASSUME NEW p \in Promoters, Link(p)
        PROVE  Inv'
    <2> DEFINE r == [attempt[p] EXCEPT !.pc = "verify"]
    <2>1. Sound(r) /\ Servable(attempt[p].winner)
      BY <1>5 DEF Link, Inv, Sound, Attempt, Ended
    <2>2. attempt' = [attempt EXCEPT ![p] = r]
      BY <1>5 DEF Link, Inv
    <2>3. /\ registry' = registry
          /\ alias' = [alias EXCEPT ![attempt[p].target] = attempt[p].winner]
          /\ outside' = outside \ {attempt[p].target}
      BY <1>5 DEF Link
    <2> HIDE DEF r
    <2> QED
      BY <2>1, <2>2, <2>3 DEF Inv, Sound, Servable, Published
  <1>6. ASSUME NEW p \in Promoters, Verify(p)
        PROVE  Inv'
    <2> DEFINE r == [attempt[p] EXCEPT !.pc = "moved"]
    <2>1. Sound(r)
      BY <1>6 DEF Verify, Inv, Sound, Attempt, Ended
    <2>2. attempt' = [attempt EXCEPT ![p] = r]
      BY <1>6 DEF Verify, Inv
    <2> QED
      BY <1>6, <2>1, <2>2, OneAttempt DEF Verify
  <1>7. ASSUME NEW p \in Promoters, Audit(p) \/ Fail(p)
        PROVE  Inv'
    <2>1. PICK pc \in {"recorded", "failed"} : attempt' = EndedAs(p, pc)
      BY <1>7 DEF Audit, Fail
    <2> DEFINE r == [Quiet EXCEPT !.pc = pc]
    <2>2. Sound(r)
      BY DEF Inv, Sound, Attempt, Quiet, Ended
    <2> QED
      BY <1>7, <2>1, <2>2, OneAttempt DEF Audit, Fail, EndedAs
  <1>8. CASE Publish
    <2>1. alias' = alias /\ outside' = outside /\ attempt' = attempt
      BY <1>8 DEF Publish
    <2> QED
      BY <1>8, <2>1, PublishKeeps DEF Inv, Sound
  <1>9. CASE MoveAlias
    <2>1. PICK a \in Aliases, v \in Published :
            alias' = [alias EXCEPT ![a] = v] /\ outside' = outside \union {a}
      BY <1>9 DEF MoveAlias
    <2>2. registry' = registry /\ attempt' = attempt
      BY <1>9 DEF MoveAlias
    <2> QED
      BY <2>1, <2>2 DEF Inv, Sound, Servable, Published
  <1>10. CASE UNCHANGED vars
    BY <1>10 DEF vars, Inv, Sound, Servable, Published
  <1> QED
    BY <1>1, <1>2, <1>3, <1>4, <1>5, <1>6, <1>7, <1>8, <1>9, <1>10 DEF Next

\* The Registry, its aliases and the runs keep their types; a run that goes on to
\* move an alias has a winner.
THEOREM PromotionTyped == Spec => []TypeOK
  <1>1. Inv => TypeOK
    BY DEF Inv, TypeOK, Sound, Servable
  <1> QED
    BY InvInit, InvStep, <1>1, PTL DEF Spec

\* However many runs overlap, whatever the release scripts and operators link in
\* between, and although the move itself has no condition: what a promotion left an
\* alias on passes every gate.
THEOREM PromotionsEligible == Spec => []PromotedEligible
  <1>1. Inv => PromotedEligible
    BY DEF Inv, PromotedEligible, Servable
  <1> QED
    BY InvInit, InvStep, <1>1, PTL DEF Spec

-----------------------------------------------------------------------------
(* The selection *)

\* The comparator never puts two versions before each other: the sort has at most
\* one head.
LEMMA BeforeAsymmetric ==
  ASSUME NEW v \in Versions, NEW w \in Versions, v # w, NEW incumbent,
         \A u \in {v, w}, i \in DOMAIN Ranking :
           registry[u].metrics[Ranking[i].field] \in Int,
         Before(v, w, incumbent)
  PROVE  ~Before(w, v, incumbent)
  <1> SUFFICES ASSUME Before(w, v, incumbent)
               PROVE  FALSE
    OBVIOUS
  <1> DEFINE m(u, i) == registry[u].metrics[Ranking[i].field]
  <1>1. /\ Values \subseteq Int /\ Versions \subseteq Nat
        /\ DOMAIN Ranking = 1 .. Len(Ranking) /\ Len(Ranking) \in Nat
    BY PromotionAssumption
  <1>a. \A i \in DOMAIN Ranking : m(v, i) \in Int /\ m(w, i) \in Int
    BY <1>1
  <1>b. \A i \in DOMAIN Ranking :
          /\ ~(Beats(Ranking[i], registry[v], registry[w])
               /\ Beats(Ranking[i], registry[w], registry[v]))
          /\ Beats(Ranking[i], registry[v], registry[w]) => m(v, i) # m(w, i)
          /\ Beats(Ranking[i], registry[w], registry[v]) => m(v, i) # m(w, i)
    BY <1>a DEF Beats
  <1>2. CASE SameRankValues(registry[v], registry[w])
    <2>1. \A i \in DOMAIN Ranking : m(v, i) = m(w, i)
      BY <1>2 DEF SameRankValues
    <2>2. \A i \in DOMAIN Ranking :
            ~Beats(Ranking[i], registry[v], registry[w])
            /\ ~Beats(Ranking[i], registry[w], registry[v])
      BY <2>1, <1>b
    <2>3. /\ v = incumbent \/ (w # incumbent /\ v < w)
          /\ w = incumbent \/ (v # incumbent /\ w < v)
      BY <2>2 DEF Before
    <2> QED
      BY <1>1, <2>3
  <1>3. CASE ~SameRankValues(registry[v], registry[w])
    <2>1. ~SameRankValues(registry[w], registry[v])
      BY <1>3 DEF SameRankValues
    <2>2. PICK i \in DOMAIN Ranking :
            Beats(Ranking[i], registry[v], registry[w])
            /\ \A k \in 1 .. i - 1 : m(v, k) = m(w, k)
      BY <1>3 DEF Before
    <2>3. PICK j \in DOMAIN Ranking :
            Beats(Ranking[j], registry[w], registry[v])
            /\ \A k \in 1 .. j - 1 : m(w, k) = m(v, k)
      BY <2>1 DEF Before
    <2>4. m(v, i) # m(w, i) /\ m(v, j) # m(w, j)
      BY <2>2, <2>3, <1>b
    <2>5. i \in Int /\ j \in Int /\ i >= 1 /\ j >= 1
      BY <1>1
    <2> HIDE DEF m
    <2>6. ~(i < j) /\ ~(j < i)
      BY <2>2, <2>3, <2>4, <2>5
    <2> QED
      BY <2>2, <2>3, <2>5, <2>6, <1>b
  <1> QED
    BY <1>2, <1>3

\* Whatever is listed and whatever the alias names, sorting leaves at most one
\* version to select.
THEOREM SelectionUnique ==
  ASSUME registry \in [Versions -> Candidate \union {None}],
         NEW listed \in SUBSET Published, NEW incumbent,
         NEW v \in Selected(listed, incumbent), NEW w \in Selected(listed, incumbent)
  PROVE  v = w
  <1>1. CASE Passing(listed) = {}
    BY <1>1 DEF Selected
  <1>2. CASE Passing(listed) # {}
    <2> SUFFICES ASSUME v # w
                 PROVE  FALSE
      OBVIOUS
    <2>1. v \in Passing(listed) /\ w \in Passing(listed)
      BY <1>2 DEF Selected, Winners
    <2>2. Before(v, w, incumbent) /\ Before(w, v, incumbent)
      BY <1>2, <2>1 DEF Selected, Winners
    <2>3. \A u \in Passing(listed) : u \in Versions /\ registry[u].metrics \in [Fields -> Values]
      BY DEF Passing, Published, Candidate, Invalid
    <2>4. \A i \in DOMAIN Ranking : Ranking[i].field \in Fields
      BY DEF Fields
    <2>5. \A u \in {v, w}, i \in DOMAIN Ranking :
            registry[u].metrics[Ranking[i].field] \in Int
      BY <2>1, <2>3, <2>4, PromotionAssumption
    <2> QED
      BY <2>1, <2>2, <2>3, <2>5, BeforeAsymmetric
  <1> QED
    BY <1>1, <1>2

-----------------------------------------------------------------------------
(* The selection is the policy's.  The facts about naturals and finite sets are *)
(* induction in the form of least elements.                                     *)

\* A non-empty family of subsets of a finite set has a minimal one.
LEMMA SubsetsMin ==
  ASSUME NEW S, IsFiniteSet(S), NEW F, F \subseteq SUBSET S, F # {}
  PROVE  \E x \in F : \A y \in F : y \subseteq x => y = x
  <1>1. IsWellFoundedOn(StrictSubsetOrdering(S), SUBSET S)
    BY FS_FiniteSubsetsOfFinite, FS_StrictSubsetOrderingWellFounded
  <1>2. \E x \in F : \A y \in F : ~ (<<y, x>> \in StrictSubsetOrdering(S))
    BY <1>1, WFMin
  <1> QED
    BY <1>2 DEF StrictSubsetOrdering

\* A function into the integers has a largest value on a finite set.
LEMMA FiniteMax ==
  ASSUME NEW S, IsFiniteSet(S), S # {}, NEW f \in [S -> Int]
  PROVE  \E x \in S : \A y \in S : f[y] <= f[x]
  <1> DEFINE Has(T) == \E x \in T : \A y \in T : f[y] <= f[x]
             F == {T \in SUBSET S : T # {} /\ ~Has(T)}
  <1> SUFFICES ASSUME F # {}
               PROVE  FALSE
    OBVIOUS
  <1>1. PICK T \in F : \A U \in F : U \subseteq T => U = T
    <2> HIDE DEF F
    <2>1. F \subseteq SUBSET S
      BY DEF F
    <2> QED
      BY <2>1, SubsetsMin
  <1>2. PICK x \in T : TRUE
    OBVIOUS
  <1>3. CASE T = {x}
    BY <1>3
  <1>4. CASE T # {x}
    <2>1. T \ {x} \notin F /\ T \ {x} # {} /\ T \ {x} \in SUBSET S
      BY <1>1, <1>2, <1>4
    <2>2. PICK z \in T \ {x} : \A y \in T \ {x} : f[y] <= f[z]
      BY <2>1
    <2>3. \A y \in T : f[y] \in Int
      OBVIOUS
    <2>4. Has(T)
      <3>1. CASE f[x] <= f[z]
        BY <2>2, <3>1
      <3>2. CASE ~(f[x] <= f[z])
        BY <2>2, <2>3, <3>2
      <3> QED
        BY <3>1, <3>2
    <2> QED
      BY <2>4
  <1> QED
    BY <1>3, <1>4

\* What is left of some versions when the i-th rule is applied to them.
BestOn(i, S) ==
  {v \in S : \A w \in S :
     LET mine == registry[v].metrics[Ranking[i].field]
         other == registry[w].metrics[Ranking[i].field] IN
     IF Ranking[i].direction = "maximize" THEN mine >= other ELSE mine <= other}

\* g applies the first k rules, one after the other.
Stages(listed, k, g) ==
  g = [i \in 0 .. k |-> IF i = 0 THEN Passing(listed) ELSE BestOn(i, g[i - 1])]

\* Any number of rules can be applied: the recursion of Leaders is well defined.
LEMMA StagesExist ==
  ASSUME NEW listed, NEW n \in Nat
  PROVE  \E g : Stages(listed, n, g)
  <1> DEFINE T == {k \in Nat : ~ \E g : Stages(listed, k, g)}
  <1> SUFFICES ASSUME T # {}
               PROVE  FALSE
    OBVIOUS
  <1>1. PICK k \in T : \A j \in T : k <= j
    BY NaturalsMin
  <1>2. k # 0
    <2>1. Stages(listed, 0, [i \in 0 .. 0 |-> Passing(listed)])
      BY DEF Stages
    <2> QED
      BY <2>1
  <1>3. k \in Nat /\ k - 1 \in Nat /\ ~(k <= k - 1)
    BY <1>2
  <1>4. PICK g : Stages(listed, k - 1, g)
    BY <1>1, <1>3
  <1> DEFINE h == [i \in 0 .. k |-> IF i = k THEN BestOn(k, g[k - 1]) ELSE g[i]]
  <1>5. \A i \in 0 .. k - 1 : h[i] = g[i]
    BY <1>3
  <1>6. ASSUME NEW i \in 0 .. k
        PROVE  h[i] = IF i = 0 THEN Passing(listed) ELSE BestOn(i, h[i - 1])
    <2>1. CASE i = k
      BY <1>2, <1>3, <1>5, <2>1
    <2>2. CASE i # k
      <3>1. i \in 0 .. k - 1 /\ (i # 0 => i - 1 \in 0 .. k - 1)
        BY <1>3, <2>2
      <3>2. g[i] = IF i = 0 THEN Passing(listed) ELSE BestOn(i, g[i - 1])
        BY <1>4, <3>1 DEF Stages
      <3> HIDE DEF h
      <3> QED
        BY <1>5, <3>1, <3>2
    <2> QED
      BY <2>1, <2>2
  <1>7. Stages(listed, k, h)
    <2>1. h = [i \in 0 .. k |-> h[i]]
      OBVIOUS
    <2> HIDE DEF h
    <2> QED
      BY <1>6, <2>1 DEF Stages
  <1> QED
    BY <1>7

\* Leaders are what the last of the stages leaves.
LEMMA LeadersStages ==
  ASSUME NEW listed
  PROVE  \E g : Stages(listed, Len(Ranking), g) /\ Leaders(listed) = g[Len(Ranking)]
  <1>1. Len(Ranking) \in Nat
    BY PromotionAssumption
  <1>2. \E g : Stages(listed, Len(Ranking), g)
    BY <1>1, StagesExist
  <1> QED
    BY <1>2 DEF Leaders, Stages, BestOn, Passing

\* The value of v that the i-th rule compares.
Measure(v, i) == registry[v].metrics[Ranking[i].field]

\* The first of the first n rules that v and w differ in puts v first.
Ahead(v, w, n) ==
  \E i \in 1 .. n : /\ Beats(Ranking[i], registry[v], registry[w])
                    /\ \A j \in 1 .. i - 1 : Measure(v, j) = Measure(w, j)

\* Some versions are those that the first n rules leave of the others.
LeadersOf(S, among, n) ==
  /\ among \subseteq S
  /\ S # {} => among # {}
  /\ \A v, w \in among : \A j \in 1 .. n : Measure(v, j) = Measure(w, j)
  /\ \A v \in among, w \in S \ among : Ahead(v, w, n)

\* The versions of S have every metric the rules compare.
AllMeasured(S) == \A v \in S, i \in DOMAIN Ranking : Measure(v, i) \in Int

\* One more rule.
LEMMA LeadingNext ==
  ASSUME NEW S, IsFiniteSet(S), AllMeasured(S), NEW among, NEW n \in Nat,
         n + 1 \in DOMAIN Ranking, LeadersOf(S, among, n)
  PROVE  LeadersOf(S, BestOn(n + 1, among), n + 1)
  <1> DEFINE rule == Ranking[n + 1]
             best == BestOn(n + 1, among)
             Better(v, w) == IF rule.direction = "maximize"
                             THEN Measure(v, n + 1) >= Measure(w, n + 1)
                             ELSE Measure(v, n + 1) <= Measure(w, n + 1)
  <1>1. best = {v \in among : \A w \in among : Better(v, w)}
    BY DEF BestOn, Measure
  <1>2. among \subseteq S /\ \A v \in among : Measure(v, n + 1) \in Int
    BY DEF LeadersOf, AllMeasured
  <1>3. ASSUME S # {}
        PROVE  best # {}
    <2>1. among # {} /\ IsFiniteSet(among)
      BY <1>2, <1>3, FS_Subset DEF LeadersOf
    <2> DEFINE f == [v \in among |-> IF rule.direction = "maximize" THEN Measure(v, n + 1)
                                     ELSE 0 - Measure(v, n + 1)]
    <2>2. f \in [among -> Int]
      BY <1>2
    <2>3. PICK v \in among : \A w \in among : f[w] <= f[v]
      BY <2>1, <2>2, FiniteMax
    <2>4. ASSUME NEW w \in among
          PROVE  Better(v, w)
      BY <1>2, <2>3
    <2> QED
      BY <1>1, <2>4
  <1>4. \A v, w \in best : Measure(v, n + 1) = Measure(w, n + 1)
    BY <1>1, <1>2
  <1>5. ASSUME NEW v \in best, NEW w \in S \ best
        PROVE  Ahead(v, w, n + 1)
    <2>1. CASE w \in among
      <3>1. Measure(v, n + 1) \in Int /\ Measure(w, n + 1) \in Int /\ Better(v, w)
        BY <1>1, <1>2, <2>1
      <3>2. Measure(v, n + 1) # Measure(w, n + 1)
        BY <1>1, <1>2, <2>1
      <3>3. Beats(rule, registry[v], registry[w])
        BY <3>1, <3>2 DEF Beats, Measure
      <3>4. \A j \in 1 .. n : Measure(v, j) = Measure(w, j)
        BY <1>1, <2>1 DEF LeadersOf
      <3>5. n + 1 \in 1 .. n + 1 /\ n + 1 - 1 = n
        OBVIOUS
      <3> QED
        BY <3>3, <3>4, <3>5 DEF Ahead
    <2>2. CASE w \notin among
      <3>1. Ahead(v, w, n)
        BY <1>1, <2>2 DEF LeadersOf
      <3>2. 1 .. n \subseteq 1 .. n + 1
        OBVIOUS
      <3> QED
        BY <3>1, <3>2 DEF Ahead
    <2> QED
      BY <2>1, <2>2
  <1>6. ASSUME NEW v \in best, NEW w \in best, NEW j \in 1 .. n + 1
        PROVE  Measure(v, j) = Measure(w, j)
    BY <1>1, <1>4 DEF LeadersOf
  <1>7. best \subseteq S
    BY <1>1, <1>2
  <1> HIDE DEF best
  <1> QED
    BY <1>3, <1>5, <1>6, <1>7 DEF LeadersOf, best

\* Leaders are all that the rules together leave.
LEMMA LeadersLead ==
  ASSUME NEW listed, IsFiniteSet(Passing(listed)), AllMeasured(Passing(listed))
  PROVE  LeadersOf(Passing(listed), Leaders(listed), Len(Ranking))
  <1> DEFINE S == Passing(listed)
  <1>1. PICK g : Stages(listed, Len(Ranking), g) /\ Leaders(listed) = g[Len(Ranking)]
    BY LeadersStages
  <1>2. Len(Ranking) \in Nat /\ DOMAIN Ranking = 1 .. Len(Ranking)
    BY PromotionAssumption
  <1> DEFINE T == {n \in 0 .. Len(Ranking) : ~LeadersOf(S, g[n], n)}
  <1>3. T = {}
    <2> SUFFICES ASSUME T # {}
                 PROVE  FALSE
      OBVIOUS
    <2>0. T \subseteq Nat
      BY <1>2
    <2>1. PICK n \in T : \A j \in T : n <= j
      <3> HIDE DEF T
      <3> QED
        BY <2>0, NaturalsMin
    <2>2. n # 0
      <3>1. g[0] = S
        BY <1>1, <1>2 DEF Stages
      <3>2. LeadersOf(S, S, 0)
        BY DEF LeadersOf
      <3> QED
        BY <3>1, <3>2
    <2>3. /\ n \in 1 .. Len(Ranking) /\ n - 1 \in 0 .. Len(Ranking) /\ n - 1 \in Nat
          /\ ~(n <= n - 1) /\ (n - 1) + 1 = n
      BY <1>2, <2>2
    <2>4. LeadersOf(S, g[n - 1], n - 1)
      BY <2>1, <2>3
    <2>5. g[n] = BestOn(n, g[n - 1])
      BY <1>1, <2>2, <2>3 DEF Stages
    <2>6. LeadersOf(S, g[n], n)
      <3> DEFINE m == n - 1
      <3>1. m \in Nat /\ m + 1 = n /\ m + 1 \in DOMAIN Ranking /\ LeadersOf(S, g[m], m)
        BY <1>2, <2>3, <2>4
      <3> HIDE DEF m
      <3>2. LeadersOf(S, BestOn(m + 1, g[m]), m + 1)
        BY <3>1, LeadingNext
      <3> QED
        BY <2>5, <3>1, <3>2 DEF m
    <2> QED
      BY <2>6
  <1>4. Len(Ranking) \in 0 .. Len(Ranking)
    BY <1>2
  <1> QED
    BY <1>1, <1>3, <1>4

-----------------------------------------------------------------------------

\* What the sort puts before what, of versions that pass the gates: the rules
\* decide, and of equals the incumbent, then the smaller id.
LEMMA BeforeIs ==
  ASSUME NEW v, NEW w, NEW incumbent
  PROVE  Before(v, w, incumbent) <=>
           \/ Ahead(v, w, Len(Ranking))
           \/ /\ \A j \in 1 .. Len(Ranking) : Measure(v, j) = Measure(w, j)
              /\ v = incumbent \/ (w # incumbent /\ v < w)
  <1>1. DOMAIN Ranking = 1 .. Len(Ranking)
    BY PromotionAssumption
  <1> QED
    BY <1>1 DEF Before, Ahead, Measure, SameRankValues

\* The head of the sort is the incumbent if it leads, else the smallest leader.
LEMMA WinnersAre ==
  ASSUME NEW listed, NEW incumbent, IsFiniteSet(Passing(listed)), AllMeasured(Passing(listed)),
         Passing(listed) \subseteq Versions, Passing(listed) # {}
  PROVE  Winners(listed, incumbent) =
           IF incumbent \in Leaders(listed) THEN {incumbent}
           ELSE {v \in Leaders(listed) : \A w \in Leaders(listed) : v <= w}
  <1> DEFINE S == Passing(listed)
             L == Leaders(listed)
             n == Len(Ranking)
             W == Winners(listed, incumbent)
  <1>1. /\ L \subseteq S /\ L # {}
        /\ \A v, w \in L : \A j \in 1 .. n : Measure(v, j) = Measure(w, j)
        /\ \A v \in L, w \in S \ L : Ahead(v, w, n)
    BY LeadersLead DEF LeadersOf
  <1>2. W = {v \in S : \A w \in S \ {v} : Before(v, w, incumbent)}
    BY DEF Winners
  <1>3. S \subseteq Nat
    BY PromotionAssumption
  <1>4. \A v, w \in L : ~Ahead(v, w, n)
    <2> SUFFICES ASSUME NEW v \in L, NEW w \in L, Ahead(v, w, n)
                 PROVE  FALSE
      OBVIOUS
    <2>1. PICK i \in 1 .. n : Beats(Ranking[i], registry[v], registry[w])
      BY DEF Ahead
    <2>2. Measure(v, i) = Measure(w, i) /\ i \in DOMAIN Ranking /\ Measure(v, i) \in Int
      BY <1>1, PromotionAssumption DEF AllMeasured
    <2> QED
      BY <2>1, <2>2 DEF Beats, Measure
  <1>5. \A v, w \in L : Before(v, w, incumbent) <=> v = incumbent \/ (w # incumbent /\ v < w)
    BY <1>1, <1>4, BeforeIs
  <1>6. \A v \in L, w \in S \ L : Before(v, w, incumbent)
    BY <1>1, BeforeIs
  <1>7. W \subseteq L
    <2> SUFFICES ASSUME NEW v \in W, v \notin L
                 PROVE  FALSE
      OBVIOUS
    <2>1. PICK w \in L : TRUE
      BY <1>1
    <2>2. v \in S /\ w \in S /\ w # v /\ Before(v, w, incumbent) /\ Before(w, v, incumbent)
      BY <1>1, <1>2, <1>6, <2>1
    <2>3. \A u \in {v, w}, i \in DOMAIN Ranking :
            registry[u].metrics[Ranking[i].field] \in Int
      BY <2>2 DEF AllMeasured, Measure
    <2> QED
      BY <2>2, <2>3, BeforeAsymmetric
  <1>8. \A v \in L : v \in W <=> \A w \in L \ {v} : Before(v, w, incumbent)
    BY <1>1, <1>2, <1>6
  <1> HIDE DEF W, L, S
  <1>9. CASE incumbent \in L
    BY <1>5, <1>7, <1>8, <1>9 DEF W, L
  <1>10. CASE incumbent \notin L
    <2>1. \A v \in L : v \in W <=> \A w \in L \ {v} : v < w
      BY <1>5, <1>8, <1>10
    <2>2. \A v, w \in L : v \in Nat /\ w \in Nat
      BY <1>1, <1>3
    <2>3. \A v \in L : v \in W <=> \A w \in L : v <= w
      BY <2>1, <2>2
    <2> QED
      BY <1>7, <1>10, <2>3 DEF W, L
  <1> QED
    BY <1>9, <1>10 DEF W, L

\* Somebody leads when somebody passes the gates.
LEMMA LeadersEmpty ==
  ASSUME NEW listed, IsFiniteSet(Passing(listed)), AllMeasured(Passing(listed))
  PROVE  Leaders(listed) = {} <=> Passing(listed) = {}
  BY LeadersLead DEF LeadersOf

-----------------------------------------------------------------------------
\* A Registry holds finitely many versions.
Finite == IsFiniteSet(Published)

LEMMA FiniteInit == Init => Finite
  <1> SUFFICES ASSUME Init
               PROVE  Published = {}
    BY FS_EmptySet, Zenon DEF Finite
  <1> QED
    BY DEF Init, Published

LEMMA FiniteStep == Inv /\ Finite /\ [Next]_vars => Finite'
  <1> SUFFICES ASSUME Inv, Finite, [Next]_vars
               PROVE  Finite'
    OBVIOUS
  <1>1. CASE Publish
    <2>1. PICK v \in Versions : registry' = [registry EXCEPT ![v] = registry'[v]]
      BY <1>1 DEF Publish, Inv
    <2>2. Published' \subseteq Published \union {v}
      BY <2>1 DEF Published, Inv
    <2> QED
      BY <2>2, FS_AddElement, FS_Subset DEF Finite
  <1>2. CASE registry' = registry
    BY <1>2 DEF Finite, Published
  <1> QED
    BY <1>1, <1>2, Zenon
    DEF Next, vars, Start, ListCandidates, Select, CheckAlias, Link, Verify, Audit, Fail,
        MoveAlias

\* In every such state the selection is the policy's.
LEMMA PolicyHolds == Inv /\ Finite => SelectionIsPolicy
  <1> SUFFICES ASSUME Inv, Finite, NEW p \in Promoters, attempt[p].pc = "resolve"
               PROVE  LET leaders == Leaders(attempt[p].listed)
                          before == alias[attempt[p].target] IN
                      Selected(attempt[p].listed, before) =
                        CASE leaders = {}      -> {None}
                          [] before \in leaders -> {before}
                          [] OTHER             -> {v \in leaders : \A w \in leaders : v <= w}
    BY DEF SelectionIsPolicy
  <1> DEFINE listed == attempt[p].listed
             before == alias[attempt[p].target]
  <1>1. listed \subseteq Published /\ Passing(listed) \subseteq Published
    BY DEF Inv, Sound, Passing
  <1>2. IsFiniteSet(Passing(listed)) /\ Passing(listed) \subseteq Versions
    BY <1>1, FS_Subset DEF Finite, Published
  <1>3. AllMeasured(Passing(listed))
    <2>1. \A u \in Passing(listed) : registry[u].metrics \in [Fields -> Values]
      BY <1>1 DEF Inv, Passing, Published, Candidate, Invalid
    <2>2. \A i \in DOMAIN Ranking : Ranking[i].field \in Fields
      BY DEF Fields
    <2> QED
      BY <2>1, <2>2, PromotionAssumption DEF AllMeasured, Measure
  <1> HIDE DEF listed, before
  <1>4. CASE Passing(listed) = {}
    BY <1>2, <1>3, <1>4, LeadersEmpty DEF Selected, listed, before
  <1>5. CASE Passing(listed) # {}
    <2>1. Leaders(listed) # {}
      BY <1>2, <1>3, <1>5, LeadersEmpty
    <2>2. Selected(listed, before) = Winners(listed, before)
      BY <1>5 DEF Selected
    <2>3. Winners(listed, before) =
            IF before \in Leaders(listed) THEN {before}
            ELSE {v \in Leaders(listed) : \A w \in Leaders(listed) : v <= w}
      BY <1>2, <1>3, <1>5, WinnersAre
    <2> QED
      BY <2>1, <2>2, <2>3 DEF listed, before
  <1> QED
    BY <1>4, <1>5

\* Whatever a run listed, the candidates sorted with the comparator have one head,
\* and it is the version the policy describes rule by rule: for any number of
\* rules and versions.
THEOREM SelectionFollowsPolicy == Spec => []SelectionIsPolicy
  <1>1. Init => Inv /\ Finite
    BY InvInit, FiniteInit
  <1>2. Inv /\ Finite /\ [Next]_vars => Inv' /\ Finite'
    BY InvStep, FiniteStep
  <1> QED
    BY <1>1, <1>2, PolicyHolds, PTL DEF Spec

-----------------------------------------------------------------------------
(* What a run moves the alias to *)

\* Its winner is ranked before all else it listed that passes the gates.
LeadsAt(r) ==
  r.pc \in {"check", "link"} =>
    \A v \in Passing(r.listed) : v = r.winner \/ Before(r.winner, v, r.before)

Leads == \A p \in Promoters : LeadsAt(attempt[p])

LEMMA OneLeads ==
  ASSUME Inv, Leads, NEW p \in Promoters, NEW r, LeadsAt(r),
         registry' = registry, attempt' = [attempt EXCEPT ![p] = r]
  PROVE  Leads'
  <1>1. ASSUME NEW o \in Promoters
        PROVE  LeadsAt(attempt'[o])
    <2>1. attempt'[o] = IF o = p THEN r ELSE attempt[o]
      BY DEF Inv
    <2> QED
      BY <2>1 DEF Leads
  <1>2. ASSUME NEW o \in Promoters
        PROVE  LeadsAt(attempt[o])'
    <2>1. \A v, w, incumbent : Before(v, w, incumbent)' <=> Before(v, w, incumbent)
      BY DEF Before, Beats, SameRankValues
    <2>2. \A listed : Passing(listed)' = Passing(listed)
      BY DEF Passing
    <2>3. LeadsAt(attempt'[o])
      BY <1>1
    <2> QED
      BY <2>1, <2>2, <2>3 DEF LeadsAt
  <1> QED
    BY <1>2 DEF Leads

\* A version published meanwhile was not listed.
LEMMA PublishLeads ==
  ASSUME Inv, Publish, NEW r, Sound(r), LeadsAt(r)
  PROVE  LeadsAt(r)'
  <1>1. \A v \in Published : registry'[v] = registry[v]
    BY DEF Publish, Published, Inv
  <1>2. /\ r.pc \in {"check", "link"} => r.winner \in Published
        /\ r.listed \subseteq Published /\ Passing(r.listed) \subseteq Published
    BY DEF Sound, Servable, Published, Passing
  <1>3. Passing(r.listed)' = Passing(r.listed)
    BY <1>1, <1>2 DEF Passing
  <1>4. ASSUME NEW v \in Published, NEW w \in Published, NEW incumbent,
               Before(v, w, incumbent)
        PROVE  Before(v, w, incumbent)'
    <2>1. registry'[v] = registry[v] /\ registry'[w] = registry[w]
      BY <1>1
    <2> QED
      BY <1>4, <2>1 DEF Before, Beats, SameRankValues
  <1>5. ASSUME r.pc \in {"check", "link"}, NEW v \in Passing(r.listed)
        PROVE  v = r.winner \/ Before(r.winner, v, r.before)'
    BY <1>2, <1>4, <1>5 DEF LeadsAt
  <1> QED
    BY <1>3, <1>5 DEF LeadsAt

LEMMA LeadsStep == Inv /\ Leads /\ [Next]_vars => Leads'
  <1> SUFFICES ASSUME Inv, Leads, [Next]_vars
               PROVE  Leads'
    OBVIOUS
  <1>1. ASSUME NEW p \in Promoters, NEW r, r.pc \notin {"check", "link"},
               registry' = registry, attempt' = [attempt EXCEPT ![p] = r]
        PROVE  Leads'
    BY <1>1, OneLeads DEF LeadsAt
  <1>2. ASSUME NEW p \in Promoters, Start(p)
        PROVE  Leads'
    <2>1. PICK apply \in BOOLEAN, target \in Aliases, pin \in Pins :
            attempt' = [attempt EXCEPT ![p] =
              [Quiet EXCEPT !.pc = "list", !.apply = apply, !.target = target, !.pin = pin]]
      BY <1>2 DEF Start
    <2>2. [Quiet EXCEPT !.pc = "list", !.apply = apply, !.target = target, !.pin = pin].pc
            = "list"
      BY DEF Quiet
    <2> QED
      BY <1>1, <1>2, <2>1, <2>2 DEF Start
  <1>3. ASSUME NEW p \in Promoters, ListCandidates(p)
        PROVE  Leads'
    <2> DEFINE r == [attempt[p] EXCEPT
                       !.pc = "resolve",
                       !.listed = {v \in Published : attempt[p].pin \in {v, None}}]
    <2>1. r.pc = "resolve" /\ attempt' = [attempt EXCEPT ![p] = r]
      BY <1>3 DEF ListCandidates, Inv, Attempt
    <2> HIDE DEF r
    <2> QED
      BY <1>1, <1>3, <2>1 DEF ListCandidates
  <1>4. ASSUME NEW p \in Promoters, Select(p)
        PROVE  Leads'
    <2> DEFINE before == alias[attempt[p].target]
    <2>1. PICK chosen \in Selected(attempt[p].listed, before) :
            attempt' = [attempt EXCEPT
              ![p].before = before, ![p].winner = chosen,
              ![p].pc = IF attempt[p].apply /\ Outcome(chosen, before) = "promote"
                        THEN "check" ELSE "audit"]
      BY <1>4 DEF Select
    <2> DEFINE pc == IF attempt[p].apply /\ Outcome(chosen, before) = "promote"
                     THEN "check" ELSE "audit"
               r == [attempt[p] EXCEPT !.before = before, !.winner = chosen, !.pc = pc]
    <2>2. attempt' = [attempt EXCEPT ![p] = r]
      BY <2>1 DEF Inv
    <2>3. ASSUME pc = "check", NEW v \in Passing(attempt[p].listed)
          PROVE  v = chosen \/ Before(chosen, v, before)
      <3>1. Outcome(chosen, before) = "promote"
        BY <2>3
      <3>2. chosen # None
        BY <3>1 DEF Outcome
      <3> QED
        BY <3>2 DEF Selected, Winners
    <2>4. pc \in {"check", "audit"}
      OBVIOUS
    <2> HIDE DEF pc, before
    <2>5. /\ r.pc = pc /\ r.before = before /\ r.winner = chosen
          /\ r.listed = attempt[p].listed
      BY DEF Inv, Attempt
    <2> HIDE DEF r
    <2>6. LeadsAt(r)
      BY <2>3, <2>4, <2>5 DEF LeadsAt
    <2> QED
      BY <1>4, <2>2, <2>6, OneLeads DEF Select
  <1>5. ASSUME NEW p \in Promoters, CheckAlias(p)
        PROVE  Leads'
    <2>1. PICK pc \in {"moved", "link"} : attempt' = [attempt EXCEPT ![p].pc = pc]
      BY <1>5 DEF CheckAlias
    <2> DEFINE r == [attempt[p] EXCEPT !.pc = pc]
    <2>2. attempt' = [attempt EXCEPT ![p] = r]
      BY <2>1 DEF Inv
    <2>3. /\ r.before = attempt[p].before /\ r.winner = attempt[p].winner
          /\ r.listed = attempt[p].listed /\ attempt[p].pc = "check"
      BY <1>5 DEF CheckAlias, Inv, Attempt
    <2> HIDE DEF r
    <2>4. LeadsAt(r)
      BY <2>3 DEF Leads, LeadsAt
    <2> QED
      BY <1>5, <2>2, <2>4, OneLeads DEF CheckAlias
  <1>6. ASSUME NEW p \in Promoters, NEW r, attempt' = [attempt EXCEPT ![p] = r],
               r.pc \in {"verify", "moved"}, registry' = registry
        PROVE  Leads'
    BY <1>1, <1>6
  <1>7. ASSUME NEW p \in Promoters, Link(p) \/ Verify(p)
        PROVE  Leads'
    <2>1. CASE Link(p)
      <3> DEFINE r == [attempt[p] EXCEPT !.pc = "verify"]
      <3>1. r.pc = "verify" /\ attempt' = [attempt EXCEPT ![p] = r]
        BY <2>1 DEF Link, Inv, Attempt
      <3> HIDE DEF r
      <3> QED
        BY <1>6, <2>1, <3>1 DEF Link
    <2>2. CASE Verify(p)
      <3> DEFINE r == [attempt[p] EXCEPT !.pc = "moved"]
      <3>1. r.pc = "moved" /\ attempt' = [attempt EXCEPT ![p] = r]
        BY <2>2 DEF Verify, Inv, Attempt
      <3> HIDE DEF r
      <3> QED
        BY <1>6, <2>2, <3>1 DEF Verify
    <2> QED
      BY <1>7, <2>1, <2>2
  <1>8. ASSUME NEW p \in Promoters, Audit(p) \/ Fail(p)
        PROVE  Leads'
    <2>1. PICK pc \in {"recorded", "failed"} : attempt' = EndedAs(p, pc)
      BY <1>8 DEF Audit, Fail
    <2>2. [Quiet EXCEPT !.pc = pc].pc = pc
      BY DEF Quiet
    <2> QED
      BY <1>1, <1>8, <2>1, <2>2 DEF EndedAs, Audit, Fail
  <1>9. CASE Publish
    <2>1. attempt' = attempt
      BY <1>9 DEF Publish
    <2>2. ASSUME NEW p \in Promoters
          PROVE  LeadsAt(attempt[p])'
      <3>1. LeadsAt(attempt[p]) /\ Sound(attempt[p]) /\ attempt'[p] = attempt[p]
        BY <2>1 DEF Leads, Inv
      <3> QED
        BY <1>9, <3>1, PublishLeads DEF LeadsAt
    <2> QED
      BY <2>2 DEF Leads
  <1>11. CASE MoveAlias
    BY <1>11 DEF MoveAlias, Leads, LeadsAt, Passing, Before, Beats, SameRankValues
  <1>10. CASE UNCHANGED vars
    BY <1>10 DEF vars, Leads, LeadsAt, Passing, Before, Beats, SameRankValues
  <1> QED
    BY <1>2, <1>3, <1>4, <1>5, <1>7, <1>8, <1>9, <1>10, <1>11 DEF Next

\* Whatever overlaps and whatever is linked from outside, a promotion never takes
\* an alias below a version it listed that passes the gates, the one it selected
\* against or not.
THEOREM MovesAreUp == Spec => MovesUp
  <1>1. Init => Inv /\ Leads
    BY InvInit DEF Init, Leads, LeadsAt, Quiet
  <1>2. Inv /\ Leads /\ [Next]_vars => Inv' /\ Leads'
    BY InvStep, LeadsStep
  <1>3. ASSUME Inv, Leads, [Next]_vars, NEW p \in Promoters,
               attempt[p].pc = "link", attempt'[p].pc = "verify",
               alias[attempt[p].target] \in Passing(attempt[p].listed)
        PROVE  \/ alias'[attempt[p].target] = alias[attempt[p].target]
               \/ Before(alias'[attempt[p].target], alias[attempt[p].target], attempt[p].before)
    <2>1. Link(p)
      <3> SUFFICES ASSUME ~Link(p)
                   PROVE  FALSE
        OBVIOUS
      <3>1. ASSUME NEW o \in Promoters, Start(o)
            PROVE  FALSE
        BY <1>3, <3>1 DEF Inv, Attempt, Start, Ended
      <3>2. ASSUME NEW o \in Promoters, ListCandidates(o)
            PROVE  FALSE
        BY <1>3, <3>2 DEF Inv, Attempt, ListCandidates
      <3>3. ASSUME NEW o \in Promoters, Select(o)
            PROVE  FALSE
        BY <1>3, <3>3 DEF Inv, Attempt, Select
      <3>4. ASSUME NEW o \in Promoters, CheckAlias(o)
            PROVE  FALSE
        BY <1>3, <3>4 DEF Inv, Attempt, CheckAlias
      <3>5. ASSUME NEW o \in Promoters, Verify(o)
            PROVE  FALSE
        BY <1>3, <3>5 DEF Inv, Attempt, Verify
      <3>6. ASSUME NEW o \in Promoters, Audit(o) \/ Fail(o)
            PROVE  FALSE
        BY <1>3, <3>6 DEF Inv, Attempt, Audit, Fail, EndedAs, Quiet
      <3>7. ASSUME NEW o \in Promoters, Link(o)
            PROVE  FALSE
        BY <1>3, <3>7 DEF Inv, Attempt, Link
      <3>8. CASE Publish \/ MoveAlias \/ UNCHANGED vars
        BY <1>3, <3>8 DEF Publish, MoveAlias, vars
      <3> QED
        BY <1>3, <3>1, <3>2, <3>3, <3>4, <3>5, <3>6, <3>7, <3>8 DEF Next
    <2>2. alias'[attempt[p].target] = attempt[p].winner
      BY <1>3, <2>1 DEF Link, Inv, Sound, Ended
    <2> QED
      BY <1>3, <2>2 DEF Leads, LeadsAt
  <1>4. Inv /\ Leads /\ [Next]_vars =>
          [\A p \in Promoters :
             LET run == attempt[p]
                 replaced == alias[run.target] IN
             /\ run.pc = "link" /\ attempt'[p].pc = "verify"
             /\ replaced \in Passing(run.listed)
             => alias'[run.target] = replaced
                  \/ Before(alias'[run.target], replaced, run.before)]_vars
    BY <1>3
  <1> QED
    BY <1>1, <1>2, <1>4, PTL DEF Spec, MovesUp

-----------------------------------------------------------------------------
(* Sorting by rank *)

\* What sorts: one of any two is before the other, never both, and so on.
StrictOrder(S, R) ==
  /\ \A a \in S : <<a, a>> \notin R
  /\ \A a, b \in S : a = b \/ <<a, b>> \in R \/ <<b, a>> \in R
  /\ \A a, b, c \in S : <<a, b>> \in R /\ <<b, c>> \in R => <<a, c>> \in R

\* The elements of S, each at the place that as many are before it as R has.
Numbered(S, R) ==
  [k \in 1..Cardinality(S) |-> CHOOSE a \in S : Cardinality({b \in S : <<b, a>> \in R}) = k - 1]

\* That is a numbering of S in the order of R.
LEMMA NumberedIs ==
  ASSUME NEW S, IsFiniteSet(S), NEW R, StrictOrder(S, R)
  PROVE  /\ Numbered(S, R) \in [1..Cardinality(S) -> S]
         /\ \A i, j \in 1..Cardinality(S) : i < j <=> <<Numbered(S, R)[i], Numbered(S, R)[j]>> \in R
         /\ \A a \in S : \E k \in 1..Cardinality(S) : Numbered(S, R)[k] = a
         /\ \A k \in 1..Cardinality(S) :
              Cardinality({b \in S : <<b, Numbered(S, R)[k]>> \in R}) = k - 1
  <1> DEFINE n == Cardinality(S)
             before(a) == {b \in S : <<b, a>> \in R}
             rank == [a \in S |-> Cardinality(before(a))]
             order == Numbered(S, R)
             ahead(a, b) == <<a, b>> \in R
  <1>0. /\ \A a \in S : ~ahead(a, a)
        /\ \A a, b \in S : a = b \/ ahead(a, b) \/ ahead(b, a)
        /\ \A a, b, c \in S : ahead(a, b) /\ ahead(b, c) => ahead(a, c)
    BY DEF StrictOrder
  <1>1. n \in Nat
    BY FS_CardinalityType
  <1>2. ASSUME NEW a \in S
        PROVE  IsFiniteSet(before(a)) /\ rank[a] \in 0..(n - 1)
    <2>1. before(a) \subseteq S /\ a \notin before(a)
      BY <1>0
    <2>2. IsFiniteSet(before(a)) /\ Cardinality(before(a)) <= n /\ Cardinality(before(a)) # n
      BY <2>1, FS_Subset
    <2>3. Cardinality(before(a)) \in Nat
      BY <2>2, FS_CardinalityType
    <2> QED
      BY <1>1, <2>2, <2>3
  <1>3. ASSUME NEW a \in S, NEW b \in S, ahead(a, b)
        PROVE  rank[a] < rank[b]
    <2>1. before(a) \subseteq before(b) /\ a \in before(b) /\ a \notin before(a)
      BY <1>0, <1>3
    <2>2. Cardinality(before(a)) <= Cardinality(before(b)) /\ Cardinality(before(a)) # Cardinality(before(b))
      BY <1>2, <2>1, FS_Subset
    <2>3. Cardinality(before(a)) \in Nat /\ Cardinality(before(b)) \in Nat
      BY <1>2, FS_CardinalityType
    <2> QED
      BY <2>2, <2>3
  <1>a. rank \in [S -> 0..(n - 1)] /\ n = Cardinality(S)
    BY <1>2
  <1>b. \A a \in S : rank[a] = Cardinality({b \in S : <<b, a>> \in R})
    OBVIOUS
  <1>c. \A a, b \in S : ahead(a, b) => rank[a] < rank[b]
    BY <1>3
  <1> HIDE DEF rank, n, before, ahead
  <1>d. \A a \in S : rank[a] \in 0..(n - 1) /\ rank[a] \in Nat
    BY <1>1, <1>a
  <1>4. rank \in Injection(S, 0..(n - 1))
    <2>1. ASSUME NEW a \in S, NEW b \in S, rank[a] = rank[b]
          PROVE  a = b
      BY <1>0, <1>c, <1>d, <2>1
    <2> QED
      BY <1>a, <2>1 DEF Injection, IsInjective
  <1>5. rank \in Surjection(S, 0..(n - 1))
    <2>1. IsFiniteSet(0..(n - 1)) /\ Cardinality(0..(n - 1)) = n
      BY <1>1, FS_Interval
    <2> QED
      BY <1>4, <1>a, <2>1, FS_Injection
  <1>6. ASSUME NEW i \in 1..n
        PROVE  order[i] \in S /\ rank[order[i]] = i - 1
    <2>1. i - 1 \in 0..(n - 1)
      BY <1>1
    <2>2. \E a \in S : rank[a] = i - 1
      BY <1>5, <2>1 DEF Surjection
    <2>3. order[i] = CHOOSE a \in S : rank[a] = i - 1
      BY <1>a, <1>b DEF Numbered
    <2> QED
      BY <2>2, <2>3
  <1>7. order \in [1..n -> S]
    BY <1>6, <1>a DEF Numbered
  <1> HIDE DEF order
  <1>8. \A i, j \in 1..n : i < j <=> ahead(order[i], order[j])
    <2> SUFFICES ASSUME NEW i \in 1..n, NEW j \in 1..n
                 PROVE  i < j <=> ahead(order[i], order[j])
      OBVIOUS
    <2>1. /\ order[i] \in S /\ order[j] \in S /\ rank[order[i]] = i - 1 /\ rank[order[j]] = j - 1
      BY <1>6
    <2>2. ahead(order[i], order[j]) => i < j
      BY <1>c, <2>1, <1>1
    <2>3. ASSUME i < j PROVE ahead(order[i], order[j])
      <3>1. order[i] # order[j]
        BY <1>1, <2>1, <2>3
      <3>2. ~ahead(order[j], order[i])
        BY <1>1, <1>c, <2>1, <2>3
      <3> QED
        BY <1>0, <2>1, <3>1, <3>2
    <2> QED
      BY <2>2, <2>3
  <1>9. ASSUME NEW a \in S
        PROVE  \E i \in 1..n : order[i] = a
    <2>1. rank[a] + 1 \in 1..n /\ (rank[a] + 1) - 1 = rank[a]
      BY <1>1, <1>d
    <2>2. rank[order[rank[a] + 1]] = rank[a] /\ order[rank[a] + 1] \in S
      BY <1>6, <2>1
    <2>3. order[rank[a] + 1] = a
      BY <1>4, <2>2 DEF Injection, IsInjective
    <2> QED
      BY <2>1, <2>3
  <1>10. \A i \in 1..n : Cardinality({b \in S : <<b, order[i]>> \in R}) = i - 1
    BY <1>6, <1>b
  <1> QED
    BY <1>7, <1>8, <1>9, <1>10 DEF n, order, ahead

\* Keys of one length are ordered strictly.
LEMMA KeysOrdered ==
  ASSUME NEW N \in Nat, NEW S, NEW key \in [S -> [1..N -> Int]],
         \A a, b \in S : key[a] = key[b] => a = b
  PROVE  StrictOrder(S, {ss \in S \X S : Precedes(key[ss[1]], key[ss[2]])})
  <1> DEFINE R == {ss \in S \X S : Precedes(key[ss[1]], key[ss[2]])}
  <1>1. \A a, b \in S : <<a, b>> \in R <=> Precedes(key[a], key[b])
    OBVIOUS
  <1>2. \A a \in S : key[a] \in [1..N -> Int]
    OBVIOUS
  <1>3. ASSUME NEW k \in [1..N -> Int] PROVE ~Precedes(k, k)
    BY DEF Precedes
  <1>4. ASSUME NEW k \in [1..N -> Int], NEW l \in [1..N -> Int], k # l
        PROVE  Precedes(k, l) \/ Precedes(l, k)
    <2> DEFINE D == {i \in 1..N : k[i] # l[i]}
    <2>1. D # {}
      <3>1. k = [i \in 1..N |-> k[i]] /\ l = [i \in 1..N |-> l[i]]
        OBVIOUS
      <3>2. ASSUME \A i \in 1..N : k[i] = l[i] PROVE k = l
        <4>1. [i \in 1..N |-> k[i]] = [i \in 1..N |-> l[i]]
          BY <3>2
        <4> QED
          BY <3>1, <4>1
      <3>3. PICK i \in 1..N : k[i] # l[i]
        BY <1>4, <3>2
      <3> QED
        BY <3>3
    <2>0. D \subseteq Nat
      OBVIOUS
    <2>2. PICK i \in D : \A j \in D : i <= j
      <3> HIDE DEF D
      <3> QED
        BY <2>0, <2>1, NaturalsMin
    <2>3. i \in 1..N /\ k[i] # l[i] /\ k[i] \in Int /\ l[i] \in Int
      BY <2>2
    <2>4. \A j \in 1..(i - 1) : k[j] = l[j]
      <3> SUFFICES ASSUME NEW j \in 1..(i - 1) PROVE k[j] = l[j]
        OBVIOUS
      <3>1. j \in 1..N /\ ~(i <= j)
        BY <2>3
      <3> QED
        BY <2>2, <3>1
    <2>5. k[i] < l[i] \/ l[i] < k[i]
      BY <2>3
    <2> QED
      BY <2>3, <2>4, <2>5 DEF Precedes
  <1>5. ASSUME NEW k \in [1..N -> Int], NEW l \in [1..N -> Int], NEW m \in [1..N -> Int],
               Precedes(k, l), Precedes(l, m)
        PROVE  Precedes(k, m)
    <2>1. PICK i \in 1..N : k[i] < l[i] /\ \A h \in 1..(i - 1) : k[h] = l[h]
      BY <1>5 DEF Precedes
    <2>2. PICK j \in 1..N : l[j] < m[j] /\ \A h \in 1..(j - 1) : l[h] = m[h]
      BY <1>5 DEF Precedes
    <2>3. k[i] \in Int /\ l[i] \in Int /\ m[i] \in Int /\ k[j] \in Int /\ l[j] \in Int /\ m[j] \in Int
      OBVIOUS
    <2>4. CASE i <= j
      <3>1. \A h \in 1..(i - 1) : h \in 1..(j - 1)
        BY <2>4
      <3>2. k[i] < m[i]
        <4>1. CASE i = j
          BY <2>1, <2>2, <2>3, <4>1
        <4>2. CASE i # j
          <5>1. i \in 1..(j - 1)
            BY <2>4, <4>2
          <5> QED
            BY <2>1, <2>2, <2>3, <5>1
        <4> QED
          BY <4>1, <4>2
      <3> QED
        BY <2>1, <2>2, <3>1, <3>2 DEF Precedes
    <2>5. CASE ~(i <= j)
      <3>1. /\ \A h \in 1..(j - 1) : h \in 1..(i - 1)
            /\ j \in 1..(i - 1)
        BY <2>5
      <3>2. k[j] < m[j]
        BY <2>1, <2>2, <3>1
      <3> QED
        BY <2>1, <2>2, <3>1, <3>2 DEF Precedes
    <2> QED
      BY <2>4, <2>5
  <1> HIDE DEF R
  <1>6. \A a \in S : <<a, a>> \notin R
    BY <1>1, <1>2, <1>3
  <1>7. \A a, b \in S : a = b \/ <<a, b>> \in R \/ <<b, a>> \in R
    BY <1>1, <1>2, <1>4
  <1>8. \A a, b, c \in S : <<a, b>> \in R /\ <<b, c>> \in R => <<a, c>> \in R
    BY <1>1, <1>2, <1>5
  <1> QED
    BY <1>6, <1>7, <1>8 DEF StrictOrder, R

\* Of some elements with keys one is preceded by none: a choice by a key is of one.
LEMMA LeastKey ==
  ASSUME NEW N \in Nat, NEW S, IsFiniteSet(S), S # {}, NEW key \in [S -> [1..N -> Int]]
  PROVE  \E r \in S : \A o \in S : ~Precedes(key[o], key[r])
  <1> DEFINE T == {key[s] : s \in S}
             id == [t \in T |-> t]
             R == {ss \in T \X T : Precedes(id[ss[1]], id[ss[2]])}
  <1>1. IsFiniteSet(T)
    <2>1. key \in Surjection(S, T)
      BY DEF Surjection
    <2> QED
      BY <2>1, FS_Surjection
  <1>2. T \subseteq [1..N -> Int] /\ T # {}
    OBVIOUS
  <1>3. StrictOrder(T, R)
    <2>1. id \in [T -> [1..N -> Int]] /\ \A a, b \in T : id[a] = id[b] => a = b
      BY <1>2
    <2> HIDE DEF T, id
    <2> QED
      BY <2>1, KeysOrdered
  <1>4. \A a, b \in T : <<a, b>> \in R <=> Precedes(a, b)
    OBVIOUS
  <1> HIDE DEF T, R
  <1>5. Cardinality(T) \in Nat /\ Cardinality(T) # 0
    BY <1>1, <1>2, FS_CardinalityType, FS_EmptySet
  <1>6. 1 \in 1..Cardinality(T)
    BY <1>5
  <1> DEFINE t == Numbered(T, R)[1]
  <1>7. t \in T /\ \A a \in T : <<a, t>> \notin R
    <2> DEFINE s == Numbered(T, R)
    <2>1. /\ s \in [1..Cardinality(T) -> T]
          /\ \A i, j \in 1..Cardinality(T) : i < j <=> <<s[i], s[j]>> \in R
          /\ \A a \in T : \E k \in 1..Cardinality(T) : s[k] = a
      BY <1>1, <1>3, NumberedIs
    <2> HIDE DEF s
    <2>2. s[1] \in T
      BY <1>6, <2>1
    <2>3. ASSUME NEW a \in T PROVE <<a, s[1]>> \notin R
      <3>1. PICK k \in 1..Cardinality(T) : s[k] = a
        BY <2>1
      <3>2. ~(k < 1)
        BY <1>5
      <3> QED
        BY <1>6, <2>1, <3>1, <3>2
    <2> QED
      BY <2>2, <2>3 DEF s
  <1>8. \A a \in T : ~Precedes(a, t)
    BY <1>4, <1>7
  <1>9. PICK r \in S : key[r] = t
    BY <1>7 DEF T
  <1> QED
    BY <1>8, <1>9 DEF T

ByKey(S, key) ==
  [k \in 1..Cardinality(S) |->
     CHOOSE r \in S : Cardinality({o \in S : Precedes(key[o], key[r])}) = k - 1]

\* All of them, each once, in the order of their keys.
SortedBy(s, S, key) ==
  /\ Cardinality(S) \in Nat
  /\ s \in [1..Cardinality(S) -> S]
  /\ \A i, j \in 1..Cardinality(S) : i < j <=> Precedes(key[s[i]], key[s[j]])
  /\ \A i, j \in 1..Cardinality(S) : s[i] = s[j] => i = j
  /\ \A a \in S : \E k \in 1..Cardinality(S) : s[k] = a

\* Ranking by a key sorts by it.
LEMMA RankedIs ==
  ASSUME NEW N \in Nat, NEW S, IsFiniteSet(S), NEW key \in [S -> [1..N -> Int]],
         \A a, b \in S : key[a] = key[b] => a = b
  PROVE  SortedBy(ByKey(S, key), S, key)
  <1> DEFINE s == ByKey(S, key)
             R == {ss \in S \X S : Precedes(key[ss[1]], key[ss[2]])}
  <1>1. StrictOrder(S, R)
    BY KeysOrdered
  <1>2. \A a, b \in S : <<a, b>> \in R <=> Precedes(key[a], key[b])
    OBVIOUS
  <1> HIDE DEF R, s
  <1>3. \A r \in S : {o \in S : Precedes(key[o], key[r])} = {b \in S : <<b, r>> \in R}
    BY <1>2
  <1>4. \A k \in 1..Cardinality(S) : s[k] = Numbered(S, R)[k]
    <2> DEFINE rank == [r \in S |-> Cardinality({b \in S : <<b, r>> \in R})]
    <2>1. \A r \in S : Cardinality({o \in S : Precedes(key[o], key[r])}) = rank[r]
      BY <1>3
    <2>2. \A r \in S : Cardinality({b \in S : <<b, r>> \in R}) = rank[r]
      OBVIOUS
    <2> HIDE DEF rank
    <2>3. ASSUME NEW k \in 1..Cardinality(S)
          PROVE  s[k] = Numbered(S, R)[k]
      <3>1. s[k] = CHOOSE r \in S : rank[r] = k - 1
        BY <2>1 DEF s, ByKey
      <3>2. Numbered(S, R)[k] = CHOOSE r \in S : rank[r] = k - 1
        BY <2>2 DEF Numbered
      <3> QED
        BY <3>1, <3>2
    <2> QED
      BY <2>3
  <1> DEFINE n == Cardinality(S)
             t == Numbered(S, R)
  <1>b. /\ t \in [1..n -> S]
        /\ \A i, j \in 1..n : i < j <=> <<t[i], t[j]>> \in R
        /\ \A a \in S : \E k \in 1..n : t[k] = a
    BY <1>1, NumberedIs
  <1>d. \A k \in 1..n : s[k] = t[k]
    BY <1>4
  <1> HIDE DEF n, t
  <1>e. \A k \in 1..n : s[k] \in S
    BY <1>b, <1>d
  <1>f. \A k \in 1..Cardinality(S) : s[k] \in S
    BY <1>e DEF n
  <1>a. s \in [1..Cardinality(S) -> S]
    BY <1>f DEF s, ByKey
  <1>g. /\ \A i, j \in 1..n : i < j <=> <<s[i], s[j]>> \in R
        /\ \A a \in S : \E k \in 1..n : s[k] = a
    BY <1>b, <1>d
  <1>5. /\ \A i, j \in 1..Cardinality(S) : i < j <=> <<s[i], s[j]>> \in R
        /\ \A a \in S : \E k \in 1..Cardinality(S) : s[k] = a
    BY <1>g DEF n
  <1>6. \A i, j \in 1..Cardinality(S) : i < j <=> Precedes(key[s[i]], key[s[j]])
    BY <1>2, <1>5, <1>f
  <1>7. Cardinality(S) \in Nat
    BY FS_CardinalityType
  <1>8. ASSUME NEW i \in 1..Cardinality(S), NEW j \in 1..Cardinality(S), s[i] = s[j]
        PROVE  i = j
    <2>1. ~(i < j) /\ ~(j < i)
      <3>1. \A a \in S : <<a, a>> \notin R
        BY <1>1 DEF StrictOrder
      <3> QED
        BY <1>a, <1>5, <1>8, <3>1
    <2> QED
      BY <1>7, <2>1
  <1> QED
    BY <1>a, <1>5, <1>6, <1>7, <1>8 DEF s, SortedBy

-----------------------------------------------------------------------------
(* Samples and thresholds *)

Samples == Seq([label : {0, 1}, score : 0..100])

LEMMA SampleIs ==
  ASSUME NEW sample \in Samples
  PROVE  /\ Len(sample) \in Nat /\ DOMAIN sample = 1..Len(sample)
         /\ \A i \in 1..Len(sample) :
              /\ sample[i].label \in {0, 1}
              /\ sample[i].score \in Int /\ sample[i].score \in 0..100
  <1> DEFINE kinds == [label : {0, 1}, score : 0..100]
  <1>1. \A r \in kinds : r.label \in {0, 1} /\ r.score \in Int /\ r.score \in 0..100
    OBVIOUS
  <1>2. sample \in Seq(kinds)
    BY DEF Samples
  <1> HIDE DEF kinds
  <1>3. Len(sample) \in Nat /\ DOMAIN sample = 1..Len(sample)
    BY <1>2
  <1>4. \A i \in 1..Len(sample) : sample[i] \in kinds
    BY <1>2
  <1> QED
    BY <1>1, <1>3, <1>4

Late(sorted, k) == {j \in 1..k : sorted[j].label = 1}

LEMMA LateGrows ==
  ASSUME NEW sorted \in Samples, NEW k \in 1..Len(sorted)
  PROVE  /\ IsFiniteSet(Late(sorted, k)) /\ Cardinality(Late(sorted, k)) \in Nat
         /\ Cardinality(Late(sorted, k)) = Cardinality(Late(sorted, k - 1)) + sorted[k].label
  <1>1. ASSUME NEW i \in Nat PROVE IsFiniteSet(Late(sorted, i))
    <2>1. IsFiniteSet(1..i)
      BY FS_Interval
    <2>2. Late(sorted, i) \subseteq 1..i
      BY DEF Late
    <2> QED
      BY <2>1, <2>2, FS_Subset
  <1>0. Len(sorted) \in Nat
    BY DEF Samples
  <1>a. k \in Nat /\ k - 1 \in Nat
    BY <1>0
  <1>b. \A i \in Nat : IsFiniteSet(Late(sorted, i))
    BY <1>1
  <1>2. IsFiniteSet(Late(sorted, k)) /\ IsFiniteSet(Late(sorted, k - 1))
    BY <1>a, <1>b, Zenon
  <1>3. sorted[k].label \in {0, 1}
    BY SampleIs
  <1>4. CASE sorted[k].label = 1
    <2>1. Late(sorted, k) = Late(sorted, k - 1) \union {k} /\ k \notin Late(sorted, k - 1)
      BY <1>4 DEF Late, Samples
    <2>2. Cardinality(Late(sorted, k - 1) \union {k}) = Cardinality(Late(sorted, k - 1)) + 1
      BY <1>2, <2>1, FS_AddElement
    <2>3. Cardinality(Late(sorted, k)) = Cardinality(Late(sorted, k - 1)) + 1
      BY <2>1, <2>2, Zenon
    <2> QED
      BY <1>2, <1>4, <2>3, FS_CardinalityType
  <1>5. CASE sorted[k].label = 0
    <2>1. Late(sorted, k) = Late(sorted, k - 1)
      BY <1>5 DEF Late, Samples
    <2>2. Cardinality(Late(sorted, k)) = Cardinality(Late(sorted, k - 1))
      BY <2>1, Zenon
    <2>3. Cardinality(Late(sorted, k)) \in Nat
      BY <1>2, FS_CardinalityType
    <2> QED
      BY <1>2, <1>5, <2>2, <2>3
  <1> QED
    BY <1>3, <1>4, <1>5

\* The running sum of the labels counts the late flights so far.
LEMMA CumulativeIs ==
  ASSUME NEW sorted \in Samples, NEW k \in 0..Len(sorted)
  PROVE  Cumulative(sorted)[k] = Cardinality(Late(sorted, k))
  <1> DEFINE n == Len(sorted)
             f == [i \in 0..n |-> Cardinality(Late(sorted, i))]
             g == Cumulative(sorted)
             step(h) == [i \in 0..n |-> IF i = 0 THEN 0 ELSE h[i - 1] + sorted[i].label]
  <1>0. n \in Nat
    BY DEF Samples
  <1>1. f[0] = 0
    <2>1. Late(sorted, 0) = {}
      BY DEF Late
    <2>2. Cardinality(Late(sorted, 0)) = 0
      BY <2>1, FS_EmptySet, Zenon
    <2> QED
      BY <1>0, <2>2
  <1>2. \A i \in 1..n : f[i] = f[i - 1] + sorted[i].label
    BY <1>0, LateGrows
  <1>3. f = step(f)
    <2> DEFINE c(i) == Cardinality(Late(sorted, i))
    <2>2. f = [i \in 0..n |-> c(i)]
      OBVIOUS
    <2>3. \A i \in 0..n : f[i] = c(i)
      OBVIOUS
    <2> HIDE DEF c, f, n
    <2>1. \A i \in 0..n : c(i) = IF i = 0 THEN 0 ELSE f[i - 1] + sorted[i].label
      <3>1. ASSUME NEW i \in 0..n, i # 0 PROVE i \in 1..n
        BY <1>0, <3>1
      <3> QED
        BY <1>0, <1>1, <1>2, <2>3, <3>1
    <2> HIDE DEF f
    <2> QED
      BY <2>1, <2>2
  <1>4. g = step(g)
    <2>1. g = CHOOSE h : h = step(h)
      BY DEF Cumulative
    <2> HIDE DEF step, f, g
    <2> QED
      BY <1>3, <2>1
  <1>5. g[0] = 0 /\ \A i \in 1..n : g[i] = g[i - 1] + sorted[i].label
    <2> HIDE DEF g
    <2>1. \A i \in 0..n : g[i] = step(g)[i]
      BY <1>4
    <2>2. \A i \in 0..n : g[i] = IF i = 0 THEN 0 ELSE g[i - 1] + sorted[i].label
      BY <2>1
    <2> HIDE DEF step
    <2>3. 0 \in 0..n /\ \A i \in 1..n : i \in 0..n /\ i # 0
      BY <1>0
    <2> QED
      BY <2>2, <2>3
  <1> DEFINE D == {i \in 0..n : g[i] # f[i]}
  <1>6. D = {}
    <2> SUFFICES ASSUME D # {} PROVE FALSE
      OBVIOUS
    <2>1. D \subseteq Nat
      BY <1>0
    <2>2. PICK i \in D : \A j \in D : i <= j
      <3> HIDE DEF D
      <3> QED
        BY <2>1, NaturalsMin
    <2>3. i \in 0..n /\ g[i] # f[i]
      BY <2>2
    <2>4. i # 0
      BY <1>1, <1>5, <2>3
    <2>5. i \in 1..n /\ i - 1 \in 0..n /\ ~(i <= i - 1)
      BY <1>0, <2>3, <2>4
    <2>6. g[i - 1] = f[i - 1]
      BY <2>2, <2>5
    <2> QED
      BY <1>2, <1>5, <2>3, <2>5, <2>6
  <1> QED
    BY <1>6

\* The sort rearranges a sample, its scores falling; its first k rows are those of
\* the k first places.
LEMMA SortedIs ==
  ASSUME NEW sample \in Samples
  PROVE  \E place \in Bijection(1..Len(sample), 1..Len(sample)) :
           /\ Sorted(sample) = [k \in 1..Len(sample) |-> sample[place[k]]]
           /\ \A i, j \in 1..Len(sample) :
                i < j => sample[place[i]].score >= sample[place[j]].score
  <1> DEFINE n == Len(sample)
             P == 1..n
             R == {ss \in P \X P : Sooner(sample, ss[1], ss[2])}
             place == Numbered(P, R)
             score == [i \in P |-> sample[i].score]
  <1>0. n \in Nat /\ DOMAIN sample = P /\ \A i \in P : i \in Int
    BY SampleIs
  <1>s. score \in [P -> Int] /\ \A i \in P : score[i] = sample[i].score
    BY SampleIs
  <1>1. \A i, j \in P : <<i, j>> \in R <=> Sooner(sample, i, j)
    OBVIOUS
  <1> HIDE DEF P, R, score
  <1>t. \A i, j \in P : Sooner(sample, i, j) <=> score[i] > score[j] \/ (score[i] = score[j] /\ i < j)
    BY <1>s DEF Sooner
  <1>2. StrictOrder(P, R)
    <2>1. \A a \in P : <<a, a>> \notin R
      BY <1>0, <1>1, <1>s, <1>t
    <2>2. ASSUME NEW a \in P, NEW b \in P, a # b
          PROVE  <<a, b>> \in R \/ <<b, a>> \in R
      <3>1. score[a] \in Int /\ score[b] \in Int /\ a \in Int /\ b \in Int
        BY <1>0, <1>s
      <3>2. \/ score[a] > score[b] \/ (score[a] = score[b] /\ a < b)
            \/ score[b] > score[a] \/ (score[b] = score[a] /\ b < a)
        BY <2>2, <3>1
      <3> QED
        BY <1>1, <1>t, <3>2
    <2>3. ASSUME NEW a \in P, NEW b \in P, NEW c \in P, <<a, b>> \in R, <<b, c>> \in R
          PROVE  <<a, c>> \in R
      <3>1. /\ score[a] \in Int /\ score[b] \in Int /\ score[c] \in Int
            /\ a \in Int /\ b \in Int /\ c \in Int
        BY <1>0, <1>s
      <3>2. /\ score[a] > score[b] \/ (score[a] = score[b] /\ a < b)
            /\ score[b] > score[c] \/ (score[b] = score[c] /\ b < c)
        BY <1>1, <1>t, <2>3
      <3>3. score[a] > score[c] \/ (score[a] = score[c] /\ a < c)
        BY <3>1, <3>2
      <3> QED
        BY <1>1, <1>t, <3>3
    <2> QED
      BY <2>1, <2>2, <2>3 DEF StrictOrder
  <1>3. IsFiniteSet(P) /\ Cardinality(P) = n
    <2> HIDE DEF n
    <2> QED
      BY <1>0, FS_Interval DEF P
  <1>4. /\ place \in [1..n -> P]
        /\ \A i, j \in 1..n : i < j <=> <<place[i], place[j]>> \in R
        /\ \A a \in P : \E k \in 1..n : place[k] = a
    BY <1>2, <1>3, NumberedIs
  <1>5. \A k \in P : (CHOOSE i \in P : Cardinality({j \in P : Sooner(sample, j, i)}) = k - 1) = place[k]
    <2> DEFINE rank == [i \in P |-> Cardinality({j \in P : <<j, i>> \in R})]
    <2>1. \A i \in P : {j \in P : Sooner(sample, j, i)} = {j \in P : <<j, i>> \in R}
      BY <1>1
    <2>2. \A i \in P : Cardinality({j \in P : Sooner(sample, j, i)}) = rank[i]
      BY <2>1
    <2>3. \A i \in P : Cardinality({j \in P : <<j, i>> \in R}) = rank[i]
      OBVIOUS
    <2> HIDE DEF rank
    <2>4. ASSUME NEW k \in P
          PROVE  (CHOOSE i \in P : Cardinality({j \in P : Sooner(sample, j, i)}) = k - 1) = place[k]
      <3>1. (CHOOSE i \in P : Cardinality({j \in P : Sooner(sample, j, i)}) = k - 1)
              = CHOOSE i \in P : rank[i] = k - 1
        BY <2>2
      <3>2. place[k] = CHOOSE i \in P : rank[i] = k - 1
        BY <1>3, <2>3 DEF Numbered, P
      <3> QED
        BY <3>1, <3>2
    <2> QED
      BY <2>4
  <1> HIDE DEF place
  <1>6. Sorted(sample) = [k \in P |-> sample[place[k]]]
    <2>1. Sorted(sample) =
            [k \in P |-> sample[CHOOSE i \in P : Cardinality({j \in P : Sooner(sample, j, i)}) = k - 1]]
      BY <1>0 DEF Sorted
    <2> QED
      BY <1>5, <2>1
  <1>7. \A i, j \in P : place[i] = place[j] => i = j
    <2>1. ASSUME NEW i \in P, NEW j \in P, place[i] = place[j] PROVE i = j
      <3>1. place[i] \in P /\ <<place[i], place[i]>> \notin R
        BY <1>2, <1>4 DEF P, StrictOrder
      <3>2. ~(i < j) /\ ~(j < i)
        BY <1>4, <2>1, <3>1 DEF P
      <3> QED
        BY <1>0, <3>2
    <2> QED
      BY <2>1
  <1>8. place \in Bijection(P, P)
    <2>1. place \in [P -> P] /\ \A a \in P : \E k \in P : place[k] = a
      BY <1>4 DEF P
    <2> QED
      BY <1>7, <2>1 DEF Bijection, Injection, IsInjective, Surjection
  <1>9. \A i, j \in P : i < j => sample[place[i]].score >= sample[place[j]].score
    <2>1. \A i \in P : place[i] \in P
      BY <1>4 DEF P
    <2>2. \A i, j \in P : i < j => Sooner(sample, place[i], place[j])
      BY <1>1, <1>4, <2>1 DEF P
    <2>3. ASSUME NEW i \in P, NEW j \in P, i < j
          PROVE  sample[place[i]].score >= sample[place[j]].score
      <3>1. /\ score[place[i]] \in Int /\ score[place[j]] \in Int
            /\ score[place[i]] = sample[place[i]].score /\ score[place[j]] = sample[place[j]].score
        BY <1>s, <2>1
      <3>2. score[place[i]] > score[place[j]] \/ score[place[i]] = score[place[j]]
        BY <1>t, <2>1, <2>2, <2>3
      <3> QED
        BY <3>1, <3>2
    <2> QED
      BY <2>3
  <1> QED
    BY <1>6, <1>8, <1>9 DEF P

\* The sweep's counts at the end of a group are the counts at its threshold.
LEMMA SweepIsCurve ==
  ASSUME NEW sample \in Samples
  PROVE  SweepRows(sample) = CurveRows(sample)
  <1> DEFINE n == Len(sample)
             P == 1..n
             sorted == Sorted(sample)
             above(t) == {i \in P : sample[i].score >= t}
             lateAbove(t) == {i \in P : sample[i].score >= t /\ sample[i].label = 1}
  <1>0. /\ n \in Nat /\ DOMAIN sample = P
        /\ \A i \in P : sample[i].score \in Int /\ sample[i].label \in {0, 1}
    BY SampleIs
  <1>1. PICK place \in Bijection(P, P) :
           /\ sorted = [k \in P |-> sample[place[k]]]
           /\ \A i, j \in P : i < j => sample[place[i]].score >= sample[place[j]].score
    BY SortedIs
  <1>2. /\ place \in [P -> P]
        /\ \A i, j \in P : place[i] = place[j] => i = j
        /\ \A a \in P : \E k \in P : place[k] = a
    BY <1>1 DEF Bijection, Injection, IsInjective, Surjection
  <1>3. sorted \in Samples /\ Len(sorted) = n /\ DOMAIN sorted = P
    <2>1. \A k \in P : sample[place[k]] \in [label : {0, 1}, score : 0..100]
      <3> DEFINE kinds == [label : {0, 1}, score : 0..100]
      <3>1. sample \in Seq(kinds)
        BY DEF Samples
      <3> HIDE DEF kinds
      <3>2. \A i \in P : sample[i] \in kinds
        BY <3>1
      <3> QED
        BY <1>2, <3>2 DEF kinds
    <2> HIDE DEF sorted
    <2> QED
      BY <1>0, <1>1, <2>1 DEF Samples
  <1>4. \A k \in P : sorted[k] = sample[place[k]] /\ place[k] \in P
    BY <1>1, <1>2
  <1>a. \A j \in P : sorted[j].score \in Int /\ sorted[j].label \in {0, 1}
    <2> HIDE DEF sorted
    <2> QED
      BY <1>0, <1>4
  <1>b. \A i, j \in P : i < j => sorted[i].score >= sorted[j].score
    <2> HIDE DEF sorted
    <2> QED
      BY <1>1, <1>4
  <1> HIDE DEF sorted, n
  <1>5. ASSUME NEW k \in GroupEnds(sorted)
        PROVE  /\ k \in P /\ sorted[k].score \in Int
               /\ above(sorted[k].score) = {place[j] : j \in 1..k}
               /\ lateAbove(sorted[k].score) = {place[j] : j \in Late(sorted, k)}
    <2> DEFINE t == sorted[k].score
    <2>1. k \in P /\ (k = n \/ sorted[k + 1].score # t)
      BY <1>3 DEF GroupEnds
    <2>2. t \in Int
      BY <1>0, <1>4, <2>1
    <2>3. ASSUME NEW j \in P, j <= k PROVE sorted[j].score >= t
      <3>1. CASE j = k
        BY <2>2, <3>1
      <3>2. CASE j # k
        <4>1. j < k
          BY <1>0, <2>1, <2>3, <3>2
        <4> QED
          BY <1>b, <2>1, <4>1
      <3> QED
        BY <3>1, <3>2
    <2>4. ASSUME NEW j \in P, j > k PROVE sorted[j].score < t
      <3>1. k + 1 \in P /\ k < k + 1 /\ sorted[k + 1].score # t
        BY <1>0, <2>1, <2>4
      <3>2. sorted[k + 1].score < t
        <4>1. t >= sorted[k + 1].score /\ sorted[k + 1].score \in Int
          BY <1>a, <1>b, <2>1, <3>1
        <4> QED
          BY <2>2, <3>1, <4>1
      <3>3. sorted[k + 1].score >= sorted[j].score
        <4>1. CASE j = k + 1
          BY <1>a, <3>1, <4>1
        <4>2. CASE j # k + 1
          <5>1. k + 1 < j
            BY <1>0, <2>1, <2>4, <4>2
          <5> QED
            BY <1>b, <2>4, <3>1, <5>1
        <4> QED
          BY <4>1, <4>2
      <3> QED
        BY <1>a, <2>2, <3>1, <3>2, <3>3
    <2>5. \A j \in P : sorted[j].score >= t <=> j \in 1..k
      <3>1. ASSUME NEW j \in P PROVE sorted[j].score >= t <=> j \in 1..k
        <4>1. sorted[j].score \in Int
          BY <1>0, <1>4
        <4> QED
          BY <1>0, <2>1, <2>2, <2>3, <2>4, <4>1
      <3> QED
        BY <3>1
    <2>6. 1..k \subseteq P /\ Late(sorted, k) = {j \in 1..k : sorted[j].label = 1}
      <3>1. 1..k \subseteq P
        BY <1>0, <2>1
      <3> QED
        BY <3>1 DEF Late
    <2> HIDE DEF t, P
    <2>7. above(t) = {place[j] : j \in 1..k}
      BY <1>2, <1>4, <2>5, <2>6
    <2>8. lateAbove(t) = {place[j] : j \in Late(sorted, k)}
      BY <1>2, <1>4, <2>5, <2>6
    <2> QED
      BY <2>1, <2>2, <2>7, <2>8 DEF t, P
  <1>6. ASSUME NEW k \in GroupEnds(sorted)
        PROVE  Row(sample, sorted[k].score, Cumulative(sorted)[k], k) = CountedRow(sample, sorted[k].score)
    <2> DEFINE t == sorted[k].score
    <2>1. k \in P
      BY <1>5
    <2>2. ASSUME NEW A \in SUBSET P
          PROVE  Cardinality({place[j] : j \in A}) = Cardinality(A)
      <3> DEFINE B == {place[j] : j \in A}
                 f == [j \in A |-> place[j]]
      <3>1. f \in Bijection(A, B)
        <4>1. f \in [A -> B]
          OBVIOUS
        <4>2. \A i, j \in A : f[i] = f[j] => i = j
          BY <1>2
        <4>3. \A b \in B : \E j \in A : f[j] = b
          OBVIOUS
        <4> HIDE DEF f, B
        <4> QED
          BY <4>1, <4>2, <4>3 DEF Bijection, Injection, IsInjective, Surjection
      <3>2. IsFiniteSet(A)
        <4>1. IsFiniteSet(P)
          BY <1>0, FS_Interval
        <4> QED
          BY <4>1, FS_Subset
      <3>4. ExistsBijection(A, B)
        BY <3>1 DEF ExistsBijection
      <3> HIDE DEF f, B
      <3>3. Cardinality(A) = Cardinality(B)
        BY <3>2, <3>4, FS_Bijection
      <3> QED
        BY <3>3 DEF B
    <2>3. Cardinality(1..k) = k /\ 1..k \in SUBSET P /\ Late(sorted, k) \in SUBSET P
      <3>1. k \in Nat /\ 1 <= k
        BY <1>0, <2>1
      <3>2. Cardinality(1..k) = k
        BY <3>1, FS_Interval
      <3> QED
        BY <1>0, <2>1, <3>1, <3>2 DEF Late
    <2>4. Cardinality(above(t)) = k
      <3>1. Cardinality({place[j] : j \in 1..k}) = Cardinality(1..k)
        BY <2>2, <2>3
      <3>2. above(t) = {place[j] : j \in 1..k}
        BY <1>5
      <3> HIDE DEF above, P, t
      <3> QED
        BY <2>3, <3>1, <3>2
    <2>5. Cardinality(lateAbove(t)) = Cumulative(sorted)[k]
      <3>1. Cardinality({place[j] : j \in Late(sorted, k)}) = Cardinality(Late(sorted, k))
        BY <2>2, <2>3
      <3>2. lateAbove(t) = {place[j] : j \in Late(sorted, k)}
        BY <1>5
      <3>3. k \in 0..Len(sorted)
        BY <1>3, <2>1
      <3>4. Cumulative(sorted)[k] = Cardinality(Late(sorted, k))
        BY <1>3, <3>3, CumulativeIs
      <3> HIDE DEF lateAbove, P, t
      <3> QED
        BY <3>1, <3>2, <3>4
    <2>6. CountedRow(sample, t) = Row(sample, t, Cardinality(lateAbove(t)), Cardinality(above(t)))
      BY <1>0 DEF CountedRow
    <2> HIDE DEF t, above, lateAbove
    <2> QED
      BY <2>4, <2>5, <2>6 DEF t
  <1>7. ASSUME NEW t \in Scores(sample)
        PROVE  \E k \in GroupEnds(sorted) : sorted[k].score = t
    <2> DEFINE T == {i \in 0..(n - 1) : n - i \in P /\ sorted[n - i].score = t}
    <2>1. PICK i \in P : sample[i].score = t
      BY <1>0 DEF Scores
    <2>2. PICK k \in P : place[k] = i
      BY <1>2, <2>1
    <2>3. T # {} /\ T \subseteq Nat
      <3>1. n - k \in 0..(n - 1) /\ n - (n - k) = k /\ sorted[k].score = t
        BY <1>0, <1>4, <2>1, <2>2
      <3>2. n - k \in T
        BY <3>1
      <3>3. T # {}
        BY <3>2
      <3>4. T \subseteq Nat
        BY <1>0
      <3> QED
        BY <3>3, <3>4
    <2>4. PICK m \in T : \A o \in T : m <= o
      <3> HIDE DEF T
      <3> QED
        BY <2>3, NaturalsMin
    <2> DEFINE e == n - m
    <2>5. e \in P /\ sorted[e].score = t /\ m \in 0..(n - 1)
      BY <2>4
    <2>6. ASSUME e # n PROVE sorted[e + 1].score # t
      <3>1. m - 1 \in 0..(n - 1) /\ n - (m - 1) = e + 1 /\ e + 1 \in P /\ ~(m <= m - 1)
        <4> HIDE DEF n, sorted
        <4>1. m \in Nat /\ m # 0 /\ m <= n - 1
          BY <1>0, <2>5, <2>6
        <4> QED
          BY <1>0, <2>5, <4>1
      <3>2. m - 1 \notin T
        BY <2>4, <3>1
      <3> QED
        BY <3>1, <3>2
    <2>7. e \in GroupEnds(sorted)
      BY <1>3, <2>5, <2>6 DEF GroupEnds
    <2> QED
      BY <2>5, <2>7
  <1>8. SweepRows(sample) = {Row(sample, sorted[k].score, Cumulative(sorted)[k], k) : k \in GroupEnds(sorted)}
    BY DEF SweepRows, sorted
  <1>9. SweepRows(sample) = {CountedRow(sample, sorted[k].score) : k \in GroupEnds(sorted)}
    BY <1>6, <1>8
  <1>10. \A k \in GroupEnds(sorted) : sorted[k].score \in Scores(sample)
    BY <1>0, <1>4, <1>5 DEF Scores
  <1> QED
    BY <1>7, <1>9, <1>10 DEF CurveRows

LEMMA RatioIs ==
  ASSUME NEW a \in Nat, NEW b \in Nat
  PROVE  Ratio(a, b) \in Int
  <1>1. CASE b = 0
    BY <1>1 DEF Ratio
  <1>2. CASE b # 0
    <2>1. b > 0 /\ a * Unit \in Int
      BY <1>2, LimitsAssumption
    <2>2. (a * Unit) \div b \in Int
      BY <2>1
    <2> QED
      BY <1>2, <2>2 DEF Ratio
  <1> QED
    BY <1>1, <1>2

\* A ratio whose denominator divides Unit is exact.
LEMMA RatioExact ==
  ASSUME NEW a \in Nat, NEW b \in Nat \ {0}, Unit % b = 0
  PROVE  Ratio(a, b) \in Nat /\ Ratio(a, b) * b = a * Unit
  <1> DEFINE k == Unit \div b
             x == a * k
  <1>1. Unit \in Nat
    BY LimitsAssumption
  <1>2. k \in Nat /\ Unit = k * b
    BY <1>1, SMT
  <1> HIDE DEF k
  <1>3. x \in Nat
    BY <1>2
  <1>4. a * Unit = x * b
    BY <1>2, SMT
  <1> HIDE DEF x
  <1>5. (x * b) \div b = x
    BY <1>3, SMT
  <1> QED
    BY <1>3, <1>4, <1>5 DEF Ratio

\* Every threshold of a sample has its measures, and they are finitely many.
LEMMA CurveIs ==
  ASSUME NEW sample \in Samples
  PROVE  IsFiniteSet(CurveRows(sample)) /\ CurveRows(sample) \subseteq Measures
  <1> DEFINE P == 1..Len(sample)
             row == [i \in P |-> CountedRow(sample, sample[i].score)]
  <1>1. IsFiniteSet(P)
    BY SampleIs, FS_Interval
  <1>2. CurveRows(sample) = {row[i] : i \in P}
    <2>1. Scores(sample) = {sample[i].score : i \in P}
      BY SampleIs DEF Scores
    <2> QED
      BY <2>1 DEF CurveRows
  <1>3. IsFiniteSet(CurveRows(sample))
    <2>1. row \in Surjection(P, CurveRows(sample))
      <3>1. row \in [P -> CurveRows(sample)] /\ \A r \in CurveRows(sample) : \E i \in P : row[i] = r
        BY <1>2
      <3> HIDE DEF row
      <3> QED
        BY <3>1 DEF Surjection
    <2> HIDE DEF row, P
    <2> QED
      BY <1>1, <2>1, FS_Surjection
  <1>4. ASSUME NEW A \in SUBSET P
        PROVE  Cardinality(A) \in Nat
    BY <1>1, FS_Subset, FS_CardinalityType
  <1>5. ASSUME NEW t \in Int
        PROVE  CountedRow(sample, t) \in Measures
    <2> DEFINE tp == Cardinality({i \in P : sample[i].score >= t /\ sample[i].label = 1})
               pp == Cardinality({i \in P : sample[i].score >= t})
    <2>1. tp \in Nat /\ pp \in Nat
      BY <1>4
    <2>2. Positives(sample) \in Nat /\ Len(sample) \in Nat
      <3>1. Positives(sample) = Cardinality({i \in P : sample[i].label = 1})
        BY SampleIs DEF Positives
      <3> QED
        BY <1>4, <3>1, SampleIs
    <2>3. CountedRow(sample, t) = Row(sample, t, tp, pp)
      BY SampleIs DEF CountedRow
    <2> HIDE DEF tp, pp
    <2>4. /\ Ratio(tp, pp) \in Int /\ Ratio(tp, Positives(sample)) \in Int
          /\ Ratio(2 * tp, Positives(sample) + pp) \in Int /\ Ratio(pp, Len(sample)) \in Int
      <3>1. 2 * tp \in Nat /\ Positives(sample) + pp \in Nat
        BY <2>1, <2>2
      <3>2. \A a, b \in Nat : Ratio(a, b) \in Int
        BY RatioIs
      <3> QED
        BY <2>1, <2>2, <3>1, <3>2, Zenon
    <2> QED
      BY <2>3, <2>4 DEF Row, Measures
  <1>6. \A r \in CurveRows(sample) : r \in Measures
    BY <1>2, <1>5, SampleIs
  <1> QED
    BY <1>3, <1>6

\* A search has a threshold if there is one to choose.
LEMMA BestThreshold ==
  ASSUME NEW S, IsFiniteSet(S), S \subseteq Measures
  PROVE  /\ S = {} => /\ Best(S, V1Key) = NoRow /\ Best(S, OperatingKey) = NoRow
                      /\ Best(S, SelectThresholdKey) = NoRow /\ Best(S, RemediationKey) = NoRow
         /\ S # {} => /\ Best(S, V1Key) \in S /\ Best(S, SelectThresholdKey) \in S
                      /\ Best(S, RemediationKey) \in S /\ Best(S, OperatingKey) \in S
                      /\ \A r \in S : r.precision <= Best(S, OperatingKey).precision
  <1>1. CASE S = {}
    BY <1>1 DEF Best
  <1>2. CASE S # {}
    <2>1. \A r \in S : /\ r.precision \in Int /\ r.recall \in Int /\ r.f1 \in Int /\ r.rate \in Int
                       /\ r.threshold \in Int /\ Distance(r.threshold) \in Int
      BY DEF Measures, Distance
    <2>2. Best(S, V1Key) \in S
      <3> DEFINE key == [r \in S |-> V1Key(r)]
      <3>1. key \in [S -> [1..6 -> Int]]
        BY <2>1 DEF V1Key
      <3>2. \E r \in S : \A o \in S : ~Precedes(key[o], key[r])
        <4> HIDE DEF key
        <4> QED
          BY <1>2, <3>1, LeastKey
      <3> QED
        BY <1>2, <3>2 DEF Best
    <2>3. Best(S, SelectThresholdKey) \in S
      <3> DEFINE key == [r \in S |-> SelectThresholdKey(r)]
      <3>1. key \in [S -> [1..4 -> Int]]
        BY <2>1 DEF SelectThresholdKey
      <3>2. \E r \in S : \A o \in S : ~Precedes(key[o], key[r])
        <4> HIDE DEF key
        <4> QED
          BY <1>2, <3>1, LeastKey
      <3> QED
        BY <1>2, <3>2 DEF Best
    <2>4. Best(S, RemediationKey) \in S
      <3> DEFINE key == [r \in S |-> RemediationKey(r)]
      <3>1. key \in [S -> [1..4 -> Int]]
        BY <2>1 DEF RemediationKey
      <3>2. \E r \in S : \A o \in S : ~Precedes(key[o], key[r])
        <4> HIDE DEF key
        <4> QED
          BY <1>2, <3>1, LeastKey
      <3> QED
        BY <1>2, <3>2 DEF Best
    <2>5. /\ Best(S, OperatingKey) \in S
          /\ \A o \in S : ~Precedes(OperatingKey(o), OperatingKey(Best(S, OperatingKey)))
      <3> DEFINE key == [r \in S |-> OperatingKey(r)]
      <3>1. key \in [S -> [1..5 -> Int]]
        BY <2>1 DEF OperatingKey
      <3>2. \E r \in S : \A o \in S : ~Precedes(key[o], key[r])
        <4> HIDE DEF key
        <4> QED
          BY <1>2, <3>1, LeastKey
      <3> QED
        BY <1>2, <3>2 DEF Best
    <2>6. ASSUME NEW a \in S, NEW b \in S, ~(a.precision <= b.precision)
          PROVE  Precedes(OperatingKey(a), OperatingKey(b))
      <3>1. /\ DOMAIN OperatingKey(a) = 1..5
            /\ OperatingKey(a)[1] = -a.precision /\ OperatingKey(b)[1] = -b.precision
        BY DEF OperatingKey
      <3>2. -a.precision < -b.precision
        BY <2>1, <2>6
      <3>3. 1 \in 1..5 /\ 1..(1 - 1) = {}
        OBVIOUS
      <3> QED
        BY <3>1, <3>2, <3>3 DEF Precedes
    <2> QED
      BY <1>2, <2>2, <2>3, <2>4, <2>5, <2>6
  <1> QED
    BY <1>1, <1>2

\* On any sample, what v2 and v3 search by foretells the threshold of November.
LEMMA Foretold ==
  ASSUME NEW sample \in Samples
  PROVE  LET point == SearchOperatingPoint(sample)
             governed == SelectV1Threshold(sample)
         IN /\ governed = NoRow <=> point.precision < Limits.precision
            /\ governed # NoRow => /\ governed.precision <= point.precision
                                   /\ governed.f1 <= point.bestF1
  <1> DEFINE curve == CurveRows(sample)
             eligible == {r \in curve : Eligible(r)}
             bounded == {r \in curve : r.rate <= Limits.rate}
             recalled == {r \in bounded : r.recall >= Limits.recall}
             f1 == {r.f1 : r \in bounded} \union {0}
             best == Best(recalled, OperatingKey)
             governed == Best(eligible, V1Key)
             point == SearchOperatingPoint(sample)
  <1>1. IsFiniteSet(curve) /\ curve \subseteq Measures
    BY CurveIs
  <1>2. SelectV1Threshold(sample) = governed
    BY SweepIsCurve DEF SelectV1Threshold, ChooseThresholdRow
  <1>3. /\ point.precision = IF best = NoRow THEN 0 ELSE best.precision
        /\ point.bestF1 = CHOOSE m \in f1 : \A o \in f1 : o <= m
    BY DEF SearchOperatingPoint, CurveRows
  <1>4. /\ NoRow \notin Measures
        /\ Limits.precision \in Int /\ Limits.precision > 0
        /\ Limits.rate \in Int /\ Limits.recall \in Int
    <2>1. /\ Limits.precision \in 1..Unit /\ Limits.rate \in 0..Unit /\ Limits.recall \in 1..Unit
          /\ NoRow \notin Measures
      BY LimitsAssumption
    <2>2. Unit \in Int
      BY LimitsAssumption
    <2> QED
      BY <2>1, <2>2
  <1>5. /\ IsFiniteSet(eligible) /\ eligible \subseteq Measures
        /\ IsFiniteSet(recalled) /\ recalled \subseteq Measures
        /\ IsFiniteSet(bounded) /\ bounded \subseteq Measures
    <2>1. eligible \subseteq curve /\ recalled \subseteq curve /\ bounded \subseteq curve
      OBVIOUS
    <2> HIDE DEF eligible, recalled, bounded, curve
    <2> QED
      BY <1>1, <2>1, FS_Subset
  <1>6. \A r \in Measures : r.precision \in Int /\ r.f1 \in Int
    BY DEF Measures
  <1>7. eligible = {r \in recalled : r.precision >= Limits.precision}
    BY DEF Eligible
  <1>8. IsFiniteSet(f1) /\ f1 # {} /\ f1 \subseteq Int
    <2>1. IsFiniteSet({r.f1 : r \in bounded})
      <3> DEFINE f == [r \in bounded |-> r.f1]
      <3>1. f \in Surjection(bounded, {r.f1 : r \in bounded})
        <4>1. f \in [bounded -> {r.f1 : r \in bounded}] /\ \A x \in {r.f1 : r \in bounded} : \E r \in bounded : f[r] = x
          OBVIOUS
        <4> HIDE DEF f, bounded
        <4> QED
          BY <4>1 DEF Surjection
      <3> HIDE DEF f, bounded
      <3> QED
        BY <1>5, <3>1, FS_Surjection
    <2>2. IsFiniteSet(f1)
      BY <2>1, FS_AddElement
    <2>3. f1 \subseteq Int
      BY <1>5, <1>6
    <2> HIDE DEF bounded
    <2> QED
      BY <2>2, <2>3
  <1>9. point.bestF1 \in f1 /\ \A o \in f1 : o <= point.bestF1
    <2> DEFINE key == [x \in f1 |-> [i \in 1..1 |-> -x]]
    <2>1. key \in [f1 -> [1..1 -> Int]]
      <3> HIDE DEF f1
      <3> QED
        BY <1>8
    <2>2. PICK m \in f1 : \A o \in f1 : ~Precedes(key[o], key[m])
      <3> HIDE DEF key, f1
      <3> QED
        BY <1>8, <2>1, LeastKey
    <2> HIDE DEF f1
    <2>3. \A o \in f1 : o <= m
      <3> SUFFICES ASSUME NEW o \in f1, ~(o <= m) PROVE FALSE
        OBVIOUS
      <3>1. key[o][1] = -o /\ key[m][1] = -m /\ DOMAIN key[o] = 1..1
        OBVIOUS
      <3>2. -o < -m /\ 1 \in 1..1 /\ 1..(1 - 1) = {}
        BY <1>8
      <3> HIDE DEF key
      <3>3. Precedes(key[o], key[m])
        BY <3>1, <3>2 DEF Precedes
      <3> QED
        BY <2>2, <3>3
    <2> QED
      BY <1>3, <2>3
  <1>10. /\ recalled = {} => best = NoRow
         /\ recalled # {} => best \in recalled /\ \A r \in recalled : r.precision <= best.precision
         /\ eligible = {} => governed = NoRow
         /\ eligible # {} => governed \in eligible
    <2> HIDE DEF eligible, recalled
    <2> QED
      BY <1>5, BestThreshold
  <1>11. \A r \in eligible : r \in bounded /\ r.f1 \in f1
    BY DEF Eligible
  <1> HIDE DEF eligible, recalled, bounded, f1, best, governed, point
  <1>12. CASE recalled = {}
    <2>1. eligible = {} /\ governed = NoRow /\ best = NoRow
      BY <1>7, <1>10, <1>12
    <2>2. point.precision < Limits.precision
      BY <1>3, <1>4, <2>1
    <2> QED
      BY <1>2, <2>1, <2>2 DEF point
  <1>13. CASE recalled # {}
    <2>1. /\ best \in recalled /\ best # NoRow /\ best.precision \in Int
          /\ \A r \in recalled : r.precision <= best.precision
      BY <1>4, <1>5, <1>6, <1>10, <1>13
    <2>2. point.precision = best.precision
      BY <1>3, <2>1
    <2>3. CASE eligible = {}
      <3>1. ~(best.precision >= Limits.precision)
        BY <1>7, <2>1, <2>3
      <3>2. governed = NoRow /\ point.precision < Limits.precision
        BY <1>4, <1>10, <2>1, <2>2, <2>3, <3>1
      <3> QED
        BY <1>2, <3>2 DEF point
    <2>4. CASE eligible # {}
      <3>1. governed \in eligible /\ governed # NoRow /\ governed \in recalled
            /\ governed.precision >= Limits.precision /\ governed.precision \in Int
        BY <1>4, <1>5, <1>6, <1>7, <1>10, <2>4
      <3>2. governed.precision <= point.precision /\ ~(point.precision < Limits.precision)
        BY <1>4, <2>1, <2>2, <3>1
      <3>3. governed.f1 <= point.bestF1
        BY <1>9, <1>11, <3>1
      <3> QED
        BY <1>2, <3>1, <3>2, <3>3 DEF point
    <2> QED
      BY <2>3, <2>4
  <1> QED
    BY <1>12, <1>13

-----------------------------------------------------------------------------
(* Rankings of candidates *)

FamilyNames == {"tuned", "R", "CB", "control", "lightgbm", "catboost", "ensemble"}
MethodNames == {"isotonic", "none", "sigmoid"}

Idents == [family : FamilyNames, n : Nat]

\* A sum exists, by its partial sums, and is a number.
LEMMA MeanIs ==
  ASSUME NEW folds \in Seq(Int)
  PROVE  Mean(folds) \in Int
  <1> DEFINE n == Len(folds)
             step(k, h) == [i \in 0..k |-> IF i = 0 THEN 0 ELSE h[i - 1] + folds[i]]
             Summed(k) == \E h \in [0..k -> Int] : h = step(k, h)
             D == {k \in 0..n : ~Summed(k)}
  <1>1. n \in Nat /\ \A i \in 1..n : folds[i] \in Int
    OBVIOUS
  <1> HIDE DEF n
  <1>2. Summed(0)
    <2> DEFINE h == [i \in 0..0 |-> 0]
    <2>1. h \in [0..0 -> Int]
      OBVIOUS
    <2>2. h = step(0, h)
      OBVIOUS
    <2> QED
      BY <2>1, <2>2
  <1>3. ASSUME NEW k \in 0..n, k # n, Summed(k)
        PROVE  Summed(k + 1)
    <2>1. PICK h \in [0..k -> Int] : h = step(k, h)
      BY <1>3
    <2> DEFINE g == [i \in 0..(k + 1) |-> IF i = k + 1 THEN h[k] + folds[k + 1] ELSE h[i]]
    <2>2. k \in Nat /\ k + 1 \in 1..n
      BY <1>1, <1>3
    <2>3. h[0] = 0 /\ \A i \in 1..k : h[i] = h[i - 1] + folds[i]
      <3> HIDE DEF D
      <3>1. \A i \in 0..k : h[i] = step(k, h)[i]
        BY <2>1
      <3> QED
        BY <2>2, <3>1
    <2>4. g \in [0..(k + 1) -> Int]
      BY <1>1, <2>2
    <2>5. \A i \in 0..(k + 1) : g[i] = IF i = 0 THEN 0 ELSE g[i - 1] + folds[i]
      <3> SUFFICES ASSUME NEW i \in 0..(k + 1)
                   PROVE  g[i] = IF i = 0 THEN 0 ELSE g[i - 1] + folds[i]
        OBVIOUS
      <3>1. CASE i = 0
        BY <2>2, <2>3, <3>1
      <3>2. CASE i = k + 1
        BY <2>2, <3>2
      <3>3. CASE i # 0 /\ i # k + 1
        <4>1. i \in 1..k /\ i - 1 \in 0..(k + 1) /\ i - 1 # k + 1
          BY <2>2, <3>3
        <4> QED
          BY <2>3, <3>3, <4>1
      <3> QED
        BY <3>1, <3>2, <3>3
    <2> HIDE DEF g
    <2>6. g = step(k + 1, g)
      BY <2>4, <2>5
    <2> QED
      BY <2>4, <2>6
  <1> HIDE DEF Summed
  <1>4. D = {}
    <2> SUFFICES ASSUME D # {} PROVE FALSE
      OBVIOUS
    <2>1. D \subseteq Nat
      BY <1>1
    <2>2. PICK k \in D : \A j \in D : k <= j
      <3> HIDE DEF D
      <3> QED
        BY <2>1, NaturalsMin
    <2>3. k \in 0..n /\ ~Summed(k) /\ k # 0
      BY <1>2, <2>2
    <2>4. k - 1 \in 0..n /\ k - 1 # n /\ (k - 1) + 1 = k /\ ~(k <= k - 1)
      BY <1>1, <2>3
    <2>5. Summed(k - 1)
      BY <2>2, <2>4
    <2>6. Summed((k - 1) + 1)
      BY <1>3, <2>4, <2>5
    <2> QED
      BY <2>3, <2>4, <2>6
  <1>5. Summed(n)
    BY <1>1, <1>4
  <1> DEFINE sum == CHOOSE h : h = step(n, h)
  <1>6. Mean(folds) = sum[n]
    BY DEF Mean, n
  <1>7. sum = step(n, sum)
    <2>1. PICK h : h = step(n, h)
      BY <1>5 DEF Summed
    <2> HIDE DEF step
    <2> QED
      BY <2>1
  <1> HIDE DEF sum, D
  <1>8. sum[0] = 0 /\ \A i \in 1..n : sum[i] = sum[i - 1] + folds[i]
    <2>1. \A i \in 0..n : sum[i] = step(n, sum)[i]
      BY <1>7
    <2> QED
      BY <1>1, <2>1
  <1> DEFINE E == {k \in 0..n : sum[k] \notin Int}
  <1>9. E = {}
    <2> SUFFICES ASSUME E # {} PROVE FALSE
      OBVIOUS
    <2>1. E \subseteq Nat
      BY <1>1
    <2>2. PICK k \in E : \A j \in E : k <= j
      <3> HIDE DEF E
      <3> QED
        BY <2>1, NaturalsMin
    <2>3. k \in 0..n /\ sum[k] \notin Int /\ k # 0
      BY <1>8, <2>2
    <2>4. k \in 1..n /\ k - 1 \in 0..n /\ ~(k <= k - 1)
      BY <1>1, <2>3
    <2>5. sum[k - 1] \in Int /\ folds[k] \in Int
      <3>1. k - 1 \notin E
        BY <2>2, <2>4
      <3> QED
        BY <1>1, <2>4, <3>1
    <2>6. sum[k] = sum[k - 1] + folds[k]
      BY <1>8, <2>4
    <2> QED
      BY <2>3, <2>5, <2>6
  <1> QED
    BY <1>1, <1>6, <1>9

LEMMA WorstIs ==
  ASSUME NEW folds \in Seq(Nat), Len(folds) >= 1
  PROVE  Worst(folds) \in Int
  <1>1. Range(folds) \subseteq Nat /\ Range(folds) # {}
    <2>1. 1 \in DOMAIN folds /\ \A i \in DOMAIN folds : folds[i] \in Nat
      OBVIOUS
    <2> QED
      BY <2>1 DEF Range
  <1>2. \E m \in Range(folds) : \A k \in Range(folds) : m <= k
    BY <1>1, NaturalsMin
  <1>3. Worst(folds) \in Range(folds)
    BY <1>2 DEF Worst
  <1> QED
    BY <1>1, <1>3

LEMMA SpreadIs ==
  ASSUME NEW folds \in Seq(Nat)
  PROVE  Spread(folds) \in Int
  <1> DEFINE squares == [i \in DOMAIN folds |-> folds[i] * folds[i]]
  <1>1. Len(folds) \in Nat /\ DOMAIN folds = 1..Len(folds) /\ \A i \in DOMAIN folds : folds[i] \in Nat
    OBVIOUS
  <1>2. \A x \in Nat : x * x \in Int
    OBVIOUS
  <1>3. squares \in Seq(Int)
    <2>1. \A i \in 1..Len(folds) : squares[i] \in Int
      BY <1>1, <1>2
    <2>2. squares = [i \in 1..Len(folds) |-> squares[i]]
      BY <1>1
    <2> HIDE DEF squares
    <2> QED
      BY <1>1, <2>1, <2>2
  <1>4. folds \in Seq(Int)
    OBVIOUS
  <1> DEFINE a == Len(folds)
             b == Mean(squares)
             c == Mean(folds)
  <1>5. a \in Int /\ b \in Int /\ c \in Int
    <2> HIDE DEF squares
    <2> QED
      BY <1>1, <1>3, <1>4, MeanIs
  <1>6. Spread(folds) = a * b - c * c
    BY DEF Spread
  <1> HIDE DEF a, b, c
  <1> QED
    BY <1>5, <1>6


\* Sequences joined, by what is joined so far.
LEMMA FlattenIs ==
  ASSUME NEW X, NEW ss \in Seq(Seq(X)), Len(ss) >= 1
  PROVE  \E joined \in [1..Len(ss) -> Seq(X)] :
           /\ joined[1] = ss[1]
           /\ \A i \in 2..Len(ss) : joined[i] = joined[i - 1] \o ss[i]
           /\ FlattenSeq(ss) = joined[Len(ss)]
  <1> DEFINE n == Len(ss)
             step(k, h) == [i \in 1..k |-> IF i = 1 THEN ss[i] ELSE h[i - 1] \o ss[i]]
             Joined(k) == \E h \in [1..k -> Seq(X)] : h = step(k, h)
             D == {k \in 1..n : ~Joined(k)}
  <1>1. n \in Nat /\ n >= 1 /\ \A i \in 1..n : ss[i] \in Seq(X)
    OBVIOUS
  <1>2. FlattenSeq(ss) = (CHOOSE h : h = step(n, h))[n]
    BY <1>1 DEF FlattenSeq
  <1> HIDE DEF n
  <1>3. Joined(1)
    <2> DEFINE h == [i \in 1..1 |-> ss[1]]
    <2>1. h \in [1..1 -> Seq(X)]
      BY <1>1
    <2>2. h = step(1, h)
      OBVIOUS
    <2> QED
      BY <2>1, <2>2
  <1>4. ASSUME NEW k \in 1..n, k # n, Joined(k)
        PROVE  Joined(k + 1)
    <2>1. PICK h \in [1..k -> Seq(X)] : h = step(k, h)
      BY <1>4
    <2> DEFINE g == [i \in 1..(k + 1) |-> IF i = k + 1 THEN h[k] \o ss[k + 1] ELSE h[i]]
    <2>2. k \in Nat /\ k + 1 \in 1..n /\ k >= 1
      BY <1>1, <1>4
    <2>3. h[1] = ss[1] /\ \A i \in 2..k : h[i] = h[i - 1] \o ss[i]
      <3>1. \A i \in 1..k : h[i] = step(k, h)[i]
        BY <2>1
      <3>2. \A i \in 1..k : h[i] = IF i = 1 THEN ss[i] ELSE h[i - 1] \o ss[i]
        BY <3>1
      <3> HIDE DEF step
      <3>3. 1 \in 1..k /\ \A i \in 2..k : i \in 1..k /\ i # 1
        BY <2>2
      <3> QED
        BY <3>2, <3>3
    <2>4. g \in [1..(k + 1) -> Seq(X)]
      <3>1. h[k] \o ss[k + 1] \in Seq(X)
        BY <1>1, <2>2
      <3>2. \A i \in 1..(k + 1) : i # k + 1 => h[i] \in Seq(X)
        BY <2>2
      <3> QED
        BY <3>1, <3>2
    <2>5. \A i \in 1..(k + 1) : g[i] = IF i = 1 THEN ss[i] ELSE g[i - 1] \o ss[i]
      <3> SUFFICES ASSUME NEW i \in 1..(k + 1)
                   PROVE  g[i] = IF i = 1 THEN ss[i] ELSE g[i - 1] \o ss[i]
        OBVIOUS
      <3>1. CASE i = 1
        BY <2>2, <2>3, <3>1
      <3>2. CASE i = k + 1
        <4>1. g[i] = h[k] \o ss[k + 1] /\ i # 1
          BY <2>2, <3>2
        <4>2. g[i - 1] = h[k]
          BY <2>2, <3>2
        <4> QED
          BY <3>2, <4>1, <4>2
      <3>3. CASE i # 1 /\ i # k + 1
        <4>1. i \in 2..k /\ i - 1 \in 1..(k + 1) /\ i - 1 # k + 1
          BY <2>2, <3>3
        <4>2. g[i] = h[i] /\ g[i - 1] = h[i - 1]
          BY <3>3, <4>1
        <4> QED
          BY <2>3, <3>3, <4>1, <4>2
      <3> QED
        BY <3>1, <3>2, <3>3
    <2> HIDE DEF g
    <2>6. g = step(k + 1, g)
      BY <2>4, <2>5
    <2> QED
      BY <2>4, <2>6
  <1> HIDE DEF Joined
  <1>5. D = {}
    <2> SUFFICES ASSUME D # {} PROVE FALSE
      OBVIOUS
    <2>1. D \subseteq Nat
      BY <1>1
    <2>2. PICK k \in D : \A j \in D : k <= j
      <3> HIDE DEF D
      <3> QED
        BY <2>1, NaturalsMin
    <2>3. k \in 1..n /\ ~Joined(k) /\ k # 1
      BY <1>3, <2>2
    <2>4. k - 1 \in 1..n /\ k - 1 # n /\ (k - 1) + 1 = k /\ ~(k <= k - 1)
      BY <1>1, <2>3
    <2>5. Joined(k - 1)
      BY <2>2, <2>4
    <2>6. Joined((k - 1) + 1)
      BY <1>4, <2>4, <2>5
    <2> QED
      BY <2>3, <2>4, <2>6
  <1>6. Joined(n)
    BY <1>1, <1>5
  <1> DEFINE joined == CHOOSE h : h = step(n, h)
  <1>7. joined = step(n, joined)
    <2>1. PICK h : h = step(n, h)
      BY <1>6 DEF Joined
    <2> HIDE DEF step
    <2> QED
      BY <2>1
  <1>8. FlattenSeq(ss) = joined[n]
    BY <1>2
  <1> HIDE DEF joined, D
  <1>9. joined[1] = ss[1] /\ \A i \in 2..n : joined[i] = joined[i - 1] \o ss[i]
    <2>1. \A i \in 1..n : joined[i] = step(n, joined)[i]
      BY <1>7
    <2>2. \A i \in 1..n : joined[i] = IF i = 1 THEN ss[i] ELSE joined[i - 1] \o ss[i]
      BY <2>1
    <2> HIDE DEF step
    <2>3. 1 \in 1..n /\ \A i \in 2..n : i \in 1..n /\ i # 1
      BY <1>1
    <2> QED
      BY <2>2, <2>3
  <1> DEFINE E == {k \in 1..n : joined[k] \notin Seq(X)}
  <1>10. E = {}
    <2> SUFFICES ASSUME E # {} PROVE FALSE
      OBVIOUS
    <2>1. E \subseteq Nat
      BY <1>1
    <2>2. PICK k \in E : \A j \in E : k <= j
      <3> HIDE DEF E
      <3> QED
        BY <2>1, NaturalsMin
    <2>3. k \in 1..n /\ joined[k] \notin Seq(X) /\ k # 1
      BY <1>1, <1>9, <2>2
    <2>4. k \in 2..n /\ k - 1 \in 1..n /\ ~(k <= k - 1)
      BY <1>1, <2>3
    <2>5. joined[k - 1] \in Seq(X) /\ ss[k] \in Seq(X)
      <3>1. k - 1 \notin E
        BY <2>2, <2>4
      <3> QED
        BY <1>1, <2>3, <2>4, <3>1
    <2>6. joined[k] = joined[k - 1] \o ss[k]
      BY <1>9, <2>4
    <2>7. joined[k - 1] \o ss[k] \in Seq(X)
      BY <2>5
    <2> QED
      BY <2>3, <2>6, <2>7
  <1>11. joined \in [1..n -> Seq(X)]
    <2>1. \A k \in 1..n : joined[k] \in Seq(X)
      BY <1>10
    <2>2. DOMAIN joined = 1..n /\ joined = [k \in 1..n |-> joined[k]]
      BY <1>7
    <2> QED
      BY <2>1, <2>2
  <1> QED
    BY <1>8, <1>9, <1>11 DEF n

\* Of one sequence that is itself, of two their concatenation; of any it holds
\* what they hold.
LEMMA FlattenShort ==
  ASSUME NEW X, NEW ss \in Seq(Seq(X))
  PROVE  /\ FlattenSeq(ss) \in Seq(X)
         /\ Len(ss) = 1 => FlattenSeq(ss) = ss[1]
         /\ Len(ss) = 2 => FlattenSeq(ss) = ss[1] \o ss[2]
  <1>1. CASE Len(ss) = 0
    <2>1. ss = <<>> /\ FlattenSeq(ss) = ss
      BY <1>1 DEF FlattenSeq
    <2>2. <<>> \in Seq(X)
      OBVIOUS
    <2>3. FlattenSeq(ss) \in Seq(X)
      BY <2>1, <2>2, Zenon
    <2>4. Len(ss) # 1 /\ Len(ss) # 2
      BY <1>1
    <2> QED
      BY <2>3, <2>4
  <1>2. CASE Len(ss) # 0
    <2>1. Len(ss) \in Nat /\ Len(ss) >= 1
      BY <1>2
    <2>2. PICK joined \in [1..Len(ss) -> Seq(X)] :
            /\ joined[1] = ss[1]
            /\ \A i \in 2..Len(ss) : joined[i] = joined[i - 1] \o ss[i]
            /\ FlattenSeq(ss) = joined[Len(ss)]
      BY <2>1, FlattenIs
    <2>3. FlattenSeq(ss) \in Seq(X)
      <3>1. Len(ss) \in 1..Len(ss)
        BY <2>1
      <3>2. joined[Len(ss)] \in Seq(X)
        BY <3>1
      <3> QED
        BY <2>2, <3>2
    <2>4. Len(ss) = 2 => FlattenSeq(ss) = ss[1] \o ss[2]
      <3> SUFFICES ASSUME Len(ss) = 2 PROVE FlattenSeq(ss) = ss[1] \o ss[2]
        OBVIOUS
      <3>1. 2 \in 2..Len(ss) /\ 2 - 1 = 1
        OBVIOUS
      <3> QED
        BY <2>2, <3>1
    <2> QED
      BY <2>2, <2>3, <2>4
  <1> QED
    BY <1>1, <1>2

-----------------------------------------------------------------------------
(* The rankings *)

\* How many numbers are in the key of a generation.
RankLength ==
  CASE generation = "select" -> 3
    [] generation = "remediate" -> 4
    [] generation = "v1" -> 4
    [] generation = "v2" -> 5
    [] generation = "v3" -> 6

\* A result has a key of numbers, the last of them the place in the family.
LEMMA RankIs ==
  ASSUME generation \in Generations,
         NEW r, r.id.n \in Int, r.result \in Results
  PROVE  /\ RankLength \in Nat /\ RankLength >= 3
         /\ Rank(r) \in [1..RankLength -> Int]
         /\ Rank(r)[RankLength] = r.id.n
         /\ generation = "v2" => Rank(r)[1] = -Mean(r.result.folds)
         /\ generation = "v3" => Rank(r)[1] = -Worst(r.result.folds)
  <1> DEFINE folds == r.result.folds
             rest == r.result.rest
             n == r.id.n
             first == folds[1]
             last == folds[Len(folds)]
             mean == Mean(folds)
             early == Mean(Tail(folds))
             worst == Worst(folds)
             spread == Spread(folds)
  <1>1. folds \in Seq(Nat) /\ rest \in Nat /\ Len(folds) >= 2 /\ n \in Int
    BY SearchAssumption
  <1>2. first \in Int /\ last \in Int
    <2> HIDE DEF folds
    <2>1. Len(folds) \in Nat /\ 1 \in 1..Len(folds) /\ Len(folds) \in 1..Len(folds)
      BY <1>1
    <2> QED
      BY <1>1, <2>1
  <1>3. mean \in Int /\ early \in Int
    <2> HIDE DEF folds
    <2>1. folds \in Seq(Int)
      BY <1>1
    <2>2. Tail(folds) \in Seq(Int)
      BY <1>1, <2>1
    <2> QED
      BY <2>1, <2>2, MeanIs
  <1>4. worst \in Int /\ spread \in Int
    <2> HIDE DEF folds
    <2> QED
      BY <1>1, WorstIs, SpreadIs
  <1>5. /\ TuningKey(r) = <<-first, -rest, n>>
        /\ RemediationRank(r) = <<-mean, -rest, spread, n>>
        /\ V1Rank(r) = <<-mean, -rest, spread, n>>
        /\ V2Rank(r) = <<-mean, -worst, -rest, spread, n>>
        /\ V3Rank(r) = <<-worst, -last, -early, -mean, -rest, n>>
    BY DEF TuningKey, RemediationRank, V1Rank, V2Rank, V3Rank
  <1>6. rest \in Int
    BY <1>1
  <1>7. /\ generation = "v2" => Rank(r) = <<-mean, -worst, -rest, spread, n>>
        /\ generation = "v3" => Rank(r) = <<-worst, -last, -early, -mean, -rest, n>>
        /\ generation = "select" => Rank(r) = <<-first, -rest, n>>
        /\ generation \in {"remediate", "v1"} => Rank(r) = <<-mean, -rest, spread, n>>
    BY <1>5 DEF Rank
  <1>8. n = r.id.n /\ mean = Mean(r.result.folds) /\ worst = Worst(r.result.folds)
    OBVIOUS
  <1>9. n \in Int
    BY <1>1
  <1> HIDE DEF folds, rest, n, first, last, mean, early, worst, spread
  <1>10. CASE generation = "select"
    BY <1>2, <1>6, <1>7, <1>8, <1>9, <1>10 DEF RankLength
  <1>11. CASE generation = "remediate"
    BY <1>3, <1>4, <1>6, <1>7, <1>8, <1>9, <1>11 DEF RankLength
  <1>12. CASE generation = "v1"
    BY <1>3, <1>4, <1>6, <1>7, <1>8, <1>9, <1>12 DEF RankLength
  <1>13. CASE generation = "v2"
    BY <1>3, <1>4, <1>6, <1>7, <1>8, <1>9, <1>13 DEF RankLength
  <1>14. CASE generation = "v3"
    BY <1>2, <1>3, <1>4, <1>6, <1>7, <1>8, <1>9, <1>14 DEF RankLength
  <1> QED
    BY <1>10, <1>11, <1>12, <1>13, <1>14 DEF Generations

\* Evidence that can be ranked: it has results, and no two of one number.
Rankable(S) ==
  /\ IsFiniteSet(S)
  /\ \A r \in S : r.id.n \in Int /\ r.result \in Results
  /\ \A a, b \in S : a.id.n = b.id.n => a = b

\* Its ranking is all of it, each once, the leading number never falling.
LEMMA RankCandidatesIs ==
  ASSUME generation \in Generations, NEW S, Rankable(S)
  PROVE  LET s == RankCandidates(S)
         IN /\ Cardinality(S) \in Nat
            /\ s \in [1..Cardinality(S) -> S]
            /\ \A i, j \in 1..Cardinality(S) : s[i] = s[j] => i = j
            /\ \A a \in S : \E k \in 1..Cardinality(S) : s[k] = a
            /\ \A i, j \in 1..Cardinality(S) : i < j => Rank(s[i])[1] <= Rank(s[j])[1]
  <1> DEFINE N == RankLength
             key == [r \in S |-> Rank(r)]
             s == RankCandidates(S)
  <1>0. IsFiniteSet(S)
    BY DEF Rankable
  <1>1. \A r \in S : N \in Nat /\ N >= 3 /\ Rank(r) \in [1..N -> Int] /\ Rank(r)[N] = r.id.n
    <2>1. ASSUME NEW r \in S
          PROVE  N \in Nat /\ N >= 3 /\ Rank(r) \in [1..N -> Int] /\ Rank(r)[N] = r.id.n
      <3>1. r.id.n \in Int /\ r.result \in Results
        BY DEF Rankable
      <3> QED
        BY <3>1, RankIs
    <2> QED
      BY <2>1
  <1>2. N \in Nat
    BY DEF RankLength, Generations
  <1>3. key \in [S -> [1..N -> Int]]
    BY <1>1
  <1>4. \A a, b \in S : key[a] = key[b] => a = b
    <2> SUFFICES ASSUME NEW a \in S, NEW b \in S, key[a] = key[b] PROVE a = b
      OBVIOUS
    <2>1. Rank(a) = Rank(b)
      OBVIOUS
    <2>2. a.id.n = b.id.n
      BY <1>1, <2>1
    <2> QED
      BY <2>2 DEF Rankable
  <1>5. s = ByKey(S, key)
    <2>1. \A r \in S : {o \in S : Precedes(Rank(o), Rank(r))} = {o \in S : Precedes(key[o], key[r])}
      OBVIOUS
    <2> DEFINE place == [r \in S |-> Cardinality({o \in S : Precedes(key[o], key[r])})]
    <2>2. \A r \in S : Cardinality({o \in S : Precedes(Rank(o), Rank(r))}) = place[r]
      BY <2>1
    <2>3. \A r \in S : Cardinality({o \in S : Precedes(key[o], key[r])}) = place[r]
      OBVIOUS
    <2> HIDE DEF place, key
    <2>4. s = [k \in 1..Cardinality(S) |-> CHOOSE r \in S : place[r] = k - 1]
      BY <2>2 DEF RankCandidates, RankedBy
    <2>5. ByKey(S, key) = [k \in 1..Cardinality(S) |-> CHOOSE r \in S : place[r] = k - 1]
      BY <2>3 DEF ByKey
    <2> QED
      BY <2>4, <2>5
  <1>6. /\ Cardinality(S) \in Nat
        /\ s \in [1..Cardinality(S) -> S]
        /\ \A i, j \in 1..Cardinality(S) : i < j <=> Precedes(key[s[i]], key[s[j]])
        /\ \A i, j \in 1..Cardinality(S) : s[i] = s[j] => i = j
        /\ \A a \in S : \E k \in 1..Cardinality(S) : s[k] = a
    <2> HIDE DEF key, N, s
    <2>1. SortedBy(s, S, key)
      BY <1>0, <1>2, <1>3, <1>4, <1>5, RankedIs
    <2> QED
      BY <2>1 DEF SortedBy
  <1>7. ASSUME NEW i \in 1..Cardinality(S), NEW j \in 1..Cardinality(S), i < j
        PROVE  Rank(s[i])[1] <= Rank(s[j])[1]
    <2> DEFINE a == s[i]
               b == s[j]
    <2>1. a \in S /\ b \in S
      BY <1>6
    <2>2. Precedes(key[a], key[b]) /\ key[a] = Rank(a) /\ key[b] = Rank(b)
      BY <1>6, <1>7, <2>1
    <2> SUFFICES Rank(a)[1] <= Rank(b)[1]
      OBVIOUS
    <2> HIDE DEF a, b, key, s, N
    <2>3. PICK k \in 1..N : Rank(a)[k] < Rank(b)[k] /\ \A h \in 1..(k - 1) : Rank(a)[h] = Rank(b)[h]
      BY <1>1, <2>1, <2>2 DEF Precedes
    <2>4. Rank(a)[1] \in Int /\ Rank(b)[1] \in Int /\ k \in Int /\ k >= 1
      <3>1. N \in Nat /\ N >= 3 /\ Rank(a) \in [1..N -> Int] /\ Rank(b) \in [1..N -> Int]
        BY <1>1, <2>1
      <3>2. 1 \in 1..N
        BY <3>1
      <3> QED
        BY <2>3, <3>1, <3>2
    <2>5. CASE k = 1
      BY <2>3, <2>4, <2>5
    <2>6. CASE k # 1
      <3>1. 1 \in 1..(k - 1)
        BY <2>4, <2>6
      <3> QED
        BY <2>3, <2>4, <3>1
    <2> QED
      BY <2>5, <2>6
  <1> QED
    BY <1>6, <1>7

IdsOf(S) == {r.id : r \in S}

\* The identities of a ranking.
LEMMA RankedIds ==
  ASSUME generation \in Generations, NEW S, Rankable(S)
  PROVE  LET ids == Ids(RankCandidates(S))
         IN /\ ids \in Seq(IdsOf(S)) /\ Len(ids) = Cardinality(S) /\ Cardinality(S) \in Nat
            /\ Len(RankCandidates(S)) = Cardinality(S)
            /\ \A i \in 1..Cardinality(S) : ids[i] = RankCandidates(S)[i].id
  <1> DEFINE n == Cardinality(S)
             s == RankCandidates(S)
             ids == Ids(s)
  <1>1. n \in Nat /\ s \in [1..n -> S]
    BY RankCandidatesIs
  <1>2. ids = [i \in DOMAIN s |-> s[i].id]
    BY DEF Ids
  <1> HIDE DEF s, ids, n
  <1>3. Len(s) = n /\ DOMAIN s = 1..n
    BY <1>1
  <1>4. \A i \in 1..n : ids[i] = s[i].id /\ s[i] \in S
    BY <1>1, <1>2, <1>3
  <1>5. \A i \in 1..n : ids[i] \in IdsOf(S)
    BY <1>4 DEF IdsOf
  <1>6. ids = [i \in 1..n |-> ids[i]]
    BY <1>2, <1>3
  <1>7. ids \in [1..n -> IdsOf(S)]
    BY <1>5, <1>6
  <1>8. ids \in Seq(IdsOf(S)) /\ Len(ids) = n
    BY <1>1, <1>7
  <1> QED
    BY <1>1, <1>3, <1>4, <1>8 DEF n, s, ids

\* The best of a ranking: none left behind leads one that is taken.
Topped(top, S, count) ==
  /\ top \in Seq(IdsOf(S)) /\ Len(top) = count
  /\ \A i, j \in 1..count : top[i] = top[j] => i = j
  /\ \A i \in 1..count : \E r \in S :
       /\ r.id = top[i]
       /\ \A o \in S : (\A j \in 1..count : top[j] # o.id) => Rank(r)[1] <= Rank(o)[1]

LEMMA ToppedIs ==
  ASSUME generation \in Generations, NEW S, Rankable(S),
         NEW count \in Nat, count <= Cardinality(S)
  PROVE  Topped(SubSeq(Ids(RankCandidates(S)), 1, count), S, count)
  <1> DEFINE n == Cardinality(S)
             s == RankCandidates(S)
             ids == Ids(s)
             top == SubSeq(ids, 1, count)
  <1>1. /\ n \in Nat /\ s \in [1..n -> S]
        /\ \A i, j \in 1..n : s[i] = s[j] => i = j
        /\ \A a \in S : \E k \in 1..n : s[k] = a
        /\ \A i, j \in 1..n : i < j => Rank(s[i])[1] <= Rank(s[j])[1]
    BY RankCandidatesIs
  <1>2. /\ ids \in Seq(IdsOf(S)) /\ Len(ids) = n
        /\ \A i \in 1..n : ids[i] = s[i].id
    BY RankedIds
  <1>3. \A a, b \in S : a.id = b.id => a = b
    BY DEF Rankable
  <1>0. count <= n
    OBVIOUS
  <1> HIDE DEF n, s, ids
  <1>4. top \in Seq(IdsOf(S)) /\ Len(top) = count /\ \A i \in 1..count : top[i] = ids[i]
    BY <1>0, <1>1, <1>2
  <1> HIDE DEF top
  <1>5. \A i \in 1..count : i \in 1..n /\ top[i] = s[i].id /\ s[i] \in S
    BY <1>0, <1>1, <1>2, <1>4
  <1>6. \A i, j \in 1..count : top[i] = top[j] => i = j
    BY <1>1, <1>3, <1>5
  <1>7. ASSUME NEW i \in 1..count
        PROVE  \E r \in S :
                 /\ r.id = top[i]
                 /\ \A o \in S : (\A j \in 1..count : top[j] # o.id) => Rank(r)[1] <= Rank(o)[1]
    <2>1. s[i] \in S /\ s[i].id = top[i] /\ i \in 1..n
      BY <1>5
    <2>2. ASSUME NEW o \in S, \A j \in 1..count : top[j] # o.id
          PROVE  Rank(s[i])[1] <= Rank(o)[1]
      <3>1. PICK k \in 1..n : s[k] = o
        BY <1>1
      <3>2. k \notin 1..count
        BY <1>5, <2>2, <3>1
      <3>3. i < k
        BY <1>1, <3>2
      <3> QED
        BY <1>1, <2>1, <3>1, <3>3
    <2> QED
      BY <2>1, <2>2
  <1> QED
    BY <1>4, <1>6, <1>7 DEF Topped, top, ids, s

-----------------------------------------------------------------------------
(* The invariant *)

Evidences ==
  [id : Idents, status : {"completed"}, result : Results]
    \union [id : Idents, status : {"failed"}, result : {NoRow}]

\* Finalists, and what is known of one that was measured.
Entrants == [family : FamilyNames, n : Nat, method : MethodNames]

Rated ==
  {f \in [id : Entrants, metrics : [precision : Int, f1 : Int, rate : Int] \union {NoRow},
          quality : 0..2, passed : BOOLEAN] :
     f.passed => f.metrics # NoRow /\ f.quality > 0}

Searching == {"control", "search", "confirm"}

\* What is to be fitted in a stage, from its start: what was fitted and the rest.
Laying(fitted, rest) ==
  [i \in 1..(Len(fitted) + Len(rest)) |->
     IF i <= Len(fitted) THEN fitted[i].id ELSE rest[i - Len(fitted)]]

Assigned == Laying(rows, queue)

FamiliesHere == Range(Families(generation))

\* No identity twice, and of every family at least so many.
Scheduled(plan, count) ==
  /\ plan \in Seq(Idents)
  /\ \A i, j \in 1..Len(plan) : plan[i] = plan[j] => i = j
  /\ \A i \in 1..Len(plan) : plan[i].family \in FamiliesHere
  /\ \A f \in FamiliesHere : \E h \in [1..count -> Range(plan)] :
       /\ \A i, j \in 1..count : h[i] = h[j] => i = j
       /\ \A i \in 1..count : h[i].family = f

\* How many of a family the end of the stage counts on.
Needed ==
  CASE stage = "confirm" -> Advanced
    [] stage # "confirm" /\ generation \in {"v2", "v3"} -> Confirmed
    [] stage # "confirm" /\ generation = "v1" -> 2
    [] OTHER -> 1

\* What WinnerEarned says of a winner.
Earned(w) ==
  LET fit == {f \in Range(finalists) : f.metrics # NoRow /\ f.passed /\ f.quality > 0}
  IN IF fit = {} THEN w = NoRow
     ELSE /\ w \in fit
          /\ \A f \in fit :
               IF generation \in {"v2", "v3"} THEN f.metrics.precision <= w.metrics.precision
               ELSE f.quality <= w.quality

SearchInv ==
  /\ generation \in Generations
  /\ stage \in Searching \union {"refit", "november", "decided", "failed"}
  /\ rows \in Seq(Evidences)
  /\ stage = "confirm" => generation \in {"v2", "v3"}
  /\ stage \in Searching =>
       /\ queue \in Seq(Idents) /\ finalists = <<>>
       /\ Scheduled(Assigned, Needed)
       /\ generation # "remediate" => \A i \in DOMAIN rows : rows[i].status = "completed"
  /\ stage = "refit" => advanced \in Seq(Idents) /\ finalists = <<>>
  /\ stage \in {"november", "decided"} => finalists \in Seq(Rated)
  /\ stage = "november" => labels \in Labels /\ queue \in Seq(Entrants)
  /\ stage = "decided" => Earned(winner)

-----------------------------------------------------------------------------
(* What is scheduled *)

LEMMA SequenceIs ==
  ASSUME NEW X, NEW n \in Nat, NEW s \in [1..n -> X]
  PROVE  s \in Seq(X) /\ Len(s) = n
  OBVIOUS

Joins(c, a, b) ==
  /\ Len(c) = Len(a) + Len(b)
  /\ \A i \in 1..Len(a) : c[i] = a[i]
  /\ \A i \in 1..Len(b) : c[Len(a) + i] = b[i]

LEMMA ConcatIs ==
  ASSUME NEW X, NEW a \in Seq(X), NEW b \in Seq(X)
  PROVE  a \o b \in Seq(X) /\ Joins(a \o b, a, b)
  BY DEF Joins

\* The identities of one family, in their order.
Laid(f) == [n \in 1..Matrix[generation][f] |-> Identity(f, n)]

LEMMA FamiliesAre ==
  ASSUME generation \in Generations
  PROVE  /\ generation \in {"v2", "v3"} =>
              Families(generation) = <<"lightgbm", "catboost">> /\ FamiliesHere = {"lightgbm", "catboost"}
         /\ generation \notin {"v2", "v3"} => \E f \in FamilyNames :
              Families(generation) = <<f>> /\ FamiliesHere = {f}
         /\ FamiliesHere \subseteq FamilyNames
         /\ \A f \in FamiliesHere : Matrix[generation][f] \in Nat /\ Needed \in Nat
              /\ (stage # "confirm" => Needed <= Matrix[generation][f])
  <1>1. \A x, y : Range(<<x>>) = {x} /\ Range(<<x, y>>) = {x, y}
    <2>1. ASSUME NEW x, NEW y PROVE Range(<<x>>) = {x} /\ Range(<<x, y>>) = {x, y}
      <3>1. /\ DOMAIN <<x>> = {1} /\ <<x>>[1] = x
            /\ DOMAIN <<x, y>> = {1, 2} /\ <<x, y>>[1] = x /\ <<x, y>>[2] = y
        OBVIOUS
      <3> QED
        BY <3>1 DEF Range
    <2> QED
      BY <2>1
  <1>4. ASSUME NEW f \in FamiliesHere
        PROVE  Matrix[generation][f] \in Nat /\ Needed \in Nat
                 /\ (stage # "confirm" => Needed <= Matrix[generation][f])
    <2> DEFINE m == Matrix[generation][f]
    <2>1. PICK i \in DOMAIN Families(generation) : Families(generation)[i] = f
      BY DEF FamiliesHere, Range
    <2>2. m \in Nat \ {0}
      BY <2>1, SearchAssumption
    <2>3. Confirmed \in Nat /\ Advanced \in Nat
      BY SearchAssumption
    <2>4. generation \in {"v2", "v3"} => Confirmed <= m
      BY <2>1, SearchAssumption
    <2>5. generation = "v1" => m >= 2
      <3>1. generation = "v1" => f = "CB"
        BY <2>1 DEF Families
      <3>2. Matrix["v1"]["CB"] >= 2
        BY SearchAssumption
      <3> QED
        BY <3>1, <3>2
    <2> HIDE DEF m
    <2>6. Needed \in Nat
      BY <2>3 DEF Needed
    <2>7. stage # "confirm" => Needed <= m
      BY <2>2, <2>3, <2>4, <2>5 DEF Needed
    <2> QED
      BY <2>2, <2>6, <2>7 DEF m
  <1>2. CASE generation \in {"v2", "v3"}
    <2>1. Families(generation) = <<"lightgbm", "catboost">>
      BY <1>2 DEF Families
    <2>2. FamiliesHere = {"lightgbm", "catboost"}
      BY <1>1, <2>1 DEF FamiliesHere
    <2>3. FamiliesHere \subseteq FamilyNames
      BY <2>2 DEF FamilyNames
    <2> QED
      BY <1>2, <1>4, <2>1, <2>2, <2>3
  <1>3. CASE generation \notin {"v2", "v3"}
    <2>1. \E f \in {"tuned", "R", "CB"} : Families(generation) = <<f>>
      BY <1>3 DEF Families, Generations
    <2>2. PICK f \in {"tuned", "R", "CB"} : Families(generation) = <<f>>
      BY <2>1
    <2>3. FamiliesHere = {f}
      BY <1>1, <2>2 DEF FamiliesHere
    <2>4. FamiliesHere \subseteq FamilyNames /\ f \in FamilyNames
      BY <2>3 DEF FamilyNames
    <2> QED
      BY <1>3, <1>4, <2>2, <2>3, <2>4
  <1> QED
    BY <1>2, <1>3

LEMMA LaidIs ==
  ASSUME generation \in Generations, NEW f \in FamiliesHere
  PROVE  /\ Laid(f) \in Seq(Idents) /\ Len(Laid(f)) = Matrix[generation][f]
         /\ \A n \in 1..Matrix[generation][f] : Laid(f)[n] = Identity(f, n)
  <1> DEFINE m == Matrix[generation][f]
             s == Laid(f)
  <1>1. m \in Nat /\ f \in FamilyNames
    BY FamiliesAre
  <1>2. s = [n \in 1..m |-> Identity(f, n)]
    BY DEF Laid
  <1>3. \A n \in 1..m : Identity(f, n) \in Idents
    BY <1>1 DEF Identity, Idents
  <1> HIDE DEF m, s
  <1>4. s \in [1..m -> Idents] /\ \A n \in 1..m : s[n] = Identity(f, n)
    BY <1>2, <1>3
  <1>5. s \in Seq(Idents) /\ Len(s) = m
    <2> HIDE DEF Idents
    <2> QED
      BY <1>1, <1>4
  <1> QED
    BY <1>4, <1>5 DEF m, s

LEMMA PlanIs ==
  ASSUME generation \in Generations
  PROVE  /\ generation \in {"v2", "v3"} => Plan(generation) = Laid("lightgbm") \o Laid("catboost")
         /\ generation \notin {"v2", "v3"} => \E f \in FamilyNames :
              FamiliesHere = {f} /\ Plan(generation) = Laid(f)
  <1> DEFINE fs == Families(generation)
             ss == [i \in DOMAIN fs |-> Laid(fs[i])]
  <1>1. Plan(generation) = FlattenSeq(ss)
    BY DEF Plan, Laid
  <1>2. \A i \in DOMAIN fs : fs[i] \in FamiliesHere /\ Laid(fs[i]) \in Seq(Idents)
    BY LaidIs DEF FamiliesHere, Range
  <1>3. CASE generation \in {"v2", "v3"}
    <2>1. fs = <<"lightgbm", "catboost">>
      BY <1>3, FamiliesAre
    <2>2. DOMAIN fs = 1..2 /\ fs[1] = "lightgbm" /\ fs[2] = "catboost"
      BY <2>1
    <2> HIDE DEF fs
    <2>3. ss \in [1..2 -> Seq(Idents)] /\ ss[1] = Laid("lightgbm") /\ ss[2] = Laid("catboost")
      BY <1>2, <2>2
    <2> HIDE DEF ss
    <2>4. ss \in Seq(Seq(Idents)) /\ Len(ss) = 2
      <3>1. 2 \in Nat
        OBVIOUS
      <3> QED
        BY <2>3, <3>1, SequenceIs
    <2>5. FlattenSeq(ss) = ss[1] \o ss[2]
      BY <2>4, FlattenShort
    <2> QED
      BY <1>1, <1>3, <2>3, <2>5
  <1>4. CASE generation \notin {"v2", "v3"}
    <2>1. PICK f \in FamilyNames : fs = <<f>> /\ FamiliesHere = {f}
      BY <1>4, FamiliesAre
    <2>2. DOMAIN fs = 1..1 /\ fs[1] = f
      BY <2>1
    <2> HIDE DEF fs
    <2>3. ss \in [1..1 -> Seq(Idents)] /\ ss[1] = Laid(f)
      BY <1>2, <2>2
    <2> HIDE DEF ss
    <2>4. ss \in Seq(Seq(Idents)) /\ Len(ss) = 1
      <3>1. 1 \in Nat
        OBVIOUS
      <3> QED
        BY <2>3, <3>1, SequenceIs
    <2>5. FlattenSeq(ss) = ss[1]
      BY <2>4, FlattenShort
    <2> QED
      BY <1>1, <1>4, <2>1, <2>3, <2>5
  <1> QED
    BY <1>3, <1>4

\* The plan schedules enough of every family, none twice.
LEMMA PlanScheduled ==
  ASSUME generation \in Generations, stage # "confirm"
  PROVE  Scheduled(Plan(generation), Needed)
  <1> DEFINE plan == Plan(generation)
             m(f) == Matrix[generation][f]
  <1>1. \A f \in FamiliesHere : m(f) \in Nat /\ Needed \in Nat /\ Needed <= m(f) /\ f \in FamilyNames
    BY FamiliesAre
  <1>2. \A f \in FamiliesHere : /\ Laid(f) \in Seq(Idents) /\ Len(Laid(f)) = m(f)
                                /\ \A n \in 1..m(f) : Laid(f)[n] = Identity(f, n)
    BY LaidIs
  <1>3. \A f, n : Identity(f, n).family = f /\ Identity(f, n).n = n
    BY DEF Identity
  <1>4. /\ plan \in Seq(Idents)
        /\ \A i \in 1..Len(plan) : \E f \in FamiliesHere : \E n \in 1..m(f) :
             /\ plan[i] = Identity(f, n)
             /\ \A j \in 1..Len(plan) : plan[j] = plan[i] => i = j
        /\ \A f \in FamiliesHere : \A n \in 1..m(f) : \E i \in 1..Len(plan) : plan[i] = Identity(f, n)
    <2>1. CASE generation \notin {"v2", "v3"}
      <3>1. PICK f \in FamilyNames : FamiliesHere = {f} /\ plan = Laid(f)
        BY <2>1, PlanIs
      <3> HIDE DEF plan, m
      <3>2. plan \in Seq(Idents) /\ Len(plan) = m(f) /\ \A n \in 1..m(f) : plan[n] = Identity(f, n)
        BY <1>2, <3>1
      <3>3. \A i, j \in 1..Len(plan) : plan[j] = plan[i] => i = j
        BY <1>3, <3>2
      <3> QED
        BY <3>1, <3>2, <3>3
    <2>2. CASE generation \in {"v2", "v3"}
      <3> DEFINE a == Laid("lightgbm")
                 b == Laid("catboost")
                 p == m("lightgbm")
                 q == m("catboost")
      <3>1. plan = a \o b /\ FamiliesHere = {"lightgbm", "catboost"}
        BY <2>2, PlanIs, FamiliesAre
      <3>2. /\ a \in Seq(Idents) /\ Len(a) = p /\ \A n \in 1..p : a[n] = Identity("lightgbm", n)
            /\ b \in Seq(Idents) /\ Len(b) = q /\ \A n \in 1..q : b[n] = Identity("catboost", n)
            /\ p \in Nat /\ q \in Nat
        BY <1>1, <1>2, <3>1
      <3> HIDE DEF plan, a, b, p, q
      <3>3. /\ plan \in Seq(Idents) /\ Len(plan) = p + q
            /\ \A i \in 1..p : plan[i] = a[i]
            /\ \A i \in 1..q : plan[p + i] = b[i]
        <4>1. plan \in Seq(Idents) /\ Joins(plan, a, b)
          BY <3>1, <3>2, ConcatIs
        <4>2. p = Len(a) /\ q = Len(b)
          BY <3>2
        <4> QED
          BY <4>1, <4>2, Zenon DEF Joins
      <3>4. \A i \in 1..p : plan[i] = Identity("lightgbm", i) /\ i \in 1..(p + q)
        BY <3>2, <3>3
      <3>5. \A i \in 1..q : plan[p + i] = Identity("catboost", i) /\ p + i \in 1..(p + q)
        BY <3>2, <3>3
      <3>6. \A i \in 1..(p + q) :
              \/ i \in 1..p /\ plan[i] = Identity("lightgbm", i)
              \/ i \notin 1..p /\ i - p \in 1..q /\ plan[i] = Identity("catboost", i - p)
        <4> SUFFICES ASSUME NEW i \in 1..(p + q), i \notin 1..p
                     PROVE  i - p \in 1..q /\ plan[i] = Identity("catboost", i - p)
          BY <3>4
        <4>1. i - p \in 1..q /\ p + (i - p) = i
          BY <3>2
        <4> QED
          BY <3>5, <4>1
      <3>7. \A i, j \in 1..(p + q) : plan[j] = plan[i] => i = j
        <4> SUFFICES ASSUME NEW i \in 1..(p + q), NEW j \in 1..(p + q), plan[j] = plan[i]
                     PROVE  i = j
          OBVIOUS
        <4>1. plan[i].family = plan[j].family /\ plan[i].n = plan[j].n
          OBVIOUS
        <4>2. CASE i \in 1..p
          BY <1>3, <3>6, <4>1, <4>2
        <4>3. CASE i \notin 1..p
          <5>1. j \notin 1..p /\ i - p = j - p
            BY <1>3, <3>6, <4>1, <4>3
          <5> QED
            BY <3>2, <5>1
        <4> QED
          BY <4>2, <4>3
      <3>8. \A i \in 1..Len(plan) : \E f \in FamiliesHere : \E n \in 1..m(f) : plan[i] = Identity(f, n)
        BY <3>1, <3>3, <3>6 DEF p, q
      <3>9. \A f \in FamiliesHere : \A n \in 1..m(f) : \E i \in 1..Len(plan) : plan[i] = Identity(f, n)
        <4>1. \A n \in 1..m("lightgbm") : \E i \in 1..Len(plan) : plan[i] = Identity("lightgbm", n)
          BY <3>3, <3>4 DEF p
        <4>2. \A n \in 1..m("catboost") : \E i \in 1..Len(plan) : plan[i] = Identity("catboost", n)
          BY <3>3, <3>5 DEF q
        <4> QED
          BY <3>1, <4>1, <4>2
      <3> QED
        BY <3>3, <3>7, <3>8, <3>9
    <2> QED
      BY <2>1, <2>2
  <1> HIDE DEF plan, m
  <1>5. \A i, j \in 1..Len(plan) : plan[i] = plan[j] => i = j
    BY <1>4
  <1>6. \A i \in 1..Len(plan) : plan[i].family \in FamiliesHere
    BY <1>3, <1>4
  <1>7. ASSUME NEW f \in FamiliesHere
        PROVE  \E h \in [1..Needed -> Range(plan)] :
                 /\ \A i, j \in 1..Needed : h[i] = h[j] => i = j
                 /\ \A i \in 1..Needed : h[i].family = f
    <2> DEFINE h == [n \in 1..Needed |-> Identity(f, n)]
    <2>1. DOMAIN plan = 1..Len(plan)
      BY <1>4
    <2>2. \A n \in 1..Needed : n \in 1..m(f)
      BY <1>1
    <2>3. \A n \in 1..Needed : Identity(f, n) \in Range(plan)
      BY <1>4, <2>1, <2>2 DEF Range
    <2>4. h \in [1..Needed -> Range(plan)]
      BY <2>3
    <2>5. /\ \A i, j \in 1..Needed : h[i] = h[j] => i = j
          /\ \A i \in 1..Needed : h[i].family = f
      BY <1>3
    <2> QED
      BY <2>4, <2>5
  <1> QED
    BY <1>4, <1>5, <1>6, <1>7 DEF Scheduled, plan

LEMMA LayingStart ==
  ASSUME NEW X, NEW rest \in Seq(X)
  PROVE  Laying(<<>>, rest) = rest
  <1> DEFINE n == Len(rest)
  <1>1. n \in Nat /\ Len(<<>>) = 0 /\ rest = [i \in 1..n |-> rest[i]]
    OBVIOUS
  <1> HIDE DEF n
  <1>2. 0 + n = n /\ \A i \in 1..n : ~(i <= 0) /\ i - 0 = i
    BY <1>1
  <1>3. Laying(<<>>, rest) = [i \in 1..n |-> IF i <= 0 THEN <<>>[i].id ELSE rest[i - 0]]
    BY <1>1, <1>2 DEF Laying, n
  <1>4. Laying(<<>>, rest) = [i \in 1..n |-> rest[i]]
    BY <1>2, <1>3
  <1> QED
    BY <1>1, <1>4

\* Fitting the first of the rest lays out the same.
LEMMA LayingStep ==
  ASSUME NEW fitted \in Seq(Evidences), NEW rest \in Seq(Idents), rest # <<>>,
         NEW e \in Evidences, e.id = Head(rest)
  PROVE  Laying(Append(fitted, e), Tail(rest)) = Laying(fitted, rest)
  <1> DEFINE a == Len(fitted)
             b == Len(rest)
             more == Append(fitted, e)
             less == Tail(rest)
             E == Evidences
             I == Idents
  <1>0. fitted \in Seq(E) /\ rest \in Seq(I) /\ e \in E
    OBVIOUS
  <1> HIDE DEF E, I
  <1>1. /\ a \in Nat /\ b \in Nat /\ b >= 1
        /\ Len(more) = a + 1 /\ Len(less) = b - 1
        /\ \A i \in 1..a : more[i] = fitted[i]
        /\ more[a + 1] = e /\ rest[1] = e.id
        /\ \A i \in 1..(b - 1) : less[i] = rest[i + 1]
    BY <1>0
  <1> DEFINE f == Laying(more, less)
             g == Laying(fitted, rest)
  <1>2. g = [i \in 1..(a + b) |-> IF i <= a THEN fitted[i].id ELSE rest[i - a]]
    BY DEF Laying
  <1>3. f = [i \in 1..(Len(more) + Len(less)) |-> IF i <= Len(more) THEN more[i].id ELSE less[i - Len(more)]]
    BY DEF Laying
  <1> HIDE DEF f, g, a, b, more, less
  <1>4. (a + 1) + (b - 1) = a + b
    BY <1>1
  <1>5. f = [i \in 1..(a + b) |-> IF i <= a + 1 THEN more[i].id ELSE less[i - (a + 1)]]
    BY <1>1, <1>3, <1>4
  <1>6. ASSUME NEW i \in 1..(a + b)
        PROVE  f[i] = g[i]
    <2>1. CASE i <= a
      <3>1. i \in 1..a /\ i <= a + 1
        BY <1>1, <2>1
      <3> QED
        BY <1>1, <1>2, <1>5, <2>1, <3>1
    <2>2. CASE i = a + 1
      <3>1. i <= a + 1 /\ ~(i <= a) /\ i - a = 1
        BY <1>1, <2>2
      <3>2. f[i] = e.id /\ g[i] = rest[1]
        BY <1>1, <1>2, <1>5, <2>2, <3>1
      <3> QED
        BY <1>1, <3>2
    <2>3. CASE i > a + 1
      <3>0. i \in Int /\ a \in Int /\ b \in Int /\ i <= a + b
        BY <1>1
      <3>1. ~(i <= a + 1) /\ ~(i <= a) /\ i - (a + 1) \in 1..(b - 1) /\ (i - (a + 1)) + 1 = i - a
        BY <3>0, <2>3
      <3>2. f[i] = less[i - (a + 1)] /\ g[i] = rest[i - a]
        BY <1>2, <1>5, <3>1
      <3> QED
        BY <1>1, <3>1, <3>2
    <2>4. i <= a \/ i = a + 1 \/ i > a + 1
      BY <1>1
    <2> QED
      BY <2>1, <2>2, <2>3, <2>4
  <1>7. f = [i \in 1..(a + b) |-> f[i]] /\ g = [i \in 1..(a + b) |-> g[i]]
    BY <1>2, <1>5
  <1>8. f = g
    BY <1>6, <1>7
  <1> QED
    BY <1>8 DEF f, g, more, less

\* When nothing is left, what was fitted is what was laid out.
LEMMA LayingEnd ==
  ASSUME NEW fitted \in Seq(Evidences)
  PROVE  /\ Len(Laying(fitted, <<>>)) = Len(fitted)
         /\ \A i \in 1..Len(fitted) : Laying(fitted, <<>>)[i] = fitted[i].id
         /\ Laying(fitted, <<>>) \in Seq(Idents)
  <1> DEFINE n == Len(fitted)
             f == Laying(fitted, <<>>)
             E == Evidences
  <1>0. fitted \in Seq(E)
    OBVIOUS
  <1>1. \A e \in E : e.id \in Idents
    BY DEF Evidences
  <1> HIDE DEF E
  <1>2. n \in Nat /\ Len(<<>>) = 0 /\ \A i \in 1..n : fitted[i] \in E
    BY <1>0
  <1>3. f = [i \in 1..(n + 0) |-> IF i <= n THEN fitted[i].id ELSE <<>>[i - n]]
    BY <1>2 DEF Laying
  <1> HIDE DEF n, f
  <1>4. n + 0 = n /\ \A i \in 1..n : i <= n
    BY <1>2
  <1>5. \A i \in 1..n : f[i] = fitted[i].id
    BY <1>3, <1>4
  <1>6. f = [i \in 1..n |-> f[i]]
    BY <1>3, <1>4
  <1>7. f \in [1..n -> Idents]
    BY <1>1, <1>2, <1>5, <1>6
  <1>8. f \in Seq(Idents) /\ Len(f) = n
    BY <1>2, <1>7, SequenceIs
  <1> QED
    BY <1>5, <1>8 DEF n, f

-----------------------------------------------------------------------------
(* The end of a stage *)

\* When a stage ends its evidence is of distinct identities, enough of every family.
LEMMA Filled ==
  ASSUME SearchInv, stage \in Searching, queue = <<>>
  PROVE  /\ IsFiniteSet(Range(rows)) /\ Range(rows) \subseteq Evidences
         /\ \A a, b \in Range(rows) : a.id = b.id => a = b
         /\ \A r \in Range(rows) : r.id.family \in FamiliesHere
         /\ \A f \in FamiliesHere : \E h \in [1..Needed -> IdsOf(Range(rows))] :
              /\ \A i, j \in 1..Needed : h[i] = h[j] => i = j
              /\ \A i \in 1..Needed : h[i].family = f
  <1> DEFINE n == Len(rows)
             E == Evidences
             plan == Assigned
             S == Range(rows)
  <1>1. rows \in Seq(E) /\ Scheduled(plan, Needed)
    BY DEF SearchInv
  <1>2. /\ Len(plan) = n
        /\ \A i \in 1..n : plan[i] = rows[i].id
    <2>1. plan = Laying(rows, <<>>)
      BY DEF Assigned
    <2> HIDE DEF plan
    <2> QED
      BY <1>1, <2>1, LayingEnd
  <1>3. n \in Nat /\ DOMAIN rows = 1..n /\ \A i \in 1..n : rows[i] \in E
    <2> HIDE DEF E
    <2> QED
      BY <1>1
  <1>4. /\ plan \in Seq(Idents)
        /\ \A i, j \in 1..Len(plan) : plan[i] = plan[j] => i = j
        /\ \A i \in 1..Len(plan) : plan[i].family \in FamiliesHere
        /\ \A f \in FamiliesHere : \E h \in [1..Needed -> Range(plan)] :
             /\ \A i, j \in 1..Needed : h[i] = h[j] => i = j
             /\ \A i \in 1..Needed : h[i].family = f
    BY <1>1 DEF Scheduled
  <1>5. \A r \in S : \E i \in 1..n : rows[i] = r
    BY <1>3 DEF Range
  <1>6. \A i \in 1..n : rows[i] \in S
    BY <1>3 DEF Range
  <1>7. IsFiniteSet(S)
    <2>1. IsFiniteSet(1..n)
      BY <1>3, FS_Interval
    <2>2. rows \in [1..n -> S]
      <3> HIDE DEF S, E, n
      <3>1. rows = [i \in 1..n |-> rows[i]]
        BY <1>1, <1>3
      <3> QED
        BY <1>6, <3>1
    <2>3. rows \in Surjection(1..n, S)
      <3> HIDE DEF S, n
      <3> QED
        BY <1>5, <2>2 DEF Surjection
    <2> QED
      BY <2>1, <2>3, FS_Surjection
  <1> DEFINE T == IdsOf(S)
  <1>8. DOMAIN plan = 1..n /\ \A i \in 1..n : plan[i] \in T
    <2>1. DOMAIN plan = 1..n
      <3> HIDE DEF plan
      <3> QED
        BY <1>2, <1>4
    <2> QED
      BY <1>2, <1>6, <2>1 DEF IdsOf
  <1> HIDE DEF S, E, n, plan, T
  <1>9. S \subseteq E
    BY <1>3, <1>5
  <1>10. \A a, b \in S : a.id = b.id => a = b
    <2> SUFFICES ASSUME NEW a \in S, NEW b \in S, a.id = b.id PROVE a = b
      OBVIOUS
    <2>1. PICK i \in 1..n : rows[i] = a
      BY <1>5
    <2>2. PICK j \in 1..n : rows[j] = b
      BY <1>5
    <2>3. plan[i] = plan[j]
      BY <1>2, <2>1, <2>2
    <2>4. i = j
      BY <1>2, <1>4, <2>3
    <2> QED
      BY <2>1, <2>2, <2>4
  <1>11. \A r \in S : r.id.family \in FamiliesHere
    <2> SUFFICES ASSUME NEW r \in S PROVE r.id.family \in FamiliesHere
      OBVIOUS
    <2>1. PICK i \in 1..n : rows[i] = r
      BY <1>5
    <2> QED
      BY <1>2, <1>4, <2>1
  <1>12. Range(plan) \subseteq T
    BY <1>8 DEF Range
  <1>13. ASSUME NEW f \in FamiliesHere
         PROVE  \E h \in [1..Needed -> T] :
                  /\ \A i, j \in 1..Needed : h[i] = h[j] => i = j
                  /\ \A i \in 1..Needed : h[i].family = f
    <2>1. PICK h \in [1..Needed -> Range(plan)] :
             /\ \A i, j \in 1..Needed : h[i] = h[j] => i = j
             /\ \A i \in 1..Needed : h[i].family = f
      BY <1>4
    <2>2. h \in [1..Needed -> T]
      BY <1>12
    <2> QED
      BY <2>1, <2>2
  <1> QED
    BY <1>7, <1>9, <1>10, <1>11, <1>13 DEF S, E, T

\* What completed of one family can be ranked.
LEMMA OneFamilyRankable ==
  ASSUME SearchInv, stage \in Searching, queue = <<>>, NEW f, NEW S,
         S \subseteq Range(rows), \A r \in S : r.id.family = f /\ r.status = "completed"
  PROVE  Rankable(S)
  <1>1. /\ IsFiniteSet(Range(rows)) /\ Range(rows) \subseteq Evidences
        /\ \A a, b \in Range(rows) : a.id = b.id => a = b
    BY Filled
  <1>2. IsFiniteSet(S)
    BY <1>1, FS_Subset
  <1>3. \A r \in S : r.id \in Idents /\ r.result \in Results
    BY <1>1 DEF Evidences
  <1>4. \A x, y \in Idents : x.family = y.family /\ x.n = y.n => x = y
    BY DEF Idents
  <1>5. \A x \in Idents : x.n \in Int
    BY DEF Idents
  <1>6. \A a, b \in S : a.id.n = b.id.n => a = b
    <2> SUFFICES ASSUME NEW a \in S, NEW b \in S, a.id.n = b.id.n PROVE a = b
      OBVIOUS
    <2>1. a.id \in Idents /\ b.id \in Idents /\ a.id.family = b.id.family
      BY <1>3
    <2>2. a.id = b.id
      BY <1>4, <2>1
    <2> QED
      BY <1>1, <2>2
  <1> QED
    BY <1>2, <1>3, <1>5, <1>6 DEF Rankable

\* Outside the remediation a family is ranked whole, and there is enough of it.
LEMMA FamilyRankable ==
  ASSUME SearchInv, stage \in Searching, queue = <<>>, generation # "remediate",
         NEW f \in FamiliesHere
  PROVE  /\ Rankable(OfFamily(rows, f)) /\ Needed <= Cardinality(OfFamily(rows, f))
         /\ Needed \in Nat
  <1> DEFINE S == OfFamily(rows, f)
             T == IdsOf(S)
  <1>1. S \subseteq Range(rows) /\ \A r \in S : r.id.family = f
    BY DEF OfFamily
  <1>2. \A r \in Range(rows) : r.status = "completed"
    BY DEF SearchInv, Range
  <1>3. Rankable(S)
    <2> HIDE DEF S
    <2> QED
      BY <1>1, <1>2, OneFamilyRankable
  <1>4. PICK h \in [1..Needed -> IdsOf(Range(rows))] :
          /\ \A i, j \in 1..Needed : h[i] = h[j] => i = j
          /\ \A i \in 1..Needed : h[i].family = f
    BY Filled
  <1>5. Needed \in Nat
    BY FamiliesAre DEF SearchInv
  <1>6. IsFiniteSet(T) /\ Cardinality(T) <= Cardinality(S)
    <2> DEFINE g == [r \in S |-> r.id]
    <2>1. g \in [S -> T] /\ \A t \in T : \E r \in S : g[r] = t
      BY DEF IdsOf
    <2>2. g \in Surjection(S, T)
      <3> HIDE DEF g, S, T
      <3> QED
        BY <2>1 DEF Surjection
    <2>3. IsFiniteSet(S)
      BY <1>3 DEF Rankable
    <2> HIDE DEF g, S, T
    <2> QED
      BY <2>2, <2>3, FS_Surjection
  <1>7. Needed <= Cardinality(T)
    <2>1. \A i \in 1..Needed : h[i] \in T
      BY <1>4 DEF OfFamily, IdsOf
    <2>2. h \in Injection(1..Needed, T)
      <3> HIDE DEF T, S
      <3>1. h \in [1..Needed -> T]
        BY <1>4, <2>1
      <3> QED
        BY <1>4, <3>1 DEF Injection, IsInjective
    <2>3. Cardinality(1..Needed) = Needed
      BY <1>5, FS_Interval
    <2> HIDE DEF T
    <2>4. Cardinality(1..Needed) <= Cardinality(T)
      BY <1>6, <2>2, FS_Injection
    <2> QED
      BY <2>3, <2>4
  <1>8. Cardinality(S) \in Nat /\ Cardinality(T) \in Nat
    BY <1>3, <1>6, FS_CardinalityType DEF Rankable
  <1> QED
    <2> HIDE DEF S, T
    <2>1. Needed <= Cardinality(S)
      BY <1>5, <1>6, <1>7, <1>8
    <2> QED
      BY <1>3, <1>5, <2>1 DEF S

\* The best of a family, and how many.
LEMMA AdvanceIs ==
  ASSUME SearchInv, stage \in Searching, queue = <<>>, generation # "remediate",
         NEW f \in FamiliesHere, NEW count \in Nat, count <= Needed
  PROVE  Topped(AdvanceFamily(rows, f, count), OfFamily(rows, f), count)
  <1> DEFINE S == OfFamily(rows, f)
             c == Cardinality(S)
  <1>1. Rankable(S) /\ Needed <= c /\ Needed \in Nat
    BY FamilyRankable
  <1>2. c \in Nat /\ generation \in Generations
    BY <1>1, FS_CardinalityType DEF Rankable, SearchInv
  <1> HIDE DEF S
  <1>3. count <= c
    <2> HIDE DEF c
    <2> QED
      BY <1>1, <1>2
  <1>4. Topped(SubSeq(Ids(RankCandidates(S)), 1, count), S, count)
    BY <1>1, <1>2, <1>3, ToppedIs
  <1> QED
    BY <1>4 DEF AdvanceFamily, S

LEMMA IdsTyped ==
  ASSUME SearchInv, NEW S, S \subseteq Range(rows)
  PROVE  IdsOf(S) \subseteq Idents
  <1> DEFINE E == Evidences
  <1>1. \A e \in E : e.id \in Idents
    BY DEF Evidences
  <1>2. rows \in Seq(E)
    BY DEF SearchInv
  <1> HIDE DEF E
  <1>3. \A r \in Range(rows) : r \in E
    BY <1>2 DEF Range
  <1> QED
    BY <1>1, <1>3 DEF IdsOf

\* The refit is given identities.
LEMMA AdvanceStep ==
  ASSUME SearchInv, stage \in Searching, NEW bases \in Seq(Idents), Advance(bases)
  PROVE  SearchInv'
  BY DEF SearchInv, Advance, Searching

LEMMA FailStep ==
  ASSUME SearchInv, stage' = "failed", generation' = generation, rows' = rows
  PROVE  SearchInv'
  BY DEF SearchInv, Searching

LEMMA WholeFamily ==
  ASSUME SearchInv, stage \in Searching, queue = <<>>, generation \in {"select", "remediate", "v1"}
  PROVE  /\ Rankable(Completed(rows))
         /\ generation # "remediate" =>
              Completed(rows) = Range(rows) /\ Needed <= Cardinality(Range(rows))
         /\ IdsOf(Completed(rows)) \subseteq Idents
  <1>0. generation \in Generations /\ generation \notin {"v2", "v3"}
    BY DEF SearchInv
  <1>1. PICK f \in FamilyNames : FamiliesHere = {f}
    BY <1>0, FamiliesAre
  <1>2. \A r \in Range(rows) : r.id.family = f
    BY <1>1, Filled
  <1>3. Rankable(Completed(rows))
    <2> DEFINE S == Completed(rows)
    <2>1. S \subseteq Range(rows) /\ \A r \in S : r.id.family = f /\ r.status = "completed"
      BY <1>2 DEF Completed
    <2> HIDE DEF S
    <2>2. Rankable(S)
      BY <2>1, OneFamilyRankable
    <2> QED
      BY <2>2 DEF S
  <1>4. ASSUME generation # "remediate"
        PROVE  Completed(rows) = Range(rows) /\ Needed <= Cardinality(Range(rows))
    <2>1. \A r \in Range(rows) : r.status = "completed"
      BY <1>4 DEF SearchInv, Range
    <2>2. Completed(rows) = Range(rows) /\ OfFamily(rows, f) = Range(rows)
      BY <1>2, <2>1 DEF Completed, OfFamily
    <2>3. Needed <= Cardinality(OfFamily(rows, f))
      BY <1>1, <1>4, FamilyRankable
    <2> QED
      BY <2>2, <2>3
  <1>5. IdsOf(Completed(rows)) \subseteq Idents
    BY IdsTyped DEF Completed
  <1> QED
    BY <1>3, <1>4, <1>5

LEMMA TuningEnds ==
  ASSUME SearchInv, EndTuning
  PROVE  SearchInv'
  <1> DEFINE S == Range(rows)
             ids == Ids(RankCandidates(S))
             I == Idents
             first == Head(ids)
             control == Identity("control", 1)
  <1>1. /\ stage = "search" /\ generation = "select" /\ queue = <<>>
        /\ Advance(<<control, first>>)
    BY DEF EndTuning
  <1>2. stage \in Searching /\ Needed = 1
    BY <1>1 DEF Searching, Needed
  <1>3. Rankable(S) /\ Needed <= Cardinality(S) /\ IdsOf(S) \subseteq I
    BY <1>1, <1>2, WholeFamily
  <1>4. generation \in Generations
    BY DEF SearchInv
  <1>5. ids \in Seq(IdsOf(S)) /\ Len(ids) = Cardinality(S) /\ Cardinality(S) \in Nat
    <2> HIDE DEF S
    <2> QED
      BY <1>3, <1>4, RankedIds
  <1>6. control \in I
    BY DEF Identity, Idents, FamilyNames
  <1> HIDE DEF S, ids, I, control
  <1>7. Len(ids) \in Nat /\ Len(ids) >= 1
    BY <1>2, <1>3, <1>5
  <1>8. first \in IdsOf(S)
    <2> DEFINE T == IdsOf(S)
    <2> HIDE DEF T
    <2>1. ids \in Seq(T)
      BY <1>5 DEF T
    <2>2. first \in T
      BY <1>7, <2>1
    <2> QED
      BY <2>2 DEF T
  <1> HIDE DEF first
  <1>9. <<control, first>> \in Seq(I)
    BY <1>3, <1>6, <1>8
  <1> QED
    BY <1>1, <1>2, <1>9, AdvanceStep DEF I

\* The top two of a ranking, and the control besides.
LEMMA TopTwo ==
  ASSUME SearchInv, NEW S, Rankable(S), IdsOf(S) \subseteq Idents,
         Len(RankCandidates(S)) >= 2
  PROVE  /\ SubSeq(Ids(RankCandidates(S)), 1, 2) \in Seq(Idents)
         /\ AuthorizedCalibrationIds(RankCandidates(S)) \in Seq(Idents)
  <1> DEFINE ids == Ids(RankCandidates(S))
             T == IdsOf(S)
             I == Idents
             top == SubSeq(ids, 1, 2)
             control == Identity("R", 1)
  <1>1. generation \in Generations
    BY DEF SearchInv
  <1>2. ids \in Seq(T) /\ Len(ids) = Len(RankCandidates(S))
    BY <1>1, RankedIds
  <1>3. Len(ids) >= 2 /\ T \subseteq I
    BY <1>2
  <1>4. control \in I
    BY DEF Identity, Idents, FamilyNames
  <1>5. AuthorizedCalibrationIds(RankCandidates(S)) \in {top, Append(top, control)}
    BY DEF AuthorizedCalibrationIds
  <1> HIDE DEF ids, T, I, control
  <1>6. top \in Seq(T)
    BY <1>2, <1>3
  <1> HIDE DEF top
  <1>7. top \in Seq(I)
    BY <1>3, <1>6
  <1>8. Append(top, control) \in Seq(I)
    BY <1>4, <1>7
  <1> QED
    BY <1>5, <1>7, <1>8 DEF ids, top, I

LEMMA BaseSearchEnds ==
  ASSUME SearchInv, EndBaseSearch
  PROVE  SearchInv'
  <1> DEFINE S == Completed(rows)
             ranked == RankCandidates(S)
  <1>1. stage = "search" /\ generation = "remediate" /\ queue = <<>>
    BY DEF EndBaseSearch
  <1>2. stage \in Searching
    BY <1>1 DEF Searching
  <1>3. Rankable(S) /\ IdsOf(S) \subseteq Idents
    BY <1>1, <1>2, WholeFamily
  <1>4. CASE Len(ranked) < 2
    BY <1>4, FailStep DEF EndBaseSearch
  <1>5. CASE ~(Len(ranked) < 2)
    <2>1. Advance(AuthorizedCalibrationIds(ranked))
      BY <1>5 DEF EndBaseSearch
    <2> HIDE DEF S
    <2>2. Len(ranked) \in Nat
      <3>1. generation \in Generations
        BY DEF SearchInv
      <3> QED
        BY <1>3, <3>1, RankedIds
    <2>3. Len(ranked) >= 2
      <3> HIDE DEF ranked
      <3> QED
        BY <1>5, <2>2
    <2>4. AuthorizedCalibrationIds(ranked) \in Seq(Idents)
      BY <1>3, <2>3, TopTwo
    <2> QED
      BY <1>2, <2>1, <2>4, AdvanceStep
  <1> QED
    BY <1>4, <1>5

LEMMA RollingEnds ==
  ASSUME SearchInv, EndRolling
  PROVE  SearchInv'
  <1> DEFINE S == Completed(rows)
             ranked == RankCandidates(S)
  <1>1. /\ stage = "search" /\ generation = "v1" /\ queue = <<>>
        /\ Advance(SubSeq(Ids(ranked), 1, 2))
    BY DEF EndRolling, TopTwoCatboost
  <1>2. stage \in Searching /\ Needed = 2
    BY <1>1 DEF Searching, Needed
  <1>3. Rankable(S) /\ IdsOf(S) \subseteq Idents /\ Needed <= Cardinality(S)
    BY <1>1, <1>2, WholeFamily
  <1> HIDE DEF S
  <1>4. Len(ranked) = Cardinality(S) /\ Cardinality(S) \in Nat
    <2>1. generation \in Generations
      BY DEF SearchInv
    <2> QED
      BY <1>3, <2>1, RankedIds
  <1>5. Len(ranked) >= 2
    BY <1>2, <1>3, <1>4
  <1>6. SubSeq(Ids(ranked), 1, 2) \in Seq(Idents)
    BY <1>3, <1>5, TopTwo
  <1> QED
    BY <1>1, <1>2, <1>6, AdvanceStep

LEMMA RangeFinite ==
  ASSUME NEW X, NEW s \in Seq(X)
  PROVE  /\ IsFiniteSet(Range(s)) /\ Range(s) \subseteq X
         /\ \A x \in Range(s) : \E i \in 1..Len(s) : s[i] = x
         /\ \A i \in 1..Len(s) : s[i] \in Range(s)
  <1> DEFINE n == Len(s)
             R == Range(s)
  <1>1. n \in Nat /\ DOMAIN s = 1..n /\ s = [i \in 1..n |-> s[i]] /\ \A i \in 1..n : s[i] \in X
    OBVIOUS
  <1>2. /\ \A x \in R : \E i \in 1..n : s[i] = x
        /\ \A i \in 1..n : s[i] \in R
    BY <1>1 DEF Range
  <1> HIDE DEF n, R
  <1>3. s \in [1..n -> R]
    BY <1>1, <1>2
  <1>4. s \in Surjection(1..n, R)
    BY <1>2, <1>3 DEF Surjection
  <1>5. IsFiniteSet(1..n)
    BY <1>1, FS_Interval
  <1>6. IsFiniteSet(R) /\ R \subseteq X
    BY <1>1, <1>2, <1>4, <1>5, FS_Surjection
  <1> QED
    BY <1>2, <1>6 DEF n, R

\* The order of the matrix tells the identities of the generation's families apart.
LEMMA MatrixOrderIs ==
  ASSUME generation \in Generations, NEW U, U \subseteq Idents,
         \A x \in U : x.family \in FamiliesHere
  PROVE  /\ [x \in U |-> MatrixOrder(x)] \in [U -> [1..2 -> Int]]
         /\ \A x, y \in U : MatrixOrder(x) = MatrixOrder(y) => x = y
  <1> DEFINE fs == Families(generation)
             place(f) == CHOOSE i \in DOMAIN fs : fs[i] = f
  <1>1. ASSUME NEW f \in FamiliesHere
        PROVE  place(f) \in DOMAIN fs /\ fs[place(f)] = f
    <2>1. \E i \in DOMAIN fs : fs[i] = f
      BY DEF FamiliesHere, Range
    <2> QED
      BY <2>1
  <1>2. \A i \in DOMAIN fs : i \in Int
    BY DEF Families, Generations
  <1>3. \A x : MatrixOrder(x) = <<place(x.family), x.n>>
    BY DEF MatrixOrder
  <1>4. \A x \in U : x.n \in Int
    BY DEF Idents
  <1>5. \A x, y \in U : x.family = y.family /\ x.n = y.n => x = y
    BY DEF Idents
  <1> HIDE DEF fs, place
  <1>6. \A x \in U : MatrixOrder(x) \in [1..2 -> Int]
    <2> SUFFICES ASSUME NEW x \in U PROVE MatrixOrder(x) \in [1..2 -> Int]
      OBVIOUS
    <2>1. place(x.family) \in Int /\ x.n \in Int
      BY <1>1, <1>2, <1>4
    <2> QED
      BY <1>3, <2>1
  <1>7. ASSUME NEW x \in U, NEW y \in U, MatrixOrder(x) = MatrixOrder(y)
        PROVE  x = y
    <2>1. place(x.family) = place(y.family) /\ x.n = y.n
      BY <1>3, <1>7
    <2>2. x.family = y.family
      BY <1>1, <2>1
    <2> QED
      BY <1>5, <2>1, <2>2
  <1> QED
    BY <1>6, <1>7

\* A set ranked by the order of the matrix.
LEMMA MatrixRanked ==
  ASSUME generation \in Generations, NEW U, U \subseteq Idents, IsFiniteSet(U),
         \A x \in U : x.family \in FamiliesHere
  PROVE  SortedBy(RankedBy(U, MatrixOrder), U, [x \in U |-> MatrixOrder(x)])
  <1> DEFINE key == [x \in U |-> MatrixOrder(x)]
             s == RankedBy(U, MatrixOrder)
  <1>1. key \in [U -> [1..2 -> Int]] /\ \A x, y \in U : key[x] = key[y] => x = y
    BY MatrixOrderIs
  <1>2. s = ByKey(U, key)
    <2>1. \A r \in U : {o \in U : Precedes(MatrixOrder(o), MatrixOrder(r))} = {o \in U : Precedes(key[o], key[r])}
      OBVIOUS
    <2> DEFINE place == [r \in U |-> Cardinality({o \in U : Precedes(key[o], key[r])})]
    <2>2. \A r \in U : Cardinality({o \in U : Precedes(MatrixOrder(o), MatrixOrder(r))}) = place[r]
      BY <2>1
    <2>3. \A r \in U : Cardinality({o \in U : Precedes(key[o], key[r])}) = place[r]
      OBVIOUS
    <2> HIDE DEF place, key
    <2>4. s = [k \in 1..Cardinality(U) |-> CHOOSE r \in U : place[r] = k - 1]
      BY <2>2 DEF RankedBy
    <2>5. ByKey(U, key) = [k \in 1..Cardinality(U) |-> CHOOSE r \in U : place[r] = k - 1]
      BY <2>3 DEF ByKey
    <2> QED
      BY <2>4, <2>5
  <1> HIDE DEF key, s
  <1>3. 2 \in Nat
    OBVIOUS
  <1>4. SortedBy(s, U, key)
    BY <1>1, <1>2, <1>3, RankedIs
  <1> QED
    BY <1>4 DEF key, s

LEMMA ScreeningEnds ==
  ASSUME SearchInv, EndScreening
  PROVE  SearchInv'
  <1> DEFINE top(f) == AdvanceFamily(rows, f, Confirmed)
             U == UNION {Range(t) : t \in {top(f) : f \in FamiliesHere}}
             s == RankedBy(U, MatrixOrder)
             n == Cardinality(U)
             c == Confirmed
             I == Idents
  <1>1. /\ generation \in {"v2", "v3"} /\ stage = "search" /\ queue = <<>>
        /\ stage' = "confirm" /\ generation' = generation /\ finalists' = finalists
        /\ rows' = <<>>
    BY DEF EndScreening
  <1>2. queue' = s
    BY DEF EndScreening, FamiliesHere
  <1>3. stage \in Searching /\ Needed = Confirmed /\ generation \in Generations
    BY <1>1 DEF Searching, Needed, Generations
  <1>4. Confirmed \in Nat /\ Advanced \in Nat /\ Advanced <= Confirmed
    BY SearchAssumption
  <1>5. ASSUME NEW f \in FamiliesHere
        PROVE  /\ top(f) \in Seq(Idents) /\ Len(top(f)) = Confirmed
               /\ \A i, j \in 1..Confirmed : top(f)[i] = top(f)[j] => i = j
               /\ \A x \in Range(top(f)) : x.family = f
    <2> DEFINE t == top(f)
               S == OfFamily(rows, f)
    <2>1. Topped(t, S, Confirmed)
      BY <1>1, <1>3, <1>4, AdvanceIs
    <2>2. S \subseteq Range(rows) /\ \A r \in S : r.id.family = f
      BY DEF OfFamily
    <2> HIDE DEF t, S
    <2>3. IdsOf(S) \subseteq Idents /\ \A x \in IdsOf(S) : x.family = f
      BY <2>2, IdsTyped DEF IdsOf
    <2>4. /\ t \in Seq(IdsOf(S)) /\ Len(t) = Confirmed
          /\ \A i, j \in 1..Confirmed : t[i] = t[j] => i = j
      BY <2>1 DEF Topped
    <2> DEFINE T == IdsOf(S)
    <2>5. t \in Seq(T) /\ T \subseteq I
      BY <2>3, <2>4
    <2>6. \A x \in Range(t) : x.family = f
      BY <2>3, <2>4, RangeFinite
    <2> HIDE DEF T, I
    <2>7. t \in Seq(I)
      BY <2>5
    <2> QED
      BY <2>4, <2>6, <2>7 DEF t, I
  <1>6. FamiliesHere = {"lightgbm", "catboost"}
    BY <1>1, <1>3, FamiliesAre
  <1>7. U = Range(top("lightgbm")) \union Range(top("catboost"))
    BY <1>6
  <1>8. \A f \in FamiliesHere : IsFiniteSet(Range(top(f))) /\ Range(top(f)) \subseteq Idents
    BY <1>5, RangeFinite
  <1> HIDE DEF top
  <1>9. IsFiniteSet(U) /\ U \subseteq Idents
    <2> HIDE DEF U
    <2> QED
      BY <1>6, <1>7, <1>8, FS_Union
  <1>10. \A x \in U : x.family \in FamiliesHere
    BY <1>5
  <1>11. \A f \in FamiliesHere : Range(top(f)) \subseteq U
    OBVIOUS
  <1> HIDE DEF U
  <1>12. SortedBy(s, U, [x \in U |-> MatrixOrder(x)])
    BY <1>3, <1>9, <1>10, MatrixRanked
  <1>13. /\ n \in Nat /\ s \in [1..n -> U]
         /\ \A i, j \in 1..n : s[i] = s[j] => i = j
         /\ \A a \in U : \E k \in 1..n : s[k] = a
    BY <1>12 DEF SortedBy
  <1> HIDE DEF n, s, I, c
  <1>14. s \in Seq(I) /\ Len(s) = n /\ DOMAIN s = 1..n
    <2>1. s \in [1..n -> I]
      BY <1>9, <1>13 DEF I
    <2> QED
      BY <1>13, <2>1, SequenceIs
  <1>15. Assigned' = s
    <2>1. Assigned' = Laying(rows', queue')
      BY DEF Assigned
    <2> QED
      BY <1>1, <1>2, <1>14, <2>1, LayingStart
  <1>16. Range(s) = U
    BY <1>13, <1>14 DEF Range
  <1>17. FamiliesHere' = FamiliesHere /\ Needed' = Advanced
    BY <1>1 DEF FamiliesHere, Needed
  <1>18. ASSUME NEW f \in FamiliesHere
         PROVE  \E h \in [1..Advanced -> Range(s)] :
                  /\ \A i, j \in 1..Advanced : h[i] = h[j] => i = j
                  /\ \A i \in 1..Advanced : h[i].family = f
    <2> DEFINE h == [i \in 1..Advanced |-> top(f)[i]]
    <2>1. \A i \in 1..Advanced : i \in 1..Confirmed
      BY <1>4
    <2>2. \A i \in 1..Confirmed : top(f)[i] \in Range(top(f))
      BY <1>5, RangeFinite
    <2>3. \A i \in 1..Advanced : top(f)[i] \in U /\ top(f)[i].family = f
      BY <1>5, <1>11, <2>1, <2>2
    <2>4. h \in [1..Advanced -> Range(s)]
      BY <1>16, <2>3
    <2>5. \A i, j \in 1..Advanced : h[i] = h[j] => i = j
      BY <1>5, <2>1
    <2> QED
      BY <2>3, <2>4, <2>5
  <1>19. Scheduled(Assigned, Needed)'
    <2>1. /\ s \in Seq(Idents)
          /\ \A i, j \in 1..Len(s) : s[i] = s[j] => i = j
          /\ \A i \in 1..Len(s) : s[i].family \in FamiliesHere
      BY <1>10, <1>13, <1>14 DEF I
    <2> QED
      BY <1>15, <1>17, <1>18, <2>1 DEF Scheduled
  <1> QED
    <2>1. queue' \in Seq(Idents)
      BY <1>2, <1>14 DEF I
    <2>2. finalists = <<>>
      BY <1>3 DEF SearchInv
    <2>3. rows' \in Seq(Evidences) /\ DOMAIN rows' = {}
      BY <1>1
    <2> QED
      BY <1>1, <1>3, <1>19, <2>1, <2>2, <2>3 DEF SearchInv, Searching

\* What ConfirmationDecides says of the identities that are advanced.
Decides(bases) ==
  /\ \A f \in FamiliesHere : Cardinality({id \in Range(bases) : id.family = f}) = Advanced
  /\ \A id \in Range(bases) : \E r \in Range(rows) :
       /\ r.id = id
       /\ \A o \in OfFamily(rows, id.family) :
            o.id \notin Range(bases) =>
              IF generation = "v2" THEN Mean(o.result.folds) <= Mean(r.result.folds)
              ELSE Worst(o.result.folds) <= Worst(r.result.folds)

\* The best of each family, as the confirmation ranks them, decide the refit.
LEMMA ConfirmedDecide ==
  ASSUME SearchInv, stage = "confirm", queue = <<>>,
         NEW bases,
         bases = FlattenSeq([i \in DOMAIN Families(generation) |->
                    AdvanceFamily(rows, Families(generation)[i], Advanced)])
  PROVE  bases \in Seq(Idents) /\ Decides(bases)
  <1> DEFINE top(f) == AdvanceFamily(rows, f, Advanced)
             fs == Families(generation)
             ss == [i \in DOMAIN fs |-> top(fs[i])]
             a == top("lightgbm")
             b == top("catboost")
             c == Advanced
             I == Idents
             S(f) == OfFamily(rows, f)
  <1>1. /\ generation \in {"v2", "v3"} /\ generation \in Generations
        /\ stage \in Searching /\ Needed = c
    BY DEF SearchInv, Searching, Needed
  <1>2. c \in Nat
    BY SearchAssumption
  <1>3. fs = <<"lightgbm", "catboost">> /\ FamiliesHere = {"lightgbm", "catboost"}
    BY <1>1, FamiliesAre
  <1>4. ASSUME NEW f \in FamiliesHere
        PROVE  Topped(top(f), S(f), c) /\ Rankable(S(f))
    <2>1. c <= Needed
      BY <1>1, <1>2
    <2>2. generation # "remediate"
      BY <1>1
    <2> QED
      BY <1>1, <1>2, <2>1, <2>2, AdvanceIs, FamilyRankable
  <1>5. \A f \in FamiliesHere : \A r \in S(f) : r \in Range(rows) /\ r.id.family = f
    BY DEF OfFamily
  <1>0. bases = FlattenSeq(ss)
    OBVIOUS
  <1> HIDE DEF top, S
  <1>6. ASSUME NEW f \in FamiliesHere
        PROVE  /\ top(f) \in Seq(Idents) /\ Len(top(f)) = c
               /\ \A i, j \in 1..c : top(f)[i] = top(f)[j] => i = j
               /\ \A x \in Range(top(f)) : x.family = f
               /\ \A x \in Range(top(f)) : \E r \in S(f) :
                    /\ r.id = x
                    /\ \A o \in S(f) : o.id \notin Range(top(f)) => Rank(r)[1] <= Rank(o)[1]
    <2> DEFINE t == top(f)
               T == IdsOf(S(f))
    <2>1. /\ t \in Seq(T) /\ Len(t) = c
          /\ \A i, j \in 1..c : t[i] = t[j] => i = j
          /\ \A i \in 1..c : \E r \in S(f) :
               /\ r.id = t[i]
               /\ \A o \in S(f) : (\A j \in 1..c : t[j] # o.id) => Rank(r)[1] <= Rank(o)[1]
      BY <1>4 DEF Topped
    <2>2. T \subseteq Idents /\ \A x \in T : x.family = f
      <3>1. S(f) \subseteq Range(rows)
        BY <1>5
      <3> QED
        BY <1>5, <3>1, IdsTyped DEF IdsOf
    <2> HIDE DEF t, T
    <2>3. /\ Range(t) \subseteq T
          /\ \A x \in Range(t) : \E i \in 1..c : t[i] = x
          /\ \A i \in 1..c : t[i] \in Range(t)
      BY <2>1, RangeFinite
    <2>4. t \in Seq(I)
      <3> HIDE DEF I
      <3>1. T \subseteq I
        BY <2>2 DEF I
      <3> QED
        BY <2>1, <3>1
    <2>5. \A x \in Range(t) : \E r \in S(f) :
            /\ r.id = x
            /\ \A o \in S(f) : o.id \notin Range(t) => Rank(r)[1] <= Rank(o)[1]
      <3> SUFFICES ASSUME NEW x \in Range(t)
                   PROVE  \E r \in S(f) :
                            /\ r.id = x
                            /\ \A o \in S(f) : o.id \notin Range(t) => Rank(r)[1] <= Rank(o)[1]
        OBVIOUS
      <3>1. PICK i \in 1..c : t[i] = x
        BY <2>3
      <3>2. PICK r \in S(f) :
              /\ r.id = t[i]
              /\ \A o \in S(f) : (\A j \in 1..c : t[j] # o.id) => Rank(r)[1] <= Rank(o)[1]
        BY <2>1
      <3>3. \A o \in S(f) : o.id \notin Range(t) => \A j \in 1..c : t[j] # o.id
        BY <2>3
      <3> QED
        BY <3>1, <3>2, <3>3
    <2>6. \A x \in Range(t) : x.family = f
      BY <2>2, <2>3
    <2> QED
      BY <2>1, <2>4, <2>5, <2>6 DEF t, I
  <1>7. bases \in Seq(Idents) /\ Range(bases) = Range(a) \union Range(b)
    <2>1. a \in Seq(I) /\ b \in Seq(I)
      BY <1>3, <1>6
    <2> HIDE DEF I
    <2>2. DOMAIN fs = 1..2 /\ fs[1] = "lightgbm" /\ fs[2] = "catboost"
      BY <1>3
    <2> HIDE DEF fs
    <2>3. ss \in [1..2 -> Seq(I)] /\ ss[1] = a /\ ss[2] = b
      <3>1. /\ ss = [i \in 1..2 |-> top(fs[i])] /\ 1 \in 1..2 /\ 2 \in 1..2
            /\ \A i \in 1..2 : fs[i] \in FamiliesHere
        BY <1>3, <2>2
      <3>2. \A i \in 1..2 : top(fs[i]) \in Seq(I)
        BY <1>6, <3>1 DEF I
      <3> QED
        BY <2>2, <3>1, <3>2
    <2> HIDE DEF ss, a, b
    <2>4. ss \in Seq(Seq(I)) /\ Len(ss) = 2
      <3>1. 2 \in Nat
        OBVIOUS
      <3> QED
        BY <2>3, <3>1, SequenceIs
    <2>5. bases = a \o b
      BY <1>0, <2>3, <2>4, FlattenShort
    <2>6. bases \in Seq(I) /\ Joins(bases, a, b)
      BY <2>1, <2>5, ConcatIs
    <2>7. Range(bases) = Range(a) \union Range(b)
      <3> DEFINE p == Len(a)
                 q == Len(b)
      <3>1. /\ p \in Nat /\ q \in Nat /\ DOMAIN a = 1..p /\ DOMAIN b = 1..q
            /\ DOMAIN bases = 1..Len(bases)
        BY <2>1, <2>6
      <3>2. /\ Len(bases) = p + q
            /\ \A i \in 1..p : bases[i] = a[i]
            /\ \A i \in 1..q : bases[p + i] = b[i]
        BY <2>6 DEF Joins
      <3> HIDE DEF p, q
      <3>3. \A i \in 1..(p + q) : i \in 1..p \/ (i - p \in 1..q /\ p + (i - p) = i)
        BY <3>1
      <3>4. /\ \A i \in 1..p : i \in 1..(p + q)
            /\ \A i \in 1..q : p + i \in 1..(p + q)
        BY <3>1
      <3>5. Range(bases) \subseteq Range(a) \union Range(b)
        <4> SUFFICES ASSUME NEW i \in 1..(p + q)
                     PROVE  bases[i] \in Range(a) \union Range(b)
          BY <3>1, <3>2 DEF Range
        <4>1. CASE i \in 1..p
          BY <3>1, <3>2, <4>1 DEF Range
        <4>2. CASE i \notin 1..p
          <5>1. i - p \in 1..q /\ p + (i - p) = i
            BY <3>3, <4>2
          <5>2. bases[i] = b[i - p]
            BY <3>2, <5>1
          <5> QED
            BY <3>1, <5>1, <5>2 DEF Range
        <4> QED
          BY <4>1, <4>2
      <3>6. \A i \in 1..p : a[i] \in Range(bases)
        BY <3>1, <3>2, <3>4 DEF Range
      <3>7. \A i \in 1..q : b[i] \in Range(bases)
        BY <3>1, <3>2, <3>4 DEF Range
      <3>8. Range(a) \subseteq Range(bases) /\ Range(b) \subseteq Range(bases)
        BY <3>1, <3>6, <3>7 DEF Range
      <3> QED
        BY <3>5, <3>8
    <2> QED
      BY <2>6, <2>7 DEF I
  <1>8. ASSUME NEW f \in FamiliesHere
        PROVE  {id \in Range(bases) : id.family = f} = Range(top(f))
    <2>1. /\ \A x \in Range(a) : x.family = "lightgbm"
          /\ \A x \in Range(b) : x.family = "catboost"
      BY <1>3, <1>6
    <2>2. CASE f = "lightgbm"
      BY <1>7, <2>1, <2>2
    <2>3. CASE f = "catboost"
      BY <1>7, <2>1, <2>3
    <2> QED
      BY <1>3, <2>2, <2>3
  <1>9. ASSUME NEW f \in FamiliesHere
        PROVE  Cardinality({id \in Range(bases) : id.family = f}) = Advanced
    <2> DEFINE t == top(f)
               R == Range(t)
    <2>1. t \in Seq(Idents) /\ Len(t) = c /\ \A i, j \in 1..c : t[i] = t[j] => i = j
      BY <1>6
    <2> HIDE DEF t
    <2>2. /\ \A x \in R : \E i \in 1..c : t[i] = x
          /\ \A i \in 1..c : t[i] \in R
      BY <2>1, RangeFinite
    <2>3. t = [i \in 1..c |-> t[i]]
      <3> HIDE DEF I
      <3>1. t \in Seq(I)
        BY <2>1 DEF I
      <3> QED
        BY <2>1, <3>1
    <2> HIDE DEF R, c
    <2>4. t \in [1..c -> R]
      BY <2>2, <2>3
    <2>5. t \in Surjection(1..c, R) /\ t \in Injection(1..c, R)
      BY <2>1, <2>2, <2>4 DEF Surjection, Injection, IsInjective
    <2>6. IsFiniteSet(1..c) /\ Cardinality(1..c) = c
      BY <1>2, FS_Interval
    <2>7. Cardinality(R) = c
      BY <2>5, <2>6, FS_Surjection
    <2> QED
      BY <1>8, <2>7 DEF R, t, c
  <1>10. ASSUME NEW id \in Range(bases)
         PROVE  \E r \in Range(rows) :
                  /\ r.id = id
                  /\ \A o \in OfFamily(rows, id.family) :
                       o.id \notin Range(bases) =>
                         IF generation = "v2" THEN Mean(o.result.folds) <= Mean(r.result.folds)
                         ELSE Worst(o.result.folds) <= Worst(r.result.folds)
    <2>1. PICK f \in FamiliesHere : id \in Range(top(f))
      BY <1>3, <1>7
    <2>2. id.family = f
      BY <1>6, <2>1
    <2>3. PICK r \in S(f) :
            /\ r.id = id
            /\ \A o \in S(f) : o.id \notin Range(top(f)) => Rank(r)[1] <= Rank(o)[1]
      BY <1>6, <2>1
    <2>4. \A x \in S(f) : x.result \in Results /\ x.id.n \in Int
      BY <1>4 DEF Rankable
    <2>5. \A x \in S(f) : /\ Mean(x.result.folds) \in Int /\ Worst(x.result.folds) \in Int
                          /\ generation = "v2" => Rank(x)[1] = -Mean(x.result.folds)
                          /\ generation = "v3" => Rank(x)[1] = -Worst(x.result.folds)
      <3> SUFFICES ASSUME NEW x \in S(f)
                   PROVE  /\ Mean(x.result.folds) \in Int /\ Worst(x.result.folds) \in Int
                          /\ generation = "v2" => Rank(x)[1] = -Mean(x.result.folds)
                          /\ generation = "v3" => Rank(x)[1] = -Worst(x.result.folds)
        OBVIOUS
      <3> DEFINE folds == x.result.folds
      <3>1. folds \in Seq(Nat) /\ Len(folds) >= 2
        BY <2>4, SearchAssumption
      <3>2. /\ generation = "v2" => Rank(x)[1] = -Mean(folds)
            /\ generation = "v3" => Rank(x)[1] = -Worst(folds)
        BY <1>1, <2>4, RankIs
      <3> HIDE DEF folds
      <3>3. folds \in Seq(Int) /\ Len(folds) >= 1
        BY <3>1
      <3>4. Mean(folds) \in Int /\ Worst(folds) \in Int
        BY <3>1, <3>3, MeanIs, WorstIs
      <3> QED
        BY <3>2, <3>4 DEF folds
    <2>6. ASSUME NEW o \in S(f), o.id \notin Range(bases)
          PROVE  IF generation = "v2" THEN Mean(o.result.folds) <= Mean(r.result.folds)
                 ELSE Worst(o.result.folds) <= Worst(r.result.folds)
      <3>1. o.id \notin Range(top(f))
        BY <1>3, <1>7, <2>6
      <3>2. Rank(r)[1] <= Rank(o)[1]
        BY <2>3, <3>1
      <3> DEFINE x == Mean(o.result.folds)
                 y == Mean(r.result.folds)
                 z == Worst(o.result.folds)
                 w == Worst(r.result.folds)
      <3>3. /\ x \in Int /\ y \in Int /\ z \in Int /\ w \in Int
            /\ generation = "v2" => -y <= -x
            /\ generation = "v3" => -w <= -z
        BY <2>5, <3>2
      <3> HIDE DEF x, y, z, w
      <3>4. IF generation = "v2" THEN x <= y ELSE z <= w
        BY <1>1, <3>3
      <3> QED
        BY <3>4 DEF x, y, z, w
    <2>7. r \in Range(rows)
      BY <1>5
    <2> QED
      BY <2>2, <2>3, <2>6, <2>7 DEF S
  <1> QED
    BY <1>7, <1>9, <1>10 DEF Decides

LEMMA ConfirmationEnds ==
  ASSUME SearchInv, EndConfirmation
  PROVE  SearchInv' /\ ConfirmationDecides'
  <1> DEFINE bases == FlattenSeq([i \in DOMAIN Families(generation) |->
                        AdvanceFamily(rows, Families(generation)[i], Advanced)])
  <1>1. stage = "confirm" /\ queue = <<>> /\ Advance(bases)
    BY DEF EndConfirmation, Deciding
  <1>2. bases \in Seq(Idents) /\ Decides(bases)
    BY <1>1, ConfirmedDecide
  <1>3. stage \in Searching
    BY <1>1 DEF Searching
  <1> HIDE DEF bases
  <1>4. generation' = generation /\ rows' = rows /\ advanced' = bases
    BY <1>1 DEF Advance
  <1>5. ConfirmationDecides'
    BY <1>2, <1>4 DEF ConfirmationDecides, Decides, Advancing, FamiliesHere
  <1> QED
    BY <1>1, <1>2, <1>3, <1>5, AdvanceStep

-----------------------------------------------------------------------------
(* The winner *)

\* A choice by a key is of one whose leading number is least.
LEMMA BestLeads ==
  ASSUME NEW N \in Nat, N >= 1, NEW S, IsFiniteSet(S), S # {}, NEW key \in [S -> [1..N -> Int]],
         NEW w, w = CHOOSE r \in S : \A o \in S : ~Precedes(key[o], key[r])
  PROVE  w \in S /\ \A o \in S : key[w][1] <= key[o][1]
  <1>1. \E r \in S : \A o \in S : ~Precedes(key[o], key[r])
    BY LeastKey
  <1>2. w \in S /\ \A o \in S : ~Precedes(key[o], key[w])
    BY <1>1
  <1>3. ASSUME NEW o \in S
        PROVE  key[w][1] <= key[o][1]
    <2>1. key[o] \in [1..N -> Int] /\ key[w] \in [1..N -> Int] /\ 1 \in 1..N
      BY <1>2
    <2> DEFINE a == key[o]
               b == key[w]
    <2>2. DOMAIN a = 1..N /\ a[1] \in Int /\ b[1] \in Int /\ 1 \in 1..N /\ 1..(1 - 1) = {}
      BY <2>1
    <2>3. ~Precedes(a, b)
      BY <1>2
    <2> HIDE DEF a, b
    <2>4. ~(a[1] < b[1])
      BY <2>2, <2>3 DEF Precedes
    <2>5. b[1] <= a[1]
      BY <2>2, <2>4
    <2> QED
      BY <2>5 DEF a, b
  <1> QED
    BY <1>2, <1>3

\* A sequence of numbers as a key.
LEMMA KeyOf ==
  ASSUME NEW a \in Seq(Int), NEW b \in Seq(Int), NEW n \in Nat,
         Len(a) >= 1, Len(a) + Len(b) = n
  PROVE  a \o b \in [1..n -> Int] /\ (a \o b)[1] = a[1]
  <1> DEFINE c == a \o b
  <1>1. c \in Seq(Int) /\ Joins(c, a, b)
    BY ConcatIs
  <1> HIDE DEF c
  <1>2. Len(c) = n
    BY <1>1 DEF Joins
  <1>3. c \in [1..n -> Int]
    BY <1>1, <1>2
  <1>4. 1 \in 1..Len(a)
    OBVIOUS
  <1>5. c[1] = a[1]
    BY <1>1, <1>4 DEF Joins
  <1> QED
    BY <1>3, <1>5 DEF c

LEMMA NameIs ==
  ASSUME NEW x \in Entrants
  PROVE  Name(x) \in Seq(Int) /\ Len(Name(x)) = 3
  <1>1. FamilyName[x.family] \in Int /\ x.n \in Int /\ MethodName[x.method] \in Int
    BY DEF Entrants, FamilyNames, MethodNames, FamilyName, MethodName
  <1> QED
    BY <1>1 DEF Name

\* Whatever was measured, the winner is earned.
LEMMA WinnerIs ==
  ASSUME generation \in Generations, finalists \in Seq(Rated)
  PROVE  Earned(ChooseWinner)
  <1> DEFINE S == Acceptable
             R == Rated
             fit == {f \in Range(finalists) : f.metrics # NoRow /\ f.passed /\ f.quality > 0}
             w == ChooseWinner
  <1>1. \A f \in R : /\ f.id \in Entrants /\ f.quality \in Int
                     /\ f.passed => /\ f.metrics # NoRow /\ f.quality > 0
                                    /\ f.metrics.precision \in Int /\ f.metrics.f1 \in Int
                                    /\ f.metrics.rate \in Int
    BY DEF Rated
  <1>2. finalists \in Seq(R)
    OBVIOUS
  <1> HIDE DEF R
  <1>3. IsFiniteSet(Range(finalists)) /\ Range(finalists) \subseteq R
    BY <1>2, RangeFinite
  <1>4. S = fit /\ S \subseteq Range(finalists)
    BY <1>1, <1>3 DEF Acceptable
  <1>5. IsFiniteSet(S)
    BY <1>3, <1>4, FS_Subset
  <1>6. \A f \in S : /\ f.id \in Entrants /\ f.quality \in Int
                     /\ f.metrics.precision \in Int /\ f.metrics.f1 \in Int /\ f.metrics.rate \in Int
                     /\ f \in Range(finalists)
    BY <1>1, <1>3 DEF Acceptable
  <1>7. \A f \in S : Name(f.id) \in Seq(Int) /\ Len(Name(f.id)) = 3
    BY <1>6, NameIs
  <1>8. CASE S = {}
    <2>1. w = NoRow
      BY <1>8 DEF ChooseWinner, Best, Generations
    <2> QED
      BY <1>4, <1>8, <2>1 DEF Earned
  <1>9. CASE S # {}
    <2>1. CASE generation = "select"
      <3> DEFINE key == [f \in S |-> ValidationOrder(f)]
      <3>1. \A f \in S : Place(f) \in Int
        <4> SUFFICES ASSUME NEW f \in S PROVE Place(f) \in Int
          OBVIOUS
        <4>1. \E i \in 1..Len(finalists) : finalists[i] = f
          BY <1>2, <1>6, RangeFinite
        <4>2. DOMAIN finalists = 1..Len(finalists) /\ Len(finalists) \in Nat
          BY <1>2
        <4> QED
          BY <4>1, <4>2 DEF Place
      <3> HIDE DEF S
      <3>2. \A f \in S : ValidationOrder(f) \in [1..3 -> Int] /\ ValidationOrder(f)[1] = -f.quality
        BY <1>6, <3>1 DEF ValidationOrder
      <3>3. key \in [S -> [1..3 -> Int]]
        BY <3>2
      <3>4. w = CHOOSE r \in S : \A o \in S : ~Precedes(key[o], key[r])
        BY <1>9, <2>1 DEF ChooseWinner, Best, S
      <3>5. \A f \in S : key[f][1] = -f.quality
        BY <3>2
      <3> HIDE DEF key, w
      <3>6. 3 \in Nat /\ 3 >= 1
        OBVIOUS
      <3>7. w \in S /\ \A o \in S : key[w][1] <= key[o][1]
        BY <1>5, <1>9, <3>3, <3>4, <3>6, BestLeads
      <3>8. \A o \in S : o.quality <= w.quality
        BY <1>6, <3>5, <3>7
      <3> QED
        BY <1>4, <1>9, <2>1, <3>7, <3>8 DEF Earned, w
    <2>2. CASE generation = "remediate"
      <3> DEFINE key == [f \in S |-> RemediationOrder(f)]
      <3> HIDE DEF S
      <3>2. \A f \in S : RemediationOrder(f) \in [1..4 -> Int] /\ RemediationOrder(f)[1] = -f.quality
        <4> SUFFICES ASSUME NEW f \in S
                     PROVE  RemediationOrder(f) \in [1..4 -> Int] /\ RemediationOrder(f)[1] = -f.quality
          OBVIOUS
        <4> DEFINE a == <<-f.quality>>
                   b == Name(f.id)
        <4>1. a \in Seq(Int) /\ Len(a) = 1 /\ a[1] = -f.quality
          BY <1>6
        <4>2. b \in Seq(Int) /\ Len(b) = 3
          BY <1>7
        <4>3. RemediationOrder(f) = a \o b
          BY DEF RemediationOrder
        <4> HIDE DEF a, b
        <4>4. 4 \in Nat /\ Len(a) + Len(b) = 4 /\ Len(a) >= 1
          BY <4>1, <4>2
        <4>5. a \o b \in [1..4 -> Int] /\ (a \o b)[1] = a[1]
          BY <4>1, <4>2, <4>4, KeyOf
        <4> QED
          BY <4>1, <4>3, <4>5
      <3>3. key \in [S -> [1..4 -> Int]]
        BY <3>2
      <3>4. w = CHOOSE r \in S : \A o \in S : ~Precedes(key[o], key[r])
        BY <1>9, <2>2 DEF ChooseWinner, Best, S
      <3>5. \A f \in S : key[f][1] = -f.quality
        BY <3>2
      <3> HIDE DEF key, w
      <3>6. 4 \in Nat /\ 4 >= 1
        OBVIOUS
      <3>7. w \in S /\ \A o \in S : key[w][1] <= key[o][1]
        BY <1>5, <1>9, <3>3, <3>4, <3>6, BestLeads
      <3>8. \A o \in S : o.quality <= w.quality
        BY <1>6, <3>5, <3>7
      <3> QED
        BY <1>4, <1>9, <2>2, <3>7, <3>8 DEF Earned, w
    <2>3. CASE generation = "v1"
      <3> DEFINE key == [f \in S |-> V1Order(f)]
      <3> HIDE DEF S
      <3>2. \A f \in S : V1Order(f) \in [1..6 -> Int] /\ V1Order(f)[1] = -f.quality
        <4> SUFFICES ASSUME NEW f \in S
                     PROVE  V1Order(f) \in [1..6 -> Int] /\ V1Order(f)[1] = -f.quality
          OBVIOUS
        <4> DEFINE a == <<-f.quality, -f.metrics.f1, f.metrics.rate>>
                   b == Name(f.id)
        <4>1. a \in Seq(Int) /\ Len(a) = 3 /\ a[1] = -f.quality
          BY <1>6
        <4>2. b \in Seq(Int) /\ Len(b) = 3
          BY <1>7
        <4>3. V1Order(f) = a \o b
          BY DEF V1Order
        <4> HIDE DEF a, b
        <4>4. 6 \in Nat /\ Len(a) + Len(b) = 6 /\ Len(a) >= 1
          BY <4>1, <4>2
        <4>5. a \o b \in [1..6 -> Int] /\ (a \o b)[1] = a[1]
          BY <4>1, <4>2, <4>4, KeyOf
        <4> QED
          BY <4>1, <4>3, <4>5
      <3>3. key \in [S -> [1..6 -> Int]]
        BY <3>2
      <3>4. w = CHOOSE r \in S : \A o \in S : ~Precedes(key[o], key[r])
        BY <1>9, <2>3 DEF ChooseWinner, Best, S
      <3>5. \A f \in S : key[f][1] = -f.quality
        BY <3>2
      <3> HIDE DEF key, w
      <3>6. 6 \in Nat /\ 6 >= 1
        OBVIOUS
      <3>7. w \in S /\ \A o \in S : key[w][1] <= key[o][1]
        BY <1>5, <1>9, <3>3, <3>4, <3>6, BestLeads
      <3>8. \A o \in S : o.quality <= w.quality
        BY <1>6, <3>5, <3>7
      <3> QED
        BY <1>4, <1>9, <2>3, <3>7, <3>8 DEF Earned, w
    <2>4. CASE generation \in {"v2", "v3"}
      <3> DEFINE key == [f \in S |-> PrecisionOrder(f)]
      <3> HIDE DEF S
      <3>2. \A f \in S : PrecisionOrder(f) \in [1..7 -> Int] /\ PrecisionOrder(f)[1] = -f.metrics.precision
        <4> SUFFICES ASSUME NEW f \in S
                     PROVE  PrecisionOrder(f) \in [1..7 -> Int] /\ PrecisionOrder(f)[1] = -f.metrics.precision
          OBVIOUS
        <4> DEFINE a == <<-f.metrics.precision, -f.quality, -f.metrics.f1, f.metrics.rate>>
                   b == Name(f.id)
        <4>1. a \in Seq(Int) /\ Len(a) = 4 /\ a[1] = -f.metrics.precision
          BY <1>6
        <4>2. b \in Seq(Int) /\ Len(b) = 3
          BY <1>7
        <4>3. PrecisionOrder(f) = a \o b
          BY DEF PrecisionOrder
        <4> HIDE DEF a, b
        <4>4. 7 \in Nat /\ Len(a) + Len(b) = 7 /\ Len(a) >= 1
          BY <4>1, <4>2
        <4>5. a \o b \in [1..7 -> Int] /\ (a \o b)[1] = a[1]
          BY <4>1, <4>2, <4>4, KeyOf
        <4> QED
          BY <4>1, <4>3, <4>5
      <3>3. key \in [S -> [1..7 -> Int]]
        BY <3>2
      <3>4. w = CHOOSE r \in S : \A o \in S : ~Precedes(key[o], key[r])
        BY <1>9, <2>4 DEF ChooseWinner, Best, S
      <3>5. \A f \in S : key[f][1] = -f.metrics.precision
        BY <3>2
      <3> HIDE DEF key, w
      <3>6. 7 \in Nat /\ 7 >= 1
        OBVIOUS
      <3>7. w \in S /\ \A o \in S : key[w][1] <= key[o][1]
        BY <1>5, <1>9, <3>3, <3>4, <3>6, BestLeads
      <3>8. \A o \in S : o.metrics.precision <= w.metrics.precision
        BY <1>6, <3>5, <3>7
      <3> QED
        BY <1>4, <1>9, <2>4, <3>7, <3>8 DEF Earned, w
    <2> QED
      BY <2>1, <2>2, <2>3, <2>4 DEF Generations
  <1> QED
    BY <1>8, <1>9

-----------------------------------------------------------------------------
(* The steps *)

LEMMA FittedStep ==
  ASSUME SearchInv, NEW e \in Evidences, queue # <<>>, e.id = Head(queue),
         generation # "remediate" => e.status = "completed", Fitted(e)
  PROVE  SearchInv'
  <1> DEFINE E == Evidences
             n == Len(rows)
  <1>1. /\ stage \in {"search", "confirm"} /\ stage' = stage /\ generation' = generation
        /\ rows' = Append(rows, e) /\ queue' = Tail(queue) /\ finalists' = finalists
    BY DEF Fitted
  <1>2. stage \in Searching
    BY <1>1 DEF Searching
  <1>3. queue \in Seq(Idents) /\ rows \in Seq(Evidences) /\ Scheduled(Assigned, Needed)
    BY <1>2 DEF SearchInv
  <1>4. Assigned' = Assigned
    BY <1>1, <1>3, LayingStep DEF Assigned
  <1>5. Needed' = Needed /\ FamiliesHere' = FamiliesHere
    BY <1>1 DEF Needed, FamiliesHere
  <1>6. Scheduled(Assigned, Needed)'
    BY <1>3, <1>4, <1>5 DEF Scheduled
  <1>7. queue' \in Seq(Idents)
    <2> DEFINE I == Idents
    <2>1. queue \in Seq(I)
      BY <1>3
    <2> HIDE DEF I
    <2>2. Tail(queue) \in Seq(I)
      BY <2>1
    <2> QED
      BY <1>1, <2>2 DEF I
  <1> HIDE DEF E
  <1>8. /\ rows' \in Seq(E) /\ DOMAIN rows' = 1..(n + 1) /\ DOMAIN rows = 1..n /\ n \in Nat
        /\ \A i \in 1..n : rows'[i] = rows[i]
        /\ rows'[n + 1] = e
    <2>1. rows \in Seq(E) /\ e \in E
      BY <1>3 DEF E
    <2> QED
      BY <1>1, <2>1
  <1>9. ASSUME generation # "remediate"
        PROVE  \A i \in DOMAIN rows' : rows'[i].status = "completed"
    <2>1. \A i \in DOMAIN rows : rows[i].status = "completed"
      BY <1>2, <1>9 DEF SearchInv
    <2> HIDE DEF n
    <2>2. ASSUME NEW i \in 1..(n + 1)
          PROVE  rows'[i].status = "completed"
      <3>1. i \in 1..n \/ i = n + 1
        BY <1>8
      <3> QED
        BY <1>8, <1>9, <2>1, <3>1
    <2> QED
      BY <1>8, <2>2
  <1>10. rows' \in Seq(Evidences)
    BY <1>8 DEF E
  <1>11. finalists' = <<>>
    BY <1>1, <1>2 DEF SearchInv
  <1> QED
    BY <1>1, <1>2, <1>6, <1>7, <1>9, <1>10, <1>11 DEF SearchInv, Searching

LEMMA HeadIs ==
  ASSUME NEW X, NEW s \in Seq(X), s # <<>>
  PROVE  Head(s) \in X /\ Tail(s) \in Seq(X)
  OBVIOUS

LEMMA CandidateStep ==
  ASSUME SearchInv,
         (\E result \in Results : RunCandidate(result)) \/ FailCandidate
  PROVE  SearchInv'
  <1>1. ASSUME stage \in {"search", "confirm"}, queue # <<>>
        PROVE  Head(queue) \in Idents
    <2>1. queue \in Seq(Idents)
      BY <1>1 DEF SearchInv, Searching
    <2> QED
      BY <1>1, <2>1, HeadIs
  <1>2. ASSUME NEW result \in Results, RunCandidate(result)
        PROVE  SearchInv'
    <2> DEFINE e == Evidence(Head(queue), "completed", result)
    <2>1. queue # <<>> /\ Fitted(e)
      BY <1>2 DEF RunCandidate
    <2>2. Head(queue) \in Idents
      BY <1>1, <2>1 DEF Fitted
    <2>3. e \in Evidences /\ e.id = Head(queue) /\ e.status = "completed"
      BY <2>2 DEF Evidences, Evidence
    <2> HIDE DEF e
    <2> QED
      BY <2>1, <2>3, FittedStep
  <1>3. CASE FailCandidate
    <2> DEFINE e == Evidence(Head(queue), "failed", NoRow)
    <2>1. queue # <<>> /\ Fitted(e) /\ generation = "remediate"
      BY <1>3 DEF FailCandidate
    <2>2. Head(queue) \in Idents
      BY <1>1, <2>1 DEF Fitted
    <2>3. e \in Evidences /\ e.id = Head(queue)
      BY <2>2 DEF Evidences, Evidence
    <2> HIDE DEF e
    <2> QED
      BY <2>1, <2>3, FittedStep
  <1> QED
    BY <1>2, <1>3

LEMMA ReconstructStep ==
  ASSUME SearchInv, Reconstruct
  PROVE  SearchInv'
  <1>1. /\ stage = "control" /\ stage' = "search" /\ generation' = generation
        /\ rows' = rows /\ queue' = queue /\ finalists' = finalists
    BY DEF Reconstruct
  <1>2. stage \in Searching
    BY <1>1 DEF Searching
  <1>3. Needed' = Needed /\ FamiliesHere' = FamiliesHere /\ Assigned' = Assigned
    BY <1>1 DEF Needed, FamiliesHere, Assigned
  <1>4. Scheduled(Assigned, Needed)'
    BY <1>2, <1>3 DEF SearchInv, Scheduled
  <1> QED
    BY <1>1, <1>2, <1>4 DEF SearchInv, Searching

\* The finalists of identities.
LEMMA FinalistsAre ==
  ASSUME generation \in Generations, NEW bases \in Seq(Idents)
  PROVE  Finalists(bases) \in Seq(Entrants)
  <1> DEFINE methods == Methods[generation]
             I == Idents
             E == Entrants
             variant(i) == [m \in DOMAIN methods |->
                              [family |-> bases[i].family, n |-> bases[i].n, method |-> methods[m]]]
             ss == [i \in DOMAIN bases |-> variant(i)]
             n == Len(bases)
             k == Len(methods)
  <1>1. Finalists(bases) = FlattenSeq(ss)
    BY DEF Finalists
  <1>2. methods \in Seq(MethodNames)
    BY SearchAssumption DEF MethodNames
  <1>3. \A x \in I, y \in MethodNames : [family |-> x.family, n |-> x.n, method |-> y] \in E
    BY DEF Idents, Entrants
  <1>0. bases \in Seq(I)
    OBVIOUS
  <1> HIDE DEF I, E, methods
  <1>4. n \in Nat /\ DOMAIN bases = 1..n /\ \A i \in 1..n : bases[i] \in I
    BY <1>0
  <1>5. k \in Nat /\ DOMAIN methods = 1..k /\ \A i \in 1..k : methods[i] \in MethodNames
    <2> DEFINE M == MethodNames
    <2>1. methods \in Seq(M)
      BY <1>2
    <2> HIDE DEF M
    <2>2. k \in Nat /\ DOMAIN methods = 1..k /\ \A i \in 1..k : methods[i] \in M
      BY <2>1
    <2> QED
      BY <2>2 DEF M
  <1> HIDE DEF n, k
  <1>6. ASSUME NEW i \in 1..n
        PROVE  variant(i) \in Seq(E)
    <2>1. variant(i) = [m \in 1..k |-> [family |-> bases[i].family, n |-> bases[i].n, method |-> methods[m]]]
      BY <1>5
    <2>2. \A m \in 1..k : [family |-> bases[i].family, n |-> bases[i].n, method |-> methods[m]] \in E
      BY <1>3, <1>4, <1>5
    <2> DEFINE v == variant(i)
    <2>3. v \in [1..k -> E]
      BY <2>1, <2>2
    <2> HIDE DEF v
    <2>4. v \in Seq(E)
      BY <1>5, <2>3, SequenceIs
    <2> QED
      BY <2>4 DEF v
  <1> HIDE DEF variant
  <1>7. ss \in [1..n -> Seq(E)]
    BY <1>4, <1>6
  <1> HIDE DEF ss
  <1>8. ss \in Seq(Seq(E))
    BY <1>4, <1>7, SequenceIs
  <1>9. FlattenSeq(ss) \in Seq(E)
    BY <1>8, FlattenShort
  <1> QED
    BY <1>1, <1>9 DEF E

LEMMA NovemberOpens ==
  ASSUME SearchInv, OpenNovember
  PROVE  SearchInv'
  <1> DEFINE blends == IF generation = "v3" THEN Blends ELSE <<>>
             bases == advanced \o blends
             I == Idents
  <1>1. /\ stage = "refit" /\ stage' = "november" /\ labels' \in Labels
        /\ generation' = generation /\ rows' = <<>> /\ finalists' = finalists
        /\ queue' = Finalists(bases)
    BY DEF OpenNovember
  <1>2. advanced \in Seq(I) /\ finalists = <<>> /\ generation \in Generations
    BY <1>1 DEF SearchInv
  <1>3. Blends \in Seq(I)
    <2> DEFINE k == Ensembles
    <2>1. k \in Nat
      BY SearchAssumption
    <2>2. Blends = [e \in 1..k |-> Identity("ensemble", e)]
      BY DEF Blends
    <2> HIDE DEF k
    <2>3. \A e \in 1..k : Identity("ensemble", e) \in I
      BY <2>1 DEF Identity, Idents, FamilyNames
    <2> HIDE DEF I
    <2>4. Blends \in [1..k -> I]
      BY <2>2, <2>3
    <2> QED
      BY <2>1, <2>4, SequenceIs
  <1> HIDE DEF I
  <1>4. <<>> \in Seq(I)
    OBVIOUS
  <1>5. blends \in Seq(I)
    BY <1>3, <1>4
  <1> HIDE DEF blends
  <1>6. bases \in Seq(I)
    BY <1>2, <1>5
  <1> HIDE DEF bases
  <1>7. queue' \in Seq(Entrants)
    BY <1>1, <1>2, <1>6, FinalistsAre DEF I
  <1>8. rows' \in Seq(Evidences) /\ finalists' \in Seq(Rated)
    BY <1>1, <1>2
  <1> QED
    BY <1>1, <1>2, <1>7, <1>8 DEF SearchInv, Searching

-----------------------------------------------------------------------------
(* November *)

\* The partition and the scores of a model make a sample.
LEMMA SampleOf ==
  ASSUME labels \in Labels, NEW scores \in Scorings
  PROVE  Sample(scores) \in Samples
  <1> DEFINE n == Len(labels)
             E == [label : {0, 1}, score : 0..100]
             s == Sample(scores)
  <1>1. labels \in Seq({0, 1}) /\ scores \in [DOMAIN labels -> 0..100]
    BY SearchAssumption
  <1>2. n \in Nat /\ DOMAIN labels = 1..n /\ \A i \in 1..n : labels[i] \in {0, 1}
    BY <1>1
  <1>3. s = [i \in 1..n |-> [label |-> labels[i], score |-> scores[i]]]
    BY <1>2 DEF Sample
  <1> HIDE DEF n, s
  <1>4. \A i \in 1..n : scores[i] \in 0..100
    BY <1>1, <1>2
  <1>5. \A i \in 1..n : [label |-> labels[i], score |-> scores[i]] \in E
    BY <1>2, <1>4
  <1> HIDE DEF E
  <1>6. s \in [1..n -> E]
    BY <1>3, <1>5
  <1>7. s \in Seq(E)
    BY <1>2, <1>6, SequenceIs
  <1> QED
    BY <1>7 DEF Samples, E, s

\* What a search returns.
LEMMA PointIs ==
  ASSUME NEW sample \in Samples
  PROVE  /\ SelectThreshold(sample) \in Measures \union {NoRow}
         /\ SelectThresholdRemediation(sample) \in Measures \union {NoRow}
         /\ SelectV1Threshold(sample) \in Measures \union {NoRow}
  <1> DEFINE curve == CurveRows(sample)
             a == {r \in curve : r.recall >= Limits.recall}
             b == {r \in curve : Eligible(r)}
  <1>1. IsFiniteSet(curve) /\ curve \subseteq Measures
    BY CurveIs
  <1>2. a \subseteq curve /\ b \subseteq curve
    OBVIOUS
  <1>3. /\ SelectThreshold(sample) = Best(a, SelectThresholdKey)
        /\ SelectThresholdRemediation(sample) = Best(a, RemediationKey)
        /\ SelectV1Threshold(sample) = Best(b, V1Key)
    BY SweepIsCurve DEF SelectThreshold, SelectThresholdRemediation, SelectV1Threshold, ChooseThresholdRow
  <1> HIDE DEF curve, a, b
  <1>4. /\ IsFiniteSet(a) /\ a \subseteq Measures
        /\ IsFiniteSet(b) /\ b \subseteq Measures
    BY <1>1, <1>2, FS_Subset
  <1>5. /\ Best(a, SelectThresholdKey) \in Measures \union {NoRow}
        /\ Best(a, RemediationKey) \in Measures \union {NoRow}
    <2>1. CASE a = {}
      BY <1>4, <2>1, BestThreshold
    <2>2. CASE a # {}
      BY <1>4, <2>2, BestThreshold
    <2> QED
      BY <2>1, <2>2
  <1>6. Best(b, V1Key) \in Measures \union {NoRow}
    <2>1. CASE b = {}
      BY <1>4, <2>1, BestThreshold
    <2>2. CASE b # {}
      BY <1>4, <2>2, BestThreshold
    <2> QED
      BY <2>1, <2>2
  <1> QED
    BY <1>3, <1>5, <1>6

\* Gates that all pass pass the third, of quality.
LEMMA GatesPass ==
  ASSUME NEW point \in Measures, NEW quality \in 0..2
  PROVE  /\ AllGatesPass(NovemberGates(point, quality)) => quality > 0
         /\ AllGatesPass(GovernedGates(point, quality)) => quality > 0
         /\ ~AllGatesPass(<<>>)
  <1> DEFINE x == point.recall >= Limits.recall
             y == point.f1 >= Limits.f1
             z == quality > 0
             u == point.precision >= Limits.precision
             v == point.rate <= Limits.rate
             a == NovemberGates(point, quality)
             b == <<u, v>>
             c == GovernedGates(point, quality)
  <1>1. a = <<x, y, z>> /\ c = a \o b
    BY DEF NovemberGates, GovernedGates
  <1>2. x \in BOOLEAN /\ y \in BOOLEAN /\ z \in BOOLEAN /\ u \in BOOLEAN /\ v \in BOOLEAN
    OBVIOUS
  <1>3. z = (quality > 0)
    OBVIOUS
  <1> HIDE DEF x, y, z, u, v
  <1>4. a \in Seq(BOOLEAN) /\ Len(a) = 3 /\ a[3] = z
    BY <1>1, <1>2
  <1>5. b \in Seq(BOOLEAN) /\ Len(b) = 2
    BY <1>2
  <1> HIDE DEF a, b, c
  <1>6. c \in Seq(BOOLEAN) /\ Joins(c, a, b)
    BY <1>1, <1>4, <1>5, ConcatIs
  <1>7. 3 \in DOMAIN a
    BY <1>4
  <1>8. 3 \in DOMAIN c /\ c[3] = a[3]
    <2>1. 3 \in 1..Len(a)
      BY <1>4
    <2>2. Len(c) = Len(a) + Len(b) /\ \A i \in 1..Len(a) : c[i] = a[i]
      BY <1>6 DEF Joins
    <2>3. Len(c) = 5
      BY <1>4, <1>5, <2>2
    <2>4. DOMAIN c = 1..5
      BY <1>6, <2>3
    <2>5. 3 \in DOMAIN c
      BY <2>4
    <2>6. c[3] = a[3]
      BY <2>1, <2>2
    <2> QED
      BY <2>5, <2>6
  <1>9. AllGatesPass(a) => z
    BY <1>4, <1>7 DEF AllGatesPass
  <1>10. AllGatesPass(c) => z
    BY <1>4, <1>8 DEF AllGatesPass
  <1>11. ~AllGatesPass(<<>>)
    BY DEF AllGatesPass
  <1> QED
    BY <1>3, <1>9, <1>10, <1>11 DEF a, c

\* A finalist is measured.
LEMMA MeasuredStep ==
  ASSUME SearchInv, stage = "november", queue # <<>>,
         generation' = generation, labels' = labels, rows' = rows,
         NEW point \in Measures \union {NoRow}, NEW quality \in 0..2, NEW gates,
         AllGatesPass(gates) => point # NoRow /\ quality > 0,
         Measured(point, quality, gates)
  PROVE  SearchInv'
  <1> DEFINE f == [id |-> Head(queue), metrics |-> Achieved(point), quality |-> quality,
                   passed |-> AllGatesPass(gates)]
             E == Entrants
             R == Rated
  <1>1. /\ finalists' = Append(finalists, f) /\ queue' = Tail(queue) /\ stage' = stage
    BY DEF Measured
  <1>2. queue \in Seq(Entrants) /\ finalists \in Seq(Rated) /\ labels \in Labels
    BY DEF SearchInv
  <1>3. Head(queue) \in Entrants /\ Tail(queue) \in Seq(Entrants)
    BY <1>2, HeadIs
  <1>4. /\ Achieved(point) \in [precision : Int, f1 : Int, rate : Int] \union {NoRow}
        /\ point # NoRow => Achieved(point) # NoRow
    <2>1. CASE point = NoRow
      BY <2>1 DEF Achieved
    <2>2. CASE point # NoRow
      <3>1. point \in Measures
        BY <2>2
      <3>2. Achieved(point) \in [precision : Int, f1 : Int, rate : Int]
        BY <2>2, <3>1 DEF Achieved, Measures
      <3>3. NoRow \notin [precision : Int, f1 : Int, rate : Int]
        BY SearchAssumption
      <3> QED
        BY <3>2, <3>3
    <2> QED
      BY <2>1, <2>2
  <1>5. AllGatesPass(gates) \in BOOLEAN
    BY DEF AllGatesPass
  <1>6. f \in Rated
    <2> DEFINE metrics == Achieved(point)
               passed == AllGatesPass(gates)
    <2>1. passed => metrics # NoRow /\ quality > 0
      BY <1>4
    <2> HIDE DEF metrics, passed
    <2> QED
      BY <1>3, <1>4, <1>5, <2>1 DEF Rated, metrics, passed
  <1> HIDE DEF f
  <1>7. finalists' \in Seq(Rated)
    <2>1. finalists \in Seq(R) /\ f \in R
      BY <1>2, <1>6
    <2> HIDE DEF R
    <2>2. Append(finalists, f) \in Seq(R)
      BY <2>1
    <2> QED
      BY <1>1, <2>2 DEF R
  <1> QED
    BY <1>1, <1>2, <1>3, <1>7 DEF SearchInv, Searching

LEMMA MeasureSteps ==
  ASSUME SearchInv, NEW scores \in Assessments, NEW quality \in 0..2,
         \/ RunFinalCandidate(scores, quality)
         \/ RunFinalist(scores, quality)
         \/ RunV1Finalist(scores, quality)
         \/ RunV2Finalist(scores, quality)
         \/ RunV3Finalist(scores, quality)
  PROVE  SearchInv'
  <1> DEFINE sample == Sample(scores)
  <1>1. /\ stage = "november" /\ queue # <<>>
        /\ generation' = generation /\ labels' = labels /\ rows' = rows
    BY DEF RunFinalCandidate, RunFinalist, RunV1Finalist, RunV2Finalist, RunV3Finalist, Measuring
  <1>2. sample \in Samples
    <2>1. labels \in Labels
      BY <1>1 DEF SearchInv
    <2>2. scores \in Scorings
      BY SearchAssumption
    <2> QED
      BY <2>1, <2>2, SampleOf
  <1> HIDE DEF sample
  <1>3. ASSUME NEW point \in Measures \union {NoRow}, MeasureOrRaise(point, quality)
        PROVE  SearchInv'
    <2>1. CASE point = NoRow
      BY <1>1, <1>3, <2>1, FailStep DEF MeasureOrRaise
    <2>2. CASE point # NoRow
      <3> DEFINE gates == NovemberGates(point, quality)
      <3>1. Measured(point, quality, gates)
        BY <1>3, <2>2 DEF MeasureOrRaise
      <3>2. AllGatesPass(gates) => quality > 0
        BY <2>2, GatesPass
      <3> HIDE DEF gates
      <3> QED
        BY <1>1, <2>2, <3>1, <3>2, MeasuredStep
    <2> QED
      BY <2>1, <2>2
  <1>4. ASSUME NEW point \in Measures \union {NoRow}, MeasureOrRecord(point, quality)
        PROVE  SearchInv'
    <2> DEFINE gates == IF point = NoRow THEN <<>> ELSE GovernedGates(point, quality)
    <2>1. Measured(point, quality, gates)
      BY <1>4 DEF MeasureOrRecord
    <2>2. AllGatesPass(gates) => point # NoRow /\ quality > 0
      <3>1. CASE point = NoRow
        BY <3>1 DEF AllGatesPass
      <3>2. CASE point # NoRow
        BY <3>2, GatesPass
      <3> QED
        BY <3>1, <3>2
    <2> HIDE DEF gates
    <2> QED
      BY <1>1, <2>1, <2>2, MeasuredStep
  <1>5. /\ SelectThreshold(sample) \in Measures \union {NoRow}
        /\ SelectThresholdRemediation(sample) \in Measures \union {NoRow}
        /\ SelectV1Threshold(sample) \in Measures \union {NoRow}
    BY <1>2, PointIs
  <1>6. \/ MeasureOrRaise(SelectThreshold(sample), quality)
        \/ MeasureOrRaise(SelectThresholdRemediation(sample), quality)
        \/ MeasureOrRecord(SelectV1Threshold(sample), quality)
    BY DEF RunFinalCandidate, RunFinalist, RunV1Finalist, RunV2Finalist, RunV3Finalist, sample
  <1> QED
    BY <1>3, <1>4, <1>5, <1>6

LEMMA DecideStep ==
  ASSUME SearchInv, Decide
  PROVE  SearchInv'
  <1>1. /\ stage = "november" /\ stage' = "decided" /\ generation' = generation
        /\ finalists' = finalists /\ rows' = rows /\ winner' = ChooseWinner
    BY DEF Decide
  <1>2. generation \in Generations /\ finalists \in Seq(Rated)
    BY <1>1 DEF SearchInv
  <1>3. Earned(ChooseWinner)
    BY <1>2, WinnerIs
  <1>4. Earned(winner)'
    BY <1>1, <1>3 DEF Earned
  <1> QED
    BY <1>1, <1>2, <1>4 DEF SearchInv, Searching

-----------------------------------------------------------------------------
(* The theorems *)

LEMMA SearchStarts == SearchInit => SearchInv /\ ConfirmationDecides
  <1> SUFFICES ASSUME SearchInit PROVE SearchInv /\ ConfirmationDecides
    OBVIOUS
  <1>1. /\ generation \in Generations /\ stage \in {"control", "search"}
        /\ queue = Plan(generation) /\ rows = <<>> /\ finalists = <<>>
    BY DEF SearchInit
  <1>2. Scheduled(Plan(generation), Needed)
    BY <1>1, PlanScheduled
  <1>3. queue \in Seq(Idents)
    BY <1>1, <1>2 DEF Scheduled
  <1>4. Assigned = queue
    BY <1>1, <1>3, LayingStart DEF Assigned
  <1>5. rows \in Seq(Evidences) /\ DOMAIN rows = {}
    BY <1>1
  <1>6. SearchInv
    BY <1>1, <1>2, <1>3, <1>4, <1>5 DEF SearchInv, Searching
  <1>7. ConfirmationDecides
    BY <1>1 DEF ConfirmationDecides
  <1> QED
    BY <1>6, <1>7

LEMMA SearchSteps ==
  SearchInv /\ ConfirmationDecides /\ [SearchNext]_searchVars => SearchInv' /\ ConfirmationDecides'
  <1> SUFFICES ASSUME SearchInv, ConfirmationDecides, [SearchNext]_searchVars
               PROVE  SearchInv' /\ ConfirmationDecides'
    OBVIOUS
  <1>a. ASSUME stage' # "refit" PROVE ConfirmationDecides'
    BY <1>a DEF ConfirmationDecides
  <1>b. ASSUME generation \notin {"v2", "v3"}, generation' = generation PROVE ConfirmationDecides'
    BY <1>b DEF ConfirmationDecides
  <1>1. CASE Reconstruct
    BY <1>1, <1>a, ReconstructStep DEF Reconstruct
  <1>2. CASE (\E result \in Results : RunCandidate(result)) \/ FailCandidate
    <2>1. stage' # "refit"
      BY <1>2 DEF RunCandidate, FailCandidate, Fitted
    <2> QED
      BY <1>2, <1>a, <2>1, CandidateStep
  <1>3. CASE EndTuning
    BY <1>3, <1>b, TuningEnds DEF EndTuning, Advance
  <1>4. CASE EndBaseSearch
    <2>1. generation' = generation /\ generation = "remediate"
      BY <1>4 DEF EndBaseSearch, Advance
    <2> QED
      BY <1>4, <1>b, <2>1, BaseSearchEnds
  <1>5. CASE EndRolling
    BY <1>5, <1>b, RollingEnds DEF EndRolling, Advance
  <1>6. CASE EndScreening
    BY <1>6, <1>a, ScreeningEnds DEF EndScreening
  <1>7. CASE EndConfirmation
    BY <1>7, ConfirmationEnds
  <1>8. CASE OpenNovember
    BY <1>8, <1>a, NovemberOpens DEF OpenNovember
  <1>9. ASSUME NEW scores \in Assessments, NEW quality \in 0..2,
               \/ RunFinalCandidate(scores, quality)
               \/ RunFinalist(scores, quality)
               \/ RunV1Finalist(scores, quality)
               \/ RunV2Finalist(scores, quality)
               \/ RunV3Finalist(scores, quality)
        PROVE  SearchInv' /\ ConfirmationDecides'
    <2>1. stage' # "refit"
      BY <1>9 DEF RunFinalCandidate, RunFinalist, RunV1Finalist, RunV2Finalist, RunV3Finalist,
                  Measuring, MeasureOrRaise, MeasureOrRecord, Measured
    <2> QED
      BY <1>9, <1>a, <2>1, MeasureSteps
  <1>10. CASE Decide
    BY <1>10, <1>a, DecideStep DEF Decide
  <1>11. CASE Abort
    BY <1>11, <1>a, FailStep DEF Abort
  <1>12. CASE UNCHANGED searchVars
    <2>1. /\ generation' = generation /\ labels' = labels /\ stage' = stage /\ queue' = queue
          /\ rows' = rows /\ advanced' = advanced /\ finalists' = finalists /\ winner' = winner
      BY <1>12 DEF searchVars
    <2>2. Needed' = Needed /\ FamiliesHere' = FamiliesHere /\ Assigned' = Assigned
      BY <2>1 DEF Needed, FamiliesHere, Assigned
    <2>3. Scheduled(Assigned, Needed)' <=> Scheduled(Assigned, Needed)
      BY <2>2 DEF Scheduled
    <2>4. Earned(winner)' <=> Earned(winner)
      BY <2>1 DEF Earned
    <2>5. SearchInv'
      BY <2>1, <2>3, <2>4 DEF SearchInv
    <2>6. ConfirmationDecides'
      BY <2>1 DEF ConfirmationDecides, Advancing, OfFamily
    <2> QED
      BY <2>5, <2>6
  <1> QED
    BY <1>1, <1>2, <1>3, <1>4, <1>5, <1>6, <1>7, <1>8, <1>9, <1>10, <1>11, <1>12 DEF SearchNext

-----------------------------------------------------------------------------
(* Thresholds that differ differ in what they achieve *)

Flagged(sample, t) == {i \in DOMAIN sample : sample[i].score >= t}
Caught(sample, t) == {i \in DOMAIN sample : sample[i].score >= t /\ sample[i].label = 1}

\* Every ratio of a sample is exact.
Exact(sample) == \A d \in 1..(2 * Len(sample)) : Unit % d = 0

\* The counts behind a row.
LEMMA CountsOf ==
  ASSUME NEW sample \in Samples, NEW t \in Int
  PROVE  LET tp == Cardinality(Caught(sample, t))
             pp == Cardinality(Flagged(sample, t)) IN
         /\ tp \in Nat /\ pp \in Nat /\ Positives(sample) \in Nat
         /\ tp <= pp /\ pp <= Len(sample) /\ Positives(sample) <= Len(sample)
         /\ CountedRow(sample, t) = Row(sample, t, tp, pp)
  <1> DEFINE P == 1..Len(sample)
             late == {i \in P : sample[i].label = 1}
             caught == Caught(sample, t)
             flagged == Flagged(sample, t)
  <1>1. IsFiniteSet(P) /\ Cardinality(P) = Len(sample)
    <2>1. Len(sample) \in Nat
      BY SampleIs
    <2>2. IsFiniteSet(1..Len(sample))
      BY <2>1, FS_Interval
    <2>3. Cardinality(1..Len(sample)) = IF 1 > Len(sample) THEN 0 ELSE Len(sample) - 1 + 1
      BY <2>1, FS_Interval
    <2> QED
      BY <2>1, <2>2, <2>3
  <1>2. caught \subseteq flagged /\ flagged \subseteq P /\ late \subseteq P
    BY SampleIs DEF Caught, Flagged
  <1>3. Positives(sample) = Cardinality(late)
    BY SampleIs DEF Positives
  <1>4. CountedRow(sample, t) = Row(sample, t, Cardinality(caught), Cardinality(flagged))
    BY DEF CountedRow, Caught, Flagged
  <1> HIDE DEF P, late, caught, flagged
  <1>5. /\ IsFiniteSet(flagged) /\ Cardinality(flagged) <= Cardinality(P)
        /\ IsFiniteSet(late) /\ Cardinality(late) <= Cardinality(P)
    BY <1>1, <1>2, FS_Subset
  <1>6. IsFiniteSet(caught) /\ Cardinality(caught) <= Cardinality(flagged)
    BY <1>2, <1>5, FS_Subset
  <1>7. Cardinality(caught) \in Nat /\ Cardinality(flagged) \in Nat /\ Cardinality(late) \in Nat
    BY <1>5, <1>6, FS_CardinalityType
  <1> QED
    BY <1>1, <1>3, <1>4, <1>5, <1>6, <1>7 DEF caught, flagged

\* A row of some recall: what it achieves, as equations.
LEMMA RowIs ==
  ASSUME NEW sample \in Samples, Exact(sample), NEW t \in Int, CountedRow(sample, t).recall > 0
  PROVE  LET tp == Cardinality(Caught(sample, t))
             pp == Cardinality(Flagged(sample, t))
             all == Positives(sample)
             row == CountedRow(sample, t) IN
         /\ tp \in Nat \ {0} /\ pp \in Nat \ {0} /\ all \in Nat \ {0}
         /\ row.precision \in Nat /\ row.recall \in Nat /\ row.f1 \in Nat
         /\ row.precision * pp = tp * Unit
         /\ row.recall * all = tp * Unit
         /\ row.f1 * (all + pp) = (2 * tp) * Unit
  <1> DEFINE tp == Cardinality(Caught(sample, t))
             pp == Cardinality(Flagged(sample, t))
             all == Positives(sample)
             n == Len(sample)
             row == CountedRow(sample, t)
  <1>1. /\ tp \in Nat /\ pp \in Nat /\ all \in Nat /\ tp <= pp /\ pp <= n /\ all <= n
        /\ row = Row(sample, t, tp, pp)
    BY CountsOf
  <1>2. n \in Nat
    BY SampleIs
  <1>3. \A d \in 1..(2 * n) : Unit % d = 0
    BY DEF Exact
  <1>4. row.recall > 0
    OBVIOUS
  <1> HIDE DEF tp, pp, all, n, row
  <1>5. /\ row.precision = Ratio(tp, pp) /\ row.recall = Ratio(tp, all)
        /\ row.f1 = Ratio(2 * tp, all + pp)
    BY <1>1 DEF Row, all
  <1>6. all # 0
    BY <1>4, <1>5 DEF Ratio
  <1>7. /\ all \in Nat \ {0} /\ all \in 1..(2 * n)
    BY <1>1, <1>2, <1>6
  <1>8. row.recall \in Nat /\ row.recall * all = tp * Unit
    BY <1>1, <1>3, <1>5, <1>7, RatioExact
  <1>9. tp # 0
    <2> SUFFICES ASSUME tp = 0 PROVE FALSE
      OBVIOUS
    <2>1. row.recall * all = 0
      BY <1>8, LimitsAssumption
    <2> QED
      BY <1>4, <1>7, <1>8, <2>1
  <1>10. /\ pp \in Nat \ {0} /\ pp \in 1..(2 * n)
         /\ all + pp \in Nat \ {0} /\ all + pp \in 1..(2 * n)
         /\ 2 * tp \in Nat
    BY <1>1, <1>2, <1>7, <1>9
  <1>11. row.precision \in Nat /\ row.precision * pp = tp * Unit
    BY <1>1, <1>3, <1>5, <1>10, RatioExact
  <1>12. row.f1 \in Nat /\ row.f1 * (all + pp) = (2 * tp) * Unit
    BY <1>3, <1>5, <1>10, RatioExact
  <1> QED
    BY <1>1, <1>7, <1>8, <1>9, <1>10, <1>11, <1>12 DEF tp, pp, all, row

\* A lower threshold flags more.
LEMMA FlagsMore ==
  ASSUME NEW sample \in Samples, NEW s \in Scores(sample), NEW t \in Scores(sample), s < t
  PROVE  Cardinality(Flagged(sample, t)) < Cardinality(Flagged(sample, s))
  <1> DEFINE F == Flagged(sample, s)
             G == Flagged(sample, t)
  <1>1. IsFiniteSet(1..Len(sample))
    <2>1. Len(sample) \in Nat
      BY SampleIs
    <2> QED
      BY <2>1, FS_Interval
  <1>2. F \subseteq 1..Len(sample) /\ G \subseteq 1..Len(sample)
    BY SampleIs DEF Flagged
  <1>3. PICK i \in 1..Len(sample) : sample[i].score = s
    BY SampleIs DEF Scores
  <1>4. s \in Int /\ t \in Int
    BY SampleIs DEF Scores
  <1>5. G \subseteq F
    BY <1>4, SampleIs DEF Flagged
  <1>6. i \in F /\ i \notin G
    BY <1>3, <1>4, SampleIs DEF Flagged
  <1> HIDE DEF F, G
  <1>7. IsFiniteSet(F) /\ IsFiniteSet(G)
    BY <1>1, <1>2, FS_Subset
  <1>8. Cardinality(G) <= Cardinality(F) /\ (Cardinality(F) = Cardinality(G) => F = G)
    BY <1>5, <1>7, FS_Subset
  <1>9. Cardinality(F) \in Nat /\ Cardinality(G) \in Nat
    BY <1>7, FS_CardinalityType
  <1> QED
    BY <1>6, <1>8, <1>9 DEF F, G

\* Any two of precision, recall and F1 tell how many are flagged.
LEMMA MeasuresTell ==
  ASSUME NEW u \in Nat \ {0}, NEW all \in Nat \ {0},
         NEW tp \in Nat \ {0}, NEW pp \in Nat \ {0}, NEW tq \in Nat \ {0}, NEW pq \in Nat \ {0},
         NEW p \in Nat, NEW r \in Nat, NEW f \in Nat,
         NEW q \in Nat, NEW s \in Nat, NEW g \in Nat,
         p * pp = tp * u, r * all = tp * u, f * (all + pp) = (2 * tp) * u,
         q * pq = tq * u, s * all = tq * u, g * (all + pq) = (2 * tq) * u
  PROVE  /\ p = q /\ r = s => pp = pq
         /\ f = g /\ r = s => pp = pq
         /\ f = g /\ p = q => pp = pq
  <1>1. p > 0 /\ f > 0
    <2>1. tp * u > 0 /\ (2 * tp) * u > 0
      BY SMT
    <2> QED
      BY <2>1, SMT
  <1>2. ASSUME r = s
        PROVE  tp * u = tq * u /\ (2 * tp) * u = (2 * tq) * u
    BY <1>2, SMT
  <1>3. ASSUME p = q, r = s
        PROVE  pp = pq
    BY <1>1, <1>2, <1>3, SMT
  <1>4. ASSUME f = g, r = s
        PROVE  pp = pq
    <2>1. f * (all + pp) = f * (all + pq)
      BY <1>2, <1>4, SMT
    <2> QED
      BY <1>1, <2>1, SMT
  <1>5. ASSUME f = g, p = q
        PROVE  pp = pq
    <2>1. f * all + f * pp = 2 * (p * pp) /\ f * all + f * pq = 2 * (p * pq)
      BY <1>5, SMT
    <2>2. f * all > 0
      BY <1>1, SMT
    <2>3. (2 * p - f) * pp = f * all /\ (2 * p - f) * pq = f * all
      BY <2>1, SMT
    <2> DEFINE e == 2 * p - f
               w == f * all
    <2>4. e \in Int /\ w \in Int /\ w > 0 /\ e * pp = w /\ e * pq = w
      BY <2>2, <2>3
    <2> HIDE DEF e, w
    <2>5. e # 0
      BY <2>4, SMT
    <2> QED
      BY <2>4, <2>5, SMT
  <1> QED
    BY <1>3, <1>4, <1>5

\* What comes first in a key.
LEMMA LeadingIs ==
  ASSUME NEW key \in Seq(Int), Len(key) >= 2
  PROVE  Leading(key)[1] = key[1] /\ Leading(key)[2] = key[2]
  BY DEF Leading

\* Two thresholds of a sample never tie.
LEMMA NeverTie ==
  ASSUME NEW sample \in Samples, Exact(sample),
         NEW a \in CurveRows(sample), NEW b \in CurveRows(sample), a # b,
         a.recall >= Limits.recall, b.recall >= Limits.recall
  PROVE  /\ Leading(V1Key(a)) # Leading(V1Key(b))
         /\ Leading(RemediationKey(a)) # Leading(RemediationKey(b))
         /\ Leading(SelectThresholdKey(a)) # Leading(SelectThresholdKey(b))
         /\ Leading(OperatingKey(a)) # Leading(OperatingKey(b))
  <1>1. PICK s \in Scores(sample) : a = CountedRow(sample, s)
    BY DEF CurveRows
  <1>2. PICK t \in Scores(sample) : b = CountedRow(sample, t)
    BY DEF CurveRows
  <1>3. s \in Int /\ t \in Int /\ s # t
    BY <1>1, <1>2, SampleIs DEF Scores
  <1>4. a \in Measures /\ b \in Measures
    BY CurveIs
  <1>5. a.recall > 0 /\ b.recall > 0
    <2>1. Limits.recall \in Int /\ Limits.recall > 0
      BY LimitsAssumption
    <2>2. a.recall \in Int /\ b.recall \in Int
      BY <1>4 DEF Measures
    <2> QED
      BY <2>1, <2>2
  <1> DEFINE pp == Cardinality(Flagged(sample, s))
             pq == Cardinality(Flagged(sample, t))
             tp == Cardinality(Caught(sample, s))
             tq == Cardinality(Caught(sample, t))
             all == Positives(sample)
  <1>6. /\ tp \in Nat \ {0} /\ pp \in Nat \ {0} /\ all \in Nat \ {0}
        /\ a.precision \in Nat /\ a.recall \in Nat /\ a.f1 \in Nat
        /\ a.precision * pp = tp * Unit
        /\ a.recall * all = tp * Unit
        /\ a.f1 * (all + pp) = (2 * tp) * Unit
    BY <1>1, <1>3, <1>5, RowIs
  <1>7. /\ tq \in Nat \ {0} /\ pq \in Nat \ {0}
        /\ b.precision \in Nat /\ b.recall \in Nat /\ b.f1 \in Nat
        /\ b.precision * pq = tq * Unit
        /\ b.recall * all = tq * Unit
        /\ b.f1 * (all + pq) = (2 * tq) * Unit
    BY <1>2, <1>3, <1>5, RowIs
  <1>8. pp # pq
    <2>1. CASE s < t
      BY <1>6, <1>7, <2>1, FlagsMore
    <2>2. CASE t < s
      BY <1>6, <1>7, <2>2, FlagsMore
    <2> QED
      BY <1>3, <2>1, <2>2
  <1> HIDE DEF pp, pq, tp, tq, all
  <1>9. /\ ~(a.precision = b.precision /\ a.recall = b.recall)
        /\ ~(a.f1 = b.f1 /\ a.recall = b.recall)
        /\ ~(a.f1 = b.f1 /\ a.precision = b.precision)
    BY <1>6, <1>7, <1>8, MeasuresTell, LimitsAssumption
  <1>10. \A r \in Measures :
           /\ V1Key(r) \in Seq(Int) /\ Len(V1Key(r)) >= 2
           /\ RemediationKey(r) \in Seq(Int) /\ Len(RemediationKey(r)) >= 2
           /\ SelectThresholdKey(r) \in Seq(Int) /\ Len(SelectThresholdKey(r)) >= 2
           /\ OperatingKey(r) \in Seq(Int) /\ Len(OperatingKey(r)) >= 2
    BY DEF Measures, V1Key, RemediationKey, SelectThresholdKey, OperatingKey, Distance
  <1>11. \A r \in Measures :
           /\ Leading(V1Key(r))[1] = -r.f1 /\ Leading(V1Key(r))[2] = -r.precision
           /\ Leading(RemediationKey(r))[1] = -r.f1 /\ Leading(RemediationKey(r))[2] = -r.precision
           /\ Leading(SelectThresholdKey(r))[1] = -r.f1 /\ Leading(SelectThresholdKey(r))[2] = -r.recall
           /\ Leading(OperatingKey(r))[1] = -r.precision /\ Leading(OperatingKey(r))[2] = -r.recall
    BY <1>10, LeadingIs DEF V1Key, RemediationKey, SelectThresholdKey, OperatingKey
  <1>12. /\ a.f1 \in Int /\ a.precision \in Int /\ a.recall \in Int
         /\ b.f1 \in Int /\ b.precision \in Int /\ b.recall \in Int
    BY <1>6, <1>7
  <1>13. /\ ~(-a.f1 = -b.f1 /\ -a.precision = -b.precision)
         /\ ~(-a.f1 = -b.f1 /\ -a.recall = -b.recall)
         /\ ~(-a.precision = -b.precision /\ -a.recall = -b.recall)
    BY <1>9, <1>12, SMT
  <1>14. Leading(V1Key(a)) # Leading(V1Key(b))
    BY <1>4, <1>11, <1>13, Zenon
  <1>15. Leading(RemediationKey(a)) # Leading(RemediationKey(b))
    BY <1>4, <1>11, <1>13, Zenon
  <1>16. Leading(SelectThresholdKey(a)) # Leading(SelectThresholdKey(b))
    BY <1>4, <1>11, <1>13, Zenon
  <1>17. Leading(OperatingKey(a)) # Leading(OperatingKey(b))
    BY <1>4, <1>11, <1>13, Zenon
  <1> QED
    BY <1>14, <1>15, <1>16, <1>17

\* Whatever the candidates show, the evidence of the CPU confirmation decides the
\* refit in v2 and v3 (run_screening_and_cpu_confirmation).
THEOREM RefitIsConfirmed == SearchSpec => []ConfirmationDecides
  BY SearchStarts, SearchSteps, PTL DEF SearchSpec

\* Whatever the finalists score, what wins passed every gate and is not behind
\* another that did; nothing wins exactly when none passes.
THEOREM WinnersEarned == SearchSpec => []WinnerEarned
  <1>1. SearchInv => WinnerEarned
    BY DEF SearchInv, WinnerEarned, Earned
  <1> QED
    BY SearchStarts, SearchSteps, <1>1, PTL DEF SearchSpec

\* On any partition and any scores, what v2 and v3 search by foretells whether a
\* finalist will have a threshold, and bounds what it achieves.
THEOREM SearchForetells == SearchSpec => []SearchForetellsNovember
  <1>1. SearchInv => SearchForetellsNovember
    <2> SUFFICES ASSUME SearchInv, NEW sample \in Unmeasured
                 PROVE  LET point == SearchOperatingPoint(sample)
                            governed == SelectV1Threshold(sample)
                        IN /\ governed = NoRow <=> point.precision < Limits.precision
                           /\ governed # NoRow => /\ governed.precision <= point.precision
                                                  /\ governed.f1 <= point.bestF1
      BY DEF SearchForetellsNovember
    <2>1. stage = "november" /\ \E s \in Scorings : sample = Sample(s)
      BY DEF Unmeasured
    <2>2. labels \in Labels
      BY <2>1 DEF SearchInv
    <2>3. sample \in Samples
      BY <2>1, <2>2, SampleOf
    <2> QED
      BY <2>3, Foretold
  <1> QED
    BY SearchStarts, SearchSteps, <1>1, PTL DEF SearchSpec

\* However many flights and whatever their scores, two thresholds of a sample that
\* reach the recall asked for never tie on the first two keys of any search: no
\* choice of select_threshold, select_v1_threshold or search_operating_point is
\* left to the distance from one half or to the threshold itself.
THEOREM ChoicesUnique == SearchSpec => []ChoiceIsUnique
  <1>1. SearchInv => ChoiceIsUnique
    <2> SUFFICES ASSUME SearchInv, NEW sample \in Unmeasured,
                        NEW a \in {r \in CurveRows(sample) : r.recall >= Limits.recall},
                        NEW b \in {r \in CurveRows(sample) : r.recall >= Limits.recall},
                        a # b
                 PROVE  /\ Leading(V1Key(a)) # Leading(V1Key(b))
                        /\ Leading(RemediationKey(a)) # Leading(RemediationKey(b))
                        /\ Leading(SelectThresholdKey(a)) # Leading(SelectThresholdKey(b))
                        /\ Leading(OperatingKey(a)) # Leading(OperatingKey(b))
      BY DEF ChoiceIsUnique
    <2>1. stage = "november" /\ \E s \in Scorings : sample = Sample(s)
      BY DEF Unmeasured
    <2>2. labels \in Labels
      BY <2>1 DEF SearchInv
    <2>3. sample \in Samples
      BY <2>1, <2>2, SampleOf
    <2>4. Exact(sample)
      <3>1. labels \in Seq({0, 1}) /\ \A d \in 1..(2 * Len(labels)) : Unit % d = 0
        BY <2>2, SearchAssumption
      <3>2. DOMAIN sample = DOMAIN labels
        BY <2>1 DEF Sample
      <3>3. Len(sample) = Len(labels)
        BY <2>3, <3>1, <3>2, SampleIs
      <3> QED
        BY <3>1, <3>3 DEF Exact
    <2> QED
      BY <2>3, <2>4, NeverTie
  <1> QED
    BY SearchStarts, SearchSteps, <1>1, PTL DEF SearchSpec
=============================================================================
