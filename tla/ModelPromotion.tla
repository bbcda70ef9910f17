--------------------------- MODULE ModelPromotion ---------------------------
(***************************************************************************)
(* Controlled promotion in the model Registry: scripts/promote_model.py    *)
(* lists the collection, resolves the target alias, ranks the candidates   *)
(* under the committed policy and, in apply mode, moves the alias and      *)
(* writes an audit record.  Every Registry call is a step of its own that  *)
(* may fail; versions are published, other runs of the workflow act, and    *)
(* the release scripts and operators link the same aliases under gates of  *)
(* their own or none, in between and before the first run.                 *)
(***************************************************************************)
EXTENDS Integers, Sequences, FiniteSets

CONSTANTS
  Promoters,  \* concurrent runs of the workflow
  Versions,   \* candidate_ids, as naturals in the order of their strings
  Aliases,    \* allowed_target_aliases
  Ranking,    \* the policy's rules, [field, direction]
  Values,     \* what a ranked field may measure
  Pins,       \* the --candidate-version choices, None for no filter
  None

Fields == {Ranking[i].field : i \in DOMAIN Ranking}

\* A version whose files or metadata cannot be read as a candidate.
Invalid == [standing |-> "invalid"]

\* A version as list_candidates reads it, and whether it passes every gate.
Candidate ==
  [standing : {"eligible", "rejected"}, metrics : [Fields -> Values]] \union {Invalid}

ASSUME PromotionAssumption ==
  /\ Versions \subseteq Nat
  /\ Values \subseteq Int
  /\ Ranking \in Seq([field : STRING, direction : {"maximize", "minimize"}])
  /\ Pins \subseteq Versions \union {None}
  /\ None \notin Versions \union Candidate

VARIABLES
  registry,  \* version -> its immutable candidate, or None while unpublished
  alias,     \* alias -> the version it names, or None
  outside,   \* history: the aliases last linked by something else than a run
  attempt    \* promoter -> its run of the script, or how the last one ended

vars == <<registry, alias, outside, attempt>>

Published == {v \in Versions : registry[v] # None}

-----------------------------------------------------------------------------
(* selector.py *)

\* Mutant: losses are ranked like scores.
BeatsMaximizing(rule, left, right) == left.metrics[rule.field] > right.metrics[rule.field]

Beats(rule, left, right) ==
  IF rule.direction = "maximize"
  THEN left.metrics[rule.field] > right.metrics[rule.field]
  ELSE left.metrics[rule.field] < right.metrics[rule.field]

SameRankValues(left, right) ==
  \A i \in DOMAIN Ranking : left.metrics[Ranking[i].field] = right.metrics[Ranking[i].field]

\* _compare(v, w) < 0: the first rule they differ in, then the incumbent, then
\* the candidate_id.
Before(v, w, incumbent) ==
  \/ \E i \in DOMAIN Ranking :
       /\ Beats(Ranking[i], registry[v], registry[w])
       /\ \A j \in 1 .. i - 1 :
            registry[v].metrics[Ranking[j].field] = registry[w].metrics[Ranking[j].field]
  \/ /\ SameRankValues(registry[v], registry[w])
     /\ v = incumbent \/ (w # incumbent /\ v < w)

\* Mutant: the gates are reported but not applied.
PassingReported(listed) == listed

Passing(listed) == {v \in listed : registry[v].standing = "eligible"}

\* Mutant: sorted the other way round.
WinnersReversed(listed, incumbent) ==
  {v \in Passing(listed) : \A w \in Passing(listed) \ {v} : Before(w, v, incumbent)}

\* The head of the sorted eligible candidates.
Winners(listed, incumbent) ==
  {v \in Passing(listed) : \A w \in Passing(listed) \ {v} : Before(v, w, incumbent)}

\* What select_candidates may return as the winner.
Selected(listed, incumbent) ==
  IF Passing(listed) = {} THEN {None} ELSE Winners(listed, incumbent)

Outcome(winner, incumbent) ==
  CASE winner = None      -> "no_eligible_candidate"
    [] winner = incumbent -> "retain_current"
    [] OTHER              -> "promote"

-----------------------------------------------------------------------------
(* promote_model.py: one run *)

Attempt ==
  [pc : {"idle", "list", "resolve", "check", "link", "verify", "moved", "audit",
         "recorded", "failed"},
   apply : BOOLEAN, target : Aliases \union {None}, pin : Pins \union {None},
   listed : SUBSET Versions, before : Versions \union {None},
   winner : Versions \union {None}]

Quiet == [pc |-> "idle", apply |-> FALSE, target |-> None, pin |-> None, listed |-> {},
          before |-> None, winner |-> None]

Ended == {"idle", "recorded", "failed"}

Init ==
  /\ registry = [v \in Versions |-> None]
  /\ alias = [a \in Aliases |-> None]
  /\ outside = {}
  /\ attempt = [p \in Promoters |-> Quiet]

Start(p) ==
  /\ attempt[p].pc \in Ended
  /\ \E apply \in BOOLEAN, target \in Aliases, pin \in Pins :
       attempt' = [attempt EXCEPT ![p] =
         [Quiet EXCEPT !.pc = "list", !.apply = apply, !.target = target, !.pin = pin]]
  /\ UNCHANGED <<registry, alias, outside>>

\* One artifact that is no valid candidate fails the whole enumeration.
Readable == \A v \in Published : registry[v] # Invalid

ListCandidates(p) ==
  /\ attempt[p].pc = "list"
  /\ Readable
  /\ attempt' = [attempt EXCEPT
       ![p].pc = "resolve",
       ![p].listed = {v \in Published : attempt[p].pin \in {v, None}}]
  /\ UNCHANGED <<registry, alias, outside>>

\* The alias is resolved and the candidates selected; only an apply that selects
\* another version than the alias names goes on to the Registry.
Select(p) ==
  LET before == alias[attempt[p].target] IN
  /\ attempt[p].pc = "resolve"
  /\ \E winner \in Selected(attempt[p].listed, before) :
       attempt' = [attempt EXCEPT
         ![p].before = before, ![p].winner = winner,
         ![p].pc = IF attempt[p].apply /\ Outcome(winner, before) = "promote"
                   THEN "check" ELSE "audit"]
  /\ UNCHANGED <<registry, alias, outside>>

Unmoved(p) == alias[attempt[p].target] = attempt[p].before

\* promote resolves the alias again: already there, still as selected, or
\* changed (an error).
CheckAlias(p) ==
  /\ attempt[p].pc = "check"
  /\ \/ /\ alias[attempt[p].target] = attempt[p].winner
        /\ attempt' = [attempt EXCEPT ![p].pc = "moved"]
     \/ /\ alias[attempt[p].target] # attempt[p].winner
        /\ Unmoved(p)
        /\ attempt' = [attempt EXCEPT ![p].pc = "link"]
  /\ UNCHANGED <<registry, alias, outside>>

\* artifact.link(aliases=[alias]) has no condition.
Link(p) ==
  /\ attempt[p].pc = "link"
  /\ alias' = [alias EXCEPT ![attempt[p].target] = attempt[p].winner]
  /\ outside' = outside \ {attempt[p].target}
  /\ attempt' = [attempt EXCEPT ![p].pc = "verify"]
  /\ UNCHANGED registry

Verify(p) ==
  /\ attempt[p].pc = "verify"
  /\ alias[attempt[p].target] = attempt[p].winner
  /\ attempt' = [attempt EXCEPT ![p].pc = "moved"]
  /\ UNCHANGED <<registry, alias, outside>>

EndedAs(p, pc) == [attempt EXCEPT ![p] = [Quiet EXCEPT !.pc = pc]]

\* build_audit_record and write_audit_record.
Audit(p) ==
  /\ attempt[p].pc \in {"moved", "audit"}
  /\ attempt' = EndedAs(p, "recorded")
  /\ UNCHANGED <<registry, alias, outside>>

\* Any Registry call, or the check or verification, raises, or the runner dies:
\* the script ends with an error and no record.
Fail(p) ==
  /\ attempt[p].pc \notin Ended
  /\ attempt' = EndedAs(p, "failed")
  /\ UNCHANGED <<registry, alias, outside>>

\* A training project links a new version to the collection.
Publish ==
  /\ \E v \in Versions, candidate \in Candidate :
       /\ registry[v] = None
       /\ registry' = [registry EXCEPT ![v] = candidate]
  /\ UNCHANGED <<alias, outside, attempt>>

\* release_model.py links staging before any gate and production under its own
\* gates, and an operator links what he likes: any version of the collection,
\* one that fails the policy's gates included.
MoveAlias ==
  /\ \E a \in Aliases, v \in Published :
       /\ alias' = [alias EXCEPT ![a] = v]
       /\ outside' = outside \union {a}
  /\ UNCHANGED <<registry, attempt>>

Next ==
  \/ \E p \in Promoters :
       \/ Start(p) \/ ListCandidates(p) \/ Select(p) \/ CheckAlias(p)
       \/ Link(p) \/ Verify(p) \/ Audit(p) \/ Fail(p)
  \/ Publish \/ MoveAlias

Spec == Init /\ [][Next]_vars

-----------------------------------------------------------------------------
(* Properties *)

TypeOK ==
  /\ registry \in [Versions -> Candidate \union {None}]
  /\ alias \in [Aliases -> Versions \union {None}]
  /\ outside \subseteq Aliases
  /\ attempt \in [Promoters -> Attempt]
  /\ \A p \in Promoters :
       attempt[p].pc \in {"check", "link", "verify"} => attempt[p].winner \in Versions

\* What a promotion left an alias on passes every gate, whatever the alias named
\* before, whatever runs overlap and whatever is published meanwhile; only a link
\* from outside ever leaves it on a version that fails one.
PromotedEligible ==
  \A a \in Aliases \ outside : alias[a] # None =>
    registry[alias[a]] # None /\ registry[alias[a]].standing = "eligible"

\* The best on the first rule, of those the best on the second, and so on.
Leaders(listed) ==
  LET among[i \in 0 .. Len(Ranking)] ==
        IF i = 0 THEN {v \in listed : registry[v].standing = "eligible"}
        ELSE {v \in among[i - 1] :
                \A w \in among[i - 1] :
                  LET mine == registry[v].metrics[Ranking[i].field]
                      other == registry[w].metrics[Ranking[i].field] IN
                  IF Ranking[i].direction = "maximize" THEN mine >= other ELSE mine <= other}
  IN among[Len(Ranking)]

\* Sorting with the comparator always has one head, and it is the version the
\* policy describes: the successive best on each rule of those that pass the
\* gates; of several, the incumbent, else the least id.
SelectionIsPolicy ==
  \A p \in Promoters : attempt[p].pc = "resolve" =>
    LET leaders == Leaders(attempt[p].listed)
        before == alias[attempt[p].target] IN
    Selected(attempt[p].listed, before) =
      CASE leaders = {}      -> {None}
        [] before \in leaders -> {before}
        [] OTHER             -> {v \in leaders : \A w \in leaders : v <= w}

\* A promotion never takes an alias down: what it replaces, which need not be what
\* it selected against, comes after its winner if the run listed it and it passes
\* the gates, whatever other runs and outside links do between its steps.
MovesUp ==
  [][\A p \in Promoters :
       LET run == attempt[p]
           replaced == alias[run.target] IN
       /\ run.pc = "link" /\ attempt'[p].pc = "verify"
       /\ replaced \in Passing(run.listed)
       => alias'[run.target] = replaced
            \/ Before(alias'[run.target], replaced, run.before)]_vars

=============================================================================
