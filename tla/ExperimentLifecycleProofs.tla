---------------------- MODULE ExperimentLifecycleProofs ----------------------
(* Theorems of ExperimentLifecycle, for any operators and checkouts.        *)
EXTENDS ExperimentLifecycle, TLAPS

-----------------------------------------------------------------------------
(* The inductive invariant *)

Missing(paths) == {path \in paths : disk[path] = None}

\* Where a development can be: its verdict, what is left to do, and the outputs
\* that are missing if no other run overlapped it.
DevelopOne(verdict, todo, missing) ==
  \/ /\ verdict = None /\ todo = <<"marker", "november">>
     /\ missing = DevelopmentOutputs
  \/ /\ verdict = None /\ todo = <<"november">>
     /\ missing = {"decision", "report", "state", "model", "lock"}
  \/ /\ verdict = "winner" /\ todo = <<"model", "lock", "decision">>
     /\ missing = {"decision", "report", "state", "model", "lock"}
  \/ /\ verdict = "winner" /\ todo = <<"lock", "decision">>
     /\ missing = {"decision", "report", "state", "lock"}
  \/ /\ verdict = "winner" /\ todo = <<"decision">>
     /\ missing = {"decision", "report", "state"}
  \/ /\ verdict = "winner" /\ todo = <<>>
     /\ missing = {"report", "state"}
  \/ /\ verdict = "governed_stop" /\ todo = <<"decision", "report">>
     /\ missing = {"decision", "report", "state", "model", "lock"}
  \/ /\ verdict = "governed_stop" /\ todo = <<"report">>
     /\ missing = {"report", "state", "model", "lock"}
  \/ /\ verdict = "governed_stop" /\ todo = <<>>
     /\ missing = {"state", "model", "lock"}

DevelopTwo(verdict, todo, missing) ==
  \/ /\ verdict = None /\ todo = <<"marker", "state", "november">>
     /\ missing = DevelopmentOutputs
  \/ /\ verdict = None /\ todo = <<"state", "november">>
     /\ missing = {"decision", "report", "state", "model", "lock"}
  \/ /\ verdict = None /\ todo = <<"november">>
     /\ missing = {"decision", "report", "model", "lock"}
  \/ /\ verdict = "winner" /\ todo = <<"decision", "model", "lock">>
     /\ missing = {"decision", "report", "model", "lock"}
  \/ /\ verdict = "winner" /\ todo = <<"model", "lock">>
     /\ missing = {"report", "model", "lock"}
  \/ /\ verdict = "winner" /\ todo = <<"lock">>
     /\ missing = {"report", "lock"}
  \/ /\ verdict = "winner" /\ todo = <<>>
     /\ missing = {"report"}
  \/ /\ verdict = "governed_stop" /\ todo = <<"decision">>
     /\ missing = {"decision", "report", "model", "lock"}
  \/ /\ verdict = "governed_stop" /\ todo = <<>>
     /\ missing = {"report", "model", "lock"}

DevelopStep(version, verdict, todo, missing) ==
  \/ version = "v1" /\ DevelopOne(verdict, todo, missing)
  \/ version = "v2" /\ DevelopTwo(verdict, todo, missing)

\* The same of a qualification.
QualifyStep(version, verdict, todo, missing) ==
  \/ /\ verdict = None /\ todo = <<"qualification", "december", "load">>
     /\ missing = QualificationOutputs
  \/ /\ verdict = None /\ todo \in {<<"december", "load">>, <<"load">>}
     /\ missing = {"result", "release"}
  \/ /\ verdict = TRUE /\ version = "v1" /\ todo = <<"result", "release">>
     /\ missing = {"result", "release"}
  \/ /\ verdict = TRUE /\ version = "v1" /\ todo = <<"release">>
     /\ missing = {"release"}
  \/ /\ verdict = TRUE /\ version = "v1" /\ todo = <<>>
     /\ missing = {}
  \/ /\ verdict \in BOOLEAN /\ ~(version = "v1" /\ verdict = TRUE) /\ todo = <<"result">>
     /\ missing = {"result", "release"}
  \/ /\ verdict \in BOOLEAN /\ ~(version = "v1" /\ verdict = TRUE) /\ todo = <<>>
     /\ missing = {"release"}

\* What a development or a qualification that ran alone writes under a name.
Expected(version, p, path) ==
  CASE path \in {"marker", "qualification"} -> Marker(p.by, p.code, "started", None)
    [] path = "decision" -> [by |-> p.by, verdict |-> p.verdict]
    [] path = "lock" -> [by |-> p.by, code |-> p.code, model |-> [by |-> p.by],
                         state |-> IF version = "v2" THEN [by |-> p.by] ELSE None]
    [] path \in {"state", "report", "model"} -> [by |-> p.by]
    [] path \in {"result", "release"} -> [winner |-> p.winner, passed |-> p.verdict]

Fields == {"cmd", "by", "code", "todo", "verdict", "winner", "loaded", "held"}

\* The shape of a command, whoever overlaps it.
Shape(o, p) ==
  /\ DOMAIN p = Fields
  /\ \/ p = Idle
     \/ /\ p.cmd = "develop" /\ p.by = o /\ p.code \in Nat
        /\ \E missing \in SUBSET DevelopmentOutputs : DevelopStep(experiment, p.verdict, p.todo, missing)
     \/ /\ p.cmd = "qualify" /\ p.by = o /\ p.code \in Nat /\ p.winner \in WinnerLocks
        /\ \E missing \in SUBSET QualificationOutputs : QualifyStep(experiment, p.verdict, p.todo, missing)
  /\ p.held # None =>
       /\ p.todo # <<>> /\ IsFile(Head(p.todo))
       /\ Head(p.todo) \in {"model", "state"} => p.held \in Claims
       /\ Head(p.todo) = "lock" => p.held \in WinnerLocks

TypeOK ==
  /\ experiment \in Experiments /\ checkout \in Checkouts
  /\ process = [o \in Operators |-> process[o]]
  /\ disk = [path \in Paths |-> disk[path]]
  /\ disk["model"] \in Claims \union {None}
  /\ disk["state"] \in Claims \union {None}
  /\ disk["lock"] \in WinnerLocks \union {None}
  /\ \A o \in Operators : Shape(o, process[o])

\* A command that was never contested is in progress once at most.
Single ==
  \A o, other \in Operators :
    process[o].cmd \in {"develop", "qualify"} \ contested /\ process[other].cmd = process[o].cmd
      => o = other

\* What is on disk and about to be, of an uncontested development.
Developing(o) ==
  LET p == process[o] IN
  p.cmd = "develop" =>
    /\ DevelopStep(experiment, p.verdict, p.todo, Missing(DevelopmentOutputs))
    /\ \A path \in DevelopmentOutputs : disk[path] \in {None, Expected(experiment, p, path)}
    /\ p.held # None => p.held = Expected(experiment, p, Head(p.todo))

\* The same of an uncontested qualification; December is sealed before its step.
Qualifying(o) ==
  LET p == process[o] IN
  p.cmd = "qualify" =>
    /\ QualifyStep(experiment, p.verdict, p.todo, Missing(QualificationOutputs))
    /\ \A path \in QualificationOutputs : disk[path] \in {None, Expected(experiment, p, path)}
    /\ p.held # None => p.held = Expected(experiment, p, Head(p.todo))
    /\ p.todo \in {<<"qualification", "december", "load">>, <<"december", "load">>} => openings = <<>>

Frozen ==
  disk["marker"] # None /\ disk["marker"].status = "complete" /\ disk["marker"].verdict = "winner"

\* A qualification in progress holds the lock that is on disk, of its own code.
HoldsTheLock(o) ==
  process[o].cmd = "qualify" =>
    Frozen /\ process[o].winner = disk["lock"] /\ process[o].code = disk["lock"].code

Openings ==
  Seq([winner : {disk["lock"]}, code : {disk["lock"].code}, by : Operators,
       loaded : {None, disk["lock"].model}])

Development ==
  /\ disk["marker"] = None => Missing(DevelopmentOutputs) = DevelopmentOutputs
  /\ CompletedIsWhole
  /\ Frozen => disk["lock"].by \in Operators
  /\ \A o \in Operators : Developing(o) /\ HoldsTheLock(o)
  /\ openings # <<>> => Frozen /\ openings \in Openings

\* CandidateEarned, told of what is on disk.
Earned ==
  LET marker == disk["qualification"] IN
  /\ disk["release"] # None =>
       /\ experiment = "v1" /\ disk["result"] = disk["release"]
       /\ disk["result"] # None /\ disk["result"].passed = TRUE
  /\ marker # None /\ marker.status = "complete" =>
       /\ disk["result"] # None /\ disk["result"].passed = marker.verdict
       /\ marker.verdict \in BOOLEAN
       /\ experiment = "v1" => (disk["release"] # None <=> marker.verdict = TRUE)

Qualification ==
  /\ disk["qualification"] = None =>
       Missing(QualificationOutputs) = QualificationOutputs /\ openings = <<>>
  /\ Earned
  /\ \A o \in Operators : Qualifying(o)

IInv ==
  /\ TypeOK /\ Single
  /\ Alone("develop") => Development
  /\ Alone("qualify") => Qualification

-----------------------------------------------------------------------------
(* The tables *)

LEMMA Tails ==
  ASSUME NEW a, NEW b, NEW c
  PROVE  /\ Head(<<a>>) = a /\ Tail(<<a>>) = <<>>
         /\ Head(<<a, b>>) = a /\ Tail(<<a, b>>) = <<b>>
         /\ Head(<<a, b, c>>) = a /\ Tail(<<a, b, c>>) = <<b, c>>
  OBVIOUS

\* A step of a development writes a missing output and comes to the next line.
LEMMA DevelopNext ==
  ASSUME NEW verdict, NEW todo, NEW missing, DevelopStep(experiment, verdict, todo, missing),
         todo # <<>>, Head(todo) # "november"
  PROVE  /\ Head(todo) \in missing /\ Head(todo) \in DevelopmentOutputs
         /\ DevelopStep(experiment, verdict, Tail(todo), missing \ {Head(todo)})
  <1> DEFINE Next1 == /\ Head(todo) \in missing /\ Head(todo) \in DevelopmentOutputs
                      /\ DevelopOne(verdict, Tail(todo), missing \ {Head(todo)})
             Next2 == /\ Head(todo) \in missing /\ Head(todo) \in DevelopmentOutputs
                      /\ DevelopTwo(verdict, Tail(todo), missing \ {Head(todo)})
  <1>1. ASSUME DevelopOne(verdict, todo, missing) PROVE Next1
    <2>1. CASE todo = <<"marker", "november">>
      BY <1>1, <2>1, Tails DEF DevelopOne, DevelopmentOutputs
    <2>2. CASE todo = <<"model", "lock", "decision">>
      BY <1>1, <2>2, Tails DEF DevelopOne, DevelopmentOutputs
    <2>3. CASE todo = <<"lock", "decision">>
      BY <1>1, <2>3, Tails DEF DevelopOne, DevelopmentOutputs
    <2>4. CASE todo = <<"decision">>
      BY <1>1, <2>4, Tails DEF DevelopOne, DevelopmentOutputs
    <2>5. CASE todo = <<"decision", "report">>
      BY <1>1, <2>5, Tails DEF DevelopOne, DevelopmentOutputs
    <2>6. CASE todo = <<"report">>
      BY <1>1, <2>6, Tails DEF DevelopOne, DevelopmentOutputs
    <2> QED BY <1>1, <2>1, <2>2, <2>3, <2>4, <2>5, <2>6, Tails DEF DevelopOne
  <1>2. ASSUME DevelopTwo(verdict, todo, missing) PROVE Next2
    <2>1. CASE todo = <<"marker", "state", "november">>
      BY <1>2, <2>1, Tails DEF DevelopTwo, DevelopmentOutputs
    <2>2. CASE todo = <<"state", "november">>
      BY <1>2, <2>2, Tails DEF DevelopTwo, DevelopmentOutputs
    <2>3. CASE todo = <<"decision", "model", "lock">>
      BY <1>2, <2>3, Tails DEF DevelopTwo, DevelopmentOutputs
    <2>4. CASE todo = <<"model", "lock">>
      BY <1>2, <2>4, Tails DEF DevelopTwo, DevelopmentOutputs
    <2>5. CASE todo = <<"lock">>
      BY <1>2, <2>5, Tails DEF DevelopTwo, DevelopmentOutputs
    <2>6. CASE todo = <<"decision">>
      BY <1>2, <2>6, Tails DEF DevelopTwo, DevelopmentOutputs
    <2> QED BY <1>2, <2>1, <2>2, <2>3, <2>4, <2>5, <2>6, Tails DEF DevelopTwo
  <1> QED BY <1>1, <1>2 DEF DevelopStep

LEMMA DevelopNovember ==
  ASSUME NEW todo, NEW verdict, NEW missing, DevelopStep(experiment, verdict, todo, missing),
         todo # <<>>, Head(todo) = "november", NEW outcome \in Verdicts
  PROVE  DevelopStep(experiment, outcome, Outcome(outcome), missing) /\ "decision" \in missing
  BY DEF DevelopStep, DevelopOne, DevelopTwo, Outcome, Verdicts, DevelopmentOutputs

\* The lock is last of a model and a state; the marker is first of all.
LEMMA DevelopOrder ==
  ASSUME NEW verdict, NEW todo, NEW missing, DevelopStep(experiment, verdict, todo, missing)
  PROVE  /\ "marker" \in missing <=> todo # <<>> /\ Head(todo) = "marker"
         /\ "marker" \in missing => missing = DevelopmentOutputs
         /\ todo # <<>> /\ Head(todo) = "lock" =>
              "model" \notin missing /\ (experiment = "v2" => "state" \notin missing)
         /\ todo # <<>> => Head(todo) \notin {"december", "load"}
  BY DEF DevelopStep, DevelopOne, DevelopTwo, DevelopmentOutputs

LEMMA DevelopEnd ==
  ASSUME NEW verdict, NEW missing, DevelopStep(experiment, verdict, <<>>, missing)
  PROVE  /\ verdict \in Verdicts /\ "decision" \notin missing /\ "marker" \notin missing
         /\ verdict = "governed_stop" => "model" \in missing /\ "lock" \in missing
         /\ verdict = "winner" => "model" \notin missing /\ "lock" \notin missing
         /\ "state" \in missing <=> experiment = "v1"
  BY DEF DevelopStep, DevelopOne, DevelopTwo, Verdicts

LEMMA QualifyNext ==
  ASSUME NEW verdict, NEW todo, NEW missing, QualifyStep(experiment, verdict, todo, missing),
         todo # <<>>, Head(todo) \notin {"december", "load"}
  PROVE  /\ Head(todo) \in missing /\ Head(todo) \in QualificationOutputs
         /\ QualifyStep(experiment, verdict, Tail(todo), missing \ {Head(todo)})
  <1>1. CASE todo = <<"qualification", "december", "load">>
    BY <1>1, Tails DEF QualifyStep, QualificationOutputs
  <1>2. CASE todo = <<"result", "release">>
    <2>1. verdict = TRUE /\ experiment = "v1" /\ missing = {"result", "release"}
      BY <1>2 DEF QualifyStep
    <2>2. Head(todo) = "result" /\ Tail(todo) = <<"release">> /\ missing \ {"result"} = {"release"}
      BY <1>2, <2>1, Tails
    <2> QED BY <2>1, <2>2 DEF QualifyStep, QualificationOutputs
  <1>3. CASE todo = <<"release">>
    <2>1. verdict = TRUE /\ experiment = "v1" /\ missing = {"release"}
      BY <1>3 DEF QualifyStep
    <2>2. Head(todo) = "release" /\ Tail(todo) = <<>> /\ missing \ {"release"} = {}
      BY <1>3, <2>1, Tails
    <2> QED BY <2>1, <2>2 DEF QualifyStep, QualificationOutputs
  <1>4. CASE todo = <<"result">>
    <2>1. verdict \in BOOLEAN /\ ~(experiment = "v1" /\ verdict = TRUE) /\ missing = {"result", "release"}
      BY <1>4 DEF QualifyStep
    <2>2. Head(todo) = "result" /\ Tail(todo) = <<>> /\ missing \ {"result"} = {"release"}
      BY <1>4, <2>1, Tails
    <2> QED BY <2>1, <2>2 DEF QualifyStep, QualificationOutputs
  <1>5. todo \notin {<<"december", "load">>, <<"load">>}
    BY Tails
  <1> QED BY <1>1, <1>2, <1>3, <1>4, <1>5 DEF QualifyStep

LEMMA QualifyDecember ==
  ASSUME NEW verdict, NEW todo, NEW missing, QualifyStep(experiment, verdict, todo, missing),
         todo # <<>>, Head(todo) = "december"
  PROVE  QualifyStep(experiment, verdict, Tail(todo), missing)
  <1>1. verdict = None /\ todo = <<"december", "load">> /\ missing = {"result", "release"}
    BY Tails DEF QualifyStep
  <1>2. Tail(todo) = <<"load">>
    BY <1>1, Tails
  <1> QED BY <1>1, <1>2 DEF QualifyStep

LEMMA QualifyLoad ==
  ASSUME NEW verdict, NEW todo, NEW missing, QualifyStep(experiment, verdict, todo, missing),
         todo # <<>>, Head(todo) = "load", NEW passed \in BOOLEAN
  PROVE  QualifyStep(experiment, passed, Evidence(passed), missing) /\ missing = {"result", "release"}
  <1>1. missing = {"result", "release"}
    BY Tails DEF QualifyStep
  <1>2. CASE experiment = "v1" /\ passed
    <2>1. passed = TRUE /\ Evidence(passed) = <<"result", "release">>
      BY <1>2 DEF Evidence
    <2> QED BY <1>1, <1>2, <2>1 DEF QualifyStep
  <1>3. CASE ~(experiment = "v1" /\ passed)
    <2>1. Evidence(passed) = <<"result">>
      BY <1>3 DEF Evidence
    <2>2. passed \in BOOLEAN /\ ~(experiment = "v1" /\ passed = TRUE)
      BY <1>3
    <2> QED BY <1>1, <2>1, <2>2 DEF QualifyStep
  <1> QED BY <1>1, <1>2, <1>3

LEMMA QualifyOrder ==
  ASSUME NEW verdict, NEW todo, NEW missing, QualifyStep(experiment, verdict, todo, missing)
  PROVE  /\ "qualification" \in missing <=> todo # <<>> /\ Head(todo) = "qualification"
         /\ "qualification" \in missing => missing = QualificationOutputs
         /\ todo # <<>> => Head(todo) \notin {"november", "marker"} \union DevelopmentOutputs
         /\ todo # <<>> /\ Head(todo) = "qualification" => todo = <<"qualification", "december", "load">>
         /\ todo # <<>> /\ Head(todo) = "december" => todo = <<"december", "load">>
         /\ "release" \notin missing =>
              /\ experiment = "v1" /\ verdict = TRUE
              /\ missing = {} /\ todo = <<>>
  BY Tails DEF QualifyStep, QualificationOutputs, DevelopmentOutputs

LEMMA QualifyEnd ==
  ASSUME NEW verdict, NEW missing, QualifyStep(experiment, verdict, <<>>, missing)
  PROVE  /\ verdict \in BOOLEAN /\ "qualification" \notin missing /\ "result" \notin missing
         /\ experiment = "v1" => ("release" \notin missing <=> verdict = TRUE)
  BY Tails DEF QualifyStep

-----------------------------------------------------------------------------
(* What the invariant says *)

LEMMA NoFile ==
  ASSUME NEW o \in Operators, NEW code \in Nat
  PROVE  /\ Marker(o, code, "started", None) # None
         /\ [by |-> o] # None /\ [by |-> o] \in Claims
         /\ \A verdict \in Verdicts : [by |-> o, verdict |-> verdict] # None
         /\ \A model, state \in Claims \union {None} :
              [by |-> o, code |-> code, model |-> model, state |-> state] \in WinnerLocks
         /\ \A lock \in WinnerLocks : lock # None
         /\ \A winner \in WinnerLocks, passed \in BOOLEAN : [winner |-> winner, passed |-> passed] # None
  <1>1. Marker(o, code, "started", None) \in Developments
    BY DEF Marker, Developments, Statuses
  <1>2. [by |-> o] \in Claims /\ \A verdict \in Verdicts : [by |-> o, verdict |-> verdict] \in Decisions
    BY DEF Claims, Decisions
  <1>3. \A winner \in WinnerLocks, passed \in BOOLEAN : [winner |-> winner, passed |-> passed] \in Results
    BY DEF Results
  <1>4. \A model, state \in Claims \union {None} :
              [by |-> o, code |-> code, model |-> model, state |-> state] \in WinnerLocks
    BY DEF WinnerLocks
  <1> QED BY <1>1, <1>2, <1>3, <1>4, ExperimentAssumption

\* What an uncontested development has on disk.
LEMMA DevelopingIs ==
  ASSUME TypeOK, NEW o \in Operators, process[o].cmd = "develop", Developing(o)
  PROVE  /\ process[o].by = o /\ process[o].code \in Nat
         /\ \A path \in DevelopmentOutputs \ Missing(DevelopmentOutputs) :
              disk[path] = Expected(experiment, process[o], path)
         /\ disk["marker"] \in {None, Marker(o, process[o].code, "started", None)}
         /\ ~Frozen
  <1>1. process[o].by = o /\ process[o].code \in Nat
    BY DEF TypeOK, Shape, Idle, Command
  <1>2. disk["marker"] \in {None, Marker(o, process[o].code, "started", None)}
    BY <1>1 DEF Developing, Expected, DevelopmentOutputs
  <1>3. ~Frozen
    BY <1>2 DEF Frozen, Marker
  <1> QED BY <1>1, <1>2, <1>3 DEF Developing, Missing

LEMMA QualifyingIs ==
  ASSUME TypeOK, NEW o \in Operators, process[o].cmd = "qualify", Qualifying(o)
  PROVE  /\ process[o].by = o /\ process[o].code \in Nat /\ process[o].winner \in WinnerLocks
         /\ \A path \in QualificationOutputs \ Missing(QualificationOutputs) :
              disk[path] = Expected(experiment, process[o], path)
         /\ disk["qualification"] \in {None, Marker(o, process[o].code, "started", None)}
  <1>1. process[o].by = o /\ process[o].code \in Nat /\ process[o].winner \in WinnerLocks
    BY DEF TypeOK, Shape, Idle, Command
  <1>2. disk["qualification"] \in {None, Marker(o, process[o].code, "started", None)}
    BY <1>1 DEF Qualifying, Expected, QualificationOutputs
  <1> QED BY <1>1, <1>2 DEF Qualifying, Missing
-----------------------------------------------------------------------------
(* Initially *)

LEMMA InitIInv == Init => IInv
  <1> SUFFICES ASSUME Init PROVE IInv
    OBVIOUS
  <1> USE DEF Init
  <1>1. \A o \in Operators : process[o] = Idle
    OBVIOUS
  <1>2. \A path \in Paths : disk[path] = None
    OBVIOUS
  <1>3. DOMAIN Idle = Fields /\ Idle.held = None /\ Idle.cmd = "idle"
    BY DEF Idle, Command, Fields
  <1>4. TypeOK
    <2>1. \A o \in Operators : Shape(o, Idle)
      BY <1>3 DEF Shape
    <2> QED BY <1>1, <1>2, <2>1 DEF TypeOK, Paths, DevelopmentOutputs
  <1>5. Single
    BY <1>1, <1>3 DEF Single
  <1>6. disk["marker"] = None /\ disk["qualification"] = None /\ disk["release"] = None
    BY <1>2 DEF Paths, DevelopmentOutputs
  <1>7. Development
    <2>1. Missing(DevelopmentOutputs) = DevelopmentOutputs
      BY <1>2 DEF Missing, Paths
    <2>2. CompletedIsWhole /\ ~Frozen
      BY <1>6 DEF CompletedIsWhole, Frozen
    <2> QED BY <1>1, <1>3, <1>6, <2>1, <2>2 DEF Development, Developing, HoldsTheLock
  <1>8. Qualification
    <2>1. Missing(QualificationOutputs) = QualificationOutputs
      BY <1>2 DEF Missing, Paths, QualificationOutputs
    <2>2. Earned
      BY <1>6 DEF Earned
    <2> QED BY <1>1, <1>3, <2>1, <2>2 DEF Qualification, Qualifying
  <1> QED BY <1>4, <1>5, <1>7, <1>8 DEF IInv

-----------------------------------------------------------------------------
(* What a step leaves alone *)

\* One operator's command changes; no name that types are known of does.
LEMMA TypeStep ==
  ASSUME TypeOK, NEW o \in Operators, NEW q, Shape(o, q),
         process' = [process EXCEPT ![o] = q],
         UNCHANGED <<experiment, checkout>>,
         disk' = [path \in Paths |-> disk'[path]],
         disk'["model"] \in Claims \union {None},
         disk'["state"] \in Claims \union {None},
         disk'["lock"] \in WinnerLocks \union {None}
  PROVE  TypeOK'
  <1>1. process' = [other \in Operators |-> process'[other]]
    BY DEF TypeOK
  <1>2. ASSUME NEW other \in Operators PROVE Shape(other, process'[other])
    <2>1. CASE other = o
      BY <2>1 DEF TypeOK
    <2>2. CASE other # o
      <3>1. process'[other] = process[other]
        BY <2>2 DEF TypeOK
      <3> QED BY <3>1 DEF TypeOK
    <2> QED BY <2>1, <2>2
  <1>3. ASSUME NEW other \in Operators PROVE Shape(other, process[other])'
    BY <1>2 DEF Shape
  <1> QED BY <1>1, <1>3 DEF TypeOK

\* The command of one operator goes on or ends.
LEMMA SingleStep ==
  ASSUME TypeOK, Single, NEW o \in Operators, NEW q,
         process' = [process EXCEPT ![o] = q],
         q.cmd \in {process[o].cmd, "idle"}, contested' = contested
  PROVE  Single'
  <1>1. \A other \in Operators : process'[other].cmd \in {process[other].cmd, "idle"}
    BY DEF TypeOK
  <1> QED BY <1>1 DEF Single

\* The development's part holds as long as its files stay, and what commands
\* of others do to themselves does not matter.
LEMMA DevelopmentFrame ==
  ASSUME Development, contested \subseteq contested',
         experiment' = experiment,
         openings' = openings \/ (Frozen /\ openings' \in Openings),
         \A path \in DevelopmentOutputs : disk'[path] = disk[path],
         \A q \in Operators :
           \/ process'[q] = process[q]
           \/ process'[q].cmd = "idle"
           \/ /\ process[q].cmd = "qualify" /\ process'[q].cmd = "qualify"
              /\ process'[q].winner = process[q].winner /\ process'[q].code = process[q].code
           \/ Developing(q)' /\ HoldsTheLock(q)'
  PROVE  Development'
  <1>1. Missing(DevelopmentOutputs)' = Missing(DevelopmentOutputs)
    BY DEF Missing
  <1>2. \A path \in {"marker", "decision", "report", "state", "model", "lock"} : disk'[path] = disk[path]
    BY DEF DevelopmentOutputs
  <1>3. CompletedIsWhole'
    BY <1>2 DEF CompletedIsWhole, Alone, Development
  <1>4. Frozen' <=> Frozen
    BY <1>2 DEF Frozen
  <1>5. ASSUME NEW q \in Operators PROVE Developing(q)'
    <2>1. CASE process'[q] = process[q]
      BY <1>1, <2>1 DEF Developing, Development
    <2>2. CASE process'[q].cmd # "develop"
      BY <2>2 DEF Developing
    <2> QED BY <2>1, <2>2
  <1>6. ASSUME NEW q \in Operators PROVE HoldsTheLock(q)'
    BY <1>2, <1>4 DEF HoldsTheLock, Development
  <1>7. openings' # <<>> => Frozen' /\ openings' \in Openings'
    BY <1>2, <1>4 DEF Development, Openings
  <1> QED BY <1>1, <1>2, <1>3, <1>4, <1>5, <1>6, <1>7 DEF Development

LEMMA QualificationFrame ==
  ASSUME Qualification,
         experiment' = experiment,
         openings' = openings \/ disk["qualification"] # None,
         \A path \in QualificationOutputs : disk'[path] = disk[path],
         \A q \in Operators :
           \/ process'[q] = process[q] /\ openings' = openings
           \/ process'[q].cmd # "qualify"
           \/ Qualifying(q)'
  PROVE  Qualification'
  <1>1. Missing(QualificationOutputs)' = Missing(QualificationOutputs)
    BY DEF Missing
  <1>2. \A path \in {"qualification", "result", "release"} : disk'[path] = disk[path]
    BY DEF QualificationOutputs
  <1>3. Earned'
    BY <1>2 DEF Earned, Qualification
  <1>4. ASSUME NEW q \in Operators PROVE Qualifying(q)'
    <2>1. CASE process'[q] = process[q] /\ openings' = openings
      BY <1>1, <2>1 DEF Qualifying, Qualification
    <2>2. CASE process'[q].cmd # "qualify"
      BY <2>2 DEF Qualifying
    <2>3. CASE Qualifying(q)'
      BY <2>3
    <2> QED BY <2>1, <2>2, <2>3
  <1>5. disk'["qualification"] = None => Missing(QualificationOutputs)' = QualificationOutputs /\ openings' = <<>>
    BY <1>1, <1>2 DEF Qualification
  <1> QED BY <1>3, <1>4, <1>5 DEF Qualification
-----------------------------------------------------------------------------
(* Starting a command *)

LEMMA BeginIs ==
  ASSUME TypeOK, Single, NEW o \in Operators, NEW command, Begin(o, command),
         Shape(o, command), command.cmd \in {"develop", "qualify"}
  PROVE  /\ TypeOK' /\ Single' /\ contested \subseteq contested'
         /\ process'[o] = command
         /\ \A q \in Operators \ {o} : process'[q] = process[q]
         /\ process' = [process EXCEPT ![o] = command]
         /\ UNCHANGED <<experiment, disk, openings>>
  <1>1. /\ process' = [process EXCEPT ![o] = command] /\ contested \subseteq contested'
        /\ UNCHANGED <<experiment, checkout, disk, openings>>
        /\ command.cmd \notin contested' => \A q \in Operators : process[q].cmd # command.cmd
    BY DEF Begin
  <1>2. process'[o] = command /\ \A q \in Operators \ {o} : process'[q] = process[q]
    BY <1>1 DEF TypeOK
  <1>3. TypeOK'
    BY <1>1, TypeStep DEF TypeOK
  <1>4. Single'
    BY <1>1, <1>2 DEF Single
  <1> QED BY <1>1, <1>2, <1>3, <1>4

LEMMA DevelopIInv ==
  ASSUME IInv, NEW o \in Operators, Develop(o)
  PROVE  IInv'
  <1> DEFINE todo == IF experiment = "v1" THEN <<"marker", "november">>
                     ELSE <<"marker", "state", "november">>
             command == Command("develop", o, checkout.code, todo)
  <1>1. /\ command.cmd = "develop" /\ command.by = o /\ command.code = checkout.code
        /\ command.todo = todo /\ command.verdict = None /\ command.held = None
        /\ DOMAIN command = Fields
    BY DEF Command, Fields
  <1>2. TypeOK /\ Single /\ Begin(o, command)
    BY DEF IInv, Develop
  <1>3. checkout.code \in Nat
    BY <1>2, ExperimentAssumption DEF TypeOK, CheckoutFields
  <1>4. DevelopStep(experiment, None, todo, DevelopmentOutputs)
    BY <1>2 DEF DevelopStep, DevelopOne, DevelopTwo, TypeOK, Experiments
  <1> HIDE DEF todo, command
  <1>5. Shape(o, command)
    BY <1>1, <1>3, <1>4 DEF Shape
  <1>6. /\ TypeOK' /\ Single' /\ contested \subseteq contested'
        /\ process'[o] = command /\ \A q \in Operators \ {o} : process'[q] = process[q]
        /\ UNCHANGED <<experiment, disk, openings>>
    BY <1>1, <1>2, <1>5, BeginIs
  <1>7. ASSUME Alone("develop")' PROVE Development'
    <2>1. Development
      BY <1>6, <1>7 DEF IInv, Alone
    <2>2. \A path \in DevelopmentOutputs : disk[path] = None
      BY DEF Develop, Present
    <2>3. Missing(DevelopmentOutputs)' = DevelopmentOutputs
      BY <1>6, <2>2 DEF Missing
    <2>4. Developing(o)' /\ HoldsTheLock(o)'
      BY <1>1, <1>4, <1>6, <2>2, <2>3 DEF Developing, HoldsTheLock
    <2> QED BY <1>6, <2>1, <2>4, DevelopmentFrame
  <1>8. ASSUME Alone("qualify")' PROVE Qualification'
    <2>1. Qualification
      BY <1>6, <1>8 DEF IInv, Alone
    <2> QED BY <1>1, <1>6, <2>1, QualificationFrame
  <1> QED BY <1>6, <1>7, <1>8 DEF IInv

LEMMA QualifyIInv ==
  ASSUME IInv, NEW o \in Operators, Qualify(o)
  PROVE  IInv'
  <1> DEFINE todo == <<"qualification", "december", "load">>
             command == [Command("qualify", o, checkout.code, todo) EXCEPT !.winner = disk["lock"]]
  <1>1. /\ command.cmd = "qualify" /\ command.by = o /\ command.code = checkout.code
        /\ command.todo = todo /\ command.verdict = None /\ command.held = None
        /\ command.winner = disk["lock"] /\ DOMAIN command = Fields
    BY DEF Command, Fields
  <1>2. TypeOK /\ Single /\ Begin(o, command)
    BY DEF IInv, Qualify
  <1>3. checkout.code \in Nat
    BY <1>2, ExperimentAssumption DEF TypeOK, CheckoutFields
  <1>4. QualifyStep(experiment, None, todo, QualificationOutputs)
    BY DEF QualifyStep
  <1>5. Frozen /\ disk["lock"] \in WinnerLocks /\ disk["lock"].code = checkout.code
    BY <1>2 DEF Qualify, Handoff, Present, Frozen, TypeOK
  <1> HIDE DEF todo, command
  <1>6. Shape(o, command)
    BY <1>1, <1>3, <1>4, <1>5 DEF Shape
  <1>7. /\ TypeOK' /\ Single' /\ contested \subseteq contested'
        /\ process'[o] = command /\ \A q \in Operators \ {o} : process'[q] = process[q]
        /\ UNCHANGED <<experiment, disk, openings>>
    BY <1>1, <1>2, <1>6, BeginIs
  <1>8. ASSUME Alone("develop")' PROVE Development'
    <2>1. Development
      BY <1>7, <1>8 DEF IInv, Alone
    <2>2. Developing(o)' /\ HoldsTheLock(o)'
      BY <1>1, <1>5, <1>7 DEF Developing, HoldsTheLock, Frozen
    <2> QED BY <1>7, <2>1, <2>2, DevelopmentFrame
  <1>9. ASSUME Alone("qualify")' PROVE Qualification'
    <2>1. Qualification
      BY <1>7, <1>9 DEF IInv, Alone
    <2>2. \A path \in QualificationOutputs : disk[path] = None
      BY DEF Qualify, Present
    <2>3. Missing(QualificationOutputs)' = QualificationOutputs
      BY <1>7, <2>2 DEF Missing
    <2>4. openings' = <<>>
      BY <1>7, <2>1, <2>2 DEF Qualification, QualificationOutputs
    <2>5. Qualifying(o)'
      BY <1>1, <1>4, <1>7, <2>2, <2>3, <2>4 DEF Qualifying
    <2> QED BY <1>7, <2>1, <2>5, QualificationFrame
  <1> QED BY <1>7, <1>8, <1>9 DEF IInv

-----------------------------------------------------------------------------
(* The test that a file is absent *)

LEMMA CheckIs ==
  ASSUME TypeOK, NEW o \in Operators, Check(o)
  PROVE  LET p == process[o]  name == Head(p.todo)
             q == [p EXCEPT !.held = Bytes(p, name)] IN
         /\ p.todo # <<>> /\ IsFile(name)
         /\ process' = [process EXCEPT ![o] = q] /\ process'[o] = q
         /\ \A other \in Operators \ {o} : process'[other] = process[other]
         /\ DOMAIN q = Fields /\ q.held = Bytes(p, name)
         /\ q.cmd = p.cmd /\ q.by = p.by /\ q.code = p.code /\ q.todo = p.todo
         /\ q.verdict = p.verdict /\ q.winner = p.winner
         /\ p.cmd \in {"develop", "qualify"} /\ p.by = o /\ p.code \in Nat
         /\ p.cmd = "develop" => name \in DevelopmentOutputs
         /\ p.cmd = "qualify" => name \in QualificationOutputs
         /\ UNCHANGED <<experiment, checkout, disk, openings, contested>>
  <1> DEFINE p == process[o]
             name == Head(p.todo)
             q == [p EXCEPT !.held = Bytes(p, name)]
  <1>1. /\ p.todo # <<>> /\ IsFile(name)
        /\ process' = [process EXCEPT ![o] = q]
        /\ UNCHANGED <<experiment, checkout, disk, openings, contested>>
    BY DEF Check, TypeOK
  <1>2. Shape(o, p)
    BY DEF TypeOK
  <1> HIDE DEF p, name
  <1>3. DOMAIN q = Fields /\ q.held = Bytes(p, name)
        /\ q.cmd = p.cmd /\ q.by = p.by /\ q.code = p.code /\ q.todo = p.todo
        /\ q.verdict = p.verdict /\ q.winner = p.winner
    BY <1>2 DEF Shape, Fields
  <1>4. p.cmd \in {"develop", "qualify"} /\ p.by = o /\ p.code \in Nat
    BY <1>1, <1>2 DEF Shape, Idle, Command
  <1>5. p.cmd = "develop" => name \in DevelopmentOutputs
    <2> SUFFICES ASSUME p.cmd = "develop" PROVE Head(p.todo) \in DevelopmentOutputs
      BY DEF name
    <2>1. PICK missing \in SUBSET DevelopmentOutputs : DevelopStep(experiment, p.verdict, p.todo, missing)
      BY <1>2 DEF Shape, Idle, Command
    <2>2. Head(p.todo) # "november"
      BY <1>1 DEF name, IsFile
    <2> QED BY <1>1, <2>1, <2>2, DevelopNext
  <1>6. p.cmd = "qualify" => name \in QualificationOutputs
    <2> SUFFICES ASSUME p.cmd = "qualify" PROVE Head(p.todo) \in QualificationOutputs
      BY DEF name
    <2>1. PICK missing \in SUBSET QualificationOutputs : QualifyStep(experiment, p.verdict, p.todo, missing)
      BY <1>2 DEF Shape, Idle, Command
    <2>2. Head(p.todo) \notin {"december", "load"}
      BY <1>1 DEF name, IsFile
    <2> QED BY <1>1, <2>1, <2>2, QualifyNext
  <1>7. process'[o] = q /\ \A other \in Operators \ {o} : process'[other] = process[other]
    BY <1>1 DEF TypeOK
  <1> QED BY <1>1, <1>3, <1>4, <1>5, <1>6, <1>7 DEF p, name
\* What a file will hold is what the tables expect, as long as no run overlaps.
LEMMA BytesExpected ==
  ASSUME TypeOK, NEW o \in Operators, process[o].todo # <<>>,
         process[o].by = o, process[o].code \in Nat,
         NEW name, name = Head(process[o].todo)
  PROVE  /\ name \in QualificationOutputs \union {"marker", "decision", "report", "state", "model"} =>
              Bytes(process[o], name) = Expected(experiment, process[o], name)
         /\ name \in {"model", "state"} => Bytes(process[o], name) \in Claims
         /\ name = "lock" => Bytes(process[o], name) \in WinnerLocks
         /\ name = "lock" /\ process[o].cmd = "develop" /\ Developing(o) =>
              Bytes(process[o], name) = Expected(experiment, process[o], name)
  <1> DEFINE p == process[o]
  <1>1. name \in {"marker", "qualification"} =>
          Bytes(p, name) = Marker(p.by, p.code, "started", None)
          /\ Expected(experiment, p, name) = Marker(p.by, p.code, "started", None)
    BY DEF Bytes, Expected
  <1>2. name = "decision" => Bytes(p, name) = [by |-> p.by, verdict |-> p.verdict]
          /\ Expected(experiment, p, name) = [by |-> p.by, verdict |-> p.verdict]
    BY DEF Bytes, Expected
  <1>3. name \in {"report", "state", "model"} =>
          Bytes(p, name) = [by |-> p.by] /\ Expected(experiment, p, name) = [by |-> p.by]
    BY DEF Bytes, Expected
  <1>4. name \in {"result", "release"} => Bytes(p, name) = [winner |-> p.winner, passed |-> p.verdict]
          /\ Expected(experiment, p, name) = [winner |-> p.winner, passed |-> p.verdict]
    BY DEF Bytes, Expected
  <1>5. name = "lock" =>
          /\ Bytes(p, name) = [by |-> p.by, code |-> p.code, model |-> disk["model"],
                               state |-> IF experiment = "v2" THEN [by |-> p.by] ELSE None]
          /\ Expected(experiment, p, name) =
               [by |-> p.by, code |-> p.code, model |-> [by |-> p.by],
                state |-> IF experiment = "v2" THEN [by |-> p.by] ELSE None]
    BY DEF Bytes, Expected
  <1>6. [by |-> p.by] \in Claims
    BY NoFile
  <1>7. ASSUME name = "lock" PROVE Bytes(p, name) \in WinnerLocks
    <2>1. disk["model"] \in Claims \union {None}
          /\ (IF experiment = "v2" THEN [by |-> p.by] ELSE None) \in Claims \union {None}
      BY <1>6 DEF TypeOK
    <2> HIDE DEF p
    <2>2. p.by = o /\ p.code \in Nat
      BY DEF p
    <2> QED BY <1>5, <1>7, <2>1, <2>2, NoFile
  <1>8. ASSUME name = "lock", p.cmd = "develop", Developing(o) PROVE disk["model"] = [by |-> p.by]
    <2>1. DevelopStep(experiment, p.verdict, p.todo, Missing(DevelopmentOutputs))
      BY <1>8 DEF Developing
    <2>2. "model" \notin Missing(DevelopmentOutputs)
      BY <1>8, <2>1, DevelopOrder
    <2>3. disk["model"] = Expected(experiment, p, "model")
      BY <1>8, <2>2, DevelopingIs DEF DevelopmentOutputs
    <2> QED BY <2>3 DEF Expected
  <1> QED BY <1>1, <1>2, <1>3, <1>4, <1>5, <1>6, <1>7, <1>8 DEF QualificationOutputs

LEMMA CheckIInv ==
  ASSUME IInv, NEW o \in Operators, Check(o)
  PROVE  IInv'
  <1>1. TypeOK /\ Single
    BY DEF IInv
  <1>2. PICK p : p = process[o]
    OBVIOUS
  <1>3. PICK name : name = Head(p.todo)
    OBVIOUS
  <1>4. PICK q : q = [p EXCEPT !.held = Bytes(p, name)]
    OBVIOUS
  <1>5. /\ p.todo # <<>> /\ IsFile(name)
        /\ process' = [process EXCEPT ![o] = q] /\ process'[o] = q
        /\ \A other \in Operators \ {o} : process'[other] = process[other]
        /\ DOMAIN q = Fields /\ q.held = Bytes(p, name)
        /\ q.cmd = p.cmd /\ q.by = p.by /\ q.code = p.code /\ q.todo = p.todo
        /\ q.verdict = p.verdict /\ q.winner = p.winner
        /\ p.cmd \in {"develop", "qualify"} /\ p.by = o /\ p.code \in Nat
        /\ p.cmd = "develop" => name \in DevelopmentOutputs
        /\ p.cmd = "qualify" => name \in QualificationOutputs
        /\ UNCHANGED <<experiment, checkout, disk, openings, contested>>
    BY <1>1, <1>2, <1>3, <1>4, CheckIs
  <1>6. Shape(o, p)
    BY <1>1, <1>2 DEF TypeOK
  <1>7. /\ name \in QualificationOutputs \union {"marker", "decision", "report", "state", "model"} =>
             q.held = Expected(experiment, p, name)
        /\ name \in {"model", "state"} => q.held \in Claims
        /\ name = "lock" => q.held \in WinnerLocks
        /\ name = "lock" /\ p.cmd = "develop" /\ Developing(o) => q.held = Expected(experiment, p, name)
    BY <1>1, <1>2, <1>3, <1>5, BytesExpected
  <1>8. TypeOK'
    <2>1. Shape(o, q)
      BY <1>3, <1>5, <1>6, <1>7 DEF Shape, Idle, Command
    <2> QED BY <1>1, <1>5, <2>1, TypeStep DEF TypeOK
  <1>9. Single'
    BY <1>1, <1>5, <1>2, SingleStep
  <1>10. \A path : Expected(experiment, q, path) = Expected(experiment, p, path)
    BY <1>5 DEF Expected
  <1>11. ASSUME Alone("develop")' PROVE Development'
    <2>1. Development
      BY <1>5, <1>11 DEF IInv, Alone
    <2>2. CASE p.cmd = "develop"
      <3>1. q.held = Expected(experiment, p, name)
        BY <1>5, <1>7, <2>1, <2>2 DEF Development, DevelopmentOutputs
      <3>2. Missing(DevelopmentOutputs)' = Missing(DevelopmentOutputs)
        BY <1>5 DEF Missing
      <3>3. Developing(o)' /\ HoldsTheLock(o)'
        BY <1>2, <1>3, <1>5, <1>10, <2>1, <2>2, <3>1, <3>2 DEF Development, Developing, HoldsTheLock
      <3> QED BY <1>5, <2>1, <3>3, DevelopmentFrame
    <2>3. CASE p.cmd = "qualify"
      BY <1>2, <1>5, <2>1, <2>3, DevelopmentFrame
    <2> QED BY <1>5, <2>2, <2>3
  <1>12. ASSUME Alone("qualify")' PROVE Qualification'
    <2>1. Qualification
      BY <1>5, <1>12 DEF IInv, Alone
    <2>2. CASE p.cmd = "qualify"
      <3>1. q.held = Expected(experiment, p, name)
        BY <1>5, <1>7, <2>2
      <3>2. Missing(QualificationOutputs)' = Missing(QualificationOutputs)
        BY <1>5 DEF Missing
      <3>3. Qualifying(o)'
        BY <1>2, <1>3, <1>5, <1>10, <2>1, <2>2, <3>1, <3>2 DEF Qualification, Qualifying
      <3> QED BY <1>5, <2>1, <3>3, QualificationFrame
    <2>3. CASE p.cmd = "develop"
      BY <1>2, <1>5, <2>1, <2>3, QualificationFrame
    <2> QED BY <1>5, <2>2, <2>3
  <1> QED BY <1>8, <1>9, <1>11, <1>12 DEF IInv
-----------------------------------------------------------------------------
(* os.replace *)

LEMMA QualifyTail ==
  ASSUME NEW verdict, NEW todo, NEW missing, QualifyStep(experiment, verdict, todo, missing),
         todo # <<>>, Head(todo) \notin {"qualification", "december", "load"}
  PROVE  Tail(todo) \notin {<<"qualification", "december", "load">>, <<"december", "load">>}
  <1>1. todo \in {<<"result", "release">>, <<"release">>, <<"result">>}
    BY Tails DEF QualifyStep
  <1>2. CASE todo = <<"result", "release">>
    BY <1>2, Tails
  <1>3. CASE todo = <<"release">>
    BY <1>3, Tails
  <1>4. CASE todo = <<"result">>
    BY <1>4, Tails
  <1> QED BY <1>1, <1>2, <1>3, <1>4

LEMMA ReplaceIs ==
  ASSUME TypeOK, NEW o \in Operators, Replace(o)
  PROVE  LET p == process[o]  name == Head(p.todo)
             q == [p EXCEPT !.held = None, !.todo = Tail(p.todo)] IN
         /\ p.todo # <<>> /\ p.held # None
         /\ process' = [process EXCEPT ![o] = q] /\ process'[o] = q
         /\ \A other \in Operators \ {o} : process'[other] = process[other]
         /\ disk' = [path \in Paths |-> disk'[path]]
         /\ name \in Paths /\ disk'[name] = p.held
         /\ \A path \in Paths \ {name} : disk'[path] = disk[path]
         /\ q.held = None /\ q.cmd = p.cmd /\ q.by = p.by /\ q.code = p.code
         /\ q.todo = Tail(p.todo) /\ q.verdict = p.verdict /\ q.winner = p.winner
         /\ p.cmd \in {"develop", "qualify"} /\ p.by = o /\ p.code \in Nat
         /\ p.cmd = "develop" => name \in DevelopmentOutputs /\ name # "november"
         /\ p.cmd = "qualify" => name \in QualificationOutputs /\ p.winner \in WinnerLocks
         /\ UNCHANGED <<experiment, checkout, openings, contested>>
         /\ TypeOK'
  <1> DEFINE p == process[o]
             name == Head(p.todo)
             q == [p EXCEPT !.held = None, !.todo = Tail(p.todo)]
  <1>1. /\ p.held # None /\ UNCHANGED <<experiment, checkout, openings, contested>>
        /\ process' = [process EXCEPT ![o] = q] /\ disk' = [disk EXCEPT ![name] = p.held]
    BY DEF Replace, TypeOK
  <1>2. Shape(o, p)
    BY DEF TypeOK
  <1> HIDE DEF p, name
  <1>3. DOMAIN q = Fields /\ q.held = None /\ q.cmd = p.cmd /\ q.by = p.by /\ q.code = p.code
        /\ q.todo = Tail(p.todo) /\ q.verdict = p.verdict /\ q.winner = p.winner
    BY <1>2 DEF Shape, Fields
  <1> HIDE DEF q
  <1>4. p.todo # <<>> /\ IsFile(name) /\ p.cmd \in {"develop", "qualify"} /\ p.by = o /\ p.code \in Nat
    BY <1>1, <1>2 DEF Shape, Idle, Command, name
  <1>5. ASSUME p.cmd = "develop" PROVE name \in DevelopmentOutputs /\ name # "november" /\ Shape(o, q)
    <2>1. PICK missing \in SUBSET DevelopmentOutputs : DevelopStep(experiment, p.verdict, p.todo, missing)
      BY <1>2, <1>5 DEF Shape, Idle, Command
    <2>2. name # "november"
      BY <1>4 DEF IsFile, name
    <2>3. name \in DevelopmentOutputs /\ DevelopStep(experiment, p.verdict, Tail(p.todo), missing \ {name})
      BY <1>4, <2>1, <2>2, DevelopNext DEF name
    <2>4. missing \ {name} \in SUBSET DevelopmentOutputs
      OBVIOUS
    <2> QED BY <1>3, <1>4, <1>5, <2>2, <2>3, <2>4 DEF Shape
  <1>6. ASSUME p.cmd = "qualify"
        PROVE  name \in QualificationOutputs /\ p.winner \in WinnerLocks /\ Shape(o, q)
    <2>1. PICK missing \in SUBSET QualificationOutputs : QualifyStep(experiment, p.verdict, p.todo, missing)
      BY <1>2, <1>6 DEF Shape, Idle, Command
    <2>2. name \notin {"december", "load"}
      BY <1>4 DEF IsFile, name
    <2>3. name \in QualificationOutputs /\ QualifyStep(experiment, p.verdict, Tail(p.todo), missing \ {name})
      BY <1>4, <2>1, <2>2, QualifyNext DEF name
    <2>4. missing \ {name} \in SUBSET QualificationOutputs /\ p.winner \in WinnerLocks
      BY <1>2, <1>6 DEF Shape, Idle, Command
    <2> QED BY <1>3, <1>4, <1>6, <2>3, <2>4 DEF Shape
  <1>7. name \in Paths
    BY <1>4, <1>5, <1>6 DEF Paths, DevelopmentOutputs, QualificationOutputs
  <1>8. /\ disk' = [path \in Paths |-> disk'[path]] /\ disk'[name] = p.held
        /\ \A path \in Paths \ {name} : disk'[path] = disk[path]
    BY <1>1, <1>7 DEF TypeOK
  <1>9. /\ disk'["model"] \in Claims \union {None} /\ disk'["state"] \in Claims \union {None}
        /\ disk'["lock"] \in WinnerLocks \union {None}
    <2>1. name \in {"model", "state"} => p.held \in Claims
      BY <1>1, <1>2 DEF Shape, name
    <2>2. name = "lock" => p.held \in WinnerLocks
      BY <1>1, <1>2 DEF Shape, name
    <2>3. {"model", "state", "lock"} \subseteq Paths
      BY DEF Paths, DevelopmentOutputs
    <2> QED BY <1>8, <2>1, <2>2, <2>3 DEF TypeOK
  <1>10. TypeOK'
    BY <1>1, <1>4, <1>5, <1>6, <1>8, <1>9, TypeStep
  <1>11. process'[o] = q /\ \A other \in Operators \ {o} : process'[other] = process[other]
    BY <1>1 DEF TypeOK
  <1> QED BY <1>1, <1>3, <1>4, <1>5, <1>6, <1>7, <1>8, <1>10, <1>11 DEF p, name, q

LEMMA ReplaceIInv ==
  ASSUME IInv, NEW o \in Operators, Replace(o)
  PROVE  IInv'
  <1>1. TypeOK /\ Single
    BY DEF IInv
  <1> DEFINE p == process[o]
             name == Head(p.todo)
             q == [p EXCEPT !.held = None, !.todo = Tail(p.todo)]
  <1>2. p = process[o]
    OBVIOUS
  <1>3. name = Head(p.todo)
    OBVIOUS
  <1>5. /\ p.todo # <<>> /\ p.held # None
        /\ process' = [process EXCEPT ![o] = q] /\ process'[o] = q
        /\ \A other \in Operators \ {o} : process'[other] = process[other]
        /\ name \in Paths /\ disk'[name] = p.held
        /\ \A path \in Paths \ {name} : disk'[path] = disk[path]
        /\ q.held = None /\ q.cmd = p.cmd /\ q.by = p.by /\ q.code = p.code
        /\ q.todo = Tail(p.todo) /\ q.verdict = p.verdict /\ q.winner = p.winner
        /\ p.cmd \in {"develop", "qualify"} /\ p.by = o /\ p.code \in Nat
        /\ p.cmd = "develop" => name \in DevelopmentOutputs /\ name # "november"
        /\ p.cmd = "qualify" => name \in QualificationOutputs /\ p.winner \in WinnerLocks
        /\ UNCHANGED <<experiment, checkout, openings, contested>>
        /\ TypeOK'
    BY <1>1, ReplaceIs
  <1> HIDE DEF p, name, q
  <1>6. Single'
    BY <1>1, <1>2, <1>5, SingleStep
  <1>7. \A path : Expected(experiment, q, path) = Expected(experiment, p, path)
    BY <1>5 DEF Expected
  <1>8. DevelopmentOutputs \subseteq Paths /\ QualificationOutputs \subseteq Paths
        /\ DevelopmentOutputs \intersect QualificationOutputs = {}
    BY DEF Paths, DevelopmentOutputs, QualificationOutputs
  <1>9. ASSUME Alone("develop")' PROVE Development'
    <2>1. Development
      BY <1>5, <1>9 DEF IInv, Alone
    <2>2. CASE p.cmd = "qualify"
      <3>1. \A path \in DevelopmentOutputs : disk'[path] = disk[path]
        BY <1>5, <1>8, <2>2
      <3> QED BY <1>2, <1>5, <2>1, <2>2, <3>1, DevelopmentFrame
    <2>3. CASE p.cmd = "develop"
      <3>1. Developing(o) /\ DevelopStep(experiment, p.verdict, p.todo, Missing(DevelopmentOutputs))
            /\ p.held = Expected(experiment, p, name)
        BY <1>2, <1>3, <1>5, <2>1, <2>3 DEF Development, Developing
      <3>2. name \in Missing(DevelopmentOutputs)
            /\ DevelopStep(experiment, q.verdict, q.todo, Missing(DevelopmentOutputs) \ {name})
        BY <1>3, <1>5, <2>3, <3>1, DevelopNext
      <3>3. Missing(DevelopmentOutputs)' = Missing(DevelopmentOutputs) \ {name}
        BY <1>5, <1>8, <2>3 DEF Missing
      <3>4. \A path \in DevelopmentOutputs : disk'[path] \in {None, Expected(experiment, q, path)}
        BY <1>2, <1>5, <1>7, <1>8, <2>3, <3>1 DEF Developing
      <3>5. "marker" \notin Missing(DevelopmentOutputs)'
        BY <1>3, <1>5, <3>1, <3>3, DevelopOrder
      <3>6. disk'["marker"] # None /\ disk'["marker"].status = "started"
        <4>1. disk'["marker"] = Expected(experiment, q, "marker") /\ disk'["marker"] # None
          BY <3>4, <3>5 DEF Missing, DevelopmentOutputs
        <4> QED BY <4>1 DEF Expected, Marker
      <3>7. CompletedIsWhole' /\ ~Frozen'
        BY <3>6 DEF CompletedIsWhole, Frozen
      <3>8. ~Frozen
        BY <1>1, <1>2, <2>3, <3>1, DevelopingIs
      <3>9. openings' = <<>>
        BY <1>5, <2>1, <3>8 DEF Development
      <3>10. ASSUME NEW other \in Operators PROVE Developing(other)' /\ HoldsTheLock(other)'
        <4>1. CASE other = o
          BY <1>5, <2>3, <3>2, <3>3, <3>4, <4>1 DEF Developing, HoldsTheLock
        <4>2. CASE other # o
          <5>1. process'[other] = process[other] /\ process[other].cmd \notin {"develop", "qualify"}
            BY <1>1, <1>2, <1>5, <1>9, <2>1, <2>3, <3>8, <4>2 DEF Single, Alone, Development, HoldsTheLock
          <5> QED BY <5>1 DEF Developing, HoldsTheLock
        <4> QED BY <4>1, <4>2
      <3> QED BY <3>6, <3>7, <3>9, <3>10 DEF Development
    <2> QED BY <1>5, <2>2, <2>3
  <1>10. ASSUME Alone("qualify")' PROVE Qualification'
    <2>1. Qualification
      BY <1>5, <1>10 DEF IInv, Alone
    <2>2. CASE p.cmd = "develop"
      <3>1. \A path \in QualificationOutputs : disk'[path] = disk[path]
        BY <1>5, <1>8, <2>2
      <3> QED BY <1>5, <2>1, <2>2, <3>1, QualificationFrame
    <2>3. CASE p.cmd = "qualify"
      <3>1. /\ QualifyStep(experiment, p.verdict, p.todo, Missing(QualificationOutputs))
            /\ p.held = Expected(experiment, p, name)
            /\ \A path \in QualificationOutputs : disk[path] \in {None, Expected(experiment, p, path)}
        BY <1>2, <1>3, <1>5, <2>1, <2>3 DEF Qualification, Qualifying
      <3>2. Head(p.todo) \notin {"december", "load"}
        BY <1>3, <1>5, <2>3 DEF QualificationOutputs
      <3>3. name \in Missing(QualificationOutputs)
            /\ QualifyStep(experiment, q.verdict, q.todo, Missing(QualificationOutputs) \ {name})
        <4>1. /\ Head(p.todo) \in Missing(QualificationOutputs)
              /\ QualifyStep(experiment, p.verdict, Tail(p.todo),
                             Missing(QualificationOutputs) \ {Head(p.todo)})
          BY <1>5, <3>1, <3>2, QualifyNext
        <4> QED BY <1>3, <1>5, <4>1
      <3>4. Missing(QualificationOutputs)' = Missing(QualificationOutputs) \ {name}
        BY <1>5, <1>8, <2>3 DEF Missing
      <3>5. \A path \in QualificationOutputs : disk'[path] \in {None, Expected(experiment, q, path)}
        BY <1>5, <1>7, <1>8, <2>3, <3>1
      <3>6. "qualification" \notin Missing(QualificationOutputs)'
        BY <1>3, <1>5, <3>1, <3>4, QualifyOrder
      <3>7. disk'["qualification"] # None /\ disk'["qualification"].status = "started"
        <4>1. disk'["qualification"] = Expected(experiment, q, "qualification") /\ disk'["qualification"] # None
          BY <3>5, <3>6 DEF Missing, QualificationOutputs
        <4> QED BY <4>1 DEF Expected, Marker
      <3>8. Earned'
        <4>1. ASSUME disk'["release"] # None
              PROVE  /\ experiment = "v1" /\ disk'["result"] = disk'["release"]
                     /\ disk'["result"] # None /\ disk'["result"].passed = TRUE
          <5>1. "release" \notin Missing(QualificationOutputs)'
            BY <4>1 DEF Missing
          <5>2. experiment = "v1" /\ q.verdict = TRUE /\ Missing(QualificationOutputs)' = {}
            BY <3>3, <3>4, <5>1, QualifyOrder
          <5>3. disk'["result"] = Expected(experiment, q, "result") /\ disk'["result"] # None
                /\ disk'["release"] = Expected(experiment, q, "release")
            BY <3>5, <5>2 DEF Missing, QualificationOutputs
          <5> QED BY <5>2, <5>3 DEF Expected
        <4> QED BY <1>5, <3>7, <4>1 DEF Earned
      <3>9. q.todo \in {<<"qualification", "december", "load">>, <<"december", "load">>} => openings' = <<>>
        <4>1. CASE name = "qualification"
          <5>1. p.todo = <<"qualification", "december", "load">>
            BY ZenonT(60), <1>3, <1>5, <3>1, <4>1, QualifyOrder
          <5> QED BY <1>2, <1>5, <2>1, <2>3, <5>1 DEF Qualification, Qualifying
        <4>2. CASE name # "qualification"
          BY <1>3, <1>5, <3>1, <3>2, <4>2, QualifyTail
        <4> QED BY <4>1, <4>2
      <3>10. ASSUME NEW other \in Operators PROVE Qualifying(other)'
        <4>1. CASE other = o
          BY <1>5, <2>3, <3>3, <3>4, <3>5, <3>9, <4>1 DEF Qualifying
        <4>2. CASE other # o
          <5>1. process'[other] = process[other] /\ process[other].cmd # "qualify"
            BY <1>1, <1>2, <1>5, <1>10, <2>3, <4>2 DEF Single, Alone
          <5> QED BY <5>1 DEF Qualifying
        <4> QED BY <4>1, <4>2
      <3> QED BY <3>7, <3>8, <3>10 DEF Qualification
    <2> QED BY <1>5, <2>2, <2>3
  <1> QED BY <1>5, <1>6, <1>9, <1>10 DEF IInv
-----------------------------------------------------------------------------
(* November, December and the measurement *)

LEMMA NovemberIInv ==
  ASSUME IInv, NEW o \in Operators, November(o)
  PROVE  IInv'
  <1>1. TypeOK /\ Single
    BY DEF IInv
  <1> DEFINE p == process[o]
  <1>2. Shape(o, p) /\ p = process[o]
    BY <1>1 DEF TypeOK
  <1>3. PICK verdict \in Verdicts :
          process' = [process EXCEPT ![o] = [p EXCEPT !.verdict = verdict, !.todo = Outcome(verdict)]]
    BY <1>1 DEF November, TypeOK
  <1> DEFINE q == [p EXCEPT !.verdict = verdict, !.todo = Outcome(verdict)]
  <1>4. /\ p.todo # <<>> /\ Head(p.todo) = "november"
        /\ UNCHANGED <<experiment, checkout, disk, openings, contested>>
    BY DEF November
  <1>5. process' = [process EXCEPT ![o] = q] /\ process'[o] = q
        /\ \A other \in Operators \ {o} : process'[other] = process[other]
    BY <1>1, <1>3 DEF TypeOK
  <1> HIDE DEF p
  <1>6. DOMAIN q = Fields /\ q.cmd = p.cmd /\ q.by = p.by /\ q.code = p.code /\ q.held = p.held
        /\ q.todo = Outcome(verdict) /\ q.verdict = verdict /\ q.winner = p.winner
    BY <1>2 DEF Shape, Fields
  <1> HIDE DEF q
  <1>7. p.held = None /\ p.cmd = "develop" /\ p.by = o /\ p.code \in Nat
    <2>1. p.held = None
      BY <1>2, <1>4 DEF Shape, IsFile
    <2>2. p.cmd # "qualify"
      <3> SUFFICES ASSUME p.cmd = "qualify" PROVE FALSE
        OBVIOUS
      <3>1. PICK missing \in SUBSET QualificationOutputs : QualifyStep(experiment, p.verdict, p.todo, missing)
        BY <1>2 DEF Shape, Idle, Command
      <3> QED BY <1>4, <3>1, QualifyOrder
    <2> QED BY <1>2, <1>4, <2>1, <2>2 DEF Shape, Idle, Command
  <1>8. TypeOK'
    <2>1. PICK missing \in SUBSET DevelopmentOutputs : DevelopStep(experiment, p.verdict, p.todo, missing)
      BY <1>2, <1>7 DEF Shape, Idle, Command
    <2>2. DevelopStep(experiment, q.verdict, q.todo, missing)
      BY <1>4, <1>6, <2>1, DevelopNovember
    <2>3. Shape(o, q)
      BY <1>6, <1>7, <2>2 DEF Shape
    <2> QED BY <1>1, <1>4, <1>5, <2>3, TypeStep DEF TypeOK
  <1>9. Single'
    BY <1>1, <1>2, <1>4, <1>5, <1>6, SingleStep
  <1>10. ASSUME Alone("develop")' PROVE Development'
    <2>1. Development
      BY <1>4, <1>10 DEF IInv, Alone
    <2>2. /\ DevelopStep(experiment, p.verdict, p.todo, Missing(DevelopmentOutputs))
          /\ \A path \in DevelopmentOutputs : disk[path] \in {None, Expected(experiment, p, path)}
      BY <1>2, <1>7, <2>1 DEF Development, Developing
    <2>3. DevelopStep(experiment, q.verdict, q.todo, Missing(DevelopmentOutputs))
          /\ "decision" \in Missing(DevelopmentOutputs)
      BY <1>4, <1>6, <2>2, DevelopNovember
    <2>4. \A path \in DevelopmentOutputs \ {"decision"} :
            Expected(experiment, q, path) = Expected(experiment, p, path)
      BY <1>6 DEF Expected, DevelopmentOutputs
    <2>5. \A path \in DevelopmentOutputs : disk[path] \in {None, Expected(experiment, q, path)}
      BY <2>2, <2>3, <2>4 DEF Missing
    <2>6. Missing(DevelopmentOutputs)' = Missing(DevelopmentOutputs)
      BY <1>4 DEF Missing
    <2>7. Developing(o)' /\ HoldsTheLock(o)'
      BY <1>4, <1>5, <1>6, <1>7, <2>3, <2>5, <2>6 DEF Developing, HoldsTheLock
    <2> QED BY <1>4, <1>5, <2>1, <2>7, DevelopmentFrame
  <1>11. ASSUME Alone("qualify")' PROVE Qualification'
    <2>1. Qualification
      BY <1>4, <1>11 DEF IInv, Alone
    <2> QED BY <1>4, <1>5, <1>6, <1>7, <2>1, QualificationFrame
  <1> QED BY <1>8, <1>9, <1>10, <1>11 DEF IInv

\* A command that is at December or at the measurement is a qualification.
LEMMA MeasuringIs ==
  ASSUME TypeOK, NEW o \in Operators, process[o].todo # <<>>,
         Head(process[o].todo) \in {"december", "load"}
  PROVE  /\ process[o].cmd = "qualify" /\ process[o].by = o /\ process[o].code \in Nat
         /\ process[o].held = None /\ process[o].winner \in WinnerLocks
         /\ DOMAIN process[o] = Fields
         /\ \E missing \in SUBSET QualificationOutputs :
              QualifyStep(experiment, process[o].verdict, process[o].todo, missing)
  <1> DEFINE p == process[o]
  <1>1. Shape(o, p)
    BY DEF TypeOK
  <1>2. p.held = None
    BY <1>1 DEF Shape, IsFile
  <1>3. p.cmd # "develop"
    <2> SUFFICES ASSUME p.cmd = "develop" PROVE FALSE
      OBVIOUS
    <2>1. PICK missing \in SUBSET DevelopmentOutputs : DevelopStep(experiment, p.verdict, p.todo, missing)
      BY <1>1 DEF Shape, Idle, Command
    <2> QED BY <2>1, DevelopOrder
  <1> QED BY <1>1, <1>2, <1>3 DEF Shape, Idle, Command

LEMMA DecemberIInv ==
  ASSUME IInv, NEW o \in Operators, December(o)
  PROVE  IInv'
  <1>1. TypeOK /\ Single
    BY DEF IInv
  <1> DEFINE p == process[o]
             q == [p EXCEPT !.todo = Tail(p.todo)]
             opening == [winner |-> p.winner, code |-> p.code, by |-> o, loaded |-> None]
  <1>2. /\ p = process[o] /\ p.todo # <<>> /\ Head(p.todo) = "december"
        /\ process' = [process EXCEPT ![o] = q]
        /\ openings' = Append(openings, opening)
        /\ UNCHANGED <<experiment, checkout, disk, contested>>
    BY <1>1 DEF December, TypeOK
  <1>3. process'[o] = q /\ \A other \in Operators \ {o} : process'[other] = process[other]
    BY <1>1, <1>2 DEF TypeOK
  <1>4. /\ p.cmd = "qualify" /\ p.by = o /\ p.code \in Nat
        /\ p.held = None /\ p.winner \in WinnerLocks /\ DOMAIN p = Fields
        /\ \E missing \in SUBSET QualificationOutputs : QualifyStep(experiment, p.verdict, p.todo, missing)
    BY <1>1, <1>2, MeasuringIs
  <1>5. p.todo = <<"december", "load">>
    BY <1>2, <1>4, QualifyOrder
  <1> HIDE DEF p
  <1>6. DOMAIN q = Fields /\ q.cmd = p.cmd /\ q.by = p.by /\ q.code = p.code /\ q.held = p.held
        /\ q.todo = Tail(p.todo) /\ q.verdict = p.verdict /\ q.winner = p.winner
    BY <1>4 DEF Fields
  <1> HIDE DEF q
  <1>7. q.todo = <<"load">>
    BY <1>5, <1>6, Tails
  <1>8. TypeOK'
    <2>1. PICK missing \in SUBSET QualificationOutputs : QualifyStep(experiment, p.verdict, p.todo, missing)
      BY <1>4
    <2>2. QualifyStep(experiment, q.verdict, q.todo, missing)
      BY <1>2, <1>6, <2>1, QualifyDecember
    <2>3. Shape(o, q)
      BY <1>4, <1>6, <2>2 DEF Shape
    <2> QED BY <1>1, <1>2, <2>3, TypeStep DEF TypeOK
  <1>9. Single'
    BY <1>1, <1>2, <1>6, SingleStep
  <1>10. ASSUME Alone("develop")' PROVE Development'
    <2>1. Development
      BY <1>2, <1>10 DEF IInv, Alone
    <2>2. Frozen /\ p.winner = disk["lock"] /\ p.code = disk["lock"].code
      BY <1>2, <1>4, <2>1 DEF Development, HoldsTheLock
    <2>3. openings \in Openings
      <3>1. <<>> \in Openings
        BY DEF Openings
      <3> QED BY <2>1, <3>1 DEF Development
    <2>4. openings' \in Openings
      BY <1>2, <2>2, <2>3 DEF Openings
    <2> QED BY <1>2, <1>3, <1>4, <1>6, <2>1, <2>2, <2>4, DevelopmentFrame
  <1>11. ASSUME Alone("qualify")' PROVE Qualification'
    <2>1. Qualification
      BY <1>2, <1>11 DEF IInv, Alone
    <2>2. /\ QualifyStep(experiment, p.verdict, p.todo, Missing(QualificationOutputs))
          /\ \A path \in QualificationOutputs : disk[path] \in {None, Expected(experiment, p, path)}
      BY <1>2, <1>4, <2>1 DEF Qualification, Qualifying
    <2>3. QualifyStep(experiment, q.verdict, q.todo, Missing(QualificationOutputs))
          /\ disk["qualification"] # None
      <3>1. QualifyStep(experiment, p.verdict, Tail(p.todo), Missing(QualificationOutputs))
        BY <1>2, <2>2, QualifyDecember
      <3>2. "qualification" \notin Missing(QualificationOutputs)
        BY <1>2, <2>2, QualifyOrder
      <3> QED BY <1>6, <3>1, <3>2 DEF Missing, QualificationOutputs
    <2>4. \A path : Expected(experiment, q, path) = Expected(experiment, p, path)
      BY <1>6 DEF Expected
    <2>5. Missing(QualificationOutputs)' = Missing(QualificationOutputs)
      BY <1>2 DEF Missing
    <2>6. q.todo \notin {<<"qualification", "december", "load">>, <<"december", "load">>}
      BY <1>7
    <2>7. Qualifying(o)'
      BY <1>2, <1>3, <1>4, <1>6, <2>2, <2>3, <2>4, <2>5, <2>6 DEF Qualifying
    <2>8. \A other \in Operators \ {o} : process'[other].cmd # "qualify"
      BY <1>1, <1>2, <1>3, <1>4, <1>11 DEF Single, Alone
    <2> QED BY <1>2, <1>3, <2>1, <2>3, <2>7, <2>8, QualificationFrame
  <1> QED BY <1>8, <1>9, <1>10, <1>11 DEF IInv

LEMMA LoadIInv ==
  ASSUME IInv, NEW o \in Operators, Load(o)
  PROVE  IInv'
  <1>1. TypeOK /\ Single
    BY DEF IInv
  <1> DEFINE p == process[o]
  <1>2. PICK passed \in BOOLEAN :
          process' = [process EXCEPT ![o] = [p EXCEPT !.loaded = disk["model"], !.verdict = passed,
                                                      !.todo = Evidence(passed)]]
    BY <1>1 DEF Load, TypeOK
  <1> DEFINE q == [p EXCEPT !.loaded = disk["model"], !.verdict = passed, !.todo = Evidence(passed)]
  <1>3. /\ p = process[o] /\ p.todo # <<>> /\ Head(p.todo) = "load"
        /\ openings' = [i \in DOMAIN openings |->
                          IF openings[i].by = o /\ openings[i].loaded = None
                          THEN [openings[i] EXCEPT !.loaded = disk["model"]] ELSE openings[i]]
        /\ UNCHANGED <<experiment, checkout, disk, contested>>
    BY DEF Load
  <1>4. process' = [process EXCEPT ![o] = q] /\ process'[o] = q
        /\ \A other \in Operators \ {o} : process'[other] = process[other]
    BY <1>1, <1>2 DEF TypeOK
  <1>5. /\ p.cmd = "qualify" /\ p.by = o /\ p.code \in Nat
        /\ p.held = None /\ p.winner \in WinnerLocks /\ DOMAIN p = Fields
        /\ \E missing \in SUBSET QualificationOutputs : QualifyStep(experiment, p.verdict, p.todo, missing)
    BY <1>1, <1>3, MeasuringIs
  <1> HIDE DEF p
  <1>6. DOMAIN q = Fields /\ q.cmd = p.cmd /\ q.by = p.by /\ q.code = p.code /\ q.held = p.held
        /\ q.todo = Evidence(passed) /\ q.verdict = passed /\ q.winner = p.winner
    BY <1>5 DEF Fields
  <1> HIDE DEF q
  <1>7. TypeOK'
    <2>1. PICK missing \in SUBSET QualificationOutputs : QualifyStep(experiment, p.verdict, p.todo, missing)
      BY <1>5
    <2>2. QualifyStep(experiment, q.verdict, q.todo, missing)
      BY <1>3, <1>6, <2>1, QualifyLoad
    <2>3. Shape(o, q)
      BY <1>5, <1>6, <2>2 DEF Shape
    <2> QED BY <1>1, <1>3, <1>4, <2>3, TypeStep DEF TypeOK
  <1>8. Single'
    BY <1>1, <1>3, <1>4, <1>6, SingleStep
  <1>9. ASSUME Alone("develop")' PROVE Development'
    <2>1. Development
      BY <1>3, <1>9 DEF IInv, Alone
    <2>2. Frozen /\ p.winner = disk["lock"] /\ p.code = disk["lock"].code
      BY <1>3, <1>5, <2>1 DEF Development, HoldsTheLock
    <2>3. disk["model"] = disk["lock"].model
      BY <1>3, <1>9, <2>1, <2>2 DEF Development, CompletedIsWhole, Frozen, Alone
    <2>4. openings \in Openings
      <3>1. <<>> \in Openings
        BY DEF Openings
      <3> QED BY <2>1, <3>1 DEF Development
    <2>5. openings' \in Openings
      <3> DEFINE S == [winner : {disk["lock"]}, code : {disk["lock"].code}, by : Operators,
                       loaded : {None, disk["lock"].model}]
      <3>1. openings \in Seq(S)
        BY <2>4 DEF Openings
      <3>2. \A opening \in S : [opening EXCEPT !.loaded = disk["model"]] \in S
        BY <2>3
      <3>3. Openings = Seq(S)
        BY DEF Openings
      <3> HIDE DEF S
      <3>4. DOMAIN openings = 1..Len(openings) /\ Len(openings) \in Nat
            /\ \A i \in DOMAIN openings : openings[i] \in S
        BY <3>1
      <3>5. \A i \in 1..Len(openings) : openings'[i] \in S
        BY <1>3, <3>2, <3>4
      <3>6. openings' = [i \in 1..Len(openings) |-> openings'[i]]
        BY <1>3, <3>4
      <3>7. openings' \in Seq(S)
        BY <3>4, <3>5, <3>6
      <3> QED BY <3>3, <3>7
    <2> QED BY <1>3, <1>4, <1>5, <1>6, <2>1, <2>2, <2>5, DevelopmentFrame
  <1>10. ASSUME Alone("qualify")' PROVE Qualification'
    <2>1. Qualification
      BY <1>3, <1>10 DEF IInv, Alone
    <2>2. /\ QualifyStep(experiment, p.verdict, p.todo, Missing(QualificationOutputs))
          /\ \A path \in QualificationOutputs : disk[path] \in {None, Expected(experiment, p, path)}
      BY <1>3, <1>5, <2>1 DEF Qualification, Qualifying
    <2>3. /\ QualifyStep(experiment, q.verdict, q.todo, Missing(QualificationOutputs))
          /\ Missing(QualificationOutputs) = {"result", "release"} /\ disk["qualification"] # None
      <3>1. /\ QualifyStep(experiment, passed, Evidence(passed), Missing(QualificationOutputs))
            /\ Missing(QualificationOutputs) = {"result", "release"}
        BY <1>3, <2>2, QualifyLoad
      <3> QED BY <1>6, <3>1 DEF Missing, QualificationOutputs
    <2>4. \A path \in QualificationOutputs : disk[path] \in {None, Expected(experiment, q, path)}
      <3>1. Expected(experiment, q, "qualification") = Expected(experiment, p, "qualification")
        BY <1>6 DEF Expected
      <3> QED BY <2>2, <2>3, <3>1 DEF Missing, QualificationOutputs
    <2>5. Missing(QualificationOutputs)' = Missing(QualificationOutputs)
      BY <1>3 DEF Missing
    <2>6. q.todo \notin {<<"qualification", "december", "load">>, <<"december", "load">>}
      BY <1>6, Tails DEF Evidence
    <2>7. Qualifying(o)'
      BY <1>3, <1>4, <1>5, <1>6, <2>3, <2>4, <2>5, <2>6 DEF Qualifying
    <2>8. \A other \in Operators \ {o} : process'[other].cmd # "qualify"
      BY <1>1, <1>3, <1>4, <1>5, <1>10 DEF Single, Alone
    <2> QED BY <1>3, <1>4, <2>1, <2>3, <2>7, <2>8, QualificationFrame
  <1> QED BY <1>7, <1>8, <1>9, <1>10 DEF IInv
-----------------------------------------------------------------------------
(* The end of a command *)

\* A command ends and leaves its marker as it is or with another content.
LEMMA EndIs ==
  ASSUME TypeOK, Single, NEW o \in Operators, process' = [process EXCEPT ![o] = Idle],
         UNCHANGED <<experiment, checkout, openings, contested>>,
         NEW name \in {"marker", "qualification"}, NEW content,
         disk' = [disk EXCEPT ![name] = content]
  PROVE  /\ TypeOK' /\ Single'
         /\ process'[o] = Idle /\ \A other \in Operators \ {o} : process'[other] = process[other]
         /\ disk'[name] = content /\ \A path \in Paths \ {name} : disk'[path] = disk[path]
  <1>1. process'[o] = Idle /\ \A other \in Operators \ {o} : process'[other] = process[other]
    BY DEF TypeOK
  <1>2. DOMAIN Idle = Fields /\ Idle.held = None /\ Idle.cmd = "idle"
    BY DEF Idle, Command, Fields
  <1>3. name \in Paths /\ {"model", "state", "lock"} \subseteq Paths \ {name}
    BY DEF Paths, DevelopmentOutputs
  <1>4. /\ disk' = [path \in Paths |-> disk'[path]] /\ disk'[name] = content
        /\ \A path \in Paths \ {name} : disk'[path] = disk[path]
    BY <1>3 DEF TypeOK
  <1>5. TypeOK'
    <2>1. Shape(o, Idle)
      BY <1>2 DEF Shape
    <2>2. /\ disk'["model"] \in Claims \union {None} /\ disk'["state"] \in Claims \union {None}
          /\ disk'["lock"] \in WinnerLocks \union {None}
      BY <1>3, <1>4 DEF TypeOK
    <2> QED BY <1>4, <2>1, <2>2, TypeStep
  <1>6. Single'
    BY <1>2, SingleStep
  <1> QED BY <1>1, <1>4, <1>5, <1>6

\* An uncontested development ends with a marker that tells how.
LEMMA DevelopmentEnds ==
  ASSUME TypeOK, Single, Development, Alone("develop"), NEW o \in Operators,
         process[o].cmd = "develop", process'[o] = Idle,
         \A other \in Operators \ {o} : process'[other] = process[other],
         UNCHANGED openings,
         disk'["marker"] # None, CompletedIsWhole',
         disk'["marker"].status = "complete" => disk'["lock"] = None \/ disk'["lock"].by = o,
         Frozen' => disk'["lock"] # None
  PROVE  Development'
  <1>1. ~Frozen
    BY DevelopingIs DEF Development
  <1>2. ASSUME NEW other \in Operators PROVE process'[other].cmd \notin {"develop", "qualify"}
    <2>1. CASE other = o
      BY <2>1 DEF Idle, Command
    <2>2. CASE other # o
      BY <1>1, <2>2 DEF Single, Alone, Development, HoldsTheLock
    <2> QED BY <2>1, <2>2
  <1>3. \A other \in Operators : Developing(other)' /\ HoldsTheLock(other)'
    BY <1>2 DEF Developing, HoldsTheLock
  <1>4. openings' = <<>>
    BY <1>1 DEF Development
  <1>5. Frozen' => disk'["lock"].by \in Operators
    BY DEF Frozen
  <1> QED BY <1>3, <1>4, <1>5 DEF Development

LEMMA QualificationEnds ==
  ASSUME TypeOK, Single, Qualification, Alone("qualify"), NEW o \in Operators,
         process[o].cmd = "qualify", process'[o] = Idle,
         \A other \in Operators \ {o} : process'[other] = process[other],
         disk'["qualification"] # None, Earned'
  PROVE  Qualification'
  <1>1. ASSUME NEW other \in Operators PROVE process'[other].cmd # "qualify"
    <2>1. CASE other = o
      BY <2>1 DEF Idle, Command
    <2>2. CASE other # o
      BY <2>2 DEF Single, Alone
    <2> QED BY <2>1, <2>2
  <1> QED BY <1>1 DEF Qualifying, Qualification

\* What an uncontested qualification has of a release candidate at any time.
LEMMA ReleaseIs ==
  ASSUME TypeOK, Qualification, NEW o \in Operators, process[o].cmd = "qualify",
         UNCHANGED experiment, \A path \in {"result", "release"} : disk'[path] = disk[path],
         disk'["qualification"] # None, disk'["qualification"].status # "complete"
  PROVE  Earned'
  BY DEF Earned, Qualification

LEMMA FinishIInv ==
  ASSUME IInv, NEW o \in Operators, Finish(o)
  PROVE  IInv'
  <1>1. TypeOK /\ Single
    BY DEF IInv
  <1> DEFINE p == process[o]
             name == MarkerName(p)
             content == [disk[name] EXCEPT !.status = "complete", !.verdict = p.verdict]
  <1>2. /\ p = process[o] /\ p.todo = <<>>
        /\ process' = [process EXCEPT ![o] = Idle]
        /\ UNCHANGED <<experiment, checkout, openings, contested>>
    BY DEF Finish
  <1>3. name \in {"marker", "qualification"} /\ name \in Paths
    BY DEF MarkerName, Paths, DevelopmentOutputs
  <1>4. disk' = [disk EXCEPT ![name] = content]
    BY <1>1, <1>3 DEF Finish, TypeOK
  <1>5. Shape(o, p) /\ p # Idle
    BY <1>1 DEF TypeOK, Finish
  <1>6. /\ p.cmd \in {"develop", "qualify"} /\ p.by = o /\ p.code \in Nat
        /\ p.cmd = "qualify" => p.winner \in WinnerLocks
    BY <1>5 DEF Shape, Idle, Command
  <1>7. /\ p.cmd = "develop" => name = "marker"
        /\ p.cmd = "qualify" => name = "qualification"
    BY DEF MarkerName
  <1> HIDE DEF p, name
  <1>8. /\ TypeOK' /\ Single'
        /\ process'[o] = Idle /\ \A other \in Operators \ {o} : process'[other] = process[other]
        /\ disk'[name] = content /\ \A path \in Paths \ {name} : disk'[path] = disk[path]
    BY <1>1, <1>2, <1>3, <1>4, EndIs
  <1>9. Idle.cmd = "idle"
    BY DEF Idle, Command
  <1>10. ASSUME Alone("develop")' PROVE Development'
    <2>1. Development /\ Alone("develop")
      BY <1>2, <1>10 DEF IInv, Alone
    <2>2. CASE p.cmd = "qualify"
      <3>1. \A path \in DevelopmentOutputs : disk'[path] = disk[path]
        BY <1>7, <1>8, <2>2 DEF Paths, DevelopmentOutputs
      <3> QED BY <1>2, <1>8, <1>9, <2>1, <3>1, DevelopmentFrame
    <2>3. CASE p.cmd = "develop"
      <3>1. Developing(o) /\ DevelopStep(experiment, p.verdict, <<>>, Missing(DevelopmentOutputs))
        BY <1>2, <2>1, <2>3 DEF Development, Developing
      <3>2. \A path \in DevelopmentOutputs \ Missing(DevelopmentOutputs) :
              disk[path] = Expected(experiment, p, path)
        BY <1>1, <1>2, <2>3, <3>1, DevelopingIs
      <3>3. /\ p.verdict \in Verdicts
            /\ "decision" \notin Missing(DevelopmentOutputs) /\ "marker" \notin Missing(DevelopmentOutputs)
            /\ p.verdict = "governed_stop" =>
                 "model" \in Missing(DevelopmentOutputs) /\ "lock" \in Missing(DevelopmentOutputs)
            /\ p.verdict = "winner" =>
                 "model" \notin Missing(DevelopmentOutputs) /\ "lock" \notin Missing(DevelopmentOutputs)
            /\ "state" \in Missing(DevelopmentOutputs) <=> experiment = "v1"
        BY <3>1, DevelopEnd
      <3>4. disk["marker"] = Marker(o, p.code, "started", None)
        BY <1>6, <3>2, <3>3 DEF Expected, DevelopmentOutputs
      <3>5. /\ content.by = o /\ content.code = p.code
            /\ content.status = "complete" /\ content.verdict = p.verdict
            /\ content \in Developments
        <4>1. disk[name] = Marker(o, p.code, "started", None)
          BY <1>7, <2>3, <3>4
        <4>2. PICK old : old = disk[name]
          OBVIOUS
        <4>3. /\ old.by = o /\ old.code = p.code /\ old \in Developments
              /\ DOMAIN old = {"by", "code", "status", "verdict"}
          BY <1>6, <4>1, <4>2 DEF Marker, Developments, Statuses
        <4>4. content = [old EXCEPT !.status = "complete", !.verdict = p.verdict]
          BY <4>2
        <4> HIDE DEF content
        <4> QED BY <3>3, <4>3, <4>4 DEF Developments, Statuses
      <3>6. disk'["marker"] # None
        BY <1>7, <1>8, <2>3, <3>5, ExperimentAssumption
      <3>7. disk["decision"] = [by |-> o, verdict |-> p.verdict]
        BY <1>6, <3>2, <3>3 DEF Expected, DevelopmentOutputs
      <3>8. p.verdict = "governed_stop" => disk["lock"] = None /\ disk["model"] = None
        BY <3>3 DEF Missing
      <3>9. disk["state"] = IF experiment = "v2" THEN [by |-> o] ELSE None
        <4>1. CASE experiment = "v1"
          BY <3>3, <4>1 DEF Missing
        <4>2. CASE experiment = "v2"
          BY <1>6, <3>2, <3>3, <4>2 DEF Expected, DevelopmentOutputs
        <4> QED BY <1>1, <4>1, <4>2 DEF TypeOK, Experiments
      <3>10. ASSUME p.verdict = "winner"
             PROVE  /\ disk["lock"] # None /\ disk["lock"].by = o /\ disk["lock"].code = p.code
                    /\ disk["lock"].model = disk["model"] /\ disk["model"] = [by |-> o]
                    /\ disk["lock"].state = disk["state"]
        <4>1. disk["model"] = [by |-> o] /\ disk["lock"] # None
          BY <1>6, <3>2, <3>3, <3>10 DEF Expected, DevelopmentOutputs, Missing
        <4>2. disk["lock"] = [by |-> o, code |-> p.code, model |-> [by |-> o],
                              state |-> IF experiment = "v2" THEN [by |-> o] ELSE None]
          BY <1>6, <3>2, <3>3, <3>10 DEF Expected, DevelopmentOutputs
        <4> QED BY <3>9, <4>1, <4>2
      <3>11. \A path \in {"decision", "lock", "model", "state"} : disk'[path] = disk[path]
        BY <1>7, <1>8, <2>3 DEF Paths, DevelopmentOutputs
      <3>12. /\ disk'["marker"].by = o /\ disk'["marker"].code = p.code
             /\ disk'["marker"].status = "complete" /\ disk'["marker"].verdict = p.verdict
        BY <1>7, <1>8, <2>3, <3>5
      <3>13. CompletedIsWhole'
        BY <3>7, <3>8, <3>10, <3>11, <3>12 DEF CompletedIsWhole
      <3>14. /\ disk'["marker"].status = "complete" => disk'["lock"] = None \/ disk'["lock"].by = o
             /\ Frozen' => disk'["lock"] # None
        BY <3>3, <3>8, <3>10, <3>11, <3>12 DEF Frozen, Verdicts
      <3> QED BY <1>1, <1>2, <1>8, <2>1, <2>3, <3>6, <3>13, <3>14, DevelopmentEnds
    <2> QED BY <1>6, <2>2, <2>3
  <1>11. ASSUME Alone("qualify")' PROVE Qualification'
    <2>1. Qualification /\ Alone("qualify")
      BY <1>2, <1>11 DEF IInv, Alone
    <2>2. CASE p.cmd = "develop"
      <3>1. \A path \in QualificationOutputs : disk'[path] = disk[path]
        BY <1>7, <1>8, <2>2 DEF Paths, QualificationOutputs
      <3> QED BY <1>2, <1>8, <1>9, <2>1, <3>1, QualificationFrame
    <2>3. CASE p.cmd = "qualify"
      <3>1. Qualifying(o) /\ QualifyStep(experiment, p.verdict, <<>>, Missing(QualificationOutputs))
        BY <1>2, <2>1, <2>3 DEF Qualification, Qualifying
      <3>2. \A path \in QualificationOutputs \ Missing(QualificationOutputs) :
              disk[path] = Expected(experiment, p, path)
        BY <1>1, <1>2, <2>3, <3>1, QualifyingIs
      <3>3. /\ p.verdict \in BOOLEAN /\ "qualification" \notin Missing(QualificationOutputs)
            /\ "result" \notin Missing(QualificationOutputs)
            /\ experiment = "v1" => ("release" \notin Missing(QualificationOutputs) <=> p.verdict = TRUE)
        BY <3>1, QualifyEnd
      <3>4. disk["qualification"] = Marker(o, p.code, "started", None)
        BY <1>6, <3>2, <3>3 DEF Expected, QualificationOutputs
      <3>5. /\ content.status = "complete" /\ content.verdict = p.verdict
            /\ content \in Qualifications
        <4>1. disk[name] = Marker(o, p.code, "started", None)
          BY <1>7, <2>3, <3>4
        <4>2. PICK old : old = disk[name]
          OBVIOUS
        <4>3. old \in Qualifications /\ DOMAIN old = {"by", "code", "status", "verdict"}
          BY <1>6, <4>1, <4>2 DEF Marker, Qualifications, Statuses
        <4>4. content = [old EXCEPT !.status = "complete", !.verdict = p.verdict]
          BY <4>2
        <4> HIDE DEF content
        <4> QED BY <3>3, <4>3, <4>4 DEF Qualifications, Statuses
      <3>6. /\ disk'["qualification"] # None
            /\ disk'["qualification"].status = "complete" /\ disk'["qualification"].verdict = p.verdict
        BY <1>7, <1>8, <2>3, <3>5, ExperimentAssumption
      <3>7. disk["result"] = [winner |-> p.winner, passed |-> p.verdict] /\ disk["result"] # None
        BY <3>2, <3>3 DEF Expected, QualificationOutputs, Missing
      <3>8. disk'["result"] = disk["result"] /\ disk'["release"] = disk["release"]
        BY <1>7, <1>8, <2>3 DEF Paths, QualificationOutputs
      <3>9. experiment = "v1" => (disk["release"] # None <=> p.verdict = TRUE)
        BY <3>3 DEF Missing, QualificationOutputs
      <3>10. Earned'
        BY <1>2, <2>1, <3>3, <3>6, <3>7, <3>8, <3>9 DEF Earned, Qualification
      <3> QED BY <1>1, <1>2, <1>8, <2>1, <2>3, <3>6, <3>10, QualificationEnds
    <2> QED BY <1>6, <2>2, <2>3
  <1> QED BY <1>8, <1>10, <1>11 DEF IInv

LEMMA CrashIInv ==
  ASSUME IInv, NEW o \in Operators, process' = [process EXCEPT ![o] = Idle],
         UNCHANGED <<experiment, checkout, disk, openings, contested>>
  PROVE  IInv'
  <1>1. TypeOK /\ Single
    BY DEF IInv
  <1>2. disk' = [disk EXCEPT !["marker"] = disk["marker"]]
    BY <1>1 DEF TypeOK
  <1>3. /\ TypeOK' /\ Single'
        /\ process'[o] = Idle /\ \A other \in Operators \ {o} : process'[other] = process[other]
    BY <1>1, <1>2, EndIs
  <1>4. Idle.cmd = "idle"
    BY DEF Idle, Command
  <1>5. ASSUME Alone("develop")' PROVE Development'
    <2>1. Development
      BY <1>5 DEF IInv, Alone
    <2> QED BY <1>3, <1>4, <2>1, DevelopmentFrame
  <1>6. ASSUME Alone("qualify")' PROVE Qualification'
    <2>1. Qualification
      BY <1>6 DEF IInv, Alone
    <2> QED BY <1>3, <1>4, <2>1, QualificationFrame
  <1> QED BY <1>3, <1>5, <1>6 DEF IInv

LEMMA FailIInv ==
  ASSUME IInv, NEW o \in Operators, Fail(o)
  PROVE  IInv'
  <1>1. TypeOK /\ Single
    BY DEF IInv
  <1> DEFINE p == process[o]
             name == MarkerName(p)
             content == FailedMarker(disk[name])
  <1>2. /\ p = process[o]
        /\ process' = [process EXCEPT ![o] = Idle]
        /\ UNCHANGED <<experiment, checkout, openings, contested>>
    BY DEF Fail
  <1>3. CASE ~HasMarker(p)
    <2>1. UNCHANGED disk
      BY <1>3 DEF Fail
    <2> QED BY <1>2, <2>1, CrashIInv
  <1>4. CASE HasMarker(p)
    <2>1. name \in {"marker", "qualification"} /\ name \in Paths
      BY DEF MarkerName, Paths, DevelopmentOutputs
    <2>2. disk' = [disk EXCEPT ![name] = content]
      BY <1>1, <1>4, <2>1 DEF Fail, TypeOK
    <2>3. Shape(o, p) /\ p # Idle
      BY <1>1 DEF TypeOK, Fail
    <2>4. p.cmd \in {"develop", "qualify"} /\ p.by = o /\ p.code \in Nat
      BY <2>3 DEF Shape, Idle, Command
    <2>5. /\ p.cmd = "develop" => name = "marker"
          /\ p.cmd = "qualify" => name = "qualification"
      BY DEF MarkerName
    <2>6. p.todo = <<>> \/ Head(p.todo) # name
      BY <1>4 DEF HasMarker
    <2> HIDE DEF p, name
    <2>7. /\ TypeOK' /\ Single'
          /\ process'[o] = Idle /\ \A other \in Operators \ {o} : process'[other] = process[other]
          /\ disk'[name] = content /\ \A path \in Paths \ {name} : disk'[path] = disk[path]
      BY <1>1, <1>2, <2>1, <2>2, EndIs
    <2>8. Idle.cmd = "idle"
      BY DEF Idle, Command
    <2>9. ASSUME Alone("develop")' PROVE Development'
      <3>1. Development /\ Alone("develop")
        BY <1>2, <2>9 DEF IInv, Alone
      <3>2. CASE p.cmd = "qualify"
        <4>1. \A path \in DevelopmentOutputs : disk'[path] = disk[path]
          BY <2>5, <2>7, <3>2 DEF Paths, DevelopmentOutputs
        <4> QED BY <1>2, <2>7, <2>8, <3>1, <4>1, DevelopmentFrame
      <3>3. CASE p.cmd = "develop"
        <4>1. Developing(o) /\ DevelopStep(experiment, p.verdict, p.todo, Missing(DevelopmentOutputs))
          BY <1>2, <3>1, <3>3 DEF Development, Developing
        <4>2. "marker" \notin Missing(DevelopmentOutputs)
          BY <2>5, <2>6, <3>3, <4>1, DevelopOrder
        <4>3. disk["marker"] = Marker(o, p.code, "started", None)
          BY <1>1, <1>2, <3>3, <4>1, <4>2, DevelopingIs DEF Missing, DevelopmentOutputs
        <4>4. disk'["marker"] = Marker(o, p.code, "failed", None)
          BY <2>5, <2>7, <3>3, <4>3 DEF FailedMarker, Marker
        <4>5. disk'["marker"] # None
          <5>1. Marker(o, p.code, "failed", None) \in Developments
            BY <2>4 DEF Marker, Developments, Statuses
          <5> QED BY <4>4, <5>1, ExperimentAssumption
        <4>6. disk'["marker"].status # "complete"
          BY <4>4 DEF Marker
        <4>7. CompletedIsWhole' /\ ~Frozen'
          BY <4>6 DEF CompletedIsWhole, Frozen
        <4> QED BY <1>1, <1>2, <2>7, <3>1, <3>3, <4>5, <4>6, <4>7, DevelopmentEnds
      <3> QED BY <2>4, <3>2, <3>3
    <2>10. ASSUME Alone("qualify")' PROVE Qualification'
      <3>1. Qualification /\ Alone("qualify")
        BY <1>2, <2>10 DEF IInv, Alone
      <3>2. CASE p.cmd = "develop"
        <4>1. \A path \in QualificationOutputs : disk'[path] = disk[path]
          BY <2>5, <2>7, <3>2 DEF Paths, QualificationOutputs
        <4> QED BY <1>2, <2>7, <2>8, <3>1, <4>1, QualificationFrame
      <3>3. CASE p.cmd = "qualify"
        <4>1. Qualifying(o) /\ QualifyStep(experiment, p.verdict, p.todo, Missing(QualificationOutputs))
          BY <1>2, <3>1, <3>3 DEF Qualification, Qualifying
        <4>2. "qualification" \notin Missing(QualificationOutputs)
          BY <2>5, <2>6, <3>3, <4>1, QualifyOrder
        <4>3. disk["qualification"] = Marker(o, p.code, "started", None)
          BY <1>1, <1>2, <3>3, <4>1, <4>2, QualifyingIs DEF Missing, QualificationOutputs
        <4>4. disk'["qualification"] = Marker(o, p.code, "failed", None)
          BY <2>5, <2>7, <3>3, <4>3 DEF FailedMarker, Marker
        <4>5. disk'["qualification"] # None
          <5>1. Marker(o, p.code, "failed", None) \in Qualifications
            BY <2>4 DEF Marker, Qualifications, Statuses
          <5> QED BY <4>4, <5>1, ExperimentAssumption
        <4>6. disk'["qualification"].status # "complete"
          BY <4>4 DEF Marker
        <4>7. Earned'
          <5>1. \A path \in {"result", "release"} : disk'[path] = disk[path]
            BY <2>5, <2>7, <3>3 DEF Paths, QualificationOutputs
          <5> QED BY <1>1, <1>2, <3>1, <3>3, <4>5, <4>6, <5>1, ReleaseIs
        <4> QED BY <1>1, <1>2, <2>7, <3>1, <3>3, <4>5, <4>7, QualificationEnds
      <3> QED BY <2>4, <3>2, <3>3
    <2> QED BY <2>7, <2>9, <2>10 DEF IInv
  <1> QED BY <1>3, <1>4
-----------------------------------------------------------------------------
(* The invariant holds *)

\* A step of Git, or none.
LEMMA CheckOutIInv ==
  ASSUME IInv, UNCHANGED <<experiment, disk, process, openings, contested>>, checkout' \in Checkouts
  PROVE  IInv'
  <1>1. UNCHANGED <<experiment, disk, process, openings, contested>> /\ checkout' \in Checkouts
    OBVIOUS
  <1>2. TypeOK'
    <2>1. \A o \in Operators : Shape(o, process[o])'
      BY <1>1 DEF IInv, TypeOK, Shape
    <2> QED BY <1>1, <2>1 DEF IInv, TypeOK
  <1>3. Single'
    BY <1>1 DEF IInv, Single
  <1>4. ASSUME Alone("develop")' PROVE Development'
    <2>1. Development
      BY <1>1, <1>4 DEF IInv, Alone
    <2> QED BY <1>1, <2>1, DevelopmentFrame
  <1>5. ASSUME Alone("qualify")' PROVE Qualification'
    <2>1. Qualification
      BY <1>1, <1>5 DEF IInv, Alone
    <2> QED BY <1>1, <2>1, QualificationFrame
  <1> QED BY <1>2, <1>3, <1>4, <1>5 DEF IInv

LEMMA NextIInv == IInv /\ [Next]_vars => IInv'
  <1> SUFFICES ASSUME IInv, [Next]_vars PROVE IInv'
    OBVIOUS
  <1>1. CASE UNCHANGED vars
    BY <1>1, CheckOutIInv DEF vars, IInv, TypeOK
  <1>2. ASSUME NEW o \in Operators, Develop(o) PROVE IInv'
    BY <1>2, DevelopIInv
  <1>3. ASSUME NEW o \in Operators, Qualify(o) PROVE IInv'
    BY <1>3, QualifyIInv
  <1>4. ASSUME NEW o \in Operators, Check(o) PROVE IInv'
    BY <1>4, CheckIInv
  <1>5. ASSUME NEW o \in Operators, Replace(o) PROVE IInv'
    BY <1>5, ReplaceIInv
  <1>6. ASSUME NEW o \in Operators, November(o) PROVE IInv'
    BY <1>6, NovemberIInv
  <1>7. ASSUME NEW o \in Operators, December(o) PROVE IInv'
    BY <1>7, DecemberIInv
  <1>8. ASSUME NEW o \in Operators, Load(o) PROVE IInv'
    BY <1>8, LoadIInv
  <1>9. ASSUME NEW o \in Operators, Finish(o) PROVE IInv'
    BY <1>9, FinishIInv
  <1>10. ASSUME NEW o \in Operators, Fail(o) PROVE IInv'
    BY <1>10, FailIInv
  <1>11. ASSUME NEW o \in Operators, Crash(o) PROVE IInv'
    BY <1>11, CrashIInv DEF Crash
  <1>12. CASE CheckOut
    BY <1>12, CheckOutIInv DEF CheckOut
  <1> QED BY <1>1, <1>2, <1>3, <1>4, <1>5, <1>6, <1>7, <1>8, <1>9, <1>10, <1>11, <1>12 DEF Next

\* The inductive invariant is one: what is on disk and about to be written, for
\* each command that was never contested, at every step of v1 and of v2.
THEOREM Invariance == Spec => []IInv
  BY InitIInv, NextIInv, PTL DEF Spec

\* A development that completed alone left one run's files, whole: the decision
\* and, for a winner, the model and state that the lock has the digests of.
THEOREM Completion == Spec => []CompletedIsWhole
  <1>1. IInv => CompletedIsWhole
    BY DEF IInv, Development, CompletedIsWhole
  <1> QED BY <1>1, Invariance, PTL

\* Every measurement of December is of the lock that is on disk, by the code and
\* with the model it names, although the model file is opened again after it.
THEOREM Measurement == Spec => []MeasuresTheFrozen
  <1>1. IInv => MeasuresTheFrozen
    <2> SUFFICES ASSUME IInv, Alone("develop"), NEW i \in DOMAIN openings
                 PROVE  /\ openings[i].code = openings[i].winner.code
                        /\ openings[i].winner = disk["lock"]
                        /\ openings[i].loaded \in {None, openings[i].winner.model}
      BY DEF MeasuresTheFrozen
    <2> DEFINE S == [winner : {disk["lock"]}, code : {disk["lock"].code}, by : Operators,
                     loaded : {None, disk["lock"].model}]
    <2>1. openings # <<>>
      OBVIOUS
    <2>2. openings \in Seq(S)
      BY <2>1 DEF IInv, Development, Openings
    <2> HIDE DEF S
    <2>3. openings[i] \in S
      BY <2>2
    <2> QED BY <2>3 DEF S
  <1> QED BY <1>1, Invariance, PTL

\* A release candidate was earned: the December result is there and passed, and
\* a qualification that completed tells the result it left.
THEOREM Candidacy == Spec => []CandidateEarned
  <1>1. IInv => CandidateEarned
    BY DEF IInv, Qualification, Earned, CandidateEarned, Present
  <1> QED BY <1>1, Invariance, PTL

-----------------------------------------------------------------------------
(* The refinement *)

LEMMA WinnerIs == Winner = IF Frozen THEN disk["lock"].by ELSE None
  BY DEF Winner, Frozen

\* While no winner is frozen a step that opens nothing freezes one or does nothing.
LEMMA FreezeStep ==
  ASSUME Development', ~Frozen, UNCHANGED openings
  PROVE  Seal!Next \/ UNCHANGED Seal!vars
  <1>1. Winner = None
    BY WinnerIs
  <1>2. Winner' = IF Frozen' THEN disk'["lock"].by ELSE None
    BY DEF Winner, Frozen
  <1>3. CASE Frozen'
    <2>1. Winner' \in Operators
      BY <1>2, <1>3 DEF Development
    <2> QED BY <1>1, <2>1 DEF Seal!Next, Seal!Freeze
  <1>4. CASE ~Frozen'
    BY <1>1, <1>2, <1>4 DEF Seal!vars
  <1> QED BY <1>3, <1>4

LEMMA SealStutter ==
  ASSUME disk'["marker"] = disk["marker"], disk'["lock"] = disk["lock"], UNCHANGED openings
  PROVE  UNCHANGED Seal!vars
  BY DEF Seal!vars, Winner

LEMMA OpenStep ==
  ASSUME IInv, Alone("develop"), Alone("qualify"), NEW o \in Operators, December(o)
  PROVE  Seal!Next
  <1>1. TypeOK /\ Development /\ Qualification
    BY DEF IInv
  <1> DEFINE p == process[o]
             opening == [winner |-> p.winner, code |-> p.code, by |-> o, loaded |-> None]
  <1>2. /\ p.todo # <<>> /\ Head(p.todo) = "december"
        /\ openings' = Append(openings, opening) /\ UNCHANGED disk
    BY DEF December
  <1>3. p.cmd = "qualify"
    BY <1>1, <1>2, MeasuringIs
  <1>4. Frozen /\ p.winner = disk["lock"] /\ disk["lock"].by \in Operators
    BY <1>1, <1>3 DEF Development, HoldsTheLock
  <1>5. openings = <<>>
    <2>1. QualifyStep(experiment, p.verdict, p.todo, Missing(QualificationOutputs))
      BY <1>1, <1>3 DEF Qualification, Qualifying
    <2>2. p.todo = <<"december", "load">>
      BY <1>2, <2>1, QualifyOrder
    <2> QED BY <1>1, <1>3, <2>2 DEF Qualification, Qualifying
  <1>6. Winner = disk["lock"].by /\ Winner' = Winner /\ Winner # None
    BY <1>2, <1>4, WinnerIs, ExperimentAssumption DEF Winner
  <1>7. openings' = <<opening>>
    <2> HIDE DEF opening
    <2> QED BY <1>2, <1>5
  <1>8. opening.winner.by = Winner
    BY <1>4, <1>6
  <1>9. [i \in DOMAIN openings |-> openings[i].winner.by] = <<>>
    BY <1>5
  <1>10. [i \in DOMAIN openings' |-> openings'[i].winner.by] = <<Winner>>
    <2> HIDE DEF opening
    <2> QED BY <1>7, <1>8
  <1> QED BY <1>6, <1>9, <1>10 DEF Seal!Next, Seal!Open

LEMMA LoadStutter ==
  ASSUME IInv, Alone("develop"), NEW o \in Operators, Load(o)
  PROVE  UNCHANGED Seal!vars
  <1>1. /\ openings' = [i \in DOMAIN openings |->
                          IF openings[i].by = o /\ openings[i].loaded = None
                          THEN [openings[i] EXCEPT !.loaded = disk["model"]] ELSE openings[i]]
        /\ UNCHANGED disk
    BY DEF Load
  <1>2. \A i \in DOMAIN openings : openings'[i].winner.by = openings[i].winner.by
    <2> SUFFICES ASSUME NEW i \in DOMAIN openings PROVE openings'[i].winner = openings[i].winner
      OBVIOUS
    <2> DEFINE S == [winner : {disk["lock"]}, code : {disk["lock"].code}, by : Operators,
                     loaded : {None, disk["lock"].model}]
    <2>1. openings \in Seq(S)
      BY DEF IInv, Development, Openings
    <2>2. \A opening \in S : \A model : [opening EXCEPT !.loaded = model].winner = opening.winner
      OBVIOUS
    <2> HIDE DEF S
    <2>3. openings[i] \in S
      BY <2>1
    <2> QED BY <1>1, <2>2, <2>3
  <1>3. DOMAIN openings' = DOMAIN openings
    BY <1>1
  <1>4. [i \in DOMAIN openings' |-> openings'[i].winner.by] = [i \in DOMAIN openings |-> openings[i].winner.by]
    BY <1>2, <1>3
  <1> QED BY <1>1, <1>4 DEF Seal!vars, Winner

\* A step that opens nothing leaves a frozen winner as it is.
LEMMA FrozenStays ==
  ASSUME IInv, Alone("develop"), Frozen, NEW o \in Operators, Replace(o) \/ Finish(o) \/ Fail(o)
  PROVE  disk'["marker"] = disk["marker"] /\ disk'["lock"] = disk["lock"]
  <1>1. TypeOK /\ Development
    BY DEF IInv
  <1>2. process[o].cmd # "develop"
    BY <1>1, DevelopingIs DEF Development
  <1>3. CASE Replace(o)
    <2>1. Head(process[o].todo) \in QualificationOutputs
          /\ \A path \in Paths \ {Head(process[o].todo)} : disk'[path] = disk[path]
      BY <1>1, <1>2, <1>3, ReplaceIs
    <2> QED BY <2>1 DEF Paths, DevelopmentOutputs, QualificationOutputs
  <1>4. CASE Finish(o) \/ Fail(o)
    <2>1. MarkerName(process[o]) = "qualification"
      BY <1>2 DEF MarkerName
    <2>2. \A path \in Paths \ {"qualification"} : disk'[path] = disk[path]
      <3>1. CASE Finish(o)
        BY <1>1, <2>1, <3>1 DEF Finish, TypeOK
      <3>2. CASE Fail(o)
        BY <1>1, <2>1, <3>2 DEF Fail, TypeOK
      <3> QED BY <1>4, <3>1, <3>2
    <2> QED BY <2>2 DEF Paths, DevelopmentOutputs
  <1> QED BY <1>3, <1>4

LEMMA SealStep ==
  ASSUME IInv, [Next]_vars, contested' = {}
  PROVE  Seal!Next \/ UNCHANGED Seal!vars
  <1>1. IInv' /\ Development'
    BY NextIInv DEF IInv, Alone
  <1>2. contested \subseteq contested'
    BY DEF Next, vars, Develop, Qualify, Begin, Check, Replace, November, December, Load, Finish, Fail,
           Crash, CheckOut
  <1>3. Alone("develop") /\ Alone("qualify")
    BY <1>2 DEF Alone
  <1>4. CASE UNCHANGED vars
    BY <1>4, SealStutter DEF vars
  <1>5. ASSUME NEW o \in Operators, December(o) PROVE Seal!Next \/ UNCHANGED Seal!vars
    BY <1>3, <1>5, OpenStep
  <1>6. ASSUME NEW o \in Operators, Load(o) PROVE Seal!Next \/ UNCHANGED Seal!vars
    BY <1>3, <1>6, LoadStutter
  <1>7. ASSUME NEW o \in Operators, Replace(o) \/ Finish(o) \/ Fail(o)
        PROVE  Seal!Next \/ UNCHANGED Seal!vars
    <2>1. UNCHANGED openings
      BY <1>7 DEF Replace, Finish, Fail
    <2>2. CASE Frozen
      BY <1>3, <1>7, <2>1, <2>2, FrozenStays, SealStutter
    <2>3. CASE ~Frozen
      BY <1>1, <2>1, <2>3, FreezeStep
    <2> QED BY <2>2, <2>3
  <1>8. ASSUME NEW o \in Operators, Develop(o) \/ Qualify(o) \/ Check(o) \/ November(o) \/ Crash(o)
        PROVE  Seal!Next \/ UNCHANGED Seal!vars
    <2>1. UNCHANGED <<disk, openings>>
      BY <1>8 DEF Develop, Qualify, Begin, Check, November, Crash
    <2> QED BY <2>1, SealStutter
  <1>9. CASE CheckOut
    BY <1>9, SealStutter DEF CheckOut
  <1> QED BY <1>4, <1>5, <1>6, <1>7, <1>8, <1>9 DEF Next

\* v1 and v2 implement the sealed qualification as long as no two runs of one
\* command overlap: one winner is frozen, once, and December is opened once, for it.
THEOREM Sealed == Spec => ImplementsSeal
  <1>1. Init => Seal!Init
    <2> SUFFICES ASSUME Init PROVE Seal!Init
      OBVIOUS
    <2>1. disk["marker"] = None /\ openings = <<>>
      BY DEF Init, Paths, DevelopmentOutputs
    <2>2. [i \in DOMAIN openings |-> openings[i].winner.by] = <<>>
      BY <2>1
    <2> QED BY <2>1, <2>2 DEF Seal!Init, Winner
  <1>2. IInv /\ [Next]_vars => [contested' = {} => Seal!Next \/ UNCHANGED Seal!vars]_vars
    BY SealStep
  <1> QED BY <1>1, <1>2, Invariance, PTL DEF Spec, ImplementsSeal
=============================================================================
