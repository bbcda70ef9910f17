------------------------- MODULE V3LifecycleProofs -------------------------
(* Theorems of V3Lifecycle for one operator at a time in the worktree: any  *)
(* recoveries, sources, datasets, termination times and commits.            *)
EXTENDS V3Lifecycle, SequenceTheorems, TLAPS

\* Nobody else runs a command in the worktree.
OneOperator == \A o, other \in Operators : o = other

-----------------------------------------------------------------------------
(* The inductive invariant, told of a disk d and of what was opened, seen *)

Places == Recoveries \union {None}

Missing(d, place) == {name \in DevelopmentOutputs : d[<<name, place>>] = None}

\* Where a development or a recovery can be: its verdict, what is left to do, and
\* the outputs that are missing.
CampaignStep(cmd, verdict, todo, missing) ==
  \/ /\ verdict = None /\ cmd = "develop" /\ todo = <<"marker", "state", "screening", "november">>
     /\ missing = DevelopmentOutputs
  \/ /\ verdict = None /\ cmd = "recover" /\ todo = <<"marker", "state", "november">>
     /\ missing = DevelopmentOutputs
  \/ /\ verdict = None /\ cmd = "develop" /\ todo = <<"state", "screening", "november">>
     /\ missing = {"decision", "state", "lock", "model"}
  \/ /\ verdict = None /\ cmd = "recover" /\ todo = <<"state", "november">>
     /\ missing = {"decision", "state", "lock", "model"}
  \/ /\ verdict = None /\ cmd = "develop" /\ todo = <<"screening", "november">>
     /\ missing = {"decision", "lock", "model"}
  \/ /\ verdict = None /\ todo = <<"november">>
     /\ missing = {"decision", "lock", "model"}
  \/ /\ verdict = "winner" /\ cmd = "recover" /\ todo = <<"finalists", "decision", "model", "lock">>
     /\ missing = {"decision", "lock", "model"}
  \/ /\ verdict = "winner" /\ todo = <<"decision", "model", "lock">>
     /\ missing = {"decision", "lock", "model"}
  \/ /\ verdict = "winner" /\ todo = <<"model", "lock">>
     /\ missing = {"lock", "model"}
  \/ /\ verdict = "winner" /\ todo = <<"lock">>
     /\ missing = {"lock"}
  \/ /\ verdict = "winner" /\ todo = <<>>
     /\ missing = {}
  \/ /\ verdict = "governed_stop" /\ cmd = "recover" /\ todo = <<"finalists", "decision">>
     /\ missing = {"decision", "lock", "model"}
  \/ /\ verdict = "governed_stop" /\ todo = <<"decision">>
     /\ missing = {"decision", "lock", "model"}
  \/ /\ verdict = "governed_stop" /\ todo = <<>>
     /\ missing = {"lock", "model"}

\* What a development or a recovery writes under a name.
Expected(p, name) ==
  CASE name = "marker" -> Marker(p.run, p.code, "started", None)
    [] name = "decision" -> [run |-> p.run, verdict |-> p.verdict]
    [] name = "state" -> [data |-> p.data]
    [] name = "model" -> [run |-> p.run]
    [] name = "lock" -> [run |-> p.run, code |-> p.code, state |-> [data |-> p.data],
                         model |-> [run |-> p.run]]

\* A recovery has the authorization it runs on, and puts down the source's data only.
Permitted(d, p) ==
  LET place == p.run.recovery IN
  /\ p.cmd = "develop" => place = None /\ d[Canonical("adoption")] = None
  /\ p.cmd = "recover" =>
       /\ place \in Recoveries /\ p.code >= CorrectiveCommit
       /\ d[<<"authorization", place>>] # None
       /\ "state" \notin Missing(d, place) => p.data = SourceData
       /\ p.held # None /\ Head(p.todo) = "state" => p.data = SourceData

Campaigning(d, p) ==
  LET place == p.run.recovery IN
  p.cmd \in {"develop", "recover"} =>
    /\ p.run \in Run /\ p.code \in Commits
    /\ CampaignStep(p.cmd, p.verdict, p.todo, Missing(d, place))
    /\ \A name \in DevelopmentOutputs : d[<<name, place>>] \in {None, Expected(p, name)}
    /\ p.held # None /\ Head(p.todo) # "finalists" => p.held = Expected(p, Head(p.todo))
    /\ Permitted(d, p)

\* What an adoption has left to do and has copied.
AdoptStep(verdict, todo, copied) ==
  \/ /\ verdict = "winner" /\ todo = <<"decision", "state", "lock", "model", "adoption">>
     /\ copied = {}
  \/ /\ verdict = "winner" /\ todo = <<"state", "lock", "model", "adoption">>
     /\ copied = {"decision"}
  \/ /\ verdict = "winner" /\ todo = <<"lock", "model", "adoption">>
     /\ copied = {"decision", "state"}
  \/ /\ verdict = "winner" /\ todo = <<"model", "adoption">>
     /\ copied = {"decision", "state", "lock"}
  \/ /\ verdict = "winner" /\ todo = <<"adoption">>
     /\ copied = {"decision", "state", "lock", "model"}
  \/ /\ verdict = "governed_stop" /\ todo = <<"decision", "adoption">>
     /\ copied = {}
  \/ /\ verdict = "governed_stop" /\ todo = <<"adoption">>
     /\ copied = {"decision"}

Ended(d, place, verdict) ==
  LET marker == d[<<"marker", place>>] IN
  marker # None /\ marker.status = "complete" /\ marker.verdict = verdict

Adopting(d, p) ==
  LET r == p.run.recovery IN
  p.cmd = "adopt" =>
    /\ r \in Recoveries /\ Ended(d, r, p.verdict)
    /\ p.todo # <<>> =>
         /\ d[Canonical("marker")] = SourceMarker /\ d[Canonical("adoption")] = None
         /\ \E copied \in SUBSET DevelopmentOutputs :
              /\ AdoptStep(p.verdict, p.todo, copied)
              /\ \A name \in copied : d[Canonical(name)] = d[<<name, r>>]
         /\ p.held # None /\ Head(p.todo) # "adoption" => p.held = d[<<Head(p.todo), r>>]
         /\ p.held # None /\ Head(p.todo) = "adoption" =>
              p.held.recovery = r /\ p.held.verdict = p.verdict

\* A winner is frozen here.
Settled(d) ==
  \/ Ended(d, None, "winner")
  \/ d[Canonical("adoption")] # None /\ d[Canonical("adoption")].verdict = "winner"

\* What a qualification has left to do, its marker, and whether December is opened.
QualifyStep(p, marker, seen) ==
  LET started == Marker(p.run, p.code, "started", None) IN
  \/ /\ p.todo = <<"qualification", "december", "result">> /\ p.held \in {None, started}
     /\ seen = <<>>
  \/ /\ p.todo = <<"december", "result">> /\ marker = started
     /\ p.held = None => seen = <<>>
  \/ /\ p.todo \in {<<"result">>, <<>>} /\ marker = started

Qualifying(d, seen, p) ==
  p.cmd = "qualify" =>
    /\ p.run \in Run /\ p.run.recovery = None /\ p.code \in Commits /\ p.verdict = None
    /\ Settled(d) /\ p.winner = d[Canonical("lock")] /\ p.code = p.winner.code
    /\ QualifyStep(p, d[Canonical("qualification")], seen)

\* The records of a recovery that an authorization is about are there for good.
Recording(d, p) ==
  LET r == p.run.recovery IN
  /\ p.cmd \in {"export", "terminate", "authorize"} => r \in Recoveries
  /\ p.cmd = "export" => p.todo \in {<<"evidence", "sidecar">>, <<"sidecar">>, <<>>}
  /\ p.cmd = "terminate" => p.todo \in {<<"termination">>, <<>>}
  /\ p.cmd = "authorize" =>
       /\ p.todo \in {<<"authorization">>, <<>>}
       /\ d[<<"termination", r>>] # None
       /\ d[<<"evidence", r>>] # None /\ d[<<"sidecar", r>>] = d[<<"evidence", r>>]
       /\ p.held # None => p.held = [termination |-> d[<<"termination", r>>],
                                     evidence |-> d[<<"evidence", r>>]]

Fields == {"cmd", "run", "code", "data", "todo", "at", "verdict", "winner", "held"}
Commands == {"develop", "recover", "export", "terminate", "authorize", "adopt", "qualify"}

\* A command holds bytes only for the file it is about to write, which is absent.
Holding(d, p) ==
  /\ DOMAIN p = Fields
  /\ p = Idle \/ p.cmd \in Commands
  /\ p.held # None =>
       p.todo # <<>> /\ IsFile(Head(p.todo)) /\ d[Place(p, Head(p.todo))] = None

Working(d, seen, p) ==
  /\ Holding(d, p) /\ Campaigning(d, p) /\ Adopting(d, p)
  /\ Qualifying(d, seen, p) /\ Recording(d, p)

\* A campaign that says it completed left its files.
WholeFiles(marker, decision, state, lock, model) ==
  /\ marker.verdict \in Verdicts
  /\ decision # None
  /\ decision = [run |-> marker.run, verdict |-> marker.verdict]
  /\ marker.verdict = "winner" =>
       /\ state # None /\ lock # None /\ model # None
       /\ model = [run |-> marker.run]
       /\ lock.run = marker.run /\ lock.code = marker.code
       /\ lock.model = model /\ lock.state = state

Whole(d, place) ==
  (d[<<"marker", place>>] # None /\ d[<<"marker", place>>].status = "complete") =>
    WholeFiles(d[<<"marker", place>>], d[<<"decision", place>>], d[<<"state", place>>],
               d[<<"lock", place>>], d[<<"model", place>>])

\* An adopted recovery is completed, its files are the canonical ones.
Faithful(d) ==
  LET adoption == d[Canonical("adoption")] IN
  adoption # None =>
    /\ adoption.recovery \in Recoveries /\ Ended(d, adoption.recovery, adoption.verdict)
    /\ d[Canonical("marker")] = SourceMarker
    /\ d[Canonical("decision")] = d[<<"decision", adoption.recovery>>]
    /\ adoption.verdict = "winner" =>
         \A name \in {"state", "lock", "model"} :
           d[Canonical(name)] = d[<<name, adoption.recovery>>]

\* The chain of records behind a recovery, and its data.
Chained(d, r) ==
  LET authorization == d[<<"authorization", r>>] IN
  /\ authorization # None =>
       /\ authorization = [termination |-> d[<<"termination", r>>], evidence |-> d[<<"evidence", r>>]]
       /\ d[<<"termination", r>>] # None /\ d[<<"evidence", r>>] # None
       /\ d[<<"sidecar", r>>] = d[<<"evidence", r>>]
  /\ d[<<"marker", r>>] # None => authorization # None /\ d[<<"marker", r>>].code >= CorrectiveCommit
  /\ d[<<"decision", r>>] # None =>
       d[<<"state", r>>] # None /\ d[<<"state", r>>] = [data |-> SourceData]

\* A lock names the model of its own run.
TrueLock(d, place) ==
  LET lock == d[<<"lock", place>>] IN
  lock # None => lock.run \in Run /\ lock.model = [run |-> lock.run]

Kept(d) ==
  /\ \A place \in Places : Whole(d, place) /\ TrueLock(d, place)
  /\ Faithful(d)
  /\ \A r \in Recoveries : Chained(d, r)

Opened(d, seen) ==
  seen # <<>> =>
    LET lock == d[Canonical("lock")] IN
    /\ seen = <<[run |-> lock.run, lock |-> lock, code |-> lock.code]>>
    /\ Settled(d)
    /\ d[Canonical("qualification")] # None

TypeOK ==
  /\ head \in Commits /\ source \in Sources
  /\ process = [o \in Operators |-> process[o]]
  /\ disk = [path \in Paths |-> disk[path]]

IInv ==
  /\ TypeOK
  /\ Kept(disk)
  /\ Opened(disk, openings)
  /\ \A o \in Operators : Working(disk, openings, process[o])

-----------------------------------------------------------------------------
(* The tables *)

LEMMA Tails ==
  ASSUME NEW a, NEW b, NEW c, NEW d, NEW e
  PROVE  /\ Head(<<a>>) = a /\ Tail(<<a>>) = <<>> /\ <<a>> # <<>>
         /\ Head(<<a, b>>) = a /\ Tail(<<a, b>>) = <<b>> /\ <<a, b>> # <<>>
         /\ Head(<<a, b, c>>) = a /\ Tail(<<a, b, c>>) = <<b, c>> /\ <<a, b, c>> # <<>>
         /\ Head(<<a, b, c, d>>) = a /\ Tail(<<a, b, c, d>>) = <<b, c, d>> /\ <<a, b, c, d>> # <<>>
         /\ Head(<<a, b, c, d, e>>) = a /\ Tail(<<a, b, c, d, e>>) = <<b, c, d, e>>
         /\ <<a, b, c, d, e>> # <<>>
  OBVIOUS

\* The sequences that the commands put together.
LEMMA Joins ==
  ASSUME NEW a, NEW b, NEW c, NEW d
  PROVE  /\ <<>> \o <<a>> = <<a>> /\ <<a>> \o <<>> = <<a>> /\ <<a, b>> \o <<>> = <<a, b>>
         /\ <<a>> \o <<b>> = <<a, b>>
         /\ <<a>> \o <<b, c>> = <<a, b, c>>
         /\ <<a, b>> \o <<c, d>> = <<a, b, c, d>>
  <1> DEFINE S == {a, b, c, d}
  <1>1. /\ <<>> \in Seq(S) /\ <<a>> \in Seq(S) /\ <<b>> \in Seq(S)
        /\ <<a, b>> \in Seq(S) /\ <<b, c>> \in Seq(S) /\ <<c, d>> \in Seq(S)
        /\ <<a, b, c>> \in Seq(S) /\ <<a, b, c, d>> \in Seq(S)
    OBVIOUS
  <1>2. <<>> \o <<a>> = <<a>> /\ <<a>> \o <<>> = <<a>> /\ <<a, b>> \o <<>> = <<a, b>>
    BY <1>1, ConcatEmptySeq
  <1>3. <<a>> \o <<b>> = <<a, b>>
    <2> DEFINE w == <<a>> \o <<b>>  v == <<a, b>>
    <2>1. w \in Seq(S) /\ Len(w) = 2 /\ w[1] = a /\ w[2] = b
      BY <1>1
    <2>2. Len(v) = 2 /\ \A i \in 1 .. 2 : w[i] = v[i]
      BY <2>1
    <2> QED BY <1>1, <2>1, <2>2, SeqEqual
  <1>4. <<a>> \o <<b, c>> = <<a, b, c>>
    <2> DEFINE w == <<a>> \o <<b, c>>  v == <<a, b, c>>
    <2>1. w \in Seq(S) /\ Len(w) = 3 /\ w[1] = a /\ w[2] = b /\ w[3] = c
      BY <1>1
    <2>2. Len(v) = 3 /\ \A i \in 1 .. 3 : w[i] = v[i]
      BY <2>1
    <2> QED BY <1>1, <2>1, <2>2, SeqEqual
  <1>5. <<a, b>> \o <<c, d>> = <<a, b, c, d>>
    <2> DEFINE w == <<a, b>> \o <<c, d>>  v == <<a, b, c, d>>
    <2>1. w \in Seq(S) /\ Len(w) = 4 /\ w[1] = a /\ w[2] = b /\ w[3] = c /\ w[4] = d
      BY <1>1
    <2>2. Len(v) = 4 /\ \A i \in 1 .. 4 : w[i] = v[i]
      BY <2>1
    <2> QED BY <1>1, <2>1, <2>2, SeqEqual
  <1> QED BY <1>2, <1>3, <1>4, <1>5

LEMMA JoinFive ==
  ASSUME NEW a, NEW b, NEW c, NEW d, NEW e
  PROVE  <<a, b, c, d>> \o <<e>> = <<a, b, c, d, e>>
  <1> DEFINE S == {a, b, c, d, e}
             w == <<a, b, c, d>> \o <<e>>
             v == <<a, b, c, d, e>>
  <1>1. <<a, b, c, d>> \in Seq(S) /\ <<e>> \in Seq(S) /\ v \in Seq(S)
    OBVIOUS
  <1>2. w \in Seq(S) /\ Len(w) = 5 /\ w[1] = a /\ w[2] = b /\ w[3] = c /\ w[4] = d /\ w[5] = e
    BY <1>1
  <1>3. Len(v) = 5 /\ \A i \in 1 .. 5 : w[i] = v[i]
    BY <1>2
  <1> QED BY <1>1, <1>2, <1>3, SeqEqual

\* What a campaign is about to do, and what is missing then.
CampaignHead(cmd, verdict, todo, missing) ==
  /\ Head(todo) \in DevelopmentOutputs \union {"finalists", "screening", "november"}
  /\ Head(todo) \in DevelopmentOutputs => Head(todo) \in missing
  /\ Head(todo) = "finalists" => cmd = "recover"
  /\ Head(todo) = "screening" => cmd = "develop"
  /\ Head(todo) = "lock" => "model" \notin missing
  /\ Head(todo) = "decision" => "state" \notin missing
  /\ Head(todo) # "marker" => "marker" \notin missing

CampaignTail(cmd, verdict, todo, missing) ==
  IF Head(todo) = "november"
  THEN \A v \in Verdicts : CampaignStep(cmd, v, Outcome(cmd, v), missing)
  ELSE CampaignStep(cmd, verdict, Tail(todo), missing \ {Head(todo)})

LEMMA CampaignNext ==
  ASSUME NEW cmd \in {"develop", "recover"}, NEW verdict, NEW todo, NEW missing,
         CampaignStep(cmd, verdict, todo, missing), todo # <<>>
  PROVE  CampaignHead(cmd, verdict, todo, missing) /\ CampaignTail(cmd, verdict, todo, missing)
  <1>1. CASE todo = <<"marker", "state", "screening", "november">>
    BY <1>1, Tails DEF CampaignStep, CampaignHead, CampaignTail, DevelopmentOutputs
  <1>2. CASE todo = <<"marker", "state", "november">>
    BY <1>2, Tails DEF CampaignStep, CampaignHead, CampaignTail, DevelopmentOutputs
  <1>3. CASE todo = <<"state", "screening", "november">>
    BY <1>3, Tails DEF CampaignStep, CampaignHead, CampaignTail, DevelopmentOutputs
  <1>4. CASE todo = <<"state", "november">>
    BY <1>4, Tails DEF CampaignStep, CampaignHead, CampaignTail, DevelopmentOutputs
  <1>5. CASE todo = <<"screening", "november">>
    BY <1>5, Tails DEF CampaignStep, CampaignHead, CampaignTail, DevelopmentOutputs
  <1>6. CASE todo = <<"november">>
    <2>1. missing = {"decision", "lock", "model"} /\ CampaignHead(cmd, verdict, todo, missing)
      BY <1>6, Tails DEF CampaignStep, CampaignHead, DevelopmentOutputs
    <2>2. /\ Outcome("recover", "winner") = <<"finalists", "decision", "model", "lock">>
          /\ Outcome("recover", "governed_stop") = <<"finalists", "decision">>
          /\ Outcome("develop", "winner") = <<"decision", "model", "lock">>
          /\ Outcome("develop", "governed_stop") = <<"decision">>
      <3>1. /\ <<"finalists">> \o <<"decision">> = <<"finalists", "decision">>
            /\ <<>> \o <<"decision">> = <<"decision">>
        BY Joins
      <3>2. /\ <<"finalists", "decision">> \o <<"model", "lock">>
                 = <<"finalists", "decision", "model", "lock">>
            /\ <<"decision">> \o <<"model", "lock">> = <<"decision", "model", "lock">>
        BY ZenonT(60), Joins
      <3>3. /\ <<"finalists", "decision">> \o <<>> = <<"finalists", "decision">>
            /\ <<"decision">> \o <<>> = <<"decision">>
        BY Joins
      <3> QED BY <3>1, <3>2, <3>3 DEF Outcome
    <2> QED BY <1>6, <2>1, <2>2, Tails DEF CampaignStep, CampaignTail, Verdicts
  <1>7. CASE todo = <<"finalists", "decision", "model", "lock">>
    BY <1>7, Tails DEF CampaignStep, CampaignHead, CampaignTail, DevelopmentOutputs
  <1>8. CASE todo = <<"decision", "model", "lock">>
    BY <1>8, Tails DEF CampaignStep, CampaignHead, CampaignTail, DevelopmentOutputs
  <1>9. CASE todo = <<"model", "lock">>
    BY <1>9, Tails DEF CampaignStep, CampaignHead, CampaignTail, DevelopmentOutputs
  <1>10. CASE todo = <<"lock">>
    BY <1>10, Tails DEF CampaignStep, CampaignHead, CampaignTail, DevelopmentOutputs
  <1>11. CASE todo = <<"finalists", "decision">>
    BY <1>11, Tails DEF CampaignStep, CampaignHead, CampaignTail, DevelopmentOutputs
  <1>12. CASE todo = <<"decision">>
    BY <1>12, Tails DEF CampaignStep, CampaignHead, CampaignTail, DevelopmentOutputs
  <1> QED BY <1>1, <1>2, <1>3, <1>4, <1>5, <1>6, <1>7, <1>8, <1>9, <1>10, <1>11, <1>12
        DEF CampaignStep

\* A campaign that has nothing left to do.
LEMMA CampaignEnd ==
  ASSUME NEW cmd, NEW verdict, NEW missing, CampaignStep(cmd, verdict, <<>>, missing)
  PROVE  /\ verdict \in Verdicts /\ "marker" \notin missing /\ "decision" \notin missing
         /\ "state" \notin missing
         /\ verdict = "winner" => "model" \notin missing /\ "lock" \notin missing
  BY Tails DEF CampaignStep, Verdicts

\* The same of an adoption.
AdoptNext(verdict, todo, copied) ==
  /\ Head(todo) \in DevelopmentOutputs \union {"adoption"} /\ Head(todo) # "marker"
  /\ Head(todo) # "adoption" => AdoptStep(verdict, Tail(todo), copied \union {Head(todo)})
  /\ Head(todo) = "adoption" => /\ Tail(todo) = <<>>
                                /\ verdict \in Verdicts /\ "decision" \in copied
                                /\ verdict = "winner" => {"state", "lock", "model"} \subseteq copied

LEMMA AdoptTail ==
  ASSUME NEW verdict, NEW todo, NEW copied, AdoptStep(verdict, todo, copied)
  PROVE  todo # <<>> /\ AdoptNext(verdict, todo, copied)
  <1>1. CASE todo = <<"decision", "state", "lock", "model", "adoption">>
    BY <1>1, Tails DEF AdoptStep, AdoptNext, DevelopmentOutputs
  <1>2. CASE todo = <<"state", "lock", "model", "adoption">>
    BY <1>2, Tails DEF AdoptStep, AdoptNext, DevelopmentOutputs
  <1>3. CASE todo = <<"lock", "model", "adoption">>
    BY <1>3, Tails DEF AdoptStep, AdoptNext, DevelopmentOutputs
  <1>4. CASE todo = <<"model", "adoption">>
    BY <1>4, Tails DEF AdoptStep, AdoptNext, DevelopmentOutputs
  <1>5. CASE todo = <<"adoption">>
    BY <1>5, Tails DEF AdoptStep, AdoptNext, DevelopmentOutputs, Verdicts
  <1>6. CASE todo = <<"decision", "adoption">>
    BY <1>6, Tails DEF AdoptStep, AdoptNext, DevelopmentOutputs
  <1> QED BY <1>1, <1>2, <1>3, <1>4, <1>5, <1>6 DEF AdoptStep

-----------------------------------------------------------------------------
(* Writing a file: e is the disk d with the content v at a path *)

Written(d, e, path, v) == \A q \in Paths : e[q] = IF q = path THEN v ELSE d[q]

LEMMA PathsAre ==
  /\ \A name \in DevelopmentOutputs, place \in Places : <<name, place>> \in Paths
  /\ \A name \in RecoveryOutputs \union {"evidence", "sidecar", "termination", "authorization"},
        r \in Recoveries : <<name, r>> \in Paths
  /\ \A name \in {"adoption", "qualification", "december", "result"} : <<name, None>> \in Paths
  /\ \A r \in Recoveries : r \in Places /\ r # None
  /\ None \in Places
  <1>1. None \notin Recoveries
    BY LifecycleAssumption
  <1>2. \A name \in DevelopmentOutputs : <<name, None>> \in Paths
    BY DEF Paths, Canonical
  <1>3. \A name \in DevelopmentOutputs : name \in RecoveryOutputs
    BY DEF DevelopmentOutputs, RecoveryOutputs
  <1>4. \A name \in RecoveryOutputs \union {"evidence", "sidecar", "termination", "authorization"},
           r \in Recoveries : <<name, r>> \in Paths
    BY DEF Paths
  <1>5. \A name \in {"adoption", "qualification", "december", "result"} : <<name, None>> \in Paths
    BY DEF Paths, Canonical
  <1> QED BY <1>1, <1>2, <1>3, <1>4, <1>5 DEF Places

\* A marker is not an absent file.
LEMMA MarkersAre ==
  /\ \A run \in Run, code \in Commits, status \in Statuses, verdict \in Verdicts \union {None} :
       Marker(run, code, status, verdict) # None
  /\ TypeOK => SourceMarker # None /\ SourceRun \in Run /\ SourceRun.recovery = None
  <1>1. \A run \in Run, code \in Commits, status \in Statuses, verdict \in Verdicts \union {None} :
          Marker(run, code, status, verdict) \in Markers
    BY DEF Marker, Markers
  <1>2. TypeOK => SourceRun \in Run /\ SourceRun.recovery = None
    BY DEF TypeOK, SourceRun, Run
  <1>3. SourceCommit \in Commits
    BY LifecycleAssumption DEF SourceCommit, Commits
  <1> QED BY <1>1, <1>2, <1>3, LifecycleAssumption DEF SourceMarker, Statuses

\* What a recovery, a lock or an adoption that is written rests on.
Sound(d, name, place, v) ==
  /\ v # None
  /\ name = "marker" =>
       /\ v.status # "complete"
       /\ place # None => d[<<"authorization", place>>] # None /\ v.code >= CorrectiveCommit
  /\ name = "decision" /\ place # None =>
       d[<<"state", place>>] # None /\ d[<<"state", place>>] = [data |-> SourceData]
  /\ name = "lock" => v.run \in Run /\ v.model = [run |-> v.run]
  /\ name = "adoption" =>
       /\ v.recovery \in Recoveries /\ Ended(d, v.recovery, v.verdict)
       /\ d[Canonical("marker")] = SourceMarker
       /\ d[Canonical("decision")] = d[<<"decision", v.recovery>>]
       /\ v.verdict = "winner" =>
            \A file \in {"state", "lock", "model"} : d[Canonical(file)] = d[<<file, v.recovery>>]
  /\ name = "authorization" =>
       /\ v = [termination |-> d[<<"termination", place>>], evidence |-> d[<<"evidence", place>>]]
       /\ d[<<"termination", place>>] # None /\ d[<<"evidence", place>>] # None
       /\ d[<<"sidecar", place>>] = d[<<"evidence", place>>]

\* A disk keeps what it stands for when a sound file is written where none was.
LEMMA WriteKeeps ==
  ASSUME NEW d, NEW e, NEW name, NEW place, NEW v, <<name, place>> \in Paths,
         TypeOK, Kept(d), Written(d, e, <<name, place>>, v), d[<<name, place>>] = None,
         Sound(d, name, place, v)
  PROVE  Kept(e)
  <1>1. \A q \in Paths : d[q] # None => e[q] = d[q]
    BY DEF Written
  <1>2. ASSUME NEW at \in Places PROVE Whole(e, at)
    <2> SUFFICES ASSUME e[<<"marker", at>>] # None, e[<<"marker", at>>].status = "complete"
                 PROVE  Whole(e, at)
      BY DEF Whole
    <2>1. \A file \in DevelopmentOutputs : <<file, at>> \in Paths
      BY PathsAre
    <2>2. <<"marker", at>> # <<name, place>>
      BY <2>1, PathsAre DEF Written, Sound, DevelopmentOutputs
    <2>3. e[<<"marker", at>>] = d[<<"marker", at>>]
      BY <2>1, <2>2 DEF Written, DevelopmentOutputs
    <2>4. Whole(d, at)
      BY DEF Kept
    <2>5. e[<<"decision", at>>] = d[<<"decision", at>>]
      BY <1>1, <2>1, <2>3, <2>4 DEF Whole, WholeFiles, DevelopmentOutputs
    <2>6. CASE d[<<"marker", at>>].verdict = "winner"
      <3>1. \A file \in {"state", "lock", "model"} : d[<<file, at>>] # None
        BY <2>3, <2>4, <2>6 DEF Whole, WholeFiles
      <3>2. \A file \in {"state", "lock", "model"} : e[<<file, at>>] = d[<<file, at>>]
        BY <1>1, <2>1, <3>1 DEF DevelopmentOutputs
      <3> QED BY <2>3, <2>4, <2>5, <3>2 DEF Whole
    <2>7. CASE d[<<"marker", at>>].verdict # "winner"
      BY <2>3, <2>4, <2>5, <2>7 DEF Whole, WholeFiles
    <2> QED BY <2>6, <2>7
  <1>3. ASSUME NEW at \in Places PROVE TrueLock(e, at)
    <2>1. <<"lock", at>> \in Paths /\ TrueLock(d, at)
      BY PathsAre DEF Kept, DevelopmentOutputs
    <2>2. CASE <<"lock", at>> = <<name, place>>
      BY <2>1, <2>2 DEF Written, Sound, TrueLock
    <2>3. CASE <<"lock", at>> # <<name, place>>
      BY <2>1, <2>3 DEF Written, TrueLock
    <2> QED BY <2>2, <2>3
  <1>4. ASSUME NEW r \in Recoveries PROVE Chained(e, r)
    <2>1. /\ <<"authorization", r>> \in Paths /\ <<"termination", r>> \in Paths
          /\ <<"evidence", r>> \in Paths /\ <<"sidecar", r>> \in Paths
          /\ <<"marker", r>> \in Paths /\ <<"decision", r>> \in Paths /\ <<"state", r>> \in Paths
      BY PathsAre DEF RecoveryOutputs
    <2>2. r # None /\ Chained(d, r)
      BY PathsAre DEF Kept
    <2>3. e[<<"authorization", r>>] # None =>
            /\ e[<<"authorization", r>>] = [termination |-> e[<<"termination", r>>],
                                            evidence |-> e[<<"evidence", r>>]]
            /\ e[<<"termination", r>>] # None /\ e[<<"evidence", r>>] # None
            /\ e[<<"sidecar", r>>] = e[<<"evidence", r>>]
      <3>1. CASE <<"authorization", r>> = <<name, place>>
        <4>1. e[<<"authorization", r>>] = v
          BY <2>1, <3>1 DEF Written
        <4>2. /\ v = [termination |-> d[<<"termination", r>>], evidence |-> d[<<"evidence", r>>]]
              /\ d[<<"termination", r>>] # None /\ d[<<"evidence", r>>] # None
              /\ d[<<"sidecar", r>>] = d[<<"evidence", r>>]
          BY <3>1 DEF Sound
        <4> QED BY <1>1, <2>1, <4>1, <4>2
      <3>2. CASE <<"authorization", r>> # <<name, place>>
        <4>1. e[<<"authorization", r>>] = d[<<"authorization", r>>]
          BY <2>1, <3>2 DEF Written
        <4> QED BY <1>1, <2>1, <2>2, <4>1 DEF Chained
      <3> QED BY <3>1, <3>2
    <2>4. e[<<"marker", r>>] # None =>
            e[<<"authorization", r>>] # None /\ e[<<"marker", r>>].code >= CorrectiveCommit
      <3>1. CASE <<"marker", r>> = <<name, place>>
        BY <1>1, <2>1, <2>2, <3>1 DEF Written, Sound
      <3>2. CASE <<"marker", r>> # <<name, place>>
        BY <1>1, <2>1, <2>2, <3>2 DEF Written, Chained
      <3> QED BY <3>1, <3>2
    <2>5. e[<<"decision", r>>] # None =>
            e[<<"state", r>>] # None /\ e[<<"state", r>>] = [data |-> SourceData]
      <3>1. CASE <<"decision", r>> = <<name, place>>
        BY <1>1, <2>1, <2>2, <3>1 DEF Written, Sound
      <3>2. CASE <<"decision", r>> # <<name, place>>
        BY <1>1, <2>1, <2>2, <3>2 DEF Written, Chained
      <3> QED BY <3>1, <3>2
    <2> QED BY <2>3, <2>4, <2>5 DEF Chained
  <1>5. Faithful(e)
    <2>1. /\ \A file \in DevelopmentOutputs, at \in Places : <<file, at>> \in Paths
          /\ Canonical("adoption") \in Paths /\ None \in Places
          /\ \A r \in Recoveries : r \in Places
      BY PathsAre DEF Canonical
    <2> DEFINE adoption == e[Canonical("adoption")]
               r == adoption.recovery
    <2> SUFFICES ASSUME adoption # None PROVE Faithful(e)
      BY DEF Faithful
    <2>2. /\ r \in Recoveries /\ Ended(d, r, adoption.verdict)
          /\ d[Canonical("marker")] = SourceMarker
          /\ d[Canonical("decision")] = d[<<"decision", r>>]
          /\ adoption.verdict = "winner" =>
               \A file \in {"state", "lock", "model"} : d[Canonical(file)] = d[<<file, r>>]
      <3>1. CASE Canonical("adoption") = <<name, place>>
        <4>1. adoption = v /\ name = "adoption"
          BY <2>1, <3>1 DEF Written, Canonical
        <4> HIDE DEF adoption
        <4> QED BY <4>1 DEF Sound
      <3>2. CASE Canonical("adoption") # <<name, place>>
        <4>1. adoption = d[Canonical("adoption")]
          BY <2>1, <3>2 DEF Written
        <4>2. Faithful(d)
          BY DEF Kept
        <4> HIDE DEF adoption
        <4> QED BY <4>1, <4>2 DEF Faithful
      <3> QED BY <3>1, <3>2
    <2> HIDE DEF adoption, r
    <2>3. Whole(d, r)
      BY <2>1, <2>2 DEF Kept
    <2>4. d[<<"marker", r>>] # None /\ d[<<"decision", r>>] # None
      BY <2>2, <2>3 DEF Ended, Whole, WholeFiles
    <2>5. SourceMarker # None
      BY MarkersAre
    <2>6. /\ Ended(e, r, adoption.verdict) /\ e[Canonical("marker")] = SourceMarker
          /\ e[Canonical("decision")] = e[<<"decision", r>>]
      BY <1>1, <2>1, <2>2, <2>4, <2>5 DEF Ended, Canonical, DevelopmentOutputs
    <2>7. adoption.verdict = "winner" =>
            \A file \in {"state", "lock", "model"} : e[Canonical(file)] = e[<<file, r>>]
      <3> SUFFICES ASSUME adoption.verdict = "winner", NEW file \in {"state", "lock", "model"}
                   PROVE  e[Canonical(file)] = e[<<file, r>>]
        OBVIOUS
      <3>1. d[<<file, r>>] # None /\ d[Canonical(file)] = d[<<file, r>>]
        BY <2>2, <2>3 DEF Ended, Whole, WholeFiles
      <3> QED BY <1>1, <2>1, <2>2, <3>1 DEF Canonical, DevelopmentOutputs
    <2> QED BY <2>2, <2>6, <2>7 DEF Faithful, adoption, r
  <1> QED BY <1>2, <1>3, <1>4, <1>5 DEF Kept

\* The winner of a settled worktree is on disk: a lock of its model and its state.
LEMMA WinnerThere ==
  ASSUME NEW d, Kept(d), Settled(d)
  PROVE  LET lock == d[Canonical("lock")] IN
         /\ lock # None /\ lock.run \in Run /\ lock.model = [run |-> lock.run]
         /\ d[Canonical("model")] = lock.model /\ d[Canonical("state")] = lock.state
  <1> DEFINE lock == d[Canonical("lock")]
             adoption == d[Canonical("adoption")]
  <1>1. TrueLock(d, None) /\ Whole(d, None)
    BY PathsAre DEF Kept
  <1>2. CASE Ended(d, None, "winner")
    BY <1>1, <1>2 DEF Ended, Whole, WholeFiles, TrueLock, Canonical
  <1>3. CASE adoption # None /\ adoption.verdict = "winner"
    <2>1. /\ adoption.recovery \in Recoveries /\ Ended(d, adoption.recovery, "winner")
          /\ \A name \in {"state", "lock", "model"} :
               d[Canonical(name)] = d[<<name, adoption.recovery>>]
      BY <1>3 DEF Kept, Faithful
    <2>2. Whole(d, adoption.recovery)
      BY <2>1, PathsAre DEF Kept
    <2> QED BY <1>1, <2>1, <2>2 DEF Ended, Whole, WholeFiles, TrueLock, Canonical
  <1> QED BY <1>2, <1>3 DEF Settled

\* A file written where none was takes nothing back.
LEMMA WriteSettles ==
  ASSUME NEW d, NEW e, NEW path, NEW v,
         Written(d, e, path, v), d[path] = None, Settled(d)
  PROVE  Settled(e)
  <1>1. Canonical("marker") \in Paths /\ Canonical("adoption") \in Paths
    BY PathsAre DEF Canonical, DevelopmentOutputs
  <1>2. \A q \in Paths : d[q] # None => e[q] = d[q]
    BY DEF Written
  <1> QED BY <1>1, <1>2 DEF Settled, Ended, Canonical

LEMMA WriteOpened ==
  ASSUME TypeOK, NEW d, NEW e, NEW path, NEW v, NEW seen, Kept(d),
         Written(d, e, path, v), d[path] = None, Opened(d, seen)
  PROVE  Opened(e, seen)
  <1> SUFFICES ASSUME seen # <<>> PROVE Opened(e, seen)
    BY DEF Opened
  <1>1. Canonical("lock") \in Paths /\ Canonical("qualification") \in Paths
    BY PathsAre DEF Canonical, DevelopmentOutputs
  <1>2. Settled(d) /\ d[Canonical("qualification")] # None
    BY DEF Opened
  <1>3. d[Canonical("lock")] # None
    BY <1>2, WinnerThere
  <1>4. e[Canonical("lock")] = d[Canonical("lock")] /\ e[Canonical("qualification")] # None
    BY <1>1, <1>2, <1>3 DEF Written
  <1> QED BY <1>2, <1>4, WriteSettles DEF Opened

\* The marker of a campaign in progress comes to its end: what makes this sound.
Ending(d, place, v) ==
  LET marker == d[<<"marker", place>>] IN
  /\ marker # None /\ marker.status = "started"
  /\ v # None /\ v.run = marker.run /\ v.code = marker.code
  /\ place = None => d[Canonical("adoption")] = None
  /\ v.status = "complete" =>
       WholeFiles(v, d[<<"decision", place>>], d[<<"state", place>>], d[<<"lock", place>>],
                  d[<<"model", place>>])

LEMMA EndKeeps ==
  ASSUME TypeOK, NEW d, NEW e, NEW place \in Places, NEW v,
         Kept(d), Written(d, e, <<"marker", place>>, v), Ending(d, place, v)
  PROVE  Kept(e)
  <1>1. \A q \in Paths : q # <<"marker", place>> => e[q] = d[q]
    BY DEF Written
  <1>2. \A name, at : name # "marker" => <<name, at>> # <<"marker", place>>
    OBVIOUS
  <1>3. e[<<"marker", place>>] = v /\ v # None
    BY PathsAre DEF Written, DevelopmentOutputs, Ending
  <1>4. ASSUME NEW at \in Places PROVE Whole(e, at) /\ TrueLock(e, at)
    <2>1. \A name \in DevelopmentOutputs : <<name, at>> \in Paths
      BY PathsAre
    <2>2. \A name \in {"decision", "state", "lock", "model"} : e[<<name, at>>] = d[<<name, at>>]
      BY <1>1, <1>2, <2>1 DEF DevelopmentOutputs
    <2>8. /\ e[<<"decision", at>>] = d[<<"decision", at>>] /\ e[<<"state", at>>] = d[<<"state", at>>]
          /\ e[<<"lock", at>>] = d[<<"lock", at>>] /\ e[<<"model", at>>] = d[<<"model", at>>]
      BY <2>2
    <2>3. Whole(d, at) /\ TrueLock(d, at)
      BY DEF Kept
    <2>4. TrueLock(e, at)
      BY <2>2, <2>3 DEF TrueLock
    <2>5. CASE at = place
      BY <1>3, <2>4, <2>5, <2>8 DEF Ending, Whole
    <2>6. CASE at # place
      <3>1. e[<<"marker", at>>] = d[<<"marker", at>>]
        BY <1>1, <2>1, <2>6 DEF DevelopmentOutputs
      <3> QED BY <2>3, <2>4, <2>8, <3>1 DEF Whole
    <2> QED BY <2>4, <2>5, <2>6
  <1>5. ASSUME NEW r \in Recoveries PROVE Chained(e, r)
    <2>1. /\ <<"authorization", r>> \in Paths /\ <<"termination", r>> \in Paths
          /\ <<"evidence", r>> \in Paths /\ <<"sidecar", r>> \in Paths
          /\ <<"marker", r>> \in Paths /\ <<"decision", r>> \in Paths /\ <<"state", r>> \in Paths
      BY PathsAre DEF RecoveryOutputs
    <2>2. /\ e[<<"authorization", r>>] = d[<<"authorization", r>>]
          /\ e[<<"termination", r>>] = d[<<"termination", r>>]
          /\ e[<<"evidence", r>>] = d[<<"evidence", r>>] /\ e[<<"sidecar", r>>] = d[<<"sidecar", r>>]
          /\ e[<<"decision", r>>] = d[<<"decision", r>>] /\ e[<<"state", r>>] = d[<<"state", r>>]
      BY <1>1, <1>2, <2>1
    <2>3. Chained(d, r)
      BY DEF Kept
    <2>4. e[<<"marker", r>>] # None =>
            d[<<"marker", r>>] # None /\ e[<<"marker", r>>].code = d[<<"marker", r>>].code
      <3>1. CASE r = place
        BY <1>3, <3>1 DEF Ending
      <3>2. CASE r # place
        BY <1>1, <2>1, <3>2
      <3> QED BY <3>1, <3>2
    <2> QED BY <2>2, <2>3, <2>4 DEF Chained
  <1>6. Faithful(e)
    <2> DEFINE adoption == d[Canonical("adoption")]
               r == adoption.recovery
    <2>1. /\ \A name \in DevelopmentOutputs, at \in Places : <<name, at>> \in Paths
          /\ Canonical("adoption") \in Paths
      BY PathsAre DEF Canonical
    <2>2. e[Canonical("adoption")] = adoption
      BY <1>1, <1>2, <2>1 DEF Canonical
    <2>3. CASE adoption = None
      BY <2>2, <2>3 DEF Faithful
    <2>4. CASE adoption # None
      <3>1. /\ r \in Recoveries /\ Ended(d, r, adoption.verdict)
            /\ d[Canonical("marker")] = SourceMarker
            /\ d[Canonical("decision")] = d[<<"decision", r>>]
            /\ adoption.verdict = "winner" =>
                 \A name \in {"state", "lock", "model"} : d[Canonical(name)] = d[<<name, r>>]
        BY <2>4 DEF Kept, Faithful
      <3> HIDE DEF adoption, r
      <3>2. r # place /\ place # None /\ r \in Places /\ None \in Places
        BY <2>4, <3>1, PathsAre DEF Ended, Ending, adoption
      <3>3. \A at \in {r, None} : /\ e[<<"marker", at>>] = d[<<"marker", at>>]
                                  /\ \A name \in {"decision", "state", "lock", "model"} :
                                       e[<<name, at>>] = d[<<name, at>>]
        BY <1>1, <1>2, <2>1, <3>2 DEF DevelopmentOutputs
      <3>4. Ended(e, r, adoption.verdict)
        BY <3>1, <3>3 DEF Ended
      <3>5. e[Canonical("marker")] = SourceMarker /\ e[Canonical("decision")] = e[<<"decision", r>>]
        BY <3>1, <3>3 DEF Canonical
      <3>6. adoption.verdict = "winner" =>
              \A name \in {"state", "lock", "model"} : e[Canonical(name)] = e[<<name, r>>]
        BY <3>1, <3>3 DEF Canonical
      <3> QED BY <2>2, <3>1, <3>4, <3>5, <3>6 DEF Faithful, r
    <2> QED BY <2>3, <2>4
  <1> QED BY <1>4, <1>5, <1>6 DEF Kept

LEMMA EndOpened ==
  ASSUME TypeOK, NEW d, NEW e, NEW place \in Places, NEW v, NEW seen,
         Kept(d), Written(d, e, <<"marker", place>>, v), Ending(d, place, v), Opened(d, seen)
  PROVE  Opened(e, seen) /\ (Settled(d) => Settled(e))
  <1>1. /\ Canonical("lock") \in Paths /\ Canonical("qualification") \in Paths
        /\ Canonical("adoption") \in Paths /\ Canonical("marker") \in Paths
    BY PathsAre DEF Canonical, DevelopmentOutputs
  <1>2. /\ e[Canonical("lock")] = d[Canonical("lock")]
        /\ e[Canonical("qualification")] = d[Canonical("qualification")]
        /\ e[Canonical("adoption")] = d[Canonical("adoption")]
        /\ place # None => e[Canonical("marker")] = d[Canonical("marker")]
    BY <1>1 DEF Written, Canonical
  <1>3. ASSUME Settled(d) PROVE Settled(e)
    BY <1>2, <1>3 DEF Settled, Ended, Ending, Canonical
  <1> QED BY <1>2, <1>3 DEF Opened

-----------------------------------------------------------------------------
(* Commands start *)

LEMMA Fielded ==
  ASSUME NEW cmd, NEW run, NEW code, NEW data, NEW todo
  PROVE  LET p == Command(cmd, run, code, data, todo) IN
         /\ DOMAIN p = Fields
         /\ p.cmd = cmd /\ p.run = run /\ p.code = code /\ p.data = data /\ p.todo = todo
         /\ p.verdict = None /\ p.winner = None /\ p.held = None
  BY DEF Command, Fields

LEMMA IdleWorks ==
  ASSUME NEW d, NEW seen
  PROVE  Working(d, seen, Idle)
  <1>1. DOMAIN Idle = Fields /\ Idle.cmd = "idle" /\ Idle.held = None
    BY Fielded DEF Idle
  <1> QED BY <1>1 DEF Working, Holding, Campaigning, Adopting, Qualifying, Recording

LEMMA DiskWritten ==
  ASSUME TypeOK, NEW path \in Paths, NEW v, disk' = [disk EXCEPT ![path] = v]
  PROVE  Written(disk, disk', path, v) /\ disk' = [q \in Paths |-> disk'[q]]
  BY DEF TypeOK, Written

\* What there is to show of a step.
LEMMA Primed ==
  ASSUME UNCHANGED source, TypeOK', Kept(disk'), Opened(disk', openings'),
         \A o \in Operators : Working(disk', openings', process'[o])
  PROVE  IInv'
  <1>1. SourceMarker' = SourceMarker
    BY DEF SourceMarker, SourceRun, Marker
  <1>2. Kept(disk)'
    BY <1>1 DEF Kept, Faithful, Whole, WholeFiles, TrueLock, Chained, Ended, Canonical
  <1>3. Opened(disk, openings)'
    BY DEF Opened, Settled, Ended, Canonical
  <1>4. ASSUME NEW o \in Operators PROVE Working(disk, openings, process[o])'
    <2>1. Adopting(disk, process[o])'
      BY <1>1 DEF Working, Adopting, AdoptStep, Ended, Canonical
    <2>2. /\ Holding(disk, process[o])' /\ Campaigning(disk, process[o])'
          /\ Qualifying(disk, openings, process[o])' /\ Recording(disk, process[o])'
      BY DEF Working, Holding, Idle, Command, Place, IsFile, Campaigning, CampaignStep, Missing,
             Expected, Permitted, Marker, Canonical, Qualifying, QualifyStep, Settled, Ended, Recording
    <2> QED BY <2>1, <2>2 DEF Working
  <1> QED BY <1>2, <1>3, <1>4 DEF IInv

\* The same of a step of the only operator.
LEMMA Conclude ==
  ASSUME OneOperator, NEW o \in Operators, UNCHANGED source, TypeOK',
         Kept(disk'), Opened(disk', openings'), Working(disk', openings', process'[o])
  PROVE  IInv'
  <1>1. \A other \in Operators : other = o
    BY DEF OneOperator
  <1> QED BY <1>1, Primed

LEMMA BeginIInv ==
  ASSUME IInv, OneOperator, NEW o \in Operators, NEW command,
         Begin(o, command), Working(disk, openings, command)
  PROVE  IInv'
  <1>1. /\ process' = [process EXCEPT ![o] = command]
        /\ UNCHANGED <<disk, head, source, openings>>
    BY DEF Begin
  <1>2. process'[o] = command /\ TypeOK'
    BY <1>1 DEF IInv, TypeOK
  <1>3. Kept(disk') /\ Opened(disk', openings') /\ Working(disk', openings', process'[o])
    BY <1>1, <1>2 DEF IInv
  <1> QED BY <1>1, <1>2, <1>3, Conclude

LEMMA DevelopIInv ==
  ASSUME IInv, OneOperator, NEW o \in Operators, Develop(o)
  PROVE  IInv'
  <1> DEFINE run == [by |-> o, recovery |-> None]
             todo == <<"marker", "state", "screening", "november">>
  <1>1. PICK data \in Datasets : Begin(o, Command("develop", run, head, data, todo))
    BY DEF Develop
  <1> DEFINE p == Command("develop", run, head, data, todo)
  <1>2. /\ DOMAIN p = Fields /\ p.cmd = "develop" /\ p.run = run /\ p.code = head
        /\ p.todo = todo /\ p.verdict = None /\ p.held = None
    BY Fielded
  <1>3. run \in Run /\ run.recovery = None /\ head \in Commits
    BY DEF Run, IInv, TypeOK
  <1>4. \A name \in DevelopmentOutputs : disk[<<name, None>>] = None
    BY DEF Develop, Present, Canonical
  <1>5. Missing(disk, None) = DevelopmentOutputs
    BY <1>4 DEF Missing
  <1>6. disk[Canonical("adoption")] = None
    <2>1. Faithful(disk) /\ SourceMarker # None
      BY MarkersAre DEF IInv, Kept
    <2>2. disk[Canonical("marker")] = None
      BY <1>4 DEF Canonical, DevelopmentOutputs
    <2> QED BY <2>1, <2>2 DEF Faithful
  <1>7. CampaignStep("develop", None, todo, DevelopmentOutputs)
    BY DEF CampaignStep
  <1> HIDE DEF run, todo, p
  <1>8. Campaigning(disk, p)
    BY <1>2, <1>3, <1>4, <1>5, <1>6, <1>7 DEF Campaigning, Permitted
  <1>9. Working(disk, openings, p)
    BY <1>2, <1>8 DEF Working, Holding, Commands, Adopting, Qualifying, Recording
  <1> QED BY <1>1, <1>9, BeginIInv DEF p

LEMMA ExportIInv ==
  ASSUME IInv, OneOperator, NEW o \in Operators, NEW r \in Recoveries, Export(o, r)
  PROVE  IInv'
  <1> DEFINE c == OfRecovery(o, r, "export", <<"evidence", "sidecar">>)
  <1>1. PICK at \in Times : Begin(o, [c EXCEPT !.at = at])
    BY DEF Export
  <1> DEFINE p == [c EXCEPT !.at = at]
  <1>2. /\ DOMAIN p = Fields /\ p.cmd = "export" /\ p.run.recovery = r
        /\ p.todo = <<"evidence", "sidecar">> /\ p.held = None
    BY Fielded DEF OfRecovery, Fields
  <1> HIDE DEF p
  <1>3. Working(disk, openings, p)
    BY <1>2 DEF Working, Holding, Commands, Campaigning, Adopting, Qualifying, Recording
  <1> QED BY <1>1, <1>3, BeginIInv DEF p

LEMMA TerminateIInv ==
  ASSUME IInv, OneOperator, NEW o \in Operators, NEW r \in Recoveries, Terminate(o, r)
  PROVE  IInv'
  <1> DEFINE c == OfRecovery(o, r, "terminate", <<"termination">>)
  <1>1. PICK at \in Times : Begin(o, [c EXCEPT !.at = at])
    BY DEF Terminate
  <1> DEFINE p == [c EXCEPT !.at = at]
  <1>2. /\ DOMAIN p = Fields /\ p.cmd = "terminate" /\ p.run.recovery = r
        /\ p.todo = <<"termination">> /\ p.held = None
    BY Fielded DEF OfRecovery, Fields
  <1> HIDE DEF p
  <1>3. Working(disk, openings, p)
    BY <1>2 DEF Working, Holding, Commands, Campaigning, Adopting, Qualifying, Recording
  <1> QED BY <1>1, <1>3, BeginIInv DEF p

LEMMA AuthorizeIInv ==
  ASSUME IInv, OneOperator, NEW o \in Operators, NEW r \in Recoveries, Authorize(o, r)
  PROVE  IInv'
  <1> DEFINE p == OfRecovery(o, r, "authorize", <<"authorization">>)
  <1>1. /\ DOMAIN p = Fields /\ p.cmd = "authorize" /\ p.run.recovery = r
        /\ p.todo = <<"authorization">> /\ p.held = None
    BY Fielded DEF OfRecovery
  <1>2. /\ Begin(o, p) /\ disk[<<"termination", r>>] # None
        /\ disk[<<"evidence", r>>] # None /\ disk[<<"sidecar", r>>] = disk[<<"evidence", r>>]
    BY DEF Authorize, EvidenceIntact, Present
  <1> HIDE DEF p
  <1>3. Working(disk, openings, p)
    BY <1>1, <1>2 DEF Working, Holding, Commands, Campaigning, Adopting, Qualifying, Recording
  <1> QED BY <1>2, <1>3, BeginIInv

LEMMA RecoverIInv ==
  ASSUME IInv, OneOperator, NEW o \in Operators, NEW r \in Recoveries, Recover(o, r)
  PROVE  IInv'
  <1> DEFINE c == OfRecovery(o, r, "recover", <<"marker", "state", "november">>)
  <1>1. PICK data \in Datasets : Begin(o, [c EXCEPT !.data = data])
    BY DEF Recover
  <1> DEFINE p == [c EXCEPT !.data = data]
  <1>2. /\ DOMAIN p = Fields /\ p.cmd = "recover" /\ p.run = [by |-> o, recovery |-> r]
        /\ p.code = head /\ p.todo = <<"marker", "state", "november">> /\ p.verdict = None
        /\ p.held = None
    BY Fielded DEF OfRecovery, Fields
  <1>3. p.run \in Run /\ p.run.recovery = r /\ head \in Commits
    BY <1>2 DEF Run, IInv, TypeOK
  <1>4. /\ head >= CorrectiveCommit /\ disk[<<"authorization", r>>] # None
        /\ \A name \in DevelopmentOutputs : disk[<<name, r>>] = None
    BY DEF Recover, Authorized, Present, DevelopmentOutputs, RecoveryOutputs
  <1>5. Missing(disk, r) = DevelopmentOutputs /\ "state" \in DevelopmentOutputs
    BY <1>4 DEF Missing, DevelopmentOutputs
  <1>6. CampaignStep("recover", None, <<"marker", "state", "november">>, DevelopmentOutputs)
    BY DEF CampaignStep
  <1> HIDE DEF p
  <1>7. Permitted(disk, p)
    BY <1>2, <1>3, <1>4, <1>5 DEF Permitted
  <1>8. Campaigning(disk, p)
    BY <1>2, <1>3, <1>4, <1>5, <1>6, <1>7 DEF Campaigning
  <1>9. Working(disk, openings, p)
    BY <1>2, <1>8 DEF Working, Holding, Commands, Adopting, Qualifying, Recording
  <1> QED BY <1>1, <1>9, BeginIInv DEF p

LEMMA AdoptIInv ==
  ASSUME IInv, OneOperator, NEW o \in Operators, NEW r \in Recoveries, Adopt(o, r)
  PROVE  IInv'
  <1> DEFINE verdict == disk[<<"decision", r>>].verdict
             todo == AdoptedNames(verdict) \o <<"adoption">>
             c == OfRecovery(o, r, "adopt", todo)
             p == [c EXCEPT !.verdict = verdict]
  <1>1. /\ Begin(o, p) /\ disk[Canonical("marker")] = SourceMarker
        /\ disk[Canonical("adoption")] = None /\ disk[<<"marker", r>>] # None
        /\ disk[<<"marker", r>>].status = "complete" /\ disk[<<"marker", r>>].verdict = verdict
    BY DEF Adopt, Completed, Present
  <1> HIDE DEF verdict, todo
  <1>2. /\ DOMAIN p = Fields /\ p.cmd = "adopt" /\ p.run.recovery = r /\ p.todo = todo
        /\ p.verdict = verdict /\ p.held = None
    BY Fielded DEF OfRecovery, Fields
  <1>3. verdict \in Verdicts
    <2>1. Whole(disk, r)
      BY PathsAre DEF IInv, Kept
    <2> QED BY <1>1, <2>1 DEF Whole, WholeFiles
  <1>4. AdoptStep(verdict, todo, {})
    <2>1. CASE verdict = "winner"
      <3>1. todo = <<"decision", "state", "lock", "model">> \o <<"adoption">>
        BY <2>1 DEF AdoptedNames, todo
      <3>2. todo = <<"decision", "state", "lock", "model", "adoption">>
        <4>1. <<"decision", "state", "lock", "model">> \o <<"adoption">>
                = <<"decision", "state", "lock", "model", "adoption">>
          BY JoinFive
        <4> QED BY <3>1, <4>1
      <3> QED BY <2>1, <3>2 DEF AdoptStep
    <2>2. CASE verdict = "governed_stop"
      <3>1. todo = <<"decision">> \o <<"adoption">>
        BY <2>2 DEF AdoptedNames, todo
      <3>2. todo = <<"decision", "adoption">>
        BY <3>1, Joins
      <3> QED BY <2>2, <3>2 DEF AdoptStep
    <2> QED BY <1>3, <2>1, <2>2 DEF Verdicts
  <1> HIDE DEF p
  <1>5. Adopting(disk, p)
    BY <1>1, <1>2, <1>4 DEF Adopting, Ended
  <1>6. Working(disk, openings, p)
    BY <1>2, <1>5 DEF Working, Holding, Commands, Campaigning, Qualifying, Recording
  <1> QED BY <1>1, <1>6, BeginIInv

LEMMA QualifyIInv ==
  ASSUME IInv, OneOperator, NEW o \in Operators, Qualify(o)
  PROVE  IInv'
  <1> DEFINE lock == disk[Canonical("lock")]
             run == [by |-> o, recovery |-> None]
             todo == <<"qualification", "december", "result">>
             c == Command("qualify", run, head, None, todo)
             p == [c EXCEPT !.winner = lock]
  <1>1. Begin(o, p) /\ Vouched /\ lock.code = head /\ Unopened
    BY DEF Qualify, SameCode
  <1>2. /\ DOMAIN p = Fields /\ p.cmd = "qualify" /\ p.run = run /\ p.code = head /\ p.todo = todo
        /\ p.verdict = None /\ p.winner = lock /\ p.held = None
    BY Fielded DEF Fields
  <1>3. run \in Run /\ run.recovery = None /\ head \in Commits
    BY DEF Run, IInv, TypeOK
  <1>4. Settled(disk)
    BY <1>1 DEF Vouched, AdoptionValid, Settled, Ended, Present, Canonical
  <1>5. openings = <<>>
    BY <1>1 DEF IInv, Opened, Unopened, Present
  <1> HIDE DEF p, lock, run
  <1>6. QualifyStep(p, disk[Canonical("qualification")], openings)
    BY <1>2, <1>5 DEF QualifyStep
  <1>7. Qualifying(disk, openings, p)
    BY <1>1, <1>2, <1>3, <1>4, <1>6 DEF Qualifying, lock
  <1>8. Working(disk, openings, p)
    BY <1>2, <1>7 DEF Working, Holding, Commands, Campaigning, Adopting, Recording
  <1> QED BY <1>1, <1>8, BeginIInv

-----------------------------------------------------------------------------
(* Commands go on *)

\* What a command can be about to do.
LEMMA Heads ==
  ASSUME NEW d, NEW seen, NEW p, Working(d, seen, p), p.todo # <<>>
  PROVE  LET name == Head(p.todo) IN
         \/ /\ p.cmd \in {"develop", "recover"}
            /\ name \in DevelopmentOutputs \union {"finalists", "screening", "november"}
         \/ p.cmd = "adopt" /\ name \in {"decision", "state", "lock", "model", "adoption"}
         \/ p.cmd = "qualify" /\ name \in {"qualification", "december", "result"}
         \/ p.cmd = "export" /\ name \in {"evidence", "sidecar"}
         \/ p.cmd = "terminate" /\ name = "termination"
         \/ p.cmd = "authorize" /\ name = "authorization"
  <1>1. p.cmd \in Commands
    BY Fielded DEF Working, Holding, Idle
  <1>2. CASE p.cmd \in {"develop", "recover"}
    <2>1. CampaignStep(p.cmd, p.verdict, p.todo, Missing(d, p.run.recovery))
      BY <1>2 DEF Working, Campaigning
    <2>2. CampaignHead(p.cmd, p.verdict, p.todo, Missing(d, p.run.recovery))
      BY <1>2, <2>1, CampaignNext
    <2> QED BY <1>2, <2>2 DEF CampaignHead
  <1>3. CASE p.cmd = "adopt"
    <2>1. PICK copied : AdoptStep(p.verdict, p.todo, copied)
      BY <1>3 DEF Working, Adopting
    <2> QED BY <1>3, <2>1, AdoptTail DEF AdoptNext, DevelopmentOutputs
  <1>4. CASE p.cmd = "qualify"
    BY <1>4, Tails DEF Working, Qualifying, QualifyStep
  <1>5. CASE p.cmd \in {"export", "terminate", "authorize"}
    BY <1>5, Tails DEF Working, Recording
  <1> QED BY <1>1, <1>2, <1>3, <1>4, <1>5 DEF Commands

\* A campaign between two files.
LEMMA CampaignMoves ==
  ASSUME NEW d, NEW seen, NEW p, NEW q, Campaigning(d, p),
         DOMAIN q = Fields, q.cmd = p.cmd, q.cmd \in {"develop", "recover"}, q.run = p.run,
         q.code = p.code, q.data = p.data, q.held = None,
         CampaignStep(q.cmd, q.verdict, q.todo, Missing(d, q.run.recovery)),
         q.verdict = p.verdict \/ "decision" \in Missing(d, q.run.recovery)
  PROVE  Working(d, seen, q)
  <1> DEFINE place == q.run.recovery
  <1>1. /\ q.run \in Run /\ q.code \in Commits /\ Permitted(d, p)
        /\ \A name \in DevelopmentOutputs : d[<<name, place>>] \in {None, Expected(p, name)}
    BY DEF Campaigning
  <1>2. Permitted(d, q)
    BY <1>1 DEF Permitted
  <1>3. ASSUME NEW name \in DevelopmentOutputs PROVE d[<<name, place>>] \in {None, Expected(q, name)}
    <2>1. CASE name = "decision" /\ q.verdict # p.verdict
      BY <2>1 DEF Missing
    <2>2. CASE name # "decision" \/ q.verdict = p.verdict
      <3>1. Expected(q, name) = Expected(p, name)
        BY <2>2 DEF Expected, DevelopmentOutputs
      <3> QED BY <1>1, <3>1
    <2> QED BY <2>1, <2>2
  <1>4. Campaigning(d, q)
    BY <1>1, <1>2, <1>3 DEF Campaigning
  <1> QED BY <1>4 DEF Working, Holding, Commands, Adopting, Qualifying, Recording

\* A step that only moves the only operator's command.
LEMMA MoveIInv ==
  ASSUME IInv, OneOperator, NEW o \in Operators, NEW q,
         process' = [process EXCEPT ![o] = q], UNCHANGED <<disk, head, source, openings>>,
         Working(disk, openings, q)
  PROVE  IInv'
  <1>1. process'[o] = q /\ TypeOK'
    BY DEF IInv, TypeOK
  <1>2. Kept(disk') /\ Opened(disk', openings') /\ Working(disk', openings', process'[o])
    BY <1>1 DEF IInv
  <1> QED BY <1>1, <1>2, Conclude

LEMMA ScreeningIInv ==
  ASSUME IInv, OneOperator, NEW o \in Operators, Screening(o)
  PROVE  IInv'
  <1> DEFINE p == process[o]
             q == [p EXCEPT !.todo = Tail(@)]
             missing == Missing(disk, p.run.recovery)
  <1>1. /\ Working(disk, openings, p) /\ p.todo # <<>> /\ Head(p.todo) = "screening"
        /\ process' = [process EXCEPT ![o] = q]
        /\ UNCHANGED <<disk, head, source, openings>>
    BY DEF IInv, Screening
  <1>2. p.cmd \in {"develop", "recover"} /\ DOMAIN p = Fields /\ p.held = None
    BY <1>1, Heads DEF DevelopmentOutputs, Working, Holding, IsFile
  <1>3. /\ DOMAIN q = Fields /\ q.cmd = p.cmd /\ q.run = p.run /\ q.code = p.code /\ q.data = p.data
        /\ q.held = None /\ q.verdict = p.verdict /\ q.todo = Tail(p.todo)
    BY <1>2 DEF Fields
  <1> HIDE DEF p, q
  <1>4. CampaignStep(p.cmd, p.verdict, Tail(p.todo), missing)
    <2>1. CampaignStep(p.cmd, p.verdict, p.todo, missing)
      BY <1>1, <1>2 DEF Working, Campaigning
    <2>2. CampaignTail(p.cmd, p.verdict, p.todo, missing)
      BY <1>1, <1>2, <2>1, CampaignNext
    <2>3. missing \ {"screening"} = missing
      BY DEF Missing, DevelopmentOutputs
    <2> QED BY <1>1, <2>2, <2>3 DEF CampaignTail
  <1>5. Working(disk, openings, q)
    BY <1>1, <1>2, <1>3, <1>4, CampaignMoves DEF Working
  <1> QED BY <1>1, <1>5, MoveIInv

LEMMA NovemberIInv ==
  ASSUME IInv, OneOperator, NEW o \in Operators, November(o)
  PROVE  IInv'
  <1> DEFINE p == process[o]
             missing == Missing(disk, p.run.recovery)
  <1>1. PICK verdict \in Verdicts :
          process' = [process EXCEPT ![o].verdict = verdict, ![o].todo = Outcome(p.cmd, verdict)]
    BY DEF November
  <1> DEFINE q == [p EXCEPT !.verdict = verdict, !.todo = Outcome(p.cmd, verdict)]
  <1>2. /\ Working(disk, openings, p) /\ p.todo # <<>> /\ Head(p.todo) = "november"
        /\ process' = [process EXCEPT ![o] = q]
        /\ UNCHANGED <<disk, head, source, openings>>
    BY <1>1 DEF IInv, November, TypeOK
  <1>3. p.cmd \in {"develop", "recover"} /\ DOMAIN p = Fields /\ p.held = None
    BY <1>2, Heads DEF DevelopmentOutputs, Working, Holding, IsFile
  <1>4. /\ DOMAIN q = Fields /\ q.cmd = p.cmd /\ q.run = p.run /\ q.code = p.code /\ q.data = p.data
        /\ q.held = None /\ q.verdict = verdict /\ q.todo = Outcome(p.cmd, verdict)
    BY <1>3 DEF Fields
  <1> HIDE DEF p, q
  <1>5. CampaignStep(p.cmd, verdict, Outcome(p.cmd, verdict), missing) /\ "decision" \in missing
    <2>1. CampaignStep(p.cmd, p.verdict, p.todo, missing)
      BY <1>2, <1>3 DEF Working, Campaigning
    <2>2. CampaignTail(p.cmd, p.verdict, p.todo, missing)
      BY <1>2, <1>3, <2>1, CampaignNext
    <2>3. "decision" \in missing
      BY <1>2, <2>1, Tails DEF CampaignStep, DevelopmentOutputs
    <2> QED BY <1>2, <2>2, <2>3 DEF CampaignTail
  <1>6. Working(disk, openings, q)
    BY <1>2, <1>3, <1>4, <1>5, CampaignMoves DEF Working
  <1> QED BY <1>2, <1>6, MoveIInv

\* What a campaign finds absent and is about to write.
LEMMA CampaignBytes ==
  ASSUME NEW p, p.cmd \in {"develop", "recover"}, Campaigning(disk, p), p.todo # <<>>,
         IsFile(Head(p.todo)), Head(p.todo) # "finalists"
  PROVE  Bytes(p, Head(p.todo)) = Expected(p, Head(p.todo)) /\ Head(p.todo) \in DevelopmentOutputs
  <1> DEFINE place == p.run.recovery
             name == Head(p.todo)
             missing == Missing(disk, place)
  <1>1. CampaignStep(p.cmd, p.verdict, p.todo, missing)
    BY DEF Campaigning
  <1>2. CampaignHead(p.cmd, p.verdict, p.todo, missing)
    BY <1>1, CampaignNext
  <1> HIDE DEF missing
  <1>3. name \in DevelopmentOutputs
    BY <1>2 DEF CampaignHead, IsFile
  <1>4. CASE name = "lock"
    <2>1. disk[<<"model", place>>] # None
      BY <1>2, <1>4 DEF CampaignHead, missing, Missing, DevelopmentOutputs
    <2>2. disk[<<"model", place>>] = Expected(p, "model")
      BY <2>1 DEF Campaigning, DevelopmentOutputs
    <2>3. Expected(p, "model") = [run |-> p.run]
      BY DEF Expected
    <2>4. Bytes(p, name) = [run |-> p.run, code |-> p.code, state |-> [data |-> p.data],
                            model |-> disk[<<"model", place>>]]
      BY <1>4 DEF Bytes, Place
    <2> QED BY <1>3, <1>4, <2>2, <2>3, <2>4 DEF Expected
  <1>5. CASE name \in {"marker", "decision", "state", "model"}
    BY <1>3, <1>5 DEF Bytes, Expected
  <1> QED BY <1>3, <1>4, <1>5 DEF DevelopmentOutputs

LEMMA CheckIInv ==
  ASSUME IInv, OneOperator, NEW o \in Operators, Check(o)
  PROVE  IInv'
  <1> DEFINE p == process[o]
             name == Head(p.todo)
             bytes == Bytes(p, name)
             q == [p EXCEPT !.held = bytes]
             opening == [run |-> p.winner.model.run, lock |-> p.winner, code |-> p.code]
  <1>1. /\ Working(disk, openings, p) /\ p.todo # <<>> /\ IsFile(name) /\ ~Refused(p, name)
        /\ p.held = None /\ process' = [process EXCEPT ![o] = q]
        /\ openings' = IF name = "december" THEN Append(openings, opening) ELSE openings
        /\ UNCHANGED <<disk, head, source>>
    BY DEF IInv, Check
  <1>2. DOMAIN p = Fields /\ (p = Idle \/ p.cmd \in Commands)
    BY <1>1 DEF Working, Holding
  <1> HIDE DEF bytes
  <1>3. /\ DOMAIN q = Fields /\ q.cmd = p.cmd /\ q.run = p.run /\ q.code = p.code /\ q.data = p.data
        /\ q.todo = p.todo /\ q.verdict = p.verdict /\ q.winner = p.winner /\ q.held = bytes
    BY <1>2 DEF Fields
  <1>4. process'[o] = q /\ TypeOK'
    BY <1>1 DEF IInv, TypeOK
  <1> HIDE DEF p, q
  <1>5. p.cmd \in Commands
    BY <1>1, <1>2, Fielded DEF Idle
  <1>6. Holding(disk, q)
    BY <1>1, <1>3, <1>5 DEF Holding, Refused, Present, Place
  <1>7. name = "december" => p.cmd = "qualify"
    BY <1>1, Heads DEF DevelopmentOutputs
  <1> HIDE DEF name
  <1>8. CASE p.cmd \in {"develop", "recover"}
    <2>1. openings' = openings
      BY <1>1, <1>7, <1>8
    <2>2. Campaigning(disk, p)
      BY <1>1 DEF Working
    <2>3. \A file : Expected(q, file) = Expected(p, file)
      BY <1>3 DEF Expected
    <2>4. name # "finalists" => bytes = Expected(p, name)
      BY <1>1, <1>8, <2>2, CampaignBytes DEF name, bytes
    <2>5. Permitted(disk, q)
      <3>1. name = "state" /\ p.cmd = "recover" => p.data = SourceData
        BY <1>1 DEF Refused
      <3>2. Permitted(disk, p)
        BY <1>8, <2>2 DEF Campaigning
      <3> QED BY <1>3, <3>1, <3>2 DEF Permitted, name
    <2>6. Campaigning(disk, q)
      BY <1>3, <1>8, <2>2, <2>3, <2>4, <2>5 DEF Campaigning, name
    <2>7. Working(disk', openings', q)
      BY <1>1, <1>3, <1>6, <1>8, <2>1, <2>6 DEF Working, Adopting, Qualifying, Recording
    <2> QED BY <1>1, <1>4, <2>1, <2>7, Conclude DEF IInv
  <1>9. CASE p.cmd = "adopt"
    <2>1. openings' = openings
      BY <1>1, <1>7, <1>9
    <2>2. Adopting(disk, p)
      BY <1>1 DEF Working
    <2>3. name # "adoption" => bytes = disk[<<name, p.run.recovery>>]
      BY <1>9 DEF bytes, Bytes, AdoptedBytes
    <2>4. name = "adoption" => bytes.recovery = p.run.recovery /\ bytes.verdict = p.verdict
      BY <1>9 DEF bytes, Bytes, AdoptedBytes
    <2>5. Adopting(disk, q)
      BY <1>1, <1>3, <1>9, <2>2, <2>3, <2>4 DEF Adopting, name
    <2>6. Working(disk', openings', q)
      BY <1>1, <1>3, <1>6, <1>9, <2>1, <2>5 DEF Working, Campaigning, Qualifying, Recording
    <2> QED BY <1>1, <1>4, <2>1, <2>6, Conclude DEF IInv
  <1>10. CASE p.cmd = "qualify"
    <2> DEFINE marker == disk[Canonical("qualification")]
               started == Marker(p.run, p.code, "started", None)
    <2>1. Qualifying(disk, openings, p)
      BY <1>1 DEF Working
    <2>2. QualifyStep(p, marker, openings)
      BY <1>10, <2>1 DEF Qualifying
    <2> HIDE DEF marker
    <2>3. CASE name = "december"
      <3>1. p.todo = <<"december", "result">> /\ marker = started /\ openings = <<>>
        BY <1>1, <2>2, <2>3, Tails DEF QualifyStep, name
      <3>2. bytes # None
        BY <1>10, <2>3, LifecycleAssumption DEF bytes, Bytes
      <3>3. openings' = <<opening>>
        BY <1>1, <2>3, <3>1
      <3>4. QualifyStep(q, marker, openings')
        BY <1>3, <3>1, <3>2 DEF QualifyStep
      <3>5. Qualifying(disk, openings', q)
        BY <1>3, <1>10, <2>1, <3>4 DEF Qualifying, marker
      <3>6. Working(disk', openings', q)
        BY <1>1, <1>3, <1>6, <1>10, <3>5 DEF Working, Campaigning, Adopting, Recording
      <3>7. Opened(disk, openings')
        <4> DEFINE lock == disk[Canonical("lock")]
        <4>1. Settled(disk) /\ p.winner = lock /\ p.code = lock.code
          BY <1>10, <2>1 DEF Qualifying
        <4>2. lock.model = [run |-> lock.run]
          BY <4>1, WinnerThere DEF IInv
        <4>3. marker # None
          <5>1. p.run \in Run /\ p.code \in Commits
            BY <1>10, <2>1 DEF Qualifying
          <5> QED BY <3>1, <5>1, MarkersAre DEF Statuses
        <4> HIDE DEF lock
        <4>4. openings' = <<[run |-> lock.run, lock |-> lock, code |-> lock.code]>>
          BY <3>3, <4>1, <4>2
        <4> QED BY <4>1, <4>3, <4>4 DEF Opened, lock, marker
      <3> QED BY <1>1, <1>4, <3>6, <3>7, Conclude DEF IInv
    <2>4. CASE name # "december"
      <3>1. openings' = openings
        BY <1>1, <2>4
      <3>2. name = "qualification" => bytes = started
        BY <1>10 DEF bytes, Bytes
      <3>3. QualifyStep(q, marker, openings)
        BY <1>1, <1>3, <2>2, <2>4, <3>2, Tails DEF QualifyStep, name
      <3>4. Qualifying(disk, openings, q)
        BY <1>3, <1>10, <2>1, <3>3 DEF Qualifying, marker
      <3>5. Working(disk', openings', q)
        BY <1>1, <1>3, <1>6, <1>10, <3>1, <3>4 DEF Working, Campaigning, Adopting, Recording
      <3> QED BY <1>1, <1>4, <3>1, <3>5, Conclude DEF IInv
    <2> QED BY <2>3, <2>4
  <1>11. CASE p.cmd \in {"export", "terminate", "authorize"}
    <2>1. openings' = openings
      BY <1>1, <1>7, <1>11
    <2>2. Recording(disk, p)
      BY <1>1 DEF Working
    <2>3. p.cmd = "authorize" =>
            bytes = [termination |-> disk[<<"termination", p.run.recovery>>],
                     evidence |-> disk[<<"evidence", p.run.recovery>>]]
      <3>1. p.cmd = "authorize" => name = "authorization"
        BY <1>1, Heads DEF name
      <3> QED BY <3>1 DEF bytes, Bytes
    <2>4. Recording(disk, q)
      BY <1>3, <1>11, <2>2, <2>3 DEF Recording
    <2>5. Working(disk', openings', q)
      BY <1>1, <1>3, <1>6, <1>11, <2>1, <2>4 DEF Working, Campaigning, Adopting, Qualifying
    <2> QED BY <1>1, <1>4, <2>1, <2>5, Conclude DEF IInv
  <1> QED BY <1>5, <1>8, <1>9, <1>10, <1>11 DEF Commands

-----------------------------------------------------------------------------
(* Files are renamed into place *)

\* The command q that is left of p when the file it is about to write is there.
Leaves(p, q) ==
  /\ DOMAIN q = Fields /\ q.cmd = p.cmd /\ q.run = p.run /\ q.code = p.code /\ q.data = p.data
  /\ q.verdict = p.verdict /\ q.winner = p.winner /\ q.held = None /\ q.todo = Tail(p.todo)

LEMMA CampaignSound ==
  ASSUME NEW d, NEW p, p.cmd \in {"develop", "recover"}, Campaigning(d, p),
         p.todo # <<>>, IsFile(Head(p.todo)), p.held # None
  PROVE  /\ Sound(d, Head(p.todo), p.run.recovery, p.held)
         /\ <<Head(p.todo), p.run.recovery>> \in Paths
         /\ Head(p.todo) \in DevelopmentOutputs \union {"finalists"}
  <1> DEFINE name == Head(p.todo)
             place == p.run.recovery
             missing == Missing(d, place)
  <1>1. /\ CampaignStep(p.cmd, p.verdict, p.todo, missing)
        /\ p.run \in Run /\ p.code \in Commits /\ Permitted(d, p)
        /\ name # "finalists" => p.held = Expected(p, name)
        /\ \A file \in DevelopmentOutputs : d[<<file, place>>] \in {None, Expected(p, file)}
    BY DEF Campaigning
  <1>2. CampaignHead(p.cmd, p.verdict, p.todo, missing)
    BY <1>1, CampaignNext
  <1>3. place \in Places /\ (p.cmd = "recover" => place \in Recoveries)
    BY <1>1 DEF Run, Places, Permitted
  <1> HIDE DEF missing, place
  <1>4. name \in DevelopmentOutputs \union {"finalists"} /\ (name = "finalists" => p.cmd = "recover")
    BY <1>2 DEF CampaignHead, IsFile
  <1>5. <<name, place>> \in Paths
    BY <1>3, <1>4, PathsAre DEF RecoveryOutputs
  <1>6. place # None => p.cmd = "recover"
    BY <1>1 DEF Permitted, place
  <1>7. CASE name = "marker"
    <2>1. p.held.status = "started"
      BY <1>1, <1>7 DEF Expected, Marker
    <2>2. place # None => d[<<"authorization", place>>] # None /\ p.held.code >= CorrectiveCommit
      BY <1>1, <1>6, <1>7 DEF Expected, Marker, Permitted, place
    <2> QED BY <1>4, <1>5, <1>7, <2>1, <2>2 DEF Sound, place
  <1>8. CASE name = "decision"
    <2>1. "state" \notin missing
      BY <1>2, <1>8 DEF CampaignHead
    <2>2. d[<<"state", place>>] # None /\ "state" \in DevelopmentOutputs
      BY <2>1 DEF missing, Missing, DevelopmentOutputs
    <2>3. d[<<"state", place>>] = Expected(p, "state")
      BY <1>1, <2>2 DEF place
    <2>4. d[<<"state", place>>] = [data |-> p.data]
      BY <2>3 DEF Expected
    <2>5. place # None => p.data = SourceData
      BY <1>1, <1>6, <2>1 DEF Permitted, missing, place
    <2> QED BY <1>4, <1>5, <1>8, <2>2, <2>4, <2>5 DEF Sound, place
  <1>9. CASE name = "lock"
    BY <1>1, <1>4, <1>5, <1>9 DEF Expected, Sound, place
  <1>10. CASE name \in {"state", "model", "finalists"}
    BY <1>4, <1>5, <1>10 DEF Sound, place
  <1> QED BY <1>4, <1>7, <1>8, <1>9, <1>10 DEF DevelopmentOutputs

LEMMA CampaignWrites ==
  ASSUME NEW d, NEW e, NEW seen, NEW p, NEW q, p.cmd \in {"develop", "recover"}, Campaigning(d, p),
         p.todo # <<>>, IsFile(Head(p.todo)), p.held # None, Leaves(p, q),
         Written(d, e, <<Head(p.todo), p.run.recovery>>, p.held)
  PROVE  Working(e, seen, q)
  <1> DEFINE name == Head(p.todo)
             place == p.run.recovery
             missing == Missing(d, place)
  <1>1. /\ CampaignStep(p.cmd, p.verdict, p.todo, missing)
        /\ p.run \in Run /\ p.code \in Commits /\ Permitted(d, p)
        /\ name # "finalists" => p.held = Expected(p, name)
        /\ \A file \in DevelopmentOutputs : d[<<file, place>>] \in {None, Expected(p, file)}
    BY DEF Campaigning
  <1>2. name \in DevelopmentOutputs \union {"finalists"} /\ <<name, place>> \in Paths
    BY CampaignSound
  <1>3. place \in Places
    BY <1>1 DEF Run, Places
  <1>4. \A file : Expected(q, file) = Expected(p, file)
    BY DEF Expected, Leaves
  <1>5. CampaignStep(p.cmd, p.verdict, Tail(p.todo), missing \ {name})
    <2>1. CampaignTail(p.cmd, p.verdict, p.todo, missing)
      BY <1>1, CampaignNext
    <2> QED BY <2>1 DEF CampaignTail, IsFile
  <1> HIDE DEF missing, place, name
  <1>6. \A file \in DevelopmentOutputs :
          e[<<file, place>>] = IF file = name THEN p.held ELSE d[<<file, place>>]
    BY <1>3, PathsAre DEF Written, place, name
  <1>7. Missing(e, place) = missing \ {name}
    BY <1>6 DEF missing, Missing
  <1>8. \A file \in DevelopmentOutputs : e[<<file, place>>] \in {None, Expected(q, file)}
    BY <1>1, <1>2, <1>4, <1>6 DEF DevelopmentOutputs
  <1>9. Permitted(e, q)
    <2>1. CASE p.cmd = "develop"
      <3>1. place = None /\ d[Canonical("adoption")] = None
        BY <1>1, <2>1 DEF Permitted, place
      <3>2. Canonical("adoption") \in Paths /\ Canonical("adoption") # <<name, place>>
        BY <1>2, PathsAre DEF Canonical, DevelopmentOutputs
      <3>3. e[Canonical("adoption")] = None
        BY <3>1, <3>2 DEF Written, name, place
      <3> QED BY <2>1, <3>1, <3>3 DEF Permitted, Leaves, place
    <2>2. CASE p.cmd = "recover"
      <3>1. /\ place \in Recoveries /\ p.code >= CorrectiveCommit
            /\ d[<<"authorization", place>>] # None
            /\ "state" \notin missing => p.data = SourceData
            /\ name = "state" => p.data = SourceData
        BY <1>1, <2>2 DEF Permitted, place, name, missing
      <3>2. <<"authorization", place>> \in Paths /\ <<"authorization", place>> # <<name, place>>
        BY <1>2, <3>1, PathsAre DEF DevelopmentOutputs
      <3>3. e[<<"authorization", place>>] # None
        BY <3>1, <3>2 DEF Written, name, place
      <3> QED BY <1>7, <2>2, <3>1, <3>3 DEF Permitted, Leaves, place
    <2> QED BY <2>1, <2>2
  <1>10. Campaigning(e, q)
    BY <1>1, <1>5, <1>7, <1>8, <1>9 DEF Campaigning, Leaves, place
  <1> QED BY <1>10 DEF Working, Holding, Commands, Adopting, Qualifying, Recording, Leaves

LEMMA AdoptSound ==
  ASSUME TypeOK, NEW d, NEW p, p.cmd = "adopt", Adopting(d, p), Kept(d),
         p.todo # <<>>, IsFile(Head(p.todo)), p.held # None
  PROVE  /\ Sound(d, Head(p.todo), None, p.held)
         /\ <<Head(p.todo), None>> \in Paths
         /\ Head(p.todo) \in DevelopmentOutputs \union {"adoption"} /\ Head(p.todo) # "marker"
  <1> DEFINE name == Head(p.todo)
             r == p.run.recovery
  <1>1. PICK copied \in SUBSET DevelopmentOutputs :
               /\ AdoptStep(p.verdict, p.todo, copied)
               /\ \A file \in copied : d[Canonical(file)] = d[<<file, r>>]
    BY DEF Adopting
  <1>2. /\ r \in Recoveries /\ Ended(d, r, p.verdict) /\ d[Canonical("marker")] = SourceMarker
        /\ name # "adoption" => p.held = d[<<name, r>>]
        /\ name = "adoption" => p.held.recovery = r /\ p.held.verdict = p.verdict
    BY DEF Adopting
  <1>3. AdoptNext(p.verdict, p.todo, copied)
    BY <1>1, AdoptTail
  <1> HIDE DEF r
  <1>4. name \in DevelopmentOutputs \union {"adoption"} /\ name # "marker"
    BY <1>3 DEF AdoptNext
  <1>5. <<name, None>> \in Paths
    BY <1>4, PathsAre
  <1>6. CASE name = "adoption"
    <2>1. /\ d[Canonical("decision")] = d[<<"decision", r>>]
          /\ p.verdict = "winner" =>
               \A file \in {"state", "lock", "model"} : d[Canonical(file)] = d[<<file, r>>]
      BY <1>1, <1>3, <1>6 DEF AdoptNext
    <2> QED BY <1>2, <1>4, <1>5, <1>6, <2>1 DEF Sound
  <1>7. CASE name = "lock"
    <2>1. TrueLock(d, r)
      BY <1>2, PathsAre DEF Kept
    <2> QED BY <1>2, <1>4, <1>5, <1>7, <2>1 DEF Sound, TrueLock
  <1>8. CASE name \in {"decision", "state", "model"}
    BY <1>4, <1>5, <1>8 DEF Sound
  <1> QED BY <1>4, <1>6, <1>7, <1>8 DEF DevelopmentOutputs

LEMMA AdoptWrites ==
  ASSUME TypeOK, NEW d, NEW e, NEW seen, NEW p, NEW q, p.cmd = "adopt", Adopting(d, p), Kept(d),
         p.todo # <<>>, IsFile(Head(p.todo)), p.held # None, d[<<Head(p.todo), None>>] = None,
         Leaves(p, q), Written(d, e, <<Head(p.todo), None>>, p.held)
  PROVE  Working(e, seen, q)
  <1> DEFINE name == Head(p.todo)
             r == p.run.recovery
  <1>1. PICK copied \in SUBSET DevelopmentOutputs :
               /\ AdoptStep(p.verdict, p.todo, copied)
               /\ \A file \in copied : d[Canonical(file)] = d[<<file, r>>]
    BY DEF Adopting
  <1>2. /\ r \in Recoveries /\ Ended(d, r, p.verdict)
        /\ d[Canonical("marker")] = SourceMarker /\ d[Canonical("adoption")] = None
        /\ name # "adoption" => p.held = d[<<name, r>>]
    BY DEF Adopting
  <1>3. AdoptNext(p.verdict, p.todo, copied)
    BY <1>1, AdoptTail
  <1>4. name \in DevelopmentOutputs \union {"adoption"} /\ name # "marker"
    BY AdoptSound
  <1> HIDE DEF r, name
  <1>5. r # None /\ r \in Places /\ None \in Places
    BY <1>2, PathsAre
  <1>6. \A file \in DevelopmentOutputs :
          /\ e[<<file, r>>] = d[<<file, r>>]
          /\ e[Canonical(file)] = IF file = name THEN p.held ELSE d[Canonical(file)]
    BY <1>5, PathsAre DEF Written, Canonical, name
  <1>7. Ended(e, r, p.verdict) /\ e[Canonical("marker")] = SourceMarker
    BY <1>2, <1>4, <1>6 DEF Ended, DevelopmentOutputs
  <1>8. CASE name = "adoption"
    <2>1. q.todo = <<>>
      BY <1>3, <1>8 DEF AdoptNext, Leaves, name
    <2>2. Adopting(e, q)
      BY <1>2, <1>7, <2>1 DEF Adopting, Leaves, r
    <2> QED BY <2>2 DEF Working, Holding, Commands, Campaigning, Qualifying, Recording, Leaves
  <1>9. CASE name # "adoption"
    <2>1. e[Canonical("adoption")] = None
      <3>1. Canonical("adoption") \in Paths
        BY PathsAre DEF Canonical
      <3> QED BY <1>2, <1>9, <3>1 DEF Written, Canonical, name
    <2>2. AdoptStep(q.verdict, q.todo, copied \union {name})
      BY <1>3, <1>9 DEF AdoptNext, Leaves, name
    <2>3. \A file \in copied \union {name} : e[Canonical(file)] = e[<<file, r>>]
      BY <1>1, <1>2, <1>4, <1>6, <1>9 DEF r
    <2>4. copied \union {name} \in SUBSET DevelopmentOutputs
      BY <1>4, <1>9
    <2>5. Adopting(e, q)
      BY <1>2, <1>7, <2>1, <2>2, <2>3, <2>4 DEF Adopting, Leaves, r
    <2> QED BY <2>5 DEF Working, Holding, Commands, Campaigning, Qualifying, Recording, Leaves
  <1> QED BY <1>8, <1>9

LEMMA QualifyWrites ==
  ASSUME TypeOK, NEW d, NEW e, NEW seen, NEW p, NEW q, p.cmd = "qualify",
         Kept(d), Working(d, seen, p), p.todo # <<>>, p.held # None, d[<<Head(p.todo), None>>] = None,
         Leaves(p, q), Written(d, e, <<Head(p.todo), None>>, p.held)
  PROVE  /\ Sound(d, Head(p.todo), None, p.held)
         /\ <<Head(p.todo), None>> \in Paths
         /\ Working(e, seen, q)
  <1> DEFINE name == Head(p.todo)
             marker == d[Canonical("qualification")]
             started == Marker(p.run, p.code, "started", None)
  <1>1. name \in {"qualification", "december", "result"}
    BY Heads
  <1>2. Qualifying(d, seen, p)
    BY DEF Working
  <1>3. QualifyStep(p, marker, seen)
    BY <1>2 DEF Qualifying
  <1>4. Sound(d, name, None, p.held)
    BY <1>1 DEF Sound
  <1>5. <<name, None>> \in Paths
    BY <1>1, PathsAre
  <1>6. Settled(d) /\ Settled(e)
    BY <1>2, WriteSettles DEF Qualifying
  <1>7. e[Canonical("lock")] = d[Canonical("lock")]
    <2>1. Canonical("lock") \in Paths /\ d[Canonical("lock")] # None
      BY <1>6, WinnerThere, PathsAre DEF Canonical, DevelopmentOutputs
    <2> QED BY <2>1 DEF Written
  <1>8. /\ Canonical("qualification") \in Paths
        /\ e[Canonical("qualification")] = IF name = "qualification" THEN p.held ELSE marker
    BY PathsAre DEF Written, Canonical
  <1> HIDE DEF marker
  <1>9. QualifyStep(q, e[Canonical("qualification")], seen)
    <2>1. CASE name = "qualification"
      <3>1. p.todo = <<"qualification", "december", "result">> /\ p.held = started /\ seen = <<>>
        BY <1>3, <2>1, Tails DEF QualifyStep
      <3>2. q.todo = <<"december", "result">>
        BY <3>1, Tails DEF Leaves
      <3> QED BY <1>8, <2>1, <3>1, <3>2 DEF QualifyStep, Leaves
    <2>2. CASE name = "december"
      <3>1. p.todo = <<"december", "result">> /\ marker = started
        BY <1>3, <2>2, Tails DEF QualifyStep
      <3>2. q.todo = <<"result">>
        BY <3>1, Tails DEF Leaves
      <3> QED BY <1>8, <2>2, <3>1, <3>2 DEF QualifyStep, Leaves
    <2>3. CASE name = "result"
      <3>1. p.todo = <<"result">> /\ marker = started
        BY <1>3, <2>3, Tails DEF QualifyStep
      <3>2. q.todo = <<>>
        BY <3>1, Tails DEF Leaves
      <3> QED BY <1>8, <2>3, <3>1, <3>2 DEF QualifyStep, Leaves
    <2> QED BY <1>1, <2>1, <2>2, <2>3
  <1>10. Qualifying(e, seen, q)
    BY <1>2, <1>6, <1>7, <1>9 DEF Qualifying, Leaves
  <1>11. Working(e, seen, q)
    BY <1>10 DEF Working, Holding, Commands, Campaigning, Adopting, Recording, Leaves
  <1> QED BY <1>4, <1>5, <1>11

LEMMA RecordWrites ==
  ASSUME NEW d, NEW e, NEW seen, NEW p, NEW q, p.cmd \in {"export", "terminate", "authorize"},
         Working(d, seen, p), p.todo # <<>>, p.held # None,
         Leaves(p, q), Written(d, e, <<Head(p.todo), p.run.recovery>>, p.held)
  PROVE  /\ Sound(d, Head(p.todo), p.run.recovery, p.held)
         /\ <<Head(p.todo), p.run.recovery>> \in Paths
         /\ Working(e, seen, q)
  <1> DEFINE name == Head(p.todo)
             r == p.run.recovery
  <1>1. \/ p.cmd = "export" /\ name \in {"evidence", "sidecar"}
        \/ p.cmd = "terminate" /\ name = "termination"
        \/ p.cmd = "authorize" /\ name = "authorization"
    BY Heads
  <1>2. Recording(d, p)
    BY DEF Working
  <1> HIDE DEF name, r
  <1>3. r \in Recoveries
    BY <1>2 DEF Recording, r
  <1>4. <<name, r>> \in Paths
    BY <1>1, <1>3, PathsAre
  <1>5. p.cmd = "authorize" =>
          /\ d[<<"termination", r>>] # None
          /\ d[<<"evidence", r>>] # None /\ d[<<"sidecar", r>>] = d[<<"evidence", r>>]
          /\ p.held = [termination |-> d[<<"termination", r>>], evidence |-> d[<<"evidence", r>>]]
    BY <1>2 DEF Recording, r
  <1>6. Sound(d, name, r, p.held)
    BY <1>1, <1>5 DEF Sound
  <1>7. Recording(e, q)
    <2>1. CASE p.cmd = "export"
      <3>1. q.todo \in {<<"sidecar">>, <<>>}
        <4>1. p.todo \in {<<"evidence", "sidecar">>, <<"sidecar">>}
          BY <1>2, <2>1 DEF Recording
        <4>2. /\ Tail(<<"evidence", "sidecar">>) = <<"sidecar">>
              /\ Tail(<<"sidecar">>) = <<>>
          BY Tails
        <4>3. Tail(p.todo) \in {<<"sidecar">>, <<>>}
          BY <4>1, <4>2
        <4> QED BY <4>3 DEF Leaves
      <3> QED BY <1>3, <2>1, <3>1 DEF Recording, Leaves, r
    <2>2. CASE p.cmd = "terminate"
      <3>1. q.todo = <<>>
        <4>1. p.todo = <<"termination">>
          BY <1>2, <2>2 DEF Recording
        <4> QED BY <4>1, Tails DEF Leaves
      <3> QED BY <1>3, <2>2, <3>1 DEF Recording, Leaves, r
    <2>3. CASE p.cmd = "authorize"
      <3>1. q.todo = <<>>
        <4>1. p.todo = <<"authorization">>
          BY <1>2, <2>3 DEF Recording
        <4> QED BY <4>1, Tails DEF Leaves
      <3>2. \A file \in {"termination", "evidence", "sidecar"} : e[<<file, r>>] = d[<<file, r>>]
        <4>1. name = "authorization"
          BY <1>1, <2>3
        <4> QED BY <1>3, <4>1, PathsAre DEF Written, name, r
      <3> QED BY <1>3, <1>5, <2>3, <3>1, <3>2 DEF Recording, Leaves, r
    <2> QED BY <2>1, <2>2, <2>3
  <1>8. Working(e, seen, q)
    BY <1>7 DEF Working, Holding, Commands, Campaigning, Adopting, Qualifying, Leaves
  <1> QED BY <1>4, <1>6, <1>8 DEF name, r

\* A command renames its file into place where none is, and goes on.
LEMMA ReplaceStep ==
  ASSUME IInv, NEW o \in Operators, Replace(o)
  PROVE  LET p == process[o]  path == Place(p, Head(p.todo)) IN
         /\ path \in Paths /\ disk[path] = None
         /\ Written(disk, disk', path, p.held)
         /\ disk' = [q \in Paths |-> disk'[q]]
         /\ p.held # None /\ p.todo # <<>> /\ IsFile(Head(p.todo)) /\ p.cmd \in Commands
         /\ path = <<Head(p.todo), IF p.cmd = "adopt" THEN None ELSE p.run.recovery>>
         /\ Sound(disk, Head(p.todo), IF p.cmd = "adopt" THEN None ELSE p.run.recovery, p.held)
         /\ Leaves(p, process'[o]) /\ Working(disk', openings, process'[o])
         /\ process' = [other \in Operators |-> process'[other]]
  <1> DEFINE p == process[o]
             name == Head(p.todo)
             place == IF p.cmd = "adopt" THEN None ELSE p.run.recovery
             q == [p EXCEPT !.held = None, !.todo = Tail(p.todo)]
  <1>1. /\ Working(disk, openings, p) /\ p.held # None
        /\ disk' = [disk EXCEPT ![<<name, place>>] = p.held]
        /\ process' = [process EXCEPT ![o] = q]
        /\ TypeOK /\ Kept(disk)
    BY DEF IInv, Replace, Place, TypeOK
  <1>2. /\ DOMAIN p = Fields /\ (p = Idle \/ p.cmd \in Commands)
        /\ p.todo # <<>> /\ IsFile(name) /\ disk[<<name, place>>] = None
    BY <1>1 DEF Working, Holding, Place
  <1>3. process'[o] = q /\ process' = [other \in Operators |-> process'[other]]
    BY <1>1 DEF TypeOK
  <1>4. DOMAIN q = Fields /\ Leaves(p, q)
    BY <1>2 DEF Fields, Leaves
  <1> HIDE DEF p, q, name
  <1>5. p.cmd \in Commands
    BY <1>1, <1>2, Fielded DEF Idle
  <1>6. ASSUME <<name, place>> \in Paths
        PROVE  /\ Written(disk, disk', <<name, place>>, p.held)
               /\ disk' = [path \in Paths |-> disk'[path]]
    BY <1>1, <1>6, DiskWritten
  <1>7. Sound(disk, name, place, p.held) /\ <<name, place>> \in Paths
        /\ Working(disk', openings, q)
    <2>1. CASE p.cmd \in {"develop", "recover"}
      <3>1. place = p.run.recovery /\ Campaigning(disk, p)
        BY <1>1, <2>1 DEF Working
      <3>2. Sound(disk, name, place, p.held) /\ <<name, place>> \in Paths
        BY <1>1, <1>2, <2>1, <3>1, CampaignSound DEF name
      <3>3. Working(disk', openings, q)
        BY <1>1, <1>2, <1>4, <1>6, <2>1, <3>1, <3>2, CampaignWrites DEF name
      <3> QED BY <3>2, <3>3
    <2>2. CASE p.cmd = "adopt"
      <3>1. place = None /\ Adopting(disk, p)
        BY <1>1, <2>2 DEF Working
      <3>2. Sound(disk, name, place, p.held) /\ <<name, place>> \in Paths
        BY <1>1, <1>2, <2>2, <3>1, AdoptSound DEF name
      <3>3. Working(disk', openings, q)
        BY <1>1, <1>2, <1>4, <1>6, <2>2, <3>1, <3>2, AdoptWrites DEF name
      <3> QED BY <3>2, <3>3
    <2>3. CASE p.cmd = "qualify"
      <3>1. place = None
        BY <1>1, <2>3 DEF Working, Qualifying
      <3>2. <<name, place>> \in Paths
        <4>1. name \in {"qualification", "december", "result"}
          BY <1>1, <1>2, <2>3, Heads DEF name
        <4> QED BY <3>1, <4>1, PathsAre
      <3>3. /\ disk[<<name, None>>] = None /\ Written(disk, disk', <<name, None>>, p.held)
            /\ <<name, place>> = <<name, None>>
        BY <1>2, <1>6, <3>1, <3>2
      <3>4. Sound(disk, name, None, p.held) /\ Working(disk', openings, q)
        BY <1>1, <1>2, <1>4, <2>3, <3>3, QualifyWrites DEF name
      <3> QED BY <3>1, <3>2, <3>4
    <2>4. CASE p.cmd \in {"export", "terminate", "authorize"}
      <3>1. place = p.run.recovery /\ p.run.recovery \in Recoveries
        BY <1>1, <2>4 DEF Working, Recording
      <3>2. <<name, place>> \in Paths
        <4>1. name \in {"evidence", "sidecar", "termination", "authorization"}
          BY <1>1, <1>2, <2>4, Heads DEF name
        <4> QED BY <3>1, <4>1, PathsAre
      <3>3. Written(disk, disk', <<name, p.run.recovery>>, p.held)
        BY <1>6, <3>1, <3>2
      <3>4. Sound(disk, name, p.run.recovery, p.held) /\ Working(disk', openings, q)
        BY <1>1, <1>2, <1>4, <2>4, <3>3, RecordWrites DEF name
      <3> QED BY <3>1, <3>2, <3>4
    <2> QED BY <1>5, <2>1, <2>2, <2>3, <2>4 DEF Commands
  <1> QED BY <1>1, <1>2, <1>3, <1>4, <1>5, <1>6, <1>7 DEF Place, p, name

LEMMA ReplaceIInv ==
  ASSUME IInv, OneOperator, NEW o \in Operators, Replace(o)
  PROVE  IInv'
  <1> DEFINE p == process[o]
             place == IF p.cmd = "adopt" THEN None ELSE p.run.recovery
             path == <<Head(p.todo), place>>
  <1>1. /\ path \in Paths /\ disk[path] = None /\ Written(disk, disk', path, p.held)
        /\ disk' = [q \in Paths |-> disk'[q]]
        /\ Sound(disk, Head(p.todo), place, p.held)
        /\ Working(disk', openings, process'[o])
        /\ process' = [other \in Operators |-> process'[other]]
    BY ReplaceStep
  <1>2. UNCHANGED <<head, source, openings>>
    BY DEF Replace
  <1>3. TypeOK /\ Kept(disk) /\ Opened(disk, openings)
    BY DEF IInv
  <1> HIDE DEF p, place
  <1>4. Kept(disk')
    BY <1>1, <1>3, WriteKeeps
  <1>5. Opened(disk', openings)
    BY <1>1, <1>3, WriteOpened
  <1>6. TypeOK'
    BY <1>1, <1>2, <1>3 DEF TypeOK
  <1> QED BY <1>1, <1>2, <1>4, <1>5, <1>6, Conclude

-----------------------------------------------------------------------------
(* Commands end *)

\* A command that keeps a marker finds it as it has left it.
LEMMA Marked ==
  ASSUME TypeOK, NEW d, NEW seen, NEW p, Working(d, seen, p), HasMarker(p)
  PROVE  LET marker == Place(p, MarkerName(p)) IN
         /\ p.cmd \in {"develop", "recover", "qualify"} /\ p.run \in Run /\ p.code \in Commits
         /\ d[marker] = Marker(p.run, p.code, "started", None)
         /\ p.cmd = "qualify" => marker = Canonical("qualification") /\ p.verdict = None
         /\ p.cmd # "qualify" => /\ marker = <<"marker", p.run.recovery>>
                                 /\ p.run.recovery \in Places /\ Campaigning(d, p)
                                 /\ p.run.recovery = None => d[Canonical("adoption")] = None
  <1> DEFINE place == p.run.recovery
             missing == Missing(d, place)
  <1>1. CASE p.cmd \in {"develop", "recover"}
    <2>1. /\ Campaigning(d, p) /\ CampaignStep(p.cmd, p.verdict, p.todo, missing)
          /\ p.run \in Run /\ p.code \in Commits /\ Permitted(d, p)
      BY <1>1 DEF Working, Campaigning
    <2>2. "marker" \notin missing
      <3>1. CASE p.todo = <<>>
        BY <2>1, <3>1, CampaignEnd
      <3>2. CASE p.todo # <<>>
        <4>1. Head(p.todo) # "marker"
          BY <1>1, <3>2 DEF HasMarker, MarkerName
        <4>2. CampaignHead(p.cmd, p.verdict, p.todo, missing)
          BY <1>1, <2>1, <3>2, CampaignNext
        <4> QED BY <4>1, <4>2 DEF CampaignHead
      <3> QED BY <3>1, <3>2
    <2>3. d[<<"marker", place>>] # None
      BY <2>2 DEF Missing, DevelopmentOutputs
    <2>4. d[<<"marker", place>>] = Expected(p, "marker")
      BY <2>1, <2>3, <1>1 DEF Campaigning, DevelopmentOutputs
    <2>5. place \in Places
      BY <2>1 DEF Run, Places
    <2>6. place = None => d[Canonical("adoption")] = None
      BY <1>1, <2>1, PathsAre DEF Permitted
    <2>7. Place(p, MarkerName(p)) = <<"marker", place>>
      BY <1>1 DEF Place, MarkerName
    <2> QED BY <1>1, <2>1, <2>4, <2>5, <2>6, <2>7 DEF Expected
  <1>2. CASE p.cmd = "qualify"
    <2>1. /\ p.run \in Run /\ p.run.recovery = None /\ p.code \in Commits /\ p.verdict = None
          /\ QualifyStep(p, d[Canonical("qualification")], seen)
      BY <1>2 DEF Working, Qualifying
    <2>2. p.todo # <<"qualification", "december", "result">>
      BY SMTT(30), <1>2, Tails DEF HasMarker, MarkerName
    <2>3. Place(p, MarkerName(p)) = Canonical("qualification")
      BY <1>2, <2>1 DEF Place, MarkerName, Canonical
    <2> QED BY <1>2, <2>1, <2>2, <2>3 DEF QualifyStep
  <1> QED BY <1>1, <1>2 DEF HasMarker

\* The marker of a qualification says nothing about a winner.
LEMMA QualificationKeeps ==
  ASSUME NEW d, NEW e, NEW v, NEW seen, Kept(d), Opened(d, seen),
         Written(d, e, Canonical("qualification"), v), v # None
  PROVE  Kept(e) /\ Opened(e, seen)
  <1>1. \A name \in DevelopmentOutputs, place \in Places : e[<<name, place>>] = d[<<name, place>>]
    BY PathsAre DEF Written, Canonical, DevelopmentOutputs
  <1>2. \A name \in {"evidence", "sidecar", "termination", "authorization"}, r \in Recoveries :
          e[<<name, r>>] = d[<<name, r>>]
    BY PathsAre DEF Written, Canonical
  <1>3. e[Canonical("adoption")] = d[Canonical("adoption")] /\ e[Canonical("qualification")] = v
    BY PathsAre DEF Written, Canonical
  <1>4. None \in Places /\ \A r \in Recoveries : r \in Places
    BY PathsAre
  <1>5. \A place \in Places :
          /\ e[<<"marker", place>>] = d[<<"marker", place>>]
          /\ e[<<"decision", place>>] = d[<<"decision", place>>]
          /\ e[<<"state", place>>] = d[<<"state", place>>]
          /\ e[<<"lock", place>>] = d[<<"lock", place>>]
          /\ e[<<"model", place>>] = d[<<"model", place>>]
    BY <1>1 DEF DevelopmentOutputs
  <1>6. \A place \in Places : Whole(e, place) /\ TrueLock(e, place)
    BY <1>5 DEF Kept, Whole, TrueLock
  <1>7. ASSUME NEW r \in Recoveries PROVE Chained(e, r)
    <2>1. Chained(d, r)
      BY DEF Kept
    <2>2. /\ e[<<"authorization", r>>] = d[<<"authorization", r>>]
          /\ e[<<"termination", r>>] = d[<<"termination", r>>]
          /\ e[<<"evidence", r>>] = d[<<"evidence", r>>] /\ e[<<"sidecar", r>>] = d[<<"sidecar", r>>]
          /\ e[<<"marker", r>>] = d[<<"marker", r>>]
          /\ e[<<"decision", r>>] = d[<<"decision", r>>] /\ e[<<"state", r>>] = d[<<"state", r>>]
      BY <1>2, <1>4, <1>5
    <2> QED BY <2>1, <2>2 DEF Chained
  <1>8. ASSUME NEW place \in Places, NEW verdict PROVE Ended(e, place, verdict) <=> Ended(d, place, verdict)
    BY <1>5 DEF Ended
  <1>9. Faithful(e)
    <2> DEFINE r == d[Canonical("adoption")].recovery
    <2> SUFFICES ASSUME d[Canonical("adoption")] # None PROVE Faithful(e)
      BY <1>3 DEF Faithful
    <2>1. /\ r \in Recoveries /\ Ended(d, r, d[Canonical("adoption")].verdict)
          /\ d[Canonical("marker")] = SourceMarker
          /\ d[Canonical("decision")] = d[<<"decision", r>>]
          /\ d[Canonical("adoption")].verdict = "winner" =>
               \A name \in {"state", "lock", "model"} : d[Canonical(name)] = d[<<name, r>>]
      BY DEF Kept, Faithful
    <2>2. \A name \in {"marker", "decision", "state", "lock", "model"} :
            e[Canonical(name)] = d[Canonical(name)] /\ e[<<name, r>>] = d[<<name, r>>]
      BY ZenonT(60), <1>4, <1>5, <2>1 DEF Canonical
    <2> QED BY <1>3, <1>4, <1>8, <2>1, <2>2 DEF Faithful
  <1>10. Settled(d) => Settled(e)
    BY <1>3, <1>4, <1>8 DEF Settled
  <1>11. Opened(e, seen)
    BY <1>3, <1>4, <1>5, <1>10 DEF Opened, Canonical
  <1> QED BY <1>6, <1>7, <1>9, <1>11 DEF Kept

\* The only operator's command is over, its marker v.
LEMMA EndIInv ==
  ASSUME IInv, OneOperator, NEW o \in Operators, NEW v, HasMarker(process[o]),
         process' = [process EXCEPT ![o] = Idle], UNCHANGED <<head, source, openings>>,
         disk' = [disk EXCEPT ![Place(process[o], MarkerName(process[o]))] = v], v # None,
         process[o].cmd # "qualify" => Ending(disk, process[o].run.recovery, v)
  PROVE  IInv'
  <1> DEFINE p == process[o]
             path == Place(p, MarkerName(p))
  <1>1. TypeOK /\ Kept(disk) /\ Opened(disk, openings) /\ Working(disk, openings, p)
    BY DEF IInv
  <1>2. /\ p.cmd = "qualify" => path = Canonical("qualification")
        /\ p.cmd # "qualify" => path = <<"marker", p.run.recovery>> /\ p.run.recovery \in Places
    BY <1>1, Marked
  <1>3. path \in Paths
    <2>1. Canonical("qualification") \in Paths /\ \A place \in Places : <<"marker", place>> \in Paths
      BY PathsAre DEF Canonical, DevelopmentOutputs
    <2> QED BY <1>2, <2>1
  <1> HIDE DEF path, p
  <1>4. disk' = [disk EXCEPT ![path] = v]
    BY DEF path, p
  <1>5. Written(disk, disk', path, v) /\ disk' = [q \in Paths |-> disk'[q]]
    BY <1>1, <1>3, <1>4, DiskWritten
  <1>6. Kept(disk') /\ Opened(disk', openings')
    <2>1. CASE p.cmd = "qualify"
      <3>1. Written(disk, disk', Canonical("qualification"), v)
        BY <1>2, <1>5, <2>1
      <3> QED BY <1>1, <3>1, QualificationKeeps
    <2>2. CASE p.cmd # "qualify"
      <3>1. /\ p.run.recovery \in Places /\ Ending(disk, p.run.recovery, v)
            /\ Written(disk, disk', <<"marker", p.run.recovery>>, v)
        BY <1>2, <1>5, <2>2 DEF p
      <3>2. Kept(disk')
        BY <1>1, <3>1, EndKeeps
      <3>3. Opened(disk', openings)
        BY <1>1, <3>1, EndOpened
      <3> QED BY <3>2, <3>3
    <2> QED BY <2>1, <2>2
  <1>7. TypeOK' /\ process'[o] = Idle
    BY <1>1, <1>5 DEF TypeOK
  <1> QED BY <1>6, <1>7, IdleWorks, Conclude

\* The same where there is no marker.
LEMMA StopIInv ==
  ASSUME IInv, OneOperator, NEW o \in Operators,
         process' = [process EXCEPT ![o] = Idle], UNCHANGED <<disk, head, source, openings>>
  PROVE  IInv'
  BY IdleWorks, MoveIInv

LEMMA FailIInv ==
  ASSUME IInv, OneOperator, NEW o \in Operators, Fail(o)
  PROVE  IInv'
  <1> DEFINE p == process[o]
             path == Place(p, MarkerName(p))
             v == FailedMarker(disk[path])
  <1>1. process' = [process EXCEPT ![o] = Idle] /\ UNCHANGED <<head, source, openings>>
    BY DEF Fail
  <1>2. CASE HasMarker(p)
    <2>1. disk' = [disk EXCEPT ![path] = v]
      BY <1>2 DEF Fail
    <2>2. /\ p.run \in Run /\ p.code \in Commits
          /\ disk[path] = Marker(p.run, p.code, "started", None)
          /\ p.cmd # "qualify" => /\ path = <<"marker", p.run.recovery>>
                                  /\ p.run.recovery = None => disk[Canonical("adoption")] = None
      BY <1>2, Marked DEF IInv
    <2>3. v = Marker(p.run, p.code, "failed", None)
      BY <2>2 DEF FailedMarker, Marker
    <2>4. v # None /\ Marker(p.run, p.code, "started", None) # None
      BY <2>2, <2>3, MarkersAre DEF Statuses
    <2> HIDE DEF path
    <2>5. p.cmd # "qualify" => Ending(disk, p.run.recovery, v)
      BY <2>2, <2>3, <2>4 DEF Ending, Marker
    <2> HIDE DEF v
    <2> QED BY <1>1, <1>2, <2>1, <2>4, <2>5, EndIInv DEF path
  <1>3. CASE ~HasMarker(p)
    BY <1>1, <1>3, StopIInv DEF Fail
  <1> QED BY <1>2, <1>3

\* What a campaign that is done has left.
LEMMA FinishedFiles ==
  ASSUME NEW d, NEW p, Campaigning(d, p), p.cmd \in {"develop", "recover"}, p.todo = <<>>,
         NEW v, v = Marker(p.run, p.code, "complete", p.verdict)
  PROVE  LET place == p.run.recovery IN
         /\ p.verdict \in Verdicts
         /\ WholeFiles(v, d[<<"decision", place>>], d[<<"state", place>>], d[<<"lock", place>>],
                       d[<<"model", place>>])
  <1> DEFINE place == p.run.recovery
             missing == Missing(d, place)
  <1>1. /\ CampaignStep(p.cmd, p.verdict, <<>>, missing)
        /\ \A name \in DevelopmentOutputs : d[<<name, place>>] \in {None, Expected(p, name)}
    BY DEF Campaigning
  <1>2. /\ p.verdict \in Verdicts /\ "decision" \notin missing /\ "state" \notin missing
        /\ p.verdict = "winner" => "model" \notin missing /\ "lock" \notin missing
    BY <1>1, CampaignEnd
  <1>3. \A name \in DevelopmentOutputs :
          name \notin missing => d[<<name, place>>] # None /\ d[<<name, place>>] = Expected(p, name)
    BY <1>1 DEF Missing
  <1> HIDE DEF missing, place
  <1>4. /\ d[<<"decision", place>>] # None
        /\ d[<<"decision", place>>] = [run |-> p.run, verdict |-> p.verdict]
        /\ d[<<"state", place>>] # None /\ d[<<"state", place>>] = [data |-> p.data]
    BY <1>2, <1>3 DEF Expected, DevelopmentOutputs
  <1>5. p.verdict = "winner" =>
          /\ d[<<"model", place>>] # None /\ d[<<"model", place>>] = [run |-> p.run]
          /\ d[<<"lock", place>>] # None
          /\ d[<<"lock", place>>] = [run |-> p.run, code |-> p.code, state |-> [data |-> p.data],
                                    model |-> [run |-> p.run]]
    BY <1>2, <1>3 DEF Expected, DevelopmentOutputs
  <1>6. v.run = p.run /\ v.code = p.code /\ v.verdict = p.verdict
    BY DEF Marker
  <1> HIDE DEF place
  <1>7. WholeFiles(v, d[<<"decision", place>>], d[<<"state", place>>], d[<<"lock", place>>],
                   d[<<"model", place>>])
    BY <1>2, <1>4, <1>5, <1>6 DEF WholeFiles
  <1> QED BY <1>2, <1>7 DEF place

LEMMA Completing ==
  ASSUME NEW run, NEW code, NEW p, NEW m, m = Marker(run, code, "started", None)
  PROVE  CompleteMarker(m, p) = Marker(run, code, "complete", p.verdict)
  <1> DEFINE v == CompleteMarker(m, p)
             S == [run : {run}, code : {code}, status : {"started", "complete"},
                   verdict : {None, p.verdict}]
  <1>1. m \in S
    BY DEF Marker
  <1>2. v \in S
    BY <1>1 DEF CompleteMarker
  <1>3. v.run = run /\ v.code = code /\ v.status = "complete" /\ v.verdict = p.verdict
    BY <1>1 DEF CompleteMarker
  <1> HIDE DEF v
  <1>4. v = [run |-> v.run, code |-> v.code, status |-> v.status, verdict |-> v.verdict]
    BY <1>2
  <1> QED BY <1>3, <1>4 DEF Marker, v

LEMMA FinishIInv ==
  ASSUME IInv, OneOperator, NEW o \in Operators, Finish(o)
  PROVE  IInv'
  <1> DEFINE p == process[o]
             path == Place(p, MarkerName(p))
             v == CompleteMarker(disk[path], p)
  <1>1. /\ process' = [process EXCEPT ![o] = Idle] /\ UNCHANGED <<head, source, openings>>
        /\ p.todo = <<>>
    BY DEF Finish
  <1>2. CASE HasMarker(p)
    <2>1. disk' = [disk EXCEPT ![path] = v]
      BY <1>2 DEF Finish
    <2>2. /\ p.run \in Run /\ p.code \in Commits /\ p.cmd \in {"develop", "recover", "qualify"}
          /\ disk[path] = Marker(p.run, p.code, "started", None)
          /\ p.cmd = "qualify" => p.verdict = None
          /\ p.cmd # "qualify" => /\ path = <<"marker", p.run.recovery>> /\ Campaigning(disk, p)
                                  /\ p.run.recovery = None => disk[Canonical("adoption")] = None
      BY <1>2, Marked DEF IInv
    <2> HIDE DEF p, path
    <2>3. v = Marker(p.run, p.code, "complete", p.verdict)
      BY <2>2, Completing
    <2> HIDE DEF v
    <2>4. p.cmd # "qualify" =>
            /\ p.verdict \in Verdicts
            /\ WholeFiles(v, disk[<<"decision", p.run.recovery>>], disk[<<"state", p.run.recovery>>],
                          disk[<<"lock", p.run.recovery>>], disk[<<"model", p.run.recovery>>])
      BY <1>1, <2>2, <2>3, FinishedFiles
    <2>5. v # None /\ Marker(p.run, p.code, "started", None) # None
      BY <2>2, <2>3, <2>4, MarkersAre DEF Statuses
    <2>6. p.cmd # "qualify" => Ending(disk, p.run.recovery, v)
      <3>1. v.run = p.run /\ v.code = p.code
        BY <2>3 DEF Marker
      <3>2. /\ disk[path].run = p.run /\ disk[path].code = p.code /\ disk[path].status = "started"
            /\ disk[path] # None
        BY <2>2, <2>5 DEF Marker
      <3> QED BY <2>2, <2>4, <2>5, <3>1, <3>2 DEF Ending
    <2> QED BY <1>1, <1>2, <2>1, <2>5, <2>6, EndIInv DEF path, p
  <1>3. CASE ~HasMarker(p)
    BY <1>1, <1>3, StopIInv DEF Finish
  <1> QED BY <1>2, <1>3

\* The operator of another worktree's recovery brings the source's marker.
LEMMA CopyMarkerIInv ==
  ASSUME IInv, OneOperator, NEW o \in Operators, CopyMarker(o)
  PROVE  IInv'
  <1> DEFINE path == <<"marker", None>>
  <1>1. /\ TypeOK /\ Kept(disk) /\ Opened(disk, openings)
        /\ disk' = [disk EXCEPT ![path] = SourceMarker] /\ disk[path] = None
        /\ process[o] = Idle /\ UNCHANGED <<head, source, process, openings>>
    BY DEF IInv, CopyMarker, Present, Canonical
  <1>2. path \in Paths
    BY PathsAre DEF DevelopmentOutputs
  <1>3. Sound(disk, "marker", None, SourceMarker)
    BY <1>1, MarkersAre DEF Sound, SourceMarker, Marker
  <1>4. Written(disk, disk', path, SourceMarker) /\ disk' = [q \in Paths |-> disk'[q]]
    BY <1>1, <1>2, DiskWritten
  <1>5. Kept(disk')
    BY <1>1, <1>2, <1>3, <1>4, WriteKeeps
  <1>6. Opened(disk', openings)
    BY <1>1, <1>4, WriteOpened
  <1>7. TypeOK' /\ process'[o] = Idle
    BY <1>1, <1>4 DEF TypeOK
  <1> QED BY <1>1, <1>5, <1>6, <1>7, IdleWorks, Conclude

-----------------------------------------------------------------------------
(* Theorems *)

LEMMA InitIInv ==
  ASSUME Init
  PROVE  IInv
  <1>1. TypeOK
    <2>1. head \in Commits
      BY LifecycleAssumption DEF Init, SourceCommit, Commits
    <2> QED BY <2>1 DEF Init, TypeOK
  <1>2. \A q \in Paths : disk[q] = None
    BY DEF Init
  <1>3. /\ \A name \in DevelopmentOutputs, place \in Places : disk[<<name, place>>] = None
        /\ \A r \in Recoveries : disk[<<"authorization", r>>] = None
        /\ disk[Canonical("adoption")] = None
    BY <1>2, PathsAre DEF Canonical
  <1>4. Kept(disk)
    <2>1. ASSUME NEW place \in Places PROVE Whole(disk, place) /\ TrueLock(disk, place)
      BY <1>3 DEF Whole, TrueLock, DevelopmentOutputs
    <2>2. ASSUME NEW r \in Recoveries PROVE Chained(disk, r)
      BY <1>3, PathsAre DEF Chained, DevelopmentOutputs
    <2> QED BY <1>3, <2>1, <2>2 DEF Kept, Faithful
  <1>5. openings = <<>> /\ \A o \in Operators : process[o] = Idle
    BY DEF Init
  <1> QED BY <1>1, <1>4, <1>5, IdleWorks DEF IInv, Opened

LEMMA StepIInv ==
  ASSUME OneOperator, IInv, [Next]_vars
  PROVE  IInv'
  <1>1. CASE UNCHANGED vars
    BY <1>1, Primed DEF vars, IInv, TypeOK
  <1>2. CASE Merge
    <2>1. head' \in Commits
      BY <1>2, LifecycleAssumption DEF Merge, Commits, IInv, TypeOK
    <2> QED BY <1>2, <2>1, Primed DEF Merge, IInv, TypeOK
  <1>3. ASSUME NEW o \in Operators,
               CopyMarker(o) \/ Develop(o) \/ Screening(o) \/ November(o) \/ Qualify(o)
        PROVE  IInv'
    BY <1>3, CopyMarkerIInv, DevelopIInv, ScreeningIInv, NovemberIInv, QualifyIInv
  <1>4. ASSUME NEW o \in Operators, NEW r \in Recoveries,
               Export(o, r) \/ Terminate(o, r) \/ Authorize(o, r) \/ Recover(o, r) \/ Adopt(o, r)
        PROVE  IInv'
    BY <1>4, ExportIInv, TerminateIInv, AuthorizeIInv, RecoverIInv, AdoptIInv
  <1>5. ASSUME NEW o \in Operators, Check(o) \/ Replace(o) \/ Finish(o) \/ Fail(o)
        PROVE  IInv'
    BY <1>5, CheckIInv, ReplaceIInv, FinishIInv, FailIInv
  <1>6. ASSUME NEW o \in Operators, Crash(o) PROVE IInv'
    BY <1>6, StopIInv DEF Crash
  <1> QED BY <1>1, <1>2, <1>3, <1>4, <1>5, <1>6 DEF Next

\* The invariant: the commands of the only operator find on disk what their
\* progress says, and what is on disk is whole, faithful and chained.
THEOREM Invariance ==
  ASSUME OneOperator
  PROVE  Spec => []IInv
  <1>1. Init => IInv
    BY InitIInv
  <1>2. IInv /\ [Next]_vars => IInv'
    BY StepIInv
  <1> QED BY <1>1, <1>2, PTL DEF Spec

\* run_development_apply and run_recovery_apply: a marker that says complete
\* stands beside all the files of its run.
THEOREM Completion ==
  ASSUME OneOperator
  PROVE  Spec => []CompletedIsWhole
  <1>1. ASSUME IInv PROVE CompletedIsWhole
    <2> SUFFICES ASSUME NEW place \in Recoveries \union {None},
                        disk[<<"marker", place>>] # None,
                        disk[<<"marker", place>>].status = "complete"
                 PROVE  LET marker == disk[<<"marker", place>>]  lock == disk[<<"lock", place>>] IN
                        /\ disk[<<"decision", place>>] = [run |-> marker.run, verdict |-> marker.verdict]
                        /\ marker.verdict = "winner" =>
                             /\ disk[<<"model", place>>] = [run |-> marker.run]
                             /\ lock # None
                             /\ lock.run = marker.run /\ lock.code = marker.code
                             /\ lock.model = disk[<<"model", place>>]
                             /\ lock.state = disk[<<"state", place>>]
      BY DEF CompletedIsWhole
    <2>1. Whole(disk, place)
      BY <1>1 DEF IInv, Kept, Places
    <2> QED BY <2>1 DEF Whole, WholeFiles
  <1> QED BY <1>1, Invariance, PTL

\* adopt_recovery: an adoption record stands for a completed recovery, all of
\* whose files are the canonical ones, beside the source's marker.
THEOREM Adoption ==
  ASSUME OneOperator
  PROVE  Spec => []AdoptionFaithful
  <1>1. ASSUME IInv PROVE AdoptionFaithful
    <2> DEFINE adoption == disk[Canonical("adoption")]
               r == adoption.recovery
               names == AdoptedNames(adoption.verdict)
    <2> SUFFICES ASSUME adoption # None
                 PROVE  /\ disk[<<"marker", r>>].status = "complete"
                        /\ disk[<<"marker", r>>].verdict = adoption.verdict
                        /\ disk[Canonical("marker")] = SourceMarker
                        /\ \A i \in DOMAIN names : disk[Canonical(names[i])] = disk[<<names[i], r>>]
      BY DEF AdoptionFaithful
    <2>1. /\ Ended(disk, r, adoption.verdict) /\ disk[Canonical("marker")] = SourceMarker
          /\ disk[Canonical("decision")] = disk[<<"decision", r>>]
          /\ adoption.verdict = "winner" =>
               \A name \in {"state", "lock", "model"} : disk[Canonical(name)] = disk[<<name, r>>]
      BY <1>1 DEF IInv, Kept, Faithful
    <2> HIDE DEF adoption, r
    <2>2. CASE adoption.verdict = "winner"
      <3>1. names = <<"decision", "state", "lock", "model">>
        BY <2>2 DEF AdoptedNames
      <3>2. \A i \in DOMAIN names : names[i] \in {"decision", "state", "lock", "model"}
        BY <3>1
      <3> HIDE DEF names
      <3> QED BY <2>1, <2>2, <3>2 DEF Ended
    <2>3. CASE adoption.verdict # "winner"
      <3>1. names = <<"decision">>
        BY <2>3 DEF AdoptedNames
      <3>2. \A i \in DOMAIN names : names[i] = "decision"
        BY <3>1
      <3> HIDE DEF names
      <3> QED BY <2>1, <3>2 DEF Ended
    <2> QED BY <2>2, <2>3
  <1> QED BY <1>1, Invariance, PTL

\* load_authorization and run_recovery_apply: a recovery runs on an unbroken
\* chain of records, and decides on the data of the source.
THEOREM Chain ==
  ASSUME OneOperator
  PROVE  Spec => []RecoveryVouched
  <1>1. ASSUME IInv PROVE RecoveryVouched
    <2> SUFFICES ASSUME NEW r \in Recoveries
                 PROVE  /\ Present(<<"marker", r>>) =>
                             /\ disk[<<"sidecar", r>>] = disk[<<"evidence", r>>]
                             /\ disk[<<"authorization", r>>] = [termination |-> disk[<<"termination", r>>],
                                                               evidence |-> disk[<<"evidence", r>>]]
                             /\ disk[<<"marker", r>>].code >= CorrectiveCommit
                        /\ Present(<<"decision", r>>) => disk[<<"state", r>>] = [data |-> SourceData]
      BY DEF RecoveryVouched
    <2>1. Chained(disk, r)
      BY <1>1 DEF IInv, Kept
    <2> QED BY <2>1 DEF Chained, Present
  <1> QED BY <1>1, Invariance, PTL

\* run_december_apply: December is opened by the code that chose the winner, on
\* the lock, the model and the state that were frozen.
THEOREM Opening ==
  ASSUME OneOperator
  PROVE  Spec => [](OpenedAsFrozen /\ OneDecember)
  <1>1. ASSUME IInv PROVE OpenedAsFrozen /\ OneDecember
    <2>1. CASE openings = <<>>
      BY <2>1 DEF OpenedAsFrozen, OneDecember
    <2>2. CASE openings # <<>>
      <3> DEFINE lock == disk[Canonical("lock")]
                 opening == [run |-> lock.run, lock |-> lock, code |-> lock.code]
      <3>1. openings = <<opening>> /\ Settled(disk)
        BY <1>1, <2>2 DEF IInv, Opened
      <3>2. disk[Canonical("model")] = lock.model /\ disk[Canonical("state")] = lock.state
        BY <1>1, <3>1, WinnerThere DEF IInv
      <3>3. \A i \in DOMAIN openings : openings[i] = opening
        BY <3>1
      <3>4. opening.lock = lock /\ opening.code = lock.code
        OBVIOUS
      <3>5. Len(openings) = 1
        BY <3>1
      <3> HIDE DEF opening
      <3> QED BY <3>2, <3>3, <3>4, <3>5 DEF OpenedAsFrozen, OneDecember
    <2> QED BY <2>1, <2>2
  <1> QED BY <1>1, Invariance, PTL

LEMMA EndFiles ==
  ASSUME IInv, NEW o \in Operators, Fail(o) \/ Finish(o), NEW path \in Paths, disk[path] # None
  PROVE  Unchanged(path)
  <1> DEFINE p == process[o]
             marker == Place(p, MarkerName(p))
  <1>1. CASE HasMarker(p)
    <2>1. /\ p.cmd \in {"develop", "recover", "qualify"} /\ p.run \in Run /\ p.code \in Commits
          /\ disk[marker] = Marker(p.run, p.code, "started", None)
          /\ p.cmd = "qualify" => marker = Canonical("qualification") /\ p.verdict = None
          /\ p.cmd # "qualify" => marker = <<"marker", p.run.recovery>> /\ Campaigning(disk, p)
      BY <1>1, Marked DEF IInv
    <2>2. marker[1] \in {"marker", "qualification"}
      BY <2>1 DEF Canonical
    <2>3. \/ disk' = [disk EXCEPT ![marker] = FailedMarker(@)]
          \/ /\ disk' = [disk EXCEPT ![marker] = CompleteMarker(@, p)]
             /\ p.todo = <<>>
      BY <1>1 DEF Fail, Finish
    <2> HIDE DEF p, marker
    <2>4. CASE path # marker
      BY <2>3, <2>4 DEF IInv, TypeOK, Unchanged
    <2>5. CASE path = marker
      <3>1. CASE disk' = [disk EXCEPT ![marker] = FailedMarker(@)]
        <4>1. disk'[path] = FailedMarker(Marker(p.run, p.code, "started", None))
          BY <2>1, <2>5, <3>1 DEF IInv, TypeOK
        <4>2. disk'[path] = Marker(p.run, p.code, "failed", None)
          BY <4>1 DEF FailedMarker, Marker
        <4>3. disk'[path] # None
          BY <2>1, <4>2, MarkersAre DEF Statuses
        <4> QED BY <2>1, <2>2, <2>5, <4>2, <4>3 DEF Unchanged, Present, Marker
      <3>2. CASE disk' = [disk EXCEPT ![marker] = CompleteMarker(@, p)] /\ p.todo = <<>>
        <4>1. disk'[path] = CompleteMarker(disk[marker], p)
          BY <2>5, <3>2 DEF IInv, TypeOK
        <4>2. disk'[path] = Marker(p.run, p.code, "complete", p.verdict)
          BY <2>1, <4>1, Completing
        <4>3. p.verdict \in Verdicts \union {None}
          <5>1. CASE p.cmd = "qualify"
            BY <2>1, <5>1
          <5>2. CASE p.cmd \in {"develop", "recover"}
            <6>1. CampaignStep(p.cmd, p.verdict, <<>>, Missing(disk, p.run.recovery))
              BY <2>1, <3>2, <5>2 DEF Campaigning
            <6> QED BY <6>1, CampaignEnd
          <5> QED BY <2>1, <5>1, <5>2
        <4>4. disk'[path] # None
          BY <2>1, <4>2, <4>3, MarkersAre DEF Statuses
        <4> QED BY <2>1, <2>2, <2>5, <4>2, <4>4 DEF Unchanged, Present, Marker
      <3> QED BY <2>3, <3>1, <3>2
    <2> QED BY <2>4, <2>5
  <1>2. CASE ~HasMarker(p)
    BY <1>2 DEF Fail, Finish, Unchanged
  <1> QED BY <1>1, <1>2

LEMMA StepKeeps ==
  ASSUME IInv, [Next]_vars, NEW path \in Paths, disk[path] # None
  PROVE  Unchanged(path)
  <1>1. ASSUME disk' = disk PROVE Unchanged(path)
    BY <1>1 DEF Unchanged
  <1>2. ASSUME NEW o \in Operators, Replace(o) PROVE Unchanged(path)
    <2>1. PICK q \in Paths : \E v : disk[q] = None /\ Written(disk, disk', q, v)
      BY <1>2, ReplaceStep
    <2> QED BY <2>1 DEF Written, Unchanged
  <1>3. ASSUME NEW o \in Operators, CopyMarker(o) PROVE Unchanged(path)
    BY <1>3 DEF CopyMarker, Present, IInv, TypeOK, Unchanged
  <1>4. ASSUME NEW o \in Operators, Fail(o) \/ Finish(o) PROVE Unchanged(path)
    BY <1>4, EndFiles
  <1>5. CASE UNCHANGED vars
    BY <1>1, <1>5 DEF vars
  <1>6. CASE Merge
    BY <1>1, <1>6 DEF Merge
  <1>7. ASSUME NEW o \in Operators,
               Develop(o) \/ Screening(o) \/ November(o) \/ Qualify(o) \/ Check(o) \/ Crash(o)
        PROVE  Unchanged(path)
    BY <1>1, <1>7 DEF Develop, Begin, Screening, November, Qualify, Check, Crash
  <1>8. ASSUME NEW o \in Operators, NEW r \in Recoveries,
               Export(o, r) \/ Terminate(o, r) \/ Authorize(o, r) \/ Recover(o, r) \/ Adopt(o, r)
        PROVE  Unchanged(path)
    BY <1>1, <1>8 DEF Export, Terminate, Authorize, Recover, Adopt, Begin
  <1> QED BY <1>2, <1>3, <1>4, <1>5, <1>6, <1>7, <1>8 DEF Next

\* _atomic_bytes and update_marker: whatever commands do and however they end, a
\* published file never changes, but for a marker that comes to its end.
THEOREM Immutability ==
  ASSUME OneOperator
  PROVE  Spec => OutputsImmutable
  <1>1. IInv /\ [Next]_vars => [\A path \in Paths : Present(path) => Unchanged(path)]_vars
    BY StepKeeps DEF Present
  <1> QED BY <1>1, Invariance, PTL DEF Spec, OutputsImmutable

-----------------------------------------------------------------------------
(* The seal *)

LEMMA WinnerIs ==
  Winner = IF Settled(disk) THEN disk[Canonical("lock")].run ELSE None
  BY DEF Winner, Settled, Ended, Canonical

\* A winner that is frozen stays, with its lock.
LEMMA FrozenStays ==
  ASSUME IInv, [Next]_vars, Settled(disk)
  PROVE  Settled(disk') /\ disk'[Canonical("lock")] = disk[Canonical("lock")]
  <1>1. /\ Canonical("lock") \in Paths /\ Canonical("marker") \in Paths
        /\ Canonical("adoption") \in Paths
    BY PathsAre DEF Canonical, DevelopmentOutputs
  <1>2. disk[Canonical("lock")] # None
    BY WinnerThere DEF IInv
  <1>3. disk'[Canonical("lock")] = disk[Canonical("lock")]
    BY <1>1, <1>2, StepKeeps DEF Unchanged, Canonical
  <1>4. CASE Ended(disk, None, "winner")
    <2>1. disk[Canonical("marker")] # None /\ disk[Canonical("marker")].status # "started"
      BY <1>4 DEF Ended, Canonical
    <2>2. disk'[Canonical("marker")] = disk[Canonical("marker")]
      BY <1>1, <2>1, StepKeeps DEF Unchanged
    <2> QED BY <1>3, <1>4, <2>2 DEF Settled, Ended, Canonical
  <1>5. CASE disk[Canonical("adoption")] # None /\ disk[Canonical("adoption")].verdict = "winner"
    <2>1. disk'[Canonical("adoption")] = disk[Canonical("adoption")]
      BY <1>1, <1>5, StepKeeps DEF Unchanged, Canonical
    <2> QED BY <1>3, <1>5, <2>1 DEF Settled
  <1> QED BY <1>4, <1>5 DEF Settled

LEMMA SourceStays ==
  ASSUME [Next]_vars
  PROVE  UNCHANGED source
  BY ZenonT(60) DEF Next, vars, CopyMarker, Develop, Screening, November, Qualify, Export, Terminate, Authorize,
         Recover, Adopt, Begin, Check, Replace, Finish, Fail, Crash, Merge

\* The lock of a winner is of a run, after a step too.
LEMMA WinnerPrimed ==
  ASSUME IInv', UNCHANGED source, Settled(disk')
  PROVE  disk'[Canonical("lock")].run \in Run
  <1>1. SourceMarker' = SourceMarker
    BY DEF SourceMarker, SourceRun, Marker
  <1>2. Kept(disk)'
    BY DEF IInv
  <1>3. Kept(disk')
    BY <1>1, <1>2 DEF Kept, Faithful, Whole, WholeFiles, TrueLock, Chained, Ended, Canonical
  <1> QED BY <1>3, WinnerThere

\* A step that does not open December leaves the seal, or freezes the winner.
LEMMA FreezeStep ==
  ASSUME IInv, IInv', [Next]_vars, UNCHANGED openings
  PROVE  Seal!Next \/ UNCHANGED Seal!vars
  <1>1. UNCHANGED [i \in DOMAIN openings |-> openings[i].run]
    OBVIOUS
  <1>2. CASE Settled(disk)
    <2>1. Winner' = Winner
      <3>1. Winner' = IF Settled(disk') THEN disk'[Canonical("lock")].run ELSE None
        BY WinnerIs DEF Winner, Settled, Ended, Canonical
      <3> QED BY <1>2, <3>1, WinnerIs, FrozenStays
    <2> QED BY <1>1, <2>1 DEF Seal!vars
  <1>3. CASE ~Settled(disk)
    <2>1. Winner = None
      BY <1>3, WinnerIs
    <2>2. Winner' = IF Settled(disk') THEN disk'[Canonical("lock")].run ELSE None
      BY WinnerIs DEF Winner, Settled, Ended, Canonical
    <2>3. CASE Settled(disk')
      <3>1. disk'[Canonical("lock")].run \in Run
        BY <2>3, WinnerPrimed, SourceStays
      <3> QED BY <1>1, <2>1, <2>2, <2>3, <3>1 DEF Seal!Next, Seal!Freeze
    <2>4. CASE ~Settled(disk')
      BY <1>1, <2>1, <2>2, <2>4 DEF Seal!vars
    <2> QED BY <2>3, <2>4
  <1> QED BY <1>2, <1>3

LEMMA OpenStep ==
  ASSUME IInv, IInv', NEW o \in Operators, Check(o), Head(process[o].todo) = "december"
  PROVE  Seal!Next
  <1> DEFINE p == process[o]
             lock == disk[Canonical("lock")]
             opening == [run |-> p.winner.model.run, lock |-> p.winner, code |-> p.code]
  <1>1. /\ openings' = Append(openings, opening) /\ UNCHANGED <<disk, source>>
        /\ p.held = None /\ p.todo # <<>> /\ Working(disk, openings, p)
    BY DEF Check, IInv
  <1>2. /\ Settled(disk) /\ p.winner = lock /\ openings = <<>>
    <2>1. p.cmd = "qualify"
      BY <1>1, Heads DEF DevelopmentOutputs
    <2>2. /\ Settled(disk) /\ p.winner = lock
          /\ QualifyStep(p, disk[Canonical("qualification")], openings)
      BY <1>1, <2>1 DEF Working, Qualifying
    <2>3. openings = <<>>
      BY <1>1, <2>2, Tails DEF QualifyStep
    <2> QED BY <2>2, <2>3
  <1>3. lock.run \in Run /\ lock.model = [run |-> lock.run]
    BY <1>2, WinnerThere DEF IInv
  <1>4. Winner = lock.run /\ lock.run # None
    BY <1>2, <1>3, WinnerIs, LifecycleAssumption
  <1>5. Winner' = Winner
    BY <1>1 DEF Winner, Canonical
  <1>6. opening.run = lock.run
    BY <1>2, <1>3
  <1> HIDE DEF opening, lock
  <1>7. openings' = <<opening>>
    BY <1>1, <1>2
  <1>8. [i \in DOMAIN openings |-> openings[i].run] = <<>>
    BY <1>2
  <1>9. [i \in DOMAIN openings' |-> openings'[i].run] = <<Winner>>
    BY <1>4, <1>6, <1>7
  <1> QED BY <1>4, <1>5, <1>8, <1>9 DEF Seal!Next, Seal!Open

\* run_december_apply behind the lifecycle: December stays sealed until a winner
\* is frozen, is opened at most once and for that winner, which never changes.
THEOREM Sealed ==
  ASSUME OneOperator
  PROVE  Spec => ImplementsSeal
  <1>1. Init => Seal!Init
    <2> SUFFICES ASSUME Init PROVE Seal!Init
      OBVIOUS
    <2>1. Canonical("marker") \in Paths /\ Canonical("adoption") \in Paths
      BY PathsAre DEF Canonical, DevelopmentOutputs
    <2>2. Winner = None
      BY <2>1 DEF Init, Winner
    <2>3. [i \in DOMAIN openings |-> openings[i].run] = <<>>
      BY DEF Init
    <2> QED BY <2>2, <2>3 DEF Seal!Init
  <1>2. IInv /\ IInv' /\ [Next]_vars => [Seal!Next]_(Seal!vars)
    <2> SUFFICES ASSUME IInv, IInv', [Next]_vars PROVE Seal!Next \/ UNCHANGED Seal!vars
      OBVIOUS
    <2>1. CASE UNCHANGED openings
      BY <2>1, FreezeStep
    <2>2. CASE ~UNCHANGED openings
      <3>1. PICK o \in Operators : Check(o) /\ Head(process[o].todo) = "december"
        BY ZenonT(60), <2>2 DEF Next, vars, CopyMarker, Develop, Screening, November, Qualify, Export, Terminate,
             Authorize, Recover, Adopt, Begin, Check, Replace, Finish, Fail, Crash, Merge
      <3> QED BY <3>1, OpenStep
    <2> QED BY <2>1, <2>2
  <1> QED BY <1>1, <1>2, Invariance, PTL DEF Spec, ImplementsSeal, Seal!Spec

=============================================================================
