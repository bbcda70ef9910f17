---------------------------- MODULE V3Lifecycle ----------------------------
(***************************************************************************)
(* The governed v3 experiment in one worktree: the one-time development    *)
(* run, the recovery of an interrupted one (evidence, termination record,  *)
(* authorization, refit), the adoption of a recovery under the canonical   *)
(* names, and the December qualification.  Commands know each other only   *)
(* by the files they leave.  A file is published by a check that it is     *)
(* absent and a later rename; a command may fail between any two of its    *)
(* steps and may be killed at any moment.                                  *)
(***************************************************************************)
EXTENDS Naturals, Sequences, FiniteSets

CONSTANTS
  Operators,   \* those who run commands here, one at a time each
  Recoveries,  \* recovery identifiers
  Sources,     \* who may have run the source: an operator here, or someone elsewhere
  Datasets,    \* the development data a run may be prepared from
  SourceData,  \* that of the source run
  Times,       \* what tells two exports, or two termination records, apart
  LastCommit,  \* bound: main goes through the commits 1 .. LastCommit
  None

Commits == 1 .. LastCommit
SourceCommit == 1        \* SOURCE_IMPLEMENTATION_SHA
CorrectiveCommit == 2    \* CORRECTIVE_COMMIT_SHA

\* A campaign: the development of an operator, or its recovery under an identifier.
Run == [by : Operators \union Sources, recovery : Recoveries \union {None}]

Verdicts == {"winner", "governed_stop"}

\* What a marker and a December sentinel hold.
Statuses == {"started", "complete", "failed"}
Markers == [run : Run, code : Commits, status : Statuses, verdict : Verdicts \union {None}]
Sentinel == [opened |-> TRUE]

ASSUME LifecycleAssumption ==
  /\ LastCommit \in Nat \ {0}
  /\ SourceData \in Datasets
  /\ None \notin Recoveries \union Run \union Markers \union Verdicts \union {Sentinel}

\* The paths of artifacts/v3: canonical ones, and those of a recovery's directory.
Canonical(name) == <<name, None>>

DevelopmentOutputs == {"marker", "decision", "state", "lock", "model"}
RecoveryOutputs    == {"marker", "finalists", "decision", "lock", "model", "state"}

Paths ==
  {Canonical(name) : name \in DevelopmentOutputs
                              \union {"adoption", "qualification", "december", "result"}}
  \union {<<name, r>> : r \in Recoveries, name \in RecoveryOutputs
                              \union {"evidence", "sidecar", "termination", "authorization"}}

VARIABLES
  disk,     \* path -> content, or None; the SHA-256 of a file stands for its content
  head,     \* the commit of main that is checked out
  source,   \* whose run left the marker pinned by SOURCE_MARKER_SHA256
  tracked,  \* the source's screening and confirmation runs are complete in W&B
  process,  \* operator -> the command in progress
  openings  \* history: whose winner December was opened for, at which commit

vars == <<disk, head, source, tracked, process, openings>>

Present(path) == disk[path] # None

Marker(run, code, status, verdict) ==
  [run |-> run, code |-> code, status |-> status, verdict |-> verdict]

SourceRun == [by |-> source, recovery |-> None]
SourceMarker == Marker(SourceRun, SourceCommit, "started", None)

\* A command: the files and steps it still has to do, and the bytes of the file
\* it has found absent and is about to rename into place.
Command(cmd, run, code, data, todo) ==
  [cmd |-> cmd, run |-> run, code |-> code, data |-> data, todo |-> todo,
   at |-> None, verdict |-> None, winner |-> None, held |-> None]

Idle == Command("idle", None, None, None, <<>>)

Init ==
  /\ disk = [path \in Paths |-> None]
  /\ head = SourceCommit
  /\ source \in Sources
  /\ tracked = (source \notin Operators)   \* it ran in another worktree
  /\ process = [o \in Operators |-> Idle]
  /\ openings = <<>>

-----------------------------------------------------------------------------
(* Publishing files *)

\* The files of a command about a recovery are in its directory; adoption
\* writes the canonical ones.
Place(p, name) == <<name, IF p.cmd = "adopt" THEN None ELSE p.run.recovery>>

AdoptedNames(verdict) ==
  IF verdict = "winner" THEN <<"decision", "state", "lock", "model">> ELSE <<"decision">>

\* An adoption copies the recovery's files and records the digests of the copies.
AdoptedBytes(p, name) ==
  IF name = "adoption"
  THEN [recovery |-> p.run.recovery, verdict |-> p.verdict, marker |-> SourceMarker,
        files |-> [i \in DOMAIN AdoptedNames(p.verdict) |->
                     disk[Canonical(AdoptedNames(p.verdict)[i])]]]
  ELSE disk[<<name, p.run.recovery>>]

\* What the command would write under the name at this moment.
Bytes(p, name) ==
  IF p.cmd = "adopt" THEN AdoptedBytes(p, name) ELSE
  CASE name \in {"marker", "qualification"} -> Marker(p.run, p.code, "started", None)
    [] name = "state" -> [data |-> p.data]
    [] name \in {"decision", "finalists"} -> [run |-> p.run, verdict |-> p.verdict]
    [] name = "model" -> [run |-> p.run]
    [] name = "lock" -> [run |-> p.run, code |-> p.code, state |-> [data |-> p.data],
                         model |-> disk[Place(p, "model")]]
    [] name = "december" -> Sentinel
    [] name = "result" -> [winner |-> p.winner, model |-> disk[Canonical("model")]]
    [] name \in {"evidence", "sidecar", "termination"} -> [by |-> p.run.by, at |-> p.at]
    [] name = "authorization" -> [termination |-> disk[<<"termination", p.run.recovery>>],
                                  evidence |-> disk[<<"evidence", p.run.recovery>>]]

\* refuse_existing; a recovery also refuses data other than the source's.
Refused(p, name) ==
  \/ Present(Place(p, name))
  \/ p.cmd = "recover" /\ name = "state" /\ p.data # SourceData

\* Mutant: a failed run cleans its marker up.
FailedMarkerRemoved(marker) == None

FailedMarker(marker) == [marker EXCEPT !.status = "failed"]

CompleteMarker(marker, p) == [marker EXCEPT !.status = "complete", !.verdict = p.verdict]

MarkerName(p) == IF p.cmd = "qualify" THEN "qualification" ELSE "marker"

\* Only these commands keep a marker; it exists once it is no longer to do.
HasMarker(p) ==
  /\ p.cmd \in {"develop", "recover", "qualify"}
  /\ p.todo = <<>> \/ Head(p.todo) # MarkerName(p)

\* An exception at any point: the marker, if there is one, says so.
Fail(o) ==
  LET p == process[o]  marker == Place(p, MarkerName(p)) IN
  /\ p # Idle
  /\ process' = [process EXCEPT ![o] = Idle]
  /\ disk' = IF HasMarker(p) THEN [disk EXCEPT ![marker] = FailedMarker(@)] ELSE disk
  /\ UNCHANGED <<head, source, tracked, openings>>

\* Killed: nothing is updated.
Crash(o) ==
  /\ process[o] # Idle
  /\ process' = [process EXCEPT ![o] = Idle]
  /\ UNCHANGED <<disk, head, source, tracked, openings>>

IsFile(name) == name \notin {"screening", "november"}

\* The file to be published is absent; December is decoded from here on.  (If
\* it is present the command fails: Fail.)
Check(o) ==
  LET p == process[o] IN
  /\ p.todo # <<>> /\ p.held = None
  /\ IsFile(Head(p.todo)) /\ ~Refused(p, Head(p.todo))
  /\ process' = [process EXCEPT ![o].held = Bytes(p, Head(p.todo))]
  /\ openings' = IF Head(p.todo) = "december"
                 THEN Append(openings, [run |-> p.winner.model.run, lock |-> p.winner, code |-> p.code])
                 ELSE openings
  /\ UNCHANGED <<disk, head, source, tracked>>

\* os.replace
Replace(o) ==
  LET p == process[o] IN
  /\ p.held # None
  /\ disk' = [disk EXCEPT ![Place(p, Head(p.todo))] = p.held]
  /\ process' = [process EXCEPT ![o].held = None, ![o].todo = Tail(p.todo)]
  /\ UNCHANGED <<head, source, tracked, openings>>

\* update_marker, where there is one, and the command returns.
Finish(o) ==
  LET p == process[o]  marker == Place(p, MarkerName(p)) IN
  /\ p # Idle /\ p.todo = <<>>
  /\ process' = [process EXCEPT ![o] = Idle]
  /\ disk' = IF HasMarker(p) THEN [disk EXCEPT ![marker] = CompleteMarker(@, p)] ELSE disk
  /\ UNCHANGED <<head, source, tracked, openings>>

\* The command starts; a refused one changes nothing.
Begin(o, command) ==
  /\ process[o] = Idle
  /\ process' = [process EXCEPT ![o] = command]
  /\ UNCHANGED <<disk, head, source, tracked, openings>>

-----------------------------------------------------------------------------
(* Development and refit *)

IsSource(p) == p.run = SourceRun /\ p.code = SourceCommit

Develop(o) ==
  /\ \A name \in DevelopmentOutputs : ~Present(Canonical(name))
  /\ \E data \in Datasets :
       /\ o = source /\ head = SourceCommit => data = SourceData
       /\ Begin(o, Command("develop", [by |-> o, recovery |-> None], head, data,
                           <<"marker", "state", "screening", "november">>))

\* The control, screening and confirmation; their tracking runs are the only
\* trace, and those of the source are what a recovery starts from.
Screening(o) ==
  /\ process[o].todo # <<>> /\ Head(process[o].todo) = "screening"
  /\ process' = [process EXCEPT ![o].todo = Tail(@)]
  /\ tracked' = (tracked \/ IsSource(process[o]))
  /\ UNCHANGED <<disk, head, source, openings>>

\* Mutant: the lock before the model whose digest it holds.
OutcomeLockFirst(cmd, verdict) ==
  <<"decision">> \o (IF verdict = "winner" THEN <<"lock", "model">> ELSE <<>>)

\* What is written for a verdict, a winner's model before its lock.
Outcome(cmd, verdict) ==
  (IF cmd = "recover" THEN <<"finalists">> ELSE <<>>)
    \o <<"decision">>
    \o (IF verdict = "winner" THEN <<"model", "lock">> ELSE <<>>)

\* The refit and the November finalists decide.
November(o) ==
  LET p == process[o] IN
  /\ p.todo # <<>> /\ Head(p.todo) = "november"
  /\ \E verdict \in Verdicts :
       process' = [process EXCEPT ![o].verdict = verdict, ![o].todo = Outcome(p.cmd, verdict)]
  /\ UNCHANGED <<disk, head, source, tracked, openings>>

-----------------------------------------------------------------------------
(* Recovery *)

OfRecovery(o, r, cmd, todo) == Command(cmd, [by |-> o, recovery |-> r], head, None, todo)

Export(o, r) ==
  /\ tracked
  /\ \E at \in Times :
       Begin(o, [OfRecovery(o, r, "export", <<"evidence", "sidecar">>) EXCEPT !.at = at])

\* The recorder looks at the files of the source worktree, not at its process.
Terminate(o, r) ==
  /\ source \in Operators => /\ disk[Canonical("marker")] = SourceMarker
                             /\ ~Present(Canonical("decision"))
                             /\ ~Present(Canonical("lock"))
  /\ \E at \in Times :
       Begin(o, [OfRecovery(o, r, "terminate", <<"termination">>) EXCEPT !.at = at])

\* Mutant: the digest sidecar is not compared.
EvidenceUnchecked(r) == Present(<<"evidence", r>>)

\* load_source_evidence
EvidenceIntact(r) ==
  /\ Present(<<"evidence", r>>)
  /\ disk[<<"sidecar", r>>] = disk[<<"evidence", r>>]

Authorize(o, r) ==
  /\ Present(<<"termination", r>>)
  /\ EvidenceIntact(r)
  /\ Begin(o, OfRecovery(o, r, "authorize", <<"authorization">>))

\* load_authorization
Authorized(r) ==
  /\ Present(<<"authorization", r>>)
  /\ disk[<<"authorization", r>>].termination = disk[<<"termination", r>>]
  /\ disk[<<"authorization", r>>].evidence = disk[<<"evidence", r>>]
  /\ EvidenceIntact(r)

Recover(o, r) ==
  /\ head >= CorrectiveCommit
  /\ Authorized(r)
  /\ \A name \in RecoveryOutputs : ~Present(<<name, r>>)
  /\ \E data \in Datasets :
       Begin(o, [OfRecovery(o, r, "recover", <<"marker", "state", "november">>) EXCEPT !.data = data])

\* Mutant: a decision is enough.
CompletedByDecision(r) == Present(<<"marker", r>>) /\ Present(<<"decision", r>>)

\* Only a completed recovery decision can be adopted.
Completed(r) ==
  /\ Present(<<"marker", r>>) /\ Present(<<"decision", r>>)
  /\ disk[<<"marker", r>>].status = "complete"
  /\ disk[<<"marker", r>>].verdict = disk[<<"decision", r>>].verdict

Adopt(o, r) ==
  /\ Completed(r)
  /\ disk[Canonical("marker")] = SourceMarker
  /\ ~Present(Canonical("decision")) /\ ~Present(Canonical("adoption"))
  /\ LET verdict == disk[<<"decision", r>>].verdict  names == AdoptedNames(verdict) IN
     /\ \A i \in DOMAIN names : Present(<<names[i], r>>) /\ ~Present(Canonical(names[i]))
     /\ Begin(o, [OfRecovery(o, r, "adopt", names \o <<"adoption">>) EXCEPT !.verdict = verdict])

-----------------------------------------------------------------------------
(* December *)

\* validate_recovery_adoption_for_december
AdoptionValid ==
  LET adoption == disk[Canonical("adoption")] IN
  /\ adoption # None
  /\ disk[Canonical("marker")] = adoption.marker
  /\ adoption.verdict = "winner"
  /\ \A i \in DOMAIN adoption.files : disk[Canonical(AdoptedNames("winner")[i])] = adoption.files[i]
  /\ disk[Canonical("decision")].run.recovery = adoption.recovery

\* Mutant: the winner's files are enough.
VouchedByFiles == Present(Canonical("decision")) /\ Present(Canonical("lock"))

\* validate_december_handoff: a completed winner, or the adoption of one.
Vouched ==
  /\ Present(Canonical("marker"))
  /\ \/ /\ disk[Canonical("marker")].status = "complete"
        /\ disk[Canonical("marker")].verdict = "winner"
     \/ AdoptionValid

\* The same: lock, model and state are those of one another.
Frozen ==
  LET lock == disk[Canonical("lock")] IN
  /\ lock # None
  /\ disk[Canonical("model")] = lock.model
  /\ disk[Canonical("state")] = lock.state

\* Mutant: qualification at another commit than the winner's.
SameCodeNot(lock) == lock.code \in Commits

SameCode(lock) == lock.code = head

Unopened == ~Present(Canonical("qualification")) /\ ~Present(Canonical("result"))

Qualify(o) ==
  LET lock == disk[Canonical("lock")] IN
  /\ Vouched
  /\ Frozen
  /\ SameCode(lock)
  /\ Unopened
  /\ Begin(o, [Command("qualify", [by |-> o, recovery |-> None], head, None,
                       <<"qualification", "december", "result">>) EXCEPT !.winner = lock])

-----------------------------------------------------------------------------
(* The worktree *)

\* git pull
Merge ==
  /\ head < LastCommit
  /\ head' = head + 1
  /\ UNCHANGED <<disk, source, tracked, process, openings>>

\* The operator brings the source's marker to the worktree of the recovery.
CopyMarker(o) ==
  /\ source \notin Operators
  /\ process[o] = Idle
  /\ ~Present(Canonical("marker"))
  /\ disk' = [disk EXCEPT ![Canonical("marker")] = SourceMarker]
  /\ UNCHANGED <<head, source, tracked, process, openings>>

Next ==
  \/ \E o \in Operators :
       \/ CopyMarker(o) \/ Develop(o) \/ Screening(o) \/ November(o) \/ Qualify(o)
       \/ \E r \in Recoveries :
            Export(o, r) \/ Terminate(o, r) \/ Authorize(o, r) \/ Recover(o, r) \/ Adopt(o, r)
       \/ Check(o) \/ Replace(o) \/ Finish(o) \/ Fail(o) \/ Crash(o)
  \/ Merge

Spec == Init /\ [][Next]_vars

-----------------------------------------------------------------------------
(* Properties *)

\* The winner that is frozen: that of a run completed here, or of an adoption.
Winner ==
  LET marker == disk[Canonical("marker")]  adoption == disk[Canonical("adoption")] IN
  IF \/ marker # None /\ marker.status = "complete" /\ marker.verdict = "winner"
     \/ adoption # None /\ adoption.verdict = "winner"
  THEN disk[Canonical("lock")].run
  ELSE None

Seal == INSTANCE SealedQualification WITH
          Runs <- Run, winner <- Winner,
          opened <- [i \in DOMAIN openings |-> openings[i].run]

\* Whatever commands are run, fail and are killed in whatever order, December is
\* opened at most once, only after a winner is frozen, and for that winner,
\* which no later command changes.
ImplementsSeal == Seal!Spec

\* "open December exactly once": at most once, at least.
OneDecember == Len(openings) <= 1

\* December is opened by the code that chose the winner, on its frozen state.
OpenedAsFrozen ==
  \A i \in DOMAIN openings :
    /\ openings[i].lock = disk[Canonical("lock")]
    /\ openings[i].code = openings[i].lock.code
    /\ disk[Canonical("model")] = openings[i].lock.model
    /\ disk[Canonical("state")] = openings[i].lock.state

\* A campaign whose marker says it completed left all its files, by that one run:
\* the decision the marker names and, for a winner, its model, state and lock.
CompletedIsWhole ==
  \A place \in Recoveries \union {None} :
    LET marker == disk[<<"marker", place>>]  lock == disk[<<"lock", place>>] IN
    (marker # None /\ marker.status = "complete") =>
      /\ disk[<<"decision", place>>] = [run |-> marker.run, verdict |-> marker.verdict]
      /\ marker.verdict = "winner" =>
           /\ disk[<<"model", place>>] = [run |-> marker.run]
           /\ lock # None
           /\ lock.run = marker.run /\ lock.code = marker.code
           /\ lock.model = disk[<<"model", place>>]
           /\ lock.state = disk[<<"state", place>>]

\* An adoption record stands for a whole: a completed recovery whose files are
\* all under the canonical names, beside the source's marker as it was.
AdoptionFaithful ==
  LET adoption == disk[Canonical("adoption")] IN
  adoption # None =>
    /\ disk[<<"marker", adoption.recovery>>].status = "complete"
    /\ disk[<<"marker", adoption.recovery>>].verdict = adoption.verdict
    /\ disk[Canonical("marker")] = SourceMarker
    /\ \A i \in DOMAIN AdoptedNames(adoption.verdict) :
         LET name == AdoptedNames(adoption.verdict)[i] IN
         disk[Canonical(name)] = disk[<<name, adoption.recovery>>]

\* A recovery runs on an unbroken chain of records, on the source's data, while
\* the source's marker is what it was.
RecoveryVouched ==
  \A r \in Recoveries :
    /\ Present(<<"marker", r>>) =>
         /\ disk[<<"sidecar", r>>] = disk[<<"evidence", r>>]
         /\ disk[<<"authorization", r>>] = [termination |-> disk[<<"termination", r>>],
                                           evidence |-> disk[<<"evidence", r>>]]
         /\ disk[<<"marker", r>>].code >= CorrectiveCommit
    /\ Present(<<"decision", r>>) => disk[<<"state", r>>] = [data |-> SourceData]

\* What a step may do to a published file.
Unchanged(path) ==
  \/ disk'[path] = disk[path]
  \/ /\ path[1] \in {"marker", "qualification"}
     /\ disk[path].status = "started"
     /\ Present(path)' /\ disk'[path].run = disk[path].run /\ disk'[path].code = disk[path].code

\* A published file never changes; a marker only goes from started to its end.
OutputsImmutable == [][\A path \in Paths : Present(path) => Unchanged(path)]_vars
=============================================================================
