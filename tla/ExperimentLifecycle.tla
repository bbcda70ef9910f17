------------------------ MODULE ExperimentLifecycle ------------------------
(***************************************************************************)
(* The governed experiments that preceded v3, in one worktree: the         *)
(* one-time development run of v1 or v2 and its December qualification.    *)
(* The two differ in what they write, in which order, and in what they ask *)
(* of the checkout.  A marker or output is published by a test that it is  *)
(* absent and a later rename, so that two runs that overlap can both pass  *)
(* the test; a command may fail or be killed between any two of its steps. *)
(***************************************************************************)
EXTENDS Naturals, Sequences

CONSTANTS
  Operators,  \* those who run commands in this worktree, one at a time each
  Checkouts,  \* the states of the Git checkout that commands may find
  None

CheckoutFields ==
  [code : Nat,           \* the commit of HEAD
   clean : BOOLEAN,      \* git status --porcelain is empty
   main : BOOLEAN,       \* the branch is main
   protocol : BOOLEAN,   \* the protocol is merged here, and its file is the locked one
   isolated : BOOLEAN,   \* no service image installs a modeling library
   preserved : BOOLEAN]  \* release and deployment files still name production v0

Verdicts == {"winner", "governed_stop"}

\* What the files hold; a model, a state or a report is told by who made it.
Claims == [by : Operators]
Decisions == [by : Operators, verdict : Verdicts]
Statuses == {"started", "failed", "complete"}
Developments == [by : Operators, code : Nat, status : Statuses, verdict : Verdicts \union {None}]
Qualifications == [by : Operators, code : Nat, status : Statuses, verdict : BOOLEAN \union {None}]
WinnerLocks == [by : Operators, code : Nat, model : Claims \union {None}, state : Claims \union {None}]
Results == [winner : WinnerLocks, passed : BOOLEAN]

ASSUME ExperimentAssumption ==
  /\ Checkouts # {} /\ Checkouts \subseteq CheckoutFields
  /\ None \notin Operators /\ None \notin Claims /\ None \notin Decisions
  /\ None \notin Developments /\ None \notin Qualifications
  /\ None \notin WinnerLocks /\ None \notin Results

VARIABLES
  experiment,  \* which of the two the worktree is of
  checkout,    \* what is checked out
  disk,        \* path -> content, or None; the SHA-256 of a file stands for its content
  process,     \* operator -> the command in progress
  openings,    \* history: the lock December was opened for, the code and the model it was measured with
  contested    \* history: the commands that two operators had in progress at once

vars == <<experiment, checkout, disk, process, openings, contested>>

Experiments == {"v1", "v2"}

\* What must be absent for a command to start.
DevelopmentOutputs == {"marker", "decision", "report", "state", "model", "lock"}
QualificationOutputs == {"qualification", "result", "release"}
Paths == DevelopmentOutputs \union {"qualification", "result", "release"}

Present(path) == disk[path] # None

Marker(by, code, status, verdict) ==
  [by |-> by, code |-> code, status |-> status, verdict |-> verdict]

\* A command: what it still has to do, the lock it validated, the model it
\* loaded, and the bytes it is about to rename into place.
Command(cmd, by, code, todo) ==
  [cmd |-> cmd, by |-> by, code |-> code, todo |-> todo,
   verdict |-> None, winner |-> None, loaded |-> None, held |-> None]

Idle == Command("idle", None, None, <<>>)

Init ==
  /\ experiment \in Experiments
  /\ checkout \in Checkouts
  /\ disk = [path \in Paths |-> None]
  /\ process = [o \in Operators |-> Idle]
  /\ openings = <<>>
  /\ contested = {}

-----------------------------------------------------------------------------
(* Starting a command *)

\* A clean checkout that has the protocol; for v2 it is main's.
Committed == checkout.clean /\ checkout.protocol /\ (experiment = "v2" => checkout.main)

\* The services are isolated and production v0 is in place.
Preflight == checkout.isolated /\ checkout.preserved

Applied == Committed /\ Preflight

\* A refused command changes nothing.
Begin(o, command) ==
  /\ process[o] = Idle
  /\ process' = [process EXCEPT ![o] = command]
  /\ contested' = IF \E other \in Operators : process[other].cmd = command.cmd
                  THEN contested \union {command.cmd} ELSE contested
  /\ UNCHANGED <<experiment, checkout, disk, openings>>

\* No marker and no output; the v2 run freezes the historical state first.
Develop(o) ==
  /\ Applied
  /\ \A name \in DevelopmentOutputs : ~Present(name)
  /\ Begin(o, Command("develop", o, checkout.code,
                      IF experiment = "v1" THEN <<"marker", "november">>
                      ELSE <<"marker", "state", "november">>))

\* Mutant: any development that has a lock is good for December.
HandoffUnfinished ==
  /\ Present("lock")
  /\ disk["model"] = disk["lock"].model
  /\ disk["state"] = disk["lock"].state

\* validate_december_handoff: a completed winner, its lock, and the model (and
\* for v2 the state) that the lock has the digest of.
Handoff ==
  /\ Present("marker") /\ disk["marker"].status = "complete" /\ disk["marker"].verdict = "winner"
  /\ Present("lock")
  /\ disk["model"] = disk["lock"].model
  /\ disk["state"] = disk["lock"].state

\* Mutant: the code of the lock is not compared.
QualifyAnyCode(o) ==
  /\ Applied
  /\ Handoff
  /\ \A name \in QualificationOutputs : ~Present(name)
  /\ Begin(o, [Command("qualify", o, checkout.code, <<"qualification", "december", "load">>)
                 EXCEPT !.winner = disk["lock"]])

\* The code is the winner's, and nothing of a qualification is there.
Qualify(o) ==
  /\ Applied
  /\ Handoff
  /\ disk["lock"].code = checkout.code
  /\ \A name \in QualificationOutputs : ~Present(name)
  /\ Begin(o, [Command("qualify", o, checkout.code, <<"qualification", "december", "load">>)
                 EXCEPT !.winner = disk["lock"]])

-----------------------------------------------------------------------------
(* The steps of a command *)

MarkerName(p) == IF p.cmd = "develop" THEN "marker" ELSE "qualification"

\* It exists once it is no longer to be created.
HasMarker(p) == p.cmd # "idle" /\ (p.todo = <<>> \/ Head(p.todo) # MarkerName(p))

\* What is written under the name at this moment.
Bytes(p, name) ==
  CASE name \in {"marker", "qualification"} -> Marker(p.by, p.code, "started", None)
    [] name = "state" -> [by |-> p.by]
    [] name = "decision" -> [by |-> p.by, verdict |-> p.verdict]
    [] name = "report" -> [by |-> p.by]
    [] name = "model" -> [by |-> p.by]
    [] name = "lock" -> [by |-> p.by, code |-> p.code, model |-> disk["model"],
                         state |-> IF experiment = "v2" THEN [by |-> p.by] ELSE None]
    [] name \in {"result", "release"} -> [winner |-> p.winner, passed |-> p.verdict]

IsFile(name) == name \notin {"november", "december", "load"}

\* The v1 run looks for the lock too before it dumps the model.
Refused(name) == Present(name) \/ (experiment = "v1" /\ name = "model" /\ Present("lock"))

\* The last test that the file is absent.  (If it is present the command fails: Fail.)
Check(o) ==
  LET p == process[o] IN
  /\ p.todo # <<>> /\ p.held = None /\ IsFile(Head(p.todo))
  /\ ~Refused(Head(p.todo))
  /\ process' = [process EXCEPT ![o].held = Bytes(p, Head(p.todo))]
  /\ UNCHANGED <<experiment, checkout, disk, openings, contested>>

\* os.replace
Replace(o) ==
  LET p == process[o] IN
  /\ p.held # None
  /\ disk' = [disk EXCEPT ![Head(p.todo)] = p.held]
  /\ process' = [process EXCEPT ![o].held = None, ![o].todo = Tail(p.todo)]
  /\ UNCHANGED <<experiment, checkout, openings, contested>>

\* Mutant: v1 locks the winner before its model is in place.
OutcomeLockFirst(verdict) ==
  IF verdict = "winner" THEN <<"lock", "model", "decision">> ELSE <<"decision", "report">>

\* The decision and, for a winner, its model and then its lock.
Outcome(verdict) ==
  CASE experiment = "v1" /\ verdict = "winner" -> <<"model", "lock", "decision">>
    [] experiment = "v1" /\ verdict = "governed_stop" -> <<"decision", "report">>
    [] experiment = "v2" /\ verdict = "winner" -> <<"decision", "model", "lock">>
    [] experiment = "v2" /\ verdict = "governed_stop" -> <<"decision">>

\* Reconstruction of R3, screening, refits, calibrations and the November gates.
November(o) ==
  LET p == process[o] IN
  /\ p.todo # <<>> /\ Head(p.todo) = "november"
  /\ \E verdict \in Verdicts :
       process' = [process EXCEPT ![o].verdict = verdict, ![o].todo = Outcome(verdict)]
  /\ UNCHANGED <<experiment, checkout, disk, openings, contested>>

\* December is decoded.
December(o) ==
  LET p == process[o] IN
  /\ p.todo # <<>> /\ Head(p.todo) = "december"
  /\ process' = [process EXCEPT ![o].todo = Tail(@)]
  /\ openings' = Append(openings, [winner |-> p.winner, code |-> p.code, by |-> o, loaded |-> None])
  /\ UNCHANGED <<experiment, checkout, disk, contested>>

\* Mutant: the release candidate is locked before the result is written.
EvidenceReleaseFirst(passed) ==
  IF experiment = "v1" /\ passed THEN <<"release", "result">> ELSE <<"result">>

\* Only v1 has a release-candidate lock, for a candidate that passed.
Evidence(passed) ==
  IF experiment = "v1" /\ passed THEN <<"result", "release">> ELSE <<"result">>

\* The model is read again, by its name, scored and gated.
Load(o) ==
  LET p == process[o] IN
  /\ p.todo # <<>> /\ Head(p.todo) = "load"
  /\ \E passed \in BOOLEAN :
       process' = [process EXCEPT
                     ![o].loaded = disk["model"], ![o].verdict = passed,
                     ![o].todo = Evidence(passed)]
  /\ openings' = [i \in DOMAIN openings |->
                    IF openings[i].by = o /\ openings[i].loaded = None
                    THEN [openings[i] EXCEPT !.loaded = disk["model"]] ELSE openings[i]]
  /\ UNCHANGED <<experiment, checkout, disk, contested>>

FailedMarker(marker) == [marker EXCEPT !.status = "failed"]

\* update_marker, and the command returns.
Finish(o) ==
  LET p == process[o] IN
  /\ p # Idle /\ p.todo = <<>>
  /\ process' = [process EXCEPT ![o] = Idle]
  /\ disk' = [disk EXCEPT ![MarkerName(p)].status = "complete", ![MarkerName(p)].verdict = p.verdict]
  /\ UNCHANGED <<experiment, checkout, openings, contested>>

\* An exception at any point: the marker, if there is one, says so.
Fail(o) ==
  LET p == process[o] IN
  /\ p # Idle
  /\ process' = [process EXCEPT ![o] = Idle]
  /\ disk' = IF HasMarker(p) THEN [disk EXCEPT ![MarkerName(p)] = FailedMarker(@)] ELSE disk
  /\ UNCHANGED <<experiment, checkout, openings, contested>>

\* Killed: nothing is updated.
Crash(o) ==
  /\ process[o] # Idle
  /\ process' = [process EXCEPT ![o] = Idle]
  /\ UNCHANGED <<experiment, checkout, disk, openings, contested>>

\* git checkout, pull, commit or edit, at any time.
CheckOut ==
  /\ checkout' \in Checkouts \ {checkout}
  /\ UNCHANGED <<experiment, disk, process, openings, contested>>

Next ==
  \/ \E o \in Operators :
       \/ Develop(o) \/ Qualify(o)
       \/ Check(o) \/ Replace(o) \/ November(o) \/ December(o) \/ Load(o)
       \/ Finish(o) \/ Fail(o) \/ Crash(o)
  \/ CheckOut

Spec == Init /\ [][Next]_vars

-----------------------------------------------------------------------------
(* Properties *)

Alone(cmd) == cmd \notin contested

\* A development run that completed left all its files, of one run: the decision
\* and, for a winner, the model and state that its lock has the digests of.
CompletedIsWhole ==
  LET marker == disk["marker"]  lock == disk["lock"] IN
  Alone("develop") /\ marker # None /\ marker.status = "complete" =>
    /\ disk["decision"] = [by |-> marker.by, verdict |-> marker.verdict]
    /\ marker.verdict = "governed_stop" => lock = None /\ disk["model"] = None
    /\ marker.verdict = "winner" =>
         /\ lock # None /\ lock.by = marker.by /\ lock.code = marker.code
         /\ lock.model = disk["model"] /\ disk["model"] = [by |-> marker.by]
         /\ lock.state = disk["state"]

\* December is measured on the frozen winner: the model read after the marker is
\* the one compared before it, although it is opened twice, and the code is the
\* one that chose it.
MeasuresTheFrozen ==
  \A i \in DOMAIN openings :
    LET opening == openings[i] IN
    Alone("develop") =>
      /\ opening.code = opening.winner.code
      /\ opening.winner = disk["lock"]
      /\ opening.loaded \in {None, opening.winner.model}

\* A release candidate is a winner of v1 whose December result is on disk and
\* passed; a qualification that completed left the result its marker tells and,
\* in v1, locked its candidate if and only if it passed.
CandidateEarned ==
  LET marker == disk["qualification"] IN
  Alone("qualify") =>
    /\ Present("release") => experiment = "v1" /\ disk["result"] = disk["release"]
                             /\ disk["result"].passed
    /\ marker # None /\ marker.status = "complete" =>
         /\ Present("result") /\ disk["result"].passed = marker.verdict
         /\ experiment = "v1" => (Present("release") <=> marker.verdict)

\* The winner that is frozen.
Winner ==
  LET marker == disk["marker"] IN
  IF marker # None /\ marker.status = "complete" /\ marker.verdict = "winner"
  THEN disk["lock"].by ELSE None

Seal == INSTANCE SealedQualification WITH
          Runs <- Operators, winner <- Winner,
          opened <- [i \in DOMAIN openings |-> openings[i].winner.by]

\* What v3 promises of December holds of its predecessors too, as long as no two
\* runs of one command overlap.
ImplementsSeal == Seal!Init /\ [][contested' = {} => Seal!Next \/ UNCHANGED Seal!vars]_vars
=============================================================================
