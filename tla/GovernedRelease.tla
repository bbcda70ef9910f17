-------------------------- MODULE GovernedRelease --------------------------
(***************************************************************************)
(* The governed v0 release in one worktree (scripts/release_model.py):     *)
(* "prepare" reconstructs the candidate, bundles and locks it, "stage"     *)
(* publishes it under the staging alias, "evaluate-once" opens the sealed  *)
(* final test for the staged candidate and decides which alias serves.     *)
(* Commands are started by operators, may overlap, fail at any call and be *)
(* killed in any write; the Registry's aliases also move on their own.     *)
(***************************************************************************)
EXTENDS Naturals, Sequences, FiniteSets

CONSTANTS
  Operators,  \* those who start commands here, one at a time each
  Locks,      \* candidates: the hashes that a selection lock pins
  MaxCommands,  \* bound: commands started in this worktree
  Torn,       \* what a killed or failed write leaves in a file
  None

\* What the hash of a lock or a bundle may turn out to be.
Contents == Locks \union {None, Torn}

\* A Registry version is its files: the same files are the same version again.
Version(bundle, lock) == [bundle |-> bundle, lock |-> lock]
AnyVersion == [bundle : Contents, lock : Contents]
Foreign == Version(None, None)   \* published by another workflow

Identities == [lock : Contents, bundle : Locks, version : AnyVersion \union {None}]
Results == [identity : Identities, passed : BOOLEAN]
Markers ==
  [status : {"started", "complete"}, identity : Identities, result : Results \union {None, Torn}]

ASSUME ReleaseAssumption ==
  /\ MaxCommands \in Nat
  /\ None \notin Locks \union {Torn} \union Results \union Markers
  /\ Torn \notin Locks \union Results \union Markers

VARIABLES
  disk,       \* file -> content, or None
  committed,  \* git status reports nothing; artifacts/ is ignored
  published,  \* the versions in the Registry collection
  alias,      \* alias -> version, or None
  download,   \* the version in final-test-staging-download, shared by all runs
  process,    \* operator -> the command in progress
  started,    \* the number of commands started
  openings,   \* history: the candidates the final test was opened for
  overlapped  \* history: a download replaced one that an evaluation was using

vars == <<disk, committed, published, alias, download, process, started, openings, overlapped>>

Files == {"bundle", "evidence", "lock", "marker", "result", "decision"}
Ignored == {"bundle", "evidence"}   \* under RELEASE_ROOT

Whole(file) == disk[file] \notin {None, Torn}

Idle == [step |-> "idle", lock |-> None, version |-> None, passed |-> FALSE]

Init ==
  /\ disk = [file \in Files |-> None]
  /\ committed = TRUE
  /\ published = {Foreign}
  /\ alias = [a \in {"staging", "production"} |-> None]
  /\ download = None
  /\ process = [o \in Operators |-> Idle]
  /\ started = 0
  /\ openings = <<>>
  /\ overlapped = FALSE

At(o, step) == process[o].step = step

Goto(o, step) == process' = [process EXCEPT ![o].step = step]

Done(o) == process' = [process EXCEPT ![o] = Idle]

Write(file, content) ==
  /\ disk' = [disk EXCEPT ![file] = content]
  /\ committed' = (committed /\ file \in Ignored)

\* require_clean_worktree, then the command.
Start(o, step, lock) ==
  /\ process[o] = Idle
  /\ committed
  /\ started < MaxCommands
  /\ started' = started + 1
  /\ process' = [process EXCEPT ![o].step = step, ![o].lock = lock]
  /\ UNCHANGED <<disk, committed, published, alias, download, openings, overlapped>>

-----------------------------------------------------------------------------
(* prepare *)

Prepare(o) ==
  /\ disk["bundle"] = None /\ disk["evidence"] = None
  /\ \E lock \in Locks : Start(o, "bundle", lock)

\* write_release_bundle: into an empty directory only.
WriteBundle(o) ==
  /\ At(o, "bundle") /\ disk["bundle"] = None
  /\ Write("bundle", process[o].lock)
  /\ Goto(o, "lock")
  /\ UNCHANGED <<published, alias, download, started, openings, overlapped>>

\* write_selection_lock overwrites.
WriteLock(o) ==
  /\ At(o, "lock")
  /\ Write("lock", process[o].lock)
  /\ Done(o)
  /\ UNCHANGED <<published, alias, download, started, openings, overlapped>>

-----------------------------------------------------------------------------
(* stage *)

\* verify_locked_files: the bundle has the hashes in the lock.
Stage(o) ==
  /\ Whole("lock") /\ disk["bundle"] = disk["lock"]
  /\ Start(o, "link", disk["lock"])

\* log_artifact and link upload the files as they are now.
Link(o) ==
  /\ At(o, "link")
  /\ disk["bundle"] # None
  /\ LET version == Version(disk["bundle"], disk["lock"]) IN
     /\ published' = published \union {version}
     /\ alias' = [alias EXCEPT !["staging"] = version]
  /\ Goto(o, "staged")
  /\ UNCHANGED <<disk, committed, download, started, openings, overlapped>>

\* Mutant: the download is not verified.
VerifiedPresent(version, lock) == version # None

\* A clean download of the version holds the locked candidate.
Verified(version, lock) == version # None /\ version = Version(lock, disk["lock"])

\* The alias is resolved again, and what it names now is verified.
WriteEvidence(o) ==
  /\ At(o, "staged")
  /\ Verified(alias["staging"], process[o].lock)
  /\ Write("evidence", alias["staging"])
  /\ Done(o)
  /\ UNCHANGED <<published, alias, download, started, openings, overlapped>>

-----------------------------------------------------------------------------
(* evaluate-once *)

Evaluate(o) == Whole("lock") /\ Start(o, "download", disk["lock"])

UsesDownload(o) == process[o].step \in {"guard", "mark", "open", "measure"}

\* _guard_staging resolves the alias and downloads into the shared directory.
Download(o) ==
  /\ At(o, "download")
  /\ alias["staging"] # None
  /\ download' = alias["staging"]
  /\ process' = [process EXCEPT ![o].step = "guard", ![o].version = alias["staging"]]
  /\ overlapped' = (overlapped \/ \E other \in Operators : UsesDownload(other))
  /\ UNCHANGED <<disk, committed, published, alias, started, openings>>

Guard(o) ==
  /\ At(o, "guard")
  /\ Verified(download, process[o].lock)
  /\ Goto(o, "mark")
  /\ UNCHANGED <<disk, committed, published, alias, download, started, openings, overlapped>>

\* Mutant: the bundle digest is read from the lock file again.
IdentityReread(p) == [lock |-> disk["lock"], bundle |-> disk["lock"], version |-> p.version]

\* What the marker and the result say of the candidate.
Identity(p) == [lock |-> disk["lock"], bundle |-> p.lock, version |-> p.version]

StartedMarker(p) == [status |-> "started", identity |-> Identity(p), result |-> None]
CompleteMarker(p) == [status |-> "complete", identity |-> Identity(p), result |-> disk["result"]]

\* Mutant: a marker that has been tested for before is overwritten.
ClaimableAlways == TRUE

\* O_CREAT | O_EXCL
Claimable == disk["marker"] = None

Mark(o) ==
  /\ At(o, "mark")
  /\ Claimable
  /\ Write("marker", StartedMarker(process[o]))
  /\ Goto(o, "open")
  /\ UNCHANGED <<published, alias, download, started, openings, overlapped>>

\* test.parquet is hashed and decoded.
Open(o) ==
  /\ At(o, "open")
  /\ openings' = Append(openings, process[o].lock)
  /\ Goto(o, "measure")
  /\ UNCHANGED <<disk, committed, published, alias, download, started, overlapped>>

\* The model is loaded from the download; the gates give a verdict.
Measure(o) ==
  /\ At(o, "measure")
  /\ \E passed \in BOOLEAN :
       process' = [process EXCEPT ![o].step = "result", ![o].passed = passed]
  /\ UNCHANGED <<disk, committed, published, alias, download, started, openings, overlapped>>

WriteResult(o) ==
  /\ At(o, "result")
  /\ Write("result", [identity |-> Identity(process[o]), passed |-> process[o].passed])
  /\ Goto(o, "complete")
  /\ UNCHANGED <<published, alias, download, started, openings, overlapped>>

\* Mutant: production whatever the gates say.
NextAliasAlways(p) == "production"

NextAlias(p) == IF p.passed THEN "production" ELSE "decide"

Complete(o) ==
  /\ At(o, "complete")
  /\ Write("marker", CompleteMarker(process[o]))
  /\ Goto(o, NextAlias(process[o]))
  /\ UNCHANGED <<published, alias, download, started, openings, overlapped>>

LinkProduction(o) ==
  /\ At(o, "production")
  /\ alias' = [alias EXCEPT !["production"] = process[o].version]
  /\ Goto(o, "verify")
  /\ UNCHANGED <<disk, committed, published, download, started, openings, overlapped>>

ProductionVerified(p) == Verified(alias["production"], p.lock)

VerifyProduction(o) ==
  /\ At(o, "verify")
  /\ ProductionVerified(process[o])
  /\ process' = [process EXCEPT ![o].step = "decide", ![o].version = alias["production"]]
  /\ UNCHANGED <<disk, committed, published, alias, download, started, openings, overlapped>>

Decision(p) ==
  [alias |-> IF p.passed THEN "production" ELSE "staging", version |-> p.version,
   bundle |-> p.lock, passed |-> p.passed, result |-> disk["result"]]

Decide(o) ==
  /\ At(o, "decide")
  /\ Write("decision", Decision(process[o]))
  /\ Done(o)
  /\ UNCHANGED <<published, alias, download, started, openings, overlapped>>

-----------------------------------------------------------------------------
(* Failures, the worktree and the Registry *)

\* The file a step writes.
Writing ==
  [bundle |-> "bundle", lock |-> "lock", staged |-> "evidence", mark |-> "marker",
   result |-> "result", complete |-> "marker", decide |-> "decision"]

\* A call fails, a guard refuses or the process is killed.
Stop(o) ==
  /\ process[o] # Idle
  /\ Done(o)
  /\ UNCHANGED <<disk, committed, published, alias, download, started, openings, overlapped>>

\* The same in the middle of a write.
Tear(o) ==
  LET step == process[o].step IN
  /\ step \in DOMAIN Writing
  /\ step \in {"bundle", "mark"} => disk[Writing[step]] = None
  /\ Write(Writing[step], Torn)
  /\ Done(o)
  /\ UNCHANGED <<published, alias, download, started, openings, overlapped>>

\* The operators commit what release/ holds; they never delete a file of it.
Commit ==
  /\ ~committed
  /\ committed' = TRUE
  /\ UNCHANGED <<disk, published, alias, download, process, started, openings, overlapped>>

\* RELEASE_ROOT is removed, so that a candidate can be prepared again.
ClearRoot ==
  /\ disk["bundle"] # None \/ disk["evidence"] # None
  /\ disk' = [file \in Files |-> IF file \in Ignored THEN None ELSE disk[file]]
  /\ UNCHANGED <<committed, published, alias, download, process, started, openings, overlapped>>

\* A promotion or another worktree links an alias.
MoveAlias ==
  /\ \E a \in DOMAIN alias, version \in published : alias' = [alias EXCEPT ![a] = version]
  /\ UNCHANGED <<disk, committed, published, download, process, started, openings, overlapped>>

Next ==
  \/ \E o \in Operators :
       \/ Prepare(o) \/ WriteBundle(o) \/ WriteLock(o)
       \/ Stage(o) \/ Link(o) \/ WriteEvidence(o)
       \/ Evaluate(o) \/ Download(o) \/ Guard(o) \/ Mark(o) \/ Open(o) \/ Measure(o)
       \/ WriteResult(o) \/ Complete(o) \/ LinkProduction(o) \/ VerifyProduction(o) \/ Decide(o)
       \/ Stop(o) \/ Tear(o)
  \/ Commit \/ ClearRoot \/ MoveAlias

Spec == Init /\ [][Next]_vars

-----------------------------------------------------------------------------
(* Properties *)

Steps == {"idle", "bundle", "lock", "link", "staged", "download", "guard", "mark", "open",
          "measure", "result", "complete", "production", "verify", "decide"}

Process ==
  [step : Steps, lock : Locks \union {None}, version : AnyVersion \union {None},
   passed : BOOLEAN]

\* A command in progress is about a whole lock and published versions.
Typed(p) ==
  /\ p \in Process
  /\ p.step # "idle" => p.lock \in Locks
  /\ p.version \in published \union {None}

\* Types: every file, alias and command in progress holds what the code may put there.
TypeOK ==
  /\ disk = [file \in Files |-> disk[file]]
  /\ disk["bundle"] \in Contents /\ disk["lock"] \in Contents
  /\ disk["evidence"] \in published \union {None, Torn}
  /\ disk["marker"] \in Markers \union {None, Torn}
  /\ disk["result"] \in Results \union {None, Torn}
  /\ committed \in BOOLEAN
  /\ published \subseteq AnyVersion /\ Foreign \in published
  /\ alias \in [{"staging", "production"} -> published \union {None}]
  /\ download \in published \union {None}
  /\ process \in [Operators -> Process] /\ \A o \in Operators : Typed(process[o])
  /\ started \in 0 .. MaxCommands
  /\ openings \in Seq(Locks)
  /\ overlapped \in BOOLEAN

\* "may execute only once": whatever commands overlap, fail and are killed, the
\* final test is opened at most once, and never without a marker that stays.
FinalTestOnce == Len(openings) <= 1 /\ (openings # <<>> => disk["marker"] # None)

\* A marker that says complete stands for the result it pins, of the candidate
\* the test was opened for.
CompleteIsRecorded ==
  Whole("marker") /\ disk["marker"].status = "complete" =>
    /\ disk["marker"].result = disk["result"]
    /\ disk["result"].identity.bundle = openings[1]

\* The workflow itself links production only for the candidate of the one final
\* test, after its passing result and the completed marker are on disk; to the
\* version that was verified, unless evaluations shared the download directory.
ProductionEarned ==
  [][alias'["production"] # alias["production"] /\ process' # process =>
       /\ Whole("result") /\ disk["result"].passed
       /\ Whole("marker") /\ disk["marker"].status = "complete"
       /\ openings = <<disk["result"].identity.bundle>>
       /\ ~overlapped => alias'["production"].bundle = openings[1]]_vars

\* The decision that serving relies on repeats the recorded verdict on the
\* candidate the test was opened for, and names a version with its files, unless
\* evaluations shared the download directory.
DecisionTrue ==
  Whole("decision") =>
    LET decision == disk["decision"] IN
    /\ decision.result = disk["result"]
    /\ decision.passed = disk["result"].passed
    /\ (decision.alias = "production") = decision.passed
    /\ openings = <<decision.bundle>>
    /\ ~overlapped \/ decision.passed => decision.version.bundle = decision.bundle

\* The model that is measured is the one the committed lock names, however the
\* alias has moved since it was verified.
LockedIsMeasured ==
  \A o \in Operators :
    At(o, "measure") /\ ~overlapped =>
      download = process[o].version /\ download.bundle = openings[1]
=============================================================================
