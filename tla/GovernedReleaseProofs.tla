----------------------- MODULE GovernedReleaseProofs -----------------------
(* Theorems of GovernedRelease, for any operators and candidates, however   *)
(* many commands are started.                                               *)
EXTENDS GovernedRelease, TLAPS

-----------------------------------------------------------------------------
(* Types *)

\* A step of one command that writes no file and moves no alias.
LEMMA OneCommand ==
  ASSUME TypeOK, NEW o \in Operators, NEW p, Typed(p),
         process' = [process EXCEPT ![o] = p],
         UNCHANGED <<disk, committed, published, alias, download, started, openings, overlapped>>
  PROVE  TypeOK'
  BY DEF TypeOK, Typed

\* The same of a step that writes one file.
LEMMA OneWrite ==
  ASSUME TypeOK, NEW o \in Operators, NEW p, Typed(p),
         process' = [process EXCEPT ![o] = p],
         NEW file \in Files, NEW content, Write(file, content),
         file \in {"bundle", "lock"} => content \in Contents,
         file = "evidence" => content \in published \union {None, Torn},
         file = "marker" => content \in Markers \union {None, Torn},
         file = "result" => content \in Results \union {None, Torn},
         UNCHANGED <<published, alias, download, started, openings, overlapped>>
  PROVE  TypeOK'
  <1>1. disk' = [f \in Files |-> disk'[f]]
    BY DEF TypeOK, Write
  <1>2. disk'[file] = content /\ \A f \in Files \ {file} : disk'[f] = disk[f]
    BY DEF TypeOK, Write
  <1>3. /\ disk'["bundle"] \in Contents /\ disk'["lock"] \in Contents
        /\ disk'["evidence"] \in published \union {None, Torn}
        /\ disk'["marker"] \in Markers \union {None, Torn}
        /\ disk'["result"] \in Results \union {None, Torn}
    BY <1>2 DEF TypeOK, Files
  <1>4. committed' \in BOOLEAN
    BY DEF Write, TypeOK
  <1> QED
    BY <1>1, <1>3, <1>4 DEF TypeOK, Typed

LEMMA IdleTyped == Typed(Idle)
  BY DEF Typed, Idle, Process, Steps

\* Where a command goes on to, nothing else of it changes.
LEMMA GotoTyped ==
  ASSUME TypeOK, NEW o \in Operators, process[o].step # "idle", NEW step \in Steps
  PROVE  Typed([process[o] EXCEPT !.step = step])
  BY DEF TypeOK, Typed, Process

LEMMA GotoIs ==
  ASSUME TypeOK, NEW o \in Operators, NEW step, Goto(o, step)
  PROVE  process' = [process EXCEPT ![o] = [process[o] EXCEPT !.step = step]]
  BY DEF TypeOK, Goto

\* A command that goes on to its next step, having written a file.
LEMMA GotoWrite ==
  ASSUME TypeOK, NEW o \in Operators, process[o].step # "idle",
         NEW step \in Steps, Goto(o, step),
         NEW file \in Files \ {"evidence"}, NEW content, Write(file, content),
         file \in {"bundle", "lock"} => content \in Contents,
         file = "marker" => content \in Markers \union {None, Torn},
         file = "result" => content \in Results \union {None, Torn},
         UNCHANGED <<published, alias, download, started, openings, overlapped>>
  PROVE  TypeOK'
  <1> DEFINE p == [process[o] EXCEPT !.step = step]
  <1>1. process' = [process EXCEPT ![o] = p] /\ Typed(p)
    BY GotoIs, GotoTyped
  <1> HIDE DEF p
  <1> QED
    BY <1>1, OneWrite

LEMMA StartTyped ==
  ASSUME TypeOK, NEW o \in Operators, NEW step \in Steps, NEW lock \in Locks,
         Start(o, step, lock)
  PROVE  TypeOK'
  <1> DEFINE p == [process[o] EXCEPT !.step = step, !.lock = lock]
  <1>1. process' = [process EXCEPT ![o] = p]
    BY DEF TypeOK, Start
  <1>2. Typed(p)
    BY DEF TypeOK, Typed, Process
  <1>3. started' \in 0 .. MaxCommands
    BY ReleaseAssumption DEF Start, TypeOK
  <1> HIDE DEF p
  <1> QED
    BY <1>1, <1>2, <1>3 DEF Start, TypeOK, Typed

LEMMA IdentityTyped ==
  ASSUME TypeOK, NEW o \in Operators, process[o].step # "idle"
  PROVE  Identity(process[o]) \in Identities
  <1>1. process[o].lock \in Locks /\ process[o].version \in AnyVersion \union {None}
    BY DEF TypeOK, Typed
  <1>2. disk["lock"] \in Contents
    BY DEF TypeOK
  <1> QED
    BY <1>1, <1>2 DEF Identity, Identities

LEMMA StartedTyped ==
  ASSUME TypeOK, NEW o \in Operators, process[o].step # "idle"
  PROVE  StartedMarker(process[o]) \in Markers
  BY IdentityTyped DEF StartedMarker, Markers

LEMMA CompleteTyped ==
  ASSUME TypeOK, NEW o \in Operators, process[o].step # "idle"
  PROVE  CompleteMarker(process[o]) \in Markers
  <1>1. disk["result"] \in Results \union {None, Torn}
    BY DEF TypeOK
  <1> QED
    BY <1>1, IdentityTyped DEF CompleteMarker, Markers

LEMMA ResultTyped ==
  ASSUME TypeOK, NEW o \in Operators, process[o].step # "idle"
  PROVE  [identity |-> Identity(process[o]), passed |-> process[o].passed] \in Results
  <1>1. process[o].passed \in BOOLEAN
    BY DEF TypeOK, Typed, Process
  <1> QED
    BY <1>1, IdentityTyped DEF Results

LEMMA TypeInit == Init => TypeOK
  <1> SUFFICES ASSUME Init PROVE TypeOK
    OBVIOUS
  <1>1. Foreign \in AnyVersion
    BY DEF Foreign, Version, AnyVersion, Contents
  <1>2. Idle \in Process
    BY IdleTyped DEF Typed
  <1>3. \A o \in Operators : process[o] = Idle
    BY DEF Init
  <1>4. process \in [Operators -> Process] /\ \A o \in Operators : Typed(process[o])
    BY <1>2, <1>3, IdleTyped DEF Init
  <1>5. /\ disk = [file \in Files |-> disk[file]]
        /\ \A file \in Files : disk[file] = None
    BY DEF Init
  <1>6. None \in Contents
    BY DEF Contents
  <1>7. started \in 0 .. MaxCommands
    BY ReleaseAssumption DEF Init
  <1>8. /\ disk["bundle"] \in Contents /\ disk["lock"] \in Contents
        /\ disk["evidence"] \in published \union {None, Torn}
        /\ disk["marker"] \in Markers \union {None, Torn}
        /\ disk["result"] \in Results \union {None, Torn}
    BY <1>5, <1>6 DEF Files
  <1>9. openings \in Seq(Locks)
    BY DEF Init
  <1> QED
    BY <1>1, <1>4, <1>5, <1>7, <1>8, <1>9 DEF Init, TypeOK

LEMMA TypeStep == TypeOK /\ [Next]_vars => TypeOK'
  <1> SUFFICES ASSUME TypeOK, [Next]_vars PROVE TypeOK'
    OBVIOUS
  <1>1. ASSUME NEW o \in Operators, Prepare(o) PROVE TypeOK'
    BY <1>1, StartTyped DEF Prepare, Steps
  <1>2. ASSUME NEW o \in Operators, WriteBundle(o) PROVE TypeOK'
    <2>1. process[o].lock \in Locks /\ process[o].step # "idle"
      BY <1>2 DEF WriteBundle, At, TypeOK, Typed
    <2> QED
      BY <1>2, <2>1, GotoWrite DEF WriteBundle, Steps, Files, Contents
  <1>3. ASSUME NEW o \in Operators, WriteLock(o) PROVE TypeOK'
    <2>1. process[o].lock \in Locks
      BY <1>3 DEF WriteLock, At, TypeOK, Typed
    <2> QED
      BY <1>3, <2>1, IdleTyped, OneWrite DEF WriteLock, Done, Files, Contents
  <1>4. ASSUME NEW o \in Operators, Stage(o) PROVE TypeOK'
    BY <1>4, StartTyped DEF Stage, Whole, TypeOK, Contents, Steps
  <1>5. ASSUME NEW o \in Operators, Link(o) PROVE TypeOK'
    <2> DEFINE version == Version(disk["bundle"], disk["lock"])
               p == [process[o] EXCEPT !.step = "staged"]
    <2>1. version \in AnyVersion
      BY DEF Version, AnyVersion, TypeOK
    <2>2. /\ published' = published \union {version}
          /\ alias' = [alias EXCEPT !["staging"] = version]
      BY <1>5 DEF Link
    <2>3. process' = [process EXCEPT ![o] = p]
      BY <1>5, GotoIs DEF Link
    <2>4. Typed(p)
      BY <1>5, GotoTyped DEF Link, At, Steps
    <2> HIDE DEF version, p
    <2> QED
      BY <1>5, <2>1, <2>2, <2>3, <2>4 DEF Link, TypeOK, Typed
  <1>6. ASSUME NEW o \in Operators, WriteEvidence(o) PROVE TypeOK'
    <2>1. alias["staging"] \in published \union {None}
      BY DEF TypeOK
    <2> QED
      BY <1>6, <2>1, IdleTyped, OneWrite DEF WriteEvidence, Done, Files
  <1>7. ASSUME NEW o \in Operators, Evaluate(o) PROVE TypeOK'
    BY <1>7, StartTyped DEF Evaluate, Whole, TypeOK, Contents, Steps
  <1>8. ASSUME NEW o \in Operators, Download(o) PROVE TypeOK'
    <2> DEFINE p == [process[o] EXCEPT !.step = "guard", !.version = alias["staging"]]
    <2>1. alias["staging"] \in published /\ alias["staging"] \in AnyVersion
      BY <1>8 DEF Download, TypeOK
    <2>2. process' = [process EXCEPT ![o] = p]
      BY <1>8 DEF Download, TypeOK
    <2>3. Typed(p)
      BY <1>8, <2>1 DEF Download, At, TypeOK, Typed, Process, Steps
    <2>4. overlapped' \in BOOLEAN
      BY <1>8 DEF Download
    <2> HIDE DEF p
    <2> QED
      BY <1>8, <2>1, <2>2, <2>3, <2>4 DEF Download, TypeOK, Typed
  <1>9. ASSUME NEW o \in Operators, Guard(o) PROVE TypeOK'
    <2> DEFINE p == [process[o] EXCEPT !.step = "mark"]
    <2>1. process' = [process EXCEPT ![o] = p] /\ Typed(p)
      BY <1>9, GotoTyped, GotoIs DEF Guard, At, Steps
    <2> HIDE DEF p
    <2> QED
      BY <1>9, <2>1, OneCommand DEF Guard
  <1>10. ASSUME NEW o \in Operators, Mark(o) PROVE TypeOK'
    BY <1>10, StartedTyped, GotoWrite DEF Mark, At, Steps, Files
  <1>11. ASSUME NEW o \in Operators, Open(o) PROVE TypeOK'
    <2> DEFINE p == [process[o] EXCEPT !.step = "measure"]
    <2>1. process' = [process EXCEPT ![o] = p] /\ Typed(p)
      BY <1>11, GotoTyped, GotoIs DEF Open, At, Steps
    <2>2. openings' \in Seq(Locks)
      BY <1>11 DEF Open, At, TypeOK, Typed
    <2> HIDE DEF p
    <2> QED
      BY <1>11, <2>1, <2>2 DEF Open, TypeOK, Typed
  <1>12. ASSUME NEW o \in Operators, Measure(o) PROVE TypeOK'
    <2>1. PICK passed \in BOOLEAN :
            process' = [process EXCEPT ![o].step = "result", ![o].passed = passed]
      BY <1>12 DEF Measure
    <2> DEFINE p == [process[o] EXCEPT !.step = "result", !.passed = passed]
    <2>2. process' = [process EXCEPT ![o] = p]
      BY <2>1 DEF TypeOK
    <2>3. Typed(p)
      BY <1>12 DEF Measure, At, TypeOK, Typed, Process, Steps
    <2> HIDE DEF p
    <2> QED
      BY <1>12, <2>2, <2>3, OneCommand DEF Measure
  <1>13. ASSUME NEW o \in Operators, WriteResult(o) PROVE TypeOK'
    BY <1>13, ResultTyped, GotoWrite DEF WriteResult, At, Steps, Files
  <1>14. ASSUME NEW o \in Operators, Complete(o) PROVE TypeOK'
    <2>1. NextAlias(process[o]) \in Steps
      BY DEF NextAlias, Steps
    <2> QED
      BY <1>14, <2>1, CompleteTyped, GotoWrite DEF Complete, At, Files
  <1>15. ASSUME NEW o \in Operators, LinkProduction(o) PROVE TypeOK'
    <2> DEFINE p == [process[o] EXCEPT !.step = "verify"]
    <2>1. process' = [process EXCEPT ![o] = p] /\ Typed(p)
      BY <1>15, GotoTyped, GotoIs DEF LinkProduction, At, Steps
    <2>2. process[o].version \in published \union {None}
      BY DEF TypeOK, Typed
    <2> HIDE DEF p
    <2> QED
      BY <1>15, <2>1, <2>2 DEF LinkProduction, TypeOK, Typed
  <1>16. ASSUME NEW o \in Operators, VerifyProduction(o) PROVE TypeOK'
    <2> DEFINE p == [process[o] EXCEPT !.step = "decide", !.version = alias["production"]]
    <2>1. alias["production"] \in published \union {None} /\ published \subseteq AnyVersion
      BY DEF TypeOK
    <2>2. process' = [process EXCEPT ![o] = p]
      BY <1>16 DEF VerifyProduction, TypeOK
    <2>3. Typed(p)
      BY <1>16, <2>1 DEF VerifyProduction, At, TypeOK, Typed, Process, Steps
    <2> HIDE DEF p
    <2> QED
      BY <1>16, <2>2, <2>3, OneCommand DEF VerifyProduction
  <1>17. ASSUME NEW o \in Operators, Decide(o) PROVE TypeOK'
    BY <1>17, IdleTyped, OneWrite DEF Decide, Done, Files
  <1>18. ASSUME NEW o \in Operators, Stop(o) PROVE TypeOK'
    BY <1>18, IdleTyped, OneCommand DEF Stop, Done
  <1>19. ASSUME NEW o \in Operators, Tear(o) PROVE TypeOK'
    <2>1. Writing[process[o].step] \in Files
      BY <1>19 DEF Tear, Writing, Files
    <2> QED
      BY <1>19, <2>1, IdleTyped, OneWrite DEF Tear, Done, Contents
  <1>20. ASSUME Commit PROVE TypeOK'
    BY <1>20 DEF Commit, TypeOK, Typed
  <1>21. ASSUME ClearRoot PROVE TypeOK'
    <2>1. /\ disk' = [file \in Files |-> disk'[file]]
          /\ disk'["bundle"] = None /\ disk'["evidence"] = None
          /\ disk'["lock"] = disk["lock"]
          /\ disk'["marker"] = disk["marker"] /\ disk'["result"] = disk["result"]
      BY <1>21 DEF ClearRoot, Files, Ignored
    <2> QED
      BY <1>21, <2>1 DEF ClearRoot, TypeOK, Typed, Contents
  <1>22. ASSUME MoveAlias PROVE TypeOK'
    BY <1>22 DEF MoveAlias, TypeOK, Typed
  <1>23. ASSUME UNCHANGED vars PROVE TypeOK'
    BY <1>23 DEF vars, TypeOK, Typed
  <1> QED
    BY <1>1, <1>2, <1>3, <1>4, <1>5, <1>6, <1>7, <1>8, <1>9, <1>10, <1>11, <1>12, <1>13,
       <1>14, <1>15, <1>16, <1>17, <1>18, <1>19, <1>20, <1>21, <1>22, <1>23 DEF Next

\* Types hold in every reachable state of the release workflow.
THEOREM ReleaseTyped == Spec => []TypeOK
  BY TypeInit, TypeStep, PTL DEF Spec

-----------------------------------------------------------------------------
(* The final test *)

\* The command that created the marker is in one of these steps until it ends.
Claiming == {"open", "measure", "result", "complete", "production", "verify", "decide"}

\* At most one command is past the marker, and the test was opened by it, once.
Claimed ==
  /\ \A o \in Operators : process[o].step \in Claiming => disk["marker"] # None
  /\ \A o, other \in Operators :
       process[o].step \in Claiming /\ process[other].step \in Claiming => o = other
  /\ openings # <<>> => disk["marker"] # None
  /\ Len(openings) <= 1
  /\ Whole("decision") =>
       disk["marker"] # None /\ \A o \in Operators : process[o].step \notin Claiming

\* What the files and the history say of a command past the marker, and what its
\* download holds as long as no other evaluation replaced it.
Sound(p) ==
  /\ p.step = "open" => openings = <<>>
  /\ p.step \in Claiming \ {"open"} => openings = <<p.lock>>
  /\ p.step \in {"open", "measure", "result", "complete"} =>
       disk["marker"] \in Markers /\ disk["marker"].status = "started"
  /\ p.step \in {"complete", "production", "verify", "decide"} =>
       /\ disk["result"] \in Results
       /\ disk["result"].identity.bundle = p.lock
       /\ disk["result"].passed = p.passed
  /\ p.step \in {"production", "verify", "decide"} =>
       /\ disk["marker"] \in Markers /\ disk["marker"].status = "complete"
       /\ disk["marker"].result = disk["result"]
  /\ p.step \in {"production", "verify"} => p.passed
  /\ p.step \in {"guard", "mark", "open", "measure"} /\ ~overlapped => download = p.version
  /\ p.step \in Claiming \union {"mark"} /\ ~overlapped => p.version.bundle = p.lock
  /\ p.step = "decide" /\ p.passed => p.version.bundle = p.lock

Safe ==
  /\ Claimed
  /\ \A o \in Operators : Sound(process[o])
  /\ CompleteIsRecorded
  /\ DecisionTrue

LEMMA SafeInit == Init => Safe
  <1> SUFFICES ASSUME Init PROVE Safe
    OBVIOUS
  <1>1. \A o \in Operators : process[o].step = "idle"
    BY DEF Init, Idle
  <1>2. disk["marker"] = None /\ disk["decision"] = None /\ openings = <<>>
    BY DEF Init, Files
  <1> QED
    BY <1>1, <1>2 DEF Safe, Claimed, Claiming, Sound, CompleteIsRecorded, DecisionTrue, Whole

\* The files and the history of the final test are as they were.
Quiet ==
  /\ disk'["marker"] = disk["marker"]
  /\ disk'["result"] = disk["result"]
  /\ disk'["decision"] = disk["decision"]
  /\ UNCHANGED <<download, openings, overlapped>>

\* A step of a command that is not, and does not become, an evaluation past the
\* download.
LEMMA QuietStep ==
  ASSUME TypeOK, Safe, Quiet, NEW o \in Operators, NEW p,
         p.step \notin Claiming \union {"guard", "mark"},
         process' = [process EXCEPT ![o] = p]
  PROVE  Safe'
  <1>1. process'[o] = p /\ \A other \in Operators \ {o} : process'[other] = process[other]
    BY DEF TypeOK
  <1>2. Claimed'
    BY <1>1 DEF Safe, Claimed, Quiet, Whole
  <1>3. Sound(p)'
    BY DEF Sound, Claiming
  <1>4. \A other \in Operators : Sound(process[other])'
    BY <1>1, <1>3 DEF Safe, Sound, Quiet
  <1> QED
    BY <1>2, <1>4 DEF Safe, Quiet, CompleteIsRecorded, DecisionTrue, Whole

\* No command moves.
LEMMA QuietWorld ==
  ASSUME TypeOK, Safe, Quiet, UNCHANGED process
  PROVE  Safe'
  <1>1. Claimed'
    BY DEF Safe, Claimed, Quiet, Whole
  <1>2. \A o \in Operators : Sound(process[o])'
    BY DEF Safe, Sound, Quiet
  <1> QED
    BY <1>1, <1>2 DEF Safe, Quiet, CompleteIsRecorded, DecisionTrue, Whole

\* A file that is not one of the final test's.
LEMMA QuietWrite ==
  ASSUME TypeOK, NEW file \in {"bundle", "evidence", "lock"}, NEW content, Write(file, content)
  PROVE  /\ disk'["marker"] = disk["marker"]
         /\ disk'["result"] = disk["result"]
         /\ disk'["decision"] = disk["decision"]
  BY DEF TypeOK, Write, Files

\* One file of the final test is written.
LEMMA TestWrite ==
  ASSUME TypeOK, NEW file \in {"marker", "result", "decision"}, NEW content,
         Write(file, content)
  PROVE  /\ disk'[file] = content
         /\ \A other \in {"marker", "result", "decision"} \ {file} : disk'[other] = disk[other]
  BY DEF TypeOK, Write, Files

\* Beside a command past the marker, others are at most about to create it: what
\* is Sound of them rests on the download only.
LEMMA OthersSound ==
  ASSUME TypeOK, Safe, NEW o \in Operators, NEW other \in Operators,
         process[other].step \notin Claiming,
         process'[other] = process[other],
         UNCHANGED <<download, overlapped>>
  PROVE  Sound(process[other])'
  BY DEF Safe, Sound, Claiming

\* A step of the command past the marker.
LEMMA ClaimingStep ==
  ASSUME TypeOK, Safe, NEW o \in Operators, NEW p,
         process[o].step \in Claiming,
         process' = [process EXCEPT ![o] = p],
         Sound(p)',
         disk'["marker"] # None,
         Len(openings') <= 1,
         Whole("decision")' => p.step \notin Claiming,
         CompleteIsRecorded', DecisionTrue',
         UNCHANGED <<download, overlapped>>
  PROVE  Safe'
  <1>1. process'[o] = p /\ \A other \in Operators \ {o} : process'[other] = process[other]
    BY DEF TypeOK
  <1>2. \A other \in Operators \ {o} : process[other].step \notin Claiming
    BY DEF Safe, Claimed
  <1>3. Claimed'
    BY <1>1, <1>2 DEF Claimed
  <1>4. \A other \in Operators \ {o} : Sound(process[other])'
    BY <1>1, <1>2, OthersSound
  <1> QED
    BY <1>1, <1>3, <1>4 DEF Safe

LEMMA GotoFields ==
  ASSUME TypeOK, NEW o \in Operators, NEW step
  PROVE  /\ [process[o] EXCEPT !.step = step].step = step
         /\ [process[o] EXCEPT !.step = step].lock = process[o].lock
         /\ [process[o] EXCEPT !.step = step].version = process[o].version
         /\ [process[o] EXCEPT !.step = step].passed = process[o].passed
  BY DEF TypeOK, Process

LEMMA SafeStep == TypeOK /\ Safe /\ [Next]_vars => Safe'
  <1> SUFFICES ASSUME TypeOK, Safe, [Next]_vars PROVE Safe'
    OBVIOUS
  <1> USE DEF At
  <1>a. ASSUME NEW o \in Operators, NEW step \in Steps \ (Claiming \union {"guard", "mark"}),
               NEW lock, Start(o, step, lock)
        PROVE  Safe'
    <2>p. PICK p : p = [process[o] EXCEPT !.step = step, !.lock = lock]
      OBVIOUS
    <2>1. process' = [process EXCEPT ![o] = p] /\ p.step = step
      BY <2>p, <1>a DEF Start, TypeOK, Process
    <2>2. Quiet
      BY <1>a DEF Start, Quiet
    <2> QED
      BY <1>a, <2>1, <2>2, QuietStep
  <1>b. ASSUME NEW o \in Operators, Done(o), Quiet PROVE Safe'
    BY <1>b, QuietStep DEF Done, Idle, Claiming
  <1>c. ASSUME NEW o \in Operators, NEW step \in Steps \ (Claiming \union {"guard", "mark"}),
               Goto(o, step), Quiet
        PROVE  Safe'
    <2>p. PICK p : p = [process[o] EXCEPT !.step = step]
      OBVIOUS
    <2>1. process' = [process EXCEPT ![o] = p] /\ p.step = step
      BY <1>c, <2>p, GotoIs, GotoFields
    <2> QED
      BY <1>c, <2>1, QuietStep
  <1>1. ASSUME NEW o \in Operators, Prepare(o) PROVE Safe'
    BY <1>1, <1>a DEF Prepare, Steps, Claiming
  <1>2. ASSUME NEW o \in Operators, WriteBundle(o) PROVE Safe'
    <2>1. Quiet
      BY <1>2, QuietWrite DEF WriteBundle, Quiet
    <2> QED
      BY <1>2, <2>1, <1>c DEF WriteBundle, Steps, Claiming
  <1>3. ASSUME NEW o \in Operators, WriteLock(o) PROVE Safe'
    <2>1. Quiet
      BY <1>3, QuietWrite DEF WriteLock, Quiet
    <2> QED
      BY <1>3, <2>1, <1>b DEF WriteLock
  <1>4. ASSUME NEW o \in Operators, Stage(o) PROVE Safe'
    BY <1>4, <1>a DEF Stage, Steps, Claiming
  <1>5. ASSUME NEW o \in Operators, Link(o) PROVE Safe'
    <2>1. Quiet
      BY <1>5 DEF Link, Quiet
    <2> QED
      BY <1>5, <2>1, <1>c DEF Link, Steps, Claiming
  <1>6. ASSUME NEW o \in Operators, WriteEvidence(o) PROVE Safe'
    <2>1. Quiet
      BY <1>6, QuietWrite DEF WriteEvidence, Quiet
    <2> QED
      BY <1>6, <2>1, <1>b DEF WriteEvidence
  <1>7. ASSUME NEW o \in Operators, Evaluate(o) PROVE Safe'
    BY <1>7, <1>a DEF Evaluate, Steps, Claiming
  <1>8. ASSUME NEW o \in Operators, Download(o) PROVE Safe'
    <2>p. PICK p : p = [process[o] EXCEPT !.step = "guard", !.version = alias["staging"]]
      OBVIOUS
    <2>1. process' = [process EXCEPT ![o] = p]
      BY <2>p, <1>8 DEF Download, TypeOK
    <2>2. p.step = "guard" /\ p.version = alias["staging"]
      BY <2>p DEF TypeOK, Process
    <2>3. process'[o] = p /\ \A other \in Operators \ {o} : process'[other] = process[other]
      BY <2>1 DEF TypeOK
    <2>4. process[o].step \notin Claiming
      BY <1>8 DEF Download, Claiming
    <2>5. Claimed'
      BY <1>8, <2>2, <2>3, <2>4 DEF Download, Safe, Claimed, Whole, Claiming
    <2>6. Sound(p)'
      BY <1>8, <2>2 DEF Download, Sound, Claiming
    <2>7. ASSUME NEW other \in Operators \ {o} PROVE Sound(process[other])'
      <3>1. overlapped' = (overlapped \/ \E x \in Operators : UsesDownload(x))
        BY <1>8 DEF Download
      <3>2. ~overlapped' =>
              ~overlapped /\ process[other].step \notin {"guard", "mark", "open", "measure"}
        BY <3>1 DEF UsesDownload
      <3>3. Sound(process[other])
        BY DEF Safe
      <3> QED
        BY <1>8, <2>3, <3>2, <3>3 DEF Download, Sound
    <2> QED
      BY <1>8, <2>3, <2>5, <2>6, <2>7
         DEF Download, Safe, CompleteIsRecorded, DecisionTrue, Whole
  <1>9. ASSUME NEW o \in Operators, Guard(o) PROVE Safe'
    <2>p. PICK p : p = [process[o] EXCEPT !.step = "mark"]
      OBVIOUS
    <2>1. process' = [process EXCEPT ![o] = p]
      BY <2>p, <1>9, GotoIs DEF Guard
    <2>2. p.step = "mark" /\ p.lock = process[o].lock /\ p.version = process[o].version
      BY <2>p, GotoFields
    <2>3. process'[o] = p /\ \A other \in Operators \ {o} : process'[other] = process[other]
      BY <2>1 DEF TypeOK
    <2>4. Claimed'
      BY <1>9, <2>2, <2>3 DEF Guard, Safe, Claimed, Whole, Claiming
    <2>5. download.bundle = process[o].lock
      BY <1>9 DEF Guard, Verified, Version
    <2>6. Sound(process[o])
      BY DEF Safe
    <2>7. Sound(p)'
      BY <1>9, <2>2, <2>5, <2>6 DEF Guard, Sound, Claiming
    <2>8. \A other \in Operators \ {o} : Sound(process[other])'
      BY <1>9, <2>3 DEF Guard, Safe, Sound
    <2> QED
      BY <1>9, <2>3, <2>4, <2>7, <2>8
         DEF Guard, Safe, CompleteIsRecorded, DecisionTrue, Whole
  <1>10. ASSUME NEW o \in Operators, Mark(o) PROVE Safe'
    <2>p. PICK p : p = [process[o] EXCEPT !.step = "open"]
      OBVIOUS
    <2>m. PICK marker : marker = StartedMarker(process[o])
      OBVIOUS
    <2>1. process' = [process EXCEPT ![o] = p]
      BY <2>p, <1>10, GotoIs DEF Mark
    <2>2. p.step = "open" /\ p.lock = process[o].lock /\ p.version = process[o].version
      BY <2>p, GotoFields
    <2>3. marker \in Markers /\ marker.status = "started"
      BY <2>m, <1>10, StartedTyped DEF Mark, StartedMarker
    <2>4. process'[o] = p /\ \A other \in Operators \ {o} : process'[other] = process[other]
      BY <2>1 DEF TypeOK
    <2>5. /\ disk'["marker"] = marker
          /\ disk'["result"] = disk["result"] /\ disk'["decision"] = disk["decision"]
      BY <1>10, <2>m, TestWrite DEF Mark
    <2>6. disk["marker"] = None
      BY <1>10 DEF Mark, Claimable
    <2>7. openings = <<>> /\ \A x \in Operators : process[x].step \notin Claiming
      BY <2>6 DEF Safe, Claimed
    <2>8. ~Whole("decision") /\ ~Whole("decision")'
      BY <2>5, <2>6 DEF Safe, Claimed, Whole
    <2>9. disk'["marker"] # None
      BY <2>3, <2>5, ReleaseAssumption
    <2>10. UNCHANGED <<download, openings, overlapped>>
      BY <1>10 DEF Mark
    <2>11. Claimed'
      BY <2>4, <2>7, <2>8, <2>9, <2>10 DEF Safe, Claimed
    <2>12. Sound(process[o]) /\ process[o].step = "mark"
      BY <1>10 DEF Safe, Mark
    <2>13. Sound(p)'
      BY <2>2, <2>3, <2>5, <2>7, <2>10, <2>12 DEF Sound, Claiming
    <2>14. \A other \in Operators \ {o} : Sound(process[other])'
      BY <2>4, <2>7, <2>10, OthersSound
    <2>15. CompleteIsRecorded' /\ DecisionTrue'
      BY <2>3, <2>5, <2>8 DEF CompleteIsRecorded, DecisionTrue
    <2> QED
      BY <2>4, <2>11, <2>13, <2>14, <2>15 DEF Safe
  <1>11. ASSUME NEW o \in Operators, Open(o) PROVE Safe'
    <2>p. PICK p : p = [process[o] EXCEPT !.step = "measure"]
      OBVIOUS
    <2>1. process' = [process EXCEPT ![o] = p]
      BY <2>p, <1>11, GotoIs DEF Open
    <2>2. p.step = "measure" /\ p.lock = process[o].lock /\ p.version = process[o].version
      BY <2>p, GotoFields
    <2>3. Sound(process[o]) /\ process[o].step = "open"
      BY <1>11 DEF Safe, Open
    <2>4. openings' = <<process[o].lock>>
      BY <1>11, <2>3 DEF Open, Sound
    <2>5. UNCHANGED <<disk, download, overlapped>>
      BY <1>11 DEF Open
    <2>6. Sound(p)'
      BY <2>2, <2>3, <2>4, <2>5 DEF Sound, Claiming
    <2>7. process[o].step \in Claiming /\ disk["marker"] # None /\ ~Whole("decision")
      BY <2>3 DEF Claiming, Safe, Claimed
    <2>8. CompleteIsRecorded' /\ DecisionTrue'
      BY <2>3, <2>5, <2>7 DEF CompleteIsRecorded, DecisionTrue, Sound, Whole
    <2>9. disk'["marker"] # None /\ ~Whole("decision")'
      BY <2>5, <2>7 DEF Whole
    <2>10. Len(openings') <= 1
      BY <2>4
    <2> QED
      BY <2>1, <2>5, <2>6, <2>7, <2>8, <2>9, <2>10, ClaimingStep
  <1>12. ASSUME NEW o \in Operators, Measure(o) PROVE Safe'
    <2>1. PICK passed \in BOOLEAN :
            process' = [process EXCEPT ![o].step = "result", ![o].passed = passed]
      BY <1>12 DEF Measure
    <2>p. PICK p : p = [process[o] EXCEPT !.step = "result", !.passed = passed]
      OBVIOUS
    <2>2. process' = [process EXCEPT ![o] = p]
      BY <2>p, <2>1 DEF TypeOK
    <2>3. p.step = "result" /\ p.lock = process[o].lock /\ p.version = process[o].version
      BY <2>p DEF TypeOK, Process
    <2>4. Sound(process[o]) /\ process[o].step = "measure"
      BY <1>12 DEF Safe, Measure
    <2>5. UNCHANGED <<disk, download, openings, overlapped>>
      BY <1>12 DEF Measure
    <2>6. Sound(p)'
      BY <2>3, <2>4, <2>5 DEF Sound, Claiming
    <2>7. process[o].step \in Claiming /\ disk["marker"] # None /\ ~Whole("decision")
      BY <2>4 DEF Claiming, Safe, Claimed
    <2>8. CompleteIsRecorded' /\ DecisionTrue' /\ Len(openings') <= 1
      BY <2>5 DEF Safe, Claimed, CompleteIsRecorded, DecisionTrue, Whole
    <2> QED
      BY <2>2, <2>5, <2>6, <2>7, <2>8, ClaimingStep DEF Whole
  <1>13. ASSUME NEW o \in Operators, WriteResult(o) PROVE Safe'
    <2>p. PICK p : p = [process[o] EXCEPT !.step = "complete"]
      OBVIOUS
    <2>r. PICK result : result = [identity |-> Identity(process[o]), passed |-> process[o].passed]
      OBVIOUS
    <2>1. process' = [process EXCEPT ![o] = p]
      BY <2>p, <1>13, GotoIs DEF WriteResult
    <2>2. /\ p.step = "complete" /\ p.lock = process[o].lock
          /\ p.version = process[o].version /\ p.passed = process[o].passed
      BY <2>p, GotoFields
    <2>3. /\ result \in Results
          /\ result.identity.bundle = process[o].lock /\ result.passed = process[o].passed
      BY <2>r, <1>13, ResultTyped DEF WriteResult, Identity
    <2>4. /\ disk'["result"] = result
          /\ disk'["marker"] = disk["marker"] /\ disk'["decision"] = disk["decision"]
      BY <1>13, <2>r, TestWrite DEF WriteResult
    <2>5. Sound(process[o]) /\ process[o].step = "result"
      BY <1>13 DEF Safe, WriteResult
    <2>6. UNCHANGED <<download, openings, overlapped>>
      BY <1>13 DEF WriteResult
    <2>7. Sound(p)'
      BY <2>2, <2>3, <2>4, <2>5, <2>6 DEF Sound, Claiming
    <2>8. process[o].step \in Claiming /\ disk["marker"] # None /\ ~Whole("decision")
      BY <2>5 DEF Claiming, Safe, Claimed
    <2>9. CompleteIsRecorded' /\ DecisionTrue' /\ Len(openings') <= 1
      BY <2>4, <2>5, <2>6, <2>8 DEF Safe, Claimed, Sound, CompleteIsRecorded, DecisionTrue, Whole
    <2> QED
      BY <2>1, <2>4, <2>6, <2>7, <2>8, <2>9, ClaimingStep DEF Whole
  <1>14. ASSUME NEW o \in Operators, Complete(o) PROVE Safe'
    <2>p. PICK p : p = [process[o] EXCEPT !.step = NextAlias(process[o])]
      OBVIOUS
    <2>m. PICK marker : marker = CompleteMarker(process[o])
      OBVIOUS
    <2>1. process' = [process EXCEPT ![o] = p]
      BY <2>p, <1>14, GotoIs DEF Complete
    <2>2. /\ p.step = NextAlias(process[o]) /\ p.lock = process[o].lock
          /\ p.version = process[o].version /\ p.passed = process[o].passed
      BY <2>p, GotoFields
    <2>3. /\ marker \in Markers
          /\ marker.status = "complete" /\ marker.result = disk["result"]
      BY <2>m, <1>14, CompleteTyped DEF Complete, CompleteMarker
    <2>4. /\ p.step \in {"production", "decide"}
          /\ p.step = "production" <=> process[o].passed
      BY <2>2 DEF NextAlias
    <2>5. /\ disk'["marker"] = marker
          /\ disk'["result"] = disk["result"] /\ disk'["decision"] = disk["decision"]
      BY <1>14, <2>m, TestWrite DEF Complete
    <2>6. Sound(process[o]) /\ process[o].step = "complete"
      BY <1>14 DEF Safe, Complete
    <2>7. UNCHANGED <<download, openings, overlapped>>
      BY <1>14 DEF Complete
    <2>8. Sound(p)'
      BY <2>2, <2>3, <2>4, <2>5, <2>6, <2>7 DEF Sound, Claiming
    <2>9. process[o].step \in Claiming /\ disk'["marker"] # None /\ ~Whole("decision")
      BY <2>3, <2>5, <2>6, ReleaseAssumption DEF Claiming, Safe, Claimed
    <2>10. openings = <<process[o].lock>> /\ disk["result"].identity.bundle = process[o].lock
      BY <2>6 DEF Sound, Claiming
    <2>11. CompleteIsRecorded' /\ DecisionTrue' /\ Len(openings') <= 1
      BY <2>3, <2>5, <2>7, <2>9, <2>10
         DEF Safe, Claimed, CompleteIsRecorded, DecisionTrue, Whole
    <2> QED
      BY <2>1, <2>5, <2>7, <2>8, <2>9, <2>11, ClaimingStep DEF Whole
  <1>15. ASSUME NEW o \in Operators, LinkProduction(o) PROVE Safe'
    <2>p. PICK p : p = [process[o] EXCEPT !.step = "verify"]
      OBVIOUS
    <2>1. process' = [process EXCEPT ![o] = p]
      BY <2>p, <1>15, GotoIs DEF LinkProduction
    <2>2. /\ p.step = "verify" /\ p.lock = process[o].lock
          /\ p.version = process[o].version /\ p.passed = process[o].passed
      BY <2>p, GotoFields
    <2>3. Sound(process[o]) /\ process[o].step = "production"
      BY <1>15 DEF Safe, LinkProduction
    <2>4. UNCHANGED <<disk, download, openings, overlapped>>
      BY <1>15 DEF LinkProduction
    <2>5. Sound(p)'
      BY <2>2, <2>3, <2>4 DEF Sound, Claiming
    <2>6. process[o].step \in Claiming /\ disk["marker"] # None /\ ~Whole("decision")
      BY <2>3 DEF Claiming, Safe, Claimed
    <2>7. CompleteIsRecorded' /\ DecisionTrue' /\ Len(openings') <= 1
      BY <2>4 DEF Safe, Claimed, CompleteIsRecorded, DecisionTrue, Whole
    <2> QED
      BY <2>1, <2>4, <2>5, <2>6, <2>7, ClaimingStep DEF Whole
  <1>16. ASSUME NEW o \in Operators, VerifyProduction(o) PROVE Safe'
    <2>p. PICK p : p = [process[o] EXCEPT !.step = "decide", !.version = alias["production"]]
      OBVIOUS
    <2>1. process' = [process EXCEPT ![o] = p]
      BY <2>p, <1>16 DEF VerifyProduction, TypeOK
    <2>2. /\ p.step = "decide" /\ p.lock = process[o].lock
          /\ p.version = alias["production"] /\ p.passed = process[o].passed
      BY <2>p DEF TypeOK, Process
    <2>3. alias["production"].bundle = process[o].lock
      BY <1>16 DEF VerifyProduction, ProductionVerified, Verified, Version
    <2>4. Sound(process[o]) /\ process[o].step = "verify"
      BY <1>16 DEF Safe, VerifyProduction
    <2>5. UNCHANGED <<disk, download, openings, overlapped>>
      BY <1>16 DEF VerifyProduction
    <2>6. Sound(p)'
      BY <2>2, <2>3, <2>4, <2>5 DEF Sound, Claiming
    <2>7. process[o].step \in Claiming /\ disk["marker"] # None /\ ~Whole("decision")
      BY <2>4 DEF Claiming, Safe, Claimed
    <2>8. CompleteIsRecorded' /\ DecisionTrue' /\ Len(openings') <= 1
      BY <2>5 DEF Safe, Claimed, CompleteIsRecorded, DecisionTrue, Whole
    <2> QED
      BY <2>1, <2>5, <2>6, <2>7, <2>8, ClaimingStep DEF Whole
  <1>17. ASSUME NEW o \in Operators, Decide(o) PROVE Safe'
    <2>d. PICK decision : decision = Decision(process[o])
      OBVIOUS
    <2>1. /\ disk'["decision"] = decision
          /\ disk'["marker"] = disk["marker"] /\ disk'["result"] = disk["result"]
      BY <1>17, <2>d, TestWrite DEF Decide
    <2>2. Sound(process[o]) /\ process[o].step = "decide"
      BY <1>17 DEF Safe, Decide
    <2>3. UNCHANGED <<download, openings, overlapped>>
      BY <1>17 DEF Decide
    <2>4. /\ decision.result = disk["result"] /\ decision.passed = process[o].passed
          /\ decision.bundle = process[o].lock /\ decision.version = process[o].version
          /\ decision.alias = IF process[o].passed THEN "production" ELSE "staging"
      BY <2>d DEF Decision
    <2>5. process[o].step \in Claiming /\ disk["marker"] # None
      BY <2>2 DEF Claiming, Safe, Claimed
    <2>6. process[o].passed \in BOOLEAN
      BY DEF TypeOK, Typed, Process
    <2>7. DecisionTrue'
      BY <2>1, <2>2, <2>3, <2>4, <2>6 DEF DecisionTrue, Sound, Claiming
    <2>8. CompleteIsRecorded' /\ Len(openings') <= 1
      BY <2>1, <2>3 DEF Safe, Claimed, CompleteIsRecorded, Whole
    <2>9. Sound(Idle)' /\ Idle.step \notin Claiming
      BY DEF Sound, Idle, Claiming
    <2>10. process' = [process EXCEPT ![o] = Idle]
      BY <1>17 DEF Decide, Done
    <2> QED
      BY <2>1, <2>3, <2>5, <2>7, <2>8, <2>9, <2>10, ClaimingStep
  <1>18. ASSUME NEW o \in Operators, Stop(o) PROVE Safe'
    BY <1>18, <1>b DEF Stop, Quiet
  <1>19. ASSUME NEW o \in Operators, Tear(o) PROVE Safe'
    <2> DEFINE file == Writing[process[o].step]
    <2>1. CASE process[o].step \in {"bundle", "lock", "staged"}
      <3>1. file \in {"bundle", "evidence", "lock"}
        BY <2>1 DEF Writing
      <3>2. Quiet
        BY <1>19, <3>1, QuietWrite DEF Tear, Quiet
      <3> QED
        BY <1>19, <3>2, <1>b DEF Tear
    <2>2. CASE process[o].step = "mark"
      <3>1. file = "marker" /\ disk["marker"] = None
        BY <1>19, <2>2 DEF Tear, Writing
      <3>2. /\ disk'["marker"] = Torn
            /\ disk'["result"] = disk["result"] /\ disk'["decision"] = disk["decision"]
        BY <1>19, <3>1, TestWrite DEF Tear
      <3>3. openings = <<>> /\ \A x \in Operators : process[x].step \notin Claiming
        BY <3>1 DEF Safe, Claimed
      <3>4. ~Whole("decision") /\ ~Whole("decision")'
        BY <3>1, <3>2 DEF Safe, Claimed, Whole
      <3>5. process'[o] = Idle /\ \A other \in Operators \ {o} : process'[other] = process[other]
        BY <1>19 DEF Tear, Done, TypeOK
      <3>6. UNCHANGED <<download, openings, overlapped>>
        BY <1>19 DEF Tear
      <3>7. Claimed'
        BY <3>2, <3>3, <3>4, <3>5, <3>6, ReleaseAssumption DEF Claimed, Idle, Claiming, Safe
      <3>8. Sound(Idle)'
        BY DEF Sound, Idle, Claiming
      <3>9. \A other \in Operators \ {o} : Sound(process[other])'
        BY <3>3, <3>5, <3>6, OthersSound
      <3>10. CompleteIsRecorded' /\ DecisionTrue'
        BY <3>2, <3>4 DEF CompleteIsRecorded, DecisionTrue, Whole
      <3> QED
        BY <3>5, <3>7, <3>8, <3>9, <3>10 DEF Safe
    <2>3. CASE process[o].step \in {"result", "complete", "decide"}
      <3>1. file \in {"marker", "result", "decision"}
        BY <2>3 DEF Writing
      <3>2. /\ disk'[file] = Torn
            /\ \A other \in {"marker", "result", "decision"} \ {file} : disk'[other] = disk[other]
        BY <1>19, <3>1, TestWrite DEF Tear
      <3>3. process[o].step \in Claiming /\ disk["marker"] # None /\ ~Whole("decision")
        BY <2>3 DEF Claiming, Safe, Claimed
      <3>4. disk'["marker"] # None
        BY <3>1, <3>2, <3>3, ReleaseAssumption
      <3>5. ~Whole("decision")'
        BY <3>1, <3>2, <3>3 DEF Whole
      <3>6. UNCHANGED <<download, openings, overlapped>>
        BY <1>19 DEF Tear
      <3>7. Sound(process[o])
        BY DEF Safe
      <3>8. CompleteIsRecorded'
        <4>1. CASE process[o].step = "result"
          BY <4>1, <3>2, <3>7 DEF CompleteIsRecorded, Sound, Writing
        <4>2. CASE process[o].step = "complete"
          BY <4>2, <3>2 DEF CompleteIsRecorded, Whole, Writing
        <4>3. CASE process[o].step = "decide"
          BY <4>3, <3>2, <3>6 DEF CompleteIsRecorded, Whole, Writing, Safe
        <4> QED
          BY <2>3, <4>1, <4>2, <4>3
      <3>9. DecisionTrue' /\ Len(openings') <= 1
        BY <3>5, <3>6 DEF DecisionTrue, Safe, Claimed
      <3>10. Sound(Idle)' /\ Idle.step \notin Claiming
        BY DEF Sound, Idle, Claiming
      <3>11. process' = [process EXCEPT ![o] = Idle]
        BY <1>19 DEF Tear, Done
      <3> HIDE DEF file
      <3> QED
        BY <3>3, <3>4, <3>5, <3>6, <3>8, <3>9, <3>10, <3>11, ClaimingStep
    <2> QED
      BY <1>19, <2>1, <2>2, <2>3 DEF Tear, Writing
  <1>20. ASSUME Commit PROVE Safe'
    BY <1>20, QuietWorld DEF Commit, Quiet
  <1>21. ASSUME ClearRoot PROVE Safe'
    <2>1. Quiet
      BY <1>21 DEF ClearRoot, Quiet, Files, Ignored
    <2> QED
      BY <1>21, <2>1, QuietWorld DEF ClearRoot
  <1>22. ASSUME MoveAlias PROVE Safe'
    BY <1>22, QuietWorld DEF MoveAlias, Quiet
  <1>23. ASSUME UNCHANGED vars PROVE Safe'
    BY <1>23, QuietWorld DEF vars, Quiet
  <1> QED
    BY <1>1, <1>2, <1>3, <1>4, <1>5, <1>6, <1>7, <1>8, <1>9, <1>10, <1>11, <1>12, <1>13,
       <1>14, <1>15, <1>16, <1>17, <1>18, <1>19, <1>20, <1>21, <1>22, <1>23 DEF Next

\* The inductive invariant holds in every reachable state.
LEMMA ReleaseSafe == Spec => [](TypeOK /\ Safe)
  BY TypeInit, TypeStep, SafeInit, SafeStep, PTL DEF Spec

-----------------------------------------------------------------------------
(* The properties *)

\* However commands overlap, fail and are killed, evaluate-once opens the final
\* test at most once, and only after the marker that stays.
THEOREM TestOpenedOnce == Spec => []FinalTestOnce
  <1>1. Safe => FinalTestOnce
    BY DEF Safe, Claimed, FinalTestOnce
  <1> QED
    BY <1>1, ReleaseSafe, PTL

\* A marker that evaluate-once completed stands for the result on disk.
THEOREM CompletionRecorded == Spec => []CompleteIsRecorded
  <1>1. Safe => CompleteIsRecorded
    BY DEF Safe
  <1> QED
    BY <1>1, ReleaseSafe, PTL

\* The release decision repeats the recorded verdict on the tested candidate.
THEOREM DecisionRepeatsVerdict == Spec => []DecisionTrue
  <1>1. Safe => DecisionTrue
    BY DEF Safe
  <1> QED
    BY <1>1, ReleaseSafe, PTL

\* evaluate-once measures the model that the committed lock names.
THEOREM MeasuredIsLocked == Spec => []LockedIsMeasured
  <1>1. Safe => LockedIsMeasured
    <2> SUFFICES ASSUME Safe, NEW o \in Operators, process[o].step = "measure", ~overlapped
                 PROVE  download = process[o].version /\ download.bundle = openings[1]
      BY DEF LockedIsMeasured, At
    <2>1. Sound(process[o])
      BY DEF Safe
    <2>2. download = process[o].version /\ process[o].version.bundle = process[o].lock
      BY <2>1 DEF Sound, Claiming
    <2>3. openings = <<process[o].lock>>
      BY <2>1 DEF Sound, Claiming
    <2> QED
      BY <2>2, <2>3
  <1> QED
    BY <1>1, ReleaseSafe, PTL

\* What ProductionEarned says of one step.
Earned ==
  alias'["production"] # alias["production"] /\ process' # process =>
    /\ Whole("result") /\ disk["result"].passed
    /\ Whole("marker") /\ disk["marker"].status = "complete"
    /\ openings = <<disk["result"].identity.bundle>>
    /\ ~overlapped => alias'["production"].bundle = openings[1]

LEMMA LinkEarned ==
  ASSUME TypeOK, Safe, NEW o \in Operators, LinkProduction(o)
  PROVE  Earned
  <1>1. Sound(process[o]) /\ process[o].step = "production"
    BY DEF Safe, LinkProduction, At
  <1>2. disk["result"] \in Results /\ disk["marker"] \in Markers
    BY <1>1 DEF Sound
  <1>3. Whole("result") /\ Whole("marker")
    BY <1>2, ReleaseAssumption DEF Whole
  <1>4. disk["result"].passed /\ disk["marker"].status = "complete"
    BY <1>1 DEF Sound
  <1>5. openings = <<process[o].lock>> /\ disk["result"].identity.bundle = process[o].lock
    BY <1>1 DEF Sound, Claiming
  <1>6. alias'["production"] = process[o].version
    BY DEF LinkProduction, TypeOK
  <1>7. ~overlapped => process[o].version.bundle = process[o].lock
    BY <1>1 DEF Sound, Claiming
  <1> QED
    BY <1>3, <1>4, <1>5, <1>6, <1>7 DEF Earned

\* The workflow links production only for the candidate that passed its one
\* recorded final test: every other step leaves that alias alone, or is no step
\* of a command.
THEOREM ProductionIsEarned == Spec => ProductionEarned
  <1>1. TypeOK /\ Safe /\ [Next]_vars => [Earned]_vars
    <2> SUFFICES ASSUME TypeOK, Safe, Next PROVE Earned
      OBVIOUS
    <2>1. ASSUME NEW o \in Operators, LinkProduction(o) PROVE Earned
      BY <2>1, LinkEarned
    <2>2. ASSUME NEW o \in Operators, Link(o) PROVE Earned
      BY <2>2 DEF Link, TypeOK, Earned
    <2>3. ASSUME UNCHANGED alias PROVE Earned
      BY <2>3 DEF Earned
    <2>4. ASSUME UNCHANGED process PROVE Earned
      BY <2>4 DEF Earned
    <2>5. Commit \/ ClearRoot \/ MoveAlias => UNCHANGED process
      BY DEF Commit, ClearRoot, MoveAlias
    <2>6. ASSUME NEW o \in Operators,
                 \/ Prepare(o) \/ WriteBundle(o) \/ WriteLock(o) \/ Stage(o) \/ WriteEvidence(o)
                 \/ Evaluate(o) \/ Download(o) \/ Guard(o) \/ Mark(o) \/ Open(o) \/ Measure(o)
                 \/ WriteResult(o) \/ Complete(o) \/ VerifyProduction(o) \/ Decide(o)
                 \/ Stop(o) \/ Tear(o)
          PROVE  UNCHANGED alias
      BY <2>6 DEF Prepare, WriteBundle, WriteLock, Stage, WriteEvidence, Evaluate, Download,
                  Guard, Mark, Open, Measure, WriteResult, Complete, VerifyProduction, Decide,
                  Stop, Tear, Start
    <2> QED
      BY <2>1, <2>2, <2>3, <2>4, <2>5, <2>6 DEF Next
  <1> QED
    BY <1>1, ReleaseSafe, PTL DEF Spec, ProductionEarned, Earned
=============================================================================
