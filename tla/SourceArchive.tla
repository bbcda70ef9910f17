--------------------------- MODULE SourceArchive ---------------------------
(***************************************************************************)
(* How the monthly archives of the Bureau of Transportation Statistics     *)
(* become data sets: the downloader, which publishes whole archives and    *)
(* then the source manifest of its batch, and the preparation, which       *)
(* decodes the archives of a source manifest into splits and then writes   *)
(* the processed manifest that every reader checks the splits against.     *)
(*                                                                         *)
(* A batch (the v0 data set, the v3 data set) has its own manifests and    *)
(* splits, but all batches keep their archives in one raw directory and    *)
(* share months.  Each batch has at most one download and one preparation  *)
(* at a time; those of different batches, and a download and a             *)
(* preparation, overlap freely, fail at any call and may be killed.        *)
(***************************************************************************)
EXTENDS Naturals, Sequences, FiniteSets

CONSTANTS
  Months,
  Batches,
  MonthsOf,     \* batch -> the sequence of its months
  SplitOf,      \* batch -> month -> the split of its rows; None: must not be decoded
  SplitsOf,     \* batch -> its splits, in the order they are written
  Surveyed,     \* the batches whose preparation inspects every archive first (v3)
  Committed,    \* the batches whose manifests are under version control (archives never are)
  Built,        \* those whose archives and splits are on disk when the story begins
  Republished,  \* bound: the months that upstream publishes anew
  LastVersion,  \* bound: and in how many versions
  LastCommand,  \* bound: kind of command -> how many are started
  MaxAttempts,  \* max_attempts
  None,
  Torn          \* the content of a file that is no whole ZIP archive

Versions == 1 .. LastVersion
Content == Versions \union {Torn}
Splits == UNION {{SplitsOf[b][i] : i \in DOMAIN SplitsOf[b]} : b \in Batches}
MonthMap(S) == [Months -> S]

Kinds == {"download", "prepare"}

\* A file, who is writing it, and whether two have written it at once.
Files == [body : Content, open : SUBSET Batches, shared : BOOLEAN]

ASSUME ArchiveAssumption ==
  /\ LastVersion \in Nat \ {0} /\ LastCommand \in [Kinds -> Nat] /\ MaxAttempts \in Nat \ {0}
  /\ MonthsOf \in [Batches -> Seq(Months) \ {<<>>}]
  /\ SplitsOf \in [Batches -> Seq(Splits) \ {<<>>}]
  /\ SplitOf \in [Batches -> [Months -> Splits \union {None}]]
  /\ \A b \in Batches, m \in Months : SplitOf[b][m] # None =>
       \E i \in DOMAIN SplitsOf[b] : SplitsOf[b][i] = SplitOf[b][m]
  /\ Surveyed \subseteq Batches /\ Committed \subseteq Batches /\ Built \subseteq Committed
  /\ Republished \subseteq Months
  /\ None \notin Content /\ None \notin Files /\ None \notin Splits /\ Torn \notin Versions

VARIABLES
  commands,   \* how many commands of each kind have been started, for the bound
  published,  \* month -> the version upstream serves
  raw,        \* month -> the archive under its final name
  part,       \* month -> the .part file beside it
  manifest,   \* batch -> source manifest: month -> content, by its SHA-256
  download,   \* batch -> the download in progress
  split,      \* batch -> split -> month -> the version its rows are of
  processed,  \* batch -> processed manifest
  prepare,    \* batch -> the preparation in progress
  contested,  \* history: months that two downloads have had at the same time
  swapped     \* history: batches whose processed manifest was made while a
              \* download replaced an archive between its check and its decoding

vars == <<commands, published, raw, part, manifest, download, split, processed, prepare,
          contested, swapped>>
archives == <<published, raw, part, manifest, download, contested>>
datasets == <<split, processed, prepare, swapped>>

File(body, open, shared) == [body |-> body, open |-> open, shared |-> shared]

Requested(b) == {MonthsOf[b][i] : i \in DOMAIN MonthsOf[b]}

Unrecorded == [m \in Months |-> None]

NoDownload ==
  [step |-> "idle", overwrite |-> FALSE, known |-> Unrecorded, at |-> 1, attempt |-> 1,
   body |-> None, records |-> Unrecorded, failed |-> FALSE]

NoPreparation ==
  [step |-> "idle", source |-> Unrecorded, at |-> 1, rows |-> Unrecorded, swapped |-> FALSE]

\* The rows of a split: those of its months, from the versions decoded.
RowsOf(b, s, rows) == [m \in {n \in Requested(b) : SplitOf[b][n] = s} |-> rows[m]]

FirstManifest(b) ==
  IF b \in Committed THEN [m \in Months |-> IF m \in Requested(b) THEN 1 ELSE None] ELSE None

Init ==
  /\ commands = [k \in Kinds |-> 0]
  /\ published = [m \in Months |-> 1]
  /\ raw = [m \in Months |->
       IF \E b \in Built : m \in Requested(b) THEN File(1, {}, FALSE) ELSE None]
  /\ part = [m \in Months |-> None]
  /\ manifest = [b \in Batches |-> FirstManifest(b)]
  /\ processed = [b \in Batches |->
       IF b \in Committed
       THEN [source |-> manifest[b], hashes |-> [s \in Splits |-> RowsOf(b, s, manifest[b])]]
       ELSE None]
  /\ download = [b \in Batches |-> NoDownload]
  /\ split = [b \in Batches |-> [s \in Splits |->
       IF b \in Built THEN RowsOf(b, s, manifest[b]) ELSE None]]
  /\ prepare = [b \in Batches |-> NoPreparation]
  /\ contested = {}
  /\ swapped = {}

Downloading(b) == download[b].step # "idle"
Current(b) == MonthsOf[b][download[b].at]

Start(kind) ==
  commands[kind] < LastCommand[kind] /\ commands' = [commands EXCEPT ![kind] = @ + 1]

\* A version of the archive that upstream serves instead of the last one.
Republish(m) ==
  /\ m \in Republished /\ published[m] < LastVersion
  /\ published' = [published EXCEPT ![m] = @ + 1]
  /\ UNCHANGED <<commands, raw, part, manifest, download, contested>>
  /\ UNCHANGED datasets

-----------------------------------------------------------------------------
(* download_archives *)

\* The existing manifest is read once, before the first month.
StartDownload(b, overwrite) ==
  /\ ~Downloading(b)
  /\ Start("download")
  /\ download' = [download EXCEPT ![b] =
       [NoDownload EXCEPT !.step = "begin", !.overwrite = overwrite,
          !.known = IF manifest[b] = None THEN Unrecorded ELSE manifest[b]]]
  /\ contested' = contested \union
       {m \in Requested(b) : \E c \in Batches \ {b} : Downloading(c) /\ m \in Requested(c)}
  /\ UNCHANGED <<published, raw, part, manifest>>
  /\ UNCHANGED datasets

\* The download of b after the month in hand.
Advanced(b, d) ==
  IF d.at = Len(MonthsOf[b])
  THEN [d EXCEPT !.step = "finish", !.body = None]
  ELSE [d EXCEPT !.step = "begin", !.at = @ + 1, !.attempt = 1, !.body = None]

Recorded(b, content) ==
  Advanced(b, [download[b] EXCEPT !.records[Current(b)] = content])

Failed(b) == Advanced(b, [download[b] EXCEPT !.failed = TRUE])

\* Whoever has the file open closes it.
Closed(file, b) == IF file = None THEN None ELSE [file EXCEPT !.open = @ \ {b}]
Close(files, b) == [m \in Months |-> Closed(files[m], b)]

Unlinked(m) == [part EXCEPT ![m] = None]

\* What an archive already there is compared with before it may be kept.
Matches(b) == /\ download[b].known[Current(b)] # None
              /\ download[b].known[Current(b)] = raw[Current(b)].body

\* A left-over .part file goes; an archive that exists is kept if the manifest
\* of this batch has its checksum, and is a conflict otherwise.
BeginMonth(b) ==
  LET d == download[b] IN
  /\ d.step = "begin"
  /\ part' = Unlinked(Current(b))
  /\ download' = [download EXCEPT ![b] =
       IF raw[Current(b)] = None \/ d.overwrite THEN [d EXCEPT !.step = "request"]
       ELSE IF Matches(b) THEN [d EXCEPT !.step = "reuse"]
       ELSE Failed(b)]
  /\ UNCHANGED <<commands, published, raw, manifest, contested>>
  /\ UNCHANGED datasets

\* Mutant: inspect_zip stops after the magic bytes.
WholeByMagic(file) == file # None

Whole(file) == file # None /\ file.body # Torn

\* An archive that is kept is inspected and recorded anew.
Reuse(b) ==
  /\ download[b].step = "reuse"
  /\ download' = [download EXCEPT ![b] =
       IF Whole(raw[Current(b)]) THEN Recorded(b, raw[Current(b)].body) ELSE Failed(b)]
  /\ UNCHANGED <<commands, published, raw, part, manifest, contested>>
  /\ UNCHANGED datasets

\* A successful status: the .part file is opened and truncated.
Respond(b) ==
  LET m == Current(b) IN
  /\ download[b].step = "request"
  /\ part' = [part EXCEPT ![m] =
       IF @ = None THEN File(Torn, {b}, FALSE) ELSE File(Torn, @.open \union {b}, @.open # {})]
  /\ download' = [download EXCEPT ![b].step = "stream", ![b].body = published[m]]
  /\ UNCHANGED <<commands, published, raw, manifest, contested>>
  /\ UNCHANGED datasets

Preparing(b) == prepare[b].step # "idle"
Prepared(b) == MonthsOf[b][prepare[b].at]

\* History: the preparations that have checked an archive that now changes and
\* are about to decode it.
Noticed ==
  /\ prepare' = [b \in Batches |->
       IF prepare[b].step = "decode" /\ raw'[Prepared(b)] # raw[Prepared(b)]
       THEN [prepare[b] EXCEPT !.swapped = TRUE] ELSE prepare[b]]
  /\ UNCHANGED <<split, processed, swapped>>

\* The file is what was written to it; two who wrote it at once may have left
\* a mixture.
Written(file, b, body, mixed) ==
  IF file = None \/ b \notin file.open THEN file
  ELSE [file EXCEPT !.body = IF file.shared /\ mixed THEN Torn ELSE body, !.open = @ \ {b}]

\* The stream ends, with the whole archive or short of it.  The open file may
\* have been unlinked, or renamed, by another download.
Receive(b) ==
  /\ download[b].step = "stream"
  /\ \E body \in {download[b].body, Torn}, mixed \in BOOLEAN :
       /\ part' = [m \in Months |-> Written(part[m], b, body, mixed)]
       /\ raw' = [m \in Months |-> Written(raw[m], b, body, mixed)]
       /\ download' = [download EXCEPT ![b].step = "inspect", ![b].body = body]
  /\ Noticed
  /\ UNCHANGED <<commands, published, manifest, contested>>

\* inspect_zip; a file that is missing or no whole archive fails the month.
Inspect(b) ==
  LET whole == Whole(part[Current(b)]) IN
  /\ download[b].step = "inspect"
  /\ download' = [download EXCEPT ![b] = IF whole THEN [@ EXCEPT !.step = "publish"] ELSE Failed(b)]
  /\ part' = IF whole THEN part ELSE Unlinked(Current(b))
  /\ UNCHANGED <<commands, published, raw, manifest, contested>>
  /\ UNCHANGED datasets

\* os.replace; the record holds the digest of what this download received.
Publish(b) ==
  LET m == Current(b) IN
  /\ download[b].step = "publish"
  /\ part[m] # None
  /\ raw' = [raw EXCEPT ![m] = part[m]]
  /\ part' = Unlinked(m)
  /\ download' = [download EXCEPT ![b] = Recorded(b, @.body)]
  /\ Noticed
  /\ UNCHANGED <<commands, published, manifest, contested>>

\* Mutant: a transient failure does not count as an attempt.
TransientUncounted(b) ==
  LET d == download[b] IN
  /\ d.step \in {"request", "stream", "publish"}
  /\ part' = [Close(part, b) EXCEPT ![Current(b)] = None]
  /\ raw' = Close(raw, b)
  /\ download' = [download EXCEPT ![b] =
       IF d.attempt = MaxAttempts THEN Failed(b)
       ELSE [d EXCEPT !.step = "request", !.body = None]]
  /\ UNCHANGED <<commands, published, manifest, contested>>
  /\ UNCHANGED datasets

\* A timeout, a broken connection, a transient status or an error of the file
\* system; the .part file under this name is removed, whoever wrote it.
Transient(b) ==
  LET d == download[b] IN
  /\ d.step \in {"request", "stream", "publish"}
  /\ part' = [Close(part, b) EXCEPT ![Current(b)] = None]
  /\ raw' = Close(raw, b)
  /\ download' = [download EXCEPT ![b] =
       IF d.attempt = MaxAttempts THEN Failed(b)
       ELSE [d EXCEPT !.step = "request", !.attempt = @ + 1, !.body = None]]
  /\ UNCHANGED <<commands, published, manifest, contested>>
  /\ UNCHANGED datasets

\* Any other status: not to be tried again.
Permanent(b) ==
  /\ download[b].step = "request"
  /\ part' = Unlinked(Current(b))
  /\ download' = [download EXCEPT ![b] = Failed(b)]
  /\ UNCHANGED <<commands, published, raw, manifest, contested>>
  /\ UNCHANGED datasets

\* Mutant: the manifest of a batch with failed months holds the others.
FinishPartial(b) ==
  /\ download[b].step = "finish"
  /\ manifest' = [manifest EXCEPT ![b] = download[b].records]
  /\ download' = [download EXCEPT ![b] = NoDownload]
  /\ UNCHANGED <<commands, published, raw, part, contested>>
  /\ UNCHANGED datasets

\* The manifest is written, atomically, only for a batch without a failed month.
Finish(b) ==
  /\ download[b].step = "finish"
  /\ manifest' = IF download[b].failed THEN manifest
                 ELSE [manifest EXCEPT ![b] = download[b].records]
  /\ download' = [download EXCEPT ![b] = NoDownload]
  /\ UNCHANGED <<commands, published, raw, part, contested>>
  /\ UNCHANGED datasets

KillDownload(b) ==
  /\ Downloading(b)
  /\ part' = Close(part, b)
  /\ raw' = Close(raw, b)
  /\ download' = [download EXCEPT ![b] = NoDownload]
  /\ UNCHANGED <<commands, published, manifest, contested>>
  /\ UNCHANGED datasets

DownloadStep(b) ==
  \/ BeginMonth(b) \/ Reuse(b) \/ Respond(b) \/ Receive(b) \/ Inspect(b)
  \/ Publish(b) \/ Transient(b) \/ Permanent(b) \/ Finish(b)

-----------------------------------------------------------------------------
(* prepare_dataset and prepare_v3_dataset *)

StartPrepare(b) ==
  /\ ~Preparing(b)
  /\ Start("prepare")
  /\ manifest[b] # None
  /\ prepare' = [prepare EXCEPT ![b] =
       [NoPreparation EXCEPT !.step = IF b \in Surveyed THEN "survey" ELSE "check",
                             !.source = manifest[b]]]
  /\ UNCHANGED <<split, processed, swapped>>
  /\ UNCHANGED archives

\* v3 first inspects every archive it is going to decode.
Survey(b) ==
  /\ prepare[b].step = "survey"
  /\ \A m \in Requested(b) : SplitOf[b][m] # None => Whole(raw[m])
  /\ prepare' = [prepare EXCEPT ![b].step = "check"]
  /\ UNCHANGED <<split, processed, swapped>>
  /\ UNCHANGED <<commands, archives>>

\* The preparation of b after the month in hand.
AfterMonth(b, p) ==
  IF p.at = Len(MonthsOf[b])
  THEN [p EXCEPT !.step = "write", !.at = 1]
  ELSE [p EXCEPT !.step = "check", !.at = @ + 1]

\* Mutant: an archive is decoded if it is there.
CheckPresent(b) ==
  LET m == Prepared(b) IN
  /\ prepare[b].step = "check"
  /\ SplitOf[b][m] # None => raw[m] # None
  /\ prepare' = [prepare EXCEPT ![b] =
       IF SplitOf[b][m] = None THEN AfterMonth(b, @) ELSE [@ EXCEPT !.step = "decode"]]
  /\ UNCHANGED <<split, processed, swapped>>
  /\ UNCHANGED <<commands, archives>>

\* The checksum of the archive is compared with the record; a sealed month is
\* passed over.
Check(b) ==
  LET m == Prepared(b) IN
  /\ prepare[b].step = "check"
  /\ SplitOf[b][m] # None => raw[m] # None /\ raw[m].body = prepare[b].source[m]
  /\ prepare' = [prepare EXCEPT ![b] =
       IF SplitOf[b][m] = None THEN AfterMonth(b, @) ELSE [@ EXCEPT !.step = "decode"]]
  /\ UNCHANGED <<split, processed, swapped>>
  /\ UNCHANGED <<commands, archives>>

\* The archive is opened again, by its name, and decoded.
Decode(b) ==
  LET m == Prepared(b) IN
  /\ prepare[b].step = "decode"
  /\ Whole(raw[m])
  /\ prepare' = [prepare EXCEPT ![b] = AfterMonth(b, [@ EXCEPT !.rows[m] = raw[m].body])]
  /\ UNCHANGED <<split, processed, swapped>>
  /\ UNCHANGED <<commands, archives>>

\* The splits replace those of the last preparation one after the other.
WriteSplit(b) ==
  LET p == prepare[b]
      s == SplitsOf[b][p.at] IN
  /\ p.step = "write"
  /\ split' = [split EXCEPT ![b][s] = RowsOf(b, s, p.rows)]
  /\ prepare' = [prepare EXCEPT ![b] =
       IF p.at = Len(SplitsOf[b]) THEN [p EXCEPT !.step = "record"] ELSE [p EXCEPT !.at = @ + 1]]
  /\ UNCHANGED <<processed, swapped>>
  /\ UNCHANGED <<commands, archives>>

\* The processed manifest names the source manifest and holds the checksums of
\* the splits as they are on disk.
RecordDataset(b) ==
  /\ prepare[b].step = "record"
  /\ processed' = [processed EXCEPT ![b] = [source |-> prepare[b].source, hashes |-> split[b]]]
  /\ swapped' = IF prepare[b].swapped THEN swapped \union {b} ELSE swapped \ {b}
  /\ prepare' = [prepare EXCEPT ![b] = NoPreparation]
  /\ UNCHANGED split
  /\ UNCHANGED <<commands, archives>>

\* An archive that is missing, damaged or not the recorded one, an error of
\* decoding or writing, or a kill.
AbandonPrepare(b) ==
  /\ Preparing(b)
  /\ prepare' = [prepare EXCEPT ![b] = NoPreparation]
  /\ UNCHANGED <<split, processed, swapped>>
  /\ UNCHANGED <<commands, archives>>

\* What a reader of all the splits of b accepts.
Accepted(b) ==
  /\ processed[b] # None
  /\ \A i \in DOMAIN SplitsOf[b] :
       /\ split[b][SplitsOf[b][i]] # None
       /\ split[b][SplitsOf[b][i]] = processed[b].hashes[SplitsOf[b][i]]

-----------------------------------------------------------------------------

Next ==
  \/ \E m \in Months : Republish(m)
  \/ \E b \in Batches :
       \/ \E overwrite \in BOOLEAN : StartDownload(b, overwrite)
       \/ DownloadStep(b)
       \/ KillDownload(b)
       \/ StartPrepare(b)
       \/ Survey(b)
       \/ Check(b)
       \/ Decode(b)
       \/ WriteSplit(b)
       \/ RecordDataset(b)
       \/ AbandonPrepare(b)

\* A download that is not killed goes on: every call it makes has a timeout.
Spec == Init /\ [][Next]_vars /\ \A b \in Batches : WF_vars(DownloadStep(b))

-----------------------------------------------------------------------------

Downloads ==
  [step : {"idle", "begin", "reuse", "request", "stream", "inspect", "publish", "finish"},
   overwrite : BOOLEAN, known : MonthMap(Content \union {None}), at : Nat \ {0},
   attempt : 1 .. MaxAttempts, body : Content \union {None},
   records : MonthMap(Content \union {None}), failed : BOOLEAN]

Preparations ==
  [step : {"idle", "survey", "check", "decode", "write", "record"},
   source : MonthMap(Content \union {None}), at : Nat \ {0},
   rows : MonthMap(Versions \union {None}), swapped : BOOLEAN]

TypeOK ==
  /\ commands \in [Kinds -> Nat] /\ \A k \in Kinds : commands[k] <= LastCommand[k]
  /\ published \in MonthMap(Versions)
  /\ raw \in MonthMap(Files \union {None}) /\ part \in MonthMap(Files \union {None})
  /\ manifest \in [Batches -> MonthMap(Content \union {None}) \union {None}]
  /\ download \in [Batches -> Downloads]
  /\ prepare \in [Batches -> Preparations]
  /\ \A b \in Batches :
       /\ download[b].at \in DOMAIN MonthsOf[b]
       /\ download[b].step \in {"stream", "inspect", "publish"} => download[b].body # None
       /\ prepare[b].step \in {"survey", "check", "decode"} => prepare[b].at \in DOMAIN MonthsOf[b]
       /\ prepare[b].step = "write" => prepare[b].at \in DOMAIN SplitsOf[b]
  /\ DOMAIN split = Batches /\ \A b \in Batches : DOMAIN split[b] = Splits
  /\ DOMAIN processed = Batches
  /\ contested \subseteq Months /\ swapped \subseteq Batches

\* An archive under its final name is a whole one, whatever stream it came from
\* and wherever its download was killed, unless two downloads have had its month
\* at the same time.
ArchivesWhole ==
  \A m \in Months \ contested : raw[m] # None => raw[m].body \in Versions

\* A source manifest is written only with a record for each month of its batch,
\* each the checksum of the archive then on disk, unless the month is contested.
RecordsTrue ==
  [][\A b \in Batches : manifest'[b] # manifest[b] =>
       \A m \in Requested(b) : manifest'[b][m] # None
         /\ (m \notin contested => raw[m] # None /\ manifest'[b][m] = raw[m].body)]_vars

\* An archive is replaced only by a download that was told to overwrite, unless
\* the month is contested.
ArchivesKept ==
  [][\A m \in Months \ contested : raw[m] # None /\ raw'[m] # raw[m] =>
       \E b \in Batches : Downloading(b) /\ download[b].overwrite /\ Current(b) = m]_vars

\* Splits that readers accept are together the decoding of exactly the archives
\* of the source manifest that their own manifest names, although splits are
\* replaced one by one and archives under the preparation's hands; unless an
\* archive was replaced between its check and its decoding.
SplitsFromSource ==
  \A b \in Batches \ swapped : Accepted(b) =>
    \A m \in Requested(b) : SplitOf[b][m] # None =>
      split[b][SplitOf[b][m]][m] = processed[b].source[m]

\* Every download ends, with a manifest, with a report of the failed months or
\* by being killed: no status, timeout or damaged archive is tried for ever.
DownloadEnds == \A b \in Batches : Downloading(b) ~> ~Downloading(b)
=============================================================================
