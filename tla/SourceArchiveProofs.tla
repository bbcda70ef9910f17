------------------------ MODULE SourceArchiveProofs ------------------------
(* For every set of months and batches, whatever they share: archives under *)
(* their final names are whole and are those of the manifests, and splits   *)
(* that readers accept are the decoding of the recorded archives.           *)
EXTENDS SourceArchive, TLAPS

LEMMA Shapes ==
  ASSUME NEW b \in Batches
  PROVE  /\ DOMAIN MonthsOf[b] = 1 .. Len(MonthsOf[b]) /\ Len(MonthsOf[b]) \in Nat \ {0}
         /\ \A i \in DOMAIN MonthsOf[b] : MonthsOf[b][i] \in Requested(b)
         /\ Requested(b) \subseteq Months
         /\ DOMAIN SplitsOf[b] = 1 .. Len(SplitsOf[b]) /\ Len(SplitsOf[b]) \in Nat \ {0}
         /\ \A i \in DOMAIN SplitsOf[b] : SplitsOf[b][i] \in Splits
<1>1. MonthsOf[b] \in Seq(Months) /\ MonthsOf[b] # <<>>
  BY ArchiveAssumption
<1>2. SplitsOf[b] \in Seq(Splits) /\ SplitsOf[b] # <<>>
  BY ArchiveAssumption
<1> QED
  BY <1>1, <1>2 DEF Requested

LEMMA CurrentMonth ==
  ASSUME TypeOK, NEW b \in Batches
  PROVE  Current(b) \in Requested(b) /\ Current(b) \in Months
BY Shapes DEF TypeOK, Current

\* What a download is after the month in hand.
LEMMA AdvancedFacts ==
  ASSUME NEW b \in Batches, NEW d \in Downloads, d.at \in DOMAIN MonthsOf[b]
  PROVE  /\ Advanced(b, d) \in Downloads
         /\ Advanced(b, d).at \in DOMAIN MonthsOf[b]
         /\ Advanced(b, d).step \in {"begin", "finish"}
         /\ Advanced(b, d).records = d.records
         /\ Advanced(b, d).failed = d.failed
         /\ Advanced(b, d).step = "begin" => Advanced(b, d).at = d.at + 1
         /\ Advanced(b, d).step = "finish" => d.at = Len(MonthsOf[b])
<1>1. CASE d.at = Len(MonthsOf[b])
  BY <1>1, Shapes, ArchiveAssumption DEF Advanced, Downloads
<1>2. CASE d.at # Len(MonthsOf[b])
  <2>1. d.at + 1 \in DOMAIN MonthsOf[b] /\ d.at + 1 \in Nat \ {0}
    BY <1>2, Shapes DEF Downloads
  <2>2. 1 \in 1 .. MaxAttempts
    BY ArchiveAssumption
  <2> QED
    BY <1>2, <2>1, <2>2 DEF Advanced, Downloads
<1> QED
  BY <1>1, <1>2

LEMMA RecordedFacts ==
  ASSUME TypeOK, NEW b \in Batches, NEW content \in Content
  PROVE  /\ Recorded(b, content) \in Downloads
         /\ Recorded(b, content).at \in DOMAIN MonthsOf[b]
         /\ Recorded(b, content).step \in {"begin", "finish"}
         /\ Recorded(b, content).failed = download[b].failed
         /\ Recorded(b, content).records =
              [download[b].records EXCEPT ![Current(b)] = content]
         /\ Recorded(b, content).step = "begin" => Recorded(b, content).at = download[b].at + 1
         /\ Recorded(b, content).step = "finish" => download[b].at = Len(MonthsOf[b])
<1>1. PICK d : d = [download[b] EXCEPT !.records[Current(b)] = content]
  OBVIOUS
<1>2. download[b] \in Downloads /\ download[b].at \in DOMAIN MonthsOf[b]
  BY DEF TypeOK
<1>3. /\ d.records = [download[b].records EXCEPT ![Current(b)] = content]
      /\ d.at = download[b].at /\ d.failed = download[b].failed
  BY <1>1, <1>2 DEF Downloads
<1>4. d.records \in MonthMap(Content \union {None})
  BY <1>2, <1>3 DEF Downloads, MonthMap
<1>5. d \in Downloads
  BY <1>1, <1>2, <1>3, <1>4 DEF Downloads
<1> QED
  BY <1>1, <1>2, <1>3, <1>5, AdvancedFacts DEF Recorded

LEMMA FailedFacts ==
  ASSUME TypeOK, NEW b \in Batches
  PROVE  /\ Failed(b) \in Downloads
         /\ Failed(b).at \in DOMAIN MonthsOf[b]
         /\ Failed(b).step \in {"begin", "finish"}
         /\ Failed(b).failed = TRUE
         /\ Failed(b).records = download[b].records
<1>1. PICK d : d = [download[b] EXCEPT !.failed = TRUE]
  OBVIOUS
<1>2. download[b] \in Downloads /\ download[b].at \in DOMAIN MonthsOf[b]
  BY DEF TypeOK
<1>3. d \in Downloads /\ d.at = download[b].at /\ d.failed = TRUE
      /\ d.records = download[b].records
  BY <1>1, <1>2 DEF Downloads
<1> QED
  BY <1>1, <1>2, <1>3, AdvancedFacts DEF Failed

LEMMA InitTyped == Init => TypeOK
<1> SUFFICES ASSUME Init PROVE TypeOK
  OBVIOUS
<1>1. NoDownload \in Downloads /\ NoPreparation \in Preparations
  BY ArchiveAssumption DEF NoDownload, NoPreparation, Downloads, Preparations, Unrecorded, MonthMap
<1>2. \A b \in Batches : 1 \in DOMAIN MonthsOf[b]
  BY Shapes
<1>3. 1 \in Versions
  BY ArchiveAssumption DEF Versions
<1>4. \A b \in Batches : FirstManifest(b) \in MonthMap(Content \union {None}) \union {None}
  BY <1>3 DEF FirstManifest, MonthMap, Content
<1>5. File(1, {}, FALSE) \in Files
  BY <1>3 DEF File, Files, Content
<1>6. raw \in MonthMap(Files \union {None}) /\ part \in MonthMap(Files \union {None})
  BY <1>5 DEF Init, MonthMap
<1>7. commands \in [Kinds -> Nat] /\ \A k \in Kinds : commands[k] <= LastCommand[k]
  BY ArchiveAssumption DEF Init
<1>8. published \in MonthMap(Versions)
  BY <1>3 DEF Init, MonthMap
<1>9. manifest \in [Batches -> MonthMap(Content \union {None}) \union {None}]
  BY <1>4 DEF Init
<1>10. DOMAIN split = Batches /\ (\A b \in Batches : DOMAIN split[b] = Splits) /\ DOMAIN processed = Batches
  BY DEF Init
<1>11. /\ download \in [Batches -> Downloads] /\ prepare \in [Batches -> Preparations]
       /\ \A b \in Batches : download[b] = NoDownload /\ prepare[b] = NoPreparation
  BY <1>1 DEF Init
<1>12. \A b \in Batches :
         /\ download[b].at = 1 /\ download[b].step = "idle" /\ prepare[b].step = "idle"
  BY <1>11 DEF NoDownload, NoPreparation
<1>13. contested = {} /\ swapped = {}
  BY DEF Init
<1> QED
  BY <1>2, <1>6, <1>7, <1>8, <1>9, <1>10, <1>11, <1>12, <1>13 DEF TypeOK

-----------------------------------------------------------------------------
(* Types *)

LEMMA StartTyped ==
  ASSUME TypeOK, NEW kind \in Kinds, Start(kind)
  PROVE  commands' \in [Kinds -> Nat] /\ \A k \in Kinds : commands'[k] <= LastCommand[k]
<1>1. commands' = [commands EXCEPT ![kind] = commands[kind] + 1] /\ commands[kind] < LastCommand[kind]
  BY DEF Start
<1>2. LastCommand \in [Kinds -> Nat] /\ commands \in [Kinds -> Nat]
      /\ \A k \in Kinds : commands[k] <= LastCommand[k]
  BY ArchiveAssumption DEF TypeOK
<1> QED
  BY <1>1, <1>2

LEMMA FilesTyped ==
  ASSUME NEW f \in Files \union {None}, NEW b \in Batches, NEW body \in Content,
         NEW mixed \in BOOLEAN
  PROVE  /\ Closed(f, b) \in Files \union {None} /\ Written(f, b, body, mixed) \in Files \union {None}
         /\ f # None => /\ Closed(f, b) # None /\ Written(f, b, body, mixed) # None
                        /\ Closed(f, b).body = f.body
<1>1. Torn \in Content /\ None \notin Files
  BY ArchiveAssumption DEF Content, Files
<1>2. CASE f = None
  BY <1>2 DEF Closed, Written
<1>3. CASE f # None
  <2>1. f \in Files
    BY <1>3
  <2>2. /\ [f EXCEPT !.open = @ \ {b}] \in Files
        /\ [f EXCEPT !.open = @ \ {b}].body = f.body
    BY <2>1 DEF Files
  <2>3. \A x \in Content : [f EXCEPT !.body = x, !.open = @ \ {b}] \in Files
    BY <2>1 DEF Files
  <2>4. Written(f, b, body, mixed) \in Files
    BY <1>1, <1>3, <2>1, <2>3 DEF Written
  <2> QED
    BY <1>1, <1>3, <2>2, <2>4 DEF Closed
<1> QED
  BY <1>2, <1>3

LEMMA CloseTyped ==
  ASSUME NEW files \in MonthMap(Files \union {None}), NEW b \in Batches
  PROVE  /\ Close(files, b) \in MonthMap(Files \union {None})
         /\ \A m \in Months : Close(files, b)[m] = Closed(files[m], b)
<1>1. Torn \in Content /\ TRUE \in BOOLEAN
  BY DEF Content
<1>2. \A m \in Months : Closed(files[m], b) \in Files \union {None}
  BY <1>1, FilesTyped DEF MonthMap
<1> QED
  BY <1>2 DEF Close, MonthMap

LEMMA DownloadTyped ==
  ASSUME TypeOK, NEW b \in Batches, NEW d \in Downloads, d.at \in DOMAIN MonthsOf[b],
         d.step \in {"stream", "inspect", "publish"} => d.body # None,
         download' = [download EXCEPT ![b] = d]
  PROVE  /\ download' \in [Batches -> Downloads]
         /\ \A c \in Batches :
              /\ download'[c].at \in DOMAIN MonthsOf[c]
              /\ download'[c].step \in {"stream", "inspect", "publish"} => download'[c].body # None
BY DEF TypeOK

\* What the variables of the preparation keep when they are left alone.
LEMMA DatasetsTyped ==
  ASSUME TypeOK, UNCHANGED datasets
  PROVE  /\ prepare' \in [Batches -> Preparations]
         /\ \A c \in Batches :
              /\ prepare'[c].step \in {"survey", "check", "decode"}
                   => prepare'[c].at \in DOMAIN MonthsOf[c]
              /\ prepare'[c].step = "write" => prepare'[c].at \in DOMAIN SplitsOf[c]
         /\ DOMAIN split' = Batches /\ \A c \in Batches : DOMAIN split'[c] = Splits
         /\ DOMAIN processed' = Batches /\ swapped' \subseteq Batches
BY DEF TypeOK, datasets

LEMMA NoticedTyped ==
  ASSUME TypeOK, Noticed
  PROVE  /\ prepare' \in [Batches -> Preparations]
         /\ \A c \in Batches :
              /\ prepare'[c].step = prepare[c].step /\ prepare'[c].at = prepare[c].at
              /\ prepare'[c].source = prepare[c].source /\ prepare'[c].rows = prepare[c].rows
              /\ prepare'[c].swapped = prepare[c].swapped \/ prepare'[c].swapped = TRUE
              /\ prepare[c].step = "decode" /\ raw'[Prepared(c)] # raw[Prepared(c)]
                   => prepare'[c].swapped = TRUE
         /\ \A c \in Batches :
              /\ prepare'[c].step \in {"survey", "check", "decode"}
                   => prepare'[c].at \in DOMAIN MonthsOf[c]
              /\ prepare'[c].step = "write" => prepare'[c].at \in DOMAIN SplitsOf[c]
         /\ DOMAIN split' = Batches /\ \A c \in Batches : DOMAIN split'[c] = Splits
         /\ DOMAIN processed' = Batches /\ swapped' \subseteq Batches
<1>1. /\ split' = split /\ processed' = processed /\ swapped' = swapped
      /\ DOMAIN prepare' = Batches
  BY DEF Noticed
<1>2. ASSUME NEW c \in Batches
      PROVE  /\ prepare'[c] \in Preparations
             /\ prepare'[c].step = prepare[c].step /\ prepare'[c].at = prepare[c].at
             /\ prepare'[c].source = prepare[c].source /\ prepare'[c].rows = prepare[c].rows
             /\ prepare'[c].swapped = prepare[c].swapped \/ prepare'[c].swapped = TRUE
             /\ prepare[c].step = "decode" /\ raw'[Prepared(c)] # raw[Prepared(c)]
                  => prepare'[c].swapped = TRUE
  <2>1. prepare[c] \in Preparations
    BY DEF TypeOK
  <2>2. CASE prepare[c].step = "decode" /\ raw'[Prepared(c)] # raw[Prepared(c)]
    <3>1. prepare'[c] = [prepare[c] EXCEPT !.swapped = TRUE]
      BY <2>2 DEF Noticed
    <3> QED
      BY <2>1, <3>1 DEF Preparations
  <2>3. CASE ~(prepare[c].step = "decode" /\ raw'[Prepared(c)] # raw[Prepared(c)])
    <3>1. prepare'[c] = prepare[c]
      BY <2>3 DEF Noticed
    <3> QED
      BY <2>1, <2>3, <3>1
  <2> QED
    BY <2>2, <2>3
<1>3. prepare' \in [Batches -> Preparations]
  <2>1. prepare' = [c \in Batches |-> prepare'[c]]
    BY DEF Noticed
  <2> QED
    BY <1>2, <2>1
<1> QED
  BY <1>1, <1>2, <1>3 DEF TypeOK

LEMMA DownloadStepTyped ==
  ASSUME TypeOK, NEW b \in Batches, DownloadStep(b) \/ KillDownload(b)
  PROVE  TypeOK'
<1> DEFINE m == Current(b)
<1>1. m \in Months /\ download[b] \in Downloads /\ download[b].at \in DOMAIN MonthsOf[b]
  BY CurrentMonth DEF TypeOK
<1>2. /\ raw \in MonthMap(Files \union {None}) /\ part \in MonthMap(Files \union {None})
      /\ Unlinked(m) \in MonthMap(Files \union {None})
      /\ published \in MonthMap(Versions)
  BY <1>1 DEF TypeOK, Unlinked, MonthMap
<1>3. Torn \in Content /\ Versions \subseteq Content
  BY DEF Content
<1>4. \A d \in Downloads, s \in {"request", "reuse"} : [d EXCEPT !.step = s] \in Downloads
  BY DEF Downloads
<1>5. ASSUME NEW d \in Downloads, d.at \in DOMAIN MonthsOf[b],
             d.step \in {"stream", "inspect", "publish"} => d.body # None,
             download' = [download EXCEPT ![b] = d],
             raw' \in MonthMap(Files \union {None}), part' \in MonthMap(Files \union {None}),
             UNCHANGED <<commands, published, manifest, contested>>,
             UNCHANGED datasets \/ Noticed
      PROVE  TypeOK'
  <2>1. /\ download' \in [Batches -> Downloads]
        /\ \A c \in Batches :
             /\ download'[c].at \in DOMAIN MonthsOf[c]
             /\ download'[c].step \in {"stream", "inspect", "publish"} => download'[c].body # None
    BY <1>5, DownloadTyped
  <2>2. CASE UNCHANGED datasets
    BY <1>5, <2>1, <2>2, DatasetsTyped DEF TypeOK
  <2>3. CASE Noticed
    BY <1>5, <2>1, <2>3, NoticedTyped DEF TypeOK
  <2> QED
    BY <1>5, <2>2, <2>3
<1> HIDE DEF m
<1>6. CASE BeginMonth(b)
  <2>1. PICK d : d = IF raw[m] = None \/ download[b].overwrite
                     THEN [download[b] EXCEPT !.step = "request"]
                     ELSE IF Matches(b) THEN [download[b] EXCEPT !.step = "reuse"] ELSE Failed(b)
    OBVIOUS
  <2>2. download' = [download EXCEPT ![b] = d] /\ part' = Unlinked(m) /\ raw' = raw
    BY <1>6, <2>1 DEF BeginMonth, m
  <2>3. d \in Downloads /\ d.at \in DOMAIN MonthsOf[b]
        /\ d.step \notin {"stream", "inspect", "publish"}
    BY <1>1, <1>4, <2>1, FailedFacts DEF Downloads
  <2> QED
    BY <1>2, <1>5, <1>6, <2>2, <2>3 DEF BeginMonth
<1>7. CASE Reuse(b)
  <2>1. PICK d : d = IF Whole(raw[m]) THEN Recorded(b, raw[m].body) ELSE Failed(b)
    OBVIOUS
  <2>2. download' = [download EXCEPT ![b] = d] /\ part' = part /\ raw' = raw
    BY <1>7, <2>1 DEF Reuse, m
  <2>3. Whole(raw[m]) => raw[m].body \in Content
    BY <1>1, <1>2 DEF Whole, Files, MonthMap
  <2>4. d \in Downloads /\ d.at \in DOMAIN MonthsOf[b]
        /\ d.step \notin {"stream", "inspect", "publish"}
    BY <2>1, <2>3, FailedFacts, RecordedFacts
  <2> QED
    BY <1>2, <1>5, <1>7, <2>2, <2>4 DEF Reuse
<1>8. CASE Respond(b)
  <2>1. PICK d : d = [download[b] EXCEPT !.step = "stream", !.body = published[m]]
    OBVIOUS
  <2>2. download' = [download EXCEPT ![b] = d]
    BY <1>8, <1>1, <2>1 DEF Respond, m, Downloads, TypeOK
  <2>3. published[m] \in Content /\ published[m] # None
    BY <1>1, <1>2, <1>3, ArchiveAssumption DEF MonthMap
  <2>4. d \in Downloads /\ d.at \in DOMAIN MonthsOf[b] /\ d.body # None
    BY <1>1, <2>1, <2>3 DEF Downloads
  <2>5. part' \in MonthMap(Files \union {None})
    <3>1. part[m] # None => part[m].open \union {b} \in SUBSET Batches
      BY <1>1, <1>2 DEF MonthMap, Files
    <3>2. PICK f : f = IF part[m] = None THEN File(Torn, {b}, FALSE)
                       ELSE File(Torn, part[m].open \union {b}, part[m].open # {})
      OBVIOUS
    <3>3. f \in Files
      BY <1>3, <3>1, <3>2 DEF File, Files
    <3>4. part' = [part EXCEPT ![m] = f]
      BY <1>8, <1>1, <1>2, <3>2 DEF Respond, m, MonthMap
    <3> QED
      BY <1>1, <1>2, <3>3, <3>4 DEF MonthMap
  <2> QED
    BY <1>2, <1>5, <1>8, <2>2, <2>4, <2>5 DEF Respond
<1>9. CASE Receive(b)
  <2>1. download[b].step = "stream" /\ Noticed
    BY <1>9 DEF Receive
  <2>2. PICK body \in {download[b].body, Torn}, mixed \in BOOLEAN :
          /\ part' = [n \in Months |-> Written(part[n], b, body, mixed)]
          /\ raw' = [n \in Months |-> Written(raw[n], b, body, mixed)]
          /\ download' = [download EXCEPT ![b].step = "inspect", ![b].body = body]
    BY <1>9 DEF Receive
  <2>3. body \in Content /\ body # None
    <3>1. download[b].body \in Content \union {None} /\ download[b].body # None
      BY <1>1, <2>1 DEF TypeOK, Downloads
    <3> QED
      BY <1>3, <2>2, <3>1, ArchiveAssumption
  <2>4. part' \in MonthMap(Files \union {None}) /\ raw' \in MonthMap(Files \union {None})
    BY <1>2, <2>2, <2>3, FilesTyped DEF MonthMap
  <2>5. PICK d : d = [download[b] EXCEPT !.step = "inspect", !.body = body]
    OBVIOUS
  <2>6. download' = [download EXCEPT ![b] = d]
    BY <1>1, <2>2, <2>5 DEF TypeOK
  <2>7. d \in Downloads /\ d.at \in DOMAIN MonthsOf[b] /\ d.body # None
    BY <1>1, <2>3, <2>5 DEF Downloads
  <2> QED
    BY <1>5, <1>9, <2>1, <2>4, <2>6, <2>7 DEF Receive
<1>10. CASE Inspect(b)
  <2>1. PICK d : d = IF Whole(part[m]) THEN [download[b] EXCEPT !.step = "publish"] ELSE Failed(b)
    OBVIOUS
  <2>2. download' = [download EXCEPT ![b] = d] /\ raw' = raw
        /\ part' = IF Whole(part[m]) THEN part ELSE Unlinked(m)
    BY <1>10, <1>1, <2>1 DEF Inspect, m, TypeOK
  <2>3. download[b].body # None
    BY <1>10 DEF Inspect, TypeOK
  <2>4. d \in Downloads /\ d.at \in DOMAIN MonthsOf[b]
        /\ (d.step \in {"stream", "inspect", "publish"} => d.body # None)
    BY <1>1, <2>1, <2>3, FailedFacts DEF Downloads
  <2> QED
    BY <1>2, <1>5, <1>10, <2>2, <2>4 DEF Inspect
<1>11. CASE Publish(b)
  <2>1. PICK d : d = Recorded(b, download[b].body)
    OBVIOUS
  <2>2. /\ download' = [download EXCEPT ![b] = d] /\ Noticed
        /\ raw' = [raw EXCEPT ![m] = part[m]] /\ part' = Unlinked(m)
    BY <1>11, <1>1, <2>1 DEF Publish, m, TypeOK
  <2>3. download[b].body \in Content
    BY <1>11, <1>1 DEF Publish, TypeOK, Downloads
  <2>4. d \in Downloads /\ d.at \in DOMAIN MonthsOf[b]
        /\ d.step \notin {"stream", "inspect", "publish"}
    BY <2>1, <2>3, RecordedFacts
  <2>5. raw' \in MonthMap(Files \union {None}) /\ part' \in MonthMap(Files \union {None})
    BY <1>1, <1>2, <2>2 DEF MonthMap
  <2> QED
    BY <1>5, <1>11, <2>2, <2>4, <2>5 DEF Publish
<1>12. CASE Transient(b)
  <2>1. PICK d : d = IF download[b].attempt = MaxAttempts THEN Failed(b)
                     ELSE [download[b] EXCEPT !.step = "request", !.attempt = @ + 1, !.body = None]
    OBVIOUS
  <2>2. /\ download' = [download EXCEPT ![b] = d] /\ raw' = Close(raw, b)
        /\ part' = [Close(part, b) EXCEPT ![m] = None]
    BY <1>12, <2>1 DEF Transient, m
  <2>3. download[b].attempt # MaxAttempts => download[b].attempt + 1 \in 1 .. MaxAttempts
    BY <1>1, ArchiveAssumption DEF Downloads
  <2>4. d \in Downloads /\ d.at \in DOMAIN MonthsOf[b]
        /\ d.step \notin {"stream", "inspect", "publish"}
    BY <1>1, <2>1, <2>3, FailedFacts DEF Downloads
  <2>5. raw' \in MonthMap(Files \union {None}) /\ part' \in MonthMap(Files \union {None})
    BY <1>1, <1>2, <2>2, CloseTyped DEF MonthMap
  <2> QED
    BY <1>5, <1>12, <2>2, <2>4, <2>5 DEF Transient
<1>13. CASE Permanent(b)
  BY <1>2, <1>5, <1>13, FailedFacts DEF Permanent, m
<1>14. NoDownload \in Downloads /\ NoDownload.at \in DOMAIN MonthsOf[b] /\ NoDownload.step = "idle"
  BY ArchiveAssumption, Shapes DEF NoDownload, Downloads, Unrecorded, MonthMap
<1>15. CASE Finish(b)
  <2>1. /\ download' \in [Batches -> Downloads]
        /\ \A c \in Batches :
             /\ download'[c].at \in DOMAIN MonthsOf[c]
             /\ download'[c].step \in {"stream", "inspect", "publish"} => download'[c].body # None
    <3>1. PICK d : d = NoDownload
      OBVIOUS
    <3>2. download' = [download EXCEPT ![b] = d]
      BY <1>15, <3>1 DEF Finish
    <3> QED
      BY <1>14, <3>1, <3>2, DownloadTyped
  <2>2. download[b].records \in MonthMap(Content \union {None})
    BY <1>1 DEF Downloads
  <2>3. manifest' \in [Batches -> MonthMap(Content \union {None}) \union {None}]
    BY <1>15, <2>2 DEF Finish, TypeOK
  <2>4. UNCHANGED datasets /\ UNCHANGED <<commands, published, raw, part, contested>>
    BY <1>15 DEF Finish
  <2> QED
    BY <2>1, <2>3, <2>4, DatasetsTyped DEF TypeOK
<1>16. CASE KillDownload(b)
  <2>1. raw' \in MonthMap(Files \union {None}) /\ part' \in MonthMap(Files \union {None})
    BY <1>2, <1>16, CloseTyped DEF KillDownload
  <2> QED
    BY <1>5, <1>14, <1>16, <2>1 DEF KillDownload
<1> QED
  BY <1>6, <1>7, <1>8, <1>9, <1>10, <1>11, <1>12, <1>13, <1>15, <1>16 DEF DownloadStep

\* A step of a preparation changes prepare, and the splits or the manifest.
PrepareStep(b) ==
  \/ StartPrepare(b) \/ Survey(b) \/ Check(b) \/ Decode(b)
  \/ WriteSplit(b) \/ RecordDataset(b) \/ AbandonPrepare(b)

LEMMA AfterMonthFacts ==
  ASSUME NEW b \in Batches, NEW p \in Preparations, p.at \in DOMAIN MonthsOf[b]
  PROVE  /\ AfterMonth(b, p) \in Preparations
         /\ AfterMonth(b, p).source = p.source /\ AfterMonth(b, p).rows = p.rows
         /\ AfterMonth(b, p).swapped = p.swapped
         /\ \/ /\ AfterMonth(b, p).step = "check" /\ AfterMonth(b, p).at = p.at + 1
               /\ p.at # Len(MonthsOf[b]) /\ AfterMonth(b, p).at \in DOMAIN MonthsOf[b]
            \/ /\ AfterMonth(b, p).step = "write" /\ AfterMonth(b, p).at = 1
               /\ p.at = Len(MonthsOf[b]) /\ AfterMonth(b, p).at \in DOMAIN SplitsOf[b]
<1>1. CASE p.at = Len(MonthsOf[b])
  <2>1. AfterMonth(b, p) = [p EXCEPT !.step = "write", !.at = 1]
    BY <1>1 DEF AfterMonth
  <2>2. 1 \in DOMAIN SplitsOf[b]
    BY Shapes
  <2>3. PICK q : q = AfterMonth(b, p)
    OBVIOUS
  <2>4. q.step = "write" /\ q.at = 1
        /\ q.source = p.source /\ q.rows = p.rows /\ q.swapped = p.swapped
    BY <2>1, <2>3 DEF Preparations
  <2>5. q \in Preparations
    <3>1. 1 \in Nat \ {0} /\ "write" \in {"idle", "survey", "check", "decode", "write", "record"}
      OBVIOUS
    <3>2. q = [p EXCEPT !.step = "write", !.at = 1]
      BY <2>1, <2>3
    <3> QED
      BY <3>1, <3>2 DEF Preparations
  <2> QED
    BY <1>1, <2>2, <2>3, <2>4, <2>5
<1>2. CASE p.at # Len(MonthsOf[b])
  <2>1. p.at + 1 \in DOMAIN MonthsOf[b] /\ p.at + 1 \in Nat \ {0}
    BY <1>2, Shapes DEF Preparations
  <2> QED
    BY <1>2, <2>1 DEF AfterMonth, Preparations
<1> QED
  BY <1>1, <1>2

\* A preparation that has decoded one more month.
LEMMA DecodedFacts ==
  ASSUME TypeOK, NEW b \in Batches, NEW version \in Versions, prepare[b].step = "decode",
         NEW p, p = [prepare[b] EXCEPT !.rows[Prepared(b)] = version]
  PROVE  /\ p \in Preparations /\ p.at = prepare[b].at /\ p.source = prepare[b].source
         /\ p.rows = [prepare[b].rows EXCEPT ![Prepared(b)] = version]
         /\ p.swapped = prepare[b].swapped
<1>1. prepare[b] \in Preparations
  BY DEF TypeOK
<1>2. /\ p.at = prepare[b].at /\ p.source = prepare[b].source /\ p.swapped = prepare[b].swapped
      /\ p.rows = [prepare[b].rows EXCEPT ![Prepared(b)] = version]
  BY <1>1 DEF Preparations
<1>3. p.rows \in MonthMap(Versions \union {None})
  BY <1>1, <1>2 DEF Preparations, MonthMap
<1> QED
  BY <1>1, <1>2, <1>3 DEF Preparations

LEMMA PrepareStepTyped ==
  ASSUME TypeOK, NEW b \in Batches, PrepareStep(b)
  PROVE  TypeOK'
<1>1. prepare[b] \in Preparations
  BY DEF TypeOK
<1>2. NoPreparation \in Preparations /\ NoPreparation.step = "idle"
  BY DEF NoPreparation, Preparations, Unrecorded, MonthMap
<1>3. /\ commands' \in [Kinds -> Nat] /\ \A k \in Kinds : commands'[k] <= LastCommand[k]
      /\ UNCHANGED archives
  <2>1. CASE StartPrepare(b)
    BY <2>1, StartTyped DEF StartPrepare, Kinds
  <2>2. CASE ~StartPrepare(b)
    BY <2>2 DEF PrepareStep, Survey, Check, Decode, WriteSplit, RecordDataset, AbandonPrepare, TypeOK
  <2> QED
    BY <2>1, <2>2 DEF StartPrepare
<1>4. ASSUME NEW p \in Preparations, prepare' = [prepare EXCEPT ![b] = p],
             p.step \in {"survey", "check", "decode"} => p.at \in DOMAIN MonthsOf[b],
             p.step = "write" => p.at \in DOMAIN SplitsOf[b],
             DOMAIN split' = Batches, \A c \in Batches : DOMAIN split'[c] = Splits,
             DOMAIN processed' = Batches, swapped' \subseteq Batches
      PROVE  TypeOK'
  BY <1>3, <1>4 DEF TypeOK, archives
<1>5. /\ DOMAIN split = Batches /\ \A c \in Batches : DOMAIN split[c] = Splits
      /\ DOMAIN processed = Batches /\ swapped \subseteq Batches
  BY DEF TypeOK
<1>6. CASE StartPrepare(b)
  <2>1. PICK p : p = [NoPreparation EXCEPT !.step = IF b \in Surveyed THEN "survey" ELSE "check",
                                           !.source = manifest[b]]
    OBVIOUS
  <2>2. prepare' = [prepare EXCEPT ![b] = p] /\ UNCHANGED <<split, processed, swapped>>
    BY <1>6, <2>1 DEF StartPrepare
  <2>3. manifest[b] \in MonthMap(Content \union {None})
    BY <1>6 DEF StartPrepare, TypeOK
  <2>4. p \in Preparations /\ p.at = 1 /\ p.step \in {"survey", "check"}
    BY <1>2, <2>1, <2>3 DEF Preparations, NoPreparation
  <2>5. 1 \in DOMAIN MonthsOf[b]
    BY Shapes
  <2> QED
    BY <1>4, <1>5, <2>2, <2>4, <2>5
<1>7. CASE Survey(b)
  <2>1. PICK p : p = [prepare[b] EXCEPT !.step = "check"]
    OBVIOUS
  <2>2. p \in Preparations /\ p.at = prepare[b].at /\ p.step = "check"
    BY <1>1, <2>1 DEF Preparations
  <2>3. p.at \in DOMAIN MonthsOf[b]
    BY <1>7, <2>2 DEF Survey, TypeOK
  <2> QED
    BY <1>4, <1>5, <1>7, <2>1, <2>2, <2>3 DEF Survey
<1>8. CASE Check(b)
  <2>1. PICK p : p = IF SplitOf[b][Prepared(b)] = None THEN AfterMonth(b, prepare[b])
                     ELSE [prepare[b] EXCEPT !.step = "decode"]
    OBVIOUS
  <2>2. prepare' = [prepare EXCEPT ![b] = p] /\ UNCHANGED <<split, processed, swapped>>
    BY <1>8, <2>1 DEF Check, TypeOK
  <2>3. prepare[b].at \in DOMAIN MonthsOf[b]
    BY <1>8 DEF Check, TypeOK
  <2>4. [prepare[b] EXCEPT !.step = "decode"] \in Preparations
    BY <1>1 DEF Preparations
  <2>5. /\ p \in Preparations
        /\ p.step \in {"survey", "check", "decode"} => p.at \in DOMAIN MonthsOf[b]
        /\ p.step = "write" => p.at \in DOMAIN SplitsOf[b]
    <3>1. CASE SplitOf[b][Prepared(b)] = None
      BY <1>1, <2>1, <2>3, <3>1, AfterMonthFacts
    <3>2. CASE SplitOf[b][Prepared(b)] # None
      BY <1>1, <2>1, <2>3, <2>4, <3>2 DEF Preparations
    <3> QED
      BY <3>1, <3>2
  <2> QED
    BY <1>4, <1>5, <2>2, <2>5
<1>9. CASE Decode(b)
  <2>1. PICK p : p = [prepare[b] EXCEPT !.rows[Prepared(b)] = raw[Prepared(b)].body]
    OBVIOUS
  <2>2. prepare[b].step = "decode" /\ prepare[b].at \in DOMAIN MonthsOf[b]
        /\ Whole(raw[Prepared(b)])
    BY <1>9 DEF Decode, TypeOK
  <2>3. raw[Prepared(b)].body \in Versions
    <3>1. Prepared(b) \in Months
      BY <2>2, Shapes DEF Prepared
    <3> QED
      BY <2>2, <3>1 DEF TypeOK, MonthMap, Files, Whole, Content
  <2>4. p \in Preparations /\ p.at = prepare[b].at
    BY <2>1, <2>2, <2>3, DecodedFacts
  <2>5. PICK q : q = AfterMonth(b, p)
    OBVIOUS
  <2>6. prepare' = [prepare EXCEPT ![b] = q] /\ UNCHANGED <<split, processed, swapped>>
    BY <1>9, <2>1, <2>5 DEF Decode, TypeOK
  <2>7. /\ q \in Preparations
        /\ q.step \in {"survey", "check", "decode"} => q.at \in DOMAIN MonthsOf[b]
        /\ q.step = "write" => q.at \in DOMAIN SplitsOf[b]
    BY <2>2, <2>4, <2>5, AfterMonthFacts
  <2> QED
    BY <1>4, <1>5, <2>6, <2>7
<1>10. CASE WriteSplit(b)
  <2>1. PICK p : p = IF prepare[b].at = Len(SplitsOf[b]) THEN [prepare[b] EXCEPT !.step = "record"]
                     ELSE [prepare[b] EXCEPT !.at = @ + 1]
    OBVIOUS
  <2>2. prepare' = [prepare EXCEPT ![b] = p] /\ UNCHANGED <<processed, swapped>>
    <3>1. CASE prepare[b].at = Len(SplitsOf[b])
      BY <1>10, <2>1, <3>1 DEF WriteSplit, TypeOK
    <3>2. CASE prepare[b].at # Len(SplitsOf[b])
      <4>1. prepare' = [prepare EXCEPT ![b] = [prepare[b] EXCEPT !.at = prepare[b].at + 1]]
        BY <1>1, <1>10, <3>2 DEF WriteSplit, TypeOK, Preparations
      <4>2. p = [prepare[b] EXCEPT !.at = prepare[b].at + 1]
        BY <2>1, <3>2
      <4> QED
        BY <1>10, <4>1, <4>2 DEF WriteSplit
    <3> QED
      BY <3>1, <3>2
  <2>3. prepare[b].step = "write" /\ prepare[b].at \in DOMAIN SplitsOf[b]
    BY <1>10 DEF WriteSplit, TypeOK
  <2>4. prepare[b].at # Len(SplitsOf[b]) => prepare[b].at + 1 \in DOMAIN SplitsOf[b]
    BY <1>1, <2>3, Shapes DEF Preparations
  <2>5. /\ p \in Preparations
        /\ p.step \notin {"survey", "check", "decode"}
        /\ p.step = "write" => p.at \in DOMAIN SplitsOf[b]
    BY <1>1, <2>1, <2>3, <2>4 DEF Preparations
  <2>6. DOMAIN split' = Batches /\ \A c \in Batches : DOMAIN split'[c] = Splits
    BY <1>5, <1>10 DEF WriteSplit
  <2> QED
    BY <1>4, <1>5, <2>2, <2>5, <2>6
<1>11. CASE RecordDataset(b)
  BY <1>2, <1>4, <1>5, <1>11 DEF RecordDataset
<1>12. CASE AbandonPrepare(b)
  BY <1>2, <1>4, <1>5, <1>12 DEF AbandonPrepare
<1> QED
  BY <1>6, <1>7, <1>8, <1>9, <1>10, <1>11, <1>12 DEF PrepareStep

LEMMA StartDownloadTyped ==
  ASSUME TypeOK, NEW b \in Batches, NEW overwrite \in BOOLEAN, StartDownload(b, overwrite)
  PROVE  TypeOK'
<1>1. PICK d : d = [NoDownload EXCEPT !.step = "begin", !.overwrite = overwrite,
                      !.known = IF manifest[b] = None THEN Unrecorded ELSE manifest[b]]
  OBVIOUS
<1>2. NoDownload \in Downloads
  BY ArchiveAssumption DEF NoDownload, Downloads, Unrecorded, MonthMap
<1>3. (IF manifest[b] = None THEN Unrecorded ELSE manifest[b]) \in MonthMap(Content \union {None})
  BY DEF TypeOK, Unrecorded, MonthMap
<1>4. d \in Downloads /\ d.at = 1 /\ d.step = "begin"
  BY <1>1, <1>2, <1>3 DEF Downloads, NoDownload
<1>5. d.at \in DOMAIN MonthsOf[b]
  BY <1>4, Shapes
<1>6. download' = [download EXCEPT ![b] = d]
  BY <1>1 DEF StartDownload
<1>7. /\ download' \in [Batches -> Downloads]
      /\ \A c \in Batches :
           /\ download'[c].at \in DOMAIN MonthsOf[c]
           /\ download'[c].step \in {"stream", "inspect", "publish"} => download'[c].body # None
  BY <1>4, <1>5, <1>6, DownloadTyped
<1>8. commands' \in [Kinds -> Nat] /\ \A k \in Kinds : commands'[k] <= LastCommand[k]
  BY StartTyped DEF StartDownload, Kinds
<1>9. contested' \subseteq Months
  BY Shapes DEF StartDownload, TypeOK
<1>10. UNCHANGED datasets /\ UNCHANGED <<published, raw, part, manifest>>
  BY DEF StartDownload
<1> QED
  BY <1>7, <1>8, <1>9, <1>10, DatasetsTyped DEF TypeOK

LEMMA RepublishTyped ==
  ASSUME TypeOK, NEW m \in Months, Republish(m)
  PROVE  TypeOK'
<1>1. published' \in MonthMap(Versions)
  BY ArchiveAssumption DEF Republish, TypeOK, MonthMap, Versions
<1>2. UNCHANGED datasets /\ UNCHANGED <<commands, raw, part, manifest, download, contested>>
  BY DEF Republish
<1> QED
  BY <1>1, <1>2, DatasetsTyped DEF TypeOK

LEMMA NextSteps ==
  ASSUME Next
  PROVE  \/ \E m \in Months : Republish(m)
         \/ \E b \in Batches, overwrite \in BOOLEAN : StartDownload(b, overwrite)
         \/ \E b \in Batches : DownloadStep(b) \/ KillDownload(b)
         \/ \E b \in Batches : PrepareStep(b)
BY DEF Next, PrepareStep

LEMMA StepTyped == TypeOK /\ [Next]_vars => TypeOK'
<1>1. ASSUME TypeOK, Next PROVE TypeOK'
  BY <1>1, NextSteps, RepublishTyped, StartDownloadTyped, DownloadStepTyped, PrepareStepTyped
<1>2. ASSUME TypeOK, UNCHANGED vars PROVE TypeOK'
  BY <1>2 DEF TypeOK, vars
<1> QED
  BY <1>1, <1>2

\* Every variable keeps its type; in particular a download or a preparation
\* never goes past the last month or split of its batch.
THEOREM ArchiveTyped == Spec => []TypeOK
BY InitTyped, StepTyped, PTL DEF Spec

-----------------------------------------------------------------------------
(* The archives of a month that is not contested *)

\* One download has the month.
Owned(m) ==
  \A b, c \in Batches :
    Downloading(b) /\ Downloading(c) /\ m \in Requested(b) /\ m \in Requested(c) => b = c

\* The archive is whole and nobody writes to it.
Settled(m) == raw[m] # None => raw[m].body \in Versions /\ raw[m].open = {}

\* Only the download that is streaming the month has its .part file open.
Streamed(m) ==
  part[m] # None =>
    \A b \in part[m].open : download[b].step = "stream" /\ Current(b) = m

\* The .part file is what the download of the month knows of it.
Fetching(b) ==
  Current(b) \notin contested =>
    /\ download[b].step = "stream" => part[Current(b)] = File(Torn, {b}, FALSE)
    /\ download[b].step \in {"inspect", "publish"} =>
         /\ part[Current(b)] # None
         /\ part[Current(b)].body = download[b].body /\ part[Current(b)].open = {}
    /\ download[b].step = "publish" => download[b].body # Torn
    /\ download[b].step \in {"request", "stream", "inspect", "publish"} =>
         raw[Current(b)] = None \/ download[b].overwrite

\* What a download has recorded is on disk.
Kept(b) ==
  Downloading(b) => \A m \in Requested(b) \ contested : download[b].records[m] # None =>
    raw[m] # None /\ raw[m].body = download[b].records[m]

\* A download without a failure has recorded every month that it has left behind.
Handled(b) ==
  Downloading(b) /\ ~download[b].failed => \A i \in DOMAIN MonthsOf[b] :
    i < download[b].at \/ download[b].step = "finish" =>
      download[b].records[MonthsOf[b][i]] # None

ArchiveSafe ==
  /\ \A m \in Months \ contested : Owned(m) /\ Settled(m) /\ Streamed(m)
  /\ \A b \in Batches : Fetching(b) /\ Kept(b) /\ Handled(b)

\* A step of the download of b touches no file of an uncontested month but the
\* one in hand, and no other download.
LEMMA StepsAreLocal ==
  ASSUME TypeOK, ArchiveSafe, NEW b \in Batches, DownloadStep(b) \/ KillDownload(b)
  PROVE  /\ contested' = contested /\ Downloading(b)
         /\ \A c \in Batches \ {b} : download'[c] = download[c]
         /\ \A m \in Months \ contested : m # Current(b) =>
              raw'[m] = raw[m] /\ part'[m] = part[m]
<1>1. contested' = contested
  BY DEF DownloadStep, KillDownload, BeginMonth, Reuse, Respond, Receive, Inspect, Publish,
         Transient, Permanent, Finish
<1>2. Downloading(b)
  BY DEF DownloadStep, KillDownload, BeginMonth, Reuse, Respond, Receive, Inspect, Publish,
         Transient, Permanent, Finish, Downloading
<1>3. \A c \in Batches \ {b} : download'[c] = download[c]
  BY DEF DownloadStep, KillDownload, BeginMonth, Reuse, Respond, Receive, Inspect, Publish,
         Transient, Permanent, Finish, TypeOK
<1>4. ASSUME NEW m \in Months \ contested, m # Current(b)
      PROVE  raw'[m] = raw[m] /\ part'[m] = part[m]
  <2>1. /\ raw[m] \in Files \union {None} /\ part[m] \in Files \union {None}
        /\ DOMAIN raw = Months /\ DOMAIN part = Months
    BY DEF TypeOK, MonthMap
  <2>2. /\ raw[m] # None => b \notin raw[m].open
        /\ part[m] # None => b \notin part[m].open
    BY <1>4 DEF ArchiveSafe, Settled, Streamed
  <2>3. \A f \in Files : b \notin f.open => [f EXCEPT !.open = @ \ {b}] = f
    <3> SUFFICES ASSUME NEW f \in Files, b \notin f.open
                 PROVE  [f EXCEPT !.open = @ \ {b}] = f
      OBVIOUS
    <3>1. f.open \ {b} = f.open
      OBVIOUS
    <3> QED
      BY <3>1 DEF Files
  <2>4. Close(raw, b)[m] = raw[m] /\ Close(part, b)[m] = part[m]
    BY <2>1, <2>2, <2>3 DEF Close, Closed
  <2>5. CASE BeginMonth(b) \/ Reuse(b) \/ Respond(b) \/ Inspect(b) \/ Permanent(b)
    BY <1>4, <2>1, <2>5 DEF BeginMonth, Reuse, Respond, Inspect, Permanent, Unlinked
  <2>6. CASE Receive(b)
    BY <2>1, <2>2, <2>6 DEF Receive, Written
  <2>7. CASE Publish(b)
    BY <1>4, <2>1, <2>7 DEF Publish, Unlinked
  <2>8. CASE Transient(b)
    BY <1>4, <2>4, <2>8 DEF Transient, Close
  <2>9. CASE Finish(b) \/ KillDownload(b)
    BY <2>4, <2>9 DEF Finish, KillDownload
  <2> QED
    BY <2>5, <2>6, <2>7, <2>8, <2>9 DEF DownloadStep
<1> QED
  BY <1>1, <1>2, <1>3, <1>4

\* So it is enough to look at the month in hand and at the download itself.
LEMMA Locality ==
  ASSUME TypeOK, ArchiveSafe, NEW b \in Batches, DownloadStep(b) \/ KillDownload(b),
         Fetching(b)', Kept(b)', Handled(b)',
         Current(b) \notin contested =>
           /\ raw'[Current(b)] # None =>
                raw'[Current(b)].body \in Versions /\ raw'[Current(b)].open = {}
           /\ part'[Current(b)] # None => \A c \in part'[Current(b)].open :
                c = b /\ download'[b].step = "stream" /\ Current(b)' = Current(b)
  PROVE  ArchiveSafe'
<1>1. /\ contested' = contested /\ Downloading(b)
      /\ \A c \in Batches \ {b} : download'[c] = download[c]
      /\ \A m \in Months \ contested : m # Current(b) => raw'[m] = raw[m] /\ part'[m] = part[m]
  BY StepsAreLocal
<1>2. Current(b) \in Requested(b)
  BY CurrentMonth
<1>3. \A c \in Batches \ {b} : /\ Downloading(c)' = Downloading(c)
                               /\ Current(c)' = Current(c)
  BY <1>1 DEF Downloading, Current
<1>4. ASSUME NEW m \in Months \ contested PROVE Owned(m)'
  BY <1>1, <1>3 DEF Owned, ArchiveSafe
<1>5. ASSUME NEW m \in Months \ contested PROVE Settled(m)'
  BY <1>1 DEF Settled, ArchiveSafe
<1>6. ASSUME NEW m \in Months \ contested PROVE Streamed(m)'
  <2>1. CASE m = Current(b)
    BY <2>1 DEF Streamed
  <2>2. CASE m # Current(b)
    <3>1. part'[m] = part[m]
      BY <1>1, <2>2
    <3>2. part[m] # None => part[m].open \subseteq Batches
      BY DEF TypeOK, MonthMap, Files
    <3>3. part[m] # None => b \notin part[m].open
      BY <2>2 DEF ArchiveSafe, Streamed
    <3> QED
      BY <1>1, <1>3, <3>1, <3>2, <3>3 DEF ArchiveSafe, Streamed
  <2> QED
    BY <2>1, <2>2
<1>7. ASSUME NEW c \in Batches, c # b PROVE Fetching(c)' /\ Kept(c)' /\ Handled(c)'
  <2>1. download'[c] = download[c] /\ Current(c)' = Current(c) /\ Downloading(c)' = Downloading(c)
    BY <1>1, <1>3, <1>7
  <2>2. Current(c) \in Requested(c) /\ Requested(c) \subseteq Months
    BY CurrentMonth, Shapes
  <2>3. ASSUME Downloading(c), NEW m \in Requested(c) \ contested
        PROVE  raw'[m] = raw[m] /\ part'[m] = part[m]
    <3>1. m \in Months
      BY <2>2, <2>3
    <3>2. m \notin Requested(b)
      BY <1>1, <1>7, <2>3, <3>1 DEF ArchiveSafe, Owned
    <3> QED
      BY <1>1, <1>2, <2>3, <3>1, <3>2
  <2>4. Fetching(c) /\ Kept(c) /\ Handled(c)
    BY DEF ArchiveSafe
  <2>5. Fetching(c)'
    <3>1. CASE Downloading(c)
      BY <1>1, <2>1, <2>2, <2>3, <2>4, <3>1 DEF Fetching
    <3>2. CASE ~Downloading(c)
      BY <2>1, <3>2 DEF Fetching, Downloading
    <3> QED
      BY <3>1, <3>2
  <2>6. Kept(c)'
    BY <1>1, <2>1, <2>3, <2>4 DEF Kept
  <2>7. Handled(c)'
    BY <2>1, <2>4 DEF Handled
  <2> QED
    BY <2>5, <2>6, <2>7
<1> QED
  BY <1>1, <1>4, <1>5, <1>6, <1>7 DEF ArchiveSafe

LEMMA RecordedSafe ==
  ASSUME TypeOK, NEW b \in Batches, Downloading(b), Kept(b), Handled(b),
         NEW content \in Content, download'[b] = Recorded(b, content), contested' = contested,
         Current(b) \notin contested =>
           raw'[Current(b)] # None /\ raw'[Current(b)].body = content,
         \A m \in Requested(b) \ contested : m # Current(b) => raw'[m] = raw[m]
  PROVE  Fetching(b)' /\ Kept(b)' /\ Handled(b)'
<1>1. /\ download'[b].step \in {"begin", "finish"} /\ download'[b].failed = download[b].failed
      /\ download'[b].records = [download[b].records EXCEPT ![Current(b)] = content]
      /\ download'[b].step = "begin" => download'[b].at = download[b].at + 1
      /\ download'[b].step = "finish" => download[b].at = Len(MonthsOf[b])
  BY RecordedFacts
<1>2. DOMAIN download[b].records = Months /\ download[b].at \in DOMAIN MonthsOf[b]
  BY DEF TypeOK, Downloads, MonthMap
<1>3. Current(b) \in Requested(b) /\ Requested(b) \subseteq Months
  BY CurrentMonth, Shapes
<1>4. Fetching(b)'
  BY <1>1 DEF Fetching
<1>5. Kept(b)'
  BY <1>1, <1>2, <1>3 DEF Kept
<1>6. Handled(b)'
  <2> SUFFICES ASSUME ~download[b].failed, NEW i \in DOMAIN MonthsOf[b],
                      i < download'[b].at \/ download'[b].step = "finish"
               PROVE  download'[b].records[MonthsOf[b][i]] # None
    BY <1>1 DEF Handled
  <2>1. content # None
    BY ArchiveAssumption
  <2>2. MonthsOf[b][i] \in Months
    BY <1>3, Shapes
  <2>3. CASE MonthsOf[b][i] = Current(b)
    BY <1>1, <1>2, <1>3, <2>1, <2>3
  <2>4. CASE MonthsOf[b][i] # Current(b)
    <3>1. i # download[b].at
      BY <2>4 DEF Current
    <3>2. i < download[b].at
      BY <1>1, <1>2, <3>1, Shapes
    <3> QED
      BY <1>1, <1>2, <2>2, <2>4, <3>2 DEF Handled
  <2> QED
    BY <2>3, <2>4
<1> QED
  BY <1>4, <1>5, <1>6

LEMMA FailedSafe ==
  ASSUME TypeOK, NEW b \in Batches, Downloading(b), Kept(b), download'[b] = Failed(b),
         contested' = contested, \A m \in Requested(b) \ contested : raw'[m] = raw[m]
  PROVE  Fetching(b)' /\ Kept(b)' /\ Handled(b)'
<1>1. /\ download'[b].step \in {"begin", "finish"} /\ download'[b].failed = TRUE
      /\ download'[b].records = download[b].records
  BY FailedFacts
<1> QED
  BY <1>1 DEF Fetching, Kept, Handled

LEMMA DownloadStepSafe ==
  ASSUME TypeOK, ArchiveSafe, NEW b \in Batches, DownloadStep(b) \/ KillDownload(b)
  PROVE  ArchiveSafe'
<1> DEFINE m == Current(b)
           Mine(c) == c = b /\ download'[b].step = "stream" /\ Current(b)' = m
           AtHand == m \notin contested =>
             /\ raw'[m] # None => raw'[m].body \in Versions /\ raw'[m].open = {}
             /\ part'[m] # None => \A c \in part'[m].open : Mine(c)
<1>1. /\ contested' = contested /\ Downloading(b)
      /\ \A n \in Months \ contested : n # m => raw'[n] = raw[n] /\ part'[n] = part[n]
  BY StepsAreLocal
<1>2. m \in Requested(b) /\ m \in Months /\ Requested(b) \subseteq Months
  BY CurrentMonth, Shapes
<1>3. download[b] \in Downloads /\ DOMAIN download = Batches /\ DOMAIN raw = Months
      /\ DOMAIN part = Months
  BY DEF TypeOK, MonthMap
<1>4. /\ m \notin contested => Settled(m) /\ Streamed(m) /\ Owned(m)
      /\ Fetching(b) /\ Kept(b) /\ Handled(b)
  BY <1>2 DEF ArchiveSafe
<1>5. /\ raw[m] \in Files \union {None} /\ part[m] \in Files \union {None}
      /\ published[m] \in Versions
  BY <1>2 DEF TypeOK, MonthMap
<1>6. \A n \in Requested(b) \ contested : n # m => raw'[n] = raw[n]
  BY <1>1, <1>2
<1>7. SUFFICES Fetching(b)' /\ Kept(b)' /\ Handled(b)' /\ AtHand
  BY Locality
<1> HIDE DEF m
\* The download goes on with the month in hand.
<1>8. ASSUME NEW step, step # "finish", download'[b].step = step,
             download'[b].at = download[b].at, download'[b].records = download[b].records,
             download'[b].failed = download[b].failed, raw'[m] = raw[m]
      PROVE  Kept(b)' /\ Handled(b)'
  <2>1. Kept(b)'
    BY <1>1, <1>4, <1>6, <1>8 DEF Kept
  <2>2. Handled(b)'
    BY <1>1, <1>4, <1>8 DEF Handled
  <2> QED
    BY <2>1, <2>2
<1>9. ASSUME raw'[m] = raw[m], part'[m] = None
      PROVE  AtHand
  BY <1>4, <1>9 DEF Settled
<1>10. CASE BeginMonth(b)
  <2>1. raw' = raw /\ part' = [part EXCEPT ![m] = None]
    BY <1>10 DEF BeginMonth, Unlinked, m
  <2>2. AtHand
    BY <1>2, <1>3, <1>9, <2>1
  <2>3. CASE raw[m] = None \/ download[b].overwrite
    <3>1. download'[b] = [download[b] EXCEPT !.step = "request"]
      BY <1>3, <1>10, <2>3 DEF BeginMonth, m
    <3>2. /\ download'[b].step = "request" /\ download'[b].at = download[b].at
          /\ download'[b].records = download[b].records
          /\ download'[b].failed = download[b].failed
          /\ download'[b].overwrite = download[b].overwrite
      BY <1>3, <3>1 DEF Downloads
    <3>3. Fetching(b)'
      BY <2>1, <2>3, <3>2 DEF Fetching, Current, m
    <3> QED
      BY <1>8, <2>1, <2>2, <3>2, <3>3
  <2>4. CASE ~(raw[m] = None \/ download[b].overwrite) /\ Matches(b)
    <3>1. download'[b] = [download[b] EXCEPT !.step = "reuse"]
      BY <1>3, <1>10, <2>4 DEF BeginMonth, m
    <3>2. /\ download'[b].step = "reuse" /\ download'[b].at = download[b].at
          /\ download'[b].records = download[b].records
          /\ download'[b].failed = download[b].failed
      BY <1>3, <3>1 DEF Downloads
    <3>3. Fetching(b)'
      BY <3>2 DEF Fetching
    <3> QED
      BY <1>8, <2>1, <2>2, <3>2, <3>3
  <2>5. CASE ~(raw[m] = None \/ download[b].overwrite) /\ ~Matches(b)
    <3>1. download'[b] = Failed(b)
      BY <1>3, <1>10, <2>5 DEF BeginMonth, m
    <3> QED
      BY <1>1, <1>4, <2>1, <2>2, <3>1, FailedSafe
  <2> QED
    BY <2>3, <2>4, <2>5
<1>11. CASE Reuse(b)
  <2>1. raw' = raw /\ part' = part /\ download[b].step = "reuse"
    BY <1>11 DEF Reuse
  <2>2. AtHand
    <3>1. m \notin contested /\ part[m] # None => part[m].open = {}
      <4> SUFFICES ASSUME m \notin contested, part[m] # None, NEW c \in part[m].open PROVE FALSE
        BY <1>5 DEF Files
      <4>1. c \in Batches
        BY <1>5 DEF Files
      <4>2. download[c].step = "stream" /\ Current(c) = m
        BY <1>4 DEF Streamed
      <4>3. Current(c) \in Requested(c)
        BY <4>1, CurrentMonth
      <4>4. c = b
        BY <1>1, <1>2, <1>4, <4>1, <4>2, <4>3 DEF Owned, Downloading
      <4> QED
        BY <2>1, <4>2, <4>4
    <3> QED
      BY <1>4, <2>1, <3>1 DEF Settled
  <2>3. CASE Whole(raw[m])
    <3>1. download'[b] = Recorded(b, raw[m].body)
      BY <1>3, <1>11, <2>3 DEF Reuse, m
    <3>2. raw[m].body \in Content /\ raw[m] # None
      BY <1>5, <2>3 DEF Whole, Files
    <3> QED
      BY <1>1, <1>4, <2>1, <2>2, <3>1, <3>2, RecordedSafe DEF m
  <2>4. CASE ~Whole(raw[m])
    <3>1. download'[b] = Failed(b)
      BY <1>3, <1>11, <2>4 DEF Reuse, m
    <3> QED
      BY <1>1, <1>4, <2>1, <2>2, <3>1, FailedSafe
  <2> QED
    BY <2>3, <2>4
<1>12. CASE Respond(b)
  <2>1. raw' = raw /\ download[b].step = "request"
    BY <1>12 DEF Respond
  <2>2. download'[b] = [download[b] EXCEPT !.step = "stream", !.body = published[m]]
    BY <1>3, <1>12 DEF Respond, m
  <2>3. /\ download'[b].step = "stream" /\ download'[b].at = download[b].at
        /\ download'[b].records = download[b].records
        /\ download'[b].failed = download[b].failed
        /\ download'[b].overwrite = download[b].overwrite
    BY <1>3, <2>2 DEF Downloads
  <2>4. m \notin contested => part'[m] = File(Torn, {b}, FALSE)
    <3> SUFFICES ASSUME m \notin contested PROVE part'[m] = File(Torn, {b}, FALSE)
      OBVIOUS
    <3>1. CASE part[m] = None
      BY <1>2, <1>3, <1>12, <3>1 DEF Respond, m
    <3>2. CASE part[m] # None
      <4>1. part[m].open = {}
        <5> SUFFICES ASSUME NEW c \in part[m].open PROVE FALSE
          BY <1>5, <3>2 DEF Files
        <5>1. c \in Batches
          BY <1>5, <3>2 DEF Files
        <5>2. download[c].step = "stream" /\ Current(c) = m
          BY <1>4, <3>2 DEF Streamed
        <5>3. Current(c) \in Requested(c)
          BY <5>1, CurrentMonth
        <5>4. c = b
          BY <1>1, <1>2, <1>4, <5>1, <5>2, <5>3 DEF Owned, Downloading
        <5> QED
          BY <2>1, <5>2, <5>4
      <4>2. part'[m] = File(Torn, part[m].open \union {b}, part[m].open # {})
        BY <1>2, <1>3, <1>12, <3>2 DEF Respond, m
      <4>3. (part[m].open # {}) = FALSE /\ part[m].open \union {b} = {b}
        BY <4>1
      <4> QED
        BY <4>2, <4>3
    <3> QED
      BY <3>1, <3>2
  <2>5. m \notin contested => part'[m].open = {b}
    BY <2>4 DEF File
  <2>6. AtHand
    <3>1. Current(b)' = m
      BY <2>3 DEF Current, m
    <3>2. m \notin contested => (raw'[m] # None => raw'[m].body \in Versions /\ raw'[m].open = {})
      BY <1>4, <2>1 DEF Settled
    <3>3. ASSUME m \notin contested, NEW c \in part'[m].open PROVE Mine(c)
      <4>1. c = b
        BY <2>5, <3>3
      <4> QED
        BY <2>3, <3>1, <4>1
    <3> QED
      BY <3>2, <3>3
  <2>7. Fetching(b)'
    <3>1. Current(b)' = m
      BY <2>3 DEF Current, m
    <3>2. m \notin contested => raw[m] = None \/ download[b].overwrite
      BY <1>4, <2>1 DEF Fetching, m
    <3>3. File(Torn, {b}, FALSE)' = File(Torn, {b}, FALSE)
      BY DEF File
    <3> QED
      BY <1>1, <2>1, <2>3, <2>4, <3>1, <3>2, <3>3 DEF Fetching
  <2> QED
    BY <1>8, <2>1, <2>3, <2>6, <2>7
<1>13. CASE Receive(b)
  <2>1. download[b].step = "stream"
    BY <1>13 DEF Receive
  <2>2. PICK body \in {download[b].body, Torn}, mixed \in BOOLEAN :
          /\ part' = [n \in Months |-> Written(part[n], b, body, mixed)]
          /\ raw' = [n \in Months |-> Written(raw[n], b, body, mixed)]
          /\ download' = [download EXCEPT ![b].step = "inspect", ![b].body = body]
    BY <1>13 DEF Receive
  <2>3. download'[b] = [download[b] EXCEPT !.step = "inspect", !.body = body]
    BY <1>3, <2>2
  <2>4. /\ download'[b].step = "inspect" /\ download'[b].at = download[b].at
        /\ download'[b].records = download[b].records /\ download'[b].body = body
        /\ download'[b].failed = download[b].failed
        /\ download'[b].overwrite = download[b].overwrite
    BY <1>3, <2>3 DEF Downloads
  <2>5. ASSUME m \notin contested
        PROVE  /\ raw'[m] = raw[m]
               /\ part'[m] # None /\ part'[m].body = body /\ part'[m].open = {}
    <3>1. part[m] = File(Torn, {b}, FALSE)
      BY <1>4, <2>1, <2>5 DEF Fetching, m
    <3>2. part[m] \in Files
      BY <3>1, ArchiveAssumption DEF File, Files, Content
    <3>3. part[m] # None /\ part[m].open = {b} /\ part[m].shared = FALSE
      <4>1. part[m] # None
        BY <3>2, ArchiveAssumption
      <4>2. part[m].open = {b}
        BY <3>1 DEF File
      <4>3. part[m].shared = FALSE
        BY <3>1 DEF File
      <4> QED
        BY <4>1, <4>2, <4>3
    <3>4. part'[m] = [part[m] EXCEPT !.body = body, !.open = @ \ {b}]
      BY <1>2, <2>2, <3>3 DEF Written
    <3>5. body \in Content
      <4>1. download[b].body \in Content
        BY <1>3, <2>1 DEF Downloads, TypeOK
      <4> QED
        BY <4>1 DEF Content
    <3>6. part'[m] \in Files /\ part'[m].body = body /\ part'[m].open = {}
      BY <3>2, <3>3, <3>4, <3>5 DEF Files
    <3>7. raw'[m] = raw[m]
      BY <1>2, <1>4, <2>2, <2>5 DEF Written, Settled
    <3> QED
      BY <3>6, <3>7, ArchiveAssumption
  <2>6. AtHand
    BY <1>4, <2>5 DEF Settled
  <2>7. Fetching(b)'
    BY <1>1, <1>4, <2>1, <2>4, <2>5 DEF Fetching, Current, m
  <2>8. Kept(b)'
    BY <1>1, <1>4, <1>6, <2>4, <2>5 DEF Kept
  <2>9. Handled(b)'
    BY <1>1, <1>4, <2>4 DEF Handled
  <2> QED
    BY <2>6, <2>7, <2>8, <2>9
<1>14. CASE Inspect(b)
  <2>1. raw' = raw /\ download[b].step = "inspect"
    BY <1>14 DEF Inspect
  <2>2. CASE Whole(part[m])
    <3>1. part' = part /\ download'[b] = [download[b] EXCEPT !.step = "publish"]
      BY <1>3, <1>14, <2>2 DEF Inspect, m
    <3>2. /\ download'[b].step = "publish" /\ download'[b].at = download[b].at
          /\ download'[b].records = download[b].records /\ download'[b].body = download[b].body
          /\ download'[b].failed = download[b].failed
          /\ download'[b].overwrite = download[b].overwrite
      BY <1>3, <3>1 DEF Downloads
    <3>3. Fetching(b)'
      BY <1>1, <1>4, <2>1, <2>2, <3>1, <3>2 DEF Fetching, Current, Whole, m
    <3>4. AtHand
      BY <1>4, <2>1, <3>1 DEF Settled, Fetching, m
    <3> QED
      BY <1>8, <2>1, <3>2, <3>3, <3>4
  <2>3. CASE ~Whole(part[m])
    <3>1. part' = [part EXCEPT ![m] = None] /\ download'[b] = Failed(b)
      BY <1>3, <1>14, <2>3 DEF Inspect, Unlinked, m
    <3>2. AtHand
      BY <1>2, <1>3, <1>9, <2>1, <3>1
    <3> QED
      BY <1>1, <1>4, <2>1, <3>1, <3>2, FailedSafe
  <2> QED
    BY <2>2, <2>3
<1>15. CASE Publish(b)
  <2>1. /\ download[b].step = "publish" /\ part[m] # None
        /\ raw'[m] = part[m] /\ part'[m] = None
        /\ download'[b] = Recorded(b, download[b].body)
    BY <1>2, <1>3, <1>15 DEF Publish, Unlinked, m
  <2>2. download[b].body \in Content
    BY <1>3, <2>1 DEF TypeOK, Downloads
  <2>3. m \notin contested =>
          part[m].body = download[b].body /\ part[m].open = {} /\ download[b].body # Torn
    BY <1>4, <2>1 DEF Fetching, m
  <2>4. AtHand
    BY <2>1, <2>2, <2>3 DEF Content
  <2>5. Fetching(b)' /\ Kept(b)' /\ Handled(b)'
    BY <1>1, <1>4, <1>6, <2>1, <2>2, <2>3, RecordedSafe DEF m
  <2> QED
    BY <2>4, <2>5
<1>16. m \notin contested => Closed(raw[m], b) = raw[m]
  <2> SUFFICES ASSUME raw[m] # None, raw[m].open = {}
               PROVE  [raw[m] EXCEPT !.open = @ \ {b}] = raw[m]
    BY <1>4 DEF Closed, Settled
  <2>1. raw[m] \in Files /\ {} \ {b} = {}
    BY <1>5
  <2> QED
    BY <2>1 DEF Files
<1>17. CASE Transient(b)
  <2>1. m \notin contested => raw'[m] = raw[m]
    BY <1>2, <1>16, <1>17 DEF Transient, Close
  <2>2. part'[m] = None
    BY <1>2, <1>17 DEF Transient, Close, m
  <2>3. AtHand
    BY <1>4, <2>1, <2>2 DEF Settled
  <2>4. CASE download[b].attempt = MaxAttempts
    <3>1. download'[b] = Failed(b)
      BY <1>3, <1>17, <2>4 DEF Transient
    <3> QED
      BY <1>1, <1>4, <1>6, <2>1, <2>3, <3>1, FailedSafe
  <2>5. CASE download[b].attempt # MaxAttempts
    <3>1. download'[b] = [download[b] EXCEPT !.step = "request", !.attempt = @ + 1, !.body = None]
      BY <1>3, <1>17, <2>5 DEF Transient
    <3>2. /\ download'[b].step = "request" /\ download'[b].at = download[b].at
          /\ download'[b].records = download[b].records
          /\ download'[b].failed = download[b].failed
          /\ download'[b].overwrite = download[b].overwrite
      BY <1>3, <3>1 DEF Downloads
    <3>3. download[b].step \in {"request", "stream", "publish"}
      BY <1>17 DEF Transient
    <3>4. Fetching(b)'
      BY <1>1, <1>4, <2>1, <3>2, <3>3 DEF Fetching, Current, m
    <3>5. Kept(b)' /\ Handled(b)'
      BY <1>1, <1>4, <1>6, <2>1, <3>2, <3>3 DEF Kept, Handled
    <3> QED
      BY <2>3, <3>4, <3>5
  <2> QED
    BY <2>4, <2>5
<1>18. CASE Permanent(b)
  <2>1. raw' = raw /\ part'[m] = None /\ download'[b] = Failed(b)
    BY <1>2, <1>3, <1>18 DEF Permanent, Unlinked, m
  <2> QED
    BY <1>1, <1>4, <1>9, <2>1, FailedSafe
<1>19. ASSUME download'[b] = NoDownload PROVE Fetching(b)' /\ Kept(b)' /\ Handled(b)'
  BY <1>19 DEF Fetching, Kept, Handled, Downloading, NoDownload
<1>20. ASSUME m \notin contested, part[m] # None, NEW c \in part[m].open PROVE c = b
  <2>1. c \in Batches
    BY <1>5, <1>20 DEF Files
  <2>2. download[c].step = "stream" /\ Current(c) = m
    BY <1>4, <1>20 DEF Streamed
  <2>3. Current(c) \in Requested(c)
    BY <2>1, CurrentMonth
  <2> QED
    BY <1>1, <1>2, <1>4, <1>20, <2>1, <2>2, <2>3 DEF Owned, Downloading
<1>21. CASE Finish(b)
  <2>1. raw' = raw /\ part' = part /\ download'[b] = NoDownload /\ download[b].step = "finish"
    BY <1>3, <1>21 DEF Finish
  <2>2. m \notin contested /\ part[m] # None => part[m].open = {}
    <3> SUFFICES ASSUME m \notin contested, part[m] # None, NEW c \in part[m].open PROVE FALSE
      BY <1>5 DEF Files
    <3> QED
      BY <1>4, <1>20, <2>1 DEF Streamed
  <2>3. AtHand
    BY <1>4, <2>1, <2>2 DEF Settled
  <2> QED
    BY <1>19, <2>1, <2>3
<1>22. CASE KillDownload(b)
  <2>1. /\ download'[b] = NoDownload /\ raw'[m] = Closed(raw[m], b) /\ part'[m] = Closed(part[m], b)
    BY <1>2, <1>3, <1>22 DEF KillDownload, Close
  <2>2. m \notin contested /\ part'[m] # None => part'[m].open = {}
    <3> SUFFICES ASSUME m \notin contested, part'[m] # None PROVE part'[m].open = {}
      OBVIOUS
    <3>1. part[m] \in Files /\ part[m] # None /\ part'[m] = [part[m] EXCEPT !.open = @ \ {b}]
      BY <1>5, <2>1 DEF Closed
    <3>2. part'[m].open = part[m].open \ {b}
      BY <3>1 DEF Files
    <3> QED
      BY <1>20, <3>1, <3>2
  <2>3. AtHand
    BY <1>4, <1>16, <2>1, <2>2 DEF Settled
  <2> QED
    BY <1>19, <2>1, <2>3
<1> QED
  BY <1>10, <1>11, <1>12, <1>13, <1>14, <1>15, <1>17, <1>18, <1>21, <1>22 DEF DownloadStep

LEMMA InitSafe == Init => ArchiveSafe
<1> SUFFICES ASSUME Init PROVE ArchiveSafe
  OBVIOUS
<1>1. \A b \in Batches : download[b] = NoDownload
  BY DEF Init
<1>2. \A m \in Months :
        /\ part[m] = None
        /\ raw[m] # None => raw[m].body \in Versions /\ raw[m].open = {}
  <2>1. 1 \in Versions
    BY ArchiveAssumption DEF Versions
  <2> QED
    BY <2>1 DEF Init, File
<1>3. \A b \in Batches : download[b].step = "idle"
  BY <1>1 DEF NoDownload
<1>4. \A m \in Months \ contested : Owned(m) /\ Settled(m) /\ Streamed(m)
  BY <1>2, <1>3 DEF Owned, Settled, Streamed, Downloading
<1>5. \A b \in Batches : Fetching(b) /\ Kept(b) /\ Handled(b)
  BY <1>3 DEF Fetching, Kept, Handled, Downloading
<1> QED
  BY <1>4, <1>5 DEF ArchiveSafe

\* A step that leaves the archives and the downloads alone.
LEMMA AloneSafe ==
  ASSUME ArchiveSafe, UNCHANGED <<raw, part, download, contested>>
  PROVE  ArchiveSafe'
<1>1. \A b \in Batches : Downloading(b)' = Downloading(b) /\ Current(b)' = Current(b)
  BY DEF Downloading, Current
<1>2. ASSUME NEW m \in Months \ contested PROVE Owned(m)' /\ Settled(m)' /\ Streamed(m)'
  <2>1. Owned(m) /\ Settled(m) /\ Streamed(m)
    BY DEF ArchiveSafe
  <2> QED
    BY <2>1 DEF Owned, Settled, Streamed, Downloading, Current
<1>3. ASSUME NEW b \in Batches PROVE Fetching(b)' /\ Kept(b)' /\ Handled(b)'
  <2>1. Fetching(b) /\ Kept(b) /\ Handled(b)
    BY DEF ArchiveSafe
  <2>2. Fetching(b)'
    BY <1>1, <2>1 DEF Fetching, File
  <2>3. Kept(b)' /\ Handled(b)'
    BY <1>1, <2>1 DEF Kept, Handled
  <2> QED
    BY <2>2, <2>3
<1> QED
  BY <1>2, <1>3 DEF ArchiveSafe

\* A month that a second download takes on becomes contested.
LEMMA StartDownloadSafe ==
  ASSUME TypeOK, ArchiveSafe, NEW b \in Batches, NEW overwrite \in BOOLEAN,
         StartDownload(b, overwrite)
  PROVE  ArchiveSafe'
<1>1. PICK d : d = [NoDownload EXCEPT !.step = "begin", !.overwrite = overwrite,
                      !.known = IF manifest[b] = None THEN Unrecorded ELSE manifest[b]]
  OBVIOUS
<1>2. /\ d.step = "begin" /\ d.at = 1 /\ d.records = Unrecorded /\ d.failed = FALSE
  BY <1>1 DEF NoDownload
<1>3. download' = [download EXCEPT ![b] = d]
  BY <1>1 DEF StartDownload
<1>4. download'[b] = d /\ \A c \in Batches \ {b} : download'[c] = download[c]
  BY <1>3 DEF TypeOK
<1>5. /\ raw' = raw /\ part' = part /\ download[b].step = "idle"
      /\ contested' = contested \union
           {m \in Requested(b) : \E c \in Batches \ {b} : Downloading(c) /\ m \in Requested(c)}
  BY DEF StartDownload, Downloading
<1>6. contested \subseteq contested'
  BY <1>5
<1>7. \A c \in Batches \ {b} : Downloading(c)' = Downloading(c) /\ Current(c)' = Current(c)
  BY <1>4 DEF Downloading, Current
<1>8. ASSUME NEW m \in Months \ contested' PROVE Owned(m)' /\ Settled(m)' /\ Streamed(m)'
  <2>1. m \in Months \ contested
    BY <1>6
  <2>2. Owned(m) /\ Settled(m) /\ Streamed(m)
    BY <2>1 DEF ArchiveSafe
  <2>3. m \in Requested(b) => \A c \in Batches \ {b} : ~(Downloading(c) /\ m \in Requested(c))
    BY <1>5, <1>8
  <2>4. Owned(m)'
    BY <1>7, <2>2, <2>3 DEF Owned
  <2>5. Settled(m)'
    BY <1>5, <2>2 DEF Settled
  <2>6. Streamed(m)'
    <3>1. part[m] # None => b \notin part[m].open /\ part[m].open \subseteq Batches
      BY <1>5, <2>2 DEF Streamed, TypeOK, MonthMap, Files
    <3> QED
      BY <1>4, <1>5, <1>7, <2>2, <3>1 DEF Streamed
  <2> QED
    BY <2>4, <2>5, <2>6
<1>9. ASSUME NEW c \in Batches \ {b} PROVE Fetching(c)' /\ Kept(c)' /\ Handled(c)'
  <2>1. Fetching(c) /\ Kept(c) /\ Handled(c)
    BY DEF ArchiveSafe
  <2>2. Fetching(c)'
    BY <1>4, <1>5, <1>6, <1>7, <2>1 DEF Fetching, File
  <2>3. Kept(c)' /\ Handled(c)'
    BY <1>4, <1>5, <1>6, <1>7, <2>1 DEF Kept, Handled
  <2> QED
    BY <2>2, <2>3
<1>10. Fetching(b)' /\ Kept(b)' /\ Handled(b)'
  <2>1. \A m \in Requested(b) : d.records[m] = None
    BY <1>2, Shapes DEF Unrecorded
  <2>2. Fetching(b)' /\ Kept(b)'
    BY <1>2, <1>4, <2>1 DEF Fetching, Kept
  <2>3. \A i \in DOMAIN MonthsOf[b] : ~(i < 1)
    BY Shapes
  <2>4. Handled(b)'
    BY <1>2, <1>4, <2>3 DEF Handled
  <2> QED
    BY <2>2, <2>4
<1> QED
  BY <1>8, <1>9, <1>10 DEF ArchiveSafe

LEMMA StepSafe == TypeOK /\ ArchiveSafe /\ [Next]_vars => ArchiveSafe'
<1>1. ASSUME TypeOK, ArchiveSafe, NEW m \in Months, Republish(m) PROVE ArchiveSafe'
  BY <1>1, AloneSafe DEF Republish
<1>2. ASSUME TypeOK, ArchiveSafe, NEW b \in Batches, PrepareStep(b) PROVE ArchiveSafe'
  BY <1>2, AloneSafe
  DEF PrepareStep, StartPrepare, Survey, Check, Decode, WriteSplit, RecordDataset,
      AbandonPrepare, archives
<1>3. ASSUME TypeOK, ArchiveSafe, UNCHANGED vars PROVE ArchiveSafe'
  BY <1>3, AloneSafe DEF vars
<1> QED
  BY <1>1, <1>2, <1>3, NextSteps, StartDownloadSafe, DownloadStepSafe

LEMMA ArchiveInvariant == Spec => [](TypeOK /\ ArchiveSafe)
BY InitTyped, InitSafe, StepTyped, StepSafe, PTL DEF Spec

\* An archive under its final name is whole, unless two downloads have had its
\* month at once.
THEOREM WholeArchives == Spec => []ArchivesWhole
<1>1. ArchiveSafe => ArchivesWhole
  BY DEF ArchiveSafe, Settled, ArchivesWhole
<1> QED
  BY <1>1, ArchiveInvariant, PTL

\* A source manifest is written whole, and every checksum in it is that of the
\* archive then on disk.
THEOREM TrueRecords == Spec => RecordsTrue
<1> DEFINE Entered(b) == manifest'[b] # manifest[b] =>
             \A m \in Requested(b) : manifest'[b][m] # None
               /\ (m \notin contested => raw[m] # None /\ manifest'[b][m] = raw[m].body)
<1>1. ASSUME TypeOK, ArchiveSafe, Next, NEW b \in Batches PROVE Entered(b)
  <2>1. CASE UNCHANGED manifest
    BY <2>1
  <2>2. CASE \E c \in Batches : Finish(c)
    <3>1. PICK c \in Batches : Finish(c)
      BY <2>2
    <3>2. CASE b # c \/ download[c].failed
      BY <1>1, <3>1, <3>2 DEF Finish, TypeOK
    <3>3. CASE b = c /\ ~download[c].failed
      <4>1. download[b].step = "finish"
        BY <3>1, <3>3 DEF Finish
      <4>2. manifest'[b] = download[b].records
        <5>1. manifest' = [manifest EXCEPT ![b] = download[b].records]
          BY <3>1, <3>3 DEF Finish
        <5> QED
          BY <1>1, <5>1 DEF TypeOK
      <4>3. ASSUME NEW m \in Requested(b) PROVE download[b].records[m] # None
        <5>1. PICK i \in DOMAIN MonthsOf[b] : m = MonthsOf[b][i]
          BY DEF Requested
        <5> QED
          BY <1>1, <3>3, <4>1, <5>1 DEF ArchiveSafe, Handled, Downloading
      <4>4. ASSUME NEW m \in Requested(b), m \notin contested
            PROVE  raw[m] # None /\ download[b].records[m] = raw[m].body
        BY <1>1, <4>1, <4>3, <4>4 DEF ArchiveSafe, Kept, Downloading
      <4> QED
        BY <4>2, <4>3, <4>4
    <3> QED
      BY <3>2, <3>3
  <2>3. UNCHANGED manifest \/ \E c \in Batches : Finish(c)
    BY <1>1, NextSteps
    DEF Republish, StartDownload, KillDownload, DownloadStep, BeginMonth, Reuse, Respond,
        Receive, Inspect, Publish, Transient, Permanent, PrepareStep, StartPrepare, Survey,
        Check, Decode, WriteSplit, RecordDataset, AbandonPrepare, archives
  <2> QED
    BY <2>1, <2>2, <2>3
<1>2. TypeOK /\ ArchiveSafe /\ [Next]_vars => [\A b \in Batches : Entered(b)]_vars
  BY <1>1
<1> QED
  BY <1>2, ArchiveInvariant, PTL DEF Spec, RecordsTrue

\* An archive is replaced only by a download told to overwrite, unless two
\* downloads have had its month at once.
THEOREM KeptArchives == Spec => ArchivesKept
<1> DEFINE Replaced == \A m \in Months \ contested : raw[m] # None /\ raw'[m] # raw[m] =>
             \E b \in Batches : Downloading(b) /\ download[b].overwrite /\ Current(b) = m
<1>1. ASSUME TypeOK, ArchiveSafe, Next PROVE Replaced
  <2>1. CASE UNCHANGED raw
    BY <2>1
  <2>2. CASE \E b \in Batches : DownloadStep(b) \/ KillDownload(b)
    <3>1. PICK b \in Batches : DownloadStep(b) \/ KillDownload(b)
      BY <2>2
    <3>2. ASSUME NEW m \in Months \ contested, raw[m] # None, raw'[m] # raw[m]
          PROVE  Downloading(b) /\ download[b].overwrite /\ Current(b) = m
      <4>1. Downloading(b) /\ Current(b) = m
        BY <1>1, <3>1, <3>2, StepsAreLocal
      <4>2. raw[m].open = {} /\ raw[m] \in Files
        BY <1>1, <3>2 DEF ArchiveSafe, Settled, TypeOK, MonthMap
      <4>3. Closed(raw[m], b) = raw[m]
        <5>1. {} \ {b} = {}
          OBVIOUS
        <5> QED
          BY <3>2, <4>2, <5>1 DEF Closed, Files
      <4>4. ~KillDownload(b) /\ ~Transient(b)
        BY <3>2, <4>3 DEF KillDownload, Transient, Close
      <4>5. ~Receive(b)
        BY <3>2, <4>2 DEF Receive, Written
      <4>6. Publish(b)
        BY <3>1, <3>2, <4>4, <4>5
        DEF DownloadStep, BeginMonth, Reuse, Respond, Inspect, Permanent, Finish
      <4>7. download[b].step = "publish"
        BY <4>6 DEF Publish
      <4>8. Fetching(b)
        BY <1>1 DEF ArchiveSafe
      <4>9. download[b].overwrite
        BY <3>2, <4>1, <4>7, <4>8 DEF Fetching
      <4> QED
        BY <4>1, <4>9
    <3> QED
      BY <3>2
  <2>3. UNCHANGED raw \/ \E b \in Batches : DownloadStep(b) \/ KillDownload(b)
    BY <1>1, NextSteps
    DEF Republish, StartDownload, PrepareStep, StartPrepare, Survey, Check, Decode, WriteSplit,
        RecordDataset, AbandonPrepare, archives
  <2> QED
    BY <2>1, <2>2, <2>3
<1>2. TypeOK /\ ArchiveSafe /\ [Next]_vars => [Replaced]_vars
  BY <1>1
<1> QED
  BY <1>2, ArchiveInvariant, PTL DEF Spec, ArchivesKept

-----------------------------------------------------------------------------
(* The splits of a batch *)

\* An archive that is about to be decoded is the recorded one, or the
\* preparation has been noticed.
Decoding(b) ==
  prepare[b].step = "decode" =>
    /\ SplitOf[b][Prepared(b)] # None /\ raw[Prepared(b)] # None
    /\ prepare[b].swapped # TRUE => raw[Prepared(b)].body = prepare[b].source[Prepared(b)]

\* The preparation has left the i-th month of its batch behind.
Behind(b, i) ==
  \/ prepare[b].step \in {"survey", "check", "decode"} /\ i < prepare[b].at
  \/ prepare[b].step \in {"write", "record"}

\* What has been decoded is what was recorded.
Decoded(b) ==
  prepare[b].swapped # TRUE => \A i \in DOMAIN MonthsOf[b] : Behind(b, i) =>
    \/ SplitOf[b][MonthsOf[b][i]] = None
    \/ prepare[b].rows[MonthsOf[b][i]] = prepare[b].source[MonthsOf[b][i]]

\* What has been written is what was decoded.
Rewritten(b) ==
  \A i \in DOMAIN SplitsOf[b] :
    prepare[b].step = "record" \/ (prepare[b].step = "write" /\ i < prepare[b].at) =>
      split[b][SplitsOf[b][i]] = RowsOf(b, SplitsOf[b][i], prepare[b].rows)

\* What a processed manifest holds is what its source manifest recorded.
Named(b) ==
  processed[b] # None /\ b \notin swapped =>
    \A m \in Requested(b) : SplitOf[b][m] # None =>
      processed[b].hashes[SplitOf[b][m]][m] = processed[b].source[m]

DataSafe == \A b \in Batches : Decoding(b) /\ Decoded(b) /\ Rewritten(b) /\ Named(b)

\* What the steps of a download leave of the preparations: an archive is never
\* removed, and one that changes before it is decoded is noticed.
LEMMA ArchivesStay ==
  ASSUME TypeOK, NEW b \in Batches, DownloadStep(b) \/ KillDownload(b)
  PROVE  /\ UNCHANGED <<split, processed, swapped>>
         /\ \A m \in Months : raw[m] # None => raw'[m] # None
         /\ \A c \in Batches :
              /\ prepare'[c].step = prepare[c].step /\ prepare'[c].at = prepare[c].at
              /\ prepare'[c].source = prepare[c].source /\ prepare'[c].rows = prepare[c].rows
              /\ prepare'[c].swapped # TRUE => prepare[c].swapped # TRUE
              /\ prepare[c].step = "decode" /\ prepare'[c].swapped # TRUE /\ raw[Prepared(c)] # None
                   => raw'[Prepared(c)].body = raw[Prepared(c)].body
<1>1. /\ DOMAIN raw = Months /\ \A m \in Months : raw[m] \in Files \union {None}
      /\ \A m \in Months : part[m] \in Files \union {None}
  BY DEF TypeOK, MonthMap
<1>2. \A c \in Batches : prepare[c].step = "decode" => Prepared(c) \in Months
  BY Shapes DEF TypeOK, Prepared
<1>3. CASE UNCHANGED <<raw, datasets>>
  BY <1>3 DEF datasets
<1>4. CASE Transient(b) \/ KillDownload(b)
  <2>1. raw' = Close(raw, b) /\ UNCHANGED datasets
    BY <1>4 DEF Transient, KillDownload
  <2>2. \A m \in Months : raw[m] # None => raw'[m] # None /\ raw'[m].body = raw[m].body
    <3> SUFFICES ASSUME NEW m \in Months, raw[m] # None
                 PROVE  raw'[m] # None /\ raw'[m].body = raw[m].body
      OBVIOUS
    <3>1. raw'[m] = Closed(raw[m], b)
      BY <2>1 DEF Close
    <3>2. Torn \in Content /\ TRUE \in BOOLEAN
      BY DEF Content
    <3> QED
      BY ZenonT(60), <1>1, <3>1, <3>2, FilesTyped
  <2> QED
    BY <1>2, <2>1, <2>2 DEF datasets
<1>5. CASE Receive(b)
  <2>1. Noticed
    BY <1>5 DEF Receive
  <2>2. ASSUME NEW m \in Months, raw[m] # None PROVE raw'[m] # None
    <3>1. PICK body \in {download[b].body, Torn}, mixed \in BOOLEAN :
            raw' = [n \in Months |-> Written(raw[n], b, body, mixed)]
      BY <1>5 DEF Receive
    <3>2. body \in Content
      BY <1>5 DEF Receive, TypeOK, Downloads, Content
    <3>3. raw'[m] = Written(raw[m], b, body, mixed)
      BY <3>1
    <3> QED
      BY <1>1, <2>2, <3>2, <3>3, FilesTyped
  <2> QED
    BY <2>1, <2>2, NoticedTyped DEF Noticed
<1>6. CASE Publish(b)
  <2>1. Noticed
    BY <1>6 DEF Publish
  <2>2. ASSUME NEW m \in Months, raw[m] # None PROVE raw'[m] # None
    BY <1>1, <1>6, <2>2 DEF Publish
  <2> QED
    BY <2>1, <2>2, NoticedTyped DEF Noticed
<1>7. CASE BeginMonth(b) \/ Reuse(b) \/ Respond(b) \/ Inspect(b) \/ Permanent(b) \/ Finish(b)
  BY <1>3, <1>7 DEF BeginMonth, Reuse, Respond, Inspect, Permanent, Finish
<1> QED
  BY <1>4, <1>5, <1>6, <1>7 DEF DownloadStep

LEMMA DownloadStepData ==
  ASSUME TypeOK, DataSafe, NEW b \in Batches, DownloadStep(b) \/ KillDownload(b)
  PROVE  DataSafe'
<1>1. /\ UNCHANGED <<split, processed, swapped>>
      /\ \A m \in Months : raw[m] # None => raw'[m] # None
      /\ \A c \in Batches :
           /\ prepare'[c].step = prepare[c].step /\ prepare'[c].at = prepare[c].at
           /\ prepare'[c].source = prepare[c].source /\ prepare'[c].rows = prepare[c].rows
           /\ prepare'[c].swapped # TRUE => prepare[c].swapped # TRUE
           /\ prepare[c].step = "decode" /\ prepare'[c].swapped # TRUE /\ raw[Prepared(c)] # None
                => raw'[Prepared(c)].body = raw[Prepared(c)].body
  BY ArchivesStay
<1> SUFFICES ASSUME NEW c \in Batches
             PROVE  Decoding(c)' /\ Decoded(c)' /\ Rewritten(c)' /\ Named(c)'
  BY DEF DataSafe
<1>2. Decoding(c) /\ Decoded(c) /\ Rewritten(c) /\ Named(c)
  BY DEF DataSafe
<1>3. Prepared(c)' = Prepared(c)
  BY <1>1 DEF Prepared
<1>4. prepare[c].step = "decode" => Prepared(c) \in Months
  BY Shapes DEF TypeOK, Prepared
<1>5. Decoding(c)'
  BY <1>1, <1>2, <1>3, <1>4 DEF Decoding
<1>6. Decoded(c)'
  <2>1. \A i \in DOMAIN MonthsOf[c] : Behind(c, i)' = Behind(c, i)
    BY <1>1 DEF Behind
  <2> QED
    BY <1>1, <1>2, <2>1 DEF Decoded
<1>7. Rewritten(c)'
  <2>1. \A s \in Splits : RowsOf(c, s, prepare[c].rows)' = RowsOf(c, s, prepare[c].rows)
    BY <1>1 DEF RowsOf
  <2>2. \A i \in DOMAIN SplitsOf[c] : SplitsOf[c][i] \in Splits
    BY Shapes
  <2> QED
    BY <1>1, <1>2, <2>1, <2>2 DEF Rewritten
<1>8. Named(c)'
  BY <1>1, <1>2 DEF Named
<1> QED
  BY <1>5, <1>6, <1>7, <1>8

\* A preparation touches the splits and manifests of no other batch.
LEMMA PrepareLocality ==
  ASSUME TypeOK, DataSafe, NEW b \in Batches, PrepareStep(b),
         Decoding(b)', Decoded(b)', Rewritten(b)', Named(b)'
  PROVE  DataSafe'
<1>1. raw' = raw
  BY DEF PrepareStep, StartPrepare, Survey, Check, Decode, WriteSplit, RecordDataset,
         AbandonPrepare, archives
<1>2. ASSUME NEW c \in Batches \ {b}
      PROVE  /\ prepare'[c] = prepare[c] /\ split'[c] = split[c]
             /\ processed'[c] = processed[c] /\ (c \in swapped' <=> c \in swapped)
  <2>1. CASE StartPrepare(b) \/ Survey(b) \/ AbandonPrepare(b)
    BY <2>1 DEF StartPrepare, Survey, AbandonPrepare, TypeOK
  <2>2. CASE Check(b) \/ Decode(b)
    BY <2>2 DEF Check, Decode, TypeOK
  <2>3. CASE WriteSplit(b)
    BY <2>3 DEF WriteSplit, TypeOK
  <2>4. CASE RecordDataset(b)
    BY <2>4 DEF RecordDataset, TypeOK
  <2> QED
    BY <2>1, <2>2, <2>3, <2>4 DEF PrepareStep
<1>3. ASSUME NEW c \in Batches \ {b}
      PROVE  Decoding(c)' /\ Decoded(c)' /\ Rewritten(c)' /\ Named(c)'
  <2>1. Decoding(c) /\ Decoded(c) /\ Rewritten(c) /\ Named(c)
    BY DEF DataSafe
  <2>2. Decoding(c)'
    BY <1>1, <1>2, <2>1 DEF Decoding, Prepared
  <2>3. Decoded(c)'
    BY <1>2, <2>1 DEF Decoded, Behind
  <2>4. Rewritten(c)'
    BY <1>2, <2>1 DEF Rewritten, RowsOf
  <2>5. Named(c)'
    BY <1>2, <2>1 DEF Named
  <2> QED
    BY <2>2, <2>3, <2>4, <2>5
<1> QED
  BY <1>3 DEF DataSafe

\* A month that is left behind is one of those before, or the one in hand.
LEMMA AfterMonthData ==
  ASSUME TypeOK, NEW b \in Batches, NEW p \in Preparations, p.at \in DOMAIN MonthsOf[b],
         p.at = prepare[b].at, p.source = prepare[b].source,
         prepare[b].step \in {"check", "decode"}, prepare'[b] = AfterMonth(b, p),
         p.swapped # TRUE => prepare[b].swapped # TRUE,
         \A m \in Months : m # Prepared(b) => p.rows[m] = prepare[b].rows[m],
         p.swapped # TRUE => \/ SplitOf[b][Prepared(b)] = None
                             \/ p.rows[Prepared(b)] = p.source[Prepared(b)],
         Decoded(b)
  PROVE  Decoding(b)' /\ Decoded(b)' /\ Rewritten(b)'
<1>1. /\ prepare'[b].source = p.source /\ prepare'[b].rows = p.rows
      /\ prepare'[b].swapped = p.swapped
      /\ \/ prepare'[b].step = "check" /\ prepare'[b].at = p.at + 1
         \/ prepare'[b].step = "write" /\ prepare'[b].at = 1 /\ p.at = Len(MonthsOf[b])
  BY AfterMonthFacts
<1>2. Decoding(b)'
  BY <1>1 DEF Decoding
<1>3. Decoded(b)'
  <2> SUFFICES ASSUME p.swapped # TRUE, NEW i \in DOMAIN MonthsOf[b], Behind(b, i)'
               PROVE  \/ SplitOf[b][MonthsOf[b][i]] = None
                      \/ p.rows[MonthsOf[b][i]] = p.source[MonthsOf[b][i]]
    BY <1>1 DEF Decoded
  <2>1. MonthsOf[b][i] \in Months
    BY Shapes
  <2>2. CASE MonthsOf[b][i] = Prepared(b)
    BY <2>2
  <2>3. CASE MonthsOf[b][i] # Prepared(b)
    <3>1. i # p.at
      BY <2>3 DEF Prepared
    <3>2. i < p.at
      <4>1. /\ i \in Nat /\ i <= Len(MonthsOf[b]) /\ Len(MonthsOf[b]) \in Nat
            /\ p.at \in Nat
        BY Shapes DEF Preparations
      <4>2. CASE prepare'[b].step = "check" /\ prepare'[b].at = p.at + 1
        BY <3>1, <4>1, <4>2 DEF Behind
      <4>3. CASE p.at = Len(MonthsOf[b])
        BY <3>1, <4>1, <4>3
      <4> QED
        BY <1>1, <4>2, <4>3
    <3>3. Behind(b, i)
      BY <3>2 DEF Behind
    <3> QED
      BY <2>1, <2>3, <3>3 DEF Decoded
  <2> QED
    BY <2>2, <2>3
<1>4. Rewritten(b)'
  <2>1. \A i \in DOMAIN SplitsOf[b] : ~(i < 1)
    BY Shapes
  <2> QED
    BY <1>1, <2>1 DEF Rewritten
<1> QED
  BY <1>2, <1>3, <1>4

LEMMA PrepareStepData ==
  ASSUME TypeOK, DataSafe, NEW b \in Batches, PrepareStep(b)
  PROVE  DataSafe'
<1>1. prepare[b] \in Preparations /\ DOMAIN prepare = Batches
  BY DEF TypeOK
<1>2. Decoding(b) /\ Decoded(b) /\ Rewritten(b) /\ Named(b)
  BY DEF DataSafe
<1>3. SUFFICES Decoding(b)' /\ Decoded(b)' /\ Rewritten(b)' /\ Named(b)'
  BY PrepareLocality
<1>4. ASSUME UNCHANGED <<processed, swapped>> PROVE Named(b)'
  BY <1>2, <1>4 DEF Named
<1>5. ASSUME prepare'[b].step \in {"idle", "survey", "check"}, prepare'[b].at = 1
      PROVE  Decoding(b)' /\ Decoded(b)' /\ Rewritten(b)'
  <2>1. \A i \in DOMAIN MonthsOf[b] : ~(i < 1)
    BY Shapes
  <2>2. Decoding(b)' /\ Rewritten(b)'
    BY <1>5 DEF Decoding, Rewritten
  <2>3. Decoded(b)'
    BY <1>5, <2>1 DEF Decoded, Behind
  <2> QED
    BY <2>2, <2>3
<1>6. CASE StartPrepare(b)
  <2>1. prepare'[b] = [NoPreparation EXCEPT !.step = IF b \in Surveyed THEN "survey" ELSE "check",
                                            !.source = manifest[b]]
    BY <1>1, <1>6 DEF StartPrepare
  <2>2. prepare'[b].step \in {"survey", "check"} /\ prepare'[b].at = 1
    BY <2>1 DEF NoPreparation
  <2> QED
    BY <1>4, <1>5, <1>6, <2>2 DEF StartPrepare
<1>7. CASE Survey(b)
  <2>1. prepare'[b] = [prepare[b] EXCEPT !.step = "check"]
    BY <1>1, <1>7 DEF Survey
  <2>2. /\ prepare'[b].step = "check" /\ prepare'[b].at = prepare[b].at
        /\ prepare'[b].source = prepare[b].source /\ prepare'[b].rows = prepare[b].rows
        /\ prepare'[b].swapped = prepare[b].swapped /\ prepare[b].step = "survey"
    BY <1>1, <1>7, <2>1 DEF Survey, Preparations
  <2>3. Decoding(b)' /\ Rewritten(b)'
    BY <2>2 DEF Decoding, Rewritten
  <2>4. Decoded(b)'
    <3>1. \A i \in DOMAIN MonthsOf[b] : Behind(b, i)' => Behind(b, i)
      BY <2>2 DEF Behind
    <3> QED
      BY <1>2, <2>2, <3>1 DEF Decoded
  <2> QED
    BY <1>4, <1>7, <2>3, <2>4 DEF Survey
<1>8. CASE Check(b)
  <2>1. /\ prepare[b].step = "check" /\ prepare[b].at \in DOMAIN MonthsOf[b]
        /\ Prepared(b) \in Months /\ raw' = raw
    BY <1>8, Shapes DEF Check, TypeOK, Prepared, archives
  <2>2. CASE SplitOf[b][Prepared(b)] = None
    <3>1. prepare'[b] = AfterMonth(b, prepare[b])
      BY <1>1, <1>8, <2>2 DEF Check
    <3>2. Decoding(b)' /\ Decoded(b)' /\ Rewritten(b)'
      BY <1>1, <1>2, <2>1, <2>2, <3>1, AfterMonthData
    <3> QED
      BY <1>4, <1>8, <3>2 DEF Check
  <2>3. CASE SplitOf[b][Prepared(b)] # None
    <3>1. prepare'[b] = [prepare[b] EXCEPT !.step = "decode"]
      BY <1>1, <1>8, <2>3 DEF Check
    <3>2. /\ prepare'[b].step = "decode" /\ prepare'[b].at = prepare[b].at
          /\ prepare'[b].source = prepare[b].source /\ prepare'[b].rows = prepare[b].rows
          /\ prepare'[b].swapped = prepare[b].swapped
      BY <1>1, <3>1 DEF Preparations
    <3>3. raw[Prepared(b)] # None /\ raw[Prepared(b)].body = prepare[b].source[Prepared(b)]
      BY <1>8, <2>3 DEF Check
    <3>4. Prepared(b)' = Prepared(b)
      BY <3>2 DEF Prepared
    <3>5. Decoding(b)' /\ Rewritten(b)'
      BY <2>1, <2>3, <3>2, <3>3, <3>4 DEF Decoding, Rewritten
    <3>6. Decoded(b)'
      <4>1. \A i \in DOMAIN MonthsOf[b] : Behind(b, i)' => Behind(b, i)
        BY <2>1, <3>2 DEF Behind
      <4> QED
        BY <1>2, <3>2, <4>1 DEF Decoded
    <3> QED
      BY <1>4, <1>8, <3>5, <3>6 DEF Check
  <2> QED
    BY <2>2, <2>3
<1>9. CASE Decode(b)
  <2>1. /\ prepare[b].step = "decode" /\ prepare[b].at \in DOMAIN MonthsOf[b]
        /\ Prepared(b) \in Months /\ Whole(raw[Prepared(b)])
    BY <1>9, Shapes DEF Decode, TypeOK, Prepared
  <2>2. raw[Prepared(b)].body \in Versions
    BY <2>1 DEF TypeOK, MonthMap, Files, Whole, Content
  <2> DEFINE version == raw[Prepared(b)].body
  <2>3. PICK p : p = [prepare[b] EXCEPT !.rows[Prepared(b)] = version]
    OBVIOUS
  <2> HIDE DEF version
  <2>4. /\ p \in Preparations /\ p.at = prepare[b].at /\ p.source = prepare[b].source
        /\ p.rows = [prepare[b].rows EXCEPT ![Prepared(b)] = version]
        /\ p.swapped = prepare[b].swapped
    <3>1. version \in Versions
      BY <2>2 DEF version
    <3>2. p \in Preparations
      BY <2>1, <2>3, <3>1, DecodedFacts
    <3>3. p.at = prepare[b].at /\ p.source = prepare[b].source /\ p.swapped = prepare[b].swapped
      BY <1>1, <2>3 DEF Preparations
    <3>4. p.rows = [prepare[b].rows EXCEPT ![Prepared(b)] = version]
      BY <1>1, <2>3 DEF Preparations
    <3> QED
      BY <3>2, <3>3, <3>4
  <2>5. prepare'[b] = AfterMonth(b, p)
    BY <1>1, <1>9, <2>3 DEF Decode, version
  <2>6. DOMAIN prepare[b].rows = Months
    BY <1>1 DEF Preparations, MonthMap
  <2>7. p.swapped # TRUE => p.rows[Prepared(b)] = p.source[Prepared(b)]
    BY <1>2, <2>1, <2>4, <2>6 DEF Decoding, version
  <2>8. \A m \in Months : m # Prepared(b) => p.rows[m] = prepare[b].rows[m]
    BY <2>4, <2>6
  <2>9. Decoding(b)' /\ Decoded(b)' /\ Rewritten(b)'
    BY <1>2, <2>1, <2>4, <2>5, <2>7, <2>8, AfterMonthData
  <2> QED
    BY <1>4, <1>9, <2>9 DEF Decode
<1>10. CASE WriteSplit(b)
  <2> DEFINE s == SplitsOf[b][prepare[b].at]
  <2>1. /\ prepare[b].step = "write" /\ prepare[b].at \in DOMAIN SplitsOf[b]
        /\ split'[b] = [split[b] EXCEPT ![s] = RowsOf(b, s, prepare[b].rows)]
    BY <1>10 DEF WriteSplit, TypeOK
  <2>2. /\ prepare'[b].source = prepare[b].source /\ prepare'[b].rows = prepare[b].rows
        /\ prepare'[b].swapped = prepare[b].swapped
        /\ \/ prepare'[b].step = "record" /\ prepare[b].at = Len(SplitsOf[b])
           \/ prepare'[b].step = "write" /\ prepare'[b].at = prepare[b].at + 1
    <3>1. CASE prepare[b].at = Len(SplitsOf[b])
      <4>1. prepare'[b] = [prepare[b] EXCEPT !.step = "record"]
        BY <1>1, <1>10, <3>1 DEF WriteSplit
      <4> QED
        BY <1>1, <3>1, <4>1 DEF Preparations
    <3>2. CASE prepare[b].at # Len(SplitsOf[b])
      <4>1. prepare'[b] = [prepare[b] EXCEPT !.at = prepare[b].at + 1]
        BY <1>1, <1>10, <3>2 DEF WriteSplit
      <4> QED
        BY <1>1, <2>1, <3>2, <4>1 DEF Preparations
    <3> QED
      BY <3>1, <3>2
  <2>3. Decoding(b)'
    BY <2>2 DEF Decoding
  <2>4. Decoded(b)'
    <3>1. \A i \in DOMAIN MonthsOf[b] : Behind(b, i)
      BY <2>1 DEF Behind
    <3> QED
      BY <1>2, <2>2, <3>1 DEF Decoded
  <2>5. Rewritten(b)'
    <3> SUFFICES ASSUME NEW i \in DOMAIN SplitsOf[b],
                        \/ prepare'[b].step = "record"
                        \/ prepare'[b].step = "write" /\ i < prepare'[b].at
                 PROVE  split'[b][SplitsOf[b][i]] = RowsOf(b, SplitsOf[b][i], prepare[b].rows)
      BY <2>2 DEF Rewritten, RowsOf
    <3>1. SplitsOf[b][i] \in Splits /\ DOMAIN split[b] = Splits
      BY Shapes DEF TypeOK
    <3>2. CASE SplitsOf[b][i] = s
      BY <2>1, <3>1, <3>2
    <3>3. CASE SplitsOf[b][i] # s
      <4>1. i < prepare[b].at
        <5>1. i # prepare[b].at
          BY <3>3
        <5>2. i \in Nat /\ i <= Len(SplitsOf[b]) /\ Len(SplitsOf[b]) \in Nat /\ prepare[b].at \in Nat
          BY <1>1, Shapes DEF Preparations
        <5> QED
          BY <2>2, <5>1, <5>2
      <4>2. split[b][SplitsOf[b][i]] = RowsOf(b, SplitsOf[b][i], prepare[b].rows)
        BY <1>2, <2>1, <4>1 DEF Rewritten
      <4> QED
        BY <2>1, <3>1, <3>3, <4>2
    <3> QED
      BY <3>2, <3>3
  <2> QED
    BY <1>4, <1>10, <2>3, <2>4, <2>5 DEF WriteSplit
<1>11. ASSUME prepare'[b] = NoPreparation PROVE Decoding(b)' /\ Decoded(b)' /\ Rewritten(b)'
  BY <1>5, <1>11 DEF NoPreparation
<1>12. CASE RecordDataset(b)
  <2>1. /\ prepare[b].step = "record" /\ prepare'[b] = NoPreparation
        /\ processed'[b] = [source |-> prepare[b].source, hashes |-> split[b]]
        /\ b \notin swapped' => prepare[b].swapped # TRUE
    BY <1>1, <1>12 DEF RecordDataset, TypeOK
  <2>2. Named(b)'
    <3> SUFFICES ASSUME prepare[b].swapped # TRUE, NEW m \in Requested(b), SplitOf[b][m] # None
                 PROVE  split[b][SplitOf[b][m]][m] = prepare[b].source[m]
      BY <2>1 DEF Named
    <3>1. PICK j \in DOMAIN SplitsOf[b] : SplitsOf[b][j] = SplitOf[b][m]
      BY Shapes, ArchiveAssumption
    <3>2. split[b][SplitOf[b][m]] = RowsOf(b, SplitOf[b][m], prepare[b].rows)
      BY <1>2, <2>1, <3>1 DEF Rewritten
    <3>3. split[b][SplitOf[b][m]][m] = prepare[b].rows[m]
      BY <3>2 DEF RowsOf
    <3>4. PICK i \in DOMAIN MonthsOf[b] : MonthsOf[b][i] = m
      BY DEF Requested
    <3>5. prepare[b].rows[m] = prepare[b].source[m]
      BY <1>2, <2>1, <3>4 DEF Decoded, Behind
    <3> QED
      BY <3>3, <3>5
  <2> QED
    BY <1>11, <2>1, <2>2
<1>13. CASE AbandonPrepare(b)
  <2>1. prepare'[b] = NoPreparation /\ UNCHANGED <<processed, swapped>>
    BY <1>1, <1>13 DEF AbandonPrepare
  <2> QED
    BY <1>4, <1>11, <2>1
<1> QED
  BY <1>6, <1>7, <1>8, <1>9, <1>10, <1>12, <1>13 DEF PrepareStep

LEMMA InitData == Init => DataSafe
<1> SUFFICES ASSUME Init, NEW b \in Batches
             PROVE  Decoding(b) /\ Decoded(b) /\ Rewritten(b) /\ Named(b)
  BY DEF DataSafe
<1>1. prepare[b].step = "idle"
  BY DEF Init, NoPreparation
<1>2. Decoding(b) /\ Decoded(b) /\ Rewritten(b)
  BY <1>1 DEF Decoding, Decoded, Behind, Rewritten
<1>3. Named(b)
  <2> SUFFICES ASSUME processed[b] # None, NEW m \in Requested(b), SplitOf[b][m] # None
               PROVE  processed[b].hashes[SplitOf[b][m]][m] = processed[b].source[m]
    BY DEF Named
  <2>1. processed[b] = [source |-> manifest[b], hashes |-> [s \in Splits |-> RowsOf(b, s, manifest[b])]]
    BY DEF Init
  <2>2. SplitOf[b][m] \in Splits
    BY Shapes, ArchiveAssumption
  <2> QED
    BY <2>1, <2>2 DEF RowsOf
<1> QED
  BY <1>2, <1>3

LEMMA StepData == TypeOK /\ DataSafe /\ [Next]_vars => DataSafe'
<1>1. ASSUME DataSafe, UNCHANGED <<raw, datasets>> PROVE DataSafe'
  <2> SUFFICES ASSUME NEW b \in Batches
               PROVE  Decoding(b)' /\ Decoded(b)' /\ Rewritten(b)' /\ Named(b)'
    BY DEF DataSafe
  <2>1. Decoding(b) /\ Decoded(b) /\ Rewritten(b) /\ Named(b)
    BY <1>1 DEF DataSafe
  <2> QED
    BY <1>1, <2>1 DEF Decoding, Prepared, Decoded, Behind, Rewritten, RowsOf, Named, datasets
<1>2. ASSUME DataSafe, NEW m \in Months, Republish(m) PROVE DataSafe'
  BY <1>1, <1>2 DEF Republish
<1>3. ASSUME DataSafe, NEW b \in Batches, NEW overwrite \in BOOLEAN, StartDownload(b, overwrite)
      PROVE  DataSafe'
  BY <1>1, <1>3 DEF StartDownload
<1>4. ASSUME DataSafe, UNCHANGED vars PROVE DataSafe'
  BY <1>1, <1>4 DEF vars, datasets
<1> QED
  BY <1>2, <1>3, <1>4, NextSteps, DownloadStepData, PrepareStepData

\* Splits that readers accept are the decoding of the archives of the source
\* manifest that their own manifest names, unless an archive was replaced
\* between its check and its decoding.
THEOREM SplitsAreOfSource == Spec => []SplitsFromSource
<1>1. DataSafe => SplitsFromSource
  <2> SUFFICES ASSUME DataSafe, NEW b \in Batches \ swapped, Accepted(b),
                      NEW m \in Requested(b), SplitOf[b][m] # None
               PROVE  split[b][SplitOf[b][m]][m] = processed[b].source[m]
    BY DEF SplitsFromSource
  <2>1. PICK i \in DOMAIN SplitsOf[b] : SplitsOf[b][i] = SplitOf[b][m]
    BY Shapes, ArchiveAssumption
  <2>2. split[b][SplitOf[b][m]] = processed[b].hashes[SplitOf[b][m]]
    BY <2>1 DEF Accepted
  <2> QED
    BY <2>2 DEF DataSafe, Named, Accepted
<1> QED
  BY <1>1, InitTyped, StepTyped, InitData, StepData, PTL DEF Spec

=============================================================================
