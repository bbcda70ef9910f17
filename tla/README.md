# Verification of the U.S. flight-delay MLOps system

TLA+ models of the concurrent, persistent and governed parts of this repository, the TLC
configurations that check them on small instances, and TLAPS proofs of their main properties
for every value of the constants. `PROJECT.json` lists the components, runs, mutants, the map
from definitions to source lines, the findings, the hazards and the theorems.

    tlc -config MCEventStore.cfg MCEventStore         # one run
    tlapm ServingProofs.tla                           # the proofs of one module

Contents: [inventory](#inventory), [plan](#plan), [modules](#modules), [runs](#runs),
[findings](#findings), [assumptions and fairness](#assumptions-and-fairness),
[proofs](#proofs), [what is not modelled](#what-is-not-modelled).

## Inventory

The repository trains a flight-delay classifier under pre-registered protocols, publishes it
in a W&B Registry, serves it from FastAPI replicas over one DynamoDB table and shows both
sides in two Streamlit applications. Its hard behaviour is not in the numerics but in who
writes what, when, and what is left when something stops half-way.

| Component | State | Operations | Interacts through | Hard behaviour | Makes it correct |
|---|---|---|---|---|---|
| Event store (`persistence/dynamodb.py`, `monitoring/demo.py`) | items of one table | `put_prediction`, `get_prediction`, `update_feedback`, seed, scan, delete | conditional writes | replicas, sessions and scripts interleave; boto3 re-sends; eventually consistent scans | answered predictions persist; outcomes are revised once and in order; a deleted record stays deleted |
| Prediction API (`services/api`, `serving/`) | per process: step, verified bundle, repository, cache | lifespan, `POST /predict`, shutdown | Registry alias, `MODEL#` and `PREDICTION#` items | alias moves between resolve and use, damaged downloads, dependencies down, death anywhere | only the pinned and recorded release serves; each stored answer is that release's answer |
| v0 release (`scripts/release_model.py`) | files of `release/` and of the release root, Registry aliases, shared download directory | prepare, stage, evaluate-once | files, Registry | overlapping commands, kills in a write, aliases that move | the final test opens once, for the candidate that is recorded, decided on and linked |
| v1, v2 lifecycles (`v1_execution.py`, `v2/execution.py`) | files of `artifacts/v1`, `artifacts/v2` | development, December qualification | files, the Git checkout | kills between any two of their differently ordered writes; the checkout changes | a completed development is whole; December is measured with the frozen winner by its code |
| v3 lifecycle (`modeling/v3/execution.py`, `recovery.py`) | files of `artifacts/v3` and of `recovery/<id>` | development, evidence export, termination, authorization, recovery, adoption, qualification | files and their SHA-256 chain | failures and kills between any two files; operators retry; main moves on | December is sealed until one winner is frozen, is opened at most once, for it |
| Registry promotion (`promotion/`, `scripts/promote_model.py`) | versions, aliases, decision record | list, select, precondition, link, verify, audit | Registry, policy file | runs overlap; versions appear in between; release scripts and operators link the same aliases; a run dies after the link | a promotion leaves an alias on a gate-passing version and never takes it down from one |
| Screening and selection (v0 to v3) | tables of evidence of a search | thresholds, ranking, advancement, confirmation, gates, winner | called by the lifecycles | ties, infeasible thresholds, candidates that fail, two backends | the confirmed evidence decides; the winner passed every gate and is the protocol's best |
| Source acquisition (`data/download.py`, `manifest.py`) | archives, `.part` files, source manifest | download batch, skip, overwrite | files, HTTP | failed batch, truncated stream, two runs on one `.part` path | every archive under its name is whole and is the one in the manifest |
| Preparation (`data/prepare.py`, `prepare_v3.py`) | splits, processed manifest | prepare, materialize December | files | writes one by one before the manifest | readers accept only splits of one preparation; December is absent in development |
| Features and their data access (`v2/features.py`, `v3/features.py`, `v1_data.py`, `v2/data.py`, `v3/data.py`) | historical state per month, serialized; frames with an index | read, sample, transform, fold, serialize, serve | prepared files, frozen state | boundaries of months, windows and years; unseen keys; files rewritten between two reads | a feature of a month depends only on earlier months, in serving as in training; rows keep their labels |
| Training, calibration, evaluation | none | fit, calibrate, measure | called by the lifecycles | floating point | numerics, out of scope |
| Protocol validators, contracts | none | compare with constants, validate fields | | | refuse anything else |
| Traveler UI, API client | Streamlit session | single calls, no retry | HTTP | timeouts after the API has stored | one prediction per accepted request |
| Monitor UI, monitoring reads | Streamlit session, query cache | queries, model lookup, metrics, adjudication form | index and table | pages of a changing, lagging index; a cache over them; a scan cut before its filter | a finished query misses nothing its index had; the model shown is on record |
| Load test (`load_testing/traffic.py`) | identifiers, failures, audit file | dry run, bounded sequence of predictions | HTTP | a timeout after the API has stored | the audit agrees with the table |
| Provisioning, deployment, smoke tests | manifests | plan, apply, validate | AWS, docker | I/O | fail closed |

## Plan

Order: the data that users rely on first, then who may serve, then how a model earns its place.

1. `FeedbackLedger`, `EventStore`, proofs: the table and its writers. *Done.*
2. `ApiService`, proofs: replicas, the verified load, the cache. *Done.*
3. `SealedQualification`, `V3Lifecycle`: the v3 lifecycle and the seal of December. *Done; checked and proved.*
4. `ModelPromotion`, proofs: selection and the alias. *Done.*
5. `GovernedRelease`, proofs: the v0 release and its one final test. *Done.*
6. `SourceArchive`, proofs: the downloader's attempts, `.part` file and rename, the source
   manifest, the splits and their manifest. *Done.*
7. `ExperimentLifecycle`: the v1 and v2 lifecycles as one module parameterised by the order of
   their writes, shown to implement `SealedQualification`. *Done; checked and proved.*
8. `Thresholds`, `CandidateSearch`: thresholds, ranking, gates and advancement of the five
   searches. *Done; checked and proved.*
9. `HistoricalState`, `FeaturePreparation`: the as-of features, training against serving, and the
   data access around them. *Done; checked and proved.*
10. `Monitoring`: paginated and cached queries of a lagging index, the model lookup, the load
    test's audit. *Done; checked and proved.*
11. `V3LifecycleProofs`: the safety properties and the refinement for any recoveries, sources,
    datasets and commits, one operator at a time. *Done.*
12. `FeaturePreparationProofs`, `MonitoringProofs`: the features, labels and data access for any
    prepared flights; pages, audit and model lookup for any table. *Done.*
13. `SelectionProofs`: the promotion's selection against its policy; the searches' `WinnerEarned`,
    `SearchForetellsNovember`, `ChoiceIsUnique` and `ConfirmationDecides` for any candidates, metrics and
    samples. *Done.*

Compositions and abstract specifications: `EventStore` implements `FeedbackLedger`; `V3Lifecycle`
and `ExperimentLifecycle` implement `SealedQualification`; `FeaturePreparation` is built on
`HistoricalState` and `CandidateSearch` on `Thresholds`; `Monitoring` composes the replicas, the
table and its index, the load test and the dashboard; `ApiService` takes from `GovernedRelease` and
`ModelPromotion` a Registry in which any alias may move, and from `EventStore` a table with
conditional writes.

## Modules

Each module has a comment on every variable and definition that is not self-evident;
definitions named `...Always`, `...Unread` and so on and marked *Mutant* are used by nothing:
they are the broken variants that the properties are tested with.

### FeedbackLedger and EventStore

`FeedbackLedger` is what the store promises: a prediction is recorded once, an outcome report is
replaced by the next revision, only demo records are removed. `EventStore` is the table
`flight-delay-events` and every process that writes predictions and feedback. `table` is the
table; `call` is, for a replica or a Monitor session, the request it is serving (the handlers
are coroutines without an `await` around synchronous boto3 calls, so a replica runs one at a
time); `script` is a run of `scripts/seed_demo_events.py`. One action is one DynamoDB call:
`PutPrediction` (`put_prediction`), `GetPrediction` and `ReadRevision` and `UpdateFeedback`
(`submit_feedback`, then `update_feedback` with its own read), `SeedNext`, `ScanPage`,
`DeleteNext`. The conditions of the writes are `PutAllowed`, `UpdateAllowed` and `DeleteAllowed`.
A conditional write may be applied without its sender learning of it and be sent again, which
its own first attempt then refuses. `GiveUp` and `ScriptDies` stop a process anywhere. `told`
and `confirmed` are history: what callers were answered.

### ApiService

The lifespan of each replica: `Start` reads the release decision of its image, `Load` is
`VerifiedRegistryLoader.load` (the alias is resolved once; the download is that artifact or
damaged; everything is compared with the decision), `Connect`, `Register` (the conditional
`put_model_metadata`), then `Predict` with the result cache and `PutEvent`. A failed step
leaves a process that answers 503, as in the code. Two releases may carry one version number.
`alias` moves at any time; a process stops at any time and loses its memory.

### SealedQualification and V3Lifecycle

`SealedQualification` says: a winner is frozen once, December is opened at most once, after that
and for it. `V3Lifecycle` models one worktree. `disk` maps each path of `artifacts/v3` (and of
each recovery directory) to its content, where equal contents stand for equal SHA-256. A command
(`process`) is the list of files and steps it still has to do; `Check` and `Replace` are the two
halves of `_atomic_bytes` (test for absence, then `os.replace`), `Finish` is `update_marker`,
`Fail` the `except` branches that record a failure in the marker, `Crash` a kill that records
nothing. `Develop`, `Screening`, `November`, `Export`, `Terminate`, `Authorize`, `Recover`,
`Adopt` and `Qualify` are the commands with their guards; `Merge` moves `head`, `CopyMarker`
brings the source's marker to another worktree. `openings` is history.

### ModelPromotion

`registry` holds immutable candidates with their ranking values and whether they pass every
gate; `attempt` is one run of `scripts/promote_model.py`. `ListCandidates`, `Select`,
`CheckAlias`, `Link`, `Verify` and `Audit` are its Registry calls and writes, `Fail` an
exception or a dead runner, `Publish` a version that appears meanwhile. `Before` is the
comparator of `selector.py` (policy rules in order, then the incumbent, then the least id).
Promotion is not alone: `release_model.py` links `staging` before any gate (`:169`) and `production`
under its own (`:322`) in the same collection, and operators link what they like. `MoveAlias` is all of
these: any alias, to any published version, at any moment, also before the first run. An incumbent
need therefore not pass the policy's gates. `outside` is history (which aliases were last linked that
way): `PromotedEligible` is about the others, and `MovesUp` about the version a link replaces, whoever
put it there.

### GovernedRelease

One worktree of the v0 release. `disk` holds the lock, marker, result and decision of `release/`
and the bundle and evidence of the (git-ignored) release root; a file may be `Torn` by a killed
write, since `write_json` writes in place. `committed` stands for `require_clean_worktree`, which
refuses the next command until the operator commits. A Registry version is its files.
`evaluate-once` is `Download`, `Guard`, `Mark` (`O_CREAT | O_EXCL`), `Open`, `Measure`,
`WriteResult`, `Complete`, `LinkProduction`, `VerifyProduction`, `Decide`. The directory it
downloads into is shared by all evaluations (`download`), and `overlapped` records whether a
second evaluation replaced it while it was in use.

### SourceArchive

How archives become data sets. Each batch (v0, v3) has a source manifest, splits and a processed
manifest of its own, while the archives of all batches lie in one raw directory and batches share
months. `raw` and `part` are the files of a month under its final and its `.part` name; a file knows
who has it open, so that a download can be left writing to a file that another one has unlinked,
truncated or renamed. `download` is `download_archives`: `BeginMonth` (the left-over `.part` goes;
an archive that exists is kept, refused or overwritten), `Respond` and `Receive` (the stream, whole
or short), `Inspect` (`inspect_zip`), `Publish` (`os.replace`; the record is of the streamed bytes),
`Transient` and `Permanent` (which errors are tried again), `Finish` (the manifest, if no month
failed). `prepare` is `prepare_dataset` or, for a batch in `Surveyed`, `prepare_v3_dataset`: `Check`
(the checksum), `Decode` (the archive opened again, by its name), `WriteSplit` one after the other,
`RecordDataset`. `prepare_v3_dataset` can decode months in parallel worker processes and returns
them in order; here they are decoded in that order. One download and one preparation of a batch at a
time are assumed, as operators start them. `contested` (months that two downloads had at once) and
`swapped` (data sets prepared while a download replaced an archive between its check and its
decoding) are history: the code guards against neither, and the properties show that nothing else
breaks them.

### ExperimentLifecycle

One worktree of v1 or of v2 (`experiment`) and its `checkout`, which changes at any time. `disk` maps
each published path to its content, which stands for its SHA-256; `process` is a command with the
steps it still has to do, as in `V3Lifecycle`. `Develop` and `Qualify` carry the guards of
`run_development_apply` and `run_december_apply` (`Committed` is `require_applied_git_state`,
`Preflight` the isolation and production checks, `Handoff` is `validate_december_handoff`);
`Outcome` and `Evidence` give the two orders of writes; `Check` and `Replace` are the two halves of
`_atomic_json`, `Finish` and `Fail` are `update_marker`, `Crash` is a kill. `Refused` is the one test
that differs: v1 looks for model and lock before it dumps the model, and writes the model without a
second test, so that two overlapping developments can leave a lock that names the other's model.
`contested` (commands that two operators had in progress at once) and `openings` are history,
and the properties are about commands that did not overlap: no code keeps two apart.

### Thresholds and CandidateSearch

`Thresholds` has the threshold searches: the selection's and the remediation's over
`precision_recall_curve`, v1's single sweep over sorted scores (`SelectV1Threshold`, which v2 and v3
use in November too) and the search metric of v2 and v3 (`SearchOperatingPoint`). `CandidateSearch` is
the five searches: `RunCandidate` and `FailCandidate` fit one candidate over its folds, `EndTuning`,
`EndBaseSearch`, `EndRolling`, `EndScreening` and `EndConfirmation` rank and advance, `OpenNovember`
reads the selection partition, `RunFinalCandidate`, `RunFinalist`, `RunV1Finalist`, `RunV2Finalist` and
`RunV3Finalist` measure one finalist, `Decide` chooses, `Abort` is an exception that nothing catches.
Only the remediation goes on after a candidate that failed. Ratios are exact, held in parts of `Unit`,
which every denominator of a sample divides (2520 in the run, for samples of five), where the
code compares floats that it does not round; a fold's evidence is one level, the metrics behind the folds another one, and
`quality` folds the gates on probabilities, latency, size and governance. The governed F1 limit (0.38)
and v0's (0.41) share `Limits.f1`, and the limits of the instance are scaled to samples of five.
`max_precision_at_operating_recall` of a November finalist is, in v2 and v3, the precision at the
threshold chosen for F1. A sort is the function that puts each row at the place given by how many rows
have a lesser key (`RankedBy`, and `Sorted` for the stable sort of the scores), and a sum is a
recursive function: both can be reasoned about, and TLC evaluates both.

### HistoricalState and FeaturePreparation

`HistoricalState` is v2's propensity state and v3's seasonal layer: `BuildHistoricalState` and
`BuildV3HistoricalState` count labels up to a cutoff, `TransformOne` and `TransformOneV3` serve one
flight, `TransformWithState` and `TransformWithV3State` a batch, `ToBytes...` and `FromBytes...` are
the artifact. A rate is the pair of its numerator and denominator. `FeaturePreparation` is the
governed data access of v1, v2 and v3: `CheckFile` (canonical path, size, digest where it is
compared) and, the file being opened a second time, `ReadHistory` and `ReadNovember` (schema, dates,
rows); `PrepareDevelopmentData` (the sample, the monthly transformation, the refit, the halves of
November, the state of October 31), `FoldFrames`, `Materialize`, and `LoadDecemberFeatures` after a
check of its own. `Rewrite` is a preparation that replaces a split and is killed before its
manifest, or that is run again and restores it; it happens any number of times and at any moment,
between a check and its read too. `replaced` is history: the periods whose file changed in that
window, which no code closes. A read sees one file, the one it opened, and the manifest, which is
tracked, does not change. Every row has the index of its frame, and labels are joined by it, as in
the code. What the code leaves unchecked is left unchecked: v2 and v3 compare November's file by its
size only; the state of a single flight is not asked for its cutoff (v3 asks for its year);
`from_bytes` compares neither the trailing months nor the ledger with the tables. December is scored
with a state that is one month older than training rows see.

### Monitoring

The load test and the dashboard over the table and its index. `Accept` and `Serve` are
`POST /predict` of any replica (stored and answered, stored and given up on, failed with or without an
`ERROR#` item), `Report` is a client's feedback, `Propagate` the index that follows item by item.
`traffic` is `run_monitoring_traffic` with `Received`, `Refused` (every `ApiClientError`, whatever the
replica does with the request), `WriteAudit` and `Abandon`. `Open`, `ReadPage` and `QueryFails` are
`cached_query` and the pages of `query_predictions`, `Render` the script run with its model lookup,
`Adjudicate` the form. A query in flight may put rows it read before an adjudication back into the
cache, where they stay until the TTL; "Active model" under "All" is the last version in the order of
strings ("v9" after "v10"). `since` and `due` are history: the index a query began with, the model that
an empty window has to show. Two requests and one session are enough for pages, late stores, a cache
that is cleared under a query and a scan that is cut.

## Runs

| Run | Instance | Shows |
|---|---|---|
| `store` | a replica, a session and a demo script on a real and a demo record, 2 revisions | `NoPartialItem`, `ConfirmedIsKept`, `ConfirmationsAdvance`, `LatestConfirmedSurvives`: the optimistic revision makes the two reads and the write of a feedback one step to its readers, also when answers are lost and requests re-sent; and every step implements the ledger (`ImplementsLedger`) although records are deleted and seeded anew under a caller |
| `api_serving` | two replicas, three releases of which two share a version, caches of one entry, two flights on two days | `ReadyIsVerified`, `EventsAttributable`, `AnswersAreTheModels` |
| `v3_lifecycle` | one operator, the source run here or elsewhere, two recoveries, two datasets, commits 1 to 3 | `CompletedIsWhole`, `OpenedAsFrozen`, `AdoptionFaithful`, `RecoveryVouched`, `OutputsImmutable` and the seal (`ImplementsSeal`), in the source's own worktree and in a fresh one, while main moves |
| `promotion` | two runs, pinned or not, three versions, a score and a loss of two values each | `PromotedEligible`, `SelectionIsPolicy`, `MovesUp`, with the alias linked from outside at any moment |
| `release` | two operators, two candidates, six commands | `FinalTestOnce`, `CompleteIsRecorded`, `LockedIsMeasured`, `ProductionEarned` |
| `source_archive` | two batches that share a month, of which the second surveys first and has a sealed month; the first one's data set is there; two downloads, one preparation, two attempts, the shared month published anew | `ArchivesWhole`, `RecordsTrue`, `SplitsFromSource`, and that every download ends (`DownloadEnds`) |
| `experiment_lifecycle` | two operators in a worktree of v1 or v2, two commits of main, a branch, a dirty tree | `CompletedIsWhole`, `MeasuresTheFrozen`, `CandidateEarned` and the seal (`ImplementsSeal`) |
| `candidate_search` | 2 to 5 candidates, three results of which the means and worst folds disagree, all scorings of five flights with three scores | `SearchForetellsNovember` (v1's sweep and v2's search agree on which samples have a threshold), `ChoiceIsUnique` (no tie is left to the last keys), `ConfirmationDecides`, `WinnerEarned` |
| `feature_preparation` | two years of a flight a month, complete with one of seven edge flights, or with all or none of them and any of four gaps; three generations; files rewritten and restored at any point | `NoLookAhead` (against a reference definition of what may be known), `ServingParity`, `RowsKeepTheirLabels`, `DescribedData` |
| `monitoring` | a traffic run of two requests, two versions, one session, pages of one item, a window of two days, a scan of two items | `QueriesAreComplete`, `AuditIsTrue`, `ActiveModelIsOnRecord` |
| `v3_race`, `monitor_outage` | the smallest instance that has the case; that of `monitoring` | the two [findings](#findings) |

Bounds. `MaxRevision` is 2, one more than a record seeded with its outcome starts with, so that a
first and a competing report exist. The demo record of `store` is seeded with its outcome; records
that are seeded without one, in whose place an update of an earlier record is accepted (see
[findings](#findings)), are covered by the proofs, which are for any `DemoAnswer`. One prediction
key is enough because no action relates two keys; the instance has one of each kind because its
actions differ by kind. The cache holds one entry so that it evicts; two releases share a version so
that `MODEL#` can be contested. Three versions are the least where a selection has a middle, and two
values on two rules give ties on either. Six release commands are prepare and stage for two
candidates and two evaluations. `LastCommit` 3 has a commit before, at and after the corrective one.
`SourceArchive` begins with the data set of v0 on disk (`Built`) and nothing of v3, so that two
downloads and one preparation reach new splits beside old ones, archives without a record,
overlapping downloads of one month with a preparation after them, and an archive that is replaced
while it is decoded. Replicas, promoters, operators, scripts and recoveries are interchangeable
where `SYMMETRY` says so; every property checked with it is a safety property. Two operators are
what a race takes. Three results order two folds differently by mean and by worst fold and tie in a
third way; samples of five flights have every pattern of ties at and around a threshold. In
`feature_preparation` a month that is crowded by one row more than the cap is sampled, seven flights
lie on the ends of a month, of a half of November and of the years, and files are rewritten and
restored without limit, though of the splits still to be read one at a time is not as described (a
second one that is not described could only be refused or consumed by itself), and a split that will
not be read again stays as it is. In `promotion`, a run that has only its record left to write is
the same to TLC whatever it will write (`VIEW`): nothing reads it. `CHECK_DEADLOCK FALSE` is said
where the system really stops: `V3Lifecycle` and `ExperimentLifecycle`, where once every output
exists and is refused the worktree has nothing left to do; `SourceArchive`, once the commands that
the bound allows have ended; a search at its decision; a preparation at its December or its refusal;
`Monitoring`, when the table and reports are at their bounds.

Every property of a passing run has a mutant in `PROJECT.json`: a plausible slip in one mapped
definition (a dropped condition, a swapped order, an off-by-one) with which TLC finds the
property violated on the same instance.

## Findings

1. `v3_race`. "Open December exactly once" is implemented by testing that the marker is absent and
   then `os.replace`: two qualifications that both pass the test both open it. (`release_model.py`
   uses `O_EXCL` and has no such window; v1 and v2 have it.)
2. `monitor_outage`. The dashboard "reports operational volume/status", but in a window where every
   prediction failed no item has a `model_version`, the frame has no such column and
   `services/monitor_ui/app.py:119` raises before anything is shown.

Met while modelling, without a run of their own. The table and the Registry: a `put` or update whose
first attempt was applied and whose answer was lost is re-sent by boto3, fails its own condition and
is reported as a rejected conflict (`dynamodb.py:104` against `:22`); an update that read revision *n*
of a demo record that is then cleaned up and seeded again is accepted, because the new record has no
`feedback_revision` (`dynamodb.py:187`); a promotion that moved the alias and then fails writes no
decision record, though "each attempt writes" one (`wandb_registry.py:184`,
`docs/model-promotion.md:50-51`); the alias precondition is checked two calls before the unconditional
link, so that a change in between is overwritten (`wandb_registry.py:176`,
`docs/model-promotion.md:22`); `release_model.py` links the same aliases under gates of its own (none
for `staging`, and a bundle of under 10 * 1024 * 1024 bytes where the policy allows 10,000,000), so that
an alias may name a version that fails the policy's gates, and a promotion then replaces it by the best
eligible one, though that may rank below it. The searches: the remediation's `except RuntimeError` records any such
error, of the tracker too, as a failed convergence, also after the row was set to completed. The
Monitor: `pd.cut` on a window without successes also raises; a demo version has no `MODEL#` record;
`jensen_shannon_divergence` counts an unseen category on both sides. The User UI keeps showing the
previous prediction when a new one fails, beside the new request's route. A traffic run that meets
anything but an `ApiClientError` ends without an audit.

The release and the data: two overlapping evaluations of the v0 release
exchange the staging download between its verification and its use, so that
`LockedIsMeasured` and the identity in `DecisionTrue` hold only while that does not happen
(`~overlapped`); the decision `evaluate-once` writes lacks fields that `ReleaseDecision.load`
requires. A preparation compares an archive's checksum and then opens the file again to decode it
(`prepare.py:341-352`), the readers do the same with a prepared file (`v2/data.py:89` and `:91`,
`v1_data.py:104` and `:129`, `v3/data.py:110` and `:112`), and two downloads of one month share its `.part` file
(`download.py:273`): `SplitsFromSource`, `DescribedData` and `ArchivesWhole` say what holds without these.
`data/README.md:51-52` tells that the downloader skipped the 2025 archives of v3 on the strength of
their existing record, but records are looked up only in the batch's own manifest
(`download.py:401`), so that a new batch over archives of another one fails with a conflict.
`scripts/prepare_v3_data.py:32-36` passes `december_authorization=` to `prepare_v3_dataset`, which
has no such parameter: the documented `make prepare-v3-data` stops with a `TypeError`; the function
itself, which the model is of, is called by the tests.

## Assumptions and fairness

Only `SourceArchive` states fairness: weak fairness of the steps of each download
(`DownloadStep(b)`). A download that is not killed is a sequential loop in one process whose only
blocking calls, the request and the reads of its (finite) stream, have timeouts (`download.py:261`),
and which tries a month at most `max_attempts` times with finite pauses; a step of it is always
enabled while it runs. Being killed needs no fairness, since it ends the download too. Fairness of
one of its steps in particular (that a request succeeds) is not assumed.

The other specifications state none, and no liveness is claimed of them: every process there is a
request, a command or a workflow run that a person or a caller starts, that may fail at every call
and be killed at any moment, and that nothing in the code restarts or resumes. A response, a
release or a qualification is therefore never guaranteed; what is checked is that whatever does
happen is right.

The models assume: DynamoDB evaluates a condition and applies the write atomically per item, and
`get_item` with `ConsistentRead` sees every applied write; a W&B version is immutable and is its
files; SHA-256 has no collisions; `os.replace` and `O_CREAT | O_EXCL` are atomic; operators commit
what `release/` holds and do not delete or edit files of it by hand; the policy file, the Git
ancestry of the locked commit and the dataset lineage do not change during a release.

The named assumptions of the modules (`StoreAssumption`, `ServiceAssumption`, `LifecycleAssumption`,
`PromotionAssumption`, `ReleaseAssumption`, `ArchiveAssumption`, `ExperimentAssumption`,
`LimitsAssumption`, `SearchAssumption`, `StateAssumption`, `PreparationAssumption`,
`MonitoringAssumption`) say only that the constants have
their shapes (the labels of a sample are 0 and 1 and its scores percents, as many of each; a protocol
asks for some precision, has two CatBoost candidates in v1 and as many of each family as are fitted
again in v2 and v3, as the three protocol files do, and for some recall, as v0's search does too;
the unit of ratios is a multiple of every denominator a sample can produce;
a batch and its splits are not empty sequences, the rows of a month go to a split of
its batch, prepared flights are finitely many and have days of the two years and a label, a trailing
window is at most a year), that bounds are naturals and that sentinels (`None`, `Torn`, `Absent`,
`Refused`) are not values.

## Proofs

All proofs are for any number of processes, records, versions and candidates, and any bound (those of
`V3Lifecycle` for one operator).

- `ServingProofs`, of the table and of the replicas that serve from it (it extends both modules). Of
  the table: `TypeCorrect`; the inductive invariant `StoreSafe` (parts by item: what is stored,
  confirmed and told of one key) gives `VerdictsAlwaysAgree`, `ConfirmationsAlwaysAdvance`,
  `ConfirmedNeverLost` (an outcome), `ConfirmedPersists` (a prediction) and `NeverPartial`. The
  properties alone are not inductive: a call two steps before its write must already know the answer
  it judges and a revision its record has reached, which is `CallsKnow`. `StoreImplementsLedger`
  shows each step to be one operation of the ledger on one item, or none. Of the replicas:
  `ServiceTyped`; the invariant follows a process through its lifespan: what is loaded is the
  decision's, what is connected is loaded, what serves is recorded. It gives `ServesVerified`,
  `EventsTraceable` (records under `MODEL#` never change identity), `AnswersSafe` and `CachesSafe`.
- `SelectionProofs`, of the two places where a model is chosen (it extends both modules). Of the
  Registry promotion: `PromotionTyped`; `Inv` with `Sound(r)` per run (a selection passed the
  gates when it was listed, and versions are immutable) gives `PromotionsEligible`; `Leads` (the
  selection precedes every eligible version of the list, which versions published later do not change:
  `PublishLeads`) gives `MovesAreUp`, whatever the alias names when it is linked. `SelectionUnique` shows that at most one version heads the sorted list, and
  `SelectionFollowsPolicy` that it is the one the policy describes and that a list that is not empty
  has it: each rule keeps the best of what the rules before it left, by induction on the rules (a
  least counterexample, with well-foundedness of the naturals), over lists that `Finite` keeps finite.

  Of the candidate searches: `NumberedIs` and `RankedIs` show that placing rows by rank is sorting
  them, whenever the keys are tuples of integers of one length that no two rows share (`RankIs`:
  every key ends in the identity). `SortedIs` and `CumulativeIs` show that the sweep's count at the
  end of a group of equal scores is the count of rows at or above that score, so that
  `SweepIsCurve`: November's single pass and the search's count per threshold produce the same rows.
  `SearchForetells` follows, the rest being arithmetic: a precision that is enough is a true
  positive, and the best key is on no side worse. `ChoicesUnique` rests on `RatioExact` (with the
  unit a multiple of the denominator, no ratio is rounded), `FlagsMore` (a lower threshold of a
  sample flags more flights) and `MeasuresTell` (of two rows that share the number of late flights
  and agree on two of precision, recall and F1, both flag equally many): so rows that reach the
  recall asked for, which is positive, never tie. The inductive invariant of the search is
  `SearchInv`. Its core is `Scheduled`: what was fitted, followed by what is queued, lists distinct
  identities, of each family at least as many as the end of the stage counts on. Without it
  `ConfirmationDecides` could not be shown to survive `EndConfirmation`, since "the first two of the
  family" says nothing of a stage that might have fitted one; with it a family is known to have
  enough (`Filled`, `WholeFamily`) when a stage ends, and `ConfirmedDecide` reads the property off
  the ranking's first key. The invariant also says that only the remediation has evidence that
  failed, and that a finalist that passed has a threshold and good quality (`Rated`), which
  `WinnerIs` turns into `Earned(winner)` at the decision: among finitely many keys one is least
  (`LeastKey`). They give `RefitIsConfirmed` and `WinnersEarned`.
- `GovernedReleaseProofs`. `ReleaseTyped`, then `Safe`: `Claimed` (past the marker there is one
  command, and the marker stays) and `Sound(p)` (what the files and the history say of a command
  at each step: the test was opened for its lock; the started, then the completed marker and the
  result are its own; its download is what it verified unless another evaluation replaced it).
  `FinalTestOnce` alone is not inductive, since nothing in it says that two commands cannot both
  be about to open. It gives `TestOpenedOnce`, `CompletionRecorded`, `DecisionRepeatsVerdict`,
  `MeasuredIsLocked` and the action property `ProductionIsEarned`.

- `SourceArchiveProofs`. `ArchiveTyped`; then two invariants that hardly meet. `ArchiveSafe` is
  about the months that are not contested: one download has the month (`Owned`), nobody writes to
  the archive (`Settled`) and only the download that is streaming has the `.part` file open
  (`Streamed`); each download knows what its `.part` file is (`Fetching`), finds what it recorded on
  disk (`Kept`) and has recorded what it left behind (`Handled`). `StepsAreLocal` and `Locality`
  reduce each step to the month in hand. They give `WholeArchives` and the action properties
  `TrueRecords` and `KeptArchives`. `DataSafe` follows a data set from what is about to be decoded
  (`Decoding`) through what was decoded (`Decoded`), written (`Rewritten`) and recorded (`Named`),
  and gives `SplitsAreOfSource`; it needs nothing of the downloads but that they never remove an
  archive (`ArchivesStay`).

- `ExperimentLifecycleProofs`. The tables `DevelopOne`, `DevelopTwo` and `QualifyStep` list where a
  command can be: its verdict, the writes it has left and the outputs still missing. `Shape` says that
  a command is always at a line of its table; `Developing` and `Qualifying` add, for a command that was
  never contested, that the disk is at the same line and that what is there, and what is about to be
  renamed into place, is the command's own. `HoldsTheLock` (a qualification in progress has the lock
  that is on disk) is why opening the model a second time cannot measure another one: while a winner
  is `Frozen` no development is in progress. `CompletedIsWhole` and `CandidateEarned` alone are not
  inductive: a marker says that a run completed, not what the run has left to do. The frame lemmas
  (`DevelopmentFrame`, `QualificationFrame`) separate the two halves, so that each step is proved for
  the half it touches. The invariant gives `Completion`, `Measurement`, `Candidacy` and, with
  `FreezeStep`, `OpenStep` and two stuttering lemmas, `Sealed`: the refinement of
  `SealedQualification`.

- `V3LifecycleProofs`, for one operator at a time (`OneOperator`): two commands that overlap are out of
  it, and `v3_race` shows that `OneDecember` then fails. The invariant is told of a disk and a command,
  so that the lemmas compare two disks and the steps only say which file is written. `CampaignStep`,
  `AdoptStep` and `QualifyStep` list where a command can be; `Holding` says that what is about to be
  renamed into place has no file there yet, which is why a rename overwrites nothing. `Kept` is what
  the disk alone promises: `Whole` (a completed campaign left its files), `Faithful` (an adoption is of
  a completed recovery whose files are the canonical ones), `Chained` (the records behind a recovery)
  and `TrueLock`. `WriteKeeps` shows it for any new file that is `Sound`, `EndKeeps` for a marker that
  comes to its end; each command then only has to show that what it writes is sound. None of
  `CompletedIsWhole`, `AdoptionFaithful` or `OpenedAsFrozen` is inductive: they say nothing of what a
  command has still to write. The invariant gives `Completion`, `Adoption`, `Chain`, `Opening`, the
  action property `Immutability` and, since a settled winner's marker, adoption and lock are present
  and no longer change (`FrozenStays`), the refinement `Sealed`.

- `MonitoringProofs`. `InOrderIs` shows that the numbering of an index is one (each item has its
  rank, by cardinalities), and `PageIs` that a page is the next items after its key. The invariant is
  `Typed`; `Stored` (a 200 has a stored success; stamps tell requests apart; the index has nothing the
  table has not); `Accounted` (what the traffic run has counted at each of its steps); `Queried` (a
  query in progress has what its index had up to its key, and a cached one all of it: `Partial`,
  `Whole`); and what the script run has been given as a model. It gives `QueriesComplete`, `AuditTrue`
  and `ActiveOnRecord`. `QueriesAreComplete` alone says nothing of a query half-way, and needs that the
  index only grows and gets newer under it (`Keeps`).

- `FeaturePreparationProofs`, with the lemmas about `HistoricalState`. The invariant says that a frame
  has each flight once, under an index of its own (`Frames`; `ReindexedIs` shows reindexing to be a
  bijection); that each row of each matrix has its own label and the features given by the state of its
  month (`Matrixes`), so that a join by index, a concatenation or a sample cannot exchange rows; that
  the artifact is the state of October 31 (`Carried`); and what was read from which bytes (`Traced`:
  a period that is checked and not `replaced` still has the file that was checked, `CheckStep` and
  `DescribedRead`, which gives `LearntFromDescribed`).
  `BatchIsServing` shows for any state that the batch transformer gives a row what the serving one
  gives it, `StateReadBack` and `V3StateReadBack` that a serialized state is read back as it was: with
  the invariant, `ServingAgrees`. For `NoFutureSeen`, `CountsAre` and `Counted` say what a table
  counts, `LabelsAre` that the rows of a state are those of the months before, `SeasonIs` that those of
  the same calendar month among them are of earlier years, by arithmetic on dates. `NoLookAhead` and
  `ServingParity` are not inductive, since they speak of finished matrices only.

Only model-checked: the overlap of two operators' commands in `V3Lifecycle`; the liveness property
`DownloadEnds`, which needs fairness and ENABLED; and the violations. Where a proof needs induction
over data it descends to a least counterexample instead, with the library's theorems on
well-foundedness, which are stated without an operator parameter.

## What is not modelled

`PROJECT.json` gives each component a status and the reason. In short: numerics and library calls
(training, calibration, evaluation, model construction, drift and latency metrics) are a candidate, a
verdict or left out; stateless validators (protocols, manifests, contracts) are their accepted values;
tracking calls whose answers are not read are steps that may fail; shell scripts, docker and AWS calls
of the deployment are I/O; the pandas side of a preparation (eligibility, cleaning, the reliability
aggregate) is which archives its rows come from; the calendar and schedule features are pure functions
of one flight. In the modelled parts the following is left out: the wording of messages and logs,
latencies and time-to-live durations (any cache entry may expire at any time), the conversion to and
from `Decimal`, the filters and charts of the dashboard, display-only fields of items and records, and
the error items' content beyond that they have no model version.
