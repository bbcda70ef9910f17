----------------------------- MODULE ApiService -----------------------------
(***************************************************************************)
(* The replicas of the prediction API (services/api): their lifespan - the *)
(* verified Registry load, the DynamoDB connection, the conditional record *)
(* of the model's identity - and POST /predict with its result cache.      *)
(* Every replica's image carries its own release decision; the Registry    *)
(* alias may move, a download may be damaged, a dependency may fail and a  *)
(* process may die between any two calls.                                  *)
(***************************************************************************)
EXTENDS Naturals, FiniteSets

CONSTANTS
  Servers,       \* API processes
  Releases,      \* immutable Registry artifacts
  Version,       \* release -> its registry_version; two collections may share one
  Flights, Days, \* a request is about a flight on a day
  EventIds,      \* uuid4 identifiers
  CacheSize,     \* PREDICTION_CACHE_MAXSIZE
  None           \* Python's None, a missing item, a damaged download

Versions == {Version[release] : release \in Releases}
Requests == [flight : Flights, day : Days]
Answers  == [release : Releases, request : Requests]

\* The item of a prediction.
Event == [release : Releases, request : Requests, answer : Answers, hit : BOOLEAN]

ASSUME ServiceAssumption ==
  /\ Version \in [Releases -> Versions]
  /\ CacheSize \in Nat \ {0}
  /\ None \notin Releases \union Answers \union EventIds \union Event

VARIABLES
  alias,     \* the release the serving alias names
  replica,   \* replica -> its process
  models,    \* version -> the release recorded under MODEL#<version>, or None
  events,    \* identifier -> the item PREDICTION#<identifier>, or None
  errors     \* the identifiers with an item ERROR#<identifier>

serviceVars == <<alias, replica, models, events, errors>>

\* runtime.predict is a function of the verified bundle and the request.
Answer(release, request) == [release |-> release, request |-> request]

\* The SHA-256 of the whole payload: one key per request.
CacheKey(request) == request

Keys == {CacheKey(request) : request \in Requests}

\* A process: its step, the release its decision names, the bundle it verified,
\* whether it has a repository, its cache, and the event it is about to put.
Process == [pc : {"down", "load", "connect", "register", "up", "put"},
            pinned : Releases \union {None}, runtime : Releases \union {None},
            repository : BOOLEAN, cache : [Keys -> Answers \union {None}],
            id : EventIds \union {None}, event : Event \union {None}]

EmptyCache == [key \in Keys |-> None]

Down == [pc |-> "down", pinned |-> None, runtime |-> None, repository |-> FALSE,
         cache |-> EmptyCache, id |-> None, event |-> None]

\* ApplicationState.ready
Ready(r) == /\ replica[r].pc = "up"
            /\ replica[r].runtime # None
            /\ replica[r].repository

ServiceInit ==
  /\ alias \in Releases
  /\ replica = [r \in Servers |-> Down]
  /\ models = [v \in Versions |-> None]
  /\ events = [id \in EventIds |-> None]
  /\ errors = {}

-----------------------------------------------------------------------------
(* lifespan *)

Start(r) ==
  /\ replica[r].pc = "down"
  /\ \E pinned \in Releases :
       replica' = [replica EXCEPT ![r] = [Down EXCEPT !.pc = "load", !.pinned = pinned]]
  /\ UNCHANGED <<alias, models, events, errors>>

\* Mutant: only the alias's version is compared with the decision's.
VerifiedByVersion(pinned, bytes) == bytes # None /\ Version[bytes] = Version[pinned]

\* Version, digests, lock and file hashes all are those of the decision.
Verified(pinned, bytes) == bytes = pinned

\* VerifiedRegistryLoader.load resolves the alias once; what it downloads is
\* that artifact or damaged.  A failure is recorded and the start goes on.
Load(r) ==
  /\ replica[r].pc = "load"
  /\ \E bytes \in {alias, None} :
       \/ /\ Verified(replica[r].pinned, bytes)
          /\ replica' = [replica EXCEPT ![r].pc = "connect", ![r].runtime = bytes]
       \/ /\ ~Verified(replica[r].pinned, bytes)
          /\ replica' = [replica EXCEPT ![r].pc = "connect"]
  /\ UNCHANGED <<alias, models, events, errors>>

Connect(r) ==
  /\ replica[r].pc = "connect"
  /\ \E connected \in BOOLEAN :
       replica' = [replica EXCEPT
         ![r].repository = connected,
         ![r].pc = IF connected /\ replica[r].runtime # None THEN "register" ELSE "up"]
  /\ UNCHANGED <<alias, models, events, errors>>

\* Mutant: an unconditional update.
RegisterAllowedAlways(release) == release \in Releases

\* attribute_not_exists(pk) OR the recorded identity is this one
RegisterAllowed(release) == models[Version[release]] \in {None, release}

\* Mutant: the failure is recorded but the repository kept.
RegisterFailedKept(r) == [replica EXCEPT ![r].pc = "up"]

RegisterFailed(r) == [replica EXCEPT ![r].pc = "up", ![r].repository = FALSE]

\* put_model_metadata under the identity of the decision: recorded and
\* answered, recorded and given up on, or refused.
Register(r) ==
  /\ replica[r].pc = "register"
  /\ LET release == replica[r].pinned IN
     \/ /\ RegisterAllowed(release)
        /\ models' = [models EXCEPT ![Version[release]] = release]
        /\ \/ replica' = [replica EXCEPT ![r].pc = "up"]
           \/ replica' = RegisterFailed(r)
     \/ /\ replica' = RegisterFailed(r)   \* conflict or DynamoDB error
        /\ UNCHANGED models
  /\ UNCHANGED <<alias, events, errors>>

\* Shutdown and death leave the same: nothing of the process.
Stop(r) ==
  /\ replica[r].pc # "down"
  /\ replica' = [replica EXCEPT ![r] = Down]
  /\ UNCHANGED <<alias, models, events, errors>>

\* A promotion outside this module moves the alias.
MoveAlias ==
  /\ \E release \in Releases : alias' = release
  /\ UNCHANGED <<replica, models, events, errors>>

-----------------------------------------------------------------------------
(* POST /predict *)

Cached(cache) == {key \in Keys : cache[key] # None}

\* The TTL may expire any entry at any time; a put beyond CacheSize evicts.
Survivors(cache) ==
  {[key \in Keys |-> IF key \in kept THEN cache[key] ELSE None] : kept \in SUBSET Cached(cache)}

\* The record carries the release of the decision and the verified bundle's answer.
Recorded(r, request, answer, hit) ==
  [release |-> replica[r].pinned, request |-> request, answer |-> answer, hit |-> hit]

PredictHit(r, request, id) ==
  LET answer == replica[r].cache[CacheKey(request)] IN
  /\ answer # None
  /\ replica' = [replica EXCEPT ![r].pc = "put", ![r].id = id,
                                ![r].event = Recorded(r, request, answer, TRUE)]
  /\ UNCHANGED errors

\* The result is cached before it is persisted.
PredictMiss(r, request, id) ==
  LET answer == Answer(replica[r].runtime, request) IN
  /\ \E rest \in Survivors(replica[r].cache) :
       /\ rest[CacheKey(request)] = None
       /\ Cardinality(Cached(rest)) < CacheSize
       /\ replica' = [replica EXCEPT ![r].pc = "put", ![r].id = id,
                                     ![r].cache = [rest EXCEPT ![CacheKey(request)] = answer],
                                     ![r].event = Recorded(r, request, answer, FALSE)]
  /\ UNCHANGED errors

\* Inference fails: put_error is best effort, the answer is 503.
PredictError(r, id) ==
  /\ errors' \in {errors, errors \union {id}}
  /\ UNCHANGED replica

Predict(r) ==
  /\ Ready(r)
  /\ \E request \in Requests, id \in EventIds :
       \/ PredictHit(r, request, id)
       \/ PredictMiss(r, request, id)
       \/ PredictError(r, id)
  /\ UNCHANGED <<alias, models, events>>

\* put_prediction: applied and answered or not, or refused (collision, error).
PutEvent(r) ==
  /\ replica[r].pc = "put"
  /\ replica' = [replica EXCEPT ![r].pc = "up", ![r].id = None, ![r].event = None]
  /\ \/ /\ events[replica[r].id] = None
        /\ events' = [events EXCEPT ![replica[r].id] = replica[r].event]
     \/ UNCHANGED events
  /\ UNCHANGED <<alias, models, errors>>

ServiceNext ==
  \/ \E r \in Servers : \/ Start(r) \/ Load(r) \/ Connect(r) \/ Register(r) \/ Stop(r)
                         \/ Predict(r) \/ PutEvent(r)
  \/ MoveAlias

ServiceSpec == ServiceInit /\ [][ServiceNext]_serviceVars

-----------------------------------------------------------------------------
(* Properties *)

ServiceTypeOK ==
  /\ alias \in Releases
  /\ replica \in [Servers -> Process]
  /\ models \in [Versions -> Releases \union {None}]
  /\ events \in [EventIds -> Event \union {None}]
  /\ errors \in SUBSET EventIds

\* A replica that answers requests runs the bundle its decision names, and that
\* release is on record under its version: neither a moved alias, nor a damaged
\* download, nor another release of the same version number that was recorded
\* first, nor a failed record leaves a serving process behind.
ReadyIsVerified ==
  \A r \in Servers :
    Ready(r) \/ replica[r].pc = "put" =>
      /\ replica[r].runtime = replica[r].pinned
      /\ models[Version[replica[r].pinned]] = replica[r].pinned

\* Every stored prediction can be traced: the item MODEL#<its version> is of the
\* very release that made it, whatever replicas started since.
EventsAttributable ==
  \A id \in EventIds : events[id] # None =>
    models[Version[events[id].release]] = events[id].release

\* The cache is invisible: what is stored is what the release on record answers
\* to this request, also when it came from the cache.
AnswersAreTheModels ==
  \A id \in EventIds : events[id] # None =>
    events[id].answer = Answer(events[id].release, events[id].request)

\* What each replica is about to store, and all it has cached, are answers of
\* the bundle it runs.
CachesAreTheModels ==
  \A r \in Servers :
    /\ \A request \in Requests :
         replica[r].cache[CacheKey(request)] \in {None, Answer(replica[r].runtime, request)}
    /\ replica[r].pc = "put" =>
         /\ replica[r].event # None
         /\ replica[r].event.release = replica[r].pinned
         /\ replica[r].event.answer = Answer(replica[r].pinned, replica[r].event.request)

(* The inductive invariant behind the theorems of ServingProofs. *)

\* A process between any two steps of its lifespan, given what is on record: it
\* verifies before it records and records before it serves.
Sound(p, recorded) ==
  /\ p \in Process
  /\ p.pc # "down" => p.pinned # None
  /\ p.runtime \in {None, p.pinned}
  /\ p.pc = "load" => p.runtime = None
  /\ p.runtime = None => p.cache = EmptyCache
  /\ p.pc = "connect" => p.cache = EmptyCache
  /\ p.pc \in {"register", "put"} => p.runtime # None /\ p.repository
  /\ p.pc = "put" => p.id # None /\ p.event # None
  /\ p.pc = "put" \/ (p.pc = "up" /\ p.runtime # None /\ p.repository)
       => recorded[Version[p.pinned]] = p.pinned
  /\ \A request \in Requests : p.cache[CacheKey(request)] \in {None, Answer(p.runtime, request)}
  /\ p.pc = "put" => /\ p.event.release = p.pinned
                     /\ p.event.answer = Answer(p.pinned, p.event.request)

SoundEvent(event, recorded) ==
  event # None => /\ recorded[Version[event.release]] = event.release
                  /\ event.answer = Answer(event.release, event.request)

ServiceInv ==
  /\ alias \in Releases
  /\ models \in [Versions -> Releases \union {None}]
  /\ events \in [EventIds -> Event \union {None}]
  /\ errors \in SUBSET EventIds
  /\ replica \in [Servers -> Process]
  /\ \A r \in Servers : Sound(replica[r], models)
  /\ \A id \in EventIds : SoundEvent(events[id], models)
=============================================================================
