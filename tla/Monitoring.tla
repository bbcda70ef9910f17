----------------------------- MODULE Monitoring -----------------------------
(***************************************************************************)
(* What is read of the event table and what is asked of the API by those   *)
(* who are not the API: the traffic generator (load_testing/traffic.py and *)
(* its script), which posts synthetic requests once each through the       *)
(* non-retrying client and writes an audit; and the sessions of the        *)
(* Monitor dashboard, which page through the eventually consistent index   *)
(* event-date-created-at-index day by day, share one query cache, look up  *)
(* the active model and adjudicate feedback.                               *)
(*                                                                         *)
(* A replica stamps created_at when it accepts a request and puts the item *)
(* later, so items reach the table, and the index, in any order.           *)
(***************************************************************************)
EXTENDS Naturals, FiniteSets, Sequences, SequencesExt

CONSTANTS
  Count,       \* requests of the traffic plan, posted in the order 1..Count
  Day,         \* created_at stamp -> UTC event_date; a stamp per accepted request
  Windows,     \* the date ranges sessions select: records [first, last]
  MaxDays,     \* MONITOR_MAX_DAYS
  PageSize,    \* items in a page of the index
  ScanLimit,   \* Limit=100 of the metadata scan
  Versions,    \* model versions
  Rank,        \* version -> its place among the version strings sorted
  Sessions,    \* sessions of the Monitor UI
  MaxLoads,    \* bound: verified loads of a model by some replica
  MaxReports,  \* bound: feedback revisions of one prediction
  None

Requests == 1..Count
Stamps   == 1..Count

\* An item PREDICTION#k or, of a failed inference, ERROR#k (which has no
\* model_version): revision 0 is an item without feedback.
Item == [request : Requests, stamp : Stamps, status : {"success", "inference_error"},
         version : Versions \union {None}, revision : 0..MaxReports]

ASSUME MonitoringAssumption ==
  /\ Count \in Nat \ {0}
  /\ Day \in [Stamps -> Nat]
  /\ \A s, t \in Stamps : s <= t => Day[s] <= Day[t]
  /\ Windows \subseteq [first : Nat, last : Nat]
  /\ {MaxDays, PageSize, ScanLimit} \subseteq Nat \ {0}
  /\ Rank \in [Versions -> Nat]
  /\ \A v, w \in Versions : Rank[v] = Rank[w] => v = w
  /\ {MaxLoads, MaxReports} \subseteq Nat
  /\ None \notin Versions \union Item

VARIABLES
  server,   \* request -> how far a replica is with it
  table,    \* request -> the item it left, or None
  index,    \* request -> that item as the index has it, or None
  loads,    \* version -> last_loaded_at of MODEL#<version>, 0 when there is none
  traffic,  \* the run of the traffic generator
  audit,    \* the audit file
  cache,    \* window -> the cached rows with, as history, the index they came after
  session   \* session -> its script run and what it shows

tableVars == <<server, table, index, loads>>
vars == <<server, table, index, loads, traffic, audit, cache, session>>

Unasked == [pc |-> "idle", stamp |-> 0, version |-> None]

Quiet == [pc |-> "idle", next |-> 0, ids |-> <<>>, failed |-> 0]

Idle == [pc |-> "idle", window |-> None, day |-> 0, key |-> 0, rows |-> <<>>,
         since |-> None, view |-> None]

Init ==
  /\ server = [k \in Requests |-> Unasked]
  /\ table = [k \in Requests |-> None]
  /\ index = [k \in Requests |-> None]
  /\ loads = [v \in Versions |-> 0]
  /\ traffic = Quiet
  /\ audit = None
  /\ cache = [w \in Windows |-> None]
  /\ session = [s \in Sessions |-> Idle]

-----------------------------------------------------------------------------
(* The API replicas and the table *)

LastLoad == LET stamps == {loads[v] : v \in Versions} IN
            CHOOSE t \in stamps : \A u \in stamps : u <= t

\* lifespan: a replica that verified v records it before it answers requests.
LoadModel(v) ==
  /\ LastLoad < MaxLoads
  /\ loads' = [loads EXCEPT ![v] = LastLoad + 1]
  /\ UNCHANGED <<server, table, index, traffic, audit, cache, session>>

Accepted == {k \in Requests : server[k].pc # "idle"}

\* The request may be accepted when its client has long given up on it.
Posted(k) == traffic.next >= k

\* Mutant: a replica is ready before its model is on record.
ServesUnrecorded(v) == v \in Versions

Serves(v) == loads[v] > 0

Accept(k, v) ==
  /\ server[k].pc = "idle"
  /\ Posted(k)
  /\ Serves(v)
  /\ server' = [server EXCEPT ![k] = [pc |-> "serving", stamp |-> Cardinality(Accepted) + 1,
                                      version |-> v]]
  /\ UNCHANGED <<table, index, loads, traffic, audit, cache, session>>

Event(k, status) ==
  [request |-> k, stamp |-> server[k].stamp, status |-> status,
   version |-> IF status = "success" THEN server[k].version ELSE None, revision |-> 0]

\* Mutant: the answer does not wait for the put.
OutcomesUnpersisted(k) ==
  {<<item, answer>> : item \in {None, Event(k, "success")}, answer \in {"200", "503"}}

\* put_prediction applied and answered, applied and given up on, or failed;
\* inference failed, with its best-effort put_error applied or not.
Outcomes(k) ==
  {<<Event(k, "success"), "200">>} \union
  {<<item, "503">> : item \in {None, Event(k, "success"), Event(k, "inference_error")}}

Serve(k) ==
  /\ server[k].pc = "serving"
  /\ \E outcome \in Outcomes(k) :
       /\ table' = [table EXCEPT ![k] = outcome[1]]
       /\ server' = [server EXCEPT ![k] = [Unasked EXCEPT !.pc = outcome[2]]]
  /\ UNCHANGED <<index, loads, traffic, audit, cache, session>>

\* The index follows the table, item by item.
Propagate(k) ==
  /\ index[k] # table[k]
  /\ index' = [index EXCEPT ![k] = table[k]]
  /\ UNCHANGED <<server, table, loads, traffic, audit, cache, session>>

Reportable(k) == /\ table[k] # None
                 /\ table[k].status = "success"
                 /\ table[k].revision < MaxReports

\* POST /feedback of another client.
Report(k) ==
  /\ Reportable(k)
  /\ table' = [table EXCEPT ![k].revision = @ + 1]
  /\ UNCHANGED <<server, index, loads, traffic, audit, cache, session>>

-----------------------------------------------------------------------------
(* The traffic generator *)

Summary(attempted, ids, failed) ==
  [planned |-> Count, attempted |-> attempted, successful |-> Len(ids), failed |-> failed,
   ids |-> ids]

\* Without --apply: requests are generated, none is sent.
DryRun ==
  /\ traffic.pc = "idle"
  /\ audit = None
  /\ audit' = Summary(0, <<>>, 0)
  /\ UNCHANGED <<tableVars, traffic, cache, session>>

StartTraffic ==
  /\ traffic.pc = "idle"
  /\ traffic' = [traffic EXCEPT !.pc = "waiting", !.next = 1]
  /\ UNCHANGED <<tableVars, audit, cache, session>>

\* After a request the generator sleeps, then posts the next; after the last it
\* writes its audit.
Proceed(ids, failed) ==
  traffic' = IF traffic.next < Count
             THEN [pc |-> "waiting", next |-> traffic.next + 1, ids |-> ids, failed |-> failed]
             ELSE [pc |-> "audit", next |-> traffic.next, ids |-> ids, failed |-> failed]

Received ==
  /\ traffic.pc = "waiting"
  /\ server[traffic.next].pc = "200"
  /\ Proceed(Append(traffic.ids, traffic.next), traffic.failed)
  /\ UNCHANGED <<tableVars, audit, cache, session>>

\* ApiClientError: an error status, but also a timeout, a broken connection or
\* an answer out of contract, whatever the replica does with the request.
Refused ==
  /\ traffic.pc = "waiting"
  /\ Proceed(traffic.ids, traffic.failed + 1)
  /\ UNCHANGED <<tableVars, audit, cache, session>>

\* write_audit_summary: a temporary file, renamed.
WriteAudit ==
  /\ traffic.pc = "audit"
  /\ audit' = Summary(Count, traffic.ids, traffic.failed)
  /\ traffic' = [Quiet EXCEPT !.pc = "done", !.next = Count]
  /\ UNCHANGED <<tableVars, cache, session>>

\* Any other exception, an interrupt, or a failing write: no audit of this run.
Abandon ==
  /\ traffic.pc \in {"waiting", "audit"}
  /\ traffic' = [Quiet EXCEPT !.pc = "done", !.next = traffic.next]
  /\ UNCHANGED <<tableVars, audit, cache, session>>

-----------------------------------------------------------------------------
(* MonitoringRepository.query_predictions *)

\* The items in the order of the index's sort key: as many are before each of them
\* as were created before it.
InOrder(items) ==
  [n \in 1..Cardinality(items) |->
     CHOOSE a \in items : Cardinality({b \in items : b.stamp < a.stamp}) = n - 1]

\* One page of the partition `day` after the sort key `key`, in its order.
Page(day, key) ==
  LET found == {index[k] : k \in {k \in Requests : /\ index[k] # None
                                                   /\ Day[index[k].stamp] = day
                                                   /\ index[k].stamp > key}}
      size == Cardinality(found)
  IN SubSeq(InOrder(found), 1, IF size < PageSize THEN size ELSE PageSize)

\* Mutant: the first page is taken for the whole partition.
HasMoreNever(page) == Len(page) > PageSize

\* LastEvaluatedKey: the page was cut at its size, perhaps at the last item.
HasMore(page) == Len(page) = PageSize

Bounded(w) == w.first <= w.last /\ w.last - w.first < MaxDays

\* cached_query holds a lock per range while it runs its function.
Querying(w) == \E s \in Sessions : session[s].pc = "query" /\ session[s].window = w

Querier(w) == [pc |-> "query", window |-> w, day |-> w.first, key |-> 0, rows |-> <<>>,
               since |-> index, view |-> None]

Loaded(w, rows, since) ==
  [Idle EXCEPT !.pc = "model", !.window = w, !.rows = rows, !.since = since]

\* A script run of the dashboard: a hit shows the cached rows, a miss queries.
Open(s, w) ==
  /\ session[s].pc = "idle"
  /\ Bounded(w)
  /\ ~Querying(w)
  /\ session' = [session EXCEPT ![s] =
       IF cache[w] # None THEN Loaded(w, cache[w].rows, cache[w].since) ELSE Querier(w)]
  /\ UNCHANGED <<tableVars, traffic, audit, cache>>

ReadPage(s) ==
  LET q == session[s]
      page == Page(q.day, q.key)
      rows == q.rows \o page IN
  /\ q.pc = "query"
  /\ \/ /\ HasMore(page)
        /\ session' = [session EXCEPT ![s].rows = rows, ![s].key = Last(page).stamp]
        /\ UNCHANGED cache
     \/ /\ ~HasMore(page)
        /\ q.day < q.window.last
        /\ session' = [session EXCEPT ![s].rows = rows, ![s].key = 0, ![s].day = @ + 1]
        /\ UNCHANGED cache
     \/ /\ ~HasMore(page)
        /\ q.day = q.window.last
        /\ session' = [session EXCEPT ![s] = Loaded(q.window, rows, q.since)]
        /\ cache' = [cache EXCEPT ![q.window] = [rows |-> rows, since |-> q.since]]
  /\ UNCHANGED <<tableVars, traffic, audit>>

\* A page fails, or the browser leaves.
QueryFails(s) ==
  /\ session[s].pc = "query"
  /\ session' = [session EXCEPT ![s] = Idle]
  /\ UNCHANGED <<tableVars, traffic, audit, cache>>

\* The TTL of an entry.
Expire(w) ==
  /\ cache[w] # None
  /\ cache' = [cache EXCEPT ![w] = None]
  /\ UNCHANGED <<tableVars, traffic, audit, session>>

Cleared == [w \in Windows |-> None]

\* The adjudication form: only a feedback known to be saved clears the cache;
\* a query in flight fills it again with what it read before.
Adjudicate(s, k) ==
  /\ session[s].pc = "idle" /\ session[s].view # None
  /\ \E i \in DOMAIN session[s].view.rows : session[s].view.rows[i].request = k
  /\ Reportable(k)
  /\ table' = [table EXCEPT ![k].revision = @ + 1]
  /\ cache' \in {cache, Cleared}
  /\ UNCHANGED <<server, index, loads, traffic, audit, session>>

-----------------------------------------------------------------------------
(* The active model *)

\* version_options: the versions of the window's rows.
Options(rows) == {rows[i].version : i \in DOMAIN rows} \ {None}

LastOption(options) == CHOOSE v \in options : \A w \in options : Rank[w] <= Rank[v]

Models == {v \in Versions : loads[v] > 0}

Size == Cardinality(Models) + Cardinality({k \in Requests : table[k] # None})

LatestOf(models) == CHOOSE v \in models : \A w \in models : loads[w] <= loads[v]

\* Limit cuts the scan before its filter: some of the models, all when the
\* table fits.
Scanned == {models \in SUBSET Models : Size <= ScanLimit => models = Models}

\* get_model_metadata
Lookups(rows) ==
  IF Options(rows) # {} THEN {LastOption(Options(rows))} \intersect Models
  ELSE {LatestOf(models) : models \in Scanned \ {{}}}

NotFound(rows) == IF Options(rows) # {} THEN LastOption(Options(rows)) \notin Models
                  ELSE {} \in Scanned

\* prediction_frame has the columns of its items: without any success there is
\* no column model_version, and reading it raises.
Raises(rows) == rows # <<>> /\ Options(rows) = {}

\* `due` is history: the model an empty window has to show.
View(s, model) ==
  [rows |-> session[s].rows, model |-> model, reported |-> ~Raises(session[s].rows),
   due |-> IF session[s].rows = <<>> /\ Models # {} /\ Size <= ScanLimit
           THEN CHOOSE v \in Models : loads[v] = LastLoad ELSE None]

Shown(s, model) == session' = [session EXCEPT ![s] = [Idle EXCEPT !.view = View(s, model)]]

Render(s) ==
  /\ session[s].pc = "model"
  /\ \/ Raises(session[s].rows) /\ Shown(s, None)
     \/ /\ ~Raises(session[s].rows)
        /\ \/ \E model \in Lookups(session[s].rows) : Shown(s, model)
           \/ NotFound(session[s].rows) /\ Shown(s, None)
  /\ UNCHANGED <<tableVars, traffic, audit, cache>>

Next ==
  \/ \E v \in Versions : LoadModel(v) \/ \E k \in Requests : Accept(k, v)
  \/ \E k \in Requests : Serve(k) \/ Propagate(k) \/ Report(k)
  \/ DryRun \/ StartTraffic \/ Received \/ Refused \/ WriteAudit \/ Abandon
  \/ \E w \in Windows : Expire(w) \/ \E s \in Sessions : Open(s, w)
  \/ \E s \in Sessions : \/ ReadPage(s) \/ QueryFails(s) \/ Render(s)
                         \/ \E k \in Requests : Adjudicate(s, k)

Spec == Init /\ [][Next]_vars

-----------------------------------------------------------------------------
(* Properties *)

\* The items of the window in an index, as a set.
Within(w, items) == {k \in Requests : /\ items[k] # None
                                      /\ Day[items[k].stamp] \in w.first..w.last}

\* What a finished query of w that began when the index was `since` may hold.
Complete(w, rows, since) ==
  /\ \A i, j \in DOMAIN rows : i < j => rows[i].stamp < rows[j].stamp
  /\ \A i \in DOMAIN rows :
       /\ Day[rows[i].stamp] \in w.first..w.last
       /\ table[rows[i].request] # None
       /\ rows[i].revision <= table[rows[i].request].revision
  /\ \A k \in Within(w, since) :
       \E i \in DOMAIN rows : rows[i].request = k /\ rows[i].revision >= since[k].revision

\* The rows a session is about to show, or the cache keeps, hold every event the index had
\* in the window when their query began, each once, in order of creation and no
\* older than it was then, whatever is stored, stamped late, propagated,
\* reported or adjudicated between their pages; and they invent nothing.
QueriesAreComplete ==
  /\ \A w \in Windows : cache[w] # None => Complete(w, cache[w].rows, cache[w].since)
  /\ \A s \in Sessions : session[s].pc = "model" =>
       Complete(session[s].window, session[s].rows, session[s].since)

\* The audit of an applied run accounts for every planned request, and each
\* identifier in it names a stored prediction, once; those that are stored although
\* their client gave up on them are at most the requests counted failed.
AuditIsTrue ==
  (audit # None /\ audit.attempted > 0) =>
    LET stored == {k \in Requests : table[k] # None /\ table[k].status = "success"}
        named  == {audit.ids[i] : i \in DOMAIN audit.ids} IN
    /\ audit.planned = audit.attempted
    /\ audit.attempted = audit.successful + audit.failed
    /\ Cardinality(named) = audit.successful
    /\ named \subseteq stored
    /\ Cardinality(stored \ named) <= audit.failed

\* A dashboard with a prediction in its window finds the model that made it on
\* record; one without shows the model loaded last, as long as the table fits
\* in the one page the lookup scans - and never a model nobody loaded.
ActiveModelIsOnRecord ==
  \A s \in Sessions : LET view == session[s].view IN
    (view # None /\ view.reported) =>
      IF Options(view.rows) # {}
      THEN view.model \in Options(view.rows) /\ loads[view.model] > 0
      ELSE /\ view.model \in Models \union {None}
           /\ view.due # None => view.model = view.due

\* "The Monitor reports operational volume/status": a dashboard whose query was
\* answered shows its report.
WindowsAreReported ==
  \A s \in Sessions : session[s].view # None => session[s].view.reported
=============================================================================
