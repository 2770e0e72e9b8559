--------------------------- MODULE ServiceProcess ---------------------------
(***************************************************************************)
(* The Node process around the handlers: the client rate limiter, the      *)
(* event route from the check to the answer, deliveries of survey events   *)
(* to the Meiro collector after the answer, the schema sync timer,         *)
(* draining and crashing.                                                  *)
(*                                                                         *)
(* A promise that rejects with nobody waiting for it ends the process:     *)
(* package.json asks for Node 20 or later and nothing installs a handler   *)
(* for unhandledRejection.                                                 *)
(***************************************************************************)
EXTENDS Naturals, FiniteSets

CONSTANTS
    EvaluateRequests,   \* POST /v1/client/evaluate
    EventRequests,      \* POST /v1/client/conversion with a survey response
    EventId(_),         \* the event_id an event request carries; retries share it
    Edits,              \* PUT /v1/settings and POST /v1/import requests under way at once
    MaxPerWindow,       \* DEE_CLIENT_RATE_LIMIT_MAX
    MaxRuns             \* the bound on schema sync runs under way at once

Requests == EvaluateRequests \cup EventRequests
EventIds == {EventId(r) : r \in EventRequests}

ASSUME ServiceAssumption == MaxPerWindow \in Nat \ {0} /\ MaxRuns \in Nat \ {0}

VARIABLES
    snapshot,       \* the store is the Postgres snapshot: changes wait in memory for a save
    process,        \* "up", "draining", "exited" or "crashed"
    count,          \* requests counted in the running window of the one client
    request,        \* request -> how far its handler got
    gone,           \* requests whose client hung up before the answer
    checking,       \* event requests whose unawaited limit check is under way
    stored,         \* event ids in client_events
    saved,          \* those a restarted process finds there
    delivery,       \* event id -> how far its delivery got
    received,       \* event id -> times the collector accepted it (2: more than once)
    logged,         \* event id -> outcomes in meiro_deliveries
    configured,     \* the settings ask for scheduled schema syncs
    savedConfigured,\* those a restarted process finds do
    edit,           \* settings request -> the route that waits for its save, or "idle"
    timer,          \* schemaSyncTimer is set
    runs,           \* sync runs under way
    unscheduled     \* settings changed without a schedule: by an import or a failed save

serviceVars == <<snapshot, process, count, request, gone, checking, stored, saved, delivery,
                 received, logged, configured, savedConfigured, edit, timer, runs, unscheduled>>
limitVars == <<snapshot, count, checking>>
storeVars == <<stored, saved>>
deliveryVars == <<delivery, received, logged>>
scheduleVars == <<configured, edit, timer, runs, unscheduled>>
syncVars == <<scheduleVars, savedConfigured>>

Answers == {"200", "202", "429", "500"}
Underway == {"checking", "handling", "saving"}

ServiceInit ==
    /\ snapshot \in BOOLEAN
    /\ process = "up"
    /\ count = 0
    /\ request = [r \in Requests |-> "new"]
    /\ gone = {}
    /\ checking = {}
    /\ stored = {} /\ saved = {}
    /\ delivery = [e \in EventIds |-> "none"]
    /\ received = [e \in EventIds |-> 0]
    /\ logged = [e \in EventIds |-> {}]
    /\ configured \in BOOLEAN /\ savedConfigured = configured
    /\ edit = [x \in Edits |-> "idle"]
    /\ timer = configured
    /\ runs = 0
    /\ unscheduled = FALSE

Running == process \in {"up", "draining"}

(***************************************************************************)
(* The rate limiter: a fixed window per token, origin, action and source.  *)
(***************************************************************************)
Allowed == count + 1 <= MaxPerWindow

\* A refused request is not counted.
Check == count' = IF Allowed THEN count + 1 ELSE count

WindowEnds ==
    /\ count > 0
    /\ count' = 0
    /\ UNCHANGED <<snapshot, process, request, gone, checking, storeVars, deliveryVars, syncVars>>

(***************************************************************************)
(* Requests.                                                               *)
(***************************************************************************)
Answer(r, with) == request' = [request EXCEPT ![r] = with]

\* The evaluate route awaits the check.
BeginEvaluate(r) ==
    /\ Running
    /\ request[r] = "new"
    /\ Answer(r, "checking")
    /\ UNCHANGED <<limitVars, process, gone, storeVars, deliveryVars, syncVars>>

EnforceEvaluate(r) ==
    /\ Running
    /\ r \in EvaluateRequests
    /\ request[r] = "checking"
    /\ Check
    /\ Answer(r, IF Allowed THEN "200" ELSE "429")
    /\ UNCHANGED <<snapshot, checking, process, gone, storeVars, deliveryVars, syncVars>>

\* The event route calls enforceClientRateLimit without await and goes on to
\* read the body.
BeginEvent(r) ==
    /\ Running
    /\ request[r] = "new"
    /\ Answer(r, "handling")
    /\ checking' = checking \cup {r}
    /\ UNCHANGED <<snapshot, count, process, gone, storeVars, deliveryVars, syncVars>>

\* Its outcome: nobody waits for it, so a refusal is an unhandled rejection.
\* The limiter decides at once, before the body can arrive.
EnforceEvent(r) ==
    /\ Running
    /\ r \in checking
    /\ checking' = checking \ {r}
    /\ Check
    /\ process' = IF Allowed THEN process ELSE "crashed"
    /\ UNCHANGED <<snapshot, request, gone, storeVars, deliveryVars, syncVars>>

\* Mut... are faulty variants of the definition that follows them.
MutDuplicateGoesOn(r) ==
    /\ Running
    /\ request[r] = "handling"
    /\ r \notin checking
    /\ Answer(r, "saving")
    /\ stored' = stored \cup {EventId(r)}
    /\ saved' = IF snapshot THEN saved ELSE stored'
    /\ UNCHANGED <<limitVars, process, gone, deliveryVars, syncVars>>

\* INSERT OR IGNORE by event_id: a duplicate is answered at once.
\* occurred_at lies within the retention, so the same call's deletion of older
\* events leaves this one alone.
StoreEvent(r) ==
    /\ Running
    /\ request[r] = "handling"
    /\ r \notin checking
    /\ IF EventId(r) \in stored
       THEN Answer(r, "200") /\ UNCHANGED storeVars
       ELSE /\ Answer(r, "saving")
            /\ stored' = stored \cup {EventId(r)}
            /\ saved' = IF snapshot THEN saved ELSE stored'
    /\ UNCHANGED <<limitVars, process, gone, deliveryVars, syncVars>>

\* A save writes the whole store, the settings and others' changes with it.
SaveStore == saved' = stored /\ savedConfigured' = configured

\* A plausible bug: the delivery is queued before the save, whatever comes of it.
MutQueueBeforeSave(r) ==
    /\ Running
    /\ request[r] = "saving"
    /\ delivery' = [delivery EXCEPT ![EventId(r)] = "queued"]
    /\ \/ Answer(r, "202") /\ SaveStore
       \/ snapshot /\ Answer(r, "500") /\ UNCHANGED <<saved, savedConfigured>>
    /\ UNCHANGED <<limitVars, process, gone, stored, received, logged, scheduleVars>>

\* saveStore, then the delivery is left to setImmediate and the answer sent,
\* also to a client that is gone.
SaveEvent(r) ==
    /\ Running
    /\ request[r] = "saving"
    /\ \/ /\ Answer(r, "202")
          /\ SaveStore
          /\ delivery' = [delivery EXCEPT ![EventId(r)] = "queued"]
       \/ /\ snapshot
          /\ Answer(r, "500")
          /\ UNCHANGED <<saved, savedConfigured, delivery>>
    /\ UNCHANGED <<limitVars, process, gone, stored, received, logged, scheduleVars>>

\* A client hangs up.  readJson throws when the body was still on its way; a
\* handler past it goes on, and nothing aborts its save.
HangUp(r) ==
    /\ Running
    /\ request[r] \in Underway
    /\ gone' = gone \cup {r}
    /\ \/ UNCHANGED request
       \/ request[r] = "handling" /\ Answer(r, "dropped")
    /\ UNCHANGED <<limitVars, process, storeVars, deliveryVars, syncVars>>

(***************************************************************************)
(* deliverClientEventFeedback and deliverMeiroPayload.                     *)
(***************************************************************************)
LogRow(e, outcome, next) ==
    /\ logged' = [logged EXCEPT ![e] = @ \cup {outcome}]
    /\ delivery' = [delivery EXCEPT ![e] = next]

\* No endpoint is configured, or the circuit is open and the skip is logged,
\* or the payload is posted.  The breaker is the one of ProfileLookup; here
\* it may be open at any time.
StartDelivery(e) ==
    /\ Running
    /\ delivery[e] = "queued"
    /\ \/ delivery' = [delivery EXCEPT ![e] = "done"] /\ UNCHANGED logged
       \/ LogRow(e, "failed", "done")
       \/ delivery' = [delivery EXCEPT ![e] = "posting"] /\ UNCHANGED logged
    /\ UNCHANGED <<limitVars, process, gone, request, storeVars, received, syncVars>>

\* The collector accepts; or it refuses, is away or too slow.  With a slow
\* answer it may have accepted all the same.
PostDelivery(e) ==
    /\ Running
    /\ delivery[e] = "posting"
    /\ \/ /\ received' = [received EXCEPT ![e] = IF @ < 2 THEN @ + 1 ELSE 2]
          /\ delivery' = [delivery EXCEPT ![e] = "accepted"]
       \/ /\ \/ UNCHANGED received
             \/ received' = [received EXCEPT ![e] = IF @ < 2 THEN @ + 1 ELSE 2]
          /\ delivery' = [delivery EXCEPT ![e] = "failed"]
    /\ UNCHANGED <<limitVars, process, gone, request, storeVars, logged, syncVars>>

\* The insert into meiro_deliveries is inside the try: when it throws after
\* an accepted post, the catch logs the delivery once more, as failed.  When
\* that throws too the delivery ends with a warning.
RecordDelivery(e) ==
    /\ Running
    /\ \/ /\ delivery[e] = "accepted"
          /\ \/ LogRow(e, "ok", "done")
             \/ /\ delivery' = [delivery EXCEPT ![e] = "failed"]
                /\ UNCHANGED logged
       \/ /\ delivery[e] = "failed"
          /\ \/ LogRow(e, "failed", "done")
             \/ /\ delivery' = [delivery EXCEPT ![e] = "done"]
                /\ UNCHANGED logged
    /\ UNCHANGED <<limitVars, process, gone, request, storeVars, received, syncVars>>

(***************************************************************************)
(* Scheduled schema syncs.                                                 *)
(***************************************************************************)
\* A route changes the settings in memory, and in SQLite's file at once, and
\* waits for saveStore.
ChangeSettings(x, to, route) ==
    /\ Running
    /\ edit[x] = "idle"
    /\ edit' = [edit EXCEPT ![x] = route]
    /\ configured' = to
    /\ savedConfigured' = IF snapshot THEN savedConfigured ELSE to
    /\ UNCHANGED <<limitVars, process, request, gone, storeVars, deliveryVars, timer, runs>>

\* PUT /v1/settings.
UpdateSettings(x, to) == ChangeSettings(x, to, "put") /\ UNCHANGED unscheduled

\* POST /v1/import: a bundle carries all that makes syncs configured but the
\* token.  The route never schedules.
ImportSettings(x, to) ==
    /\ ChangeSettings(x, to, "import")
    /\ unscheduled' = (unscheduled \/ (to /\ ~ configured))

\* The settings of now decide, also while the process drains.
ScheduleSchemaSync == timer' = configured /\ unscheduled' = FALSE

\* The save returns: PUT /v1/settings schedules, an import does not.  When it
\* throws, the change stays in memory and nothing is scheduled.
SaveSettings(x) ==
    /\ Running
    /\ edit[x] # "idle"
    /\ edit' = [edit EXCEPT ![x] = "idle"]
    /\ \/ /\ SaveStore
          /\ IF edit[x] = "put" THEN ScheduleSchemaSync ELSE UNCHANGED <<timer, unscheduled>>
       \/ /\ snapshot
          /\ unscheduled' = (unscheduled \/ edit[x] = "put")
          /\ UNCHANGED <<saved, savedConfigured, timer>>
    /\ UNCHANGED <<limitVars, process, request, gone, stored, deliveryVars, configured, runs>>

SchemaSyncTimerFires ==
    /\ Running
    /\ timer
    /\ runs < MaxRuns
    /\ timer' = FALSE
    /\ runs' = runs + 1
    /\ UNCHANGED <<limitVars, process, request, gone, storeVars, deliveryVars, configured,
                   savedConfigured, edit, unscheduled>>

\* A plausible bug: a failed sync is not scheduled again.
MutFailureEndsSyncs ==
    /\ Running
    /\ runs > 0
    /\ runs' = runs - 1
    /\ SaveStore
    /\ ScheduleSchemaSync \/ UNCHANGED <<timer, unscheduled>>
    /\ UNCHANGED <<limitVars, process, request, gone, stored, deliveryVars, configured, edit>>

\* A sync that failed, or whose save did, is recorded and saved as failed, then
\* the timer is set again.  When that last save throws, the timer's callback
\* rejects.
RunScheduledSchemaSync ==
    /\ Running
    /\ runs > 0
    /\ runs' = runs - 1
    /\ \/ SaveStore /\ ScheduleSchemaSync /\ UNCHANGED process
       \/ /\ process' = "crashed"
          /\ UNCHANGED <<saved, savedConfigured, timer, unscheduled>>
    /\ UNCHANGED <<limitVars, request, gone, stored, deliveryVars, configured, edit>>

(***************************************************************************)
(* The end of the process.                                                 *)
(***************************************************************************)
GracefulShutdown ==
    /\ process = "up"
    /\ process' = "draining"
    /\ timer' = FALSE
    /\ UNCHANGED <<limitVars, request, gone, storeVars, deliveryVars, configured, savedConfigured,
                   edit, runs, unscheduled>>

\* server.close calls back when every connection is done, those of clients
\* that hung up among them; the grace timeout may come first.  Neither waits
\* for a handler whose client is gone, for a delivery or for a sync.
Exit ==
    /\ process = "draining"
    /\ \/ /\ \A r \in Requests \ gone : request[r] \notin Underway
          /\ process' = "exited"
       \/ process' = "crashed"
    /\ UNCHANGED <<limitVars, request, gone, storeVars, deliveryVars, syncVars>>

SaveUnderway ==
    \/ \E r \in EventRequests : request[r] = "saving"
    \/ \E x \in Edits : edit[x] # "idle"
    \/ runs > 0

\* A supervisor starts the process again: requests and deliveries of the old
\* one are gone, the store keeps what was saved, which may be what a save
\* nobody waits for any more still wrote.
Restart ==
    /\ process \in {"exited", "crashed"}
    /\ process' = "up"
    /\ request' = [r \in Requests |-> IF request[r] \in Underway THEN "dropped" ELSE request[r]]
    /\ gone' = {}
    /\ checking' = {}
    /\ count' = 0
    /\ delivery' = [e \in EventIds |-> IF delivery[e] = "none" THEN "none" ELSE "done"]
    /\ edit' = [x \in Edits |-> "idle"]
    /\ runs' = 0
    /\ unscheduled' = FALSE
    /\ \/ stored' = saved /\ configured' = savedConfigured /\ UNCHANGED <<saved, savedConfigured>>
       \/ SaveUnderway /\ SaveStore /\ UNCHANGED <<stored, configured>>
    /\ timer' = configured'
    /\ UNCHANGED <<snapshot, received, logged>>

ServiceNext ==
    \/ \E r \in EvaluateRequests : BeginEvaluate(r) \/ EnforceEvaluate(r)
    \/ \E r \in EventRequests : BeginEvent(r) \/ EnforceEvent(r) \/ StoreEvent(r) \/ SaveEvent(r)
    \/ \E e \in EventIds : StartDelivery(e) \/ PostDelivery(e) \/ RecordDelivery(e)
    \/ \E r \in Requests : HangUp(r)
    \/ \E x \in Edits : \/ \E to \in BOOLEAN : UpdateSettings(x, to) \/ ImportSettings(x, to)
                        \/ SaveSettings(x)
    \/ WindowEnds \/ SchemaSyncTimerFires \/ RunScheduledSchemaSync
    \/ GracefulShutdown \/ Exit \/ Restart

ServiceSpec == ServiceInit /\ [][ServiceNext]_serviceVars

-----------------------------------------------------------------------------

\* Every variable keeps its type.
ServiceTypeOK ==
    /\ process \in {"up", "draining", "exited", "crashed"}
    /\ count \in Nat
    /\ request \in [Requests -> {"new", "dropped"} \cup Underway \cup Answers]
    /\ checking \subseteq EventRequests /\ gone \subseteq Requests
    /\ snapshot \in BOOLEAN
    /\ saved \subseteq stored /\ stored \subseteq EventIds
    /\ delivery \in [EventIds -> {"none", "queued", "posting", "accepted", "failed", "done"}]
    /\ received \in [EventIds -> 0 .. 2]
    /\ logged \in [EventIds -> SUBSET {"ok", "failed"}]
    /\ configured \in BOOLEAN /\ savedConfigured \in BOOLEAN
    /\ edit \in [Edits -> {"idle", "put", "import"}]
    /\ timer \in BOOLEAN /\ unscheduled \in BOOLEAN
    /\ runs \in 0 .. MaxRuns

\* The collector gets a survey response at most once, however often the
\* browser retries its event: requests with one event_id that are handled at
\* once, or again after a failed save, a crash or a restart, start no second
\* delivery.
DeliveredAtMostOnce == \A e \in EventIds : received[e] <= 1

\* While syncs are configured the next one is coming: the timer is set, or a
\* run or a PUT /v1/settings is under way that will set it.  Edits and imports
\* during a run, overlapping runs and failed syncs forget none.  Syncs may be
\* configured for nothing only when an import turned them on, or the save of
\* an edit failed, and nothing was scheduled since.
SyncNotForgotten ==
    process = "up" /\ configured =>
        timer \/ runs > 0 \/ unscheduled \/ \E x \in Edits : edit[x] = "put"

\* Nothing the service told others is lost: an event answered with 202, and
\* one the collector has or the delivery log names, is there after a restart,
\* whatever failed saves, clients that hang up, shutdowns that leave handlers
\* behind and crashes come in between.
ToldIsKept ==
    /\ \A r \in EventRequests : request[r] = "202" => EventId(r) \in saved
    /\ \A e \in EventIds : received[e] > 0 \/ logged[e] # {} => e \in saved

\* "Responses [...] return 429 with retry-after when exhausted": the limit
\* ends a request, never the process.
LimitOnlyRefuses == [][\A r \in Requests : EnforceEvent(r) => process' = process]_serviceVars
=============================================================================
