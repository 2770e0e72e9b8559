# Verification of the Meiro decision engine (DEE)

TLA+ specifications of the decision engine in `src/`, the TLC runs that check
them on small instances, and TLAPS proofs for instances of every size. Sources
are named relative to the repository as in PROJECT.json (`src/src/server.js` is
the server); in this text `server.js` stands for `src/src/server.js`, `app.js`
for `src/public/app.js`, the SDK for `src/docs/dee-web-sdk/dee-web-sdk.js`.

DEE is a Node.js process, or several behind a proxy, that serves decisions to
browsers. An administrator edits *rule sets* on an administration page, has
them reviewed and publishes numbered versions. A browser asks, through an SDK, for
a decision for a profile; the server may fetch the profile from the Meiro
Profile API, evaluates the version against lookup tables, messages and counted
events, caches the response, and records what was shown and clicked.

## 1. The system

| component | state | operations | hard behaviour | what makes it correct |
|---|---|---|---|---|
| rule-set lifecycle (`store.js`, `server.js`) | rows of `rule_sets`, `rule_versions`; the approval in the metadata; `approval_workflow_enabled` | create, edit, submit, approve, publish, roll back, duplicate, archive, export, import | long sequences of legal calls; a review request that waits for its body after its check; an approval that travels with a copy | an approval is for the draft as it is; only signed-off drafts pass the gate; published versions stay |
| snapshot persistence (`storePostgres.js`) | one row with a revision; each process's memory and the revision it knows | load, save | concurrent saves, two processes, lost statements and answers, crashes | what was acknowledged is in the row and stays there |
| native Postgres store (`storePostgresNative.js`) | rows, transactions, pool | the same operations, statement by statement | reads and writes of requests interleave; transactions over a pool | acknowledged writes are committed; approvals stay true |
| client decisions (`server.js`, `clientCache.js`) | the result cache, evaluations in flight | evaluate, and every handler that clears the cache | a wait for the profile in the middle; a clear that races it; a save that fails | nothing stale is served after an acknowledged change; impression limits hold |
| profile lookup (`circuitBreaker.js`, `loadShedding.js`, `profileCache.js`) | breaker status, failures, next retry; error count | canRequest, recordSuccess, recordFailure, check | late answers in any order; only later requests move the breaker | status agrees with the count; the circuit and the shedding end |
| evaluator, expressions, validation (`evaluator.js`, `expression.js`, `validation.js`) | none beyond a request | evaluate, validate | errors half-way, two readings of one graph | what is accepted can be walked; only a true condition decides |
| decision stacks and surfaces (`decisionStacks.js`, `server.js`) | a trace, the batch's counts | evaluate a stack, a surface, a batch; readiness | steps that fail; rules that change between the steps | the trace explains the answer; the best candidate is selected |
| the process (`server.js`, `rateLimiter.js`, `meiroFeedback.js`) | rate buckets, deliveries, the sync timer, draining | limit, store an event, deliver it, sync, shut down | a promise nobody waits for; work after the answer; crash and restart | one delivery per event; a sync is always coming; what others were told survives a restart |
| browser SDK, events (SDK) | the retry queue in local storage | post, enqueue, flush | pages that share the list without a lock; lost answers | an event is stored once, or still queued, or lost for a known reason |
| browser SDK, placement (SDK) | wiring, evaluations under way, the display ledger | init, trigger, evaluate, render, record, destroy | evaluations that overlap | a message is shown once in its window |
| administration page (`app.js`) | cached lists, selection, form, builder, pending handlers | open, edit, save, publish, restore; builder to JSON and back | answers that come late; a definition taken apart and put together | a text stays with its item; an untouched definition keeps its meaning |
| assistant (`assistantPlanner.js`, `assistantProvider.js`) | a plan, a rollback list on the page | plan, apply, roll back | a plan that stops half-way, a failed save, late answers | a rollback restores what the apply changed |
| campaign actions (`server.js`, `app.js`) | a preview on the page | dry run, confirm | the store changes in between; the loop reads what it wrote | what was confirmed is done |

Not modelled at all: shared runtime state, experiments, authentication, message
rendering and diagnostics, metrics, HTTP and configuration, scripts and demos;
section 6 says why.

How they interact. A handler of `server.js` calls the store, waits for
`store.save()`, clears the result cache, and answers. A decision reads the store,
waits for the profile lookup, then reads and writes store and cache without
waiting. Load shedding reads counters of the lookups before a decision is let
in. The SDK's placement asks for decisions and posts events; a stored event
starts a delivery after the answer. The page's handlers call the same routes.

Atomicity. SQLite and the in-memory runtime state are synchronous. An `await`
of a value that is already there yields only to callbacks that are already
queued, so a handler runs to its next real wait (request body, Profile API,
Postgres) as one action. Two requests pipelined on one connection could
interleave more finely; no client of DEE pipelines, and the models do not cover
it. The native store waits at every statement and has a module of its own.

## 2. Modules

| module | models |
|---|---|
| `RuleSets` | the rule-set lifecycle on the SQLite store |
| `SnapshotStore`, `DurableStore` | the snapshot adapter; the abstract store it implements |
| `NativeStore` | one rule set under the row-level adapter, statement by statement |
| `ClientServing` | decisions, result cache, impression limits |
| `ProfileLookup` | circuit breaker, load shedding, lookup outcomes |
| `EventQueue` | the SDK's events, the shared retry queue, the event endpoint |
| `Placement` | one placement of a page under the SDK |
| `ServiceProcess` | limiter, event route, deliveries, sync timer, shutdown, crash |
| `Expressions`, `RuleEvaluation` | the parser; graph validation, graph walk, branches |
| `DecisionStacks` | stacks, surfaces, the precompute batch, rules that change |
| `Console` | the editors of the page with their calls and late answers |
| `RuleBuilder` | the branch builder: fields from a definition and back |
| `AssistantPlans`, `CampaignActions` | plans and their rollback; bulk actions |
| `MC...` | model values, symmetry, and which parts a run is about |
| `...Proofs` | inductive invariants, lemmas, theorems |

An MC module with several components sets them side by side: the variable
`part` says which of them a behaviour is about, the others stay in one initial
state. The parts share no variable, so nothing about one can depend on a step
of another, and one run answers several questions. Definitions `Mut...` are
faulty variants of the definition that follows them; no specification uses them.

### RuleSets

`rules` is the two tables: per decision key the status, draft, approval (its
status and draft hash) and versions. `createRuleSet`, `updateDraft`,
`setRuleApproval`, `publish`, `rollbackDraftToVersion` and `duplicateRuleSet` are
the store's operators of these names, from row to row; `ImportBundle` is
`importBundle` with `upsertRuleSet` and `replaceVersions`. The actions are the
handlers. The review handlers test the setting before they read the body, so
they are `BeginReview` and `FinishReview` or `RefuseReview`. `gated` (in a
version) and `signed` are history. Assumed: definitions are valid; a create
request carries no approval; a bundle is one `GET /v1/export` returned, in this
state or an earlier one.

### SnapshotStore and DurableStore

A process's memory is the set of mutations its in-memory store holds. `Mutate`
is a handler's store call together with the start of `store.save()`: the exported
snapshot and `latest.revision` are taken there, with no wait between. `sent` and
`replies` are statements and answers on the way; both can be lost and arrive in
any order. `Crash` leaves statements that were sent. `Duplicate` is the early
return of the event route. Mutations only add: a request that deletes is one
whose effect is a deletion.

`DurableStore` says what an adapter promises: a mutation somebody asked for may
become durable at any time, also after an error; an acknowledged one is durable;
nothing durable is lost and nothing appears that nobody asked for.
`SnapshotStore` implements it with `durable` mapped to the contents of the row.

### NativeStore

An operation is the sequence of its statements (`Program`): the server's own
read, the store's read, the write back, and for a publish the read of the
versions, BEGIN, INSERT, UPDATE and COMMIT; reads whose answer nothing depends on,
such as the versions an edit gets with its row, are left out. Each statement takes a connection from the pool, the last one used first
(`Checkout`), and gives it back when it is answered (`Release`). A connection's
`session` is its open transaction: READ COMMITTED, row and key locks, failed
until ROLLBACK. `Throw` is a handler's error, which sends ROLLBACK on whichever
connection comes. Statements fail for any reason, and idle connections are
closed, outside a transaction's own course. The handlers are modelled as
written; see section 6 on this adapter.

### ClientServing

`Begin` and `Finish` are the two halves of `evaluateClientRequest`, before and
after the wait for the profile. The cache key is `keyFor`: version number and, by
scope, the profile. A handler's mutation, its `Saved` (which clears) and
`SaveFails` (which does not) are actions of their own because `saveStore` waits.
`overtaken` and `dirty` are history; they name the two situations the code does
not handle, an import that overtakes an evaluation and a failed save, and the
properties except exactly those. With scope `global` a cached response reaches
a profile at its limit: `MaxImpressionsEnforced` speaks of scope `profile`.

### ProfileLookup

`status`, `failures` and `cooldown` are the breaker's fields, time counted in
ticks. `errors` is `profileCache.errors`. A request is admitted by load
shedding, asks the breaker, calls, and records the outcome later, in any order
with others. A 404 is a success; an answer that cannot be normalised is
recorded as a success and then as a failure. Counts stop at their thresholds,
beyond which nothing tells their values apart.

### EventQueue

`event` follows one event from `sendClientEvent` on: posted, accepted, queued
after any error, rejected to the caller without storage, abandoned with its
page. `retry` is the list in local storage that all pages share. A flush
(`InitFlush`, `FlushItem`, `FlushEnd`) reads it, posts its items one by one and
writes back what is left of the list it read. `losses` is history: the three
ways the code gives an event up (the list is full; an answer below 500 counts as
flushed; a flush that had not read the event overwrites the list). The endpoint
is up, refusing or down and may change at any time.

### Placement

`wired`, `listeners`, `due` and `waiting` are the element's and the page's
handlers; `call` the evaluations under way; `ledger` the entries the SDK keeps in
local or session storage, one per published version. `init` may run twice, a page may hold two
clients, a trigger may come while an evaluation waits. The window of a display
policy ends by a new session or day (it empties the ledger). `raced` is
history: versions two overlapping evaluations were rendering, or a reload cut
off before the record.

### ServiceProcess

One rate bucket (`count`), an event request through check, insert, save and
answer, its delivery (`delivery`, `received`, `logged`), and the sync timer. The
event route calls the limiter without `await`: its refusal is a rejection nobody
handles and ends the process, as Node does without a handler for it. Deliveries
begin after the answer and die with the process. With SQLite `saved` follows
`stored` at once, with a snapshot only by a save. A client may hang up at any
time (`HangUp`): a body that is still on its way then ends in an error, a
handler past it goes on. A shutdown waits for connections and not for handlers,
so the process may exit while a handler whose client is gone waits for its
save, which the database may still carry out (`Restart`). `PUT /v1/settings` and `POST
/v1/import` change the settings in memory, wait for their save (`edit`), and
only the former schedules syncs after it. Events are taken to be younger than
the retention period: `addClientEvent` deletes older ones in the same call.

### Expressions, RuleEvaluation, DecisionStacks

The parser has no tree: `parseExpression` is the recursive descent as one
function over token positions, with a row for each position that says what each
level's function and each `while` loop return there. The reference is the other
half of the module: a `Language` is sets of sentences, one for each level, each
sentence with the value it denotes and made of shorter ones. The constant
`Sentences` is the language that the branches' expressions are taken from.
`validateGraph` is the validator with its depth-first visit. A route is a node's
id, `NoRoute` (absent or the empty text) or `Blank` (blanks, or no text): the validator
drops both of the latter, the evaluator follows whatever is truthy. The walk has one action per node type and one per error; a node's data
(the outcome of a condition, a cap, a variant, an expression that throws) are a
choice. `Fail` is `evaluateDecision`'s catch.

A stack evaluates its steps in order, each on the version published when the
step's turn comes, whatever its `pinned` version was found to be by readiness;
what a rule set decides is any result. A surface evaluates all of its
rules by priority and selects the first that came out eligible; the failure of a
candidate fails the profile. Rules are published, archived and imported between any two steps (`changes` bounds it).

### Console and RuleBuilder

`Console` has one handler record per call under way: `Await` names the answer it
waits for, the answer's action is what the code does after the `await`, to
whatever the page shows by then. `selected`, `form` and `listed` are the page's
globals, `stored` and `history` the server's rows. A text carries the item it was
written for, which is what the property is about. Three editors of the page
(rules, messages, lookup tables) have this shape with different details;
`kind` says which. `moved` is history: which of selection, text and builder a
late answer changed under another item. Confirming a review waits for
the rule conflicts first (`conflictsLoaded`) and publishes the rule selected then.
The text is modelled and not the rest of an item: a late save or publish also leaves
its own metadata in the form (`app.js:6430`, `:6531`).

`RuleBuilder` takes a definition apart (`branchToBuilder`) and puts it together
(`conditionFromBuilder`), as the page does before every save; a text is the
sequence of its pieces between commas, a literal a text with its JSON type;
`Bare` and `Spaced` say which pieces are others with a blank, for the `trim` on
the way back and the ", " of a joined list. Definitions come from the store, from the
fields, or typed into the draft field. The page asks a leaf only for a source, a
key and an operator; the server also for a source, an operator and a declared
input it knows. What the server asks of the rest of a definition (at most 100
branches, their ids, results and outputs, the fallback) is left open: any draft may be
refused. The evaluator of leaf and group conditions is the judge of what is stored. Page and
server look three levels deep and refuse what is below, so each level of the
validators and of the evaluation is an operator of its own, and nothing is
recursive.

### AssistantPlans and CampaignActions

Applying and rolling back run without an `await`, so each is one step that folds
over the plan; the answers come back in any order. A save may fail after an
apply. `applied` is history. A campaign request is one step too; `Preview` and
`Confirm` are the page's two requests, with other people's changes in between.

## 3. Runs

| run | states | instance | checks |
|---|---|---|---|
| `rule_sets` | 1.1 million | one key through its whole life with two reviews in flight, two definitions, two versions, one bundle; and two keys that copy each other, one version each | `TypeOK`, `ApprovalMatchesDraft`, `GatedVersionsSigned`, `PublishedIsServed`, `VersionsImmutableUnlessImported`, `ArchivedUnlessImported` |
| `snapshot_store` | 0.7 million | two processes, an event and another request, two revisions | `TypeOK`, `AcceptedIsDurable`, `FreshWriterIsComplete`, `NoOverwrite`, the refinement `ImplementsDurableStore` |
| `recovery` | 60 thousand | three lookups, threshold 2, cooldown 2; two pages, two events, a list of one | `TypesOK`, `StatusTracksFailures`, `QueuedNotLost`, liveness: `CircuitRecovers`, `QueueDrains` |
| `serving` | 0.8 million | two decisions, two handlers, two versions, limit 2; two SDK clients with two evaluations, every trigger and display mode; a decision request, an event and its retry, two of them per window, two settings requests, two syncs at once | `TypesOK`, `CacheHasNewestAssets`, `CacheHasServedVersion`, `MaxImpressionsEnforced`, `OncePerWindow`, `DeliveredAtMostOnce`, `SyncNotForgotten`, `ToldIsKept` |
| `decisions` | 0.4 million | graphs of one and two nodes, validated graphs of three, a chain of five, limits 3 and 4; lists of two branches; stacks of three steps, a surface of two rules, two profiles; the native store with three requests, two connections, two drafts | `TypesOK`, `NeverTooDeep`, `NoDanglingRoute`, `NoCircularWalk`, `FirstTrueBranchDecides`, `StackTraceSound`, `ReadyStackDoesNotFail`, `SurfaceSelectsBest`, `DurableUnlessOverlapped`, `SignedWasReviewed` |
| `editing` | 1.3 million | two items, two handlers at once, three handlers in all; conditions of up to three leaves in two levels over values of every type, with and without outer blanks, and typed definitions with unsupported names; plans of two actions; two rules and three messages in two campaigns | `TypesOK`, `TextStaysWithItem`, `OnlyTypedNamesRefused`, `ConfirmedIsDone`, `SavingUntouchedKeepsOutcome`, `RollbackRestores` |
| `rule_expressions`, `snapshot_duplicate`, `shed_errors`, `sdk_dismiss`, `event_rate_limit`, `native_publish` | | parts of the above | *violated*, see below |

Deadlock is checked in `rule_sets`, `snapshot_store` and `recovery`. The other
runs have parts that stop: the page has made its calls, a request has been
answered, a walk is decided, and the bounds leave nothing to do;
`CHECK_DEADLOCK FALSE` says so.

Why the bounds are enough. The lifecycle invariants speak of one rule set, whose
only link to another is a copy; two definitions tell "the same" from "another",
two versions suffice to roll back past one. Two saves overlap in every way two
can with two requests and two processes. Two of three late lookups straddle
the threshold. A list of one with two events fills up and is
overwritten. One evaluation in flight, one change being saved and one more of
each is what the cache races need. Two clients with one placement have every
overlap of two evaluations; an event and its retry every overlap of two handlers
of one event id. Three nodes make a circle of every length below four and a path
through every pair of node types; three operands show the two ways operators
nest. Three requests on two connections are a transaction, one that tears it
apart and one that sees the outcome. Two handlers are a late answer and what it
is late for. Beyond these instances stand the theorems.

Every property of a passing run has a mutant that breaks it, for instance
an edit that keeps the approval, a statement that ignores the revision, a cache
that is not cleared, a flush that takes any answer, a duplicate that goes on to
its delivery, a validator that accepts circles, a failed stack step that counts
as evaluated, a hash taken from the store's read, a delivery that is queued before the save, list items that keep their blanks.

### What the violated runs show

- `rule_expressions`: `false && x` and `true || x` throw, because the parser that
  should read past `x` is not called (`src/src/expression.js:37`, `:43`). The
  definition's fallback or a later branch decides instead.
- `snapshot_duplicate`: an event whose save failed stays in memory, its retry
  is answered "duplicate" without a save, and a crash loses it
  (`src/src/server.js:385`).
- `shed_errors`: with mode `shed` the lookup error count, which only grows, sheds
  all decisions until the process restarts (`src/src/loadShedding.js:111`).
- `sdk_dismiss`: a decision with a dismiss behavior that reads the ledger is
  never rendered when storage works, because `dismissKey` calls a function
  that is not in scope (`src/docs/dee-web-sdk/dee-web-sdk.js:1392`).
- `event_rate_limit`: an event over the limit ends the process
  (`src/src/server.js:380`).
- `native_publish`: two overlapping requests leave an acknowledged publish
  uncommitted (`src/src/storePostgresNative.js:1801`).

Behaviour that no document contradicts, found on the way and named in the
properties' exceptions or in the models: the validator accepts a frequency cap without a
capped route, where a capped profile gets the fallback; it drops routes of
blanks, which the evaluator follows to "Graph node not found" (`validation.js:530`
against `evaluator.js:165`, `:280`, `:196`, `:311`); an import that configures schema
syncs schedules none until the next `PUT /v1/settings` or restart, and neither
does an edit whose save fails; a process that shuts down may exit before a
handler whose client hung up has saved; the page lets through what the server
refuses (unsupported sources and operators typed as JSON, undeclared inputs, more than 100
branches, blank results, outputs that are no object); a value or list item with
outer blanks loses them when its rule is opened and saved untouched; a save
first writes the draft field from the builder, so a definition the page cannot
show there (a `not`, an expression) is overwritten by the fields of an earlier
one, and when the builder's fields are refused the older draft is saved without
a word; the rollback list of an assistant plan is applied
forwards, so a plan with two actions on one item is not taken back; message ids
whose copies get one id collide in a campaign duplicate; a condition without a
value is saved untouched with the empty string as its value; when the builder
refuses a definition it keeps the previous rule's fields, and the next save
sends them (`app.js:13592`); a confirmed review publishes whichever rule is
selected when the conflicts have been loaded (`app.js:6525`); stack readiness asks for
a published version and not for the pinned one; a candidate that throws fails
its whole surface.

### Fairness

- `ProfileLookup`: weak fairness of `Admit(r)` (browsers keep asking), of
  `Handle(r)` (the event loop and the timeout of `fetchWithTimeout` carry a
  request on) and of `Tick`. The Profile API is under no obligation:
  `CircuitRecovers` and `ShedIsTemporary` assume in their hypothesis that it
  stays up.
- `EventQueue`: a post is answered or times out, a flush goes on while its page
  is open, and visitors keep initialising the SDK, which is what the design of
  the queue relies on. `QueueDrains` assumes that the endpoint is up for good and
  pages stay open.

In `recovery` each part has its own fairness and no other.

## 4. Proofs

All theorems are `Spec => []...`, `Spec => [][...]_vars` or a refinement, for
every value of the constants within the modules' named assumptions. An
assumption says that a bound is a positive number, that a null value is no
value, that ids and profiles are finitely many, or what the code makes sure of:
`NodeLimit < StepLimit` (200 nodes, 220 iterations), the copy of a rule is a
rule and of a message a message (`AssetsAssumption`), conditions are what the
store holds (`BuilderAssumption`), expressions are sentences of some language
(`DefinitionAssumption`). TLC evaluates each of them.

- `RuleSetsProofs`. The invariants are not inductive alone: an approval reaches
  `publish` through rollback, duplicate and import, so versions and the bundle
  have to satisfy what rows do; and "signed" only grows. Proved operator by
  operator. `VersionsSafe` and `ArchivedSafe` are action properties.
- `SnapshotStoreProofs`. A statement whose base is the row's revision carries
  everything the row holds; what a process holds at its known revision contains
  the row of that revision; an accepted answer is for content that every later
  row contains. `Refinement` proves `Spec => ImplementsDurableStore`: each step maps
  to a step of `DurableStore` or to a stutter.
- `RecoveryProofs`, lookups. Type invariant and `StatusTracksFailures` are inductive
  together: only a success lowers the count, and it closes the circuit.
- `RecoveryProofs`, the queue. A flush replaces the list by one it built over many
  steps, so the invariant follows every event it has read: to do, to be written
  back, stored, or given up; and it bounds what a flush holds, since writing back
  cuts at the limit.
- `NativeStoreProofs`. For `SignedSafe`: a row with an approval is committed, in
  an open transaction, read by a request that will write it back, or in the
  server's own read; in all four places a reviewer asked for what is signed. The
  invariant follows the statements of each operation to know what an update
  writes. For `DurableSafe`: while no two requests have overlapped, the only open
  session is that of the one publish under way; it is on the connection the
  publish has, or will get with its next checkout, and holds what the publish
  has written so far. A COMMIT therefore commits just that, and what was
  acknowledged before is in the committed rows. For `NativeTypeCorrect`: a
  connection given back was in use, so it was not idle, and one handed out is no
  longer; the next version number is one more than the largest, which exists
  because the numbers are bounded (a least upper bound, by `LeastNumber`).
- `ServingProofs`, decisions. A step ends a period with an unacknowledged change
  only by clearing the cache; so a cache write has to be right only at its moment,
  which needs that the version an evaluation read still has its definition
  unless an import overtook it, and that no entry is ahead of the latest
  version. `ImpressionLimitSafe` assumes the scope `profile`.
- `ServingProofs`, the process. At most one handler is between the insert and the
  delivery of an event id, with a row and no delivery yet; a delivery that began
  has a row that survives a restart. What the collector has was delivered after a save, and what
  was answered with 202 was saved, so both are found by any restart. The sync invariant
  is inductive: every step that ends the wait for a timer sets it, or is one of
  the two that `unscheduled` names.
- `ServingProofs`, placement. Between the display of a version and its entry in
  the ledger nothing keeps another evaluation from displaying it but the order
  of the steps. The invariant says of each evaluation what it has checked, shown
  and recorded, and that two which are about the same version at once are in
  `raced`.
- `DecisionProofs`, graphs. The iterations of a walk count distinct nodes, so a
  graph within the node limit never uses up the loop; each route a node can take
  is one the validator found, which a per-node lemma states. For `CircleSafe`
  the validator's depth-first visit is unfolded along the path of the walk: it
  went on at every node the walk has passed, with those before it as its path,
  so a node met twice would have been reported.
- `DecisionProofs`, expressions and branches. The rows of a parse exist (built
  from the last position backwards) and each read ends behind where it began.
  By induction on the length of a sentence: wherever it stands in a text, what
  its level's function returns there is what the function returns after it with
  its value, or the parser has given up before a token that no loop takes.
  Hence `SentenceRead`: a whole sentence is read with its value, or throws, and
  it never throws if no left operand decides its operator (`UndecidedEvaluate`);
  and `DecidedThrows`: one whose last operator at the top is decided by its left
  operand always throws. So the violation of `rule_expressions` is a whole class
  of expressions, and nothing outside the decided ones throws. `BranchesSafe`
  lifts the reading to lists of branches of any length.
- `DecisionProofs`, stacks. A step's entry in the trace is written once and
  explains itself with the entries before it; a plan's places still to come lie
  behind all those evaluated, so rules that change in between cannot reorder
  them.
- `EditingProofs`, console. What is stored under an item was once in the form, in
  a request or in an answer, so the invariant says of every text of the page
  whose it is, and of every call that the text it carries is of the item that the
  handler will use it for.
- `EditingProofs`, builder. A field can be changed only to names the server supports,
  so the invariant says that only typing brings others in; level by level the page
  asks for all else the server asks of a condition. A draft that was opened is the one the fields came from; a group among its
  conditions leaves a row without a key, on which the page refuses to write, and
  a plain leaf comes back from its row as itself, which for lists needs that a
  concatenation of one-piece texts has just those pieces.
- `EditingProofs`, campaigns. A preview that nobody disturbed lists exactly the
  assets the loop will want. The dry loop collects the same assets in the same
  order as the real one; in the real one each iteration writes one row, and
  leaves the rows of the others as they were when the preview looked.
- `EditingProofs`, assistant. While a plan is applied its list tells of every row
  changed so far what it held before. While it is rolled back each row is as it
  was or has its entry still to come. The second loop stops at nothing, because
  every list, shown or on its way, fits the tables: no rule set an entry is about
  ever goes away.
- `RunSafe` of `RecoveryProofs`, `ServingProofs`, `DecisionRunProofs` and
  `EditingProofs`. Each step of a run with several parts is a step of one part
  that leaves the variables of the others alone, so the run's specification
  implies that of every part, and the invariants the run checks follow, its
  type invariant `TypesOK` among them. `MaxImpressionsEnforced` keeps its own
  theorem, which assumes the scope `profile`.

The graph visit, the parser and the loops of the campaigns and of the assistant
are recursive functions. The library's induction theorems take a predicate as a
parameter, which no prover here can instantiate; `LeastElement` and `AllNumbers` state induction for a *set* of
numbers instead, from the well-foundedness of `<`, and `RecursionExists` gives
the function that such a definition chooses.

Only model-checked: the liveness properties (`CircuitRecovers`, `QueueDrains`),
which are about fairness and ENABLED. Every other property of a passing run is
stated by a theorem.

## 5. What could come next

The other tables of the native store beside rule sets; the page's settings,
stack and experiment panels in the manner of `Console`; comparisons, arithmetic
and function calls as further levels of the parser.

## 6. Not modelled

- Shared runtime state (`runtimeState.js`): it is used only with
  `DEE_STORE_ADAPTER=postgres_native`. The store of that adapter has no
  `verifyApiToken`, which `auth.js:19` calls for every request with a bearer
  token, so such requests end in a 500 before they reach the shared cache or
  limiter. `NativeStore` is about the adapter's own methods, which its tests call.
- Experiments: variant buckets are hashes, adaptive weights are statistics over
  real numbers; a model would restate the arithmetic.
- Authentication: one lookup by hash and scope checks, without steps in between.
- Message rendering, diagnostics, metrics, HTTP plumbing, configuration, and most
  of `app.js`, which builds HTML: text, counters and pure I/O.
- Within modelled components: seeding and the visual editor's token sessions
  (rule sets); latency, error-rate and database pressures (load shedding);
  entries and expiry of the profile cache; migrations and the other tables of
  the native store; the sections of an import other than rule sets; comparison
  and arithmetic in expressions, score totals, most leaf operators; merged
  outputs of stacks; lookup tables of a campaign; what a schema sync writes;
  decision feedback, which is delivered as survey events are.

The map covers about an eighth of the repository's lines. The rest is mainly the
page's rendering (`app.js` is 16,700 of 37,500 lines), SQL text for tables that
behave like those modelled, and the parts above.
