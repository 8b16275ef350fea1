# Verification of the data-centre visitor application

TLA+ modules, TLC configurations and TLAPS proofs for the back end (FastAPI,
SQLAlchemy, PostgreSQL), the schema migrations and the browser client of the
onboarding application: its session and its list pages. Paths without a prefix are relative to
`backend/app/`.

## 1. The system

Staff sign in with Microsoft Entra. ADMIN and OPS submit visitor requests for a
customer company (one request, one or more visitors, one visit date); ADMIN
approves, ADMIN/OPS reject or cancel. On the day SECURITY checks visitors in
during the approved window, denies them entry, or checks them out. A background
worker writes off visitors who never came. Every change is audited in the
transaction that makes it. Every protected call also needs an application
session that is open and not idle; a second worker times idle sessions out.

All shared state is in PostgreSQL. Handlers run on a thread pool, several
processes may run, and each process has two daemon threads. What keeps them
apart is row locks (`SELECT ... FOR UPDATE`, `SKIP LOCKED`) taken in one order,
and reads repeated under the lock (`populate_existing`).

### Inventory

| Component | State | Operations | Interacts with | Hard behaviour | What makes it correct |
|---|---|---|---|---|---|
| Requests (`modules/requests/service.py`, `router.py`) | `requests.status` | submit, approve, reject, cancel, list, detail | visitors, audit, companies, contacts, session | two reviewers, reviewer against door or sweep; lost answers and retries | one decision per state, made on current rows; legal histories |
| Visitors / security portal (`modules/security_portal`) | `visitor_access_requests.visit_status` | check in, check out, deny, list, detail | parent request, audit, site clock | clock moves between validation and commit; cancelled meanwhile; lock order | arrival decided once under an approval; a person inside can leave |
| Visit expiry (`modules/requests/expiry.py`) | none of its own; thread, stop event | sweep, start, stop | requests, visitors, audit | old snapshot, skipped rows, failure in the middle, overlapping sweeps, stale date | writes off only who is overdue now; comes back to what it skipped |
| Audit log (`modules/audit`) | append-only rows | record, list, export | every writer | rollback, retry, late commits behind a cursor | rows and statuses agree; an export is complete |
| Application sessions (`modules/session_events`, `core/dependencies.py`) | `user_session_events` | start, heartbeat, activity, end, check, sweep | every protected call | end, timeout and activity race; the check is old when the call commits | open while in use; ended once, for a cause; idle ones end |
| Worker threads (`main.py`, start/stop functions) | stop events, handles | startup, shutdown | both sweeps | join gives up after 5 s, restart in the process | never two, never none while up |
| Companies, contacts | rows, unique code | create, update, list | submissions, audit, the browser's picker | check-then-insert, audited differences, pages of different snapshots | unique codes, chained histories |
| Entra token, roles (`core/security.py`, `core/dependencies.py`) | one-entry key cache | validate | every call | key rotation under concurrent look-ups | a published key is found, every call answered |
| Dashboard (`modules/dashboard`) | none | two summaries | requests, visitors | counts of different instants | nobody is lost between two counts |
| Browser session (`frontend/src/App.tsx`, `auth/`, `api/client.ts`) | tab's session id, lock flag, timers | bootstrap, activity, heartbeat, finish | session routes | debounced reports, wake-ups, several endings at once, reloads | what was given up stays so; never more idle time than the server counts |
| Browser lists and dialogs (`frontend/src/pages`) | rows, read version, busy flags | load, filter, act | list and action routes | answers out of order, double confirmation | newest read shown, an action sent once |
| Request deadline (`api/requestDeadline.ts`) | timer, settled flag | call, cancel | every browser call | timeout, cancel and answer race | settles once |
| Schema migrations (`alembic/versions`, `env.py`) | revision, schema, data | upgrade, downgrade | every table, releases still serving | hand-written downgrades, failures in a chain, writes in the window before the restart | every step applies, the schema is the revision's, the data keep their rules |
| Deployment scripts, configuration | images, settings | run by operators | migrations | order of migration and restart | outside the running program |

`PROJECT.json` lists the hazards at their lines with the properties that cover
them.

## 2. Modules

| Module | Role |
|---|---|
| `VisitData` | constants, assumptions and statuses shared by the next two |
| `VisitProtocol` | **abstract**: what one committed transaction may do to requests and visitors |
| `VisitWorkflow` | **detailed**: the same as transactions with locks, snapshots, a clock, failures, the sweep and the audit rows; implements `VisitProtocol` |
| `VisitViews` | the security list, the requests list under its filters and the two dashboard summaries over `VisitProtocol` |
| `AppSession` | session rows, calls that hold a session, the timeout sweep, the clock |
| `WorkerLifecycle` | start-up and shutdown of the two worker threads |
| `Directory` | companies and contacts: creation and editing, the unique code, audited differences |
| `Submission` | a submission beside `Directory`: unlocked reads, the number sequence, midnight |
| `AuditReading` | **abstract**: what a reader of the growing audit log is promised |
| `AuditTrail` | **detailed**: late commits, the timeline page, the export in batches; implements `AuditReading` |
| `TokenGate` | the key cache shared by threads, the checks every request passes |
| `SchemaSteps`, `Migrations` | the 24 revisions both ways; chains of them with the releases that write meanwhile |
| `ListPage` | a list page of the browser with its dialog, `requestDeadline.ts` and the call wrapper of `client.ts` |
| `BrowserSession` | one browser tab: bootstrap, idle monitor, heartbeats and reports, the end of its session, reloads |
| `MC...` | constants for TLC |
| `...Proofs` | TLAPS proofs: `VisitProtocolProofs` (also of `VisitViews`), `VisitWorkflowProofs`, `AppSessionProofs`, `DirectoryProofs` (also of `Submission`), `AuditTrailProofs`, `ListPageProofs`, `BrowserSessionProofs`, `ServiceProofs` (of `WorkerLifecycle`, `TokenGate` and `Migrations`) |

Definitions whose name follows a comment that begins with *Mutant* are faulty
variants of the definition below them. No specification uses them: substituting
one for the original makes the property that `PROJECT.json` names fail, which
shows that the property depends on that line of the code.

### VisitWorkflow and the code

A transaction of a handler is a record in `job[h]`: its program counter, the
operation, the row ids, and the statuses it read (`seenReq`, `seenVis`). A sweep
is a record in `sweep[w]`: the date it computed, the candidates it has still to
lock (`todo`), the requests it locked (`chosen`) and the visitors it will write
off (`lapsed`).

| Code | Actions |
|---|---|
| `create_visitor_access_request` | `BeginSubmit`, `Decide`/`Refuse`, `CommitSubmit` |
| `get_request_for_update`, then `approve`/`reject`/`cancel_request` | `BeginReview`, `LockRequest`, `Decide`/`Refuse`, `CommitReview` |
| `get_security_visitor_for_update`, then `check_in`/`check_out`/`deny` | `BeginDoor`, `LockRequest`, `LockVisitor`, `Decide`/`Refuse`, `CommitDoor` |
| exception, lost connection, killed process, `get_db`'s `close` | `Abort`, `SweepFail` (roll back, release) |
| `expire_past_visits` 21 / 22-29 / 30-32 / 33-43 / 59 | `SweepBegin` / `SweepScan` / `SweepLock`, `SweepSkip`, `SweepRows` / `SweepVisitors` / `SweepCommit` |
| `site_today`, `get_site_now` | `today` and `phase`, moved by `Tick` between any two statements |

A commit writes the row and its audit row and releases the locks in one step, as
the database does. `SweepLock` follows PostgreSQL at READ COMMITTED: a row that
changed since the statement's snapshot is read again under the lock and only its
own condition (status APPROVED) is re-evaluated, not the subquery on visitors;
the visitors are then read by a second statement. `SweepSkip` is `SKIP LOCKED`.
The sweep updates each request's visitors in its object session; the writes
reach the table at commit, when they become visible.

Left out: times and notes on the rows, identity check and host/company
validation of a submission (each of them an `Abort` without effect), reads for
display, the session row that each call also holds (`AppSession`).

`EXPIRED` is a status no code writes any more; rows an earlier release wrote
exist (`Legacy`), and the code must leave them alone.

### AppSession and the code

One record per handler and worker in `job[p]`. `Call` starts one of start,
heartbeat, activity, end or a protected ("business") call, for any user and any
row, so foreign and legacy rows are tried too. `LockSession`/`NotFound` are
`get_actor_session`; `CheckEnded`, `CheckTimesOut`, `CheckPasses` are
`require_active_session`; `Stamp` is the second clock reading before a write.
A dependency and its handler share one database session, so the row stays locked
from the check to the end of the handler. `expire_inactive_sessions` runs in the
worker and, in a transaction of its own, at the beginning of start and end
(`SweepClock`, `SweepScan`, `SweepMark`, `SweepSkip`, `SweepCommit`).
`last_seen_at`, which no rule of a tracked session reads, is left out.

### WorkerLifecycle and the code

`main` walks through `start_background_workers` and `stop_background_workers`;
`stop`, `worker` and `loop` are the events, handles and threads. A join returns
at once unless the thread is in the database, and may then give up. A startup
after a shutdown in the same process (an application object started again, as
test clients and embedding servers do) keeps the module state; `NewProcess`
resets it. Exceptions out of `rollback` or `close` themselves are not modelled.

### VisitViews and the code

`SecurityVisible` is `security_visibility_filter`, `Filtered` the status filter of
`list_requests`, `ShownStatus` is `preserve_review_decision`. A dashboard summary
is four statements at READ COMMITTED: `AskSummary` reads the site's date once,
each `Count` takes one count from the tables as they are then. The counts are
kept as the sets of rows counted, so that a property can say who was missed. The
tables move by the actions of `VisitProtocol`, which `VisitWorkflow` implements.

### Directory, Submission and the code

`modules/companies/service.py` and `modules/contacts/service.py` follow one
protocol, so one set of actions serves both; the request of a client is the
record `tx[c]`.

| Code | Actions |
|---|---|
| `get_company` / `get_contact` in the router | `UpdateCompany`, `UpdateContact` (unlocked read) |
| `db.refresh(..., with_for_update=True)` | `Lock` |
| the loop over changed columns, `customer_code_exists`, the e-mail look-up | `Check` |
| flush: the INSERT or UPDATE is sent, waits in the unique index, conflicts | `StartWrite`, `Write` |
| `record_audit_log`, `db.commit` | `Commit` |
| `create_company` (with its main contact), `create_contact` | `CreateCompany`, `CreateContact`, then as above |
| lost connection | `Rollback` |

`BlockedBy` says which transactions a statement waits for: the holder of the row,
a contact's insertion that shares its company's row, another uncommitted entry
of the same code in the unique index. A column without a rule behaves like any
other, so `status` stands for all of them.

`Submission` adds `create_visitor_access_request` statement by statement
(`ReadCompany`, `ReadHosts`, `TakeNumber`, `Insert`, `CommitRequest`), `Midnight`
between any two, and restricts `Directory`'s `Next` (`Edit`) by the share of the
company row that an inserted request holds until it commits.

### AuditTrail, AuditReading and the code

A record's `at` is the begin of its transaction (`created_at` defaults to
`now()`), and it appears at `Commit`, so later than records with greater times.
`AskPage`, `CountPage`, `ReadPage` are the timeline: a count, then the rows, by
`list_audit_logs`; `AuditPage.tsx` asks for the last page when there are fewer.
`StartExport`, `FetchBatch`, `FailBatch` are `loadAuditExport` (`auditPagination.ts`)
over the cursor of `list_audit_logs`. The refinement maps an export of the range
`Watched` to a reading of `AuditReading`, and exports of other ranges to none.

### TokenGate and the code

`Look`, `ProviderAnswers` and `Store` are `get_entra_jwks` under `lru_cache`, taken
apart where another thread can come in between: the cache is empty when it is
asked, the provider answers, the answer is stored unless another was stored
meanwhile. `Clear` is `cache_clear()` and the second look-up. `Checked` is the
order of `decode_entra_token`'s claims, the roles, the session and the route's
roles; what a claim contains is right or wrong.

### SchemaSteps, Migrations and the code

Each revision is a record of columns, indexes and constraints added and dropped;
`Applicable` is what PostgreSQL demands before it runs one. `Upgrade` and
`Downgrade` apply one revision within a chain (`run`), which is one transaction
(`env.py`); a failing step or a lost connection undoes all of it. `Models` is the
schema that the ORM declares. Data: numbers and sizes of requests, and the rows
of sessions through their shapes (events, sessions, owned sessions). `Restart`
and the variable `mixed` stand for `deploy_release.sh`, which migrates while the
former release serves.

Left out: types, lengths and server defaults (the downgrades of revisions 11 and
14 restore columns with other server defaults than the upgrades had given them),
the copies of display and actor fields in 0010 and 0019, and PostgreSQL's names
of constraints.

### ListPage and the code

`reads` and `posts` are the calls under way. The version counter of
`RequestsPage.tsx` and `SecurityPage.tsx` is kept as whether a read is still the
newest. `Load` begins a read, `Deliver`, `FailRead`, `Ignore` end one. The field `answered`
of `page` is no state of the program: it records which query the rows shown were
the answer to, for `ShownFitsTheQuery`.
`OpenAction`, `Confirm`, `Close` are the dialog; `Send` (the token is there),
`Serve` (the server acts), `Answer` and `GiveUp` (`withDeadline`, or the network)
are a call. `OtherActs` is other staff. A 401, which locks the session and leaves
the page, is left out.

### BrowserSession and the code

`tab` is `sessionStorage` (the signed-out mark and the session id, by
`applicationSession.ts`); everything else of the tab is lost by a `Load`. `open` is
`checkAuth`: `OpenSession` stands for its awaits up to the session request,
`ServeOpen` and `OpenAnswered` for the request, `FailOpening` for any failure or the
30 s deadline, after which `assertActive` lets nothing that still runs go on.
`idle` is `startInactivityMonitor`: `StayActive`, `Report` (the 500 ms timer) and
`Check` (the 1 s timer, or the tab coming into view), which may all be late
without bound. `Finish` is `finishSession`; `page.stage = "ended"` is `endingRef`.
Heartbeat, report and end call go through `Send`, `Serve`, `Answered`, `CallFails`;
what nobody waits for any longer may reach the server later (`adrift`).
`CallRefused` is a 401 on a page's own call (`client.ts:39`), served and answered in
one step, since a refused session stays refused. The server's side is
`AppSession` reduced to one step a call, which its row lock makes it.
`SignOut` is also a token that Microsoft will not renew silently. Left out: the
displayed warning, and a tab duplicated by the browser together with its storage.

## 3. What is checked

| Run | Instance | Shows |
|---|---|---|
| `visits` | a party of two, a single visit, a request expired by the former release; days 0-2 | `OutcomesMatchDecisions`: attendance agrees with the decision and the date; `ListsMissNothing`: who is inside is on the security list unless the request was cancelled, and a filter finds a request under the status it is shown with; `SummariesMissNothing`: who moves between two counts of a summary is not lost |
| `workflow` | 1 visit, 2 handlers, 1 sweep, days 0-1 | the lock order (`ParentGuardsVisitors`), no decision on rows that changed (`HandlerReadsHold`, `SweepReadsHold`), `AuditExplainsStatus`; `DeparturesAccepted`: a check-out of a person inside is never refused, not after the request was cancelled and not on a later day; the refinement `ProtocolSpec`; `CallsEnd`: no deadlock, no endless wait; `OverdueSettled` |
| `workflow_expired` (violation) | the same | `FinishedRequestExpires` fails, see section 5 |
| `sessions` | a session and a legacy row, 2 handlers, 1 worker, timeout 1 | `OpenWhileInUse`, `SessionsEndForCause`, `EndIsFinal`, `IdleSessionsEnd` |
| `worker_lifecycle` | 3 threads of each kind | `OneWorkerEach`, `SessionWorkerWhileUp` |
| `directory` | 2 clients, 2 companies with main contacts, 2 codes | `CodesDistinct`; `AuditTellsTheChange`: the audit rows are the true difference of the committed rows; `RequestsEnd`: no deadlock, not even when two editors exchange codes |
| `submission` | a company, its main contact and one more, 1 editor, 1 submission, a midnight | `EligibleDuringCall`: each rule of a submission held at some moment of its call |
| `audit_trail` | 2 writers, 5 ids, 2 old records, batches and pages of 2, two date ranges | `ExportNeverRepeats`, `ShownPageNotEmpty`, `ExportEnds`, the refinement `ImplementsReading` |
| `token_gate` | 2 threads, 2 keys, tokens and routes that pass and fail | `SettledKeyFound`, `CallsAnswered` |
| `migrations` | all 24 revisions, chains to 6 of them, 2 requests and 2 session rows | `SchemaSound`: every step of a chain applies, the schema is the revision's and at the head the models'; `DataFitsRevision`, `MergeKeepsLastSeen` |
| `list_page` | 2 items, pages of 1, 2 reads and 2 actions under way | `ShownFitsTheQuery`: what is shown, an empty list included, is the answer to the filter and page number in force; `ShownIncludesOwnActions`: no row offers an action that has succeeded here; `OneActionAtATime`, `GivenUpNeverSent`, `ActionEnds` |
| `browser_session` | 2 session ids, timeout 2, times 0-3 | `IdleClocksAgree`: with no report due and no failure shown the server has counted the activity the page counts, also after a reload; `GivenUpStaysSo`: a session the tab gave up never comes back from its storage; `NothingSentOnceOver`; `IdlePageEnds`: no input, also in a tab that was suspended, brings back a page idle for the timeout, and it ends |

The type invariants are proved (section 4).

`ListsMissNothing`, `SummariesMissNothing`, `SchemaSound` and `DataFitsRevision`
are conjunctions of named parts; each part is documented where it is defined.

### Bounds

`MaxDay`, `MaxTime`, `MaxNow`, `MaxStarts`, `MaxNumber`, `MaxRows`, `MaxReads`, `MaxPosts`, `Pages`,
`Targets`, `Edited`, `Tokens`, `Routes`: each stops its clock or counter, or
enumerates inputs, never another action.

* Workflow: the visit is on day 0 and day 1 is overdue. Two handlers and a sweep
  have every pair of a holder and a waiter of the two rows. Liveness and safety
  are checked together, so the instance is as small as liveness needs it.
* Sessions: timeout 1 with times 0-1 has a session touched within its timeout and
  left idle for all of it.
* Directory: with two codes and two companies both can be exchanged. The run edits
  codes only; the theorems (section 4) cover the other columns. The company codes
  differ in case in no instance: see section 5.
* AuditTrail: batches of two over up to five records give full, short and empty
  batches; two moments let a record commit behind a cursor and two share one.
* TokenGate: two keys, one published late; a third thread adds only another
  storer of an answer.
* Migrations: the chains lead to the revisions around those that touch data (0,
  7, 14, 17, 20, 24) and pass through all others; two rows make a login and a
  heartbeat, two requests a party beside a single visitor.
* BrowserSession: timeout 2 at times 0-3 has inputs and reports within the
  timeout, one left idle for all of it, and a second session after the first.
  The number of reloads, inputs and calls is not bounded.
* ListPage: two items of pages of one have a page that goes; two reads and two
  actions are one newer and one older of each.

No run uses symmetry. The safety results do not rest on these bounds where a
theorem covers them (section 4): parties and overlapping sweeps of several
processes, which the instance of `VisitWorkflow` leaves out, are in the theorems, and
parties also in `visits`.

### Fairness

* `CallFairness` (for `CallsEnd`): a started call goes on (WF), a row lock that
  becomes free again and again is granted at last (SF: PostgreSQL queues the
  waiters of a row), and the worker thread runs (WF). Nobody has to start a
  call, and no call has to fail.
* `SweepFairness`, `WorkerFairness`: the worker loop runs for ever (it catches
  every exception and sleeps 60 s), and failures are not permanent: infinitely
  often a whole sweep commits. A sweep never waits for a request or session row
  (SKIP LOCKED), so this asks nothing of the handlers.
* `OverdueSettled` and `IdleSessionsEnd` assume in the formula that handlers do
  not hold the row's lock for ever on. Without it `SKIP LOCKED` allows traffic to
  starve a row, which is a property of the code. They are stated with one
  worker: the sweeps of two processes may keep skipping each other's locks and
  fail in turns.
* `Directory`: a thread whose statement may go on does (WF), a queued lock is
  granted at last (SF on `Lock` and `Write`).
* `TokenGate`: a thread goes on (WF); `urlopen` has a timeout, so a fetch ends.
* `AuditTrail`: the export asks for the next batch as soon as it has one (WF).
* `BrowserSession`: the monitor's timer runs again and again (WF on `Check`);
  nothing is asked of the network or the user.
* `ListPage`: timers go off (WF on `GiveUp`, on `FailRead`); no answer is ever
  promised.

Deadlock is checked in every run.

## 4. What is proved

For every set of requests, visitors, dates, handlers and workers
(`ParentAssumption`, `VisitDateAssumption`, `LegacyAssumption`,
`MaxDayAssumption`, `ProcAssumption`):

* `VisitProtocolProofs!ProtocolSafe`: `InsideMayLeave` (a person inside came on or
  after the date, under an approval; the run `workflow` checks what follows from
  it, `DeparturesAccepted`) and
  `OutcomesMatchDecisions` of the abstract protocol; inductive together with
  `TypeOK`.
* `VisitProtocolProofs`, of `VisitViews`: `ViewsTyped`, `OutcomesFollow`
  (`OutcomesMatchDecisions`, the same invariant under the specification that the
  run `visits` checks), `ListsComplete` and `SummariesComplete`. The lists need `ExpiredIsOver`: the previous release
  expired requests only after their visit, so the security list, which shows an
  expired request once its date has passed, shows everyone still inside on one. The summaries need `NobodyLost` and `NoRequestLost`: the counts are
  taken in the direction in which people and requests move, and nobody moves
  back, so whoever an earlier count missed a later one finds.
* `VisitWorkflowProofs`: `TypeCorrect`, `ParentFirst`,
  `HandlersReadCurrentRows`, `SweepsReadCurrentRows`, `AuditComplete`,
  `Implementation` (`Spec => ProtocolSpec`), and from the last and
  `ProtocolSafe`, `WorkflowSafe`: the abstract invariants hold of the detailed
  system. `NobodyKeptIn` (`DeparturesAccepted`) follows: what check-out has read
  under its locks is committed, and whoever is inside came no earlier than the
  date.

The inductive invariant `IInv` of `VisitWorkflow` is the type invariant, the
three lock and read properties, and what they need to be preserved:

* `HandlerLocks`: a handler's locks are only on the rows its job is about, and
  only after the statement that takes them;
* `JobRows`: the rows a job names exist, except a submission's, which does not
  exist yet; a door action's request is the `Parent` of its visitor;
* `FreshIds`: two submissions never carry the same id; without it one could
  overwrite a row that somebody has read;
* `Decided`: a job about to commit has established the validation of its
  operation, and a door action that the visit's date has come;
* `SweepShape`: a sweep looks back from a day that has come, and has chosen and
  written off nothing before the statements that do so;
* `RowsTogether`: visitor rows exist exactly when their request does.

A step of one process leaves what another has read alone because every write to
a row is by the owner of its lock, and a visitor's lock is only ever held
together with its request's. `AuditComplete` and `Implementation` use the
invariant: a commit finds the status it validated, so it appends the next
element of a legal history and is a step of the abstract protocol. The date part
needs that dates only grow: check-out's and check-in's `DateOf(v) <= today`
stays true from the validation to the commit, and an overdue visit stays
overdue. Every other step leaves requests, visitors and the date as they were,
or is `NewDay`.

For every set of sessions, users, handlers and workers and every timeout
(`SessionAssumption`, `TimeAssumption`, `NoneAssumption`), `AppSessionProofs`
shows `TypeCorrect`, `SessionsOpenInUse`, `EndsAreFinal` and `EndsHaveACause`. Its
`IInv` says of each process what it may rely on: `CallNames` (a call names a row
of the table, a start one that is not there), `CallHolds` (from the check on, the
row is locked and its user's own; once passed, or about to be ended, it is open),
`SweepOwns` (a sweep has locked what it marked, and each of it is still stale at
the instant the sweep read), `FreshStarts` and `BlankRows` (a row not inserted is
empty and unlocked). `Disciplined(p)` states once what every step of `p` leaves
alone; `DisciplineInv` derives the invariant of everybody else from it, so each
action is only examined for the process that takes it. `EndStep` then gives both
action properties.

`ServiceProofs` (`MaxStartsAssumption`) shows of `WorkerLifecycle`
`WorkerTypeCorrect`, `NeverTwoWorkers` and `SessionWorkerServes` for any number of restarts, from the invariant that a handle
names the only live thread of its kind: a handle is dropped only when no thread
is left, and a thread is launched only then.

`DirectoryProofs` (`DirectoryAssumption`, `SubmissionAssumption`) shows for any
number of clients, companies, contacts and keys:

* `TypeCorrect` and `EditsAreSerial` (`LockedReadHolds`): from its lock to its commit an
  edit works on the committed row. The invariant says of each client whether it
  creates or edits, and of each pair that they are apart: two creations carry
  different ids, two editors past their locks different rows.
* `CompaniesDistinct` (`CodesDistinct`): a transaction past its `Write` has its code in
  the unique index, so no other, committed or not, has or gets it.
* `AuditReplays` (`AuditTellsTheChange`): at a commit the locked content is the
  committed one, so what is recorded as changed is what changes.
* `EligibleThen` (`EligibleDuringCall`) and `SubmissionTypes` for `Submission`.

`AuditTrailProofs` (`TrailAssumption`) shows `TypeCorrect`, `ExportsComplete`,
`NeverRepeats` and the refinement `ReadsTheLog` for every batch size and any number
of writers. The lemmas order a finite set of records by `Newer` (a finite set
under a strict order has a first element; the first chunk is the newest part of
a set, and all of it when short). The invariant: what an export has is not
behind its cursor, and what was there when it began it has or will find behind
it. Late commits only add records, so they disturb neither part. `ShownNotEmpty`
(`ShownPageNotEmpty`) needs that what was counted is still there when the page is
read (`CountedThere`), and that a set of n records has one of every rank below n
(`RankExists`, by taking away its last element): the page that begins before the
count's end has a record.

`ServiceProofs` (`GateAssumption`) shows of `TokenGate` `GateTypeCorrect` and `SettledFound`: while a
settled call is under way its key is published, no answer on its way to the cache
lacks it, and once the call has cleared the cache and looks again, the cache is
empty or has it.

`ListPageProofs` (`ListAssumption`) shows `TypeCorrect`,
`ShowsTheQuery` (`ShownFitsTheQuery`), `ShowsOwnActions` (`ShownIncludesOwnActions`), `ActsOnceAtATime` and `NeverSentLater` for any list and page size. The invariant:
the newest read is the only one that asks the query in force, and its rows, like
those shown, fit that query and offer nothing that succeeded here; what is shown
was the answer to it; while a call
waits, or a dialog asks, no read is awaited, and the item is one whose action
has not succeeded. An answer that reports success supersedes every read before.

`BrowserSessionProofs` (`TabAssumption`) shows for any number of sessions, reloads
and calls, and any timeout and clock, `TypeCorrect`, `ClocksAgree` (`IdleClocksAgree`),
`NeverBackInUse` (`GivenUpStaysSo`) and `NothingSentLater` (`NothingSentOnceOver`).
None of them is inductive alone. The invariant `IInv` adds `TimesPassed` (nothing is
remembered from the future), `OpeningFits` (an answer to a bootstrap leaves no more
idle time than the server's clock does, and time that passes while it travels is
taken off), `CallsFit` (only a page that is signed in makes calls, about its own
session), `Counted` (what the page counts is reported, or about to be, or shown as
failed, or counted by the server) and `NeverBack` (a session named by the page, the
tab or a bootstrap is known to the server, so it is never given out again, and none
of those given up is named).

`ServiceProofs` (`MigrationAssumption`) shows of `Migrations`, for any users, times,
rows and targets, `SchemaTypeCorrect` (`TypeOK`), `DataFollows` (`DataFitsRevision`) and
`LastSeenKept` (`MergeKeepsLastSeen`). The invariant `SchemaInv` states the data's rules of any
database (`Fit`) and asks them of two, the one of the open transaction and the one
to which a failed chain returns (`ChainOK`): a chain goes one way from where it
began, so a lost downgrade is the only way besides an upgrade to come from
revision 14 to 15, and brings back the rows it had not touched. To `Fit` belongs
`BeatsInOrder`: a heartbeat row since a login is no earlier than what the login
already carries. Rows are written in the order of their times and a downgrade
splits them, so it holds at every revision; without it the merge could set a
login's heartbeat back. `UpStep` and `DownStep` show once, for any database in order,
what one revision hands on; `MergeSeen` shows that the greatest moment of a user is
among the rows merged exactly if it was before.

`SchemaFollowed` (`SchemaSound`) is proved for every target, where the run takes six.
The schema of a revision is written down outright: `Cols(r, r)` and `Marks(r, r)` are
the unions of the pieces whose first and last revision enclose r. `ColumnsOf`,
`MarksOn` and their companions say on which tables and columns each piece is; from
them follows, for each of the 24 revisions, what it shares with the one before, and
that what it takes away or adds bears no name that stays (`Revision1` to
`Revision24`). `Works` shows once what such a change leads to, tables that go
included, so every upgrade and every downgrade applies to the schema of its
revision and leads to its neighbour's (`AllLead`). `SchemaAt`, which is recursive, is
therefore this function: where the two differ there would be a least revision at
which they do (`ChainIs`). The invariant `SchemaFollows` asks that the database, and
the one a failed chain returns to, have the schema of their revision.

Model-checked only: liveness (`CallsEnd`, `OverdueSettled`, `IdleSessionsEnd`,
`RequestsEnd`, `ExportEnds`, `CallsAnswered`, `ActionEnds`, `IdlePageEnds`), which is
out of the prover's reach. Every safety property of the runs is proved.
`FinishedRequestExpires` does not hold.

## 5. Disagreements and observations

`README.md:19` and `README.md:28` say that a finished request becomes EXPIRED.
`requests/expiry.py:58` keeps the approval ("the ADMIN approval/rejection decision
is retained") and no statement writes EXPIRED. `workflow_expired` shows a
finished request that stays APPROVED.

`frontend/src/api/companyLookup.ts:4` promises "the complete company directory,
never a silently truncated picker". The loader accepts what it has once its size is
the page's total, and the server counts and reads in two statements.
When a company commits between the count and the rows of a directory of one full
page (100 companies), it comes first and the oldest is pushed off the page; the
sizes agree and the picker lacks it until it is loaded again. This comes from
reading the code and no run shows it.

`frontend/README.md:53` says that stale reads are ignored. In
`frontend/src/pages/companies/CompaniesPage.tsx` the search and status filters stay
enabled while a company is saved, and the list is then read again with the query
captured at submission, as the newest read: the rows of the old query may stand
under the new filter. `ContactsPage.tsx:76` locks its selection meanwhile. This,
too, comes from reading the code.

Met while modelling, and not stated as properties because nothing in the
repository promises otherwise:

* `requests/expiry.py:64` lets a start succeed on a thread that has been told to
  stop; the session worker refuses to start in the same situation. It takes a
  shutdown that gave up waiting and a start-up within one process.
* `contacts/service.py:26` looks for a contact with the same e-mail, without a
  unique constraint behind it; two clients may both find none.
* Codes that differ in letter case are refused by the look-up only, which the
  repository records itself (`PEER_REVIEW_FINDINGS.md:154`).
* `core/security.py:29`: an answer from before a key's publication can be stored
  between `cache_clear()` and the second look-up; the call is then refused although
  the key is published. `SettledKeyFound` says from when on this is over.

## 6. Not modelled

* The list of one company's contacts: a single statement. The companies and
  contacts pages, which show a list and save by forms of their own, and the
  company picker (`companyLookup.ts`).
* `securityTiming.ts`: a pure function of the clock that greys out a button; the
  server checks the window itself (`VisitWorkflow`).
* Layout, forms, formatting, the spreadsheet of the export; search terms and sort
  orders of lists.
* Settings parsing, building, copying and verifying releases: no state of the
  running program. The order of migration and restart is in `Migrations`.
* Retried submissions: the code has no means to tell one from a second request
  (`requestDeadline.ts` asks the user to refresh first), so there is no rule to
  state.

Next, should the project go on: the saving pages and the company picker of the
browser, and the audit rows of `VisitWorkflow` and `Directory` as the writers of
`AuditTrail`.
