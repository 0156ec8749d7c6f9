# JRNYBI in TLA+

TLA+ models of the parts of JRNYBI (a Redash derivative: Flask web handlers,
RQ workers, Redis, PostgreSQL, a React client) where several actors meet or the
arithmetic is hard to get right: model-checked with TLC on small instances, and
proved with TLAPS for every instance where that is possible.

| module | what it is | section |
|---|---|---|
| `QueryQueue` | how a query becomes an RQ job: the lock, `enqueue_query`, workers, cancellation, expiry, ghost-lock removal | 3 |
| `JobPromise` | the abstract specification of the queue: what a caller may rely on | 3 |
| `QueryResults` | what becomes of a result: stored results, `latest_query_data`, the failure counter, alert checks, edits | 4 |
| `VersionedEdits` | saving queries and dashboards that others may be editing | 5 |
| `EditPromise` | the abstract specification of such a save | 5 |
| `ScheduleTime` | when a scheduled query is due (`should_schedule_next`) | 6 |
| `Scheduler` | `refresh_queries` and `empty_schedules`, and what meets them | 6 |
| `Alerts` | evaluation of alerts, the commit of a new state, its notification | 7 |
| `FailureReports` | lists of failures, their mailing and deletion | 7 |
| `Digest` | hourly dispatch of digest mails | 7 |
| `LastActive` | `sync_last_active_at` and its rivals for the column `details` | 8 |
| `Membership` | `group_ids`, groups, their access to data sources | 8 |
| `Grants` | permission to modify one object | 8 |
| `SchemaCache` | getting, refreshing and dropping a cached schema | 9 |
| `PeriodicJobs` | `schedule_periodic_jobs` against the rq-scheduler | 9 |
| `Explain` | rate limit and cache of metric explanations | 9 |
| `ResultPages` | paging through a stored result | 10 |
| `ResultPolling` | running a query from the page | 10 |
| `QueryQueueProofs`, `QueryResultsProofs`, `VersionedEditsProofs` | theorems about the modules they are named after | 11 |
| `TimeProofs` | theorems about `ScheduleTime`, `Digest` and `Explain` | 11 |
| `UserProofs` | theorems about `Grants`, `Membership` and `LastActive` | 11 |
| `JobsProofs` | theorems about `Alerts`, `SchemaCache` and `PeriodicJobs` | 11 |
| `LiveProofs` | theorems about `FailureReports`, `ResultPolling` and the types of `Scheduler` | 11 |
| `BackgroundProofs` | theorems about `ResultPages`, the bounds of counts, and the parts together | 11 |
| `MCQueryQueue`, `MCQueryResults` | symmetry for TLC | 3, 4 |
| `MCResultsDigest` | `QueryResults` without overlap and `Digest` with overlapping runs, side by side for TLC | 4, 7 |
| `MCBackground`, `MCBackgroundLive` | small instances of the modules of sections 5 to 10 | 5 |

`PROJECT.json` maps every definition to the lines it models, and lists the runs,
the fault ("mutant") that each property is known to catch, the hazards, findings
and theorems. Definitions marked "A fault for TLC" are those faults; no
specification uses them.

## 1. Inventory

The actors are web threads (Flask handlers), RQ workers (a parent process that
monitors a forked *work horse*), the rq-scheduler process, and users. They
share Redis (queues, jobs, locks, lists, hashes) and PostgreSQL (READ COMMITTED
transactions of SQLAlchemy sessions, `expire_on_commit=False`).

| component | state it keeps | operations | what is hard, and what makes it correct |
|---|---|---|---|
| **Query queue and job lock** (`tasks/queries/execution.py`, `handlers/query_results.py`) | Redis: `query_hash_job:<ds>:<hash>`, RQ jobs and queues; local variables of `enqueue_query` | `enqueue_query`, `_unlock`, `JobResource.delete` | five optimistic tries over two connections; a caller gets a job of its own query that is not stale; a lock names a job that was saved for its key; races never overwrite a lock |
| **Workers** (`tasks/worker.py`) | the work horse, the started registry, heartbeats | pop, start, soft and hard limit, `cancel`, death of the horse or worker | every job ends, none runs twice, a settled one never runs again |
| **Ghost-lock removal, monitoring** (`tasks/queries/maintenance.py`, `monitor.py`) | none; reads locks, registries, queues in turn | `remove_ghost_locks`, `rq_job_ids` | reads are not a snapshot; locks of dead jobs go eventually |
| **Query results and failure counter** (`QueryExecutor.run`, `QueryResult`, `Query.update_latest_result*`, `track_failure`) | `query_results`, `queries.latest_query_data_id`, `schedule_failures`; the detached `query_model` | store, propagate, count, reset, enqueue alert checks; the result lookup of an edit | stale objects, row locks, commits out of order; the newest result of its text is shown, failures are counted, alerts see the result they are checked for |
| **Scheduling** (`Query.outdated_queries`, `should_schedule_next`, `refresh_queries`, `empty_schedules`) | `schedule`, `retrieved_at`, `scheduled_queries_executions` | refresh every 30 s | date arithmetic, backoff `2**failures`, deduplication by hash; each due query is run, none twice |
| **Alerts** (`tasks/alerts.py`, `models.Alert`) | `state`, `last_triggered_at` | evaluate, `should_notify`, notify | concurrent checks with stale rows, a crash between commit and notification |
| **Failure reports** (`tasks/failure_report.py`) | Redis list per user, pending set | `notify_of_failure`, `send_aggregated_errors` | pushes between LRANGE and DELETE |
| **Versioned edits** (`handlers/queries.py`, `handlers/dashboards.py`, `models/changes.py`) | `version`, `changes` | edit with version test | the version of a query never moves; that of a dashboard is checked by the ORM |
| **Digests** (`tasks/digest.py`) | `last_sent_at` | send due digests | late and overlapping runs, a crash after sending |
| **Users, groups, last activity** (`models/users.py`, `handlers/groups.py`) | a Redis hash; `group_ids` arrays | `sync_last_active_at`; add and remove members | HGET then HDEL; whole-array writes |
| **Periodic jobs** (`tasks/schedule.py`) | rq-scheduler's sorted set | `schedule_periodic_jobs` | test-then-schedule by several schedulers |
| **Data sources, schema cache** | `paused` key, schema key | pause, resume, delete, refresh | deletion while queries run |
| **Permissions** (`permissions.py`, `models.AccessPermission`) | `access_permissions`, `data_source_groups` | grant, revoke, decide | no constraint on equal rows; access is what the groups asked for give |
| **Parameterised queries** | none | validation functions | case analysis; not modelled |
| **Metric explanations** (`explain.py`) | rate bucket and cache in Redis | explain | crash between INCR and EXPIRE |
| **RLS in the PostgreSQL runner** (`query_runner/jrny_pg.py`) | session variables | set per query | results of one user must not reach another: their lock key and hash include the user |
| **Web client** (`services/query-result.js`, `useQueryExecute.js`, the paged grid) | the execution guard, loaded blocks, versions of what is shown | run and poll, scroll, save | answers read in steps while jobs change, refusals; blocks that must fit together in whatever order they come |
| Database plumbing, authentication, serializers, plain CRUD resources, query runners, destinations | | | no state machine of their own, or I/O |

How they interact: a handler or `refresh_queries` calls `enqueue_query`
(Redis); a worker runs `execute_query`, deletes the lock, writes PostgreSQL,
then enqueues `check_alerts_for_query` jobs and, on failure of a scheduled run,
pushes to the failure reports. Edits (`QueryResource.post`) write the same rows
of `queries`. Periodic jobs clean up locks, results and schedules. The other
components share no state with these but rows they only read, which is why each
has a module of its own and no composition is missing between them.

## 2. Plan

The order was: the queue and its lock, results, edits, scheduling, then the
background jobs, then the client. All planned modules are written, and every
invariant and action property that a passing run checks is a theorem (section 11). What is left:

- compose `QueryQueue` with `QueryResults` in place of the guard `MayLoad`, with
  archiving and `cleanup_query_results`;
- theorems that say of `Scheduler` what its liveness properties rest on: which rows
  a refresh has still to come to, and that an equal row's job serves them;
- the soft and hard limits of `worker.py` as arithmetic, and the change records of
  `models/changes.py`.

Two actors of each kind and two data items show every race that is listed under
hazards; three are used only where a third matters.

## 3. QueryQueue

**State.** `lock[k]` is the Redis key `query_hash_job:<data source>:<hash>`;
`Key` stands for the pair, with the user folded in for RLS sources. `jobs[j]`
collects what Redis and the workers know about an id: RQ status, the
`cancelled` flag in its meta, where the id is kept (queue or started registry) and what
its work horse is doing. `call[c]` holds the locals of one `enqueue_query`
call (`try_count`, `job`, the fetched `job_id`) and its program counter.
`dirty` is the set of callers whose WATCH is broken. `ghost` holds the locals of
`remove_ghost_locks`. Two fields, `revoked` and `done`, are history that only
properties read.

**Actions.** One per Redis round trip another actor can come between:

| code | actions |
|---|---|
| `enqueue_query` | `Begin`, `Watch`, `Get`, `Fetch` (meta), `GetStatus`, `DeleteLock`, `Enqueue`, `Exec`, `OutOfTries` |
| `Worker`, `QueryExecutor.run` | `Pop`, `Start`, `Unlock`, `Finish`, `HorseFails`, `HardLimit`, `WorkerCrashes`, `HeartbeatLapses` |
| `JobResource.delete`, `cancel` | `CancelMeta`, `CancelJob` |
| time to live | `LockExpires`, `JobExpires` |
| `remove_ghost_locks`, `rq_job_ids` | `GhostKeys`, `GhostGet`, `GhostReadStarted`, `GhostReadQueued`, `GhostDelete`, `GhostEnd` |

**What is abstracted.**
- `Job` is a finite supply of ids; `Begin` waits (`Supplied`) until every call
  under way could use all of its tries. A run without `CHECK_DEADLOCK` stops
  when ids are used up; the system itself does not.
- `LockExpires` breaks watches or not: that depends on the version of Redis.
- RQ's `enqueue` and its move of a cancelled job are one step each;
  `InvalidJobOperation` (cancelling twice) changes nothing and is left out.
- The soft limit is one of the ways to `Unlock`: the code treats it like any
  error of the query. `HardLimit` exists only where `TimeLimit` is set
  (separate settings for scheduled and ad hoc queries, off by default).
- `ghost.ids` keeps only ids that some lock was seen to name; others cannot
  matter to the membership test. `GhostGet` is one GET per lock; the registries of
  all queues are read in one step (`GhostReadStarted`), and so are the queues.
- `LockNamesItsJob` speaks of jobs that were saved: a lock may outlive its job in
  Redis, whose times to live are set apart.

**Properties.** `LockNamesItsJob`, `CallReturnsItsJob`, `NoStaleJobReturned`,
`NoLockOverwritten` (action property), the refinement `KeepsJobPromise`, and
the liveness properties `GhostLockRemoved` and `EveryJobEnds`. Job promise:
accepted once, executed at most once, then settled for good; locks acquired
only while free and only by a job of their key. `PhaseOf` is the refinement
mapping's view of a job.

| run | instance | shows |
|---|---|---|
| `QueryQueueRace` | 2 callers, 1 key, 2 tries each, 4 jobs; cancel, lock expiry | both callers lose and win watches, use their last try, meet cancelled, running and finished jobs; types and call results hold |
| `QueryQueueEvents` | 2 callers, 2 keys, 1 try, 2 jobs; cancel, job expiry, clean-up, hard limit | the queue implements the promise while all background actors interfere; the second key shows that nothing crosses keys |
| `QueryQueueLive` | 1 caller, 1 key, 3 jobs; failures, crashes, clean-up, hard limit; fairness, no symmetry | ghost locks are removed and jobs end |
| `QueryQueueSingleFlight` | 1 caller, 5 tries as in the code | **violation**, see findings |
| `QueryQueueGhost` | 1 caller, clean-up | **violation**, see findings |

A try only tests and sets one key, so two tries already show "lost, then won"
and "lost the last one"; the runs that refute something use the code's five.
Symmetry is sound: no definition orders or singles out a caller, a key or a
job id, and the runs with liveness properties do not use it.

**Fairness.** Weak fairness of a caller's next step (a server thread runs), of
popping, starting and the hard limit (workers are up; the parent's monitor
loop enforces the limit), of lapsing heartbeats and the second write of
`cancel` and of the clean-up, which runs every minute. A query is *not* assumed to
return and a worker is not assumed to survive. `EveryJobEnds` needs the limit:
without one a hung query keeps its worker for good.

`QueryQueueProofs` proves the safety properties and the refinement (section 11).

## 4. QueryResults

**State.** `query[q]` is a committed row (its hash, `latest_query_data`,
`schedule_failures`) with the execution that holds its row lock; `exec[e]` the
locals of a `QueryExecutor`, in particular `loaded`, the failure counter of the
detached object it read before the query ran; `edit[x]` an edit in
`QueryResource.post`; `checks` the pending alert checks. An execution stores at
most one result, which goes by its name. `streak` and `order` are history.

**Actions.** One per SQL statement that another transaction can come before:
`Load`, `RunFails`, `RunSucceeds`, `Track`, `Store` (reads the clock), `Reset`
(flush of the counter), `Select`, `Update` (rows in id order, waiting for
holders), `Collect`, `Commit`, `Delay`, `Finish`; `Crash` rolls back;
`AbortDeadlocked` is PostgreSQL's deadlock detection; `CheckAlerts`; and
`EditLoad`, `EditText`, `EditFind`, `EditLatest`.

**What is abstracted.** `Hash` stands for <data source, query hash>, with the
user for RLS sources, whose executions so match no query. The job lock keeps
two executions of one hash from *running* at once (`MayLoad`); it is gone
before the result is stored, so their transactions still overlap. The
findings on `QueryQueue` show that the lock can fail; the conclusions here do not
rest on it in `ResultsAndDigests`, where executions take turns;
composing the two modules is on the plan. The version column of `queries` is never
incremented, so the ORM's test of it always passes and has no action.
Every query is taken to be unarchived, as the filter of `update_latest_result`
demands; archiving and the deletion of data sources are not modelled. `Store` assigns strictly increasing
times; equal clock readings are left out.
`Overlap = FALSE` lets transactions take turns, to check what
holds *without* races; `Overlap = TRUE` is the system as it is.

| run | instance | shows |
|---|---|---|
| `ResultsAndDigests` | 2 queries, 2 texts, 3 executions, 1 editor; edits, crashes; no overlap. Also `Digest` with two runs at once (section 7) | the newest stored result of its text is shown whatever order edits, failures, ad hoc and scheduled runs come in; failures are counted exactly |
| `QueryResultsRace` | 2 queries of one text, 2 overlapping executions; crashes; fairness | alerts see the result they are checked for or a later commit; deadlocks are broken; every stored result reaches the alerts of every query |
| `QueryResultsReset` | 1 query, 3 overlapping executions | **violation**, see findings |

`LatestIsNewest` and `FailuresCounted` are false with `Overlap = TRUE` (hazards
at `models/__init__.py:776`, `:783`, `failure_report.py:90`): no document
promises them under races, so they are hazards and not findings. Two
executions are enough for a deadlock and for any lost update; the third in
`ResultsAndDigests` follows two that came before it. Symmetry is sound:
executions and hashes are never ordered (query ids are, so they are numbers).
The runs stop when each execution has been used, hence `CHECK_DEADLOCK FALSE`.
`MCResultsDigest` puts `Digest` beside `QueryResults`: they share no state and a
behaviour is about one of them, so that their state spaces add up (section 5).

**Fairness.** Weak fairness of an execution's next step, since its job has a
time limit or its query returns; of an edit's next step; and of the check
workers. Crashes are not fair, and neither is `Load`.

`QueryResultsProofs` proves `LatestIsNewest`, `FailuresCounted`, the types, and
`AlertSeesResult` (section 11).

## 5. Edits, and how the smaller modules are run

The modules of sections 5 to 10 share no state with each other. `MCBackground`
and `MCBackgroundLive` put them side by side: a variable `part` names the one that
runs in a behaviour, the others stay as they began. So the state spaces add up
instead of multiplying, and every property is checked on all behaviours of
its module. The two differ in that the second has fairness. Runs end when a
bound on edits, changes, starts or time is reached, hence
`CHECK_DEADLOCK FALSE`.

| run | shows |
|---|---|
| `Background` | the safety properties of all modules below but those of the next row |
| `BackgroundLive` | `Scheduler`, `FailureReports`, `ResultPolling`: what must happen in the end does |
| `QueryVersions` | **violation**: for queries, `NoEditLost` fails (finding 4) |
| `DigestOverlap` | **violation**: two runs at once mail a digest twice (finding 5) |

**VersionedEdits.** `row` are committed rows (content, `version`, archived),
`tab` what each browser tab shows, `request` the request it has under way with the
version that the handler loaded. `Open` is a GET; `SendSave`, `SendArchive` the
page's requests, with or without a version (publishing a dashboard and
overwriting after a 409 omit it); `Load` is the handler up to its test of the
versions; `Write` and `WriteFails` are the UPDATE with the version in its WHERE
clause, which hits the row or raises `StaleDataError`. An object is in `Dashboard`
if the ORM moves its version with every UPDATE; that of a query is declared
`version_id_generator=False` and nothing moves it.

`NoEditLost` says that a save that carries a version replaces only what its author
has seen. `EditPromise` says more: such a save is granted *exactly* then. The
refinement `KeepsEditPromise` maps a tab and its request to what its user sees and
has asked for. Both are checked for a dashboard with two users and three edits: two
that race and one they race over. `QueryVersions` has a query instead.

Not forbidden, and worth knowing: after publishing, the page keeps its old version,
so its author's next save is answered 409 although nobody else edited.

## 6. Scheduling

**ScheduleTime** is `should_schedule_next` line by line: the normalisation of a
run that came before the slot of its day, the weekday shift, `replace` (which keeps
the seconds), the backoff and its overflow. `Run` happens when the query is due or
any time later; `Tick` is the clock. A day has two minutes of two ticks, a week
seven days, the horizon is sixteen days: a weekly query runs twice. The slots of
a day are then at its start and middle, and a run can be before, in and after
the minute of its slot, on any day of the week. The reference definition counts slots instead of
computing dates: `RunsAfterItsSlots` says that a query asked for every *n* days is
due after *n* slots since its last run and not before the *n*-th begins, however
late it is picked up; `KeepsItsWeekday` that a weekly one is due after a slot on its own
weekday. The latter needs the last run to be after the time of its day:
for earlier ones the shift counts from the wrong day. `tests/test_models.py:89-90`
and `:111-113` test one day each.

**Scheduler** has the rows of several queries with one text (`kind` of schedule,
what the hash was computed from, whether parameters are valid, failures), data sources,
the job each source has of the text, and the locals of `refresh_queries`
(`Read`, `Disable`, `RefreshOne`, `RefreshDone`) and `empty_schedules`
(`FindPast`, `EmptyPast`). Jobs are one step each for start, success and failure:
their detail is in `QueryQueue` and `QueryResults`. People edit schedules, change
the values a dropdown allows, run ad hoc, pause and delete sources (`MaxMoves`
changes: one, anywhere). Two queries are what deduplication needs.

`DueTextRuns`: a due query that can run gets its text run, on its own behalf or by
an equal one's job, whichever other query is broken. `PastSchedulesEmptied`:
schedules that have ended are emptied. Fairness: both tasks are periodic, and
nothing keeps them from their next step (`WF`); jobs need none.

Modelled and not forbidden: the whole schedule is rewritten by `Disable` and
`EmptyPast` as it was read, which can undo an edit; one end that is no date keeps
all ended schedules (excepted by the property); a query whose stored hash is of its raw
text is not served by its equals; after `2**failures` overflows, a query
is not due again until an ad hoc success.

## 7. Alerts, reports, digests

**Alerts.** A check reads all alerts of the query and its latest result (`Begin`,
`EvaluateOnRequest`), then per alert evaluates, commits the new state
(`EvaluateNew`) and notifies (`Notify`). Results are verdicts; `Outcome` has three,
such that alerts differ and one raises. A check works with the rows it has read:
what it commits is its own state if that differs from the row as *read* (only changed columns are
sent), and what it tells depends on that row too. The history `heard` is about the
*committed* state: what it has changed from and to decides whether it is news, and
only a notification of that state makes it `"told"`.

`NewsIsTold`: however checks overlap, the state an alert is in has been told, or a
check is about to tell it. Three things can lose it, each per alert and each no more than
it says: the check that was about to tell dies right there (`"lost"`); it has read the alert as
muted (`"muted"`); or checks overlapped and the alert is fine again, since a check that read
it as unknown takes "ok" for no news even after another has told "triggered". Bad news is
never lost to overlap. A check that raises, on a column with an empty cell under `max` or `min`,
excuses nothing here. `StatesAreVerdicts`: if checks take
turns, states follow the latest result; one that raises or dies does not come to the alerts after it
(`mishap`). Two alerts (the first must not keep the
second from its turn) and two checks.

Two overlapping checks may both tell of the same change, as each compares with the row
it has read; no property forbids it (section 12).

**FailureReports.** `Fail` is `track_failure` with its limit per query, `Recover` a
success; `Scan`, `ReadList`, `MailReport`, `DeleteList`, `ScanDone` are
`send_aggregated_errors`; `ReportDies` is a death at any point. `ReportsAreKept`: a
pushed report leaves its list only once mailed, or if it came between LRANGE and
DELETE. `ReportsAreMailed` (liveness): no list stays forever. Fairness: the
scheduler starts the job over and over (`WF`), and since it dies only now and then, a step
that is possible again and again happens in the end (`SF`). Two owners, three failures,
a limit that is reached.

**Digest.** The scheduler enqueues the job whatever has become of the last one (`Enqueue`), and
`Register`, the registration of a job it does not know, makes it due at once. Each run is a member of
`Dispatch` and has locals of its own, so that runs overlap on two workers:
`StartDispatch` reads `now` once; `SelectDue` is the query of one of the
two loops, `Mail`, `CommitSent` and `CommitFails` its body; `DispatchDies` at any point. The clock
moves between all of them up to the job's timeout (`Patience`).

`OneDigestAPeriod`, never two mails in a period, is what the module's doc promises of runs
"within the same hour". Two runs that both select before either commits refute it (`DigestOverlap`,
finding 5). `RerunsAreSafe` is what does hold of any number of runs: none mails a
subscription again in its period whose earlier mails were all committed when it selected, unless
another mails it between that SELECT and its own mail. `raced` records exactly this window for
each run; `steady` loses a subscription whose mail was followed by a crash or a failed commit, or whose hour was
changed. `LateDigestIsDueAgain`: however late it was mailed, it is due again after its period:
the margin of an hour is what both rest on, from either side. The one exception it names: a run
that starts earlier in its hour than the last one did, by more than an hour less the
timeout (50 minutes), finds a mail whose commit looks too young, and the digest waits for another
day; no document denies that. In `Background` one run after another is checked: a day has two hours of three ticks,
a week two days and a job two ticks; fourteen ticks are two and a third days: the least in which a mail can be
early, late, and due again. `ResultsAndDigests` has two runs at once, with hours of two ticks, jobs of one and eight
ticks, two days: the runs of two successive days meet every way two can. Mail that goes out
after an unsubscription is modelled (`Mail`) and not forbidden.

## 8. Users

**LastActive.** `stamp` is the Redis hash, `sync` the job with its session (whole
column `details` as read, rows flushed and locked one after another, one commit at the end),
`verify` the other writer of that column. `LastRequestIsKept`: the last request's
time is in the hash, the session or the row, except in three windows: a request
between HGET and HDEL (the docstring says so), death of the job after an HDEL, and
another writer that had read the row before. The same overwriting can revert
`is_email_verified`; that is modelled and no property forbids it.

**Membership.** `groupIds` are arrays that hold a group any number of times; a
change reads, changes and writes whole arrays (`LoadAdd`, `LoadRemove`, `LoadSet`,
`LoadDrop`; `CommitUsers`). `links` are rows of `data_source_groups`, which may be
double. `MembershipIsAsAsked` and `AccessIsAsAsked` hold for users whose changes took
turns and who were not added twice: arrays are then what was asked for, and
`has_access_to_groups` decides as the best of the groups says. Overlapping changes
do lose one, and ids of deleted groups can come back. One user, three groups (two of them
built in), two requests, two changes.

**Grants.** `GrantLookup` is `one_or_none`, `GrantCommit` the insert; `Revoke` deletes
all rows of the grantee. `PermissionsAreAsConfirmed`: a revocation works whatever
duplicates there are, and a confirmed grant gives permission unless it overlapped
with one. After two equal grants at once, later ones fail (`"failed"`).

## 9. Data sources, periodic jobs, explanations

**SchemaCache.** Jobs look (unless they refresh), fetch, store; the catalogue
changes, the cache expires, the data source is deleted in two steps.
`RefreshTakesEffect`: a refresh with no job beside it is never undone.
`DeletedLeavesNothing`: nothing stays cached unless a job was late.

**PeriodicJobs.** A starting scheduler lists, fetches and checks jobs, cancels and
deletes obsolete ones, adds missing ones, each a step another process of the same or
another release can come between; it may die anywhere. `ReleaseIsScheduled`: after a
start that went through with no other release beside it, exactly its jobs are
scheduled. Two processes, two releases that share a job, three starts. Two
releases at once can raise on a `None` from `fetch_many` (`CancelRaises`).

**Explain.** INCR and EXPIRE are separate; Redis fails or the process dies at each.
`LimitHolds`: at most `Limit` requests of a user per hour of the clock, which is what
`check_rate_limit` says of itself;
`CountersExpire`: no counter without a time to live, unless the process died right there.
The module's doc (`explain.py:16`) speaks of a sliding window instead, and that does not hold: the
counter is per hour of the clock, so a user who spends the limit just before the full hour has it
again right after, twice the limit within sixty minutes (section 12). `LimitHolds` is the weaker thing
that the code does keep. Two equal requests at once both ask the model; no document denies that.

## 10. The page

**ResultPages.** The server filters, sorts and cuts a stored result afresh for each
block (`GetRows`); the table takes the number of rows from the answers. `room` is how far it
can be scrolled: at first two blocks or `InitialRows`
(`infiniteInitialRowCount`), then a row beyond the furthest block that was answered (`RoomAfter`), in the end the number of
rows. Any block that begins within that room may be asked for, in any order, first or again:
beyond `MaxBlocks` the grid drops blocks out of view (`dropped`) and asks for them again when they
come back.
`EveryRowShownOnce`: once it knows the number of rows and has no block left to ask for, the grid has as many rows as match,
without a gap between blocks, and shows every matching row once and in order; and wherever it is
scrolled to before, what it shows is in order and shown once. `SortedRows` gives each
row the place that the number of rows before it says, which is what a stable sort
does. All results of up to three rows over two values and the empty
cell, blocks of one or two rows, a cache of two blocks: three blocks scrolled through in order or not, with
the first one dropped and loaded again.

**ResultPolling.** `Execute`, `PostAnswered`, the two reads of `JobResource`
(`FetchJob`, `ReadStatus`), `WaitOver`, loading with three tries, cancellation in its two writes, and the
job. `OutcomesAreTrue`: a failure shown was a failure or a cancellation.
A job that has expired is answered 404, which is one of the ways a request fails.
`ExecutionSettles` (liveness): the guard against running twice is released, but for an
execution that is refused with 403 (`RequestRefused`): `handleErrorResponse` hands the answer, which holds no
job, to `update`, and the promise stays open. No document says what should happen.
Fairness: requests are answered or fail and timers run; jobs end, which is
`EveryJobEnds` of `QueryQueue`.

## 11. What is proved

Every invariant and every action property that a passing run checks, and the two
refinements, are theorems that TLAPS checks for every value of the constants; bounds such as
`MaxEdits` are any natural number. Not every theorem needs every assumption of its
module; hypotheses it has beyond them are named here. They ask for a non-empty
set of actors where an initial state has to name one, and nothing more, unless said.

With TLC alone stay
- liveness: `GhostLockRemoved`, `EveryJobEnds`, `EveryExecutionEnds`,
  `ResultsReachAlerts`, `DueTextRuns`, `PastSchedulesEmptied`, `ReportsAreMailed` and
  `ExecutionSettles`. Fairness and ENABLED are beyond the prover;
- the refutations of section 12.

**How.** An invariant is seldom inductive. Each proof has one that is, as a conjunction of
named parts, one lemma per action, a lemma `...NextInv` that puts them together, and
a last step in temporal logic. These invariants were checked with TLC before they were proved.

**`QueryQueueProofs`** (from `ConstantsAssumption` only: sentinels that
are not ids, `MaxTries` positive, known events; finiteness is not needed).
The inductive invariant is

    IInv == TypeOK /\ JobsOK /\ CallsOK /\ LockNamesItsJob /\ OwnsOK
            /\ WatchesOK /\ FreshCallsOK

Each part is there because another needs it:
- `JobsOK` ties status, place and horse of a job together (an id in the queue
  has no horse, an unlocked horse is not "queued"): without it a settled job
  could be popped again, and the refinement and freshness fail.
- `CallsOK` says what a program counter implies about the locals (at `Exec`
  there is a job; back at `Watch` after a lost try too): the reason a call
  returns a job.
- `OwnsOK` says that the jobs a call has at hand were enqueued for its key;
  `Exec` can keep `LockNamesItsJob` only because of it, and `Get` keeps
  `OwnsOK` only because of `LockNamesItsJob`: they are proved together.
- `WatchesOK`: a call about to create a job whose watch is unbroken still has a
  free lock. It gives `NoLockOverwritten` and the `Acquire` step of the promise.
- `FreshCallsOK` carries the sets of revoked and finished jobs from the start
  of a call to its end; it gives `NoStaleJobReturned`.

Theorems: `Invariance`, `TypeCorrect`, `LocksNameTheirJobs`,
`CallsReturnTheirJobs`, `NoStaleJobs`, `LocksAreNotOverwritten` and
`Refinement` (initial state to initial state, and `PromiseStep`: each action is
a step of the promise or a stutter).

**`QueryResultsProofs`.** Three inductive invariants, of which the second and third
contain the first:

- `BaseInv` (types; commits are numbered in their order; there is a latest time, and a
  newest result of each text, so that `Max` and `CHOOSE` denote). It gives
  `ResultsTypeCorrect` with no assumption.
- `RaceInv` adds that an execution about to commit has seen exactly the queries of its
  text, and that what it then names to the alerts `Shows` its result or a later one.
  With `"edit" \notin Events` it gives `AlertsSeeResults`, for any number of
  overlapping executions. With edits it is false: an edit can
  change the text between the two SELECTs.
- `AloneInv` adds that one actor is at work at a time, that the counter an
  execution has read is current, that its result is newer than all others, and that an
  editor found the newest of the text it wrote. With `Overlap = FALSE` it gives `FailuresAreCounted` and
  `QueriesShowTheNewest`, edits and crashes included. The property alone is not inductive: it says
  nothing of a result on its way to its commit.

**`VersionedEditsProofs`.** `EditsInv` says that for a dashboard a tab has the version of
the row if and only if it has its content, and that a versioned request that got past
the test was loaded at the version of its tab. `EditsInvariance` and
`EditsTypeCorrect` hold for queries and dashboards; if all objects are dashboards,
`DashboardEditsKept` and the refinement `DashboardsKeepEditPromise` follow.

**`TimeProofs`** begins with lemmas on division that all of it rests on: products are opaque to the
solver, so that there is one way to divide (`DivisionUnique`) is proved once and cited.
- *When a query is due* (`QueriesRunAfterTheirSlots`, `QueriesKeepTheirWeekday`; for days, weeks
  and slots of any length). The invariant is only that the last run is not in the
  future; the work is arithmetic. `NextIteration` is shown to be a slot plus the seconds of
  the last run (`NextSlotIs`), and the reference definition's sets of slots are counted by
  mapping them to days (`CountAtMost`, `CountAtLeast`: an injection either way).
  `PowersAssumption`, that powers of two are natural numbers, is there because the
  prover knows nothing of `^`; TLC evaluates it.
- *Digests* (`DigestsKeepTheirPeriod`, of `RerunsAreSafe`, and `LateDigestsComeAgain`), for any number of runs at
  once. `DigestInv` ties what each run has
  selected, mailed and committed to `mailed`: a run's time is not over (`RunOK`); `sentAt` is at most a job's timeout
  (`Patience`) after the last mail (`SentOK`); a steady subscription's last mail is committed, unless
  a run is about to, and went out in the hour set (`SteadyOK`); and what a run still has to mail, unless it
  was raced, was last mailed at least its minimum age before that run began (`SelectedOK`). `DaysBetween` turns ages in ticks into days.
  `DigestsKeepTheirPeriod` needs `Hours > 1`: the margin of an hour is a whole day otherwise.
- *Explanations* (`LimitsHold`, `AllCountersExpire`). `ExplainInv`: a request that
  is about to count itself does so before the counter of its hour can expire (from
  `HourLength + Delay < CounterLife`), so that counters see every request.

**`UserProofs`.** `GrantsInv`: a grant that found a row still has it, or a revocation
crossed it (`GrantsAreAsConfirmed`). `MembershipInv`: a regular user's array holds the groups asked for once
each, and what a request has read of such users is still so (`MembershipsAreAsAsked`,
`AccessesAreAsAsked`). `ActiveInv`: a time in the hash is that of the last request, and one
that was deleted from it is in the session (`LastRequestsAreKept`).

**`JobsProofs`.** `AlertsInv`: where the state of an alert has not been told, a check is about
to tell it or it is "ok" after an overlap; and as long as checks take turns the rows they hold are current
and each still has to come to every alert whose state is not
its verdict (`NewsAreTold`, `StatesFollowVerdicts`). A check takes the first alert of those
left; that there is a first comes from the well-foundedness of `<` (`LeastNumber`).
`SchemaInv`: a job that can still become the newest refresh is
alone, and what is about to be stored is no older than any refresh that counted
(`RefreshesTakeEffect`, `DeletionsLeaveNothing`). `PeriodicInv`: what a starter with no other release beside it knows
of the schedule at each of its steps, and that no other process of its release takes
away what it counts on (`ReleasesAreScheduled`).

**`LiveProofs`.** `ReportsInv`: what a list in hand has beyond what was read is in
the window; after the mail, what was read is mailed (`NoReportIsLost`). `PollingInv`: a sign of
failure on its way to the page comes from a job that failed or was cancelled
(`FailuresAreTrue`). `LiveTypesCorrect` adds the types of `Scheduler`.

**`BackgroundProofs`.**
- *Pages* (`RowsAreShownOnce`, for results, cells and blocks of any size). `PagesInv`: each
  block is the slice of the result as it is sorted now, whichever blocks were asked for or dropped before. That slices fit
  together rests on `SortedFacts`: `Before` is a strict total order of the rows that
  match, so the number of rows before one tells it from the others, and each number occurs, since there
  are as many as rows. No induction over sequences is needed.
- *Bounds.* The types of `Grants`, `Membership` and `Explain` bound counts that several
  requests raise. Their invariants count the requests under way: rows and
  requests not yet confirmed together are never more than the grants asked for.
- *The whole.* `PartsBehave`: a behaviour of `BackgroundSpec` is one of each part's
  specification, so that the theorems above hold where the run checks the parts together.
  `BackgroundTypesCorrect` follows.

## 12. Findings

1. **A lost WATCH leaves a job without a lock** (`SingleFlight`,
   `execution.py:135`). A call finds the lock of a finished job and deletes it
   over another connection, which breaks its own WATCH; it enqueues job 1, EXEC
   fails and `continue` keeps `job`. The next try finds no lock, skips `if not
   job` and returns job 1, which runs without a lock. The next call of the
   same query enqueues job 2 beside it.
   `tests/tasks/test_queries.py:36-65` expects one job; it mocks the queue and
   never loses a WATCH.
2. **Ghost-lock removal deletes locks of live jobs** (`OnlyGhostLocksRemoved`,
   `maintenance.py:154`). Registries are read before queues, and between the
   pop and its registration a job is in neither. The docstring says that only
   locks of non-existing jobs go. The lock's value is not compared on deletion.
3. **A success does not always reset the failure counter**
   (`SuccessResetsFailures`, `execution.py:265`). The test is on an object read
   before the query ran; a failure recorded in the meantime stays.
4. **The version of a query never moves** (`NoEditLost` in `QueryVersions`,
   `models/__init__.py:485`). So neither the handler's test nor the WHERE clause ever
   refuses a save, and of two people who edit a query the second replaces what
   the first has saved. `tests/handlers/test_queries.py:108-111` gets its 409 with a
   version that no page can have loaded.
5. **Overlapping runs mail a digest twice** (`OneDigestAPeriod` in `DigestOverlap`,
   `tasks/digest.py:319`). `tasks/digest.py:19-20` says that re-runs within the same hour are
   safe because of the check of `last_sent_at`. That is read at the start of a loop and
   committed after each mail, with no lock: two runs that both select first both mail.

Properties about (1), (2) and (5) hold in the weaker form the code does guarantee: a
lock is never overwritten, and every call returns a job of its key; `RerunsAreSafe`.

Three more places where a text and the code disagree were met while modelling and follow
directly from the lines named, without a run of their own:
- `explain.py:16` says "sliding-window rate limit"; `check_rate_limit` (`explain.py:174`) counts
  requests per hour of the clock. `LimitHolds` says only the latter.
- `Rearm.jsx:118` says "just once, until back to normal"; two overlapping checks of one alert
  tell twice, since `tasks/alerts.py:38` compares with the row as the check has read it.
  `NewsIsTold` says that news is told, not how often.
- The comment at `handlers/query_results.py:499` says that None sorts last in both directions;
  `reverse=True` (`:502`) turns the whole key around, so that it comes first in descending order.
  `Before` in `ResultPages` does as the code does.

## 13. Not modelled

- Query runners, destinations, `jrny_pg.py`'s text handling and the seed of reports:
  I/O or data; a run returns a result or fails.
- Parameter validation, the comparison of an alert's value, what mails and
  explanations say: pure functions of text and numbers without state.
- Authentication: protocol libraries and token checks.
- Serializers and single-row create, read, update and delete: one transaction each.
- Change records (`models/changes.py`), `cleanup_query_results`, the statsd counters,
  monitoring pages that only read.
- Rendering, layout and the other pages of the client.

## 14. Running

    tlc -workers 2 -config QueryQueueRace.cfg MCQueryQueue
    tlc -workers 2 -config QueryResultsRace.cfg MCQueryResults
    tlc -workers 2 -config ResultsAndDigests.cfg MCResultsDigest
    tlc -workers 2 -config Background.cfg MCBackground
    tlc -workers 2 -config BackgroundLive.cfg MCBackgroundLive
    tlc -workers 2 -config QueryVersions.cfg VersionedEdits
    tlc -workers 2 -config DigestOverlap.cfg Digest
    tlapm QueryResultsProofs.tla
    tlapm BackgroundProofs.tla

The runs take from seconds to about three minutes each, the proofs from half a
minute to three minutes a module.
