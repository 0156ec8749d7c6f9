----------------------------- MODULE Scheduler -----------------------------
(***************************************************************************)
(* From schedules to jobs: refresh_queries and empty_schedules, which run  *)
(* over and over in the background, the jobs they lead to, and the people  *)
(* who edit schedules and pause or delete data sources meanwhile.          *)
(*                                                                         *)
(* All queries here have one text.  Its parameters may have values that    *)
(* are not allowed (any more): what the values of a dropdown are depends   *)
(* on other queries.  Such a query is known by the hash of the raw text    *)
(* once its row has been written.  When a schedule is due is the matter of *)
(* ScheduleTime; here only whether the time has come counts.               *)
(***************************************************************************)
EXTENDS Naturals, FiniteSets

CONSTANTS
    Query,      \* the ids of the queries, numbers as they are judged in order
    Source,     \* data sources
    NoSource,   \* data_source_id of a query whose source was deleted
    WithEnd,    \* the queries whose schedule has an end to start with
    TooMany,    \* the number of failures whose backoff overflows a date
    MaxMoves    \* how often people change something (bound of the model)

ASSUME SchedulerAssumption ==
    /\ Query \subseteq Nat
    /\ NoSource \notin Source
    /\ WithEnd \subseteq Query
    /\ TooMany \in Nat \ {0}
    /\ MaxMoves \in Nat

VARIABLES
    query,      \* the committed rows
    source,     \* the data source of each query
    paused,     \* data sources that are paused
    job,        \* the job that each source has of the text, by its lock
    refresh,    \* refresh_queries and its locals
    past,       \* the queries empty_schedules has found, while it runs
    moves       \* how many changes people have made

schedulerVars == <<query, source, paused, job, refresh, past, moves>>

\* "until" is a schedule with an end that is not reached, "malformed" one with
\* an end that is no date, "partial" one that lacks a key.
Kind == {"none", "forever", "until", "past", "malformed", "partial"}

QueryRecord ==
    [kind : Kind,
     disabled : BOOLEAN,
     hash : {"applied", "raw"},     \* what the stored hash was computed from
     valid : BOOLEAN,               \* whether the parameter values are allowed
     executed : BOOLEAN,            \* scheduled_queries_executions has the query
     result : BOOLEAN,              \* there is a latest_query_data
     elapsed : BOOLEAN,             \* interval and backoff have passed since the last run
     failures : 0..TooMany]
JobRecord == [pc : {"none", "queued", "running"}, query : Query, scheduled : BOOLEAN]
RefreshRecord ==
    [pc : {"idle", "judge", "enqueue"},
     broken : SUBSET Query,         \* those that could not be judged, to be disabled
     due : SUBSET Query,            \* the values of outdated_queries
     kind : [Query -> Kind],        \* what was read of the rows of the broken ones
     failures : [Query -> 0..TooMany]]  \* and of those that are due

SchedulerTypeOK ==
    /\ query \in [Query -> QueryRecord]
    /\ source \in [Query -> Source \cup {NoSource}]
    /\ paused \in SUBSET Source
    /\ job \in [Source -> JobRecord]
    /\ refresh \in RefreshRecord
    /\ past \in SUBSET Query
    /\ moves \in 0..MaxMoves

NewRow ==
    [kind |-> "forever", disabled |-> FALSE, hash |-> "applied", valid |-> TRUE,
     executed |-> FALSE, result |-> FALSE, elapsed |-> FALSE, failures |-> 0]
NoRefresh ==
    [pc |-> "idle", broken |-> {}, due |-> {}, kind |-> [q \in Query |-> "none"],
     failures |-> [q \in Query |-> 0]]

SchedulerInit ==
    /\ query = [q \in Query |-> [NewRow EXCEPT !.kind = IF q \in WithEnd THEN "until" ELSE @]]
    /\ source \in [Query -> Source]
    /\ paused \in SUBSET Source
    /\ job = [s \in Source |-> [pc |-> "none", query |-> CHOOSE q \in Query : TRUE,
                                scheduled |-> FALSE]]
    /\ refresh = NoRefresh
    /\ past = {}
    /\ moves = 0

-----------------------------------------------------------------------------
(* Rows                                                                    *)

\* A fault for TLC: the hash is computed only when the text changes.
HashAsItWas(r) == r.hash
HashOf(r) == IF r.valid THEN "applied" ELSE "raw"

\* receive_before_insert_update: whoever writes a row computes its hash.
Written(r) == [r EXCEPT !.hash = HashOf(r)]

\* A change of the failures moves the next run; where to, ScheduleTime says.
Moved(r) == {[r EXCEPT !.elapsed = e] : e \in {FALSE, r.elapsed}}

\* track_failure on an object that was read with so many failures.
Failed(r, failures) ==
    Moved(Written([r EXCEPT !.failures = IF failures < TooMany THEN failures + 1 ELSE TooMany]))

HasRun(r) == r.executed \/ r.result
IsDue(r) ==
    /\ r.kind \in {"forever", "until"} /\ ~r.disabled
    /\ HasRun(r) => r.elapsed /\ r.failures < TooMany
Broken(r) == r.kind \in {"malformed", "partial"} /\ ~r.disabled

-----------------------------------------------------------------------------
(* refresh_queries                                                         *)

Key(q) == <<query[q].hash, source[q]>>

\* outdated_queries is a dictionary by key: the last query of a key stays.
LastOfKey(due) == {q \in due : \A p \in due : Key(p) = Key(q) => p <= q}

\* The rows and the times of their executions are read.  (Executions are read
\* after the rows; a job that starts in between counts as started before.)
Read ==
    /\ refresh.pc = "idle"
    /\ LET due == {q \in Query : IsDue(query[q])}
           broken == {q \in Query : Broken(query[q])}
           kept == LastOfKey(due)
       IN  refresh' = [pc |-> IF broken = {} THEN "enqueue" ELSE "judge",
                       broken |-> broken, due |-> kept,
                       kind |-> [q \in Query |-> IF q \in broken THEN query[q].kind ELSE "none"],
                       failures |-> [q \in Query |-> IF q \in kept THEN query[q].failures ELSE 0]]
    /\ UNCHANGED <<query, source, paused, job, past, moves>>

\* A query that raised is disabled at once: its whole schedule is written.
Disable ==
    /\ refresh.pc = "judge"
    /\ LET q == CHOOSE p \in refresh.broken : \A r \in refresh.broken : p <= r
       IN  /\ query' = [query EXCEPT ![q] = Written([@ EXCEPT !.kind = refresh.kind[q],
                                                              !.disabled = TRUE])]
           /\ refresh' = [refresh EXCEPT !.pc = IF refresh.broken = {q} THEN "enqueue" ELSE @,
                                       !.broken = @ \ {q}, !.kind[q] = "none"]
    /\ UNCHANGED <<source, paused, job, past, moves>>

ShouldRefresh(q) == source[q] # NoSource /\ source[q] \notin paused

\* enqueue_query gives the job there is when the text already has one.
Enqueued(q, scheduled) ==
    IF job[source[q]].pc = "none"
    THEN [job EXCEPT ![source[q]] = [pc |-> "queued", query |-> q, scheduled |-> scheduled]]
    ELSE job

\* One query of outdated_queries; an error never keeps the others from their turn.
RefreshOne(q) ==
    /\ refresh.pc = "enqueue" /\ q \in refresh.due
    /\ refresh' = [refresh EXCEPT !.due = @ \ {q}, !.failures[q] = 0]
    /\ \/ ~ShouldRefresh(q) /\ UNCHANGED <<query, job>>
       \/ ShouldRefresh(q) /\ query[q].valid /\ job' = Enqueued(q, TRUE) /\ UNCHANGED query
       \/ /\ ShouldRefresh(q) /\ ~query[q].valid
          /\ \E r \in Failed(query[q], refresh.failures[q]) : query' = [query EXCEPT ![q] = r]
          /\ UNCHANGED job
    /\ UNCHANGED <<source, paused, past, moves>>

RefreshDone ==
    /\ refresh.pc = "enqueue" /\ refresh.due = {}
    /\ refresh' = NoRefresh
    /\ UNCHANGED <<query, source, paused, job, past, moves>>

-----------------------------------------------------------------------------
(* empty_schedules                                                         *)

\* One end that is no date raises, and no schedule is emptied.
Raises == \E q \in Query : query[q].kind = "malformed"

\* A fault for TLC: a query that has no result is passed over.
PastSchedulesWithResult == {q \in Query : query[q].kind = "past" /\ query[q].result}
PastSchedules == {q \in Query : query[q].kind = "past"}

FindPast ==
    /\ past = {} /\ ~Raises
    /\ past' = PastSchedules
    /\ UNCHANGED <<query, source, paused, job, refresh, moves>>

EmptyPast ==
    /\ past # {}
    /\ query' = [q \in Query |-> IF q \in past
                                 THEN Written([query[q] EXCEPT !.kind = "none", !.disabled = FALSE])
                                 ELSE query[q]]
    /\ past' = {}
    /\ UNCHANGED <<source, paused, job, refresh, moves>>

-----------------------------------------------------------------------------
(* Jobs: see QueryQueue and QueryResults for what is one step here         *)

Start(s) ==
    /\ job[s].pc = "queued"
    /\ job' = [job EXCEPT ![s].pc = "running"]
    /\ query' = IF job[s].scheduled
                THEN [query EXCEPT ![job[s].query].executed = TRUE,
                                   ![job[s].query].elapsed = FALSE]
                ELSE query
    /\ UNCHANGED <<source, paused, refresh, past, moves>>

\* The failures of the job's own query are forgotten first, and its hash is up
\* to date then; the result goes to every query of the source with its hash.
Forgiven(q, s) ==
    IF q = job[s].query /\ query[q].failures > 0
    THEN Written([query[q] EXCEPT !.failures = 0]) ELSE query[q]
Succeed(s) ==
    /\ job[s].pc = "running"
    /\ job' = [job EXCEPT ![s].pc = "none"]
    /\ query' = [q \in Query |->
                    LET r == Forgiven(q, s)
                    IN  IF source[q] = s /\ r.hash = "applied"
                        THEN Written([r EXCEPT !.result = TRUE, !.elapsed = @ /\ r.executed])
                        ELSE r]
    /\ UNCHANGED <<source, paused, refresh, past, moves>>

JobFails(s) ==
    /\ job[s].pc = "running"
    /\ job' = [job EXCEPT ![s].pc = "none"]
    /\ LET q == job[s].query
       IN  IF job[s].scheduled
           THEN \E r \in Failed(query[q], query[q].failures) : query' = [query EXCEPT ![q] = r]
           ELSE UNCHANGED query
    /\ UNCHANGED <<source, paused, refresh, past, moves>>

-----------------------------------------------------------------------------
(* Time and people                                                         *)

Elapse(q) ==
    /\ HasRun(query[q]) /\ ~query[q].elapsed
    /\ query' = [query EXCEPT ![q].elapsed = TRUE]
    /\ UNCHANGED <<source, paused, job, refresh, past, moves>>

UntilPasses(q) ==
    /\ query[q].kind = "until"
    /\ query' = [query EXCEPT ![q].kind = "past"]
    /\ UNCHANGED <<source, paused, job, refresh, past, moves>>

Change == moves < MaxMoves /\ moves' = moves + 1

EditSchedule(q, kind) ==
    /\ Change
    /\ \E r \in Moved([query[q] EXCEPT !.kind = kind, !.disabled = FALSE]) :
        query' = [query EXCEPT ![q] = Written(r)]
    /\ UNCHANGED <<source, paused, job, refresh, past>>

\* The query behind a dropdown changes: no row of ours is written.
ChangeValues(q) ==
    /\ Change
    /\ query' = [query EXCEPT ![q].valid = ~@]
    /\ UNCHANGED <<source, paused, job, refresh, past>>

RunAdHoc(q) ==
    /\ Change
    /\ source[q] # NoSource /\ query[q].valid
    /\ job' = Enqueued(q, FALSE)
    /\ UNCHANGED <<query, source, paused, refresh, past>>

Pause(s) ==
    /\ Change
    /\ paused' = IF s \in paused THEN paused \ {s} ELSE paused \cup {s}
    /\ UNCHANGED <<query, source, job, refresh, past>>

\* Queries lose their source and their result by a bulk UPDATE, which computes
\* no hash.
DeleteSource(s) ==
    /\ Change
    /\ source' = [q \in Query |-> IF source[q] = s THEN NoSource ELSE source[q]]
    /\ query' = [q \in Query |-> IF source[q] = s THEN [query[q] EXCEPT !.result = FALSE]
                                 ELSE query[q]]
    /\ UNCHANGED <<paused, job, refresh, past>>

-----------------------------------------------------------------------------
RefreshStep == Read \/ Disable \/ (\E q \in Query : RefreshOne(q)) \/ RefreshDone

SchedulerNext ==
    \/ RefreshStep
    \/ FindPast \/ EmptyPast
    \/ \E s \in Source : Start(s) \/ Succeed(s) \/ JobFails(s) \/ Pause(s) \/ DeleteSource(s)
    \/ \E q \in Query :
        \/ Elapse(q) \/ UntilPasses(q) \/ ChangeValues(q) \/ RunAdHoc(q)
        \/ \E kind \in Kind \ {"past"} : EditSchedule(q, kind)

\* Both tasks are run by the rq-scheduler over and over.
SchedulerFairness ==
    /\ WF_schedulerVars(RefreshStep)
    /\ WF_schedulerVars(FindPast)
    /\ WF_schedulerVars(EmptyPast)

SchedulerSpec == SchedulerInit /\ [][SchedulerNext]_schedulerVars /\ SchedulerFairness

-----------------------------------------------------------------------------
(* Properties                                                              *)

\* A query that is due, whose source works and whose parameters are allowed
\* and were so when its row was last written, gets its text run: on its own
\* behalf or by the job of another query with the same text.  Neither a query
\* that cannot be judged or enqueued nor the choice among equals prevents it.
Runnable(q) ==
    /\ IsDue(query[q]) /\ ShouldRefresh(q)
    /\ query[q].valid /\ query[q].hash = "applied"
DueTextRuns ==
    \A q \in Query : Runnable(q) ~> ~Runnable(q) \/ job[source[q]].pc # "none"

\* A schedule whose end has passed is emptied, disabled or not, as long as
\* nobody's schedule has an end that is no date.
PastSchedulesEmptied ==
    \A q \in Query : query[q].kind = "past" ~>
        query[q].kind # "past" \/ \E p \in Query : query[p].kind = "malformed"

=============================================================================
