---------------------------- MODULE QueryResults ----------------------------
(***************************************************************************)
(* What becomes of the result of an execution.                             *)
(*                                                                         *)
(* QueryExecutor.run stores the result, makes it the latest one of every   *)
(* query with the same hash, keeps the failure counter of the query it     *)
(* runs for and, once that is committed, enqueues a check of the alerts.   *)
(* Executions and the edits of users meet in PostgreSQL, under READ        *)
(* COMMITTED: each statement that another transaction can come before is   *)
(* its own action, and an UPDATE holds its row until the transaction ends. *)
(* The version column never changes, so its test always passes.            *)
(***************************************************************************)
EXTENDS Naturals, FiniteSets, FiniteSetsExt

CONSTANTS
    Query,      \* ids of queries: naturals, in whose order rows are updated
    Hash,       \* <data source, query hash> pairs
    Exec,       \* executions; each stores one result at most, called like it
    Editor,     \* threads that run QueryResource.post
    NoExec, NoQuery,
    Overlap,    \* whether transactions of this instance meet at all
    Events      \* the optional events that may happen in this instance

ASSUME ConstantsAssumption ==
    /\ Query \subseteq Nat /\ NoQuery \notin Query
    /\ IsFiniteSet(Exec) /\ NoExec \notin Exec
    /\ Overlap \in BOOLEAN
    /\ Events \subseteq {"crash", "edit"}

VARIABLES
    query,  \* the committed rows of queries, and who holds the lock on each
    exec,   \* QueryExecutor: the local state of each execution
    edit,   \* QueryResource.post: the local state of each editor
    checks  \* RQ: the pending check_alerts_for_query jobs, <<query, execution>>

vars == <<query, exec, edit, checks>>

QueryRecord ==
    [hash : Hash,
     latest : Exec \cup {NoExec},   \* latest_query_data
     failures : Nat,                \* schedule_failures
     holder : Exec \cup {NoExec},   \* who has updated the row and not committed
     streak : Nat]                  \* history: the failures since a success

ExecRecord ==
    [pc : {"new", "running", "track", "store", "reset", "select", "update", "commit",
           "enqueue", "done", "dead"},
     hash : Hash, query : Query \cup {NoQuery}, scheduled : BOOLEAN,
     loaded : Nat,                  \* schedule_failures of the detached query_model
     at : Nat,                      \* retrieved_at; 0 before there is a result
     order : Nat,                   \* history: which commit it was; 0 before
     seen : SUBSET Query,           \* the rows update_latest_result found
     todo : SUBSET Query]           \* rows left to update, then ids left to enqueue

EditRecord ==
    [pc : {"idle", "edit", "find", "latest"},
     query : Query \cup {NoQuery},
     latest : Exec \cup {NoExec},   \* as this session loaded it
     found : Exec \cup {NoExec}]

TypeOK ==
    /\ query \in [Query -> QueryRecord]
    /\ exec \in [Exec -> ExecRecord]
    /\ edit \in [Editor -> EditRecord]
    /\ checks \subseteq Query \X Exec

NoEdit == [pc |-> "idle", query |-> NoQuery, latest |-> NoExec, found |-> NoExec]

Init ==
    /\ \E h \in [Query -> Hash], f \in [Query -> 0..1] :
        query = [q \in Query |-> [hash |-> h[q], latest |-> NoExec, failures |-> f[q],
                                  holder |-> NoExec, streak |-> f[q]]]
    /\ \E h \in Hash :
        exec = [e \in Exec |-> [pc |-> "new", hash |-> h, query |-> NoQuery,
                                scheduled |-> FALSE, loaded |-> 0, at |-> 0, order |-> 0,
                                seen |-> {}, todo |-> {}]]
    /\ edit = [x \in Editor |-> NoEdit]
    /\ checks = {}

Over(e) == exec[e].pc \in {"new", "done", "dead"}
Committed == {e \in Exec : exec[e].order > 0}
Quiet == (\A e \in Exec : Over(e)) /\ (\A x \in Editor : edit[x].pc = "idle") /\ checks = {}

-----------------------------------------------------------------------------
(* Rows                                                                    *)

Free(q) == query[q].holder = NoExec
Goto(e, label) == exec' = [exec EXCEPT ![e].pc = label]

\* Nobody reads the local state of an execution that is over.
End(e, label) ==
    exec' = [exec EXCEPT ![e] = [@ EXCEPT !.pc = label, !.query = NoQuery, !.scheduled = FALSE,
                                          !.loaded = 0, !.seen = {}, !.todo = {}]]
Release(e) == [q \in Query |-> IF query[q].holder = e THEN [query[q] EXCEPT !.holder = NoExec]
                                                     ELSE query[q]]

-----------------------------------------------------------------------------
(* QueryExecutor                                                           *)

\* The job lock keeps executions of a hash apart only until run() deletes it,
\* which is before the result is stored.
MayLoad(e, h) ==
    /\ \A d \in Exec : exec[d].pc = "running" => exec[d].hash # h
    /\ Overlap \/ Quiet

\* A fault for TLC: an execution for no query has None for a counter.
LoadedOrNone(q) == IF q = NoQuery THEN NoQuery ELSE query[q].failures
Loaded(q) == IF q = NoQuery THEN 0 ELSE query[q].failures

\* __init__ reads the query and closes the session; the object stays as it
\* was read.  A scheduled job runs the text of its query, unless that was
\* edited while the job waited; others run any text.
Load(e) ==
    /\ exec[e].pc = "new"
    /\ \E h \in Hash, q \in Query \cup {NoQuery}, s \in BOOLEAN :
        /\ MayLoad(e, h)
        /\ s => q # NoQuery /\ (query[q].hash = h \/ "edit" \in Events)
        /\ exec' = [exec EXCEPT ![e].pc = "running", ![e].hash = h, ![e].query = q,
                                ![e].scheduled = s, ![e].loaded = Loaded(q)]
    /\ UNCHANGED <<query, edit, checks>>

\* run_query is over and the lock is deleted.
RunFails(e) ==
    /\ exec[e].pc = "running"
    /\ IF exec[e].scheduled THEN Goto(e, "track") ELSE End(e, "done")
    /\ UNCHANGED <<query, edit, checks>>

RunSucceeds(e) ==
    /\ exec[e].pc = "running"
    /\ Goto(e, "store")
    /\ UNCHANGED <<query, edit, checks>>

\* track_failure counts from the value that was read before the run.
Track(e) ==
    /\ exec[e].pc = "track"
    /\ Free(exec[e].query)
    /\ query' = [query EXCEPT ![exec[e].query].failures = exec[e].loaded + 1,
                              ![exec[e].query].streak = @ + 1]
    /\ End(e, "done")
    /\ UNCHANGED <<edit, checks>>

\* A fault for TLC: only scheduled runs reset the counter.
ScheduledResets(e) == exec[e].scheduled /\ exec[e].loaded > 0
Resets(e) == exec[e].query # NoQuery /\ exec[e].loaded > 0

\* store_result: retrieved_at is read here, long before the commit.
Store(e) ==
    /\ exec[e].pc = "store"
    /\ exec' = [exec EXCEPT ![e].at = 1 + Max({exec[d].at : d \in Exec}),
                            ![e].pc = IF Resets(e) THEN "reset" ELSE "select"]
    /\ UNCHANGED <<query, edit, checks>>

\* The first SELECT of update_latest_result flushes the session before.
Reset(e) ==
    /\ exec[e].pc = "reset"
    /\ Free(exec[e].query)
    /\ query' = [query EXCEPT ![exec[e].query].holder = e]
    /\ Goto(e, "select")
    /\ UNCHANGED <<edit, checks>>

SameHash(h) == {q \in Query : query[q].hash = h}

Select(e) ==
    /\ exec[e].pc = "select"
    /\ exec' = [exec EXCEPT ![e].pc = "update", ![e].seen = SameHash(exec[e].hash),
                            ![e].todo = SameHash(exec[e].hash)]
    /\ UNCHANGED <<query, edit, checks>>

\* The second SELECT flushes the updates, in the order of the ids ...
Update(e) ==
    /\ exec[e].pc = "update" /\ exec[e].todo # {}
    /\ LET q == Min(exec[e].todo) IN
        /\ query[q].holder \in {NoExec, e}
        /\ query' = [query EXCEPT ![q].holder = e]
        /\ exec' = [exec EXCEPT ![e].todo = @ \ {q}]
    /\ UNCHANGED <<edit, checks>>

\* A fault for TLC: only the query the job was run for has its alerts checked.
OwnId(e) == Query \cap {exec[e].query}
Ids(e) == SameHash(exec[e].hash)

\* ... and then reads which queries have the hash now.
Collect(e) ==
    /\ exec[e].pc = "update" /\ exec[e].todo = {}
    /\ exec' = [exec EXCEPT ![e].pc = "commit", ![e].todo = Ids(e)]
    /\ UNCHANGED <<query, edit, checks>>

\* A fault for TLC: the session is flushed, and the transaction left open.
HolderUncommitted(e, q) == query[q].holder
HolderAfter(e, q) == IF query[q].holder = e THEN NoExec ELSE query[q].holder

\* A row after the transaction of e.
Written(e, q) ==
    LET r == query[q] IN
    [r EXCEPT !.latest = IF q \in exec[e].seen THEN e ELSE r.latest,
              !.failures = IF q = exec[e].query /\ Resets(e) THEN 0 ELSE r.failures,
              !.streak = IF q = exec[e].query THEN 0 ELSE r.streak,
              !.holder = HolderAfter(e, q)]

Commit(e) ==
    /\ exec[e].pc = "commit"
    /\ query' = [q \in Query |-> Written(e, q)]
    /\ exec' = [exec EXCEPT ![e].pc = "enqueue", ![e].order = 1 + Cardinality(Committed)]
    /\ UNCHANGED <<edit, checks>>

\* check_alerts_for_query.delay.  A fault for TLC: it comes before the commit.
ReadyEarly(e) == exec[e].pc \in {"commit", "enqueue"}
ReadyToCheck(e) == exec[e].pc = "enqueue"

Delay(e, q) ==
    /\ ReadyToCheck(e) /\ q \in exec[e].todo
    /\ exec' = [exec EXCEPT ![e].todo = @ \ {q}]
    /\ checks' = checks \cup {<<q, e>>}
    /\ UNCHANGED <<query, edit>>

Finish(e) ==
    /\ exec[e].pc = "enqueue" /\ exec[e].todo = {}
    /\ End(e, "done")
    /\ UNCHANGED <<query, edit, checks>>

\* The work horse dies, or an exception escapes: PostgreSQL rolls back.
Crash(e) ==
    /\ "crash" \in Events
    /\ ~Over(e)
    /\ query' = Release(e)
    /\ End(e, "dead")
    /\ UNCHANGED <<edit, checks>>

\* The row e is about to update.
Wanted(e) ==
    CASE exec[e].pc \in {"reset", "track"} -> {exec[e].query}
      [] exec[e].pc = "update" /\ exec[e].todo # {} -> {Min(exec[e].todo)}
      [] OTHER -> {}
Awaits(d, e) == d # e /\ \E q \in Wanted(d) : query[q].holder = e

Deadlocked(e) == \E d \in Exec : Awaits(d, e) /\ Awaits(e, d)

\* PostgreSQL aborts one of them, whose job fails without a result.
AbortDeadlocked(e) ==
    /\ Deadlocked(e)
    /\ query' = Release(e)
    /\ End(e, "dead")
    /\ UNCHANGED <<edit, checks>>

\* check_alerts_for_query reads latest_query_data when it runs.
CheckAlerts(q, e) ==
    /\ <<q, e>> \in checks
    /\ checks' = checks \ {<<q, e>>}
    /\ UNCHANGED <<query, exec, edit>>

-----------------------------------------------------------------------------
(* QueryResource.post                                                      *)

EditLoad(x, q) ==
    /\ "edit" \in Events
    /\ edit[x].pc = "idle"
    /\ Overlap \/ Quiet
    /\ edit' = [edit EXCEPT ![x] = [pc |-> "edit", query |-> q, latest |-> query[q].latest,
                                    found |-> NoExec]]
    /\ UNCHANGED <<query, exec, checks>>

\* update_model and the first commit; the hash follows the text.
EditText(x, h) ==
    /\ edit[x].pc = "edit"
    /\ Free(edit[x].query)
    /\ query' = [query EXCEPT ![edit[x].query].hash = h]
    /\ edit' = [edit EXCEPT ![x].pc = "find"]
    /\ UNCHANGED <<exec, checks>>

\* The committed result of hash h that was retrieved last.
ResultsOf(h) == {e \in Committed : exec[e].hash = h}

\* A fault for TLC: the result that was retrieved first.
OldestOf(h) == IF ResultsOf(h) = {} THEN NoExec
               ELSE CHOOSE e \in ResultsOf(h) : \A d \in ResultsOf(h) : exec[d].at >= exec[e].at
NewestOf(h) == IF ResultsOf(h) = {} THEN NoExec
               ELSE CHOOSE e \in ResultsOf(h) : \A d \in ResultsOf(h) : exec[d].at <= exec[e].at

\* update_latest_result_by_query_hash; its hash is the one just written.
EditFind(x) ==
    /\ edit[x].pc = "find"
    /\ edit' = [edit EXCEPT ![x].pc = "latest",
                            ![x].found = NewestOf(query[edit[x].query].hash)]
    /\ UNCHANGED <<query, exec, checks>>

\* The session writes what differs from the value it has loaded.
EditLatest(x) ==
    /\ edit[x].pc = "latest"
    /\ IF edit[x].found \in {NoExec, edit[x].latest}
       THEN UNCHANGED query
       ELSE /\ Free(edit[x].query)
            /\ query' = [query EXCEPT ![edit[x].query].latest = edit[x].found]
    /\ edit' = [edit EXCEPT ![x] = NoEdit]
    /\ UNCHANGED <<exec, checks>>

-----------------------------------------------------------------------------

ExecStep(e) ==
    \/ RunFails(e) \/ RunSucceeds(e) \/ Track(e) \/ Store(e) \/ Reset(e) \/ Select(e)
    \/ Update(e) \/ Collect(e) \/ Commit(e) \/ (\E q \in Query : Delay(e, q)) \/ Finish(e)
    \/ AbortDeadlocked(e)

EditStep(x) == (\E h \in Hash : EditText(x, h)) \/ EditFind(x) \/ EditLatest(x)

Next ==
    \/ \E e \in Exec : Load(e) \/ ExecStep(e) \/ Crash(e)
    \/ \E q \in Query, e \in Exec : CheckAlerts(q, e)
    \/ \E x \in Editor : EditStep(x) \/ \E q \in Query : EditLoad(x, q)

Spec == Init /\ [][Next]_vars

\* Jobs that have a time limit end one way or the other, a request thread
\* goes on, and workers take the jobs that check alerts.
Fairness ==
    /\ \A e \in Exec : WF_vars(ExecStep(e))
    /\ \A x \in Editor : WF_vars(EditStep(x))
    /\ \A q \in Query, e \in Exec : WF_vars(CheckAlerts(q, e))

FairSpec == Spec /\ Fairness

-----------------------------------------------------------------------------
(* Properties                                                              *)

\* If transactions never meet, a query shows the newest stored result of the
\* text it has, however edits, failures and crashes alternate with the
\* executions of this query and of others with the same text.
LatestIsNewest ==
    \A q \in Query : Free(q) /\ (\A x \in Editor : edit[x].query # q) =>
        \A e \in ResultsOf(query[q].hash) :
            LET l == query[q].latest IN
            l \in Committed /\ exec[l].hash = query[q].hash /\ exec[l].at >= exec[e].at

\* If transactions never meet, schedule_failures is the number of scheduled
\* runs that have failed since the query last succeeded, ad hoc runs included.
FailuresCounted == \A q \in Query : query[q].failures = query[q].streak

\* "make sure that alert sees the latest query result": when the check that
\* an execution asked for runs, the query shows the result of that execution
\* or one committed after it, even if several executions race.
AlertSeesResult ==
    [][\A q \in Query, e \in Exec : CheckAlerts(q, e) =>
        /\ query[q].latest # NoExec
        /\ exec[e].order > 0
        /\ exec[query[q].latest].order >= exec[e].order]_vars

\* Executions that wait for each other's rows do not wait for ever.
EveryExecutionEnds == \A e \in Exec : (exec[e].pc = "running") ~> Over(e)

\* A result that is about to be committed is brought to the alerts of every
\* query it is written to, unless the work horse dies first.
ResultsReachAlerts ==
    \A q \in Query, e \in Exec :
        (exec[e].pc = "commit" /\ q \in exec[e].seen)
            ~> (<<q, e>> \in checks \/ exec[e].pc = "dead")

\* "Query execution success resets the failure counter."
SuccessResetsFailures ==
    [][\A e \in Exec : Commit(e) /\ exec[e].query # NoQuery =>
        query'[exec[e].query].failures = 0]_vars

=============================================================================
