----------------------------- MODULE QueryQueue -----------------------------
(***************************************************************************)
(* How a query becomes an RQ job.                                          *)
(*                                                                         *)
(* Callers (web handlers and refresh_queries) run enqueue_query: under     *)
(* WATCH they look at the lock query_hash_job:<data source>:<hash>, judge  *)
(* the job it names and, if there is none to share, enqueue one and set    *)
(* the lock in MULTI/EXEC.  Workers pop jobs, run them and delete the      *)
(* lock; users cancel jobs; a periodic job removes ghost locks.  Every     *)
(* Redis round trip that another actor can come between is its own action; *)
(* only the registries of RQ's queues are read as one, and so are the      *)
(* queues: a job is in one of them.                                        *)
(***************************************************************************)
EXTENDS Naturals, FiniteSets

CONSTANTS
    Caller,     \* threads that call enqueue_query
    Key,        \* <data source, query hash> pairs: one lock each
    Job,        \* job ids (a finite supply bounds a TLC run)
    NoJob,      \* no job: an absent Redis key, Python's None
    NoKey,      \* the key of a job id, or of a caller, not in use yet
    MaxTries,   \* 5 in the code
    TimeLimit,  \* whether jobs carry a time limit (job.timeout # -1)
    Events      \* the optional events that may happen in this instance

ASSUME ConstantsAssumption ==
    /\ NoJob \notin Job
    /\ NoKey \notin Key
    /\ MaxTries \in Nat \ {0}
    /\ TimeLimit \in BOOLEAN
    /\ Events \subseteq {"cancel", "fail", "crash", "lockExpiry", "jobExpiry", "sweep"}

VARIABLES
    lock,   \* Redis: lock[k] is the job id the lock names, or NoJob
    jobs,   \* Redis and the workers: what is known and done about each job id
    call,   \* enqueue_query: the local state of each caller
    dirty,  \* Redis: the callers whose watched key has been modified
    ghost   \* remove_ghost_locks: its local state

vars == <<lock, jobs, call, dirty, ghost>>

JobRecord ==
    [key : Key \cup {NoKey},
     status : {"none", "queued", "started", "finished", "failed", "canceled", "expired"},
     cancelled : BOOLEAN,       \* the flag in the job's meta
     cancelling : BOOLEAN,      \* between the two writes of cancel()
     place : {"nowhere", "queue", "registry"},  \* where RQ keeps the id
     horse : {"none", "popped", "running", "unlocked", "ended", "crashed", "lapsed"}]

CallRecord ==
    [pc : {"idle", "watch", "get", "fetch", "status", "delete", "enqueue", "exec"},
     key : Key \cup {NoKey},
     job : Job \cup {NoJob},    \* at "idle": what the last call returned
     found : Job \cup {NoJob},  \* the job id read from the lock
     tries : 0..MaxTries,
     revoked : SUBSET Job,      \* history: the jobs revoked when it began,
     done : SUBSET Job]         \* and those done; only properties read them

GhostRecord ==
    [pc : {"idle", "get", "queued", "delete"},
     unread : SUBSET Key,               \* the locks still to be read,
     seen : [Key -> Job \cup {NoJob}],  \* what the others were read to name,
     todo : SUBSET Key,                 \* and the locks still to be judged
     ids : SUBSET Job]                  \* the jobs RQ lists

TypeOK ==
    /\ lock \in [Key -> Job \cup {NoJob}]
    /\ jobs \in [Job -> JobRecord]
    /\ call \in [Caller -> CallRecord]
    /\ dirty \in SUBSET Caller
    /\ ghost \in GhostRecord

GhostIdle ==
    [pc |-> "idle", unread |-> {}, seen |-> [k \in Key |-> NoJob], todo |-> {}, ids |-> {}]

Init ==
    /\ lock = [k \in Key |-> NoJob]
    /\ jobs = [j \in Job |-> [key |-> NoKey, status |-> "none", cancelled |-> FALSE,
                              cancelling |-> FALSE, place |-> "nowhere", horse |-> "none"]]
    /\ call = [c \in Caller |-> [pc |-> "idle", key |-> NoKey, job |-> NoJob, found |-> NoJob,
                                 tries |-> 0, revoked |-> {}, done |-> {}]]
    /\ dirty = {}
    /\ ghost = GhostIdle

Absent  == {j \in Job : jobs[j].status = "none"}
Done    == {j \in Job : jobs[j].status \in {"finished", "failed"}}
Revoked == {j \in Job : jobs[j].cancelled \/ jobs[j].status = "expired"}
Active  == {c \in Caller : call[c].pc # "idle"}

\* A job some worker will still run, or is running.
Live == {j \in Job : jobs[j].place = "queue" \/ jobs[j].horse \in {"popped", "running"}}

-----------------------------------------------------------------------------
(* Redis: a write to a lock marks every caller that watches it.            *)

Watchers(k) == {c \in Caller : call[c].pc \notin {"idle", "watch"} /\ call[c].key = k}

\* DEL of an absent key modifies nothing.
Del(k) ==
    /\ lock' = [lock EXCEPT ![k] = NoJob]
    /\ dirty' = IF lock[k] = NoJob THEN dirty ELSE dirty \cup Watchers(k)

-----------------------------------------------------------------------------
(* enqueue_query.  Leaving a try runs pipe.reset(), which unwatches.       *)

Goto(c, label) == call' = [call EXCEPT ![c].pc = label]
Return(c, j) == call' = [call EXCEPT ![c].pc = "idle", ![c].job = j, ![c].found = NoJob,
                                     ![c].tries = 0]

\* The supply of job ids is a bound of the model: a call starts only when
\* every call under way could still use all its tries.
Supplied == Cardinality(Absent) >= MaxTries * (1 + Cardinality(Active))

Begin(c, k) ==
    /\ call[c].pc = "idle"
    /\ Supplied
    /\ call' = [call EXCEPT ![c].pc = "watch", ![c].key = k, ![c].job = NoJob,
                            ![c].revoked = Revoked, ![c].done = Done]
    /\ UNCHANGED <<lock, jobs, dirty, ghost>>

\* A fault for TLC: one try too many.
TryLeftOffByOne(c) == call[c].tries <= MaxTries
TryLeft(c) == call[c].tries < MaxTries

Watch(c) ==
    /\ call[c].pc = "watch"
    /\ TryLeft(c)
    /\ call' = [call EXCEPT ![c].pc = "get", ![c].tries = @ + 1]
    /\ UNCHANGED <<lock, jobs, dirty, ghost>>

\* The loop ends without a break: the job of the last try is the result.
OutOfTries(c) ==
    /\ call[c].pc = "watch"
    /\ ~TryLeft(c)
    /\ Return(c, call[c].job)
    /\ UNCHANGED <<lock, jobs, dirty, ghost>>

\* pipe.get: a lock to judge, a job to create, or one of an earlier try to
\* return as it is.
Get(c) ==
    /\ call[c].pc = "get"
    /\ \/ /\ lock[call[c].key] # NoJob
          /\ call' = [call EXCEPT ![c].pc = "fetch", ![c].found = lock[call[c].key]]
          /\ UNCHANGED dirty
       \/ /\ lock[call[c].key] = NoJob /\ call[c].job = NoJob
          /\ Goto(c, "enqueue")
          /\ UNCHANGED dirty
       \/ /\ lock[call[c].key] = NoJob /\ call[c].job # NoJob
          /\ Return(c, call[c].job)
          /\ dirty' = dirty \ {c}
    /\ UNCHANGED <<lock, jobs, ghost>>

\* A fault for TLC: the lock of a cancelled job is respected.
UselessUnlessCancelled(j) == jobs[j].status = "expired"
Useless(j) == j \in Revoked

\* Job.fetch reads the meta and fails for a job that has expired.  Either
\* way the get_status that follows can no longer save the lock.
Fetch(c) ==
    /\ call[c].pc = "fetch"
    /\ Goto(c, IF Useless(call[c].found) THEN "delete" ELSE "status")
    /\ UNCHANGED <<lock, jobs, dirty, ghost>>

\* job.get_status is a second read; a live job is the call's result.
GetStatus(c) ==
    /\ call[c].pc = "status"
    /\ \/ /\ call[c].found \in Done
          /\ Goto(c, "delete")
          /\ UNCHANGED dirty
       \/ /\ call[c].found \notin Done
          /\ Return(c, call[c].found)
          /\ dirty' = dirty \ {c}
    /\ UNCHANGED <<lock, jobs, ghost>>

\* The irrelevant lock is removed over another connection, which modifies
\* the very key this caller watches.
DeleteLock(c) ==
    /\ call[c].pc = "delete"
    /\ Del(call[c].key)
    /\ call' = [call EXCEPT ![c].pc = "enqueue", ![c].job = NoJob, ![c].found = NoJob]
    /\ UNCHANGED <<jobs, ghost>>

\* QueryExecutor hashes again and must get the caller's key.  A fault for
\* TLC: its hash leaves the user out.
ExecutorKeyWithoutUser(c) == CHOOSE k \in Key : TRUE
ExecutorKey(c) == call[c].key

\* queue.enqueue saves the job and pushes its id at once; it is not part of
\* the transaction that sets the lock.
Enqueue(c) ==
    /\ call[c].pc = "enqueue"
    /\ \E j \in Absent :
        /\ jobs' = [jobs EXCEPT ![j].status = "queued", ![j].key = ExecutorKey(c),
                                ![j].place = "queue"]
        /\ call' = [call EXCEPT ![c].pc = "exec", ![c].job = j]
    /\ UNCHANGED <<lock, dirty, ghost>>

\* Faults for TLC: SET outside the transaction; a fresh start after WatchError.
TransactionAlwaysHolds(c) == TRUE
TransactionHolds(c) == c \notin dirty
JobOfNextTryForgotten(c) == NoJob
JobOfNextTry(c) == call[c].job

\* EXEC sets the lock, or the WatchError starts another try with job kept.
Exec(c) ==
    /\ call[c].pc = "exec"
    /\ \/ /\ TransactionHolds(c)
          /\ lock' = [lock EXCEPT ![call[c].key] = call[c].job]
          /\ dirty' = (dirty \cup Watchers(call[c].key)) \ {c}
          /\ Return(c, call[c].job)
       \/ /\ ~TransactionHolds(c)
          /\ dirty' = dirty \ {c}
          /\ call' = [call EXCEPT ![c].pc = "watch", ![c].job = JobOfNextTry(c)]
          /\ UNCHANGED lock
    /\ UNCHANGED <<jobs, ghost>>

CallStep(c) ==
    \/ Watch(c) \/ OutOfTries(c) \/ Get(c) \/ Fetch(c) \/ GetStatus(c)
    \/ DeleteLock(c) \/ Enqueue(c) \/ Exec(c)

-----------------------------------------------------------------------------
(* Workers                                                                 *)

Busy(j) == jobs[j].horse \in {"popped", "running", "unlocked"}

\* The id leaves the queue before the work horse registers the job.
Pop(j) ==
    /\ jobs[j].place = "queue"
    /\ jobs' = [jobs EXCEPT ![j].place = "nowhere", ![j].horse = "popped"]
    /\ UNCHANGED <<lock, call, dirty, ghost>>

\* RQ prepares the job even if it has been cancelled since it was popped.
Start(j) ==
    /\ jobs[j].horse = "popped"
    /\ jobs' = [jobs EXCEPT ![j].horse = "running", ![j].status = "started",
                            ![j].place = "registry"]
    /\ UNCHANGED <<lock, call, dirty, ghost>>

\* run(): the query has returned, failed, hit its soft limit or been
\* interrupted; whichever it was, the lock goes, whosever it is by now.
Unlock(j) ==
    /\ jobs[j].horse = "running"
    /\ jobs' = [jobs EXCEPT ![j].horse = "unlocked"]
    /\ Del(jobs[j].key)
    /\ UNCHANGED <<call, ghost>>

End(j, result) == jobs' = [jobs EXCEPT ![j].horse = "ended", ![j].status = result,
                                       ![j].place = "nowhere"]

\* execute_query returned a result id or a QueryExecutionError.
Finish(j) ==
    /\ jobs[j].horse = "unlocked"
    /\ End(j, "finished")
    /\ UNCHANGED <<lock, call, dirty, ghost>>

\* handle_job_failure.  A fault for TLC: failed jobs are retried.
RetryJob(j) == jobs' = [jobs EXCEPT ![j].horse = "none", ![j].status = "queued",
                                    ![j].place = "queue"]
FailJob(j) == End(j, "failed")

\* Another exception escaped execute_query, or the work horse died.
HorseFails(j) ==
    /\ "fail" \in Events
    /\ Busy(j)
    /\ FailJob(j)
    /\ UNCHANGED <<lock, call, dirty, ghost>>

\* A fault for TLC: the limit is enforced on the jobs that have none.
UnlimitedOver(j) == ~TimeLimit /\ Busy(j)
LimitOver(j) == TimeLimit /\ Busy(j)

\* monitor_work_horse kills a horse that outlived its limit and the grace.
HardLimit(j) ==
    /\ LimitOver(j)
    /\ FailJob(j)
    /\ UNCHANGED <<lock, call, dirty, ghost>>

\* The whole worker dies: Redis still says what it said ...
WorkerCrashes(j) ==
    /\ "crash" \in Events
    /\ Busy(j)
    /\ jobs' = [jobs EXCEPT ![j].horse = "crashed"]
    /\ UNCHANGED <<lock, call, dirty, ghost>>

\* ... until the heartbeats are missed.
HeartbeatLapses(j) ==
    /\ jobs[j].horse = "crashed"
    /\ jobs' = [jobs EXCEPT ![j].horse = "lapsed"]
    /\ UNCHANGED <<lock, call, dirty, ghost>>

-----------------------------------------------------------------------------
(* Users and the passing of time                                           *)

\* JobResource.delete: fetch the job, mark its meta ...
CancelMeta(j) ==
    /\ "cancel" \in Events
    /\ jobs[j].status \notin {"none", "expired"}
    /\ ~jobs[j].cancelling
    /\ jobs' = [jobs EXCEPT ![j].cancelled = TRUE, ![j].cancelling = TRUE]
    /\ UNCHANGED <<lock, call, dirty, ghost>>

\* ... and let RQ take it off the queue or the registry it is in.
CancelJob(j) ==
    /\ jobs[j].cancelling
    /\ jobs' = [jobs EXCEPT ![j].cancelling = FALSE, ![j].status = "canceled",
                            ![j].place = "nowhere"]
    /\ UNCHANGED <<lock, call, dirty, ghost>>

\* JOB_EXPIRY_TIME passes for a lock.  Whether that counts as a modification
\* for WATCH depends on the Redis version.
LockExpires(k) ==
    /\ "lockExpiry" \in Events
    /\ lock[k] # NoJob
    /\ Del(k) \/ (lock' = [lock EXCEPT ![k] = NoJob] /\ UNCHANGED dirty)
    /\ UNCHANGED <<jobs, call, ghost>>

\* result_ttl or failure_ttl passes for a job that is over.
JobExpires(j) ==
    /\ "jobExpiry" \in Events
    /\ j \in Done /\ ~jobs[j].cancelling
    /\ jobs' = [jobs EXCEPT ![j].status = "expired"]
    /\ UNCHANGED <<lock, call, dirty, ghost>>

-----------------------------------------------------------------------------
(* remove_ghost_locks, every minute                                        *)

GhostKeys ==
    /\ "sweep" \in Events
    /\ ghost.pc = "idle"
    /\ LET locked == {k \in Key : lock[k] # NoJob}
       IN  ghost' = [ghost EXCEPT !.pc = "get", !.unread = locked, !.todo = locked]
    /\ UNCHANGED <<lock, jobs, call, dirty>>

\* A lock gone since KEYS reads as None, and is then treated as a ghost's.
GhostGet(k) ==
    /\ ghost.pc = "get" /\ k \in ghost.unread
    /\ ghost' = [ghost EXCEPT !.unread = @ \ {k}, !.seen[k] = lock[k]]
    /\ UNCHANGED <<lock, jobs, call, dirty>>

\* A fault for TLC: rq_job_ids lists the jobs that are over as well.
ListedInAny(place) == {j \in Job : jobs[j].status # "none" /\ \E k \in Key : ghost.seen[k] = j}

\* Of the ids RQ lists, only those a lock was seen to name matter.
ListedIn(place) == {j \in Job : jobs[j].place = place /\ \E k \in ghost.todo : ghost.seen[k] = j}

Lapsed == {j \in Job : jobs[j].place = "registry" /\ jobs[j].horse = "lapsed"}

\* StartedJobRegistry.get_job_ids first fails the jobs whose heartbeat lapsed.
GhostReadStarted ==
    /\ ghost.pc = "get" /\ ghost.unread = {}
    /\ ghost' = [ghost EXCEPT !.pc = "queued", !.ids = ListedIn("registry") \ Lapsed]
    /\ jobs' = [j \in Job |-> IF j \in Lapsed
                              THEN [jobs[j] EXCEPT !.status = "failed", !.place = "nowhere"]
                              ELSE jobs[j]]
    /\ UNCHANGED <<lock, call, dirty>>

GhostReadQueued ==
    /\ ghost.pc = "queued"
    /\ ghost' = [ghost EXCEPT !.pc = "delete", !.ids = @ \cup ListedIn("queue")]
    /\ UNCHANGED <<lock, jobs, call, dirty>>

GhostDelete(k) ==
    /\ ghost.pc = "delete" /\ k \in ghost.todo
    /\ ghost' = [ghost EXCEPT !.todo = @ \ {k}]
    /\ IF ghost.seen[k] \in ghost.ids THEN UNCHANGED <<lock, dirty>> ELSE Del(k)
    /\ UNCHANGED <<jobs, call>>

GhostEnd ==
    /\ ghost.pc = "delete" /\ ghost.todo = {}
    /\ ghost' = GhostIdle
    /\ UNCHANGED <<lock, jobs, call, dirty>>

GhostStep ==
    \/ GhostKeys \/ GhostReadStarted \/ GhostReadQueued
    \/ \E k \in Key : GhostGet(k) \/ GhostDelete(k)
    \/ GhostEnd

-----------------------------------------------------------------------------

JobStep(j) ==
    \/ Pop(j) \/ Start(j) \/ Unlock(j) \/ Finish(j)
    \/ HorseFails(j) \/ HardLimit(j) \/ WorkerCrashes(j) \/ HeartbeatLapses(j)
    \/ CancelMeta(j) \/ CancelJob(j) \/ JobExpires(j)

Next ==
    \/ \E c \in Caller : CallStep(c) \/ \E k \in Key : Begin(c, k)
    \/ \E j \in Job : JobStep(j)
    \/ \E k \in Key : LockExpires(k)
    \/ GhostStep

Spec == Init /\ [][Next]_vars

\* What the deployment does keep doing: server threads run, workers take
\* jobs and register them, monitors enforce the limits, heartbeats lapse and
\* the periodic job runs.  No query is assumed to ever return by itself.
Fairness ==
    /\ \A c \in Caller : WF_vars(CallStep(c))
    /\ \A j \in Job : /\ WF_vars(Pop(j))
                      /\ WF_vars(Start(j))
                      /\ WF_vars(HardLimit(j))
                      /\ WF_vars(HeartbeatLapses(j))
                      /\ WF_vars(CancelJob(j))
    /\ WF_vars(GhostStep)

FairSpec == Spec /\ Fairness

-----------------------------------------------------------------------------
(* Properties                                                              *)

\* A lock only ever names a job that was saved, though it may have expired
\* since, and that was enqueued for the very query and data source the lock is
\* for: enqueue_query saves the job before it sets the lock, over two
\* connections.
LockNamesItsJob ==
    \A k \in Key : lock[k] # NoJob =>
        jobs[lock[k]].status # "none" /\ jobs[lock[k]].key = k

\* Whatever tries a call needed, it returns a job, and one of its own key:
\* the "Failed adding job for query" branch cannot be taken, and a caller
\* never polls for the result of another query.
CallReturnsItsJob ==
    \A c \in Caller : call[c].pc = "idle" /\ call[c].key # NoKey =>
        /\ call[c].job # NoJob
        /\ jobs[call[c].job].status # "none"
        /\ jobs[call[c].job].key = call[c].key

\* A job that had been cancelled or had expired when the call began is never
\* handed out; one that had finished or failed is handed out only if it is
\* cancelled or expires between the call's two reads of it.
NoStaleJobReturned ==
    \A c \in Caller : call[c].pc = "idle" =>
        /\ call[c].job \notin call[c].revoked
        /\ call[c].job \in call[c].done => jobs[call[c].job].status \in {"canceled", "expired"}

\* WATCH does its work: a lock passes from one job to another only through
\* its deletion, so no call overwrites the lock of a call it raced.
NoLockOverwritten ==
    [][\A k \in Key : lock[k] # NoJob /\ lock'[k] # lock[k] => lock'[k] = NoJob]_vars

\* A lock whose job no worker will ever run again does not keep naming it:
\* remove_ghost_locks gets to it even when no caller asks for the query.
GhostLockRemoved ==
    \A k \in Key, j \in Job : (lock[k] = j /\ j \notin Live) ~> lock[k] # j

\* With a time limit every job a worker took ends, hung queries included.
EveryJobEnds == \A j \in Job : (j \in Live) ~> (j \notin Live)

\* One job at a time works on a key, leaving aside cancelled ones that still
\* wind down: what the lock is there for.
SingleFlight ==
    \A i, j \in Live \ Revoked : jobs[i].key = jobs[j].key => i = j

\* remove_ghost_locks leaves the lock of a job that waits or runs alone.
OnlyGhostLocksRemoved ==
    [][\A k \in Key : GhostDelete(k) /\ lock'[k] # lock[k] => lock[k] \notin Live]_vars

\* The queue keeps JobPromise: at most one execution of a job, none of a
\* settled one, and locks acquired only while free and by jobs of their key.
PhaseOf(j) ==
    CASE jobs[j].status = "none"                       -> "absent"
      [] jobs[j].horse \in {"running", "unlocked"}     -> "executing"
      [] jobs[j].place = "queue" \/ jobs[j].horse = "popped" -> "waiting"
      [] OTHER                                         -> "settled"

Promise == INSTANCE JobPromise
    WITH holder <- lock, owner <- [j \in Job |-> jobs[j].key],
         phase <- [j \in Job |-> PhaseOf(j)]

KeepsJobPromise == Promise!Spec

=============================================================================
