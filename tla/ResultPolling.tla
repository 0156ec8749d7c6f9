--------------------------- MODULE ResultPolling ---------------------------
(***************************************************************************)
(* How a page of the web client runs its query: it posts the execution,    *)
(* polls the job until it has ended, loads the result, and meanwhile       *)
(* refuses to run the query again.                                         *)
(*                                                                         *)
(* JobResource reads the job in two steps, its data and then its status    *)
(* and its result, while workers and cancellations write it in steps too.  *)
(***************************************************************************)
EXTENDS Naturals

CONSTANTS
    MaxTry,     \* 3: which try to load a result may still be followed by another
    MaxRuns     \* how often the query is run (bound of the model)

ASSUME PollingAssumption == MaxTry \in Nat /\ MaxRuns \in Nat

VARIABLES
    task,       \* the job of the execution, in Redis
    page,       \* the execution as the page sees it
    runs,       \* how often the query has been run
    trouble     \* history: this execution's job failed or was cancelled, or a
                \* request of it failed: was not answered, or with an error, as
                \* one for an expired job is with 404

pollingVars == <<task, page, runs, trouble>>

JobStatus == {"queued", "started", "finished", "failed", "canceled"}
JobResult == {"none", "id", "error"}

PollingTypeOK ==
    /\ task \in [status : JobStatus, cancelled : BOOLEAN, result : JobResult,
                 working : BOOLEAN,     \* a worker is at it
                 saved : BOOLEAN]       \* it has not expired
    /\ page \in [pc : {"idle", "post", "refused", "wait", "fetch", "read", "load", "done",
                       "failed"},
                 guard : BOOLEAN,       \* executionGuard
                 canceling : BOOLEAN,   \* a DELETE of the job has written its meta only
                 meta : BOOLEAN,        \* is_cancelled as JobResource has fetched it
                 try : 0..(MaxTry + 1)]
    /\ runs \in 0..MaxRuns
    /\ trouble \in BOOLEAN

NewTask ==
    [status |-> "queued", cancelled |-> FALSE, result |-> "none", working |-> FALSE,
     saved |-> TRUE]
NewPage == [pc |-> "idle", guard |-> FALSE, canceling |-> FALSE, meta |-> FALSE, try |-> 0]

PollingInit ==
    /\ task = NewTask
    /\ page = NewPage
    /\ runs = 0
    /\ trouble = FALSE

-----------------------------------------------------------------------------
(* Starting an execution                                                   *)

\* A click while an execution is under way does nothing.
Execute ==
    /\ ~page.guard /\ ~page.canceling
    /\ runs < MaxRuns
    /\ runs' = runs + 1
    /\ page' = [NewPage EXCEPT !.pc = "post", !.guard = TRUE]
    /\ task' = NewTask
    /\ trouble' = FALSE

\* update ends the promise, and with it the guard.
Settled(pc) == page' = [page EXCEPT !.pc = pc, !.guard = FALSE]

PostAnswered ==
    /\ page.pc = "post"
    /\ \/ Settled("done")                           \* a cached result
       \/ page' = [page EXCEPT !.pc = "fetch"]      \* a job
    /\ UNCHANGED <<task, runs, trouble>>

\* The query may not be run: 403, with a message and no job for update to end
\* the promise with.
RequestRefused ==
    /\ page.pc = "post"
    /\ page' = [page EXCEPT !.pc = "refused"]
    /\ UNCHANGED <<task, runs, trouble>>

\* Whatever else is asked of the server while it polls, or to start with, may
\* fail: handleErrorResponse and refreshStatus make a failed job of it.
RequestFails ==
    /\ page.pc \in {"post", "fetch", "read"}
    /\ Settled("failed")
    /\ trouble' = TRUE
    /\ UNCHANGED <<task, runs>>

-----------------------------------------------------------------------------
(* JobResource.get, serialize_job                                          *)

FetchJob ==
    /\ page.pc = "fetch" /\ task.saved
    /\ page' = [page EXCEPT !.pc = "read", !.meta = task.cancelled]
    /\ UNCHANGED <<task, runs, trouble>>

\* The number that stands for the status of the job.
\* A fault for TLC: the mark of a cancelled job is not looked at.
SerializedUnmarked ==
    CASE task.result = "error"    -> 4
      [] task.status = "queued"   -> 1
      [] task.status = "started"  -> 2
      [] task.status = "finished" -> 3
      [] task.status = "failed"   -> 4
      [] task.status = "canceled" -> 5
Serialized ==
    CASE page.meta \/ task.result = "error" -> 4
      [] OTHER ->
            CASE task.status = "queued"   -> 1
              [] task.status = "started"  -> 2
              [] task.status = "finished" -> 3
              [] task.status = "failed"   -> 4
              [] task.status = "canceled" -> 5

\* The numbers the client understands: what else there is means nothing.
\* A fault for TLC: it means failure.
FailsUnlessWorking(n) == n \notin {2, 3}
Fails(n) == n = 4
Processing(n) == n \in {2, 3}

\* refreshStatus with the answer: load the result, or wait and ask again.
ReadStatus ==
    /\ page.pc = "read" /\ task.saved
    /\ IF Fails(Serialized) THEN Settled("failed")
       ELSE page' = [page EXCEPT !.pc = IF Processing(Serialized) /\ task.result = "id"
                                        THEN "load" ELSE "wait"]
    /\ UNCHANGED <<task, runs, trouble>>

WaitOver ==
    /\ page.pc = "wait"
    /\ page' = [page EXCEPT !.pc = "fetch"]
    /\ UNCHANGED <<task, runs, trouble>>

-----------------------------------------------------------------------------
(* loadResult                                                              *)

LoadAnswered ==
    /\ page.pc = "load"
    /\ Settled("done")
    /\ UNCHANGED <<task, runs, trouble>>

\* A fault for TLC: the client tries again whenever loading fails.
GivesUpNever(n) == FALSE
GivesUp(n) == n > MaxTry

LoadFails ==
    /\ page.pc = "load"
    /\ IF GivesUp(page.try) THEN Settled("failed")
       ELSE page' = [page EXCEPT !.try = @ + 1]
    /\ trouble' = TRUE
    /\ UNCHANGED <<task, runs>>

-----------------------------------------------------------------------------
(* The job, see QueryQueue                                                 *)

Posted == page.pc \notin {"idle", "post", "refused"}

StartTask ==
    /\ Posted /\ task.status = "queued"
    /\ task' = [task EXCEPT !.status = "started", !.working = TRUE]
    /\ UNCHANGED <<page, runs, trouble>>

\* An error of the query is the result of a job that finished.
FinishTask(result) ==
    /\ task.working
    /\ task' = [task EXCEPT !.status = "finished", !.result = result, !.working = FALSE]
    /\ trouble' = (trouble \/ result = "error")
    /\ UNCHANGED <<page, runs>>

\* Death of the horse, the hard limit, a worker that obeys a cancellation.
TaskFails ==
    /\ task.working
    /\ task' = [task EXCEPT !.status = "failed", !.working = FALSE]
    /\ trouble' = TRUE
    /\ UNCHANGED <<page, runs>>

TaskExpires ==
    /\ ~task.working /\ task.status \in {"finished", "failed", "canceled"}
    /\ task' = [task EXCEPT !.saved = FALSE]
    /\ UNCHANGED <<page, runs, trouble>>

\* CancellableJob.cancel: first the meta, then the status.
CancelMeta ==
    /\ Posted /\ page.guard /\ ~page.canceling
    /\ page' = [page EXCEPT !.canceling = TRUE]
    /\ task' = [task EXCEPT !.cancelled = TRUE]
    /\ trouble' = TRUE
    /\ UNCHANGED runs

CancelStatus ==
    /\ page.canceling
    /\ page' = [page EXCEPT !.canceling = FALSE]
    /\ task' = [task EXCEPT !.status = "canceled"]
    /\ UNCHANGED <<runs, trouble>>

-----------------------------------------------------------------------------
PollStep ==
    \/ PostAnswered \/ RequestRefused \/ RequestFails
    \/ FetchJob \/ ReadStatus \/ WaitOver
    \/ LoadAnswered \/ LoadFails

TaskStep == StartTask \/ (\E result \in {"id", "error"} : FinishTask(result)) \/ TaskFails

PollingNext ==
    \/ Execute \/ PollStep
    \/ TaskStep \/ TaskExpires \/ CancelMeta \/ CancelStatus

\* Every request is answered or fails, timers run, and jobs end (EveryJobEnds).
PollingFairness == WF_pollingVars(PollStep) /\ WF_pollingVars(TaskStep)

PollingSpec == PollingInit /\ [][PollingNext]_pollingVars /\ PollingFairness

-----------------------------------------------------------------------------
(* Properties                                                              *)

\* Whatever becomes of its job, and when: an execution comes to an end on the
\* page, which can then run its query again. Only one that the server refuses
\* with 403 never does: its promise stays open and the guard set.
ExecutionSettles == page.guard ~> (~page.guard \/ page.pc = "refused")

\* An execution that the page reports as failed did fail: its job did, or was
\* cancelled, or a request was not answered or answered with an error, as one
\* for a job that has expired is.
OutcomesAreTrue == page.pc = "failed" => trouble

=============================================================================
