-------------------------- MODULE QueryQueueProofs --------------------------
(***************************************************************************)
(* What QueryQueue guarantees for any callers, keys, jobs, tries and       *)
(* events.  One inductive invariant, IInv, carries all the theorems; each  *)
(* of its parts has a lemma that shows every step preserves it.            *)
(***************************************************************************)
EXTENDS QueryQueue, TLAPS

\* How the status of a job, the place of its id and its work horse go together.
JobOK(j) ==
    LET r == jobs[j] IN
    /\ r.status = "none" => ~r.cancelled /\ r.place = "nowhere" /\ r.horse = "none"
    /\ r.place = "queue" => r.status = "queued" /\ r.horse = "none"
    /\ r.place = "registry" =>
        r.status = "started" /\ r.horse \in {"running", "unlocked", "crashed", "lapsed"}
    /\ r.horse = "none" => r.status \in {"none", "queued", "canceled"}
    /\ r.horse = "popped" => r.status \in {"queued", "canceled"}
    /\ r.horse \in {"running", "unlocked"} => r.status \in {"started", "canceled"}
    /\ r.horse = "crashed" => r.status \in {"queued", "started", "canceled"}
    /\ r.horse = "ended" => r.status \in {"finished", "failed", "canceled", "expired"}
    /\ r.cancelling => r.cancelled /\ r.status \notin {"none", "expired"}

\* What a caller's label says about its other local variables.
CallOK(c) ==
    LET r == call[c] IN
    /\ r.pc # "idle" => r.key \in Key
    /\ IF r.pc \in {"fetch", "status", "delete"} THEN r.found \in Job ELSE r.found = NoJob
    /\ r.pc = "exec" => r.job \in Job
    /\ r.pc = "idle" /\ r.key # NoKey => r.job \in Job
    /\ r.pc \notin {"idle", "watch"} => r.tries > 0
    /\ r.pc = "watch" /\ r.tries > 0 => r.job \in Job

\* A job that is enqueued for key k.
Serves(j, k) == j \in Job /\ jobs[j].status # "none" /\ jobs[j].key = k

OwnOK(c) ==
    /\ call[c].job # NoJob => Serves(call[c].job, call[c].key)
    /\ call[c].found # NoJob => Serves(call[c].found, call[c].key)

\* An unbroken watch means the lock is still free when the transaction starts.
WatchOK(c) ==
    call[c].pc \in {"enqueue", "exec"} /\ c \notin dirty => lock[call[c].key] = NoJob

\* A job over for good: no step gives it back to a worker.
OverForGood(j) ==
    /\ jobs[j].status \in {"finished", "failed", "canceled", "expired"}
    /\ jobs[j].horse \in {"ended", "lapsed"}

FreshOK(c) ==
    LET r == call[c] IN
    /\ r.revoked \subseteq Revoked
    /\ \A j \in r.done : OverForGood(j)
    /\ r.job \notin r.revoked
    /\ r.job \in r.done => jobs[r.job].status \in {"canceled", "expired"}
    /\ r.pc = "status" => r.found \notin r.revoked

JobsOK  == \A j \in Job : JobOK(j)
CallsOK == \A c \in Caller : CallOK(c)
OwnsOK  == \A c \in Caller : OwnOK(c)
WatchesOK == \A c \in Caller : WatchOK(c)
FreshCallsOK == \A c \in Caller : FreshOK(c)

IInv == TypeOK /\ JobsOK /\ CallsOK /\ LockNamesItsJob /\ OwnsOK /\ WatchesOK /\ FreshCallsOK

-----------------------------------------------------------------------------
(* Frames: which steps leave which variables alone                         *)

\* Only the calls themselves write the local state of a call.
LEMMA CallFrame ==
    (\E j \in Job : JobStep(j)) \/ (\E k \in Key : LockExpires(k)) \/ GhostStep => UNCHANGED call
    BY DEF JobStep, Pop, Start, Unlock, Finish, HorseFails, HardLimit, WorkerCrashes,
           HeartbeatLapses, CancelMeta, CancelJob, JobExpires, LockExpires, GhostStep,
           GhostKeys, GhostGet, GhostReadStarted, GhostReadQueued, GhostDelete, GhostEnd

\* Only remove_ghost_locks writes its local state.
LEMMA GhostFrame ==
    (\E c \in Caller : CallStep(c) \/ \E k \in Key : Begin(c, k)) \/ (\E j \in Job : JobStep(j))
        \/ (\E k \in Key : LockExpires(k)) => UNCHANGED ghost
    BY DEF CallStep, Begin, Watch, OutOfTries, Get, Fetch, GetStatus, DeleteLock, Enqueue, Exec,
           JobStep, Pop, Start, Unlock, Finish, HorseFails, HardLimit, WorkerCrashes,
           HeartbeatLapses, CancelMeta, CancelJob, JobExpires, LockExpires

\* Only Enqueue, the steps of a job and the clean-up of the registry write jobs.
LEMMA JobsFrame ==
    [Next]_vars =>
        \/ UNCHANGED jobs
        \/ \E c \in Caller : Enqueue(c)
        \/ \E j \in Job : JobStep(j)
        \/ GhostReadStarted
    BY DEF Next, vars, CallStep, Begin, Watch, OutOfTries, Get, Fetch, GetStatus, DeleteLock,
           Exec, LockExpires, GhostStep, GhostKeys, GhostGet, GhostReadQueued, GhostDelete,
           GhostEnd

-----------------------------------------------------------------------------
(* Jobs                                                                    *)

\* One step of a job touches no other job.
LEMMA OneJob ==
    ASSUME TypeOK, NEW i \in Job, JobStep(i), NEW j \in Job \ {i}
    PROVE  jobs'[j] = jobs[j]
    BY DEF TypeOK, JobStep, Pop, Start, Unlock, Finish, HorseFails, HardLimit, WorkerCrashes,
           HeartbeatLapses, CancelMeta, CancelJob, JobExpires, End, FailJob

\* Enqueue takes an unused job id, queues it for the key of the call and keeps it there.
LEMMA EnqueueJob ==
    ASSUME TypeOK, NEW c \in Caller, Enqueue(c)
    PROVE  \E i \in Absent :
            /\ \A j \in Job \ {i} : jobs'[j] = jobs[j]
            /\ jobs'[i].status = "queued" /\ jobs'[i].key = call[c].key
            /\ jobs'[i].place = "queue" /\ jobs'[i].horse = jobs[i].horse
            /\ jobs'[i].cancelled = jobs[i].cancelled
            /\ jobs'[i].cancelling = jobs[i].cancelling
            /\ call' = [call EXCEPT ![c].pc = "exec", ![c].job = i]
<1>1. PICK i \in Absent :
        /\ jobs' = [jobs EXCEPT ![i].status = "queued", ![i].key = call[c].key,
                                ![i].place = "queue"]
        /\ call' = [call EXCEPT ![c].pc = "exec", ![c].job = i]
    BY DEF Enqueue, ExecutorKey
<1>2. i \in Job /\ jobs \in [Job -> JobRecord] /\ jobs[i] \in JobRecord
    BY DEF Absent, TypeOK
<1>3. QED
    BY <1>1, <1>2 DEF JobRecord

\* What the clean-up of the registry does to one job: a lapsed one fails, others stay.
LEMMA SweepJob ==
    ASSUME TypeOK, GhostReadStarted, NEW j \in Job
    PROVE  \/ jobs'[j] = jobs[j]
           \/ /\ jobs[j].place = "registry" /\ jobs[j].horse = "lapsed"
              /\ jobs'[j] = [jobs[j] EXCEPT !.status = "failed", !.place = "nowhere"]
    BY DEF TypeOK, GhostReadStarted, Lapsed

\* Every step keeps status, place and work horse of each job consistent.
LEMMA JobsStep ==
    ASSUME TypeOK, JobsOK, [Next]_vars
    PROVE  JobsOK'
<1> SUFFICES ASSUME NEW j \in Job PROVE JobOK(j)'
    BY DEF JobsOK
<1>0. JobOK(j) /\ jobs[j] \in JobRecord
    BY DEF JobsOK, TypeOK
<1>1. CASE jobs'[j] = jobs[j]
    BY <1>0, <1>1 DEF JobOK
<1>2. CASE \E c \in Caller : Enqueue(c)
    BY <1>0, <1>1, <1>2, EnqueueJob DEF JobOK, Absent
<1>3. CASE JobStep(j)
    <2> USE <1>0 DEF JobOK, JobRecord, TypeOK
    <2>1. CASE Pop(j) \/ Start(j) \/ Unlock(j)
        BY <2>1 DEF Pop, Start, Unlock
    <2>2. CASE Finish(j) \/ HorseFails(j) \/ HardLimit(j)
        BY <2>2 DEF Finish, HorseFails, HardLimit, FailJob, End, Busy, LimitOver
    <2>3. CASE WorkerCrashes(j) \/ HeartbeatLapses(j)
        BY <2>3 DEF WorkerCrashes, HeartbeatLapses, Busy
    <2>4. CASE CancelMeta(j) \/ CancelJob(j) \/ JobExpires(j)
        BY <2>4 DEF CancelMeta, CancelJob, JobExpires, Done
    <2>5. QED
        BY <1>3, <2>1, <2>2, <2>3, <2>4 DEF JobStep
<1>4. CASE GhostReadStarted /\ jobs'[j] # jobs[j]
    <2>1. /\ jobs[j].place = "registry" /\ jobs[j].horse = "lapsed"
          /\ jobs'[j] = [jobs[j] EXCEPT !.status = "failed", !.place = "nowhere"]
        BY <1>4, SweepJob
    <2>2. QED
        BY <1>0, <2>1 DEF JobOK, JobRecord
<1>5. QED
    BY <1>1, <1>2, <1>3, <1>4, JobsFrame, OneJob

-----------------------------------------------------------------------------
(* Calls                                                                   *)

\* One step of a call touches no other call.
LEMMA OneCall ==
    ASSUME TypeOK, NEW c \in Caller, NEW d \in Caller \ {c},
           CallStep(c) \/ \E k \in Key : Begin(c, k)
    PROVE  call'[d] = call[d]
    BY DEF TypeOK, CallStep, Begin, Watch, OutOfTries, Get, Fetch, GetStatus, DeleteLock,
           Enqueue, Exec, Goto, Return

\* Every step keeps the local variables of each call consistent with its label.
LEMMA CallsStep ==
    ASSUME TypeOK, CallsOK, [Next]_vars
    PROVE  CallsOK'
<1> SUFFICES ASSUME NEW c \in Caller PROVE CallOK(c)'
    BY DEF CallsOK
<1>0. CallOK(c) /\ call[c] \in CallRecord
    BY DEF CallsOK, TypeOK
<1>1. CASE call'[c] = call[c]
    BY <1>0, <1>1 DEF CallOK
<1>2. CASE CallStep(c) \/ \E k \in Key : Begin(c, k)
    <2> USE <1>0, ConstantsAssumption DEF CallOK, CallRecord, TypeOK
    <2>1. CASE \E k \in Key : Begin(c, k)
        BY <2>1 DEF Begin
    <2>2. CASE Watch(c) \/ OutOfTries(c)
        BY <2>2 DEF Watch, OutOfTries, TryLeft, Return
    <2>3. CASE Get(c)
        BY <2>3 DEF Get, Goto, Return
    <2>4. CASE Fetch(c) \/ GetStatus(c)
        BY <2>4 DEF Fetch, GetStatus, Goto, Return
    <2>5. CASE DeleteLock(c)
        BY <2>5 DEF DeleteLock
    <2>6. CASE Enqueue(c)
        BY <2>6 DEF Enqueue, Absent
    <2>7. CASE Exec(c)
        BY <2>7 DEF Exec, JobOfNextTry, Return
    <2>8. QED
        BY <1>2, <2>1, <2>2, <2>3, <2>4, <2>5, <2>6, <2>7 DEF CallStep
<1>3. CASE UNCHANGED vars
    BY <1>1, <1>3 DEF vars
<1>4. QED
    BY <1>1, <1>2, <1>3, CallFrame, OneCall DEF Next

\* Every step of a call keeps the type of call.
LEMMA CallType ==
    ASSUME TypeOK, CallsOK, NEW c \in Caller, CallStep(c) \/ \E k \in Key : Begin(c, k)
    PROVE  call' \in [Caller -> CallRecord]
<1>0. call \in [Caller -> CallRecord] /\ call[c] \in CallRecord /\ CallOK(c)
    BY DEF TypeOK, CallsOK
<1>1. ASSUME NEW r \in CallRecord, call' = [call EXCEPT ![c] = r]
      PROVE  call' \in [Caller -> CallRecord]
    BY <1>0, <1>1
<1>2. ASSUME NEW label \in {"status", "delete", "enqueue"}, Goto(c, label)
      PROVE  call' \in [Caller -> CallRecord]
    <2>1. [call[c] EXCEPT !.pc = label] \in CallRecord
        BY <1>0 DEF CallRecord
    <2>2. QED
        BY <1>0, <1>2, <2>1 DEF Goto
<1>3. ASSUME NEW j \in Job \cup {NoJob}, Return(c, j)
      PROVE  call' \in [Caller -> CallRecord]
    <2>1. 0 \in 0..MaxTries
        BY ConstantsAssumption
    <2>2. [call[c] EXCEPT !.pc = "idle", !.job = j, !.found = NoJob, !.tries = 0] \in CallRecord
        BY <1>0, <2>1 DEF CallRecord
    <2>3. QED
        BY <1>0, <1>3, <2>2 DEF Return
<1>4. call[c].job \in Job \cup {NoJob} /\ call[c].found \in Job \cup {NoJob}
    BY <1>0 DEF CallRecord
<1>5. ASSUME NEW k \in Key, Begin(c, k) PROVE call' \in [Caller -> CallRecord]
    <2>1. Revoked \in SUBSET Job /\ Done \in SUBSET Job
        BY DEF Revoked, Done
    <2>2. [call[c] EXCEPT !.pc = "watch", !.key = k, !.job = NoJob, !.revoked = Revoked,
                          !.done = Done] \in CallRecord
        BY <1>0, <2>1 DEF CallRecord
    <2>3. QED
        BY <1>0, <1>5, <2>2 DEF Begin
<1>6. CASE Watch(c)
    <2>1. call[c].tries + 1 \in 0..MaxTries
        BY <1>0, <1>6, ConstantsAssumption DEF Watch, TryLeft, CallRecord
    <2>2. [call[c] EXCEPT !.pc = "get", !.tries = @ + 1] \in CallRecord
        BY <1>0, <2>1 DEF CallRecord
    <2>3. QED
        BY <1>0, <1>6, <2>2 DEF Watch
<1>7. CASE OutOfTries(c)
    BY <1>3, <1>4, <1>7 DEF OutOfTries
<1>8. CASE Get(c)
    <2>1. lock[call[c].key] \in Job \cup {NoJob}
        BY <1>0, <1>8 DEF Get, CallOK, TypeOK
    <2>2. [call[c] EXCEPT !.pc = "fetch", !.found = lock[call[c].key]] \in CallRecord
        BY <1>0, <2>1 DEF CallRecord
    <2>3. QED
        BY <1>0, <1>2, <1>3, <1>4, <1>8, <2>2 DEF Get
<1>9. CASE Fetch(c) \/ GetStatus(c)
    BY <1>2, <1>3, <1>4, <1>9 DEF Fetch, GetStatus
<1>10. CASE DeleteLock(c)
    <2>1. [call[c] EXCEPT !.pc = "enqueue", !.job = NoJob, !.found = NoJob] \in CallRecord
        BY <1>0 DEF CallRecord
    <2>2. QED
        BY <1>0, <1>10, <2>1 DEF DeleteLock
<1>11. CASE Enqueue(c)
    <2>1. PICK j \in Job : call' = [call EXCEPT ![c].pc = "exec", ![c].job = j]
        BY <1>11 DEF Enqueue, Absent
    <2>2. [call[c] EXCEPT !.pc = "exec", !.job = j] \in CallRecord
        BY <1>0 DEF CallRecord
    <2>3. QED
        BY <1>0, <2>1, <2>2
<1>12. CASE Exec(c)
    <2>1. [call[c] EXCEPT !.pc = "watch", !.job = call[c].job] \in CallRecord
        BY <1>0 DEF CallRecord
    <2>2. QED
        BY <1>0, <1>3, <1>4, <1>12, <2>1 DEF Exec, JobOfNextTry
<1>13. QED
    BY <1>5, <1>6, <1>7, <1>8, <1>9, <1>10, <1>11, <1>12 DEF CallStep

-----------------------------------------------------------------------------
(* Types                                                                   *)

\* A deletion keeps the types of lock and dirty.
LEMMA DelType ==
    ASSUME TypeOK, NEW k, Del(k)
    PROVE  lock' \in [Key -> Job \cup {NoJob}] /\ dirty' \in SUBSET Caller
    BY DEF TypeOK, Del, Watchers

\* Every step keeps the type of jobs.
LEMMA JobsType ==
    ASSUME TypeOK, CallsOK, [Next]_vars
    PROVE  jobs' \in [Job -> JobRecord]
<1>0. jobs \in [Job -> JobRecord]
    BY DEF TypeOK
<1>1. CASE UNCHANGED jobs
    BY <1>0, <1>1
<1>2. ASSUME NEW c \in Caller, Enqueue(c) PROVE jobs' \in [Job -> JobRecord]
    <2>1. call[c].key \in Key
        BY <1>2 DEF Enqueue, CallsOK, CallOK
    <2>2. PICK j \in Job : jobs' = [jobs EXCEPT ![j].status = "queued", ![j].key = call[c].key,
                                                ![j].place = "queue"]
        BY <1>2 DEF Enqueue, Absent, ExecutorKey
    <2>3. [jobs[j] EXCEPT !.status = "queued", !.key = call[c].key, !.place = "queue"]
            \in JobRecord
        BY <1>0, <2>1 DEF JobRecord
    <2>4. QED
        BY <1>0, <2>2, <2>3
<1>3. ASSUME NEW j \in Job, JobStep(j) PROVE jobs' \in [Job -> JobRecord]
    <2>0. jobs[j] \in JobRecord
        BY <1>0
    <2>1. CASE Pop(j) \/ Start(j) \/ Unlock(j)
        <3>1. /\ [jobs[j] EXCEPT !.place = "nowhere", !.horse = "popped"] \in JobRecord
              /\ [jobs[j] EXCEPT !.horse = "unlocked"] \in JobRecord
            BY <2>0 DEF JobRecord
        <3>2. [jobs[j] EXCEPT !.horse = "running", !.status = "started", !.place = "registry"]
                \in JobRecord
            BY <2>0 DEF JobRecord
        <3>3. QED
            BY <1>0, <2>1, <3>1, <3>2 DEF Pop, Start, Unlock
    <2>2. CASE Finish(j) \/ HorseFails(j) \/ HardLimit(j)
        <3>1. \A result \in {"finished", "failed"} :
                [jobs[j] EXCEPT !.horse = "ended", !.status = result, !.place = "nowhere"]
                    \in JobRecord
            BY <2>0 DEF JobRecord
        <3>2. QED
            BY <1>0, <2>2, <3>1 DEF Finish, HorseFails, HardLimit, FailJob, End
    <2>3. CASE WorkerCrashes(j) \/ HeartbeatLapses(j)
        <3>1. \A h \in {"crashed", "lapsed"} : [jobs[j] EXCEPT !.horse = h] \in JobRecord
            BY <2>0 DEF JobRecord
        <3>2. QED
            BY <1>0, <2>3, <3>1 DEF WorkerCrashes, HeartbeatLapses
    <2>4. CASE CancelMeta(j) \/ CancelJob(j) \/ JobExpires(j)
        <3>1. /\ [jobs[j] EXCEPT !.cancelled = TRUE, !.cancelling = TRUE] \in JobRecord
              /\ [jobs[j] EXCEPT !.status = "expired"] \in JobRecord
            BY <2>0 DEF JobRecord
        <3>2. [jobs[j] EXCEPT !.cancelling = FALSE, !.status = "canceled", !.place = "nowhere"]
                \in JobRecord
            BY <2>0 DEF JobRecord
        <3>3. QED
            BY <1>0, <2>4, <3>1, <3>2 DEF CancelMeta, CancelJob, JobExpires
    <2>5. QED
        BY <1>3, <2>1, <2>2, <2>3, <2>4 DEF JobStep
<1>4. CASE GhostReadStarted
    <2>1. \A j \in Job : [jobs[j] EXCEPT !.status = "failed", !.place = "nowhere"] \in JobRecord
        BY <1>0 DEF JobRecord
    <2>2. QED
        BY <1>0, <1>4, <2>1 DEF GhostReadStarted
<1>5. QED
    BY <1>1, <1>2, <1>3, <1>4, JobsFrame

\* Every step keeps the type of ghost.
LEMMA GhostType ==
    ASSUME TypeOK, GhostStep
    PROVE  ghost' \in GhostRecord
<1>0. ghost \in GhostRecord /\ lock \in [Key -> Job \cup {NoJob}]
    BY DEF TypeOK
<1>1. CASE GhostKeys
    <2>1. {k \in Key : lock[k] # NoJob} \in SUBSET Key
        OBVIOUS
    <2> DEFINE locked == {k \in Key : lock[k] # NoJob}
    <2>2. ghost' = [ghost EXCEPT !.pc = "get", !.unread = locked, !.todo = locked]
        BY <1>1 DEF GhostKeys
    <2> HIDE DEF locked
    <2>3. locked \in SUBSET Key
        BY <2>1 DEF locked
    <2>4. QED
        BY <1>0, <2>2, <2>3 DEF GhostRecord
<1>2. ASSUME NEW k \in Key, GhostGet(k) PROVE ghost' \in GhostRecord
    <2> DEFINE seen == [ghost.seen EXCEPT ![k] = lock[k]]
               unread == ghost.unread \ {k}
    <2>1. seen \in [Key -> Job \cup {NoJob}] /\ unread \in SUBSET Key
        BY <1>0 DEF GhostRecord
    <2>2. ghost' = [ghost EXCEPT !.unread = unread, !.seen = seen]
        BY <1>0, <1>2 DEF GhostGet, GhostRecord
    <2> HIDE DEF seen, unread
    <2>3. QED
        BY <1>0, <2>1, <2>2 DEF GhostRecord
<1>3. CASE GhostReadStarted \/ GhostReadQueued
    <2>1. ListedIn("registry") \ Lapsed \in SUBSET Job /\ ListedIn("queue") \in SUBSET Job
        BY DEF ListedIn
    <2>2. [ghost EXCEPT !.pc = "queued", !.ids = ListedIn("registry") \ Lapsed] \in GhostRecord
        BY <1>0, <2>1 DEF GhostRecord
    <2>3. ghost.ids \cup ListedIn("queue") \in SUBSET Job
        BY <1>0, <2>1 DEF GhostRecord
    <2>4. [ghost EXCEPT !.pc = "delete", !.ids = @ \cup ListedIn("queue")] \in GhostRecord
        BY <1>0, <2>3 DEF GhostRecord
    <2>5. QED
        BY <1>3, <2>2, <2>4 DEF GhostReadStarted, GhostReadQueued
<1>4. ASSUME NEW k \in Key, GhostDelete(k) PROVE ghost' \in GhostRecord
    <2>1. [ghost EXCEPT !.todo = @ \ {k}] \in GhostRecord
        BY <1>0 DEF GhostRecord
    <2>2. QED
        BY <1>4, <2>1 DEF GhostDelete
<1>5. CASE GhostEnd
    BY <1>5 DEF GhostEnd, GhostIdle, GhostRecord
<1>6. QED
    BY <1>1, <1>2, <1>3, <1>4, <1>5 DEF GhostStep

\* Every step writes locks by a deletion, or as the transaction of a call does.
LEMMA LockWrites ==
    ASSUME [Next]_vars
    PROVE  \/ UNCHANGED lock /\ dirty' \in SUBSET dirty
           \/ \E k : Del(k)
           \/ \E k \in Key : lock' = [lock EXCEPT ![k] = NoJob] /\ UNCHANGED dirty
           \/ \E c \in Caller : Exec(c)
<1>1. CASE UNCHANGED vars
    BY <1>1 DEF vars
<1>2. ASSUME NEW c \in Caller, CallStep(c) \/ \E k \in Key : Begin(c, k)
      PROVE  \/ UNCHANGED lock /\ dirty' \in SUBSET dirty
             \/ \E k : Del(k)
             \/ Exec(c)
    BY <1>2 DEF CallStep, Begin, Watch, OutOfTries, Get, Fetch, GetStatus, DeleteLock, Enqueue
<1>3. ASSUME NEW j \in Job, JobStep(j) PROVE (UNCHANGED <<lock, dirty>>) \/ \E k : Del(k)
    BY <1>3 DEF JobStep, Pop, Start, Unlock, Finish, HorseFails, HardLimit, WorkerCrashes,
                HeartbeatLapses, CancelMeta, CancelJob, JobExpires
<1>4. ASSUME GhostStep PROVE (UNCHANGED <<lock, dirty>>) \/ \E k : Del(k)
    BY <1>4 DEF GhostStep, GhostKeys, GhostGet, GhostReadStarted, GhostReadQueued, GhostDelete,
                GhostEnd
<1>5. ASSUME NEW k \in Key, LockExpires(k)
      PROVE  Del(k) \/ (lock' = [lock EXCEPT ![k] = NoJob] /\ UNCHANGED dirty)
    BY <1>5 DEF LockExpires
<1>6. QED
    BY <1>1, <1>2, <1>3, <1>4, <1>5 DEF Next

\* Every step keeps all types.
LEMMA TypeStep ==
    ASSUME TypeOK, CallsOK, [Next]_vars
    PROVE  TypeOK'
<1>1. lock' \in [Key -> Job \cup {NoJob}] /\ dirty' \in SUBSET Caller
    <2>1. ASSUME NEW c \in Caller, Exec(c)
          PROVE  lock' \in [Key -> Job \cup {NoJob}] /\ dirty' \in SUBSET Caller
        <3>1. call[c].job \in Job
            BY <2>1 DEF Exec, CallsOK, CallOK
        <3>2. QED
            BY <2>1, <3>1 DEF Exec, TypeOK, Watchers
    <2>2. QED
        BY <2>1, LockWrites, DelType DEF TypeOK
<1>2. call' \in [Caller -> CallRecord]
    <2>1. (\E c \in Caller : CallStep(c) \/ \E k \in Key : Begin(c, k)) \/ UNCHANGED call
        BY CallFrame DEF Next, vars
    <2>2. CASE UNCHANGED call
        BY <2>2 DEF TypeOK
    <2>3. QED
        BY <2>1, <2>2, CallType
<1>3. ghost' \in GhostRecord
    <2>1. GhostStep \/ UNCHANGED ghost
        BY GhostFrame DEF Next, vars
    <2>2. CASE UNCHANGED ghost
        BY <2>2 DEF TypeOK
    <2>3. QED
        BY <2>1, <2>2, GhostType
<1>4. QED
    BY <1>1, <1>2, <1>3, JobsType DEF TypeOK

-----------------------------------------------------------------------------
(* Keys: who serves whom                                                   *)

\* A job id that is in use stays in use, for the same key.
LEMMA KeyStable ==
    ASSUME TypeOK, JobsOK, [Next]_vars, NEW j \in Job, jobs[j].status # "none"
    PROVE  jobs'[j].status # "none" /\ jobs'[j].key = jobs[j].key
<1>0. jobs[j] \in JobRecord /\ JobOK(j)
    BY DEF TypeOK, JobsOK
<1>1. CASE jobs'[j] = jobs[j]
    BY <1>1
<1>2. CASE \E c \in Caller : Enqueue(c)
    BY <1>1, <1>2, EnqueueJob DEF Absent
<1>3. CASE JobStep(j)
    BY <1>0, <1>3 DEF TypeOK, JobRecord, JobStep, Pop, Start, Unlock, Finish, HorseFails,
       HardLimit, WorkerCrashes, HeartbeatLapses, CancelMeta, CancelJob, JobExpires, End, FailJob
<1>4. CASE GhostReadStarted
    BY <1>0, <1>4, SweepJob DEF JobRecord
<1>5. QED
    BY <1>1, <1>2, <1>3, <1>4, JobsFrame, OneJob

\* Every step keeps that a lock names an existing job of the lock's key.
LEMMA LockStep ==
    ASSUME TypeOK, JobsOK, CallsOK, OwnsOK, LockNamesItsJob, [Next]_vars
    PROVE  LockNamesItsJob'
<1> SUFFICES ASSUME NEW k \in Key, lock'[k] # NoJob
             PROVE  jobs'[lock'[k]].status # "none" /\ jobs'[lock'[k]].key = k
    BY DEF LockNamesItsJob
<1>0. lock[k] \in Job \cup {NoJob}
    BY DEF TypeOK
<1>1. CASE lock'[k] = lock[k]
    <2>1. lock[k] \in Job /\ jobs[lock[k]].status # "none" /\ jobs[lock[k]].key = k
        BY <1>0, <1>1 DEF LockNamesItsJob
    <2>2. QED
        BY <1>1, <2>1, KeyStable
<1>2. ASSUME NEW c \in Caller, Exec(c), lock'[k] # lock[k]
      PROVE  jobs'[lock'[k]].status # "none" /\ jobs'[lock'[k]].key = k
    <2>1. call[c].job \in Job /\ Serves(call[c].job, call[c].key)
        BY <1>2, ConstantsAssumption DEF Exec, CallsOK, CallOK, OwnsOK, OwnOK
    <2>2. lock'[k] = call[c].job /\ k = call[c].key
        BY <1>2 DEF Exec, TypeOK
    <2>3. QED
        BY <2>1, <2>2, KeyStable DEF Serves
<1>3. QED
    BY <1>1, <1>2, LockWrites DEF TypeOK, Del

\* Every step keeps that a call has only jobs of its key at hand.
LEMMA OwnStep ==
    ASSUME TypeOK, JobsOK, CallsOK, OwnsOK, LockNamesItsJob, [Next]_vars
    PROVE  OwnsOK'
<1> SUFFICES ASSUME NEW c \in Caller PROVE OwnOK(c)'
    BY DEF OwnsOK
<1>0. OwnOK(c) /\ CallOK(c) /\ call[c] \in CallRecord
    BY DEF OwnsOK, CallsOK, TypeOK
<1> DEFINE Kept(j, k) == j # NoJob => j \in Job /\ jobs'[j].status # "none" /\ jobs'[j].key = k
<1> SUFFICES Kept(call'[c].job, call'[c].key) /\ Kept(call'[c].found, call'[c].key)
    BY DEF OwnOK, Serves
<1>1. Kept(call[c].job, call[c].key) /\ Kept(call[c].found, call[c].key) /\ \A k : Kept(NoJob, k)
    BY <1>0, KeyStable DEF OwnOK, Serves
<1>2. CASE call'[c] = call[c]
    BY <1>1, <1>2
<1>3. CASE CallStep(c) \/ \E k \in Key : Begin(c, k)
    <2>1. CASE \E k \in Key : Begin(c, k)
        BY <1>0, <1>1, <2>1 DEF Begin, CallOK, TypeOK, CallRecord
    <2>2. CASE Watch(c) \/ OutOfTries(c) \/ Fetch(c) \/ GetStatus(c) \/ DeleteLock(c)
        BY <1>0, <1>1, <2>2
        DEF Watch, OutOfTries, Fetch, GetStatus, DeleteLock, Goto, Return, TypeOK, CallRecord
    <2>3. CASE Get(c)
        <3>1. call[c].key \in Key
            BY <1>0, <2>3 DEF Get, CallOK
        <3>2. lock[call[c].key] \in Job \cup {NoJob}
            BY <3>1 DEF TypeOK
        <3>3. Kept(lock[call[c].key], call[c].key)
            BY <3>1, <3>2, KeyStable DEF LockNamesItsJob
        <3>4. QED
            BY <1>0, <1>1, <2>3, <3>3 DEF Get, Goto, Return, TypeOK, CallRecord
    <2>4. CASE Enqueue(c)
        <3>1. PICK i \in Absent :
                /\ jobs'[i].status = "queued" /\ jobs'[i].key = call[c].key
                /\ call' = [call EXCEPT ![c].pc = "exec", ![c].job = i]
            BY <2>4, EnqueueJob
        <3>2. QED
            BY <1>0, <1>1, <3>1 DEF Absent, TypeOK, CallRecord
    <2>5. CASE Exec(c)
        BY <1>0, <1>1, <2>5 DEF Exec, JobOfNextTry, Return, TypeOK, CallRecord
    <2>6. QED
        BY <1>3, <2>1, <2>2, <2>3, <2>4, <2>5 DEF CallStep
<1>4. CASE UNCHANGED vars
    BY <1>2, <1>4 DEF vars
<1>5. QED
    BY <1>2, <1>3, <1>4, CallFrame, OneCall DEF Next

-----------------------------------------------------------------------------
(* Watches: a lock that is taken breaks every watch on it                  *)

\* Every step that changes a lock breaks the watches on it.
LEMMA WatchStep ==
    ASSUME TypeOK, CallsOK, WatchesOK, [Next]_vars
    PROVE  WatchesOK'
<1> SUFFICES ASSUME NEW c \in Caller, call'[c].pc \in {"enqueue", "exec"}, c \notin dirty'
             PROVE  lock'[call'[c].key] = NoJob
    BY DEF WatchesOK, WatchOK
<1>0. /\ call[c].pc \in {"enqueue", "exec"} /\ c \notin dirty => lock[call[c].key] = NoJob
      /\ call[c] \in CallRecord /\ (call[c].pc # "idle" => call[c].key \in Key)
    BY DEF WatchesOK, WatchOK, TypeOK, CallsOK, CallOK
<1>1. CASE CallStep(c) \/ \E k \in Key : Begin(c, k)
    <2>1. CASE Get(c)
        BY <1>0, <2>1 DEF Get, Goto, Return, TypeOK, CallRecord
    <2>2. CASE DeleteLock(c)
        BY <1>0, <2>2 DEF DeleteLock, Del, TypeOK, CallRecord
    <2>3. CASE Enqueue(c)
        BY <1>0, <2>3 DEF Enqueue, TypeOK, CallRecord
    <2>4. CASE Watch(c) \/ OutOfTries(c) \/ \E k \in Key : Begin(c, k)
        <3>1. Watch(c) => call'[c].pc = "get"
            BY DEF Watch, TypeOK, CallRecord
        <3>2. OutOfTries(c) => call'[c].pc = "idle"
            BY DEF OutOfTries, Return, TypeOK, CallRecord
        <3>3. (\E k \in Key : Begin(c, k)) => call'[c].pc = "watch"
            BY DEF Begin, TypeOK, CallRecord
        <3>4. QED
            BY <2>4, <3>1, <3>2, <3>3
    <2>5. CASE Fetch(c) \/ GetStatus(c)
        BY <1>0, <2>5 DEF Fetch, GetStatus, Goto, Return, TypeOK, CallRecord
    <2>6. CASE Exec(c)
        BY <1>0, <2>6 DEF Exec, Return, TypeOK, CallRecord
    <2>7. QED
        BY <1>1, <2>1, <2>2, <2>3, <2>4, <2>5, <2>6 DEF CallStep
<1>2. ASSUME NEW k, Del(k), call'[c] = call[c] PROVE lock'[call'[c].key] = NoJob
    BY <1>0, <1>2 DEF Del, TypeOK
<1>3. CASE UNCHANGED <<lock, dirty, call>>
    BY <1>0, <1>3
<1>4. ASSUME NEW d \in Caller \ {c}, CallStep(d) \/ \E k \in Key : Begin(d, k)
      PROVE  lock'[call'[c].key] = NoJob
    <2>1. call'[c] = call[c]
        BY <1>4, OneCall
    <2>2. CASE Exec(d)
        <3>1. /\ c \notin dirty
              /\ \/ UNCHANGED lock
                 \/ /\ lock' = [lock EXCEPT ![call[d].key] = call[d].job]
                    /\ c \notin Watchers(call[d].key)
            BY <2>2 DEF Exec
        <3>2. QED
            BY <1>0, <2>1, <3>1 DEF Watchers, TypeOK
    <2>3. CASE DeleteLock(d)
        BY <1>2, <2>1, <2>3 DEF DeleteLock
    <2>4. CASE UNCHANGED lock /\ dirty \subseteq dirty' \cup {d}
        BY <1>0, <2>1, <2>4
    <2>5. QED
        BY <1>4, <2>2, <2>3, <2>4
        DEF CallStep, Begin, Watch, OutOfTries, Get, Fetch, GetStatus, Enqueue
<1>5. ASSUME NEW j \in Job, JobStep(j) PROVE lock'[call'[c].key] = NoJob
    BY <1>2, <1>3, <1>5, CallFrame DEF JobStep, Pop, Start, Unlock, Finish, HorseFails,
       HardLimit, WorkerCrashes, HeartbeatLapses, CancelMeta, CancelJob, JobExpires
<1>6. ASSUME NEW k \in Key, LockExpires(k) PROVE lock'[call'[c].key] = NoJob
    BY <1>0, <1>2, <1>6 DEF LockExpires, TypeOK
<1>7. ASSUME GhostStep PROVE lock'[call'[c].key] = NoJob
    BY <1>2, <1>3, <1>7, CallFrame DEF GhostStep, GhostKeys, GhostGet, GhostReadStarted,
       GhostReadQueued, GhostDelete, GhostEnd
<1>8. QED
    BY <1>1, <1>3, <1>4, <1>5, <1>6, <1>7 DEF Next, vars

-----------------------------------------------------------------------------
(* Freshness: what a call could know of a job when it began stays true     *)

\* A revoked job stays revoked.
LEMMA RevokedGrows ==
    ASSUME TypeOK, JobsOK, [Next]_vars, NEW j \in Revoked
    PROVE  j \in Revoked'
<1>0. j \in Job /\ (jobs[j].cancelled \/ jobs[j].status = "expired") /\ jobs[j] \in JobRecord
      /\ JobOK(j)
    BY DEF Revoked, TypeOK, JobsOK
<1> SUFFICES jobs'[j].cancelled \/ jobs'[j].status = "expired"
    BY <1>0 DEF Revoked
<1>1. CASE jobs'[j] = jobs[j]
    BY <1>0, <1>1
<1>2. CASE \E c \in Caller : Enqueue(c)
    BY <1>0, <1>1, <1>2, EnqueueJob DEF Absent, JobOK
<1>3. CASE JobStep(j)
    <2> USE <1>0 DEF JobOK, TypeOK, JobRecord
    <2>1. CASE Pop(j) \/ Start(j) \/ Unlock(j) \/ WorkerCrashes(j) \/ HeartbeatLapses(j)
        BY <2>1 DEF Pop, Start, Unlock, WorkerCrashes, HeartbeatLapses, Busy
    <2>2. CASE Finish(j) \/ HorseFails(j) \/ HardLimit(j)
        BY <2>2 DEF Finish, HorseFails, HardLimit, FailJob, End, Busy, LimitOver
    <2>3. CASE CancelMeta(j) \/ CancelJob(j) \/ JobExpires(j)
        BY <2>3 DEF CancelMeta, CancelJob, JobExpires
    <2>4. QED
        BY <1>3, <2>1, <2>2, <2>3 DEF JobStep
<1>4. CASE GhostReadStarted
    <2>1. \/ jobs'[j] = jobs[j]
          \/ /\ jobs[j].place = "registry"
             /\ jobs'[j] = [jobs[j] EXCEPT !.status = "failed", !.place = "nowhere"]
        BY <1>0, <1>4, SweepJob
    <2>2. QED
        BY <1>0, <2>1 DEF JobOK, JobRecord
<1>5. QED
    BY <1>0, <1>1, <1>2, <1>3, <1>4, JobsFrame, OneJob

\* A job that is over for good stays so; its status can still be cancelled or expire.
LEMMA OverStable ==
    ASSUME TypeOK, JobsOK, [Next]_vars, NEW j \in Job, OverForGood(j)
    PROVE  /\ OverForGood(j)'
           /\ jobs[j].status \in {"canceled", "expired"} =>
                jobs'[j].status \in {"canceled", "expired"}
<1>0. jobs[j] \in JobRecord /\ JobOK(j) /\ OverForGood(j)
    BY DEF TypeOK, JobsOK
<1>1. CASE jobs'[j] = jobs[j]
    BY <1>0, <1>1 DEF OverForGood
<1>2. CASE \E c \in Caller : Enqueue(c)
    BY <1>0, <1>1, <1>2, EnqueueJob DEF Absent, OverForGood
<1>3. CASE JobStep(j)
    <2> USE <1>0 DEF JobOK, TypeOK, JobRecord, OverForGood
    <2>1. CASE Pop(j) \/ Start(j) \/ Unlock(j) \/ WorkerCrashes(j) \/ HeartbeatLapses(j)
        BY <2>1 DEF Pop, Start, Unlock, WorkerCrashes, HeartbeatLapses, Busy
    <2>2. CASE Finish(j) \/ HorseFails(j) \/ HardLimit(j)
        BY <2>2 DEF Finish, HorseFails, HardLimit, FailJob, End, Busy, LimitOver
    <2>3. CASE CancelMeta(j) \/ CancelJob(j) \/ JobExpires(j)
        BY <2>3 DEF CancelMeta, CancelJob, JobExpires, Done
    <2>4. QED
        BY <1>3, <2>1, <2>2, <2>3 DEF JobStep
<1>4. CASE GhostReadStarted
    BY <1>0, <1>1, <1>4, SweepJob DEF JobOK, OverForGood
<1>5. QED
    BY <1>1, <1>2, <1>3, <1>4, JobsFrame, OneJob

\* Every step keeps that no call has a stale job at hand.
LEMMA FreshStep ==
    ASSUME TypeOK, JobsOK, CallsOK, FreshCallsOK, [Next]_vars
    PROVE  FreshCallsOK'
<1> SUFFICES ASSUME NEW c \in Caller PROVE FreshOK(c)'
    BY DEF FreshCallsOK
<1>0. FreshOK(c) /\ CallOK(c) /\ call[c] \in CallRecord /\ NoJob \notin Job
    BY ConstantsAssumption DEF FreshCallsOK, CallsOK, TypeOK
<1> DEFINE r == call[c]
<1> DEFINE s == call'[c]
<1>1. \A j \in Revoked : j \in Revoked'
    BY RevokedGrows
<1>2. \A j \in Job : OverForGood(j) =>
        /\ OverForGood(j)'
        /\ jobs[j].status \in {"canceled", "expired"} => jobs'[j].status \in {"canceled", "expired"}
    BY OverStable
<1>3. /\ r.revoked \subseteq Revoked' /\ r.done \subseteq Job
      /\ \A j \in r.done : OverForGood(j)'
      /\ r.job \in r.done => jobs'[r.job].status \in {"canceled", "expired"}
    BY <1>0, <1>1, <1>2 DEF FreshOK, CallRecord
\* A step that changes neither the sets nor the job, nor ends in "status".
<1>4. ASSUME s.revoked = r.revoked, s.done = r.done,
             \/ s.job = r.job
             \/ s.job = NoJob
             \/ /\ s.job \notin r.revoked
                /\ s.job \in r.done => jobs'[s.job].status \in {"canceled", "expired"},
             s.pc = "status" => s.found \notin r.revoked
      PROVE  FreshOK(c)'
    <2>1. NoJob \notin r.revoked /\ NoJob \notin r.done
        BY <1>0 DEF CallRecord
    <2>2. /\ s.revoked \subseteq Revoked'
          /\ \A j \in s.done : OverForGood(j)'
          /\ s.job \notin s.revoked
          /\ s.job \in s.done => jobs'[s.job].status \in {"canceled", "expired"}
          /\ s.pc = "status" => s.found \notin s.revoked
        BY <1>0, <1>3, <1>4, <2>1 DEF FreshOK
    <2>3. QED
        BY <2>2 DEF FreshOK
<1>5. CASE s = r
    BY <1>0, <1>4, <1>5 DEF FreshOK
<1>6. CASE CallStep(c)
    <2>1. CASE Watch(c) \/ OutOfTries(c) \/ Get(c) \/ DeleteLock(c) \/ Exec(c)
        BY <1>0, <1>4, <2>1 DEF Watch, OutOfTries, Get, DeleteLock, Exec, JobOfNextTry, Goto,
           Return, TypeOK, CallRecord
    <2>2. CASE Fetch(c)
        <3>1. s.pc = "status" => r.found \notin Revoked
            BY <2>2 DEF Fetch, Useless, Goto, TypeOK, CallRecord
        <3>2. s.revoked = r.revoked /\ s.done = r.done /\ s.job = r.job /\ s.found = r.found
            BY <2>2 DEF Fetch, Goto, TypeOK, CallRecord
        <3>3. QED
            BY <1>0, <1>4, <3>1, <3>2 DEF FreshOK
    <2>3. CASE GetStatus(c)
        <3>1. /\ s.revoked = r.revoked /\ s.done = r.done /\ s.pc # "status"
              /\ s.job = r.job \/ (s.job = r.found /\ r.found \notin Done)
              /\ UNCHANGED jobs /\ r.pc = "status"
            BY <2>3 DEF GetStatus, Goto, Return, TypeOK, CallRecord
        <3>2. \A j \in r.done : j \notin Done => jobs[j].status \in {"canceled", "expired"}
            BY <1>0 DEF FreshOK, OverForGood, Done, CallRecord
        <3>3. QED
            BY <1>0, <1>4, <3>1, <3>2 DEF FreshOK
    <2>4. CASE Enqueue(c)
        <3>1. PICK i \in Absent : call' = [call EXCEPT ![c].pc = "exec", ![c].job = i]
            BY <2>4, EnqueueJob
        <3>2. i \in Job /\ jobs[i].status = "none" /\ ~jobs[i].cancelled
            BY DEF Absent, JobsOK, JobOK
        <3>3. i \notin r.revoked /\ i \notin r.done
            BY <1>0, <3>2 DEF FreshOK, Revoked, OverForGood
        <3>4. s.revoked = r.revoked /\ s.done = r.done /\ s.job = i /\ s.pc = "exec"
            BY <3>1 DEF TypeOK, CallRecord
        <3>5. QED
            BY <1>4, <3>3, <3>4
    <2>5. QED
        BY <1>6, <2>1, <2>2, <2>3, <2>4 DEF CallStep
<1>7. ASSUME NEW k \in Key, Begin(c, k) PROVE FreshOK(c)'
    <2>1. /\ s.revoked = Revoked /\ s.done = Done /\ s.job = NoJob /\ s.pc = "watch"
          /\ UNCHANGED jobs
        BY <1>7 DEF Begin, TypeOK, CallRecord
    <2>2. \A j \in Done : OverForGood(j)
        BY DEF Done, OverForGood, JobsOK, JobOK, TypeOK, JobRecord
    <2>3. NoJob \notin Revoked /\ NoJob \notin Done /\ Done \subseteq Job
        BY <1>0 DEF Revoked, Done
    <2>4. QED
        BY <1>1, <1>2, <2>1, <2>2, <2>3 DEF FreshOK
<1>8. CASE UNCHANGED vars
    BY <1>5, <1>8 DEF vars
<1>9. QED
    BY <1>5, <1>6, <1>7, <1>8, CallFrame, OneCall DEF Next

-----------------------------------------------------------------------------
(* The theorems                                                            *)

\* The invariant holds initially.
LEMMA InitInv == Init => IInv
<1> SUFFICES ASSUME Init PROVE IInv
    OBVIOUS
<1>1. TypeOK
    <2>1. \A j \in Job : jobs[j] \in JobRecord
        BY DEF Init, JobRecord
    <2>2. \A c \in Caller : call[c] \in CallRecord
        BY ConstantsAssumption DEF Init, CallRecord
    <2>3. ghost \in GhostRecord
        BY DEF Init, GhostIdle, GhostRecord
    <2>4. QED
        BY <2>1, <2>2, <2>3 DEF Init, TypeOK
<1>2. JobsOK
    BY DEF Init, JobsOK, JobOK
<1>3. CallsOK /\ LockNamesItsJob /\ OwnsOK /\ WatchesOK
    BY DEF Init, CallsOK, CallOK, LockNamesItsJob, OwnsOK, OwnOK, WatchesOK, WatchOK
<1>4. FreshCallsOK
    BY DEF Init, FreshCallsOK, FreshOK
<1>5. QED
    BY <1>1, <1>2, <1>3, <1>4 DEF IInv

\* Every step preserves the invariant.
LEMMA StepInv == IInv /\ [Next]_vars => IInv'
    BY TypeStep, JobsStep, CallsStep, LockStep, OwnStep, WatchStep, FreshStep DEF IInv

\* IInv is inductive: it holds in every state of every run.
THEOREM Invariance == Spec => []IInv
    BY InitInv, StepInv, PTL DEF Spec

\* Every variable keeps its type; tries never exceeds MaxTries.
THEOREM TypeCorrect == Spec => []TypeOK
<1>1. IInv => TypeOK
    BY DEF IInv
<1>2. QED
    BY <1>1, Invariance, PTL

\* A lock names a job that was saved, expired since or not, and that was enqueued
\* for the lock's key.
THEOREM LocksNameTheirJobs == Spec => []LockNamesItsJob
<1>1. IInv => LockNamesItsJob
    BY DEF IInv
<1>2. QED
    BY <1>1, Invariance, PTL

\* However many tries a call of enqueue_query loses, it returns a job of the
\* key it was called with.
THEOREM CallsReturnTheirJobs == Spec => []CallReturnsItsJob
<1>1. IInv => CallReturnsItsJob
    <2> SUFFICES ASSUME IInv, NEW c \in Caller, call[c].pc = "idle", call[c].key # NoKey
                 PROVE  /\ call[c].job # NoJob
                        /\ jobs[call[c].job].status # "none"
                        /\ jobs[call[c].job].key = call[c].key
        BY DEF CallReturnsItsJob
    <2>1. call[c].job \in Job /\ call[c].job # NoJob
        BY ConstantsAssumption DEF IInv, CallsOK, CallOK
    <2>2. QED
        BY <2>1 DEF IInv, OwnsOK, OwnOK, Serves
<1>2. QED
    BY <1>1, Invariance, PTL

\* A call hands out no job that was revoked when it began, and none that was
\* done unless it was revoked while the call looked at it.
THEOREM NoStaleJobs == Spec => []NoStaleJobReturned
<1>1. IInv => NoStaleJobReturned
    BY DEF IInv, FreshCallsOK, FreshOK, NoStaleJobReturned
<1>2. QED
    BY <1>1, Invariance, PTL

\* No call overwrites a lock that is taken: EXEC runs only on an unbroken
\* watch, and an unbroken watch means the lock is free.
THEOREM LocksAreNotOverwritten == Spec => NoLockOverwritten
<1>1. IInv /\ [Next]_vars =>
        [\A k \in Key : lock[k] # NoJob /\ lock'[k] # lock[k] => lock'[k] = NoJob]_vars
    <2> SUFFICES ASSUME IInv, [Next]_vars, NEW k \in Key, lock[k] # NoJob, lock'[k] # lock[k]
                 PROVE  lock'[k] = NoJob
        OBVIOUS
    <2>1. lock \in [Key -> Job \cup {NoJob}]
        BY DEF IInv, TypeOK
    <2>2. ASSUME NEW c \in Caller, Exec(c) PROVE FALSE
        <3>1. lock' = [lock EXCEPT ![call[c].key] = call[c].job] /\ c \notin dirty
              /\ call[c].pc = "exec"
            BY <2>2 DEF Exec, TransactionHolds
        <3>2. lock[call[c].key] = NoJob
            BY <3>1 DEF IInv, WatchesOK, WatchOK
        <3>3. QED
            BY <2>1, <3>1, <3>2
    <2>3. QED
        BY <2>1, <2>2, LockWrites DEF Del
<1>2. QED
    BY <1>1, Invariance, PTL DEF Spec, NoLockOverwritten

-----------------------------------------------------------------------------
(* Refinement: the queue keeps JobPromise                                  *)

owner == [j \in Job |-> jobs[j].key]
phase == [j \in Job |-> PhaseOf(j)]

\* A step that changes one job shows in the promise as a change of its phase.
LEMMA PhaseOfOne ==
    ASSUME NEW i \in Job, \A j \in Job \ {i} : jobs'[j] = jobs[j], jobs'[i].key = jobs[i].key,
           NEW p, PhaseOf(i)' = p
    PROVE  owner' = owner /\ phase' = [phase EXCEPT ![i] = p]
<1>1. \A j \in Job \ {i} : PhaseOf(j)' = PhaseOf(j)
    BY DEF PhaseOf
<1>2. QED
    BY <1>1 DEF owner, phase

\* A step that leaves jobs alone shows neither in owners nor in phases.
LEMMA JobsUnseen ==
    ASSUME UNCHANGED jobs
    PROVE  owner' = owner /\ phase' = phase
    BY DEF owner, phase, PhaseOf

\* What each step of a job does to its phase.
LEMMA PhaseMoves ==
    ASSUME TypeOK, JobsOK, NEW j \in Job, JobStep(j)
    PROVE  /\ jobs'[j].key = jobs[j].key
           /\ \/ PhaseOf(j)' = PhaseOf(j)
              \/ UNCHANGED lock /\ PhaseOf(j) = "waiting" /\ PhaseOf(j)' = "executing"
              \/ UNCHANGED lock /\ PhaseOf(j) \in {"waiting", "executing"} /\ PhaseOf(j)' = "settled"
           /\ UNCHANGED lock \/ (Del(jobs[j].key) /\ PhaseOf(j)' = PhaseOf(j))
<1> USE DEF TypeOK, JobRecord
<1>0. jobs[j] \in JobRecord /\ JobOK(j)
    BY DEF JobsOK
<1> USE <1>0 DEF JobOK
<1>1. CASE Pop(j) \/ Start(j)
    BY <1>1 DEF Pop, Start, PhaseOf
<1>2. CASE Unlock(j)
    <2>1. Del(jobs[j].key) /\ jobs'[j].key = jobs[j].key
        BY <1>2 DEF Unlock
    <2>2. PhaseOf(j)' = PhaseOf(j)
        BY <1>2 DEF Unlock, PhaseOf
    <2>3. QED
        BY <2>1, <2>2
<1>3. CASE Finish(j) \/ HorseFails(j) \/ HardLimit(j)
    BY <1>3 DEF Finish, HorseFails, HardLimit, FailJob, End, Busy, LimitOver, PhaseOf
<1>4. CASE WorkerCrashes(j) \/ HeartbeatLapses(j)
    BY <1>4 DEF WorkerCrashes, HeartbeatLapses, Busy, PhaseOf
<1>5. CASE CancelMeta(j) \/ CancelJob(j) \/ JobExpires(j)
    BY <1>5 DEF CancelMeta, CancelJob, JobExpires, Done, PhaseOf
<1>6. QED
    BY <1>1, <1>2, <1>3, <1>4, <1>5 DEF JobStep

\* A deletion is a release, or nothing for a key the job does not have.
LEMMA DelReleases ==
    ASSUME TypeOK, NEW k, Del(k), owner' = owner, phase' = phase
    PROVE  [Promise!Next]_Promise!vars
<1>1. CASE k \in Key
    BY <1>1 DEF Del, Promise!Next, Promise!Release, owner, phase
<1>2. CASE k \notin Key
    BY <1>2 DEF Del, TypeOK, Promise!vars, owner, phase
<1>3. QED
    BY <1>1, <1>2

\* Every step of the queue is a step of the promise, or a stutter.
LEMMA PromiseStep == IInv /\ [Next]_vars => [Promise!Next]_Promise!vars
<1> SUFFICES ASSUME IInv, [Next]_vars PROVE [Promise!Next]_Promise!vars
    OBVIOUS
<1>0. TypeOK /\ JobsOK /\ CallsOK
    BY DEF IInv
<1>1. CASE UNCHANGED <<lock, jobs>>
    BY <1>1, JobsUnseen DEF Promise!vars, owner, phase
<1>2. ASSUME NEW c \in Caller, CallStep(c) \/ \E k \in Key : Begin(c, k)
      PROVE  [Promise!Next]_Promise!vars
    <2>1. CASE Enqueue(c)
        <3>1. call[c].key \in Key /\ UNCHANGED lock
            BY <1>0, <2>1 DEF Enqueue, CallsOK, CallOK
        <3>2. PICK i \in Absent :
                /\ \A j \in Job \ {i} : jobs'[j] = jobs[j]
                /\ jobs'[i].status = "queued" /\ jobs'[i].key = call[c].key
                /\ jobs'[i].place = "queue" /\ jobs'[i].horse = jobs[i].horse
            BY <1>0, <2>1, EnqueueJob
        <3>3. i \in Job /\ jobs[i].status = "none" /\ jobs[i].horse = "none"
              /\ jobs[i].place = "nowhere"
            BY <1>0 DEF Absent, JobsOK, JobOK
        <3>4. PhaseOf(i) = "absent" /\ PhaseOf(i)' = "waiting"
            BY <3>2, <3>3 DEF PhaseOf
        <3>5. \A j \in Job \ {i} : PhaseOf(j)' = PhaseOf(j)
            BY <3>2 DEF PhaseOf
        <3>6. phase[i] = "absent" /\ phase' = [phase EXCEPT ![i] = "waiting"]
              /\ owner' = [owner EXCEPT ![i] = call[c].key]
            BY <3>2, <3>3, <3>4, <3>5 DEF phase, owner
        <3>7. \E j \in Job, k \in Key : Promise!Accept(j, k)
            <4>1. PICK k \in Key : k = call[c].key
                BY <3>1
            <4>2. Promise!Accept(i, k)
                BY <3>1, <3>6, <4>1 DEF Promise!Accept, phase, owner
            <4>3. QED
                BY <3>3, <4>2
        <3>8. QED
            BY <3>7 DEF Promise!Next
    <2>2. CASE Exec(c)
        <3>1. CASE UNCHANGED lock
            BY <1>1, <2>2, <3>1 DEF Exec
        <3>2. CASE ~UNCHANGED lock
            <4>1. /\ lock' = [lock EXCEPT ![call[c].key] = call[c].job] /\ c \notin dirty
                  /\ call[c].pc = "exec" /\ UNCHANGED jobs
                BY <2>2, <3>2 DEF Exec, TransactionHolds
            <4>2. lock[call[c].key] = NoJob /\ call[c].job \in Job /\ call[c].key \in Key
                BY <4>1 DEF IInv, WatchesOK, WatchOK, CallsOK, CallOK
            <4>3. jobs[call[c].job].status # "none" /\ jobs[call[c].job].key = call[c].key
                BY <4>2, ConstantsAssumption DEF IInv, OwnsOK, OwnOK, Serves
            <4>4. owner[call[c].job] = call[c].key /\ phase[call[c].job] # "absent"
                BY <4>2, <4>3 DEF owner, phase, PhaseOf
            <4>5. Promise!Acquire(call[c].key, call[c].job)
                BY <4>1, <4>2, <4>4, JobsUnseen DEF Promise!Acquire, owner, phase
            <4>6. QED
                BY <4>2, <4>5 DEF Promise!Next
        <3>3. QED
            BY <3>1, <3>2
    <2>3. CASE DeleteLock(c)
        BY <1>0, <2>3, DelReleases, JobsUnseen DEF DeleteLock
    <2>4. QED
        BY <1>1, <1>2, <2>1, <2>2, <2>3
        DEF CallStep, Begin, Watch, OutOfTries, Get, Fetch, GetStatus
<1>3. ASSUME NEW j \in Job, JobStep(j) PROVE [Promise!Next]_Promise!vars
    <2>1. \A i \in Job \ {j} : jobs'[i] = jobs[i]
        BY <1>0, <1>3, OneJob
    <2>2. \A p : PhaseOf(j)' = p => owner' = owner /\ phase' = [phase EXCEPT ![j] = p]
        BY <1>0, <1>3, <2>1, PhaseOfOne, PhaseMoves
    <2>3. CASE PhaseOf(j)' = PhaseOf(j)
        <3>1. owner' = owner /\ phase' = phase
            BY <2>2, <2>3 DEF phase
        <3>2. QED
            BY <1>0, <1>3, <3>1, DelReleases, PhaseMoves DEF Promise!vars, owner, phase
    <2>4. CASE UNCHANGED lock /\ PhaseOf(j) = "waiting" /\ PhaseOf(j)' = "executing"
        <3>1. phase[j] = "waiting" /\ phase' = [phase EXCEPT ![j] = "executing"] /\ owner' = owner
            BY <2>2, <2>4 DEF phase
        <3>2. Promise!Execute(j)
            BY <2>4, <3>1 DEF Promise!Execute, owner, phase
        <3>3. QED
            BY <3>2 DEF Promise!Next
    <2>5. CASE UNCHANGED lock /\ PhaseOf(j) \in {"waiting", "executing"} /\ PhaseOf(j)' = "settled"
        <3>1. phase[j] \in {"waiting", "executing"} /\ phase' = [phase EXCEPT ![j] = "settled"]
              /\ owner' = owner
            BY <2>2, <2>5 DEF phase
        <3>2. Promise!Settle(j)
            BY <2>5, <3>1 DEF Promise!Settle, owner, phase
        <3>3. QED
            BY <3>2 DEF Promise!Next
    <2>6. QED
        BY <1>0, <1>3, <2>3, <2>4, <2>5, PhaseMoves
<1>4. ASSUME NEW k \in Key, LockExpires(k) PROVE [Promise!Next]_Promise!vars
    BY <1>4, JobsUnseen DEF LockExpires, Del, Promise!Next, Promise!Release, owner, phase
<1>5. CASE GhostReadStarted
    <2>1. ASSUME NEW j \in Job
          PROVE  PhaseOf(j)' = PhaseOf(j) /\ jobs'[j].key = jobs[j].key
        <3>1. CASE jobs'[j] = jobs[j]
            BY <3>1 DEF PhaseOf
        <3>2. CASE jobs'[j] # jobs[j]
            <4>1. jobs[j].place = "registry" /\ jobs[j].horse = "lapsed"
                  /\ jobs'[j] = [jobs[j] EXCEPT !.status = "failed", !.place = "nowhere"]
                BY <1>0, <1>5, <3>2, SweepJob
            <4>2. jobs[j] \in JobRecord /\ jobs[j].status = "started"
                BY <1>0, <4>1 DEF TypeOK, JobsOK, JobOK
            <4>3. jobs'[j].key = jobs[j].key /\ jobs'[j].horse = "lapsed"
                  /\ jobs'[j].status = "failed" /\ jobs'[j].place = "nowhere"
                BY <4>1, <4>2 DEF JobRecord
            <4>4. QED
                BY <4>1, <4>2, <4>3 DEF PhaseOf
        <3>3. QED
            BY <3>1, <3>2
    <2>2. owner' = owner /\ phase' = phase /\ UNCHANGED lock
        BY <1>5, <2>1 DEF owner, phase, GhostReadStarted
    <2>3. QED
        BY <2>2 DEF Promise!vars, owner, phase
<1>6. ASSUME NEW k \in Key, GhostDelete(k) PROVE [Promise!Next]_Promise!vars
    BY <1>0, <1>1, <1>6, DelReleases, JobsUnseen DEF GhostDelete
<1>7. QED
    BY <1>1, <1>2, <1>3, <1>4, <1>5, <1>6
    DEF Next, vars, GhostStep, GhostKeys, GhostGet, GhostReadQueued, GhostEnd

\* The queue implements its promise: at most one execution of a job, none of
\* a settled one, and locks acquired only while free and by jobs of their key.
THEOREM Refinement == Spec => KeepsJobPromise
<1>1. Init => Promise!Init
    BY DEF Init, Promise!Init, PhaseOf
<1>2. QED
    BY <1>1, PromiseStep, Invariance, PTL DEF Spec, KeepsJobPromise, Promise!Spec

=============================================================================
