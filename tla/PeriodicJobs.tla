---------------------------- MODULE PeriodicJobs ----------------------------
(***************************************************************************)
(* schedule_periodic_jobs, which every scheduler process runs when it      *)
(* starts: it removes from the rq-scheduler the jobs that its release does *)
(* not define, and adds those that are missing.                            *)
(*                                                                         *)
(* Schedulers of several releases may start at once, be killed halfway,    *)
(* and start again.  A job is known by the hash of its definition.         *)
(***************************************************************************)
EXTENDS Naturals

CONSTANTS
    Periodic,   \* ids of jobs
    Starter,    \* scheduler processes
    Release,    \* the sets of jobs that releases define
    MaxStarts   \* how often schedulers start (bound of the model)

ASSUME PeriodicAssumption == Release \subseteq SUBSET Periodic /\ MaxStarts \in Nat

VARIABLES
    scheduled,  \* the jobs in the rq-scheduler's sorted set
    saved,      \* the jobs there are in Redis
    starter,    \* the starting processes and their locals
    starts,     \* how often a process has started
    settled     \* history: the release that has started last, alone with its like, or none

periodicVars == <<scheduled, saved, starter, starts, settled>>

StarterRecord ==
    [pc : {"off", "list", "fetch", "check", "clean", "delete", "add"},
     release : SUBSET Periodic,     \* what periodic_job_definitions gave
     obsolete : SUBSET Periodic,    \* jobs_to_clean_up
     gone : SUBSET Periodic,        \* those of them that could not be fetched
     unchecked : SUBSET Periodic,   \* definitions not yet looked for
     missing : SUBSET Periodic,     \* jobs_to_schedule
     canceled : SUBSET Periodic,    \* canceled but not yet deleted
     alone : BOOLEAN]               \* history: no other release has been starting since

PeriodicTypeOK ==
    /\ scheduled \in SUBSET Periodic
    /\ saved \in SUBSET Periodic
    /\ starter \in [Starter -> StarterRecord]
    /\ starts \in 0..MaxStarts
    /\ settled \in [is : BOOLEAN, release : SUBSET Periodic]

Off ==
    [pc |-> "off", release |-> {}, obsolete |-> {}, gone |-> {}, unchecked |-> {}, missing |-> {},
     canceled |-> {}, alone |-> FALSE]
Unsettled == [is |-> FALSE, release |-> {}]

PeriodicInit ==
    /\ scheduled = {}
    /\ saved = {}
    /\ starter = [s \in Starter |-> Off]
    /\ starts = 0
    /\ settled = Unsettled

Others(release) == {s \in Starter : starter[s].pc # "off" /\ starter[s].release # release}

-----------------------------------------------------------------------------

StartScheduler(s, release) ==
    /\ starter[s].pc = "off" /\ starts < MaxStarts
    /\ starts' = starts + 1
    /\ starter' = [t \in Starter |->
                    IF t = s THEN [Off EXCEPT !.pc = "list", !.release = release,
                                              !.alone = Others(release) = {}]
                    ELSE [starter[t] EXCEPT !.alone = @ /\ t \notin Others(release)]]
    /\ settled' = IF settled.is /\ settled.release = release THEN settled ELSE Unsettled
    /\ UNCHANGED <<scheduled, saved>>

\* get_jobs: what is scheduled, and forgets what is not saved.
ListJobs(s) ==
    /\ starter[s].pc = "list"
    /\ starter' = [starter EXCEPT ![s].pc = "fetch",
                                  ![s].obsolete = (scheduled \cap saved) \ starter[s].release]
    /\ scheduled' = scheduled \cap saved
    /\ UNCHANGED <<saved, starts, settled>>

\* fetch_many gives None for a job that was deleted since.
FetchJobs(s) ==
    /\ starter[s].pc = "fetch"
    /\ starter' = [starter EXCEPT ![s].pc = "check", ![s].unchecked = starter[s].release,
                                  ![s].gone = starter[s].obsolete \ saved]
    /\ UNCHANGED <<scheduled, saved, starts, settled>>

\* A fault for TLC: what is saved is taken for scheduled.
KnownIfSaved(j) == j \in saved
Known(j) == j \in scheduled

CheckJob(s) ==
    /\ starter[s].pc = "check"
    /\ IF starter[s].unchecked = {}
       THEN starter' = [starter EXCEPT ![s].pc = "clean"]
       ELSE \E j \in starter[s].unchecked :
                starter' = [starter EXCEPT ![s].unchecked = @ \ {j},
                                           ![s].missing = IF Known(j) THEN @ ELSE @ \cup {j}]
    /\ UNCHANGED <<scheduled, saved, starts, settled>>

CleanDone(s) ==
    /\ starter[s].pc = "clean" /\ starter[s].obsolete = {}
    /\ starter' = [starter EXCEPT ![s].pc = "add"]
    /\ UNCHANGED <<scheduled, saved, starts, settled>>

\* cancel, then delete, job by job.
CancelJob(s) ==
    /\ starter[s].pc = "clean"
    /\ \E j \in starter[s].obsolete \ starter[s].gone :
        /\ scheduled' = scheduled \ {j}
        /\ starter' = [starter EXCEPT ![s].pc = "delete", ![s].canceled = {j},
                                      ![s].obsolete = @ \ {j}]
    /\ UNCHANGED <<saved, starts, settled>>

\* The process raises when it comes to a None, before it has added any job.
CancelRaises(s) ==
    /\ starter[s].pc = "clean" /\ starter[s].gone # {}
    /\ starter' = [starter EXCEPT ![s] = Off]
    /\ UNCHANGED <<scheduled, saved, starts, settled>>

DeleteJob(s) ==
    /\ starter[s].pc = "delete"
    /\ saved' = saved \ starter[s].canceled
    /\ starter' = [starter EXCEPT ![s].pc = "clean", ![s].canceled = {}]
    /\ UNCHANGED <<scheduled, starts, settled>>

\* Saves the job and schedules it at once; there are no two of an id.
AddJob(s) ==
    /\ starter[s].pc = "add" /\ starter[s].missing # {}
    /\ \E j \in starter[s].missing :
        /\ scheduled' = scheduled \cup {j}
        /\ saved' = saved \cup {j}
        /\ starter' = [starter EXCEPT ![s].missing = @ \ {j}]
    /\ UNCHANGED <<starts, settled>>

\* The process goes on to rq_scheduler.run().
StartDone(s) ==
    /\ starter[s].pc = "add" /\ starter[s].missing = {}
    /\ starter' = [starter EXCEPT ![s] = Off]
    /\ settled' = IF starter[s].alone
                  THEN [is |-> TRUE, release |-> starter[s].release] ELSE Unsettled
    /\ UNCHANGED <<scheduled, saved, starts>>

StartDies(s) ==
    /\ starter[s].pc # "off"
    /\ starter' = [starter EXCEPT ![s] = Off]
    /\ UNCHANGED <<scheduled, saved, starts, settled>>

PeriodicNext ==
    \E s \in Starter :
        \/ \E release \in Release : StartScheduler(s, release)
        \/ ListJobs(s) \/ FetchJobs(s) \/ CheckJob(s)
        \/ CleanDone(s) \/ CancelJob(s) \/ CancelRaises(s) \/ DeleteJob(s) \/ AddJob(s)
        \/ StartDone(s) \/ StartDies(s)

PeriodicSpec == PeriodicInit /\ [][PeriodicNext]_periodicVars

-----------------------------------------------------------------------------
(* Properties                                                              *)

\* After a start that went through while no other release was starting,
\* exactly the jobs of its release are scheduled, however many processes of
\* that release start at once or die halfway, and whatever earlier ones left.
ReleaseIsScheduled == settled.is => scheduled = settled.release

=============================================================================
