-------------------------- MODULE MCBackgroundLive --------------------------
(***************************************************************************)
(* Parts of the system in which something must happen in the end, on small *)
(* instances. They share no state, so a behaviour is about one part, named *)
(* by the variable part, and the state spaces add up instead of            *)
(* multiplying.                                                            *)
(***************************************************************************)
EXTENDS Scheduler, FailureReports, ResultPolling

VARIABLE part   \* the part that runs; the others stay as they began

Part == {"scheduler", "reports", "polling"}

\* Where the scheduler does not run, its data source is paused: there is
\* nothing for it to do.  Where it runs the source is paused later.
LiveInit ==
    /\ part \in Part
    /\ SchedulerInit
    /\ ReportsInit
    /\ PollingInit
    /\ paused = IF part = "scheduler" THEN {} ELSE Source

KeepOthers(p) ==
    /\ UNCHANGED part
    /\ IF p = "scheduler" THEN TRUE ELSE UNCHANGED schedulerVars
    /\ IF p = "reports" THEN TRUE ELSE UNCHANGED reportsVars
    /\ IF p = "polling" THEN TRUE ELSE UNCHANGED pollingVars

LiveNext ==
    \/ part = "scheduler" /\ SchedulerNext /\ KeepOthers("scheduler")
    \/ part = "reports" /\ ReportsNext /\ KeepOthers("reports")
    \/ part = "polling" /\ PollingNext /\ KeepOthers("polling")

vars == <<part, schedulerVars, reportsVars, pollingVars>>

\* The fairness of each part, for the behaviours in which it runs.
LiveFairness ==
    /\ WF_schedulerVars(part = "scheduler" /\ RefreshStep)
    /\ WF_schedulerVars(part = "scheduler" /\ FindPast)
    /\ WF_schedulerVars(part = "scheduler" /\ EmptyPast)
    /\ WF_reportsVars(part = "reports" /\ Scan)
    /\ \A o \in Owner : SF_reportsVars(part = "reports" /\ ReadList(o))
    /\ SF_reportsVars(part = "reports" /\ MailReport)
    /\ SF_reportsVars(part = "reports" /\ DeleteList)
    /\ WF_reportsVars(part = "reports" /\ ScanDone)
    /\ WF_pollingVars(part = "polling" /\ PollStep)
    /\ WF_pollingVars(part = "polling" /\ TaskStep)

LiveSpec == LiveInit /\ [][LiveNext]_vars /\ LiveFairness

\* Every part's variables stay in their types.
LiveTypeOK ==
    /\ SchedulerTypeOK
    /\ ReportsTypeOK
    /\ PollingTypeOK

=============================================================================
