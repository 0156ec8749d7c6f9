--------------------------- MODULE FailureReports ---------------------------
(***************************************************************************)
(* Reports of failed scheduled queries: every failure is counted and, up   *)
(* to a number per query, pushed on a Redis list of the query's owner.     *)
(* From time to time a job reads each list, mails it and deletes it, in    *)
(* three steps, and may die between them.                                  *)
(***************************************************************************)
EXTENDS Naturals

CONSTANTS
    Owner,          \* users who own scheduled queries
    MaxReports,     \* MAX_FAILURE_REPORTS_PER_QUERY
    MaxFailures     \* how many failures there are (bound of the model)

ASSUME ReportsAssumption == MaxReports \in Nat /\ MaxFailures \in Nat

VARIABLES
    list,       \* the reports in each owner's Redis list; each is known by its number
    streak,     \* schedule_failures of each owner's query
    failures,   \* how many failures there have been
    report,     \* send_aggregated_errors and its locals
    outbox,     \* history: the reports that were mailed
    window      \* history: reports pushed between the reading and the deletion of a list

reportsVars == <<list, streak, failures, report, outbox, window>>

Report == 1..MaxFailures
ReportRecord ==
    [pc : {"idle", "scan", "read", "mailed"},
     todo : SUBSET Owner,       \* owners whose keys scan_iter has yet to give
     owner : Owner,             \* the one in hand
     errors : SUBSET Report]    \* what LRANGE gave

ReportsTypeOK ==
    /\ list \in [Owner -> SUBSET Report]
    /\ streak \in [Owner -> 0..MaxFailures]
    /\ failures \in 0..MaxFailures
    /\ report \in ReportRecord
    /\ outbox \in SUBSET Report
    /\ window \in SUBSET Report

NoReport == [pc |-> "idle", todo |-> {}, owner |-> CHOOSE o \in Owner : TRUE, errors |-> {}]

ReportsInit ==
    /\ list = [o \in Owner |-> {}]
    /\ streak = [o \in Owner |-> 0]
    /\ failures = 0
    /\ report = NoReport
    /\ outbox = {}
    /\ window = {}

-----------------------------------------------------------------------------
(* track_failure and notify_of_failure                                     *)

Exceeded(n) == n >= MaxReports

Fail(o) ==
    /\ failures < MaxFailures
    /\ failures' = failures + 1
    /\ streak' = [streak EXCEPT ![o] = @ + 1]
    /\ IF Exceeded(streak[o] + 1)
       THEN UNCHANGED <<list, window>>
       ELSE /\ list' = [list EXCEPT ![o] = @ \cup {failures + 1}]
            /\ window' = IF report.pc \in {"read", "mailed"} /\ report.owner = o
                         THEN window \cup {failures + 1} ELSE window
    /\ UNCHANGED <<report, outbox>>

Recover(o) ==
    /\ streak[o] > 0
    /\ streak' = [streak EXCEPT ![o] = 0]
    /\ UNCHANGED <<list, failures, report, outbox, window>>

-----------------------------------------------------------------------------
(* send_aggregated_errors                                                  *)

\* The keys there are (scan_iter gives those that are there all along).
Scan ==
    /\ report.pc = "idle"
    /\ report' = [NoReport EXCEPT !.pc = "scan", !.todo = {o \in Owner : list[o] # {}}]
    /\ UNCHANGED <<list, streak, failures, outbox, window>>

ReadList(o) ==
    /\ report.pc = "scan" /\ o \in report.todo
    /\ report' = [pc |-> "read", todo |-> report.todo \ {o}, owner |-> o, errors |-> list[o]]
    /\ UNCHANGED <<list, streak, failures, outbox, window>>

\* A mail job is enqueued, unless there is nothing in the list.
MailReport ==
    /\ report.pc = "read"
    /\ outbox' = outbox \cup report.errors
    /\ report' = [report EXCEPT !.pc = "mailed"]
    /\ UNCHANGED <<list, streak, failures, window>>

\* Faults for TLC: all lists are deleted with the first; none is.
EmptiedAll(o) == TRUE
EmptiedNone(o) == FALSE
Emptied(o) == o = report.owner

DeleteList ==
    /\ report.pc = "mailed"
    /\ list' = [o \in Owner |-> IF Emptied(o) THEN {} ELSE list[o]]
    /\ report' = [report EXCEPT !.pc = "scan", !.errors = {}]
    /\ UNCHANGED <<streak, failures, outbox, window>>

ScanDone ==
    /\ report.pc = "scan" /\ report.todo = {}
    /\ report' = NoReport
    /\ UNCHANGED <<list, streak, failures, outbox, window>>

\* What was read stays in its list, mailed or not.
ReportDies ==
    /\ report.pc # "idle"
    /\ report' = NoReport
    /\ UNCHANGED <<list, streak, failures, outbox, window>>

ReportStep == Scan \/ (\E o \in Owner : ReadList(o)) \/ MailReport \/ DeleteList \/ ScanDone

ReportsNext ==
    \/ \E o \in Owner : Fail(o) \/ Recover(o)
    \/ ReportStep \/ ReportDies

\* The scheduler runs the job over and over, and it gets through now and then.
ReportsFairness ==
    /\ WF_reportsVars(Scan)
    /\ \A o \in Owner : SF_reportsVars(ReadList(o))
    /\ SF_reportsVars(MailReport) /\ SF_reportsVars(DeleteList) /\ WF_reportsVars(ScanDone)

ReportsSpec == ReportsInit /\ [][ReportsNext]_reportsVars /\ ReportsFairness

-----------------------------------------------------------------------------
(* Properties                                                              *)

\* A report that was pushed is in its list until it has been mailed, whatever
\* dies when: it is lost only if it came between the reading and the deletion
\* of its list.
Held == UNION {list[o] : o \in Owner}
ReportsAreKept ==
    [][\A r \in Held : r \in Held' \/ r \in outbox \/ r \in window]_reportsVars

\* A list is never left with reports that nobody will mail.
ReportsAreMailed == \A o \in Owner : list[o] # {} ~> list[o] = {}

=============================================================================
