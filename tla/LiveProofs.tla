----------------------------- MODULE LiveProofs -----------------------------
(***************************************************************************)
(* The parts in which something must happen in the end: what they do is    *)
(* right, for any number of queries, owners and executions. That it happens *)
(* is left to TLC.                                                         *)
(***************************************************************************)
EXTENDS MCBackgroundLive, TLAPS

-----------------------------------------------------------------------------
(* Failure reports                                                         *)

USE ReportsAssumption

StreaksOK == \A o \in Owner : streak[o] <= failures

\* While a list is in hand, what it has beyond what was read is in the window;
\* once the mail is out, what was read has been mailed.
InHandOK ==
    /\ report.pc \in {"read", "mailed"} =>
        list[report.owner] \subseteq report.errors \cup window
    /\ report.pc = "mailed" => report.errors \subseteq outbox

ReportsInv == ReportsTypeOK /\ StreaksOK /\ InHandOK

-----------------------------------------------------------------------------
(* The invariant                                                           *)

\* The job that does not run is a job like any other.
LEMMA NoReportTyped == Owner # {} => NoReport \in ReportRecord
BY DEF NoReport, ReportRecord

\* Empty lists, and a job that does not run.
LEMMA ReportsInitInv ==
    ASSUME Owner # {}
    PROVE  ReportsInit => ReportsInv
<1>1. ReportsInit => ReportsTypeOK BY NoReportTyped DEF ReportsInit, ReportsTypeOK
<1>2. ASSUME ReportsInit, NEW o \in Owner PROVE streak[o] <= failures
    BY <1>2 DEF ReportsInit
<1>3. ReportsInit => InHandOK BY DEF ReportsInit, InHandOK, NoReport
<1> QED BY <1>1, <1>2, <1>3 DEF ReportsInv, StreaksOK

\* A failure that comes while its list is in hand falls in the window.
LEMMA FailInv ==
    ASSUME ReportsInv, NEW o \in Owner, Fail(o)
    PROVE  ReportsInv'
<1>1. /\ failures + 1 \in Report /\ failures' = failures + 1 /\ failures' \in 0..MaxFailures
      /\ report' = report /\ outbox' = outbox /\ streak' = [streak EXCEPT ![o] = @ + 1]
    BY DEF ReportsInv, ReportsTypeOK, Fail, Report
<1>2. streak' \in [Owner -> 0..MaxFailures] /\ StreaksOK'
    BY <1>1 DEF ReportsInv, ReportsTypeOK, StreaksOK
<1>3. CASE UNCHANGED <<list, window>>
    BY <1>1, <1>2, <1>3 DEF ReportsInv, ReportsTypeOK, InHandOK
<1>4. CASE /\ list' = [list EXCEPT ![o] = @ \cup {failures + 1}]
           /\ window' = IF report.pc \in {"read", "mailed"} /\ report.owner = o
                        THEN window \cup {failures + 1} ELSE window
    <2>1. list' \in [Owner -> SUBSET Report] /\ window' \in SUBSET Report
        BY <1>1, <1>4 DEF ReportsInv, ReportsTypeOK
    <2>2. report.pc \in {"read", "mailed"} =>
            list'[report.owner] \subseteq report.errors \cup window'
        BY <1>4 DEF ReportsInv, ReportsTypeOK, ReportRecord, InHandOK
    <2>3. InHandOK' BY <1>1, <2>2 DEF ReportsInv, InHandOK
    <2> QED BY <1>1, <1>2, <2>1, <2>3 DEF ReportsInv, ReportsTypeOK
<1> QED BY <1>3, <1>4 DEF Fail

\* A success only ends a streak.
LEMMA RecoverInv ==
    ASSUME ReportsInv, NEW o \in Owner, Recover(o)
    PROVE  ReportsInv'
<1>1. streak' = [streak EXCEPT ![o] = 0] /\ UNCHANGED <<list, failures, report, outbox, window>>
    BY DEF Recover
<1>2. streak' \in [Owner -> 0..MaxFailures] /\ StreaksOK'
    BY <1>1 DEF ReportsInv, ReportsTypeOK, StreaksOK
<1> QED BY <1>1, <1>2 DEF ReportsInv, ReportsTypeOK, InHandOK

\* What the steps of the job, and its death, do to it.
LEMMA JobInv ==
    ASSUME ReportsInv, Owner # {}, ReportStep \/ ReportDies
    PROVE  ReportsInv'
<1>1. failures' = failures /\ streak' = streak /\ window' = window /\ StreaksOK'
    BY DEF ReportsInv, StreaksOK, ReportStep, ReportDies, Scan, ReadList, MailReport,
           DeleteList, ScanDone
<1>2. report \in ReportRecord /\ list \in [Owner -> SUBSET Report]
    BY DEF ReportsInv, ReportsTypeOK
<1>3. CASE Scan \/ ScanDone \/ ReportDies
    <2>1. UNCHANGED <<list, outbox>> BY <1>3 DEF Scan, ScanDone, ReportDies
    <2>2. report' \in ReportRecord /\ report'.pc \in {"scan", "idle"}
        BY <1>3, NoReportTyped DEF Scan, ScanDone, ReportDies, NoReport, ReportRecord
    <2> QED BY <1>1, <2>1, <2>2 DEF ReportsInv, ReportsTypeOK, InHandOK
<1>4. ASSUME NEW o \in Owner, ReadList(o) PROVE ReportsInv'
    <2>1. UNCHANGED <<list, outbox>>
          /\ report' = [pc |-> "read", todo |-> report.todo \ {o}, owner |-> o, errors |-> list[o]]
        BY <1>4 DEF ReadList
    <2>2. report' \in ReportRecord BY <1>2, <2>1 DEF ReportRecord
    <2> QED BY <1>1, <2>1, <2>2 DEF ReportsInv, ReportsTypeOK, InHandOK
<1>5. CASE MailReport
    <2>1. UNCHANGED list /\ outbox' = outbox \cup report.errors /\ report.pc = "read"
          /\ report' = [report EXCEPT !.pc = "mailed"]
        BY <1>5 DEF MailReport
    <2>2. report' \in ReportRecord /\ report.errors \in SUBSET Report
        BY <1>2, <2>1 DEF ReportRecord
    <2>3. report'.owner = report.owner /\ report'.errors = report.errors
        BY <1>2, <2>1 DEF ReportRecord
    <2> QED BY <1>1, <2>1, <2>2, <2>3 DEF ReportsInv, ReportsTypeOK, InHandOK
<1>6. CASE DeleteList
    <2>1. UNCHANGED outbox /\ list' = [o \in Owner |-> IF Emptied(o) THEN {} ELSE list[o]]
          /\ report' = [report EXCEPT !.pc = "scan", !.errors = {}]
        BY <1>6 DEF DeleteList
    <2>2. report' \in ReportRecord /\ report'.pc = "scan"
        BY <1>2, <2>1 DEF ReportRecord
    <2>3. list' \in [Owner -> SUBSET Report] BY <1>2, <2>1
    <2> QED BY <1>1, <2>1, <2>2, <2>3 DEF ReportsInv, ReportsTypeOK, InHandOK
<1> QED BY <1>3, <1>4, <1>5, <1>6 DEF ReportStep

\* Every step keeps the invariant.
LEMMA ReportsNextInv ==
    ASSUME Owner # {}
    PROVE  ReportsInv /\ [ReportsNext]_reportsVars => ReportsInv'
<1> SUFFICES ASSUME ReportsInv, [ReportsNext]_reportsVars PROVE ReportsInv'
    OBVIOUS
<1>1. CASE UNCHANGED reportsVars
    BY <1>1 DEF reportsVars, ReportsInv, ReportsTypeOK, StreaksOK, InHandOK
<1>2. CASE ReportsNext
    BY <1>2, FailInv, RecoverInv, JobInv DEF ReportsNext
<1> QED BY <1>1, <1>2

\* The invariant holds in every state.
THEOREM ReportsInvariance ==
    ASSUME Owner # {}
    PROVE  ReportsSpec => []ReportsInv
<1> QED BY ReportsInitInv, ReportsNextInv, PTL DEF ReportsSpec

-----------------------------------------------------------------------------

\* Only the deletion of a list takes reports away, and what it takes was
\* mailed or fell in the window.
THEOREM NoReportIsLost ==
    ASSUME Owner # {}
    PROVE  ReportsSpec => ReportsAreKept
<1>1. ReportsInv /\ [ReportsNext]_reportsVars =>
        [\A r \in Held : r \in Held' \/ r \in outbox \/ r \in window]_reportsVars
    <2> SUFFICES ASSUME ReportsInv, ReportsNext, NEW r \in Held
                 PROVE  r \in Held' \/ r \in outbox \/ r \in window
        OBVIOUS
    <2>1. PICK o \in Owner : r \in list[o] BY DEF Held
    <2>2. CASE DeleteList
        <3>1. list' = [p \in Owner |-> IF p = report.owner THEN {} ELSE list[p]]
            BY <2>2 DEF DeleteList, Emptied
        <3>2. list[report.owner] \subseteq outbox \cup window
            BY <2>2 DEF DeleteList, ReportsInv, InHandOK
        <3> QED BY <2>1, <3>1, <3>2 DEF Held
    <2>3. ASSUME NEW p \in Owner, Fail(p) PROVE r \in Held'
        <3>1. list[o] \subseteq list'[o]
            BY <2>3 DEF Fail, ReportsInv, ReportsTypeOK
        <3> QED BY <2>1, <3>1 DEF Held
    <2>4. CASE UNCHANGED list BY <2>1, <2>4 DEF Held
    <2> QED BY <2>2, <2>3, <2>4 DEF ReportsNext, Recover, ReportStep, ReportDies, Scan,
                                    ReadList, MailReport, ScanDone
<1> QED BY <1>1, ReportsInvariance, PTL DEF ReportsSpec, ReportsAreKept

-----------------------------------------------------------------------------
(* Waiting for a result                                                    *)

\* Whatever a page may take for a failure is one.
SignsOK ==
    /\ page.pc = "failed" => trouble
    /\ page.meta => trouble
    /\ task.cancelled => trouble
    /\ task.result = "error" => trouble
    /\ task.status = "failed" => trouble

PollingInv == PollingTypeOK /\ SignsOK

TaskType ==
    [status : JobStatus, cancelled : BOOLEAN, result : JobResult, working : BOOLEAN,
     saved : BOOLEAN]
PageType ==
    [pc : {"idle", "post", "refused", "wait", "fetch", "read", "load", "done", "failed"},
     guard : BOOLEAN, canceling : BOOLEAN, meta : BOOLEAN, try : 0..(MaxTry + 1)]

-----------------------------------------------------------------------------

LEMMA PollingTypes ==
    PollingTypeOK <=> task \in TaskType /\ page \in PageType /\ runs \in 0..MaxRuns
                        /\ trouble \in BOOLEAN
BY DEF PollingTypeOK, TaskType, PageType

LEMMA NewPolling == NewTask \in TaskType /\ NewPage \in PageType
BY PollingAssumption DEF NewTask, NewPage, TaskType, PageType, JobStatus, JobResult

LEMMA PollingInitInv == PollingInit => PollingInv
<1> SUFFICES ASSUME PollingInit PROVE PollingInv
    OBVIOUS
<1>1. PollingTypeOK
    <2>1. task \in TaskType /\ page \in PageType BY NewPolling DEF PollingInit
    <2>2. runs = 0 /\ trouble = FALSE BY DEF PollingInit
    <2>3. 0 \in 0..MaxRuns BY PollingAssumption
    <2> QED BY <2>1, <2>2, <2>3 DEF PollingTypeOK, TaskType, PageType
<1>2. SignsOK BY DEF PollingInit, SignsOK, NewTask, NewPage
<1> QED BY <1>1, <1>2 DEF PollingInv

\* A new execution has no past.
LEMMA ExecuteInv ==
    ASSUME PollingInv, Execute
    PROVE  PollingInv'
<1>1. /\ runs < MaxRuns /\ runs' = runs + 1
      /\ page' = [NewPage EXCEPT !.pc = "post", !.guard = TRUE]
      /\ task' = NewTask /\ trouble' = FALSE
    BY DEF Execute
<1>2. page' \in PageType /\ page'.pc = "post" /\ page'.meta = FALSE
    <2>1. NewPage.meta = FALSE BY DEF NewPage
    <2> QED BY <1>1, <2>1, NewPolling DEF PageType
<1>3. PollingTypeOK'
    <2>1. runs' \in 0..MaxRuns BY <1>1, PollingAssumption DEF PollingInv, PollingTypeOK
    <2>2. task' \in TaskType /\ trouble' \in BOOLEAN BY <1>1, NewPolling
    <2> QED BY <1>2, <2>1, <2>2 DEF PollingTypeOK, TaskType, PageType
<1>4. SignsOK' BY <1>1, <1>2 DEF SignsOK, NewTask
<1> QED BY <1>3, <1>4 DEF PollingInv

\* The page reports a failure when a request failed, or the job it has read is
\* a failure.
LEMMA PollStepInv ==
    ASSUME PollingInv, PollStep
    PROVE  PollingInv'
<1>1. task \in TaskType /\ page \in PageType /\ SignsOK
    BY PollingTypes DEF PollingInv
<1>2. /\ task' = task /\ runs' = runs
      /\ trouble => trouble'
      /\ trouble' \in BOOLEAN
    BY DEF PollStep, PostAnswered, RequestRefused, RequestFails, FetchJob, ReadStatus, WaitOver,
           LoadAnswered, LoadFails, PollingInv, PollingTypeOK
<1>3. /\ page' \in PageType
      /\ page'.meta => page.meta \/ task.cancelled
      /\ page'.pc = "failed" => trouble'
    <2>1. CASE PostAnswered
        <3>1. \/ page' = [page EXCEPT !.pc = "done", !.guard = FALSE]
              \/ page' = [page EXCEPT !.pc = "fetch"]
            BY <2>1 DEF PostAnswered, Settled
        <3> QED BY <1>1, <3>1 DEF PageType
    <2>2. CASE RequestFails
        <3>1. page' = [page EXCEPT !.pc = "failed", !.guard = FALSE] /\ trouble' = TRUE
            BY <2>2 DEF RequestFails, Settled
        <3> QED BY <1>1, <3>1 DEF PageType
    <2>3. CASE FetchJob
        <3>1. page' = [page EXCEPT !.pc = "read", !.meta = task.cancelled]
            BY <2>3 DEF FetchJob
        <3> QED BY <1>1, <3>1 DEF PageType, TaskType
    <2>4. CASE ReadStatus
        <3>1. CASE Fails(Serialized)
            <4>1. page' = [page EXCEPT !.pc = "failed", !.guard = FALSE] /\ trouble' = trouble
                BY <2>4, <3>1 DEF ReadStatus, Settled
            <4>2. page.meta \/ task.result = "error" \/ task.status = "failed"
                BY <1>1, <3>1 DEF Fails, Serialized, TaskType, JobStatus
            <4>3. trouble BY <1>1, <4>2 DEF SignsOK
            <4> QED BY <1>1, <4>1, <4>3 DEF PageType
        <3>2. CASE ~Fails(Serialized)
            <4>1. PICK pc \in {"load", "wait"} : page' = [page EXCEPT !.pc = pc]
                BY <2>4, <3>2 DEF ReadStatus
            <4> QED BY <1>1, <4>1 DEF PageType
        <3> QED BY <3>1, <3>2
    <2>5. CASE WaitOver
        <3>1. page' = [page EXCEPT !.pc = "fetch"] BY <2>5 DEF WaitOver
        <3> QED BY <1>1, <3>1 DEF PageType
    <2>6. CASE LoadAnswered
        <3>1. page' = [page EXCEPT !.pc = "done", !.guard = FALSE]
            BY <2>6 DEF LoadAnswered, Settled
        <3> QED BY <1>1, <3>1 DEF PageType
    <2>7. CASE LoadFails
        <3>1. CASE GivesUp(page.try)
            <4>1. page' = [page EXCEPT !.pc = "failed", !.guard = FALSE] /\ trouble' = TRUE
                BY <2>7, <3>1 DEF LoadFails, Settled
            <4> QED BY <1>1, <4>1 DEF PageType
        <3>2. CASE ~GivesUp(page.try)
            <4>1. page' = [page EXCEPT !.try = page.try + 1] /\ page.pc = "load"
                BY <2>7, <3>2 DEF LoadFails
            <4>2. page.try + 1 \in 0..(MaxTry + 1)
                BY <1>1, <3>2, PollingAssumption DEF GivesUp, PageType
            <4> QED BY <1>1, <4>1, <4>2 DEF PageType
        <3> QED BY <3>1, <3>2
    <2>8. CASE RequestRefused
        <3>1. page' = [page EXCEPT !.pc = "refused"] BY <2>8 DEF RequestRefused
        <3> QED BY <1>1, <3>1 DEF PageType
    <2> QED BY <2>1, <2>2, <2>3, <2>4, <2>5, <2>6, <2>7, <2>8 DEF PollStep
<1>4. SignsOK' BY <1>1, <1>2, <1>3 DEF SignsOK
<1>5. PollingTypeOK' BY <1>1, <1>2, <1>3 DEF PollingInv, PollingTypeOK, TaskType, PageType
<1> QED BY <1>4, <1>5 DEF PollingInv

\* A job that fails or is cancelled is trouble.
LEMMA TaskInv ==
    ASSUME PollingInv, TaskStep \/ TaskExpires
    PROVE  PollingInv'
<1>1. task \in TaskType /\ page \in PageType /\ SignsOK
    BY PollingTypes DEF PollingInv
<1>2. page' = page /\ runs' = runs /\ trouble' \in BOOLEAN /\ (trouble => trouble')
    BY DEF TaskStep, StartTask, FinishTask, TaskFails, TaskExpires, PollingInv, PollingTypeOK
<1>3. /\ task' \in TaskType
      /\ task'.cancelled = task.cancelled
      /\ task'.result = "error" => task.result = "error" \/ trouble'
      /\ task'.status = "failed" => task.status = "failed" \/ trouble'
    <2>1. CASE StartTask
        <3>1. task' = [task EXCEPT !.status = "started", !.working = TRUE] BY <2>1 DEF StartTask
        <3> QED BY <1>1, <3>1 DEF TaskType, JobStatus
    <2>2. ASSUME NEW result \in {"id", "error"}, FinishTask(result)
          PROVE  /\ task' \in TaskType
                 /\ task'.cancelled = task.cancelled
                 /\ task'.result = "error" => task.result = "error" \/ trouble'
                 /\ task'.status = "failed" => task.status = "failed" \/ trouble'
        <3>1. /\ task' = [task EXCEPT !.status = "finished", !.result = result, !.working = FALSE]
              /\ result = "error" => trouble'
            BY <2>2 DEF FinishTask
        <3> QED BY <1>1, <3>1 DEF TaskType, JobStatus, JobResult
    <2>3. CASE TaskFails
        <3>1. task' = [task EXCEPT !.status = "failed", !.working = FALSE] /\ trouble' = TRUE
            BY <2>3 DEF TaskFails
        <3> QED BY <1>1, <3>1 DEF TaskType, JobStatus
    <2>4. CASE TaskExpires
        <3>1. task' = [task EXCEPT !.saved = FALSE] BY <2>4 DEF TaskExpires
        <3> QED BY <1>1, <3>1 DEF TaskType
    <2> QED BY <2>1, <2>2, <2>3, <2>4 DEF TaskStep
<1>4. SignsOK' BY <1>1, <1>2, <1>3 DEF SignsOK
<1>5. PollingTypeOK' BY <1>1, <1>2, <1>3 DEF PollingInv, PollingTypeOK, TaskType, PageType
<1> QED BY <1>4, <1>5 DEF PollingInv

LEMMA CancelInv ==
    ASSUME PollingInv, CancelMeta \/ CancelStatus
    PROVE  PollingInv'
<1>1. task \in TaskType /\ page \in PageType /\ SignsOK
    BY PollingTypes DEF PollingInv
<1>2. runs' = runs /\ trouble' \in BOOLEAN /\ (trouble => trouble')
    BY DEF CancelMeta, CancelStatus, PollingInv, PollingTypeOK
<1>3. CASE CancelMeta
    <2>1. /\ page' = [page EXCEPT !.canceling = TRUE] /\ task' = [task EXCEPT !.cancelled = TRUE]
          /\ trouble' = TRUE
        BY <1>3 DEF CancelMeta
    <2>2. task' \in TaskType /\ page' \in PageType BY <1>1, <2>1 DEF TaskType, PageType
    <2> QED BY <1>2, <2>1, <2>2 DEF PollingInv, PollingTypeOK, TaskType, PageType, SignsOK
<1>4. CASE CancelStatus
    <2>1. /\ page' = [page EXCEPT !.canceling = FALSE] /\ task' = [task EXCEPT !.status = "canceled"]
          /\ trouble' = trouble
        BY <1>4 DEF CancelStatus
    <2>2. /\ task' \in TaskType /\ page' \in PageType /\ page'.pc = page.pc /\ page'.meta = page.meta
          /\ task'.cancelled = task.cancelled /\ task'.result = task.result
          /\ task'.status = "canceled"
        BY <1>1, <2>1 DEF TaskType, PageType, JobStatus
    <2>3. SignsOK' BY <1>1, <2>1, <2>2 DEF SignsOK
    <2> QED BY <1>2, <2>2, <2>3 DEF PollingInv, PollingTypeOK, TaskType, PageType
<1> QED BY <1>3, <1>4

\* Every step keeps the invariant.
LEMMA PollingNextInv == PollingInv /\ [PollingNext]_pollingVars => PollingInv'
<1> SUFFICES ASSUME PollingInv, [PollingNext]_pollingVars PROVE PollingInv'
    OBVIOUS
<1>1. CASE UNCHANGED pollingVars
    BY <1>1 DEF pollingVars, PollingInv, PollingTypeOK, SignsOK
<1>2. CASE PollingNext
    BY <1>2, ExecuteInv, PollStepInv, TaskInv, CancelInv DEF PollingNext
<1> QED BY <1>1, <1>2

\* A page reports a failure only if the job failed or was cancelled, or the
\* server could not be reached, whenever its two reads of the job happen.
THEOREM FailuresAreTrue == PollingSpec => []OutcomesAreTrue
<1>1. PollingInv => OutcomesAreTrue BY DEF PollingInv, SignsOK, OutcomesAreTrue
<1> QED BY <1>1, PollingInitInv, PollingNextInv, PTL DEF PollingSpec

-----------------------------------------------------------------------------
(* The scheduler                                                           *)

\* The fields of a row, one by one.
LEMMA RowFields ==
    ASSUME NEW r \in QueryRecord
    PROVE  /\ r.kind \in Kind /\ r.disabled \in BOOLEAN /\ r.hash \in {"applied", "raw"}
           /\ r.valid \in BOOLEAN /\ r.executed \in BOOLEAN /\ r.result \in BOOLEAN
           /\ r.elapsed \in BOOLEAN /\ r.failures \in 0..TooMany
BY DEF QueryRecord

\* What is written of a row is a row.
LEMMA RowsWritten ==
    ASSUME NEW r \in QueryRecord
    PROVE  /\ Written(r) \in QueryRecord
           /\ Moved(r) \subseteq QueryRecord
           /\ \A n \in 0..TooMany : Failed(r, n) \subseteq QueryRecord
           /\ \A k \in Kind, b \in BOOLEAN :
                [r EXCEPT !.kind = k, !.disabled = b] \in QueryRecord
<1>1. \A s \in QueryRecord : Written(s) \in QueryRecord BY DEF Written, HashOf, QueryRecord
<1>2. \A s \in QueryRecord : Moved(s) \subseteq QueryRecord
    <2> SUFFICES ASSUME NEW s \in QueryRecord, NEW t \in Moved(s) PROVE t \in QueryRecord
        OBVIOUS
    <2>1. PICK e \in {FALSE, s.elapsed} : t = [s EXCEPT !.elapsed = e] BY DEF Moved
    <2>2. e \in BOOLEAN BY <2>1, RowFields
    <2> QED BY <2>1, <2>2 DEF QueryRecord
<1>3. ASSUME NEW n \in 0..TooMany PROVE Failed(r, n) \subseteq QueryRecord
    <2> DEFINE more == IF n < TooMany THEN n + 1 ELSE TooMany
               s == [r EXCEPT !.failures = more]
    <2>1. more \in 0..TooMany BY SchedulerAssumption
    <2> HIDE DEF more
    <2>2. s \in QueryRecord BY <2>1 DEF QueryRecord
    <2> HIDE DEF s
    <2>3. Failed(r, n) = Moved(Written(s)) BY DEF Failed, s, more
    <2> QED BY <1>1, <1>2, <2>2, <2>3
<1>4. \A k \in Kind, b \in BOOLEAN : [r EXCEPT !.kind = k, !.disabled = b] \in QueryRecord
    BY DEF QueryRecord
<1> QED BY <1>1, <1>2, <1>3, <1>4

\* A row that changes in place of another.
LEMMA RowPut ==
    ASSUME query \in [Query -> QueryRecord], NEW q, q \in Query => query[q] \in QueryRecord,
           NEW r, q \in Query => r \in QueryRecord
    PROVE  [query EXCEPT ![q] = r] \in [Query -> QueryRecord]
OBVIOUS

LEMMA SchedulerInitTypes == ASSUME Query # {} PROVE SchedulerInit => SchedulerTypeOK
<1> SUFFICES ASSUME SchedulerInit PROVE SchedulerTypeOK OBVIOUS
<1>1. NewRow \in QueryRecord BY SchedulerAssumption DEF NewRow, QueryRecord, Kind
<1>2. \A k \in Kind : [NewRow EXCEPT !.kind = k] \in QueryRecord BY <1>1 DEF QueryRecord
<1>3. query \in [Query -> QueryRecord]
    <2>1. query = [q \in Query |-> [NewRow EXCEPT !.kind = IF q \in WithEnd THEN "until"
                                                                        ELSE "forever"]]
        BY DEF SchedulerInit, NewRow
    <2> QED BY <1>2, <2>1 DEF Kind
<1>4. refresh \in RefreshRecord
    BY SchedulerAssumption DEF SchedulerInit, NoRefresh, RefreshRecord, Kind
<1>5. job \in [Source -> JobRecord]
    <2>1. (CHOOSE q \in Query : TRUE) \in Query OBVIOUS
    <2> QED BY <2>1 DEF SchedulerInit, JobRecord
<1>6. moves \in 0..MaxMoves BY SchedulerAssumption DEF SchedulerInit
<1> QED BY <1>3, <1>4, <1>5, <1>6 DEF SchedulerInit, SchedulerTypeOK

LEMMA RefreshTypes == ASSUME SchedulerTypeOK, RefreshStep PROVE SchedulerTypeOK'
<1>1. /\ query \in [Query -> QueryRecord] /\ refresh \in RefreshRecord
      /\ source \in [Query -> Source \cup {NoSource}] /\ job \in [Source -> JobRecord]
    BY DEF SchedulerTypeOK
<1>2. CASE Read
    <2> DEFINE due == {q \in Query : IsDue(query[q])}
               broken == {q \in Query : Broken(query[q])}
               kept == LastOfKey(due)
               kinds == [q \in Query |-> IF q \in broken THEN query[q].kind ELSE "none"]
               fails == [q \in Query |-> IF q \in kept THEN query[q].failures ELSE 0]
    <2>1. broken \in SUBSET Query /\ kept \in SUBSET Query BY DEF LastOfKey
    <2>2. kinds \in [Query -> Kind]
        <3>1. \A q \in Query : query[q].kind \in Kind BY <1>1, RowFields
        <3> QED BY <3>1 DEF Kind
    <2>3. fails \in [Query -> 0..TooMany]
        <3>1. \A q \in Query : query[q].failures \in 0..TooMany BY <1>1, RowFields
        <3>2. 0 \in 0..TooMany BY SchedulerAssumption
        <3> QED BY <3>1, <3>2
    <2>4. refresh' = [pc |-> IF broken = {} THEN "enqueue" ELSE "judge", broken |-> broken,
                      due |-> kept, kind |-> kinds, failures |-> fails]
        BY <1>2 DEF Read
    <2> HIDE DEF broken, kept, kinds, fails
    <2>5. refresh' \in RefreshRecord BY <2>1, <2>2, <2>3, <2>4 DEF RefreshRecord
    <2> QED BY <1>2, <2>5 DEF SchedulerTypeOK, Read
<1>3. CASE Disable
    <2> DEFINE q == CHOOSE p \in refresh.broken : \A r \in refresh.broken : p <= r
               row == [query[q] EXCEPT !.kind = refresh.kind[q], !.disabled = TRUE]
               kinds == [refresh.kind EXCEPT ![q] = "none"]
    <2>1. /\ query' = [query EXCEPT ![q] = Written([@ EXCEPT !.kind = refresh.kind[q],
                                                            !.disabled = TRUE])]
          /\ refresh' = [refresh EXCEPT !.pc = IF refresh.broken = {q} THEN "enqueue" ELSE @,
                                        !.broken = @ \ {q}, !.kind[q] = "none"]
        BY <1>3 DEF Disable
    <2>2. refresh.kind \in [Query -> Kind] /\ refresh.broken \in SUBSET Query
        BY <1>1 DEF RefreshRecord
    <2> HIDE DEF q
    <2>3. q \in Query => row \in QueryRecord BY <1>1, <2>2, RowsWritten
    <2>4. query' \in [Query -> QueryRecord]
        <3>1. q \in Query => Written(row) \in QueryRecord BY <2>3, RowsWritten
        <3>2. query' = [query EXCEPT ![q] = Written(row)] BY <2>1
        <3> HIDE DEF row
        <3> QED BY <1>1, <3>1, <3>2
    <2>5. kinds \in [Query -> Kind] BY <2>2 DEF Kind
    <2>6. refresh' \in RefreshRecord
        <3>1. refresh' = [refresh EXCEPT !.pc = IF refresh.broken = {q} THEN "enqueue" ELSE refresh.pc,
                                         !.broken = refresh.broken \ {q}, !.kind = kinds]
            BY <1>1, <2>1 DEF RefreshRecord
        <3>2. refresh.broken \ {q} \in SUBSET Query BY <2>2
        <3> HIDE DEF kinds
        <3> QED BY <1>1, <2>5, <3>1, <3>2 DEF RefreshRecord
    <2> QED BY <1>3, <2>4, <2>6 DEF SchedulerTypeOK, Disable
<1>4. ASSUME NEW q \in Query, RefreshOne(q) PROVE SchedulerTypeOK'
    <2>1. refresh' \in RefreshRecord
        <3> DEFINE fails == [refresh.failures EXCEPT ![q] = 0]
        <3>1. refresh.failures \in [Query -> 0..TooMany] /\ 0 \in 0..TooMany
            BY <1>1, SchedulerAssumption DEF RefreshRecord
        <3>2. fails \in [Query -> 0..TooMany] BY <3>1
        <3>3. refresh' = [refresh EXCEPT !.due = refresh.due \ {q}, !.failures = fails]
            BY <1>1, <1>4 DEF RefreshOne, RefreshRecord
        <3> HIDE DEF fails
        <3> QED BY <1>1, <3>2, <3>3 DEF RefreshRecord
    <2>2. query' \in [Query -> QueryRecord]
        <3>1. refresh.failures[q] \in 0..TooMany BY <1>1 DEF RefreshRecord
        <3>2. \A r \in Failed(query[q], refresh.failures[q]) : r \in QueryRecord
            BY <1>1, <3>1, RowsWritten
        <3> QED BY <1>1, <1>4, <3>2 DEF RefreshOne
    <2>3. job' \in [Source -> JobRecord]
        <3>1. ShouldRefresh(q) => source[q] \in Source BY <1>1 DEF ShouldRefresh
        <3>2. ShouldRefresh(q) => Enqueued(q, TRUE) \in [Source -> JobRecord]
            BY <1>1, <3>1 DEF Enqueued, JobRecord
        <3> QED BY <1>1, <1>4, <3>2 DEF RefreshOne
    <2> QED BY <1>4, <2>1, <2>2, <2>3 DEF SchedulerTypeOK, RefreshOne
<1>5. CASE RefreshDone
    <2>1. NoRefresh \in RefreshRecord BY SchedulerAssumption DEF NoRefresh, RefreshRecord, Kind
    <2> QED BY <1>5, <2>1 DEF SchedulerTypeOK, RefreshDone
<1> QED BY <1>2, <1>3, <1>4, <1>5 DEF RefreshStep

LEMMA EmptyTypes == ASSUME SchedulerTypeOK, FindPast \/ EmptyPast PROVE SchedulerTypeOK'
<1>1. CASE FindPast
    <2>1. past' \in SUBSET Query BY <1>1 DEF FindPast, PastSchedules
    <2> QED BY <1>1, <2>1 DEF SchedulerTypeOK, FindPast
<1>2. CASE EmptyPast
    <2>1. query' \in [Query -> QueryRecord]
        <3>1. ASSUME NEW q \in Query
              PROVE  Written([query[q] EXCEPT !.kind = "none", !.disabled = FALSE]) \in QueryRecord
            <4>1. query[q] \in QueryRecord /\ "none" \in Kind /\ FALSE \in BOOLEAN
                BY DEF SchedulerTypeOK, Kind
            <4>2. [query[q] EXCEPT !.kind = "none", !.disabled = FALSE] \in QueryRecord
                BY <4>1, RowsWritten
            <4> QED BY <4>2, RowsWritten
        <3>2. \A q \in Query : query[q] \in QueryRecord BY DEF SchedulerTypeOK
        <3> QED BY <1>2, <3>1, <3>2 DEF EmptyPast
    <2> QED BY <1>2, <2>1 DEF SchedulerTypeOK, EmptyPast
<1> QED BY <1>1, <1>2

LEMMA JobTypes ==
    ASSUME SchedulerTypeOK, NEW s \in Source, Start(s) \/ Succeed(s) \/ JobFails(s)
    PROVE  SchedulerTypeOK'
<1>1. query \in [Query -> QueryRecord] /\ job \in [Source -> JobRecord] BY DEF SchedulerTypeOK
<1>2. /\ job[s].query \in Query
      /\ \A pc \in {"none", "running"} : [job EXCEPT ![s].pc = pc] \in [Source -> JobRecord]
    BY <1>1 DEF JobRecord
<1> DEFINE own == job[s].query
<1>3. own \in Query BY <1>2
<1> HIDE DEF own
<1>4. job' \in [Source -> JobRecord] BY <1>2 DEF Start, Succeed, JobFails
<1>5. UNCHANGED <<source, paused, refresh, past, moves>> BY DEF Start, Succeed, JobFails
<1>6. query' \in [Query -> QueryRecord]
    <2>1. CASE Start(s)
        <3> DEFINE started == [query EXCEPT ![own].executed = TRUE, ![own].elapsed = FALSE]
        <3>1. started \in [Query -> QueryRecord] BY <1>1, <1>3 DEF QueryRecord
        <3>2. query' = IF job[s].scheduled THEN started ELSE query BY <2>1 DEF Start, own
        <3> QED BY <1>1, <3>1, <3>2
    <2>2. CASE Succeed(s)
        <3>1. ASSUME NEW q \in Query PROVE Forgiven(q, s) \in QueryRecord
            <4>1. query[q] \in QueryRecord /\ 0 \in 0..TooMany BY <1>1, SchedulerAssumption
            <4>2. [query[q] EXCEPT !.failures = 0] \in QueryRecord BY <4>1 DEF QueryRecord
            <4>3. Written([query[q] EXCEPT !.failures = 0]) \in QueryRecord
                BY <4>2, RowsWritten
            <4> QED BY <4>1, <4>3 DEF Forgiven
        <3>2. ASSUME NEW r \in QueryRecord
              PROVE  Written([r EXCEPT !.result = TRUE, !.elapsed = @ /\ r.executed]) \in QueryRecord
            <4> DEFINE e == r.elapsed /\ r.executed
            <4>1. e \in BOOLEAN OBVIOUS
            <4> HIDE DEF e
            <4>2. [r EXCEPT !.result = TRUE, !.elapsed = e] \in QueryRecord
                BY <4>1 DEF QueryRecord
            <4>3. [r EXCEPT !.result = TRUE, !.elapsed = @ /\ r.executed]
                    = [r EXCEPT !.result = TRUE, !.elapsed = e]
                BY DEF e, QueryRecord
            <4> QED BY <4>2, <4>3, RowsWritten
        <3>3. query' = [q \in Query |->
                IF source[q] = s /\ Forgiven(q, s).hash = "applied"
                THEN Written([Forgiven(q, s) EXCEPT !.result = TRUE,
                                                    !.elapsed = @ /\ Forgiven(q, s).executed])
                ELSE Forgiven(q, s)]
            BY <2>2 DEF Succeed
        <3> QED BY <3>1, <3>2, <3>3
    <2>3. CASE JobFails(s)
        <3>1. query[own].failures \in 0..TooMany /\ query[own] \in QueryRecord
            BY <1>1, <1>3, RowFields
        <3>2. \A r \in Failed(query[own], query[own].failures) : r \in QueryRecord
            BY <3>1, RowsWritten
        <3>3. \/ \E r \in Failed(query[own], query[own].failures) :
                    query' = [query EXCEPT ![own] = r]
              \/ query' = query
            BY <2>3 DEF JobFails, own
        <3> QED BY <1>1, <3>2, <3>3
    <2> QED BY <2>1, <2>2, <2>3
<1> QED BY <1>4, <1>5, <1>6 DEF SchedulerTypeOK

LEMMA TimeAndPeopleTypes ==
    ASSUME SchedulerTypeOK, NEW q \in Query,
           \/ Elapse(q) \/ UntilPasses(q) \/ ChangeValues(q) \/ RunAdHoc(q)
           \/ \E kind \in Kind \ {"past"} : EditSchedule(q, kind)
    PROVE  SchedulerTypeOK'
<1>1. /\ query \in [Query -> QueryRecord] /\ query[q] \in QueryRecord
      /\ source \in [Query -> Source \cup {NoSource}] /\ job \in [Source -> JobRecord]
    BY DEF SchedulerTypeOK
<1>2. moves' \in 0..MaxMoves
    <2>1. moves' = moves \/ (moves < MaxMoves /\ moves' = moves + 1)
        BY DEF Elapse, UntilPasses, ChangeValues, RunAdHoc, EditSchedule, Change
    <2> QED BY <2>1, SchedulerAssumption DEF SchedulerTypeOK
<1>3. UNCHANGED <<source, paused, refresh, past>>
    BY DEF Elapse, UntilPasses, ChangeValues, RunAdHoc, EditSchedule
<1>4. job' \in [Source -> JobRecord]
    <2>1. CASE RunAdHoc(q)
        <3>1. source[q] \in Source BY <1>1, <2>1 DEF RunAdHoc
        <3>2. Enqueued(q, FALSE) \in [Source -> JobRecord] BY <1>1, <3>1 DEF Enqueued, JobRecord
        <3> QED BY <2>1, <3>2 DEF RunAdHoc
    <2>2. CASE ~RunAdHoc(q) BY <1>1, <2>2 DEF Elapse, UntilPasses, ChangeValues, EditSchedule
    <2> QED BY <2>1, <2>2
<1>5. query' \in [Query -> QueryRecord]
    <2>1. CASE Elapse(q) \/ UntilPasses(q) \/ ChangeValues(q)
        <3>1. [query EXCEPT ![q].elapsed = TRUE] \in [Query -> QueryRecord]
            BY <1>1 DEF QueryRecord
        <3>2. [query EXCEPT ![q].kind = "past"] \in [Query -> QueryRecord]
            BY <1>1 DEF QueryRecord, Kind
        <3>3. [query EXCEPT ![q].valid = ~@] \in [Query -> QueryRecord]
            BY <1>1 DEF QueryRecord
        <3> QED BY <2>1, <3>1, <3>2, <3>3 DEF Elapse, UntilPasses, ChangeValues
    <2>2. ASSUME NEW kind \in Kind, EditSchedule(q, kind) PROVE query' \in [Query -> QueryRecord]
        <3> DEFINE row == [query[q] EXCEPT !.kind = kind, !.disabled = FALSE]
        <3>1. row \in QueryRecord
            <4>1. FALSE \in BOOLEAN OBVIOUS
            <4> QED BY <1>1, <4>1, RowsWritten
        <3>2. PICK r \in Moved(row) : query' = [query EXCEPT ![q] = Written(r)]
            BY <2>2 DEF EditSchedule
        <3> HIDE DEF row
        <3>3. r \in QueryRecord BY <3>1, <3>2, RowsWritten
        <3>4. Written(r) \in QueryRecord BY <3>3, RowsWritten
        <3> QED BY <1>1, <3>2, <3>4
    <2>3. CASE RunAdHoc(q) BY <1>1, <2>3 DEF RunAdHoc
    <2> QED BY <2>1, <2>2, <2>3
<1> QED BY <1>2, <1>3, <1>4, <1>5 DEF SchedulerTypeOK

LEMMA SourceTypes ==
    ASSUME SchedulerTypeOK, NEW s \in Source, Pause(s) \/ DeleteSource(s)
    PROVE  SchedulerTypeOK'
<1>1. moves' \in 0..MaxMoves
    BY SchedulerAssumption DEF SchedulerTypeOK, Pause, DeleteSource, Change
<1>2. CASE Pause(s) BY <1>1, <1>2 DEF SchedulerTypeOK, Pause
<1>3. CASE DeleteSource(s)
    <2>1. query' \in [Query -> QueryRecord]
        <3>1. \A q \in Query : /\ query[q] \in QueryRecord
                               /\ [query[q] EXCEPT !.result = FALSE] \in QueryRecord
            BY DEF SchedulerTypeOK, QueryRecord
        <3> QED BY <1>3, <3>1 DEF DeleteSource
    <2>2. source' \in [Query -> Source \cup {NoSource}] BY <1>3 DEF SchedulerTypeOK, DeleteSource
    <2> QED BY <1>1, <1>3, <2>1, <2>2 DEF SchedulerTypeOK, DeleteSource
<1> QED BY <1>2, <1>3

LEMMA SchedulerNextTypes == SchedulerTypeOK /\ [SchedulerNext]_schedulerVars => SchedulerTypeOK'
<1> SUFFICES ASSUME SchedulerTypeOK, [SchedulerNext]_schedulerVars PROVE SchedulerTypeOK' OBVIOUS
<1>1. CASE RefreshStep BY <1>1, RefreshTypes
<1>2. CASE FindPast \/ EmptyPast BY <1>2, EmptyTypes
<1>3. ASSUME NEW s \in Source, Start(s) \/ Succeed(s) \/ JobFails(s) PROVE SchedulerTypeOK'
    BY <1>3, JobTypes
<1>4. ASSUME NEW s \in Source, Pause(s) \/ DeleteSource(s) PROVE SchedulerTypeOK'
    BY <1>4, SourceTypes
<1>5. ASSUME NEW q \in Query,
             \/ Elapse(q) \/ UntilPasses(q) \/ ChangeValues(q) \/ RunAdHoc(q)
             \/ \E kind \in Kind \ {"past"} : EditSchedule(q, kind)
      PROVE  SchedulerTypeOK'
    BY <1>5, TimeAndPeopleTypes
<1>6. CASE UNCHANGED schedulerVars BY <1>6 DEF SchedulerTypeOK, schedulerVars
<1> QED BY <1>1, <1>2, <1>3, <1>4, <1>5, <1>6 DEF SchedulerNext

-----------------------------------------------------------------------------
(* All three parts                                                         *)

LiveInv == SchedulerTypeOK /\ ReportsInv /\ PollingInv

LEMMA LiveNextInv ==
    ASSUME Owner # {}
    PROVE  LiveInv /\ [LiveNext]_vars => LiveInv'
<1> SUFFICES ASSUME LiveInv, [LiveNext]_vars PROVE LiveInv' OBVIOUS
<1>1. /\ [SchedulerNext]_schedulerVars
      /\ [ReportsNext]_reportsVars
      /\ [PollingNext]_pollingVars
    BY DEF LiveNext, KeepOthers, vars
<1>2. SchedulerTypeOK' BY <1>1, SchedulerNextTypes DEF LiveInv
<1>3. ReportsInv' BY <1>1, ReportsNextInv DEF LiveInv
<1>4. PollingInv' BY <1>1, PollingNextInv DEF LiveInv
<1> QED BY <1>2, <1>3, <1>4 DEF LiveInv

\* The scheduler's rows and jobs, the lists of failure reports and the pages
\* that wait for a result stay what they are meant to be, whatever the three
\* do, for any queries, data sources, owners and bounds.
THEOREM LiveTypesCorrect ==
    ASSUME Query # {}, Owner # {}
    PROVE  LiveSpec => []LiveTypeOK
<1>1. LiveInit => LiveInv
    BY SchedulerInitTypes, ReportsInitInv, PollingInitInv DEF LiveInit, LiveInv
<1>2. LiveInv => LiveTypeOK BY DEF LiveInv, LiveTypeOK, ReportsInv, PollingInv
<1> QED BY <1>1, <1>2, LiveNextInv, PTL DEF LiveSpec

=============================================================================
