------------------------------- MODULE Digest -------------------------------
(***************************************************************************)
(* Digest mails: an hourly job picks the subscriptions whose hour it is    *)
(* and whose last mail is old enough, mails each and commits the time, and *)
(* may die or run late meanwhile; people subscribe and unsubscribe.  Each  *)
(* time it is enqueued, the job runs once, on any worker: two runs may be  *)
(* under way at once, and nothing holds the rows between SELECT and commit.*)
(*                                                                         *)
(* Time is counted in ticks, an hour has HourTicks of them and a day has   *)
(* Hours hours.                                                            *)
(***************************************************************************)
EXTENDS Integers

CONSTANTS
    Subscription,
    Dispatch,   \* runs of the job that may be enqueued or under way at once
    WeekDays,   \* 7
    Hours,      \* 24
    HourTicks,
    Patience,   \* ticks after which a run is killed: its timeout, below an hour
    LastTick    \* when the model's clock stops (bound of the model)

ASSUME DigestAssumption ==
    /\ Subscription # {}
    /\ WeekDays \in Nat \ {0} /\ Hours \in Nat \ {0} /\ HourTicks \in Nat \ {0}
    /\ Patience \in 0..(HourTicks - 1)
    /\ LastTick \in Nat

DayTicks == Hours * HourTicks
Never == -1

VARIABLES
    now,        \* the time
    digest,     \* the committed subscriptions
    dispatch,   \* the runs of the hourly job and their locals
    next,       \* when the scheduler enqueues the job again, at the earliest
    mailed,     \* history: the latest start of a run that mailed a subscription
    steady,     \* history: the subscriptions to which nothing irregular has come:
                \* neither a crash or a failed commit after a mail nor another hour
    raced       \* history: the subscriptions of each run that another run mails
                \* after its SELECT, or has mailed but not committed before

digestVars == <<now, digest, dispatch, next, mailed, steady, raced>>

DigestRecord ==
    [frequency : {"daily", "weekly"}, active : BOOLEAN, hour : 0..(Hours - 1),
     sentAt : 0..LastTick \cup {Never}]
DispatchRecord ==
    [pc : {"idle", "queued", "select", "send", "commit"},
     turn : {"daily", "weekly"},    \* which of the two loops it is in
     start : 0..LastTick,           \* now, read once
     todo : SUBSET Subscription,    \* what the loop's SELECT gave, less what is done
     sub : Subscription]            \* the one that was mailed last

DigestTypeOK ==
    /\ now \in 0..LastTick
    /\ digest \in [Subscription -> DigestRecord]
    /\ dispatch \in [Dispatch -> DispatchRecord]
    /\ next \in Nat
    /\ mailed \in [Subscription -> 0..LastTick \cup {Never}]
    /\ steady \in SUBSET Subscription
    /\ raced \in [Dispatch -> SUBSET Subscription]

NoDispatch ==
    [pc |-> "idle", turn |-> "daily", start |-> 0, todo |-> {},
     sub |-> CHOOSE s \in Subscription : TRUE]

DigestInit ==
    /\ now = 0
    /\ digest \in [Subscription ->
                    [frequency : {"daily", "weekly"}, active : {TRUE}, hour : {0}, sentAt : {Never}]]
    /\ dispatch = [j \in Dispatch |-> NoDispatch]
    /\ next = 0
    /\ mailed = [s \in Subscription |-> Never]
    /\ steady = Subscription
    /\ raced = [j \in Dispatch |-> {}]

HourOf(t) == (t % DayTicks) \div HourTicks
DayOf(t) == t \div DayTicks
PeriodOf(s) == IF digest[s].frequency = "daily" THEN 1 ELSE WeekDays

-----------------------------------------------------------------------------
(* The job                                                                 *)

StepsTo(j, pc) == dispatch' = [dispatch EXCEPT ![j].pc = pc]
RunEnds(j) ==
    /\ dispatch' = [dispatch EXCEPT ![j] = NoDispatch]
    /\ raced' = [raced EXCEPT ![j] = {}]

\* The scheduler does not ask whether the last run is over, or has begun.
Enqueue(j) ==
    /\ dispatch[j].pc = "idle" /\ now >= next
    /\ StepsTo(j, "queued")
    /\ next' = now + HourTicks
    /\ UNCHANGED <<now, digest, mailed, steady, raced>>

StartDispatch(j) ==
    /\ dispatch[j].pc = "queued"
    /\ dispatch' = [dispatch EXCEPT ![j].pc = "select", ![j].start = now]
    /\ UNCHANGED <<now, digest, next, mailed, steady, raced>>

\* Faults for TLC: the hour of the day is enough; a whole number of days.
MinAgeNone(s) == 0
MinAgeWhole(s) == PeriodOf(s) * DayTicks
MinAge(s) == PeriodOf(s) * DayTicks - HourTicks

Ready(j, s) ==
    /\ digest[s].frequency = dispatch[j].turn
    /\ digest[s].active
    /\ digest[s].hour = HourOf(dispatch[j].start)
    /\ digest[s].sentAt = Never \/ digest[s].sentAt <= dispatch[j].start - MinAge(s)

\* What other runs have mailed and not committed yet.
Uncommitted(j) == {dispatch[k].sub : k \in {i \in Dispatch \ {j} : dispatch[i].pc = "commit"}}

SelectDue(j) ==
    /\ dispatch[j].pc = "select"
    /\ dispatch' = [dispatch EXCEPT ![j].pc = "send",
                                    ![j].todo = {s \in Subscription : Ready(j, s)}]
    /\ raced' = [raced EXCEPT ![j] = Uncommitted(j)]
    /\ UNCHANGED <<now, digest, next, mailed, steady>>

\* The mail goes out, even if the subscription was ended since the SELECT, or
\* another run has mailed it.
Mail(j, s) ==
    /\ dispatch[j].pc = "send" /\ s \in dispatch[j].todo
    /\ dispatch' = [dispatch EXCEPT ![j].pc = "commit", ![j].todo = @ \ {s}, ![j].sub = s]
    /\ mailed' = [mailed EXCEPT ![s] = IF @ < dispatch[j].start THEN dispatch[j].start ELSE @]
    /\ raced' = [k \in Dispatch |-> IF k # j /\ s \in dispatch[k].todo THEN raced[k] \cup {s}
                                    ELSE raced[k]]
    /\ UNCHANGED <<now, digest, next, steady>>

\* Nothing to report, the query fails, or the mail server refuses.
NoMail(j, s) ==
    /\ dispatch[j].pc = "send" /\ s \in dispatch[j].todo
    /\ dispatch' = [dispatch EXCEPT ![j].todo = @ \ {s}]
    /\ UNCHANGED <<now, digest, next, mailed, steady, raced>>

CommitSent(j) ==
    /\ dispatch[j].pc = "commit"
    /\ digest' = [digest EXCEPT ![dispatch[j].sub].sentAt = now]
    /\ StepsTo(j, "send")
    /\ UNCHANGED <<now, next, mailed, steady, raced>>

\* The run rolls back and goes on with the next one.
CommitFails(j) ==
    /\ dispatch[j].pc = "commit"
    /\ steady' = steady \ {dispatch[j].sub}
    /\ StepsTo(j, "send")
    /\ UNCHANGED <<now, digest, next, mailed, raced>>

LoopDone(j) ==
    /\ dispatch[j].pc = "send" /\ dispatch[j].todo = {}
    /\ IF dispatch[j].turn = "daily"
       THEN /\ dispatch' = [dispatch EXCEPT ![j].pc = "select", ![j].turn = "weekly"]
            /\ UNCHANGED raced
       ELSE RunEnds(j)
    /\ UNCHANGED <<now, digest, next, mailed, steady>>

Running(j) == dispatch[j].pc \notin {"idle", "queued"}

DispatchDies(j) ==
    /\ Running(j)
    /\ steady' = IF dispatch[j].pc = "commit" THEN steady \ {dispatch[j].sub} ELSE steady
    /\ RunEnds(j)
    /\ UNCHANGED <<now, digest, next, mailed>>

-----------------------------------------------------------------------------
(* Time, deployments and people                                            *)

\* A run is killed when its time is up.
TimePasses ==
    /\ now < LastTick
    /\ \A j \in Dispatch : Running(j) => now - dispatch[j].start < Patience
    /\ now' = now + 1
    /\ UNCHANGED <<digest, dispatch, next, mailed, steady, raced>>

\* schedule_periodic_jobs registers a job that is not known: it runs at once.
Register ==
    /\ next > now
    /\ next' = now
    /\ UNCHANGED <<now, digest, dispatch, mailed, steady, raced>>

\* An old subscription is revived as it was, with the hour asked for now.
Subscribe(s, hour) ==
    /\ digest' = [digest EXCEPT ![s].active = TRUE, ![s].hour = hour]
    /\ digest' # digest
    /\ steady' = IF hour = digest[s].hour THEN steady ELSE steady \ {s}
    /\ UNCHANGED <<now, dispatch, next, mailed, raced>>

Unsubscribe(s) ==
    /\ digest[s].active
    /\ digest' = [digest EXCEPT ![s].active = FALSE]
    /\ UNCHANGED <<now, dispatch, next, mailed, steady, raced>>

DigestNext ==
    \/ TimePasses \/ Register
    \/ \E j \in Dispatch :
        \/ Enqueue(j) \/ StartDispatch(j) \/ SelectDue(j)
        \/ CommitSent(j) \/ CommitFails(j) \/ LoopDone(j) \/ DispatchDies(j)
        \/ \E s \in Subscription : Mail(j, s) \/ NoMail(j, s)
    \/ \E s \in Subscription :
        \/ Unsubscribe(s)
        \/ \E hour \in 0..(Hours - 1) : Subscribe(s, hour)

DigestSpec == DigestInit /\ [][DigestNext]_digestVars

-----------------------------------------------------------------------------
(* Properties                                                              *)

MinuteOfHour(t) == t % HourTicks

\* "Re-runs of the same job within the same hour are safe": no subscription is
\* mailed twice in its period, unless a run died or failed between a mail and
\* its commit or the hour was changed.
OneDigestAPeriod ==
    [][\A j \in Dispatch, s \in Subscription :
        Mail(j, s) /\ s \in steady /\ mailed[s] # Never =>
            DayOf(dispatch[j].start) >= DayOf(mailed[s]) + PeriodOf(s)]_digestVars

\* That much of it holds: however late, again or out of turn runs come, and
\* whatever else they do at the same time, none mails a subscription once more
\* in its period whose earlier mails were all committed when it selected, if
\* none is sent between its SELECT and its own mail.
RerunsAreSafe ==
    [][\A j \in Dispatch, s \in Subscription :
        Mail(j, s) /\ s \in steady /\ s \notin raced[j] /\ mailed[s] # Never =>
            DayOf(dispatch[j].start) >= DayOf(mailed[s]) + PeriodOf(s)]_digestVars

\* However late in its hour a subscription was mailed, it is picked again when
\* its hour comes after its period, also after crashes, and by runs out of turn
\* or beside others: only a run that starts earlier in its hour than the last
\* one that mailed it, by more than what an hour has left beside the timeout of
\* a run, may miss it.
LateDigestIsDueAgain ==
    [][\A j \in Dispatch, s \in Subscription :
        /\ SelectDue(j) /\ digest[s].frequency = dispatch[j].turn
        /\ digest[s].active /\ digest[s].hour = HourOf(dispatch[j].start)
        /\ mailed[s] # Never /\ HourOf(mailed[s]) = HourOf(dispatch[j].start)
        /\ DayOf(dispatch[j].start) >= DayOf(mailed[s]) + PeriodOf(s)
        /\ MinuteOfHour(mailed[s]) - MinuteOfHour(dispatch[j].start) <= HourTicks - Patience
        => s \in dispatch[j]'.todo]_digestVars

=============================================================================
