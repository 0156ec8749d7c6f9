---------------------------- MODULE ScheduleTime ----------------------------
(***************************************************************************)
(* When a scheduled query is due: should_schedule_next.                    *)
(*                                                                         *)
(* A query runs every so many seconds, or every so many days at a given    *)
(* minute, or every so many weeks on a given weekday at a given minute.    *)
(* Time is counted in ticks.  A tick stands for any span that divides a    *)
(* minute; a day has Minutes minutes here, of Ticks ticks each.            *)
(***************************************************************************)
EXTENDS Integers, FiniteSets

CONSTANTS
    Minutes,    \* minutes of a day (1440)
    Ticks,      \* ticks of a minute
    Schedule,   \* the schedules a query may have
    GiveUp,     \* the number of failures whose backoff overflows a date
    Horizon     \* when the model's clock stops (bound of the model)

DaysOfWeek == 7
Day == Minutes * Ticks
Moment == 0..Horizon
NoTime == -1                \* time or day_of_week is None; previous_iteration is None

ScheduleRecord ==
    [interval : Nat \ {0},  \* in ticks; in whole days if there is a time
     minute : Int,          \* the minute of the day, or NoTime
     weekday : Int]

ASSUME TimeAssumption ==
    /\ Minutes \in Nat \ {0} /\ Ticks \in Nat \ {0} /\ GiveUp \in Nat \ {0} /\ Horizon \in Nat
    /\ \A s \in Schedule :
        /\ s.interval \in Nat \ {0}
        /\ s.minute \in 0..(Minutes - 1) \cup {NoTime}
        /\ s.weekday \in 0..(DaysOfWeek - 1) \cup {NoTime}
        /\ s.minute # NoTime => s.interval % Day = 0
        /\ s.weekday # NoTime => s.minute # NoTime /\ s.interval % (DaysOfWeek * Day) = 0

\* True of every number; the provers know nothing of powers, TLC computes them.
ASSUME PowersAssumption == \A n \in 0..GiveUp : 2 ^ n \in Nat

VARIABLES
    clock,      \* the time
    schedule,   \* the query's schedule
    last,       \* retrieved_at: when the query was last run, or NoTime
    failed      \* schedule_failures

timeVars == <<clock, schedule, last, failed>>

TimeTypeOK ==
    /\ clock \in Moment
    /\ schedule \in Schedule
    /\ last \in Moment \cup {NoTime}
    /\ failed \in 0..GiveUp

TimeInit ==
    /\ clock = 0
    /\ schedule \in Schedule
    /\ last = NoTime
    /\ failed = 0

-----------------------------------------------------------------------------
(* Dates                                                                   *)

DateOf(t) == t \div Day                         \* the number of the day
MinuteOf(t) == (t % Day) \div Ticks
WeekdayOf(t) == DateOf(t) % DaysOfWeek

\* t.replace(hour, minute): the seconds stay.
Replace(t, minute) == (DateOf(t) * Day) + (minute * Ticks) + (t % Ticks)

-----------------------------------------------------------------------------
(* should_schedule_next                                                    *)

\* A fault for TLC: the normalisation of a late run is forgotten.
PreviousAsItIs(t, minute) == t

\* The slot that a run at t was for: a run before the slot of its day is late
\* for that of the day before.
Previous(t, minute) ==
    IF Replace(t, minute) > t THEN Replace(t, minute) - Day ELSE t

\* A fault for TLC: the weekday is forgotten.
DaysToAddNone(t, weekday) == 0
DaysToAdd(t, weekday) == IF weekday = NoTime THEN 0 ELSE weekday - WeekdayOf(t)

NextSlot(t) ==
    Replace(Previous(t, schedule.minute) + schedule.interval
                + (DaysToAdd(t, schedule.weekday) * Day),
            schedule.minute)

NextIteration(t) == IF schedule.minute = NoTime THEN t + schedule.interval ELSE NextSlot(t)

Backoff == IF failed = 0 THEN 0 ELSE (2 ^ failed) * Ticks

\* OverflowError: the query is not due, whatever the time.
Due ==
    \/ last = NoTime
    \/ failed < GiveUp /\ clock > NextIteration(last) + Backoff

-----------------------------------------------------------------------------
(* The life of a scheduled query                                           *)

Tick == clock < Horizon /\ clock' = clock + 1 /\ UNCHANGED <<schedule, last, failed>>

\* A run starts when the query is due, or any time later, and fails or not.
Run ==
    /\ Due
    /\ last' = clock
    /\ failed' \in {0} \cup ({failed + 1} \cap 0..GiveUp)
    /\ UNCHANGED <<clock, schedule>>

\* An ad hoc run succeeds: the failures are forgotten, the last run on schedule
\* stays what it was.
Forget == failed # 0 /\ failed' = 0 /\ UNCHANGED <<clock, schedule, last>>

TimeNext == Tick \/ Run \/ Forget

TimeSpec == TimeInit /\ [][TimeNext]_timeVars

-----------------------------------------------------------------------------
(* Properties                                                              *)

Slots(from, to) ==      \* the scheduled minutes that begin in (from, to]
    {t \in (from + 1)..to : t % Day = schedule.minute * Ticks}
SlotsOver(from, to) ==  \* those that are over by then as well
    {t \in Slots(from, to) : t + Ticks <= to}
Asked == schedule.interval \div Day

\* A query scheduled for a minute of every n-th day runs as often as it was
\* asked to, no matter how late it is picked up: it is due after n scheduled
\* minutes, counted from its last run, never before the n-th begins, and if
\* it did not fail, always once the n-th is over.
RunsAfterItsSlots ==
    schedule.minute # NoTime /\ schedule.weekday = NoTime /\ last # NoTime =>
        /\ Due => Cardinality(Slots(last, clock)) >= Asked
        /\ failed = 0 /\ Cardinality(SlotsOver(last, clock)) >= Asked => Due

\* A weekly query that ran after the slot of its day is due next after a slot
\* on its own weekday: that of the week asked for, or of the next if it ran
\* earlier in its week than on its weekday.
OnItsDay(t) == t % Day = schedule.minute * Ticks /\ WeekdayOf(t) = schedule.weekday
Weeks == schedule.interval \div (DaysOfWeek * Day)
KeepsItsWeekday ==
    schedule.weekday # NoTime /\ last # NoTime /\ MinuteOf(last) >= schedule.minute =>
        /\ Due => \E t \in Slots(last, clock) : OnItsDay(t)
        /\ /\ failed = 0
           /\ Cardinality({t \in SlotsOver(last, clock) : OnItsDay(t)})
                >= Weeks + (IF WeekdayOf(last) < schedule.weekday THEN 1 ELSE 0)
           => Due

=============================================================================
