----------------------------- MODULE TimeProofs -----------------------------
(***************************************************************************)
(* What is decided by the clock: when a scheduled query is due, when a     *)
(* digest is mailed, how many explanations an hour allows. For days, hours *)
(* and minutes of any length.                                              *)
(***************************************************************************)
EXTENDS ScheduleTime, Digest, Explain, FiniteSetTheorems, TLAPS

-----------------------------------------------------------------------------
(* Numbers                                                                 *)

\* A number and its multiples.
LEMMA MultipleOrder ==
    ASSUME NEW d \in Nat \ {0}, NEW a \in Int, NEW b \in Int, a * d < b * d + d
    PROVE  a <= b
<1> SUFFICES ASSUME a >= b + 1 PROVE FALSE OBVIOUS
<1> DEFINE k == a - b - 1
           ad == a * d
           bd == b * d
<1>1. k \in Nat OBVIOUS
<1>2. k * d = ad - bd - d OBVIOUS
<1>3. ad \in Int /\ bd \in Int /\ ad < bd + d OBVIOUS
<1> HIDE DEF k, ad, bd
<1>4. k * d \in Nat BY <1>1
<1> QED BY <1>2, <1>3, <1>4

LEMMA MultipleGrows ==
    ASSUME NEW d \in Nat, NEW a \in Int, NEW b \in Int, a <= b
    PROVE  a * d <= b * d
<1> DEFINE k == b - a
           ad == a * d
           bd == b * d
<1>1. k \in Nat OBVIOUS
<1>2. k * d = bd - ad OBVIOUS
<1>3. ad \in Int /\ bd \in Int OBVIOUS
<1> HIDE DEF k, ad, bd
<1>4. k * d \in Nat BY <1>1
<1>5. ad <= bd BY <1>2, <1>3, <1>4
<1> QED BY <1>5 DEF ad, bd

LEMMA DivisionParts ==
    ASSUME NEW d \in Nat \ {0}, NEW t \in Nat
    PROVE  /\ t \div d \in Nat /\ t % d \in 0..(d - 1)
           /\ t = (t \div d) * d + (t % d)
<1>1. t \div d \in Nat /\ t % d \in 0..(d - 1) OBVIOUS
<1>2. t % d = t - (t \div d) * d OBVIOUS
<1>3. (t \div d) * d \in Int BY <1>1
<1> QED BY <1>1, <1>2, <1>3

\* There is one way to divide.
LEMMA DivisionUnique ==
    ASSUME NEW d \in Nat \ {0}, NEW q \in Int, NEW m \in 0..(d - 1), NEW t \in Nat, t = q * d + m
    PROVE  t \div d = q /\ t % d = m
<1> DEFINE p == t \div d
           n == t % d
<1>1. p \in Nat /\ n \in 0..(d - 1) /\ t = p * d + n BY DivisionParts
<1> HIDE DEF p, n
<1>2. p * d \in Int /\ q * d \in Int BY <1>1
<1>3. p * d < q * d + d /\ q * d < p * d + d BY <1>1, <1>2
<1>4. p <= q /\ q <= p BY <1>1, <1>3, MultipleOrder
<1>5. p = q BY <1>1, <1>4
<1>6. p * d = q * d BY <1>5
<1>7. n = m BY <1>1, <1>2, <1>6
<1> QED BY <1>5, <1>7 DEF p, n

\* So many long units, so many short ones, of which a long one has so many, and
\* a rest: the one way to write a number.
LEMMA UnitsUnique ==
    ASSUME NEW many \in Nat \ {0}, NEW short \in Nat \ {0}, NEW t \in Nat,
           NEW d \in Int, NEW m \in 0..(many - 1), NEW r \in 0..(short - 1),
           t = d * (many * short) + m * short + r
    PROVE  /\ t \div (many * short) = d
           /\ t % (many * short) = m * short + r
           /\ (t % (many * short)) \div short = m
           /\ t % short = r
<1> DEFINE long == many * short
           rest == m * short + r
<1>1. long \in Nat \ {0} OBVIOUS
<1>2. rest \in 0..(long - 1) /\ m * short \in Nat
    <2>1. m + 1 <= many /\ m \in Int /\ m + 1 \in Int OBVIOUS
    <2>2. (m + 1) * short <= many * short BY <2>1, MultipleGrows
    <2>3. (m + 1) * short = m * short + short BY <2>1
    <2> DEFINE ms == m * short
    <2>4. ms \in Nat /\ ms + short <= long BY <2>2, <2>3
    <2> HIDE DEF ms, long
    <2>5. ms + r \in 0..(long - 1) BY <1>1, <2>4
    <2> QED BY <2>4, <2>5 DEF ms
<1>3. d * long \in Int BY <1>1
<1>4. t = d * long + rest BY <1>2, <1>3
<1> HIDE DEF long
<1>5. t \div long = d /\ t % long = rest
    <2> HIDE DEF rest
    <2> QED BY <1>1, <1>2, <1>4, DivisionUnique
<1>6. rest \div short = m
    <2>1. rest \in Nat /\ m \in Int BY <1>2
    <2>2. rest = m * short + r OBVIOUS
    <2> HIDE DEF rest
    <2> QED BY <2>1, <2>2, DivisionUnique
<1>7. t % short = r
    <2> DEFINE q == d * many + m
    <2>1. q \in Int OBVIOUS
    <2>2. (d * many) * short = d * long BY DEF long
    <2>3. q * short = d * long + m * short BY <2>2
    <2>4. t = q * short + r BY <1>2, <1>3, <2>3, <1>4
    <2> HIDE DEF q, long, rest
    <2>5. t \div short = q /\ t % short = r
        BY ONLY <2>1, <2>4, t \in Nat, short \in Nat \ {0}, r \in 0..(short - 1), DivisionUnique
    <2> QED BY <2>5
<1> QED BY <1>5, <1>6, <1>7 DEF long

LEMMA UnitsParts ==
    ASSUME NEW many \in Nat \ {0}, NEW short \in Nat \ {0}, NEW t \in Nat
    PROVE  /\ t \div (many * short) \in Nat
           /\ (t % (many * short)) \div short \in 0..(many - 1)
           /\ t % short \in 0..(short - 1)
           /\ t = (t \div (many * short)) * (many * short)
                    + ((t % (many * short)) \div short) * short + (t % short)
<1> DEFINE long == many * short
           d == t \div long
           rest == t % long
           m == rest \div short
           r == rest % short
<1>1. long \in Nat \ {0} OBVIOUS
<1> HIDE DEF long
<1>2. d \in Nat /\ rest \in 0..(long - 1) /\ t = d * long + rest BY <1>1, DivisionParts
<1>3. rest \in Nat BY <1>1, <1>2
<1> HIDE DEF d, rest
<1>4. m \in Nat /\ r \in 0..(short - 1) /\ rest = m * short + r BY <1>3, DivisionParts
<1> HIDE DEF m, r
<1>5. m \in 0..(many - 1)
    <2> DEFINE ms == m * short
    <2>1. ms \in Nat BY <1>4
    <2>2. rest = ms + r BY <1>4
    <2> HIDE DEF ms
    <2>3. ms < long BY <1>1, <1>2, <1>4, <2>1, <2>2
    <2>4. (many - 1) * short = long - short BY DEF long
    <2>5. m * short < (many - 1) * short + short BY <1>1, <2>3, <2>4 DEF ms
    <2>6. m <= many - 1 BY <1>4, <2>5, MultipleOrder
    <2> QED BY <1>4, <2>6
<1>6. d * long \in Int /\ m * short \in Int BY <1>1, <1>2, <1>4
<1>7. t = d * long + m * short + r BY <1>2, <1>4, <1>6
<1>8. t % short = r BY <1>2, <1>4, <1>5, <1>7, UnitsUnique DEF long
<1> QED BY <1>2, <1>4, <1>5, <1>7, <1>8 DEF m, d, long, rest

-----------------------------------------------------------------------------
(* Scheduled queries                                                       *)

\* Nobody runs a query in the future.
TimeInv == TimeTypeOK /\ last <= clock

LEMMA TimeInvariance == TimeSpec => []TimeInv
<1>1. TimeInit => TimeInv
    BY TimeAssumption DEF TimeInit, TimeInv, TimeTypeOK, Moment, NoTime
<1>2. TimeInv /\ [TimeNext]_timeVars => TimeInv'
    <2> SUFFICES ASSUME TimeInv, [TimeNext]_timeVars PROVE TimeInv' OBVIOUS
    <2>0. Horizon \in Nat /\ GiveUp \in Nat BY TimeAssumption
    <2>1. CASE Tick
        BY <2>0, <2>1 DEF TimeInv, TimeTypeOK, Moment, NoTime, Tick
    <2>2. CASE Run
        BY <2>0, <2>2 DEF TimeInv, TimeTypeOK, Moment, NoTime, Run
    <2>3. CASE Forget
        BY <2>0, <2>3 DEF TimeInv, TimeTypeOK, Moment, NoTime, Forget
    <2>4. CASE UNCHANGED timeVars BY <2>4 DEF TimeInv, TimeTypeOK, timeVars
    <2> QED BY <2>1, <2>2, <2>3, <2>4 DEF TimeNext
<1> QED BY <1>1, <1>2, PTL DEF TimeSpec

\* The scheduled minute of a day.
SlotOf(day) == day * Day + schedule.minute * Ticks

\* The day of the first scheduled minute after the last run.
FirstDay == IF schedule.minute > MinuteOf(last) THEN DateOf(last) ELSE DateOf(last) + 1

\* What a query has that was run and is scheduled for a time of the day.
LEMMA TimedFacts ==
    ASSUME TimeInv, schedule.minute # NoTime, last # NoTime
    PROVE  /\ Minutes \in Nat \ {0} /\ Ticks \in Nat \ {0} /\ Day \in Nat \ {0}
           /\ clock \in Nat /\ last \in Nat /\ last <= clock
           /\ schedule.minute \in 0..(Minutes - 1)
           /\ schedule.weekday \in 0..(DaysOfWeek - 1) \cup {NoTime}
           /\ schedule.minute * Ticks \in 0..(Day - 1)
           /\ \E n \in Nat \ {0} : schedule.interval = n * Day
           /\ schedule.weekday # NoTime =>
                \E w \in Nat \ {0} : schedule.interval = (7 * w) * Day
           /\ DateOf(last) \in Nat /\ MinuteOf(last) \in 0..(Minutes - 1)
           /\ last % Ticks \in 0..(Ticks - 1)
           /\ last = DateOf(last) * Day + MinuteOf(last) * Ticks + (last % Ticks)
           /\ FirstDay \in Int
<1>1. Minutes \in Nat \ {0} /\ Ticks \in Nat \ {0} BY TimeAssumption
<1>2. Day \in Nat \ {0}
    <2>1. Minutes * Ticks \in Nat \ {0} BY <1>1
    <2> QED BY <2>1 DEF Day
<1>3. clock \in Nat /\ last \in Nat /\ last <= clock
    BY TimeAssumption DEF TimeInv, TimeTypeOK, Moment
<1>4. /\ schedule.interval \in Nat \ {0}
      /\ schedule.minute \in 0..(Minutes - 1)
      /\ schedule.weekday \in 0..(DaysOfWeek - 1) \cup {NoTime}
      /\ schedule.interval % Day = 0
      /\ schedule.weekday # NoTime => schedule.interval % (DaysOfWeek * Day) = 0
    BY TimeAssumption DEF TimeInv, TimeTypeOK
<1>5. schedule.minute * Ticks \in 0..(Day - 1)
    <2> DEFINE m == schedule.minute
               mt == m * Ticks
    <2>1. m \in Nat /\ m + 1 <= Minutes /\ m + 1 \in Int /\ Minutes \in Int BY <1>1, <1>4
    <2> HIDE DEF m
    <2>2. (m + 1) * Ticks <= Minutes * Ticks BY <1>1, <2>1, MultipleGrows
    <2>3. mt + Ticks <= Day /\ mt \in Nat BY <1>1, <2>1, <2>2 DEF Day
    <2> HIDE DEF mt
    <2>4. mt \in 0..(Day - 1) BY <1>1, <1>2, <2>3
    <2> QED BY <2>4 DEF m, mt
<1>6. \E n \in Nat \ {0} : schedule.interval = n * Day
    <2> DEFINE i == schedule.interval
               n == i \div Day
    <2>1. n \in Nat /\ i = n * Day + 0 BY <1>2, <1>4, DivisionParts
    <2>2. i \in Nat \ {0} BY <1>4
    <2> HIDE DEF i, n
    <2>3. i = n * Day BY <1>2, <2>1
    <2>4. n # 0 BY <1>2, <2>2, <2>3
    <2> QED BY <2>1, <2>3, <2>4 DEF i
<1>7. ASSUME schedule.weekday # NoTime
      PROVE  \E w \in Nat \ {0} : schedule.interval = (7 * w) * Day
    <2> DEFINE i == schedule.interval
               week == 7 * Day
               w == i \div week
    <2>1. week \in Nat \ {0} BY <1>2
    <2>2. i % week = 0 /\ i \in Nat \ {0} BY <1>4, <1>7 DEF DaysOfWeek
    <2> HIDE DEF i, week
    <2>3. w \in Nat /\ i = w * week + 0 BY <2>1, <2>2, DivisionParts
    <2> HIDE DEF w
    <2>4. i = w * week BY <2>1, <2>3
    <2>5. w # 0 BY <2>1, <2>2, <2>4
    <2>6. w * week = (7 * w) * Day BY <1>2, <2>3 DEF week
    <2> QED BY <2>3, <2>4, <2>5, <2>6 DEF i
<1>8. /\ DateOf(last) \in Nat /\ MinuteOf(last) \in 0..(Minutes - 1)
      /\ last % Ticks \in 0..(Ticks - 1)
      /\ last = DateOf(last) * Day + MinuteOf(last) * Ticks + (last % Ticks)
    BY <1>1, <1>3, UnitsParts DEF DateOf, MinuteOf, Day
<1>9. FirstDay \in Int BY <1>8 DEF FirstDay
<1> QED BY <1>1, <1>2, <1>3, <1>4, <1>5, <1>6, <1>7, <1>8, <1>9

\* The scheduled minutes follow each other; those from FirstDay on are after
\* the last run.
LEMMA SlotOrder ==
    ASSUME TimeInv, schedule.minute # NoTime, last # NoTime, NEW k \in Int, NEW j \in Int
    PROVE  /\ SlotOf(k) \in Int
           /\ k <= j => SlotOf(k) <= SlotOf(j)
           /\ SlotOf(k) < SlotOf(j) => k < j
           /\ SlotOf(k) + Ticks <= SlotOf(j) + (last % Ticks) => k < j
<1>1. Day \in Nat /\ schedule.minute * Ticks \in Int BY TimedFacts
<1>2. k * Day \in Int /\ j * Day \in Int BY <1>1
<1>3. SlotOf(k) \in Int /\ SlotOf(j) \in Int BY <1>1, <1>2 DEF SlotOf
<1>4. k <= j => SlotOf(k) <= SlotOf(j)
    <2>1. k <= j => k * Day <= j * Day BY <1>1, MultipleGrows
    <2> QED BY <1>1, <1>2, <2>1 DEF SlotOf
<1>5. j <= k => SlotOf(j) <= SlotOf(k)
    <2>1. j <= k => j * Day <= k * Day BY <1>1, MultipleGrows
    <2> QED BY <1>1, <1>2, <2>1 DEF SlotOf
<1>6. SlotOf(k) < SlotOf(j) => k < j BY <1>3, <1>5
<1>7. SlotOf(k) + Ticks <= SlotOf(j) + (last % Ticks) => SlotOf(k) < SlotOf(j)
    <2>1. Ticks \in Nat /\ last % Ticks \in 0..(Ticks - 1) BY TimedFacts
    <2> DEFINE r == last % Ticks
    <2>2. r \in Int /\ r < Ticks BY <2>1
    <2> HIDE DEF r
    <2>3. SlotOf(k) + Ticks <= SlotOf(j) + r => SlotOf(k) < SlotOf(j) BY <1>3, <2>1, <2>2
    <2> QED BY <2>3 DEF r
<1> QED BY <1>3, <1>4, <1>6, <1>7

LEMMA SlotsAfterRun ==
    ASSUME TimeInv, schedule.minute # NoTime, last # NoTime, NEW k \in Int
    PROVE  SlotOf(k) > last <=> k >= FirstDay
<1> DEFINE d == DateOf(last)
           m == MinuteOf(last)
           r == last % Ticks
           s == schedule.minute
           mt == m * Ticks
           st == s * Ticks
           dd == d * Day
<1>1. /\ Minutes \in Nat \ {0} /\ Ticks \in Nat \ {0} /\ Day \in Nat \ {0}
      /\ s \in 0..(Minutes - 1) /\ m \in 0..(Minutes - 1) /\ r \in 0..(Ticks - 1) /\ d \in Nat
      /\ last \in Nat /\ last = dd + mt + r /\ st \in 0..(Day - 1)
    BY TimedFacts
<1>2. FirstDay = IF s > m THEN d ELSE d + 1 BY DEF FirstDay
<1> HIDE DEF d, m, r, s
<1>3. mt \in Nat /\ st \in Nat /\ dd \in Nat BY <1>1
<1>4. SlotOf(d) = dd + st /\ SlotOf(d - 1) = dd - Day + st /\ SlotOf(d + 1) = dd + Day + st
    BY <1>1 DEF SlotOf, s
<1>5. s > m => mt + Ticks <= st
    <2>1. s > m => (m + 1) * Ticks <= s * Ticks BY <1>1, MultipleGrows
    <2>2. (m + 1) * Ticks = mt + Ticks BY <1>1
    <2> QED BY <2>1, <2>2
<1>6. ~(s > m) => st <= mt BY <1>1, MultipleGrows
<1>7. mt + Ticks <= Day
    <2>1. (m + 1) * Ticks <= Minutes * Ticks BY <1>1, MultipleGrows
    <2>2. (m + 1) * Ticks = mt + Ticks BY <1>1
    <2> QED BY <2>1, <2>2 DEF Day
<1> HIDE DEF mt, st, dd
<1>8. SlotOf(k) \in Int /\ d - 1 \in Int /\ d + 1 \in Int BY <1>1, SlotOrder
<1>9. /\ k <= d - 1 => SlotOf(k) <= SlotOf(d - 1)
      /\ k <= d => SlotOf(k) <= SlotOf(d)
      /\ k >= d => SlotOf(k) >= SlotOf(d)
      /\ k >= d + 1 => SlotOf(k) >= SlotOf(d + 1)
    <2>1. k <= d - 1 => SlotOf(k) <= SlotOf(d - 1) BY <1>1, <1>8, SlotOrder
    <2>2. k <= d => SlotOf(k) <= SlotOf(d) BY <1>1, SlotOrder
    <2>3. k >= d => SlotOf(k) >= SlotOf(d)
        <3>1. d <= k => SlotOf(d) <= SlotOf(k) BY <1>1, SlotOrder
        <3> QED BY <1>1, <1>3, <1>4, <1>8, <3>1
    <2>4. k >= d + 1 => SlotOf(k) >= SlotOf(d + 1)
        <3>1. d + 1 <= k => SlotOf(d + 1) <= SlotOf(k) BY <1>1, <1>8, SlotOrder
        <3> QED BY <1>1, <1>3, <1>4, <1>8, <3>1
    <2> QED BY <2>1, <2>2, <2>3, <2>4
<1>10. CASE s > m
    <2>1. FirstDay = d BY <1>2, <1>10
    <2>2. SlotOf(d) > last BY <1>1, <1>3, <1>4, <1>5, <1>10
    <2>3. SlotOf(d - 1) <= last BY <1>1, <1>3, <1>4
    <2>4. k >= d \/ k <= d - 1 BY <1>1
    <2>5. k >= d => SlotOf(k) > last BY <1>1, <1>3, <1>4, <1>8, <1>9, <2>2
    <2>6. k <= d - 1 => ~(SlotOf(k) > last) BY <1>1, <1>3, <1>4, <1>8, <1>9, <2>3
    <2> QED BY <1>1, <2>1, <2>4, <2>5, <2>6
<1>11. CASE ~(s > m)
    <2>1. FirstDay = d + 1 BY <1>2, <1>11
    <2>2. SlotOf(d) <= last BY <1>1, <1>3, <1>4, <1>6, <1>11
    <2>3. SlotOf(d + 1) > last BY <1>1, <1>3, <1>4, <1>7
    <2>4. k >= d + 1 \/ k <= d BY <1>1
    <2>5. k >= d + 1 => SlotOf(k) > last BY <1>1, <1>3, <1>4, <1>8, <1>9, <2>3
    <2>6. k <= d => ~(SlotOf(k) > last) BY <1>1, <1>3, <1>4, <1>8, <1>9, <2>2
    <2> QED BY <1>1, <2>1, <2>4, <2>5, <2>6
<1> QED BY <1>10, <1>11

\* The next run is due after the scheduled minute so many days after the one
\* the last run was for; the seconds of the last run are kept.
LEMMA NextSlotIs ==
    ASSUME TimeInv, schedule.minute # NoTime, last # NoTime,
           NEW n \in Nat \ {0}, schedule.interval = n * Day,
           NEW add \in Int, add = DaysToAdd(last, schedule.weekday), n + add >= 1
    PROVE  NextIteration(last) = SlotOf(FirstDay - 1 + n + add) + (last % Ticks)
<1> DEFINE d == DateOf(last)
           m == MinuteOf(last)
           r == last % Ticks
           s == schedule.minute
           mt == m * Ticks
           st == s * Ticks
           dd == d * Day
           e == FirstDay - 1
<1>1. /\ Minutes \in Nat \ {0} /\ Ticks \in Nat \ {0} /\ Day \in Nat \ {0}
      /\ s \in 0..(Minutes - 1) /\ m \in 0..(Minutes - 1) /\ r \in 0..(Ticks - 1) /\ d \in Nat
      /\ last \in Nat /\ last = dd + mt + r
    BY TimedFacts
<1>2. e = IF s > m THEN d - 1 ELSE d BY <1>1 DEF FirstDay
<1>3. Replace(last, s) = dd + st + r BY DEF Replace
<1> HIDE DEF d, m, r, s, e
<1>4. mt \in Nat /\ st \in Nat /\ dd \in Nat BY <1>1
<1>5. s > m => mt + Ticks <= st
    <2>1. s > m => (m + 1) * Ticks <= s * Ticks BY <1>1, MultipleGrows
    <2>2. (m + 1) * Ticks = mt + Ticks BY <1>1
    <2> QED BY <2>1, <2>2
<1>6. ~(s > m) => st <= mt BY <1>1, MultipleGrows
<1> DEFINE minute == IF s > m THEN s ELSE m
           days == e + n + add
           x == Previous(last, s) + schedule.interval + (add * Day)
<1>7. Previous(last, s) = e * Day + minute * Ticks + r
    <2>1. CASE s > m
        <3>1. Replace(last, s) > last
            <4> HIDE DEF mt, st, dd
            <4> QED BY <1>1, <1>3, <1>4, <1>5, <2>1
        <3>2. e * Day = dd - Day BY <1>1, <1>2, <2>1
        <3>3. Previous(last, s) = Replace(last, s) - Day BY <3>1 DEF Previous
        <3>4. minute * Ticks = st BY <2>1
        <3> HIDE DEF dd, st, minute
        <3> QED BY <1>1, <1>3, <1>4, <3>2, <3>3, <3>4
    <2>2. CASE ~(s > m)
        <3>1. ~(Replace(last, s) > last)
            <4> HIDE DEF mt, st, dd
            <4> QED BY <1>1, <1>3, <1>4, <1>6, <2>2
        <3>2. e * Day = dd BY <1>2, <2>2
        <3>3. Previous(last, s) = last BY <3>1 DEF Previous
        <3> QED BY <1>1, <2>2, <3>2, <3>3
    <2> QED BY <2>1, <2>2
<1>8. days \in Nat /\ e \in Int /\ minute \in 0..(Minutes - 1) BY <1>1, <1>2
<1> HIDE DEF minute
<1>9. x = days * Day + minute * Ticks + r
    <2> DEFINE ee == e * Day
               nn == n * Day
               aa == add * Day
               mm == minute * Ticks
    <2>1. days * Day = ee + nn + aa BY <1>1, <1>8
    <2>2. ee \in Int /\ nn \in Int /\ aa \in Int /\ mm \in Int BY <1>1, <1>8
    <2>3. x = ee + mm + r + nn + aa BY <1>7
    <2> HIDE DEF ee, nn, aa, mm, x, days
    <2>4. x = ee + nn + aa + mm + r BY <1>1, <2>2, <2>3
    <2> QED BY <2>1, <2>4 DEF mm
<1>10. x \in Nat
    <2>1. days * Day \in Nat /\ minute * Ticks \in Nat BY <1>1, <1>8
    <2> QED BY <1>1, <1>9, <2>1
<1>11. NextIteration(last) = Replace(x, s)
    BY DEF NextIteration, NextSlot, s
<1> HIDE DEF x, days
<1>12. DateOf(x) = days /\ x % Ticks = r
    <2>1. days \in Int BY <1>8
    <2>2. x = days * (Minutes * Ticks) + minute * Ticks + r BY <1>9 DEF Day
    <2>3. x \div (Minutes * Ticks) = days /\ x % Ticks = r
        BY ONLY <1>1, <1>8, <1>10, <2>1, <2>2, UnitsUnique
    <2> QED BY <2>3 DEF DateOf, Day
<1>13. Replace(x, s) = SlotOf(days) + r BY <1>12 DEF Replace, SlotOf, s
<1> QED BY <1>11, <1>13 DEF days, r, e

\* When the query is due, its next slot has begun, and it is due from that
\* slot's second on which it last ran, unless it failed.
LEMMA DueAfter ==
    ASSUME TimeInv, schedule.minute # NoTime, last # NoTime,
           NEW k \in Int, NextIteration(last) = SlotOf(k) + (last % Ticks)
    PROVE  /\ Due => SlotOf(k) < clock
           /\ failed = 0 /\ ~Due => clock <= SlotOf(k) + (last % Ticks)
<1>1. clock \in Int /\ SlotOf(k) \in Int /\ Ticks \in Nat /\ last % Ticks \in 0..(Ticks - 1)
    BY SlotOrder, TimedFacts
<1>2. GiveUp \in Nat \ {0} /\ failed \in 0..GiveUp
    BY TimeAssumption DEF TimeInv, TimeTypeOK
<1>3. Backoff \in Nat
    <2>1. 2 ^ failed \in Nat BY <1>2, PowersAssumption
    <2>2. (2 ^ failed) * Ticks \in Nat BY <1>1, <2>1
    <2> QED BY <2>2 DEF Backoff
<1>4. failed = 0 => Backoff = 0 BY DEF Backoff
<1>5. Due <=> failed < GiveUp /\ clock > SlotOf(k) + (last % Ticks) + Backoff BY DEF Due
<1> DEFINE r == last % Ticks
<1>6. r \in Nat BY <1>1
<1> HIDE DEF r
<1>7. Due <=> failed < GiveUp /\ clock > SlotOf(k) + r + Backoff BY <1>5 DEF r
<1>8. Due => SlotOf(k) < clock BY <1>1, <1>3, <1>6, <1>7
<1>9. failed = 0 /\ ~Due => clock <= SlotOf(k) + r BY <1>1, <1>2, <1>4, <1>6, <1>7
<1> QED BY <1>8, <1>9 DEF r

LEMMA SlotsDiffer ==
    ASSUME TimeInv, schedule.minute # NoTime, last # NoTime, NEW i \in Int, NEW j \in Int,
           SlotOf(i) = SlotOf(j)
    PROVE  i = j
<1> DEFINE st == schedule.minute * Ticks
<1>1. Day \in Nat \ {0} /\ st \in Int BY TimedFacts
<1>2. i * Day + st = j * Day + st BY DEF SlotOf
<1> HIDE DEF st
<1>3. i * Day \in Int /\ j * Day \in Int BY <1>1
<1>4. i * Day < j * Day + Day /\ j * Day < i * Day + Day BY <1>1, <1>2, <1>3
<1>5. i <= j /\ j <= i BY <1>1, <1>4, MultipleOrder
<1> QED BY <1>5

\* The scheduled minutes between the last run and now are those of the days
\* from FirstDay on.
LEMMA SlotsAre ==
    ASSUME TimeInv, schedule.minute # NoTime, last # NoTime
    PROVE  /\ \A k \in Int :
                k >= FirstDay /\ SlotOf(k) <= clock => SlotOf(k) \in Slots(last, clock)
           /\ \A t \in Slots(last, clock) :
                /\ t \in Nat /\ DateOf(t) \in Nat
                /\ t = SlotOf(DateOf(t)) /\ DateOf(t) >= FirstDay
           /\ IsFiniteSet(Slots(last, clock))
<1>1. /\ Day \in Nat \ {0} /\ clock \in Nat /\ last \in Nat
      /\ schedule.minute * Ticks \in 0..(Day - 1)
    BY TimedFacts
<1> DEFINE st == schedule.minute * Ticks
<1>2. \A k \in Int : SlotOf(k) = k * Day + st BY DEF SlotOf
<1>3. Slots(last, clock) = {t \in (last + 1)..clock : t % Day = st} BY DEF Slots
<1>4. st \in 0..(Day - 1) BY <1>1
<1> HIDE DEF st
<1>5. ASSUME NEW k \in Int, k >= FirstDay, SlotOf(k) <= clock
      PROVE  SlotOf(k) \in Slots(last, clock)
    <2>1. SlotOf(k) > last /\ SlotOf(k) \in Int BY <1>5, SlotsAfterRun, SlotOrder
    <2>2. SlotOf(k) \in Nat /\ SlotOf(k) \in (last + 1)..clock BY <1>1, <1>5, <2>1
    <2>3. SlotOf(k) % Day = st
        <3>1. SlotOf(k) = k * Day + st BY <1>2
        <3> DEFINE t == SlotOf(k)
        <3>2. t \in Nat /\ t = k * Day + st BY <2>2, <3>1
        <3> HIDE DEF t
        <3> DEFINE d == Day
        <3>4. d \in Nat \ {0} /\ st \in 0..(d - 1) /\ t = k * d + st BY <1>1, <1>4, <3>2
        <3> HIDE DEF d
        <3>3. t % d = st BY ONLY <3>2, <3>4, k \in Int, DivisionUnique
        <3> QED BY <3>3 DEF t, d
    <2> QED BY <1>3, <2>2, <2>3
<1>6. ASSUME NEW t \in Slots(last, clock)
      PROVE  t \in Nat /\ DateOf(t) \in Nat /\ t = SlotOf(DateOf(t)) /\ DateOf(t) >= FirstDay
    <2>1. t \in (last + 1)..clock /\ t % Day = st BY <1>3
    <2>2. t \in Nat /\ t > last BY <1>1, <2>1
    <2>3. DateOf(t) \in Nat /\ t = DateOf(t) * Day + st
        <3>1. t \div Day \in Nat /\ t = (t \div Day) * Day + (t % Day)
            BY <1>1, <2>2, DivisionParts
        <3> QED BY <2>1, <3>1 DEF DateOf
    <2>4. t = SlotOf(DateOf(t)) BY <1>2, <2>3
    <2>5. DateOf(t) >= FirstDay BY <2>2, <2>3, <2>4, SlotsAfterRun
    <2> QED BY <2>2, <2>3, <2>4, <2>5
<1>7. IsFiniteSet(Slots(last, clock))
    <2>1. IsFiniteSet((last + 1)..clock)
        <3>1. last + 1 \in Int /\ clock \in Int BY <1>1
        <3> QED BY <3>1, FS_Interval
    <2>2. Slots(last, clock) \in SUBSET ((last + 1)..clock) BY <1>3
    <2> QED BY <2>1, <2>2, FS_Subset
<1> QED BY <1>5, <1>6, <1>7

\* A set whose elements have different numbers in an interval is no larger.
LEMMA CountAtMost ==
    ASSUME NEW S, NEW a \in Int, NEW n \in Nat, NEW f \in [S -> a..(a + n - 1)],
           \A x, y \in S : f[x] = f[y] => x = y
    PROVE  IsFiniteSet(S) /\ Cardinality(S) \in Nat /\ Cardinality(S) <= n
<1>1. a + n - 1 \in Int OBVIOUS
<1>2. /\ IsFiniteSet(a..(a + n - 1))
      /\ Cardinality(a..(a + n - 1)) = IF a > a + n - 1 THEN 0 ELSE (a + n - 1) - a + 1
    BY <1>1, FS_Interval
<1>3. Cardinality(a..(a + n - 1)) = n BY <1>2
<1>4. f \in Injection(S, a..(a + n - 1)) BY DEF Injection, IsInjective
<1>5. IsFiniteSet(S) /\ Cardinality(S) <= Cardinality(a..(a + n - 1))
    BY <1>2, <1>4, FS_Injection
<1> QED BY <1>3, <1>5, FS_CardinalityType

\* A finite set in which the numbers of an interval have different elements is
\* no smaller.
LEMMA CountAtLeast ==
    ASSUME NEW S, IsFiniteSet(S), NEW a \in Int, NEW n \in Nat, NEW f \in [a..(a + n - 1) -> S],
           \A i, j \in a..(a + n - 1) : f[i] = f[j] => i = j
    PROVE  Cardinality(S) \in Nat /\ n <= Cardinality(S)
<1>1. a + n - 1 \in Int OBVIOUS
<1>2. /\ IsFiniteSet(a..(a + n - 1))
      /\ Cardinality(a..(a + n - 1)) = IF a > a + n - 1 THEN 0 ELSE (a + n - 1) - a + 1
    BY <1>1, FS_Interval
<1>3. Cardinality(a..(a + n - 1)) = n BY <1>2
<1>4. f \in Injection(a..(a + n - 1), S) BY DEF Injection, IsInjective
<1>5. Cardinality(a..(a + n - 1)) <= Cardinality(S) BY <1>4, FS_Injection
<1> QED BY <1>3, <1>5, FS_CardinalityType

LEMMA RunsAfterSlots == TimeInv => RunsAfterItsSlots
<1> SUFFICES ASSUME TimeInv, schedule.minute # NoTime, schedule.weekday = NoTime,
                    last # NoTime
             PROVE  /\ Due => Cardinality(Slots(last, clock)) >= Asked
                    /\ failed = 0 /\ Cardinality(SlotsOver(last, clock)) >= Asked => Due
    BY DEF RunsAfterItsSlots
<1>1. PICK n \in Nat \ {0} : schedule.interval = n * Day BY TimedFacts
<1>2. Day \in Nat \ {0} /\ FirstDay \in Int /\ clock \in Int /\ Ticks \in Nat \ {0}
    BY TimedFacts
<1>3. Asked = n
    <2>1. n * Day \in Nat /\ n * Day = n * Day + 0 /\ 0 \in 0..(Day - 1) BY <1>2
    <2>2. (n * Day) \div Day = n BY <1>2, <2>1, DivisionUnique
    <2> QED BY <1>1, <2>2 DEF Asked
<1> DEFINE first == FirstDay
           k == first - 1 + n
<1>4. NextIteration(last) = SlotOf(k) + (last % Ticks)
    <2>1. DaysToAdd(last, schedule.weekday) = 0 BY DEF DaysToAdd
    <2>2. NextIteration(last) = SlotOf(FirstDay - 1 + n + 0) + (last % Ticks)
        BY <1>1, <2>1, NextSlotIs
    <2>3. FirstDay - 1 + n + 0 = k BY <1>2
    <2> QED BY <2>2, <2>3
<1>5. first \in Int /\ k \in Int /\ k = first + n - 1 BY <1>2
<1> HIDE DEF first, k
<1>6. ASSUME Due PROVE Cardinality(Slots(last, clock)) >= n
    <2>1. SlotOf(k) < clock BY <1>4, <1>5, <1>6, DueAfter
    <2>2. ASSUME NEW i \in first..(first + n - 1) PROVE SlotOf(i) \in Slots(last, clock)
        <3>1. i \in Int /\ i >= FirstDay /\ i <= k BY <1>5 DEF first
        <3>2. SlotOf(i) <= SlotOf(k) /\ SlotOf(i) \in Int /\ SlotOf(k) \in Int
            BY <1>5, <3>1, SlotOrder
        <3>3. SlotOf(i) <= clock BY <1>2, <2>1, <3>2
        <3> QED BY <3>1, <3>3, SlotsAre
    <2>3. ASSUME NEW i \in first..(first + n - 1), NEW j \in first..(first + n - 1),
                 SlotOf(i) = SlotOf(j)
          PROVE  i = j
        <3>1. i \in Int /\ j \in Int BY <1>5
        <3> QED BY <2>3, <3>1, SlotsDiffer
    <2> DEFINE f == [i \in first..(first + n - 1) |-> SlotOf(i)]
    <2>4. f \in [first..(first + n - 1) -> Slots(last, clock)] BY <2>2
    <2>5. \A i, j \in first..(first + n - 1) : f[i] = f[j] => i = j BY <2>3
    <2> HIDE DEF f
    <2>6. IsFiniteSet(Slots(last, clock)) BY SlotsAre
    <2>7. n \in Nat OBVIOUS
    <2>8. Cardinality(Slots(last, clock)) \in Nat /\ n <= Cardinality(Slots(last, clock))
        BY <1>5, <2>4, <2>5, <2>6, <2>7, CountAtLeast
    <2> QED BY <2>7, <2>8
<1>7. ASSUME failed = 0, ~Due PROVE ~(Cardinality(SlotsOver(last, clock)) >= n)
    <2>1. clock <= SlotOf(k) + (last % Ticks) BY <1>4, <1>5, <1>7, DueAfter
    <2> DEFINE S == SlotsOver(last, clock)
               f == [t \in S |-> DateOf(t)]
    <2>2. \A t \in S : t \in Slots(last, clock) /\ t + Ticks <= clock BY DEF SlotsOver
    <2>3. ASSUME NEW t \in S PROVE DateOf(t) \in first..(first + (n - 1) - 1)
        <3>1. t \in Nat /\ DateOf(t) \in Nat /\ t = SlotOf(DateOf(t)) /\ DateOf(t) >= first
            BY <2>2, SlotsAre DEF first
        <3>2. SlotOf(DateOf(t)) + Ticks <= SlotOf(k) + (last % Ticks)
            <4>1. last % Ticks \in Int /\ SlotOf(k) \in Int BY <1>5, SlotOrder, TimedFacts
            <4> QED BY <1>2, <2>1, <2>2, <3>1, <4>1
        <3>3. DateOf(t) < k
            <4>1. DateOf(t) \in Int BY <3>1
            <4> QED BY <1>5, <3>2, <4>1, SlotOrder
        <3> QED BY <1>5, <3>1, <3>3
    <2>4. \A t, u \in S : DateOf(t) = DateOf(u) => t = u BY <2>2, SlotsAre
    <2> HIDE DEF S
    <2>5. f \in [S -> first..(first + (n - 1) - 1)] BY <2>3
    <2>6. \A t, u \in S : f[t] = f[u] => t = u BY <2>4
    <2>7. n - 1 \in Nat OBVIOUS
    <2> HIDE DEF f
    <2>8. Cardinality(S) \in Nat /\ Cardinality(S) <= n - 1
        BY <1>5, <2>5, <2>6, <2>7, CountAtMost
    <2>9. ~(Cardinality(S) >= n) BY <2>8
    <2> QED BY <2>9 DEF S
<1> QED BY <1>3, <1>6, <1>7

LEMMA WeekdayKept == TimeInv => KeepsItsWeekday
<1> DEFINE d == DateOf(last)
           p == d % 7
           q == d \div 7
           wd == schedule.weekday
<1> SUFFICES ASSUME TimeInv, wd # NoTime, last # NoTime, MinuteOf(last) >= schedule.minute
             PROVE  /\ Due => \E t \in Slots(last, clock) : OnItsDay(t)
                    /\ /\ failed = 0
                       /\ Cardinality({t \in SlotsOver(last, clock) : OnItsDay(t)})
                            >= Weeks + (IF WeekdayOf(last) < wd THEN 1 ELSE 0)
                       => Due
    BY DEF KeepsItsWeekday
<1>1. schedule.minute # NoTime BY TimeAssumption DEF TimeInv, TimeTypeOK
<1>2. /\ Day \in Nat \ {0} /\ clock \in Int /\ Ticks \in Nat \ {0} /\ d \in Nat
      /\ schedule.minute \in Int /\ MinuteOf(last) \in Int
    BY <1>1, TimedFacts
<1>3. wd \in 0..6 BY <1>1, TimedFacts DEF DaysOfWeek
<1>4. PICK w \in Nat \ {0} : schedule.interval = (7 * w) * Day BY <1>1, TimedFacts
<1>5. FirstDay = d + 1 BY <1>2 DEF FirstDay
<1>6. WeekdayOf(last) = p BY DEF WeekdayOf, DaysOfWeek
<1> HIDE DEF d
<1>7. p \in 0..6 /\ q \in Nat /\ d = 7 * q + p
    <2>1. q \in Nat /\ p \in 0..(7 - 1) /\ d = q * 7 + p BY <1>2, DivisionParts
    <2> HIDE DEF p, q
    <2> QED BY <2>1
<1> HIDE DEF p, q, wd
<1> DEFINE k == 7 * (q + w) + wd
<1>8. NextIteration(last) = SlotOf(k) + (last % Ticks)
    <2> DEFINE n == 7 * w
               add == wd - p
    <2>1. DaysToAdd(last, schedule.weekday) = add BY <1>6 DEF DaysToAdd, wd
    <2>2. n \in Nat \ {0} /\ add \in Int /\ n + add >= 1 BY <1>3, <1>7
    <2>3. schedule.interval = n * Day BY <1>4
    <2>4. FirstDay - 1 + n + add = k BY <1>3, <1>5, <1>7
    <2> HIDE DEF n, add, k
    <2>5. NextIteration(last) = SlotOf(FirstDay - 1 + n + add) + (last % Ticks)
        BY <1>1, <2>1, <2>2, <2>3, NextSlotIs
    <2> QED BY <2>4, <2>5
<1>9. k \in Int /\ k >= FirstDay /\ k % 7 = wd /\ k \div 7 = q + w
    <2>1. k \in Nat /\ q + w \in Int /\ k = (q + w) * 7 + wd BY <1>3, <1>7
    <2>2. wd \in 0..(7 - 1) BY <1>3
    <2>3. k >= FirstDay BY <1>3, <1>5, <1>7
    <2> HIDE DEF k
    <2>4. k \div 7 = q + w /\ k % 7 = wd BY ONLY <2>1, <2>2, DivisionUnique
    <2> QED BY <2>1, <2>3, <2>4
<1>10. ASSUME Due PROVE \E t \in Slots(last, clock) : OnItsDay(t)
    <2> HIDE DEF k
    <2>1. SlotOf(k) < clock /\ SlotOf(k) \in Int BY <1>1, <1>8, <1>9, <1>10, DueAfter, SlotOrder
    <2>2. SlotOf(k) <= clock BY <1>2, <2>1
    <2> DEFINE t == SlotOf(k)
    <2>3. t \in Slots(last, clock) BY <1>1, <1>9, <2>2, SlotsAre
    <2>4. DateOf(t) = k
        <3>1. DateOf(t) \in Int /\ t = SlotOf(DateOf(t)) BY <1>1, <2>3, SlotsAre
        <3> QED BY <1>1, <1>9, <3>1, SlotsDiffer
    <2>5. WeekdayOf(t) = wd BY <1>9, <2>4 DEF WeekdayOf, DaysOfWeek
    <2>6. t % Day = schedule.minute * Ticks BY <2>3 DEF Slots
    <2> QED BY <2>3, <2>5, <2>6 DEF OnItsDay, wd
<1> DEFINE S == {t \in SlotsOver(last, clock) : OnItsDay(t)}
           more == IF p < wd THEN 1 ELSE 0
<1>11. Weeks = w
    <2> DEFINE week == 7 * Day
    <2>1. week \in Nat \ {0} BY <1>2
    <2>2. schedule.interval = w * week + 0
        <3>1. (7 * w) * Day = w * week BY <1>2
        <3>2. w * week \in Int BY <2>1
        <3> QED BY <1>4, <3>1, <3>2
    <2>3. schedule.interval \in Nat
        <3>1. w * week \in Nat BY <2>1
        <3> QED BY <2>2, <3>1
    <2>4. Weeks = schedule.interval \div week BY DEF Weeks, DaysOfWeek
    <2>5. 0 \in 0..(week - 1) /\ w \in Int BY <2>1
    <2> DEFINE i == schedule.interval
    <2>6. i \in Nat /\ i = w * week + 0 BY <2>2, <2>3
    <2> HIDE DEF week, i
    <2>7. i \div week = w BY ONLY <2>1, <2>5, <2>6, DivisionUnique
    <2> QED BY <2>4, <2>7 DEF i
<1>12. ASSUME failed = 0, ~Due PROVE ~(Cardinality(S) >= w + more)
    <2> DEFINE n == IF p < wd THEN w ELSE w - 1
               a == IF p < wd THEN q ELSE q + 1
               f == [t \in S |-> DateOf(t) \div 7]
    <2>1. n \in Nat /\ a \in Int /\ a + n - 1 = q + w - 1 /\ w + more = n + 1
        BY <1>3, <1>7
    <2> HIDE DEF more, n, a
    <2>2. clock <= SlotOf(k) + (last % Ticks) BY <1>1, <1>8, <1>9, <1>12, DueAfter
    <2>3. \A t \in S : /\ t \in Slots(last, clock) /\ t + Ticks <= clock
                       /\ WeekdayOf(t) = wd
        BY DEF SlotsOver, OnItsDay, wd
    <2> HIDE DEF S
    <2>4. ASSUME NEW t \in S
          PROVE  /\ DateOf(t) \in Nat /\ DateOf(t) = 7 * (DateOf(t) \div 7) + wd
                 /\ t = SlotOf(DateOf(t))
                 /\ DateOf(t) \div 7 \in a..(a + n - 1)
        <3> DEFINE e == DateOf(t)
                   j == e \div 7
        <3>1. t \in Nat /\ e \in Nat /\ t = SlotOf(e) /\ e >= FirstDay BY <1>1, <2>3, SlotsAre
        <3>2. e % 7 = wd BY <2>3 DEF WeekdayOf, DaysOfWeek
        <3>3. SlotOf(e) + Ticks <= SlotOf(k) + (last % Ticks)
            <4>1. last % Ticks \in Int /\ SlotOf(k) \in Int
                BY <1>1, <1>9, SlotOrder, TimedFacts
            <4>2. t + Ticks <= clock BY <2>3
            <4> HIDE DEF e, k
            <4> QED BY <1>2, <2>2, <3>1, <4>1, <4>2
        <3>4. e < k
            <4>1. e \in Int BY <3>1
            <4> HIDE DEF e, k
            <4> QED BY <1>1, <1>9, <3>3, <4>1, SlotOrder
        <3> HIDE DEF e
        <3>5. j \in Nat /\ e = 7 * j + wd
            <4>1. j \in Nat /\ e = j * 7 + (e % 7) BY <3>1, DivisionParts
            <4> HIDE DEF j
            <4> QED BY <1>3, <3>1, <3>2, <4>1
        <3> HIDE DEF j
        <3>6. j <= q + w - 1 BY <1>3, <1>7, <3>4, <3>5
        <3>7. j >= a
            <4>1. CASE p < wd BY <1>3, <1>5, <1>7, <3>1, <3>5, <4>1 DEF a
            <4>2. CASE ~(p < wd) BY <1>3, <1>5, <1>7, <3>1, <3>5, <4>2 DEF a
            <4> QED BY <4>1, <4>2
        <3>8. j \in a..(a + n - 1) BY <2>1, <3>5, <3>6, <3>7
        <3> QED BY <3>1, <3>5, <3>8 DEF e, j
    <2>5. f \in [S -> a..(a + n - 1)] BY <2>4
    <2>6. \A t, u \in S : f[t] = f[u] => t = u
        <3> SUFFICES ASSUME NEW t \in S, NEW u \in S, DateOf(t) \div 7 = DateOf(u) \div 7
                     PROVE  t = u
            OBVIOUS
        <3>1. DateOf(t) = DateOf(u) BY <2>4
        <3> QED BY <2>4, <3>1
    <2> HIDE DEF f
    <2>7. Cardinality(S) \in Nat /\ Cardinality(S) <= n BY <2>1, <2>5, <2>6, CountAtMost
    <2> QED BY <2>1, <2>7
<1> HIDE DEF more
<1>13. Weeks + (IF WeekdayOf(last) < wd THEN 1 ELSE 0) = w + more BY <1>6, <1>11 DEF more
<1> QED BY <1>10, <1>12, <1>13

\* A query scheduled for a minute of every n-th day is due after n scheduled
\* minutes since its last run, not before the n-th begins, and if it did not
\* fail, always once the n-th is over: models/__init__.py should_schedule_next,
\* for every length of the day and the minute, every schedule, and however late
\* or early in its day the query was run.
THEOREM QueriesRunAfterTheirSlots == TimeSpec => []RunsAfterItsSlots
BY RunsAfterSlots, TimeInvariance, PTL

\* A weekly query that ran after the slot of its day is next due after a slot
\* on its own weekday, of the week asked for or the next.
THEOREM QueriesKeepTheirWeekday == TimeSpec => []KeepsItsWeekday
BY WeekdayKept, TimeInvariance, PTL

-----------------------------------------------------------------------------
(* Digests                                                                 *)

\* A moment is a day, an hour of it and a minute of that.
LEMMA ClockParts ==
    ASSUME NEW t \in Nat
    PROVE  /\ DayOf(t) \in Nat /\ HourOf(t) \in Nat
           /\ MinuteOfHour(t) \in 0..(HourTicks - 1)
           /\ t = DayOf(t) * DayTicks + HourOf(t) * HourTicks + MinuteOfHour(t)
<1>1. Hours \in Nat \ {0} /\ HourTicks \in Nat \ {0} BY DigestAssumption
<1>2. HourOf(t) \in 0..(Hours - 1)
    BY <1>1, UnitsParts DEF HourOf, DayTicks
<1>3. /\ DayOf(t) \in Nat /\ MinuteOfHour(t) \in 0..(HourTicks - 1)
      /\ t = DayOf(t) * DayTicks + HourOf(t) * HourTicks + MinuteOfHour(t)
    BY <1>1, UnitsParts DEF DayOf, HourOf, MinuteOfHour, DayTicks
<1>4. HourOf(t) \in Nat BY <1>1, <1>2
<1> QED BY <1>3, <1>4

\* Two moments of the same hour, so many days less an hour apart, are of days
\* that far apart, if a day has more than one hour.
LEMMA DaysBetween ==
    ASSUME Hours > 1, NEW t \in Nat, NEW u \in Nat, NEW days \in Nat, HourOf(t) = HourOf(u),
           t <= u - (days * DayTicks - HourTicks)
    PROVE  DayOf(u) >= DayOf(t) + days
<1>1. DayTicks \in Nat \ {0} /\ HourTicks \in Nat \ {0} /\ HourTicks + HourTicks <= DayTicks
    <2>1. Hours - 2 \in Nat /\ Hours \in Nat /\ HourTicks \in Nat \ {0} BY DigestAssumption
    <2> DEFINE more == Hours - 2
    <2>2. Hours = more + 2 BY <2>1
    <2> HIDE DEF more
    <2>3. more \in Nat BY <2>1 DEF more
    <2>4. (more + 2) * HourTicks = more * HourTicks + HourTicks + HourTicks BY <2>1, <2>3
    <2>5. more * HourTicks \in Nat BY <2>1, <2>3
    <2>6. DayTicks = more * HourTicks + HourTicks + HourTicks BY <2>2, <2>4 DEF DayTicks
    <2> QED BY <2>1, <2>5, <2>6
<1> DEFINE dt == DayOf(t)
           du == DayOf(u)
<1>2. /\ dt \in Nat /\ du \in Nat
      /\ MinuteOfHour(t) \in 0..(HourTicks - 1) /\ MinuteOfHour(u) \in 0..(HourTicks - 1)
      /\ HourOf(t) \in Nat
      /\ t = dt * DayTicks + HourOf(t) * HourTicks + MinuteOfHour(t)
      /\ u = du * DayTicks + HourOf(t) * HourTicks + MinuteOfHour(u)
    BY ClockParts
<1> HIDE DEF dt, du
<1> DEFINE a == (dt + days) * DayTicks
           b == du * DayTicks
           c == dt * DayTicks
           e == days * DayTicks
           h == HourOf(t) * HourTicks
<1>3. a = c + e BY <1>1, <1>2
<1>4. a \in Int /\ b \in Int /\ c \in Int /\ e \in Int /\ h \in Int BY <1>1, <1>2
<1>5. /\ t = c + h + MinuteOfHour(t) /\ u = b + h + MinuteOfHour(u)
      /\ t <= u - (e - HourTicks)
    BY <1>2
<1> HIDE DEF a, b, c, e, h
<1>6. a < b + DayTicks BY <1>1, <1>2, <1>3, <1>4, <1>5
<1>7. dt + days <= du BY <1>1, <1>2, <1>6, MultipleOrder DEF a, b
<1> QED BY <1>2, <1>7 DEF dt, du

\* Something between a moment and the end of a job's time, and a moment of the
\* same hour, days later, and not too early in that hour.
LEMMA AgeBetween ==
    ASSUME NEW t \in Nat, NEW u \in Nat, NEW days \in Nat, HourOf(t) = HourOf(u),
           DayOf(u) >= DayOf(t) + days,
           MinuteOfHour(t) - MinuteOfHour(u) <= HourTicks - Patience
    PROVE  t + Patience <= u - (days * DayTicks - HourTicks)
<1>1. DayTicks \in Nat /\ HourTicks \in Nat /\ Patience \in Int
    <2>1. Hours \in Nat /\ HourTicks \in Nat /\ Patience \in Int BY DigestAssumption
    <2>2. Hours * HourTicks \in Nat BY <2>1
    <2> QED BY <2>1, <2>2 DEF DayTicks
<1> DEFINE dt == DayOf(t)
           du == DayOf(u)
<1>2. /\ dt \in Nat /\ du \in Nat
      /\ MinuteOfHour(t) \in Int /\ MinuteOfHour(u) \in Int
      /\ HourOf(t) \in Nat
      /\ t = dt * DayTicks + HourOf(t) * HourTicks + MinuteOfHour(t)
      /\ u = du * DayTicks + HourOf(t) * HourTicks + MinuteOfHour(u)
    BY <1>1, ClockParts
<1>3. du >= dt + days OBVIOUS
<1> HIDE DEF dt, du
<1> DEFINE k == du - dt - days
<1>4. k \in Nat BY <1>2, <1>3
<1>5. du = dt + days + k BY <1>2
<1> HIDE DEF k
<1> DEFINE b == du * DayTicks
           c == dt * DayTicks
           e == days * DayTicks
           h == HourOf(t) * HourTicks
           more == k * DayTicks
<1>6. b = c + e + more BY <1>1, <1>2, <1>4, <1>5
<1>7. b \in Int /\ c \in Int /\ e \in Int /\ h \in Int /\ more \in Nat BY <1>1, <1>2, <1>4
<1>8. /\ t = c + h + MinuteOfHour(t) /\ u = b + h + MinuteOfHour(u)
      /\ MinuteOfHour(t) - MinuteOfHour(u) <= HourTicks - Patience
    BY <1>2
<1> HIDE DEF b, c, h, more
<1>9. c + h + MinuteOfHour(t) + Patience <= b + h + MinuteOfHour(u) - e + HourTicks
    <2> HIDE DEF e
    <2> QED BY <1>1, <1>2, <1>6, <1>7, <1>8
<1>10. days * DayTicks \in Int BY <1>1
<1> QED BY <1>1, <1>2, <1>7, <1>8, <1>9, <1>10 DEF e

\* The time of a run has not run out, a mail that it has not committed yet is
\* known, and before its SELECT it has selected nothing.
RunOK(j) ==
    /\ Running(j) => dispatch[j].start <= now /\ now - dispatch[j].start <= Patience
    /\ dispatch[j].pc = "commit" => dispatch[j].start <= mailed[dispatch[j].sub]
    /\ dispatch[j].pc \in {"idle", "queued", "select"} => dispatch[j].todo = {}
JobOK == (\A j \in Dispatch : RunOK(j)) /\ \A s \in Subscription : mailed[s] <= now

\* What is committed of a mail: nothing is if there was none, and what is lies
\* within the time of a run.
SentOK ==
    \A s \in Subscription :
        digest[s].sentAt # Never => mailed[s] # Never /\ digest[s].sentAt <= mailed[s] + Patience

\* A subscription to which nothing irregular came has its last mail committed,
\* unless a commit is under way, and was mailed in the hour it has.
Committing(s) == \E j \in Dispatch : dispatch[j].pc = "commit" /\ dispatch[j].sub = s
SteadyOK ==
    \A s \in steady : mailed[s] # Never =>
        /\ HourOf(mailed[s]) = digest[s].hour
        /\ Committing(s) \/ (digest[s].sentAt # Never /\ mailed[s] <= digest[s].sentAt)

\* What a run selected it still may mail, but for what raced it.
SelectedOK ==
    \A j \in Dispatch : \A s \in dispatch[j].todo \cap steady :
        /\ digest[s].hour = HourOf(dispatch[j].start)
        /\ s \notin raced[j] /\ mailed[s] # Never => mailed[s] <= dispatch[j].start - MinAge(s)

DigestInv == DigestTypeOK /\ JobOK /\ SentOK /\ SteadyOK /\ SelectedOK

\* A run that has not begun, or is over or dead, has selected nothing.
LEMMA NoDispatchFacts ==
    NoDispatch \in DispatchRecord /\ NoDispatch.pc = "idle" /\ NoDispatch.todo = {}
<1>1. 0 \in 0..LastTick BY DigestAssumption
<1>2. (CHOOSE s \in Subscription : TRUE) \in Subscription BY DigestAssumption
<1> QED BY <1>1, <1>2 DEF NoDispatch, DispatchRecord

LEMMA DigestInitInv == DigestInit => DigestInv
<1> SUFFICES ASSUME DigestInit PROVE DigestInv OBVIOUS
<1>1. \A j \in Dispatch : dispatch[j] = NoDispatch BY DEF DigestInit
<1>2. \A s \in Subscription : digest[s] \in DigestRecord /\ digest[s].sentAt = Never
    <2>1. 0 \in 0..(Hours - 1) BY DigestAssumption
    <2>2. digest \in [Subscription -> [frequency : {"daily", "weekly"}, active : {TRUE},
                                       hour : {0}, sentAt : {Never}]]
        BY DEF DigestInit
    <2> QED BY <2>1, <2>2 DEF DigestRecord
<1>3. DigestTypeOK
    <2>1. digest \in [Subscription -> DigestRecord] BY <1>2 DEF DigestInit
    <2>2. dispatch \in [Dispatch -> DispatchRecord] BY NoDispatchFacts DEF DigestInit
    <2>3. 0 \in 0..LastTick BY DigestAssumption
    <2> QED BY <2>1, <2>2, <2>3 DEF DigestInit, DigestTypeOK
<1>4. now = 0 /\ \A s \in Subscription : mailed[s] = Never BY DEF DigestInit
<1>5. JobOK BY <1>1, <1>4, NoDispatchFacts DEF JobOK, RunOK, Running, Never
<1>6. SentOK /\ SteadyOK
    <2>1. steady \subseteq Subscription BY DEF DigestInit
    <2> QED BY <1>2, <1>4, <2>1 DEF SentOK, SteadyOK
<1>7. SelectedOK BY <1>1, NoDispatchFacts DEF SelectedOK
<1> QED BY <1>3, <1>5, <1>6, <1>7 DEF DigestInv

\* What the types say of the pieces.
LEMMA DigestPieces ==
    ASSUME DigestInv
    PROVE  /\ now \in 0..LastTick /\ now \in Nat /\ LastTick \in Nat /\ Patience \in Nat
           /\ Patience < HourTicks /\ HourTicks \in Nat
           /\ steady \in SUBSET Subscription
           /\ dispatch \in [Dispatch -> DispatchRecord] /\ raced \in [Dispatch -> SUBSET Subscription]
           /\ \A j \in Dispatch :
                /\ dispatch[j] \in DispatchRecord /\ dispatch[j].start \in Nat
                /\ dispatch[j].start \in 0..LastTick
                /\ dispatch[j].todo \in SUBSET Subscription /\ dispatch[j].sub \in Subscription
           /\ \A s \in Subscription :
                /\ digest[s] \in DigestRecord
                /\ mailed[s] \in 0..LastTick \cup {Never} /\ mailed[s] \in Int
                /\ mailed[s] # Never => mailed[s] \in Nat
                /\ digest[s].sentAt \in Int
                /\ digest[s].sentAt # Never => digest[s].sentAt \in Nat
                /\ digest[s].hour \in 0..(Hours - 1)
<1>1. DigestTypeOK BY DEF DigestInv
<1>2. \A x \in 0..LastTick \cup {Never} : x \in Int /\ (x # Never => x \in Nat)
    BY DigestAssumption DEF Never
<1>3. \A x \in 0..LastTick : x \in Nat BY DigestAssumption
<1>4. \A s \in Subscription :
        /\ digest[s] \in DigestRecord /\ mailed[s] \in 0..LastTick \cup {Never}
        /\ digest[s].sentAt \in 0..LastTick \cup {Never} /\ digest[s].hour \in 0..(Hours - 1)
    BY <1>1 DEF DigestTypeOK, DigestRecord
<1>5. /\ LastTick \in Nat /\ Patience \in Nat /\ Patience < HourTicks /\ HourTicks \in Nat
    BY DigestAssumption
<1>6. /\ now \in 0..LastTick /\ steady \in SUBSET Subscription
      /\ dispatch \in [Dispatch -> DispatchRecord] /\ raced \in [Dispatch -> SUBSET Subscription]
    BY <1>1 DEF DigestTypeOK
<1>7. \A j \in Dispatch :
        /\ dispatch[j] \in DispatchRecord /\ dispatch[j].start \in 0..LastTick
        /\ dispatch[j].todo \in SUBSET Subscription /\ dispatch[j].sub \in Subscription
    BY <1>6 DEF DispatchRecord
<1> QED BY <1>2, <1>3, <1>4, <1>5, <1>6, <1>7

\* The age a subscription must have depends on how often it is mailed only.
LEMMA MinAgeFacts ==
    ASSUME DigestInv, NEW s \in Subscription
    PROVE  /\ PeriodOf(s) \in Nat
           /\ MinAge(s) \in Int
           /\ digest'[s].frequency = digest[s].frequency => MinAge(s)' = MinAge(s)
<1>1. PeriodOf(s) \in Nat BY DigestAssumption DEF PeriodOf
<1>2. DayTicks \in Nat /\ HourTicks \in Nat
    <2>1. Hours \in Nat /\ HourTicks \in Nat BY DigestAssumption
    <2>2. Hours * HourTicks \in Nat BY <2>1
    <2> QED BY <2>1, <2>2 DEF DayTicks
<1>3. PeriodOf(s) * DayTicks \in Int BY <1>1, <1>2
<1>4. MinAge(s) \in Int BY <1>2, <1>3 DEF MinAge
<1>5. digest'[s].frequency = digest[s].frequency => PeriodOf(s)' = PeriodOf(s) BY DEF PeriodOf
<1> QED BY <1>1, <1>4, <1>5 DEF MinAge

\* A step of one run, as a change of its record.
LEMMA OneRun ==
    ASSUME DigestInv, NEW j \in Dispatch, NEW d \in DispatchRecord,
           dispatch' = [dispatch EXCEPT ![j] = d]
    PROVE  /\ dispatch' \in [Dispatch -> DispatchRecord] /\ dispatch'[j] = d
           /\ \A k \in Dispatch \ {j} : dispatch'[k] = dispatch[k]
BY DigestPieces

\* A step of a run that leaves the subscriptions and the mails alone, and is at
\* no commit afterwards: one it gives up makes its subscription unsteady.
LEMMA RunStep ==
    ASSUME DigestInv, NEW j \in Dispatch, NEW d \in DispatchRecord,
           dispatch' = [dispatch EXCEPT ![j] = d],
           UNCHANGED <<now, digest, mailed>>, next' \in Nat, steady' \subseteq steady,
           d.pc \notin {"idle", "queued"} => d.start <= now /\ now - d.start <= Patience,
           d.pc # "commit", d.pc \in {"idle", "queued", "select"} => d.todo = {},
           dispatch[j].pc = "commit" => dispatch[j].sub \notin steady',
           d.todo \subseteq dispatch[j].todo,
           d.todo # {} => d.start = dispatch[j].start /\ raced'[j] = raced[j],
           raced' \in [Dispatch -> SUBSET Subscription],
           \A k \in Dispatch \ {j} : raced'[k] = raced[k]
    PROVE  DigestInv'
<1>1. /\ dispatch' \in [Dispatch -> DispatchRecord] /\ dispatch'[j] = d
      /\ \A k \in Dispatch \ {j} : dispatch'[k] = dispatch[k]
    BY OneRun
<1>2. DigestTypeOK'
    <2>1. steady' \in SUBSET Subscription BY DigestPieces
    <2> QED BY <1>1, <2>1 DEF DigestInv, DigestTypeOK
<1>3. JobOK'
    <2>1. ASSUME NEW k \in Dispatch PROVE RunOK(k)'
        <3>1. CASE k = j BY <1>1, <3>1 DEF RunOK, Running
        <3>2. CASE k # j
            <4>1. RunOK(k) /\ dispatch'[k] = dispatch[k] BY <1>1, <3>2 DEF DigestInv, JobOK
            <4> QED BY <4>1 DEF RunOK, Running
        <3> QED BY <3>1, <3>2
    <2> QED BY <2>1 DEF DigestInv, JobOK
<1>4. SentOK' BY DEF DigestInv, SentOK
<1>5. SteadyOK'
    <2> SUFFICES ASSUME NEW s \in steady', mailed[s] # Never
                 PROVE  /\ HourOf(mailed[s]) = digest[s].hour
                        /\ Committing(s)' \/ (digest[s].sentAt # Never /\ mailed[s] <= digest[s].sentAt)
        BY DEF SteadyOK
    <2>1. s \in steady OBVIOUS
    <2>2. Committing(s) => Committing(s)'
        <3> SUFFICES ASSUME NEW k \in Dispatch, dispatch[k].pc = "commit", dispatch[k].sub = s
                     PROVE  Committing(s)'
            BY DEF Committing
        <3>1. k # j OBVIOUS
        <3>2. dispatch'[k] = dispatch[k] BY <1>1, <3>1
        <3> QED BY <3>2 DEF Committing
    <2> QED BY <2>1, <2>2 DEF DigestInv, SteadyOK
<1>6. SelectedOK'
    <2> SUFFICES ASSUME NEW k \in Dispatch, NEW s \in dispatch'[k].todo, s \in steady'
                 PROVE  /\ digest[s].hour = HourOf(dispatch'[k].start)
                        /\ s \notin raced'[k] /\ mailed[s] # Never =>
                                mailed[s] <= dispatch'[k].start - MinAge(s)'
        BY DEF SelectedOK
    <2>1. /\ s \in dispatch[k].todo /\ dispatch'[k].start = dispatch[k].start
          /\ raced'[k] = raced[k]
        BY <1>1
    <2>2. s \in Subscription /\ MinAge(s)' = MinAge(s) BY <2>1, DigestPieces, MinAgeFacts
    <2>3. s \in dispatch[k].todo \cap steady BY <2>1
    <2> QED BY <2>1, <2>2, <2>3 DEF DigestInv, SelectedOK
<1> QED BY <1>2, <1>3, <1>4, <1>5, <1>6 DEF DigestInv

LEMMA EnqueueInv == ASSUME DigestInv, NEW j \in Dispatch, Enqueue(j) PROVE DigestInv'
<1> DEFINE d == [dispatch[j] EXCEPT !.pc = "queued"]
<1>1. dispatch' = [dispatch EXCEPT ![j] = d] BY DigestPieces DEF Enqueue, StepsTo
<1>2. /\ d \in DispatchRecord /\ d.pc = "queued" /\ d.todo = dispatch[j].todo
      /\ d.start = dispatch[j].start
    BY DigestPieces DEF DispatchRecord
<1>3. /\ dispatch[j].pc = "idle" /\ next' \in Nat
      /\ UNCHANGED <<now, digest, mailed, steady, raced>>
    BY DigestPieces DEF Enqueue
<1>4. dispatch[j].todo = {} BY <1>3 DEF DigestInv, JobOK, RunOK
<1> HIDE DEF d
<1> QED BY <1>1, <1>2, <1>3, <1>4, RunStep, DigestPieces

LEMMA StartDispatchInv == ASSUME DigestInv, NEW j \in Dispatch, StartDispatch(j) PROVE DigestInv'
<1> DEFINE d == [dispatch[j] EXCEPT !.pc = "select", !.start = now]
<1>1. dispatch' = [dispatch EXCEPT ![j] = d] BY DigestPieces DEF StartDispatch
<1>2. d \in DispatchRecord /\ d.pc = "select" /\ d.todo = dispatch[j].todo /\ d.start = now
    BY DigestPieces DEF DispatchRecord
<1>3. dispatch[j].pc = "queued" /\ UNCHANGED <<now, digest, next, mailed, steady, raced>>
    BY DEF StartDispatch
<1>4. dispatch[j].todo = {} BY <1>3 DEF DigestInv, JobOK, RunOK
<1>5. now <= now /\ now - now <= Patience BY DigestPieces
<1>6. next' \in Nat BY <1>3 DEF DigestInv, DigestTypeOK
<1> HIDE DEF d
<1> QED BY <1>1, <1>2, <1>3, <1>4, <1>5, <1>6, RunStep, DigestPieces

LEMMA NoMailInv ==
    ASSUME DigestInv, NEW j \in Dispatch, NEW s \in Subscription, NoMail(j, s) PROVE DigestInv'
<1> DEFINE d == [dispatch[j] EXCEPT !.todo = @ \ {s}]
<1>1. dispatch' = [dispatch EXCEPT ![j] = d] BY DigestPieces DEF NoMail
<1>2. /\ d \in DispatchRecord /\ d.pc = dispatch[j].pc /\ d.todo \subseteq dispatch[j].todo
      /\ d.start = dispatch[j].start
    BY DigestPieces DEF DispatchRecord
<1>3. dispatch[j].pc = "send" /\ UNCHANGED <<now, digest, next, mailed, steady, raced>>
    BY DEF NoMail
<1>4. d.start <= now /\ now - d.start <= Patience
    BY <1>2, <1>3 DEF DigestInv, JobOK, RunOK, Running
<1>5. next' \in Nat BY <1>3 DEF DigestInv, DigestTypeOK
<1> HIDE DEF d
<1> QED BY <1>1, <1>2, <1>3, <1>4, <1>5, RunStep, DigestPieces

LEMMA CommitFailsInv == ASSUME DigestInv, NEW j \in Dispatch, CommitFails(j) PROVE DigestInv'
<1> DEFINE d == [dispatch[j] EXCEPT !.pc = "send"]
<1>1. dispatch' = [dispatch EXCEPT ![j] = d] BY DigestPieces DEF CommitFails, StepsTo
<1>2. /\ d \in DispatchRecord /\ d.pc = "send" /\ d.todo = dispatch[j].todo
      /\ d.start = dispatch[j].start
    BY DigestPieces DEF DispatchRecord
<1>3. /\ dispatch[j].pc = "commit" /\ steady' = steady \ {dispatch[j].sub}
      /\ UNCHANGED <<now, digest, next, mailed, raced>>
    BY DEF CommitFails
<1>4. d.start <= now /\ now - d.start <= Patience
    BY <1>2, <1>3 DEF DigestInv, JobOK, RunOK, Running
<1>5. next' \in Nat BY <1>3 DEF DigestInv, DigestTypeOK
<1> HIDE DEF d
<1> QED BY <1>1, <1>2, <1>3, <1>4, <1>5, RunStep, DigestPieces

\* A run that is over, at its end or before.
LEMMA RunEndsInv ==
    ASSUME DigestInv, NEW j \in Dispatch, RunEnds(j),
           UNCHANGED <<now, digest, next, mailed>>, steady' \subseteq steady,
           dispatch[j].pc = "commit" => dispatch[j].sub \notin steady'
    PROVE  DigestInv'
<1>1. /\ dispatch' = [dispatch EXCEPT ![j] = NoDispatch]
      /\ raced' \in [Dispatch -> SUBSET Subscription]
      /\ \A k \in Dispatch \ {j} : raced'[k] = raced[k]
    BY DigestPieces DEF RunEnds
<1>2. next' \in Nat BY DEF DigestInv, DigestTypeOK
<1>3. NoDispatch \in DispatchRecord /\ NoDispatch.pc = "idle" /\ NoDispatch.todo = {}
    BY NoDispatchFacts
<1> HIDE DEF NoDispatch
<1> QED BY <1>1, <1>2, <1>3, RunStep

LEMMA LoopDoneInv == ASSUME DigestInv, NEW j \in Dispatch, LoopDone(j) PROVE DigestInv'
<1>1. /\ dispatch[j].pc = "send" /\ dispatch[j].todo = {}
      /\ UNCHANGED <<now, digest, next, mailed, steady>>
    BY DEF LoopDone
<1>2. CASE dispatch[j].turn = "daily"
    <2> DEFINE d == [dispatch[j] EXCEPT !.pc = "select", !.turn = "weekly"]
    <2>1. dispatch' = [dispatch EXCEPT ![j] = d] /\ UNCHANGED raced
        BY <1>2, DigestPieces DEF LoopDone
    <2>2. /\ d \in DispatchRecord /\ d.pc = "select" /\ d.todo = dispatch[j].todo
          /\ d.start = dispatch[j].start
        BY DigestPieces DEF DispatchRecord
    <2>3. d.start <= now /\ now - d.start <= Patience
        BY <1>1, <2>2 DEF DigestInv, JobOK, RunOK, Running
    <2>4. next' \in Nat BY <1>1 DEF DigestInv, DigestTypeOK
    <2> HIDE DEF d
    <2> QED BY <1>1, <2>1, <2>2, <2>3, <2>4, RunStep, DigestPieces
<1>3. CASE dispatch[j].turn # "daily"
    <2>1. RunEnds(j) BY <1>3 DEF LoopDone
    <2> QED BY <1>1, <2>1, RunEndsInv
<1> QED BY <1>2, <1>3

LEMMA DispatchDiesInv == ASSUME DigestInv, NEW j \in Dispatch, DispatchDies(j) PROVE DigestInv'
<1>1. /\ RunEnds(j) /\ UNCHANGED <<now, digest, next, mailed>> /\ steady' \subseteq steady
      /\ dispatch[j].pc = "commit" => dispatch[j].sub \notin steady'
    BY DEF DispatchDies
<1> QED BY <1>1, RunEndsInv

LEMMA SelectDueInv == ASSUME DigestInv, NEW j \in Dispatch, SelectDue(j) PROVE DigestInv'
<1> DEFINE due == {s \in Subscription : Ready(j, s)}
           d == [dispatch[j] EXCEPT !.pc = "send", !.todo = due]
<1>1. dispatch' = [dispatch EXCEPT ![j] = d] BY DigestPieces DEF SelectDue
<1>2. d \in DispatchRecord /\ d.pc = "send" /\ d.todo = due /\ d.start = dispatch[j].start
    <2>1. due \in SUBSET Subscription OBVIOUS
    <2> HIDE DEF due
    <2> QED BY <2>1, DigestPieces DEF DispatchRecord
<1>3. /\ dispatch[j].pc = "select" /\ UNCHANGED <<now, digest, next, mailed, steady>>
      /\ raced' = [raced EXCEPT ![j] = Uncommitted(j)]
    BY DEF SelectDue
<1> HIDE DEF d
<1>4. /\ dispatch' \in [Dispatch -> DispatchRecord] /\ dispatch'[j] = d
      /\ \A k \in Dispatch \ {j} : dispatch'[k] = dispatch[k]
    BY <1>1, <1>2, OneRun
<1>5. /\ raced' \in [Dispatch -> SUBSET Subscription] /\ raced'[j] = Uncommitted(j)
      /\ \A k \in Dispatch \ {j} : raced'[k] = raced[k]
    <2>1. Uncommitted(j) \in SUBSET Subscription BY DigestPieces DEF Uncommitted
    <2> QED BY <1>3, <2>1, DigestPieces
<1>6. DigestTypeOK' BY <1>3, <1>4, <1>5 DEF DigestInv, DigestTypeOK
<1>7. JobOK'
    <2>1. ASSUME NEW k \in Dispatch PROVE RunOK(k)'
        <3>1. CASE k = j
            <4>1. dispatch[j].start <= now /\ now - dispatch[j].start <= Patience
                BY <1>3 DEF DigestInv, JobOK, RunOK, Running
            <4> QED BY <1>2, <1>3, <1>4, <3>1, <4>1 DEF RunOK, Running
        <3>2. CASE k # j
            <4>1. RunOK(k) /\ dispatch'[k] = dispatch[k] BY <1>4, <3>2 DEF DigestInv, JobOK
            <4> QED BY <1>3, <4>1 DEF RunOK, Running
        <3> QED BY <3>1, <3>2
    <2> QED BY <1>3, <2>1 DEF DigestInv, JobOK
<1>8. SentOK' BY <1>3 DEF DigestInv, SentOK
<1>9. \A s \in Subscription : Committing(s) => Committing(s)' /\ s \in Uncommitted(j)
    <2> SUFFICES ASSUME NEW s \in Subscription, NEW k \in Dispatch,
                        dispatch[k].pc = "commit", dispatch[k].sub = s
                 PROVE  Committing(s)' /\ s \in Uncommitted(j)
        BY DEF Committing
    <2>1. k # j BY <1>3
    <2>2. dispatch'[k] = dispatch[k] BY <1>4, <2>1
    <2> QED BY <2>1, <2>2 DEF Committing, Uncommitted
<1>10. SteadyOK' BY <1>3, <1>9, DigestPieces DEF DigestInv, SteadyOK
<1>11. SelectedOK'
    <2> SUFFICES ASSUME NEW k \in Dispatch, NEW s \in dispatch'[k].todo, s \in steady
                 PROVE  /\ digest[s].hour = HourOf(dispatch'[k].start)
                        /\ s \notin raced'[k] /\ mailed[s] # Never =>
                                mailed[s] <= dispatch'[k].start - MinAge(s)'
        BY <1>3 DEF SelectedOK
    <2>1. s \in Subscription /\ MinAge(s)' = MinAge(s)
        BY <1>3, DigestPieces, MinAgeFacts
    <2>2. CASE k = j
        <3>1. Ready(j, s) /\ dispatch'[k].start = dispatch[j].start BY <1>2, <1>4, <2>2
        <3>2. digest[s].hour = HourOf(dispatch[j].start) BY <3>1 DEF Ready
        <3>3. ASSUME s \notin raced'[k], mailed[s] # Never
              PROVE  mailed[s] <= dispatch[j].start - MinAge(s)
            <4>1. ~Committing(s) BY <1>5, <1>9, <2>1, <2>2, <3>3
            <4>2. digest[s].sentAt # Never /\ mailed[s] <= digest[s].sentAt
                BY <3>3, <4>1 DEF DigestInv, SteadyOK
            <4>3. digest[s].sentAt <= dispatch[j].start - MinAge(s) BY <3>1, <4>2 DEF Ready
            <4> QED BY <2>1, <4>2, <4>3, DigestPieces, MinAgeFacts
        <3> QED BY <2>1, <3>1, <3>2, <3>3
    <2>3. CASE k # j
        <3>1. dispatch'[k] = dispatch[k] /\ raced'[k] = raced[k] BY <1>4, <1>5, <2>3
        <3>2. s \in dispatch[k].todo \cap steady BY <3>1
        <3> QED BY <2>1, <3>1, <3>2 DEF DigestInv, SelectedOK
    <2> QED BY <2>2, <2>3
<1> QED BY <1>6, <1>7, <1>8, <1>10, <1>11 DEF DigestInv

LEMMA MailInv ==
    ASSUME DigestInv, NEW j \in Dispatch, NEW s \in Subscription, Mail(j, s) PROVE DigestInv'
<1> DEFINE d == [dispatch[j] EXCEPT !.pc = "commit", !.todo = @ \ {s}, !.sub = s]
<1>1. dispatch' = [dispatch EXCEPT ![j] = d] BY DigestPieces DEF Mail
<1>2. /\ d \in DispatchRecord /\ d.pc = "commit" /\ d.todo = dispatch[j].todo \ {s}
      /\ d.start = dispatch[j].start /\ d.sub = s
    BY DigestPieces DEF DispatchRecord
<1>3. /\ dispatch[j].pc = "send" /\ s \in dispatch[j].todo
      /\ UNCHANGED <<now, digest, next, steady>>
    BY DEF Mail
<1> HIDE DEF d
<1>4. /\ dispatch' \in [Dispatch -> DispatchRecord] /\ dispatch'[j] = d
      /\ \A k \in Dispatch \ {j} : dispatch'[k] = dispatch[k]
    BY <1>1, <1>2, OneRun
<1>5. /\ raced' \in [Dispatch -> SUBSET Subscription]
      /\ \A k \in Dispatch : raced[k] \subseteq raced'[k]
      /\ \A k \in Dispatch \ {j} : s \in dispatch[k].todo => s \in raced'[k]
    BY DigestPieces DEF Mail
<1>6. dispatch[j].start <= now /\ now - dispatch[j].start <= Patience
    BY <1>3 DEF DigestInv, JobOK, RunOK, Running
<1>7. /\ mailed' \in [Subscription -> 0..LastTick \cup {Never}]
      /\ mailed'[s] \in {mailed[s], dispatch[j].start}
      /\ mailed[s] <= mailed'[s] /\ dispatch[j].start <= mailed'[s]
      /\ \A r \in Subscription \ {s} : mailed'[r] = mailed[r]
    <2> DEFINE m == IF mailed[s] < dispatch[j].start THEN dispatch[j].start ELSE mailed[s]
    <2>1. mailed' = [mailed EXCEPT ![s] = m] BY DEF Mail
    <2>2. mailed \in [Subscription -> 0..LastTick \cup {Never}] BY DEF DigestInv, DigestTypeOK
    <2>3. /\ m \in 0..LastTick \cup {Never} /\ m \in {mailed[s], dispatch[j].start}
          /\ mailed[s] <= m /\ dispatch[j].start <= m
        BY DigestPieces
    <2> HIDE DEF m
    <2> QED BY <2>1, <2>2, <2>3
<1>8. \A r \in Subscription : mailed[r] <= mailed'[r] /\ mailed'[r] <= now
    <2>1. \A r \in Subscription : mailed[r] <= now BY DEF DigestInv, JobOK
    <2> QED BY <1>6, <1>7, <2>1, DigestPieces
<1>9. mailed'[s] # Never BY <1>7, DigestPieces DEF Never
<1>10. \A r \in Subscription : mailed'[r] \in Int
    BY <1>7, DigestPieces
<1>11. DigestTypeOK' BY <1>3, <1>4, <1>5, <1>7 DEF DigestInv, DigestTypeOK
<1>12. JobOK'
    <2>1. ASSUME NEW k \in Dispatch PROVE RunOK(k)'
        <3>1. CASE k = j BY <1>2, <1>3, <1>4, <1>6, <1>7, <3>1 DEF RunOK, Running
        <3>2. CASE k # j
            <4>1. RunOK(k) /\ dispatch'[k] = dispatch[k] BY <1>4, <3>2 DEF DigestInv, JobOK
            <4>2. ASSUME dispatch[k].pc = "commit"
                  PROVE  dispatch[k].start <= mailed'[dispatch[k].sub]
                <5>1. /\ dispatch[k].start <= mailed[dispatch[k].sub]
                      /\ dispatch[k].sub \in Subscription /\ dispatch[k].start \in Nat
                    BY <4>1, <4>2, DigestPieces DEF RunOK
                <5> QED BY <1>8, <1>10, <5>1, DigestPieces
            <4> QED BY <1>3, <4>1, <4>2 DEF RunOK, Running
        <3> QED BY <3>1, <3>2
    <2> QED BY <1>3, <1>8, <2>1 DEF JobOK
<1>13. SentOK'
    <2> SUFFICES ASSUME NEW r \in Subscription, digest[r].sentAt # Never
                 PROVE  mailed'[r] # Never /\ digest[r].sentAt <= mailed'[r] + Patience
        BY <1>3 DEF SentOK
    <2>1. mailed[r] # Never /\ digest[r].sentAt <= mailed[r] + Patience BY DEF DigestInv, SentOK
    <2>2. digest[r].sentAt <= mailed'[r] + Patience
        BY <1>8, <1>10, <2>1, DigestPieces
    <2> QED BY <1>7, <1>9, <2>1, <2>2
<1>14. digest[s].hour = HourOf(dispatch[j].start) \/ s \notin steady
    BY <1>3 DEF DigestInv, SelectedOK
<1>15. SteadyOK'
    <2> SUFFICES ASSUME NEW r \in Subscription, r \in steady, mailed'[r] # Never
                 PROVE  /\ HourOf(mailed'[r]) = digest[r].hour
                        /\ \/ Committing(r)'
                           \/ digest[r].sentAt # Never /\ mailed'[r] <= digest[r].sentAt
        BY <1>3, DigestPieces DEF SteadyOK
    <2>1. CASE r = s
        <3>1. Committing(s)' BY <1>2, <1>4 DEF Committing
        <3>2. HourOf(mailed'[s]) = digest[s].hour
            <4>1. CASE mailed'[s] = dispatch[j].start BY <1>14, <2>1, <4>1
            <4>2. CASE mailed'[s] = mailed[s] BY <1>9, <2>1, <4>2 DEF DigestInv, SteadyOK
            <4> QED BY <1>7, <4>1, <4>2
        <3> QED BY <2>1, <3>1, <3>2
    <2>2. CASE r # s
        <3>1. mailed'[r] = mailed[r] BY <1>7, <2>2
        <3>2. Committing(r) => Committing(r)'
            <4> SUFFICES ASSUME NEW k \in Dispatch, dispatch[k].pc = "commit", dispatch[k].sub = r
                         PROVE  Committing(r)'
                BY DEF Committing
            <4>1. k # j BY <1>3
            <4>2. dispatch'[k] = dispatch[k] BY <1>4, <4>1
            <4> QED BY <4>2 DEF Committing
        <3> QED BY <3>1, <3>2 DEF DigestInv, SteadyOK
    <2> QED BY <2>1, <2>2
<1>16. SelectedOK'
    <2> SUFFICES ASSUME NEW k \in Dispatch, NEW r \in dispatch'[k].todo, r \in steady
                 PROVE  /\ digest[r].hour = HourOf(dispatch'[k].start)
                        /\ r \notin raced'[k] /\ mailed'[r] # Never =>
                                mailed'[r] <= dispatch'[k].start - MinAge(r)'
        BY <1>3 DEF SelectedOK
    <2>1. r \in dispatch[k].todo /\ dispatch'[k].start = dispatch[k].start
        BY <1>2, <1>4
    <2>2. r \in Subscription /\ MinAge(r)' = MinAge(r) BY <1>3, <2>1, DigestPieces, MinAgeFacts
    <2>3. r \in dispatch[k].todo \cap steady BY <2>1
    <2>4. r = s => k # j BY <1>2, <1>4
    <2>5. ASSUME r \notin raced'[k], mailed'[r] # Never
          PROVE  mailed'[r] <= dispatch[k].start - MinAge(r)
        <3>1. r # s /\ r \notin raced[k] BY <1>5, <2>1, <2>4, <2>5
        <3>2. mailed'[r] = mailed[r] BY <1>7, <2>2, <3>1
        <3> QED BY <2>3, <2>5, <3>1, <3>2 DEF DigestInv, SelectedOK
    <2>6. digest[r].hour = HourOf(dispatch[k].start) BY <2>3 DEF DigestInv, SelectedOK
    <2> QED BY <2>1, <2>2, <2>5, <2>6
<1> QED BY <1>11, <1>12, <1>13, <1>15, <1>16 DEF DigestInv

LEMMA CommitSentInv == ASSUME DigestInv, NEW j \in Dispatch, CommitSent(j) PROVE DigestInv'
<1> DEFINE s == dispatch[j].sub
           d == [dispatch[j] EXCEPT !.pc = "send"]
           sent == [digest[s] EXCEPT !.sentAt = now]
<1>1. dispatch' = [dispatch EXCEPT ![j] = d] BY DigestPieces DEF CommitSent, StepsTo
<1>2. /\ d \in DispatchRecord /\ d.pc = "send" /\ d.todo = dispatch[j].todo
      /\ d.start = dispatch[j].start
    BY DigestPieces DEF DispatchRecord
<1>3. dispatch[j].pc = "commit" /\ UNCHANGED <<now, next, mailed, steady, raced>>
    BY DEF CommitSent
<1>4. digest' = [digest EXCEPT ![s] = sent] BY DEF CommitSent
<1>5. s \in Subscription BY DigestPieces
<1>6. /\ sent \in DigestRecord /\ sent.sentAt = now /\ sent.hour = digest[s].hour
      /\ sent.frequency = digest[s].frequency
    BY <1>5, DigestPieces DEF DigestRecord
<1>7. /\ dispatch[j].start <= now /\ now - dispatch[j].start <= Patience
      /\ dispatch[j].start <= mailed[s] /\ mailed[s] <= now
    BY <1>3, <1>5 DEF DigestInv, JobOK, RunOK, Running
<1> HIDE DEF d, sent
<1>8. /\ dispatch' \in [Dispatch -> DispatchRecord] /\ dispatch'[j] = d
      /\ \A k \in Dispatch \ {j} : dispatch'[k] = dispatch[k]
    BY <1>1, <1>2, OneRun
<1>9. /\ digest' \in [Subscription -> DigestRecord] /\ digest'[s] = sent
      /\ \A r \in Subscription \ {s} : digest'[r] = digest[r]
    <2>1. digest \in [Subscription -> DigestRecord] BY DEF DigestInv, DigestTypeOK
    <2> HIDE DEF s
    <2> QED BY <1>4, <1>5, <1>6, <2>1
<1>10. \A r \in Subscription :
        digest'[r].hour = digest[r].hour /\ digest'[r].frequency = digest[r].frequency
    BY <1>6, <1>9
<1>11. DigestTypeOK' BY <1>3, <1>8, <1>9 DEF DigestInv, DigestTypeOK
<1>12. JobOK'
    <2>1. ASSUME NEW k \in Dispatch PROVE RunOK(k)'
        <3>1. CASE k = j BY <1>2, <1>3, <1>7, <1>8, <3>1 DEF RunOK, Running
        <3>2. CASE k # j
            <4>1. RunOK(k) /\ dispatch'[k] = dispatch[k] BY <1>8, <3>2 DEF DigestInv, JobOK
            <4> QED BY <1>3, <4>1 DEF RunOK, Running
        <3> QED BY <3>1, <3>2
    <2> QED BY <1>3, <2>1 DEF DigestInv, JobOK
<1>13. mailed[s] # Never /\ now # Never /\ now <= mailed[s] + Patience
    BY <1>5, <1>7, DigestPieces DEF Never
<1>14. SentOK'
    <2> SUFFICES ASSUME NEW r \in Subscription, digest'[r].sentAt # Never
                 PROVE  mailed[r] # Never /\ digest'[r].sentAt <= mailed[r] + Patience
        BY <1>3 DEF SentOK
    <2>1. CASE r = s BY <1>6, <1>9, <1>13, <2>1
    <2>2. CASE r # s BY <1>9, <2>2 DEF DigestInv, SentOK
    <2> QED BY <2>1, <2>2
<1>15. SteadyOK'
    <2> SUFFICES ASSUME NEW r \in Subscription, r \in steady, mailed[r] # Never
                 PROVE  /\ HourOf(mailed[r]) = digest'[r].hour
                        /\ \/ Committing(r)'
                           \/ digest'[r].sentAt # Never /\ mailed[r] <= digest'[r].sentAt
        BY <1>3, DigestPieces DEF SteadyOK
    <2>1. HourOf(mailed[r]) = digest'[r].hour BY <1>10 DEF DigestInv, SteadyOK
    <2>2. CASE r = s BY <1>6, <1>7, <1>9, <1>13, <2>1, <2>2
    <2>3. CASE r # s
        <3>1. Committing(r) => Committing(r)'
            <4> SUFFICES ASSUME NEW k \in Dispatch, dispatch[k].pc = "commit", dispatch[k].sub = r
                         PROVE  Committing(r)'
                BY DEF Committing
            <4>1. k # j BY <2>3
            <4>2. dispatch'[k] = dispatch[k] BY <1>8, <4>1
            <4> QED BY <4>2 DEF Committing
        <3>2. digest'[r] = digest[r] BY <1>9, <2>3
        <3> QED BY <2>1, <3>1, <3>2 DEF DigestInv, SteadyOK
    <2> QED BY <2>2, <2>3
<1>16. SelectedOK'
    <2> SUFFICES ASSUME NEW k \in Dispatch, NEW r \in dispatch'[k].todo, r \in steady
                 PROVE  /\ digest'[r].hour = HourOf(dispatch'[k].start)
                        /\ r \notin raced[k] /\ mailed[r] # Never =>
                                mailed[r] <= dispatch'[k].start - MinAge(r)'
        BY <1>3 DEF SelectedOK
    <2>1. r \in dispatch[k].todo \cap steady /\ dispatch'[k].start = dispatch[k].start
        BY <1>2, <1>8
    <2>2. r \in Subscription BY <2>1, DigestPieces
    <2>3. MinAge(r)' = MinAge(r) BY <1>10, <2>2, MinAgeFacts
    <2> QED BY <1>10, <2>1, <2>2, <2>3 DEF DigestInv, SelectedOK
<1> QED BY <1>11, <1>12, <1>14, <1>15, <1>16 DEF DigestInv

\* A step that leaves the runs and the mails alone, and of a subscription its
\* frequency, its mail and, if it stays steady, its hour.
LEMMA OthersKeep ==
    ASSUME DigestInv, UNCHANGED <<dispatch, mailed, raced>>, DigestTypeOK', JobOK',
           steady' \subseteq steady,
           \A s \in Subscription :
                /\ digest'[s].frequency = digest[s].frequency
                /\ digest'[s].sentAt = digest[s].sentAt
                /\ s \in steady' => digest'[s].hour = digest[s].hour
    PROVE  DigestInv'
<1>1. SentOK' BY DEF DigestInv, SentOK
<1>2. SteadyOK' BY DigestPieces DEF DigestInv, SteadyOK, Committing
<1>3. SelectedOK'
    <2> SUFFICES ASSUME NEW j \in Dispatch, NEW s \in dispatch[j].todo, s \in steady'
                 PROVE  /\ digest'[s].hour = HourOf(dispatch[j].start)
                        /\ s \notin raced[j] /\ mailed[s] # Never =>
                                mailed[s] <= dispatch[j].start - MinAge(s)'
        BY DEF SelectedOK
    <2>1. s \in Subscription /\ s \in dispatch[j].todo \cap steady BY DigestPieces
    <2>2. MinAge(s)' = MinAge(s) BY <2>1, MinAgeFacts
    <2> QED BY <2>1, <2>2 DEF DigestInv, SelectedOK
<1> QED BY <1>1, <1>2, <1>3 DEF DigestInv

LEMMA ClockInv == ASSUME DigestInv, TimePasses \/ Register PROVE DigestInv'
<1>1. UNCHANGED <<digest, dispatch, mailed, steady, raced>> BY DEF TimePasses, Register
<1>2. /\ now' \in 0..LastTick /\ now <= now'
      /\ \A j \in Dispatch : Running(j) => now' - dispatch[j].start <= Patience
    <2>1. CASE TimePasses BY <2>1, DigestPieces DEF TimePasses
    <2>2. CASE Register BY <2>2, DigestPieces DEF Register, DigestInv, JobOK, RunOK
    <2> QED BY <2>1, <2>2
<1>3. next' \in Nat
    BY DigestPieces DEF TimePasses, Register, DigestInv, DigestTypeOK
<1>4. DigestTypeOK' BY <1>1, <1>2, <1>3 DEF DigestInv, DigestTypeOK
<1>5. JobOK'
    <2>1. now' \in Int BY <1>2, DigestPieces
    <2>2. \A s \in Subscription : mailed[s] <= now'
        BY <1>2, <2>1, DigestPieces DEF DigestInv, JobOK
    <2>3. ASSUME NEW j \in Dispatch PROVE RunOK(j)'
        <3>1. RunOK(j) BY DEF DigestInv, JobOK
        <3>2. Running(j) => dispatch[j].start <= now'
            BY <1>2, <2>1, <3>1, DigestPieces DEF RunOK
        <3> QED BY <1>1, <1>2, <3>1, <3>2 DEF RunOK, Running
    <2> QED BY <1>1, <2>2, <2>3 DEF JobOK
<1> QED BY <1>1, <1>4, <1>5, OthersKeep

LEMMA PeopleInv ==
    ASSUME DigestInv, NEW s \in Subscription, NEW hour \in 0..(Hours - 1),
           Subscribe(s, hour) \/ Unsubscribe(s)
    PROVE  DigestInv'
<1>1. UNCHANGED <<now, dispatch, next, mailed, raced>> /\ steady' \subseteq steady
    BY DEF Subscribe, Unsubscribe
<1>2. digest \in [Subscription -> DigestRecord] BY DEF DigestInv, DigestTypeOK
<1>3. /\ digest' \in [Subscription -> DigestRecord]
      /\ \A r \in Subscription :
            /\ digest'[r].frequency = digest[r].frequency
            /\ digest'[r].sentAt = digest[r].sentAt
            /\ r \in steady' => digest'[r].hour = digest[r].hour
    <2>1. CASE Subscribe(s, hour)
        <3> DEFINE d == [digest[s] EXCEPT !.active = TRUE, !.hour = hour]
        <3>1. digest' = [digest EXCEPT ![s] = d] BY <1>2, <2>1 DEF Subscribe
        <3>2. d \in DigestRecord /\ d.frequency = digest[s].frequency
              /\ d.sentAt = digest[s].sentAt /\ d.hour = hour
            BY <1>2 DEF DigestRecord
        <3>3. s \in steady' => hour = digest[s].hour BY <2>1 DEF Subscribe
        <3> HIDE DEF d
        <3> QED BY <1>2, <3>1, <3>2, <3>3
    <2>2. CASE Unsubscribe(s)
        <3> DEFINE d == [digest[s] EXCEPT !.active = FALSE]
        <3>1. digest' = [digest EXCEPT ![s] = d] BY <1>2, <2>2 DEF Unsubscribe
        <3>2. d \in DigestRecord /\ d.frequency = digest[s].frequency
              /\ d.sentAt = digest[s].sentAt /\ d.hour = digest[s].hour
            BY <1>2 DEF DigestRecord
        <3> HIDE DEF d
        <3> QED BY <1>2, <3>1, <3>2
    <2> QED BY <2>1, <2>2
<1>4. DigestTypeOK'
    <2>1. steady' \in SUBSET Subscription BY <1>1, DigestPieces
    <2> QED BY <1>1, <1>3, <2>1 DEF DigestInv, DigestTypeOK
<1>5. JobOK' BY <1>1 DEF DigestInv, JobOK, RunOK, Running
<1> QED BY <1>1, <1>3, <1>4, <1>5, OthersKeep

\* Every step keeps the invariant.
LEMMA DigestStepInv == DigestInv /\ [DigestNext]_digestVars => DigestInv'
<1> SUFFICES ASSUME DigestInv, [DigestNext]_digestVars PROVE DigestInv' OBVIOUS
<1>1. CASE TimePasses \/ Register BY <1>1, ClockInv
<1>2. ASSUME NEW j \in Dispatch, Enqueue(j) \/ StartDispatch(j) \/ SelectDue(j) PROVE DigestInv'
    BY <1>2, EnqueueInv, StartDispatchInv, SelectDueInv
<1>3. ASSUME NEW j \in Dispatch, CommitSent(j) \/ CommitFails(j) PROVE DigestInv'
    BY <1>3, CommitSentInv, CommitFailsInv
<1>4. ASSUME NEW j \in Dispatch, LoopDone(j) \/ DispatchDies(j) PROVE DigestInv'
    BY <1>4, LoopDoneInv, DispatchDiesInv
<1>5. ASSUME NEW j \in Dispatch, NEW s \in Subscription, Mail(j, s) \/ NoMail(j, s) PROVE DigestInv'
    BY <1>5, MailInv, NoMailInv
<1>6. ASSUME NEW s \in Subscription, Unsubscribe(s) PROVE DigestInv'
    <2>1. 0 \in 0..(Hours - 1) BY DigestAssumption
    <2> QED BY <1>6, <2>1, PeopleInv
<1>7. ASSUME NEW s \in Subscription, NEW hour \in 0..(Hours - 1), Subscribe(s, hour)
      PROVE  DigestInv'
    BY <1>7, PeopleInv
<1>8. CASE UNCHANGED digestVars
    <2>1. UNCHANGED <<now, digest, dispatch, next, mailed, steady, raced>>
        BY <1>8 DEF digestVars
    <2>2. DigestTypeOK' BY <2>1 DEF DigestInv, DigestTypeOK
    <2>3. JobOK' BY <2>1 DEF DigestInv, JobOK, RunOK, Running
    <2> QED BY <2>1, <2>2, <2>3, OthersKeep
<1> QED BY <1>1, <1>2, <1>3, <1>4, <1>5, <1>6, <1>7, <1>8 DEF DigestNext

LEMMA DigestInvariance == DigestSpec => []DigestInv
BY DigestInitInv, DigestStepInv, PTL DEF DigestSpec

\* What a run selected was mailed long enough ago, and the hours agree.
LEMMA MailAfterPeriod ==
    ASSUME Hours > 1, DigestInv, NEW j \in Dispatch, NEW s \in Subscription, Mail(j, s),
           s \in steady, s \notin raced[j], mailed[s] # Never
    PROVE  DayOf(dispatch[j].start) >= DayOf(mailed[s]) + PeriodOf(s)
<1>1. s \in dispatch[j].todo \cap steady BY DEF Mail
<1>2. /\ digest[s].hour = HourOf(dispatch[j].start)
      /\ mailed[s] <= dispatch[j].start - MinAge(s)
    BY <1>1 DEF DigestInv, SelectedOK
<1>3. HourOf(mailed[s]) = digest[s].hour BY DEF DigestInv, SteadyOK
<1>4. mailed[s] \in Nat /\ dispatch[j].start \in Nat /\ PeriodOf(s) \in Nat
    BY DigestPieces, MinAgeFacts
<1>5. mailed[s] <= dispatch[j].start - (PeriodOf(s) * DayTicks - HourTicks)
    BY <1>2 DEF MinAge
<1> QED BY <1>2, <1>3, <1>4, <1>5, DaysBetween

\* Runs that come late, again or out of turn, and overlap as they like, mail no
\* subscription once more in its period but across a mail of another one, however
\* long the hours, the days and the weeks are, if a day has two hours at least:
\* models/digest.py DigestSubscription.get_active_for_dispatch asks for an age of
\* a period less an hour, of the hour the mail went out in.
THEOREM DigestsKeepTheirPeriod ==
    ASSUME Hours > 1
    PROVE  DigestSpec => RerunsAreSafe
<1>1. DigestInv /\ [DigestNext]_digestVars =>
        [\A j \in Dispatch, s \in Subscription :
            Mail(j, s) /\ s \in steady /\ s \notin raced[j] /\ mailed[s] # Never =>
                DayOf(dispatch[j].start) >= DayOf(mailed[s]) + PeriodOf(s)]_digestVars
    BY MailAfterPeriod
<1> QED BY <1>1, DigestInvariance, PTL DEF DigestSpec, RerunsAreSafe

\* What is committed of a mail is at most the time of a run later, which the
\* minutes of the two hours leave room for.
LEMMA SelectedAgain ==
    ASSUME DigestInv, NEW j \in Dispatch, SelectDue(j), NEW s \in Subscription,
           digest[s].frequency = dispatch[j].turn,
           digest[s].active, digest[s].hour = HourOf(dispatch[j].start),
           mailed[s] # Never, HourOf(mailed[s]) = HourOf(dispatch[j].start),
           DayOf(dispatch[j].start) >= DayOf(mailed[s]) + PeriodOf(s),
           MinuteOfHour(mailed[s]) - MinuteOfHour(dispatch[j].start) <= HourTicks - Patience
    PROVE  s \in dispatch[j]'.todo
<1>1. mailed[s] \in Nat /\ dispatch[j].start \in Nat /\ PeriodOf(s) \in Nat
    BY DigestPieces, MinAgeFacts
<1>2. mailed[s] + Patience <= dispatch[j].start - (PeriodOf(s) * DayTicks - HourTicks)
    BY <1>1, AgeBetween
<1>3. mailed[s] + Patience <= dispatch[j].start - MinAge(s) BY <1>2 DEF MinAge
<1>4. ASSUME digest[s].sentAt # Never PROVE digest[s].sentAt <= dispatch[j].start - MinAge(s)
    <2>1. digest[s].sentAt <= mailed[s] + Patience BY <1>4 DEF DigestInv, SentOK
    <2> QED BY <1>1, <1>3, <2>1, DigestPieces, MinAgeFacts
<1>5. Ready(j, s) BY <1>4 DEF Ready
<1>6. dispatch'[j].todo = {r \in Subscription : Ready(j, r)}
    BY DigestPieces DEF SelectDue, DispatchRecord
<1> QED BY <1>5, <1>6

\* However late a run was, the next one of the same hour after the period finds
\* the subscription due again, if it does not start too early in its hour.
THEOREM LateDigestsComeAgain == DigestSpec => LateDigestIsDueAgain
<1>1. DigestInv /\ [DigestNext]_digestVars =>
        [\A j \in Dispatch, s \in Subscription :
            /\ SelectDue(j) /\ digest[s].frequency = dispatch[j].turn
            /\ digest[s].active /\ digest[s].hour = HourOf(dispatch[j].start)
            /\ mailed[s] # Never /\ HourOf(mailed[s]) = HourOf(dispatch[j].start)
            /\ DayOf(dispatch[j].start) >= DayOf(mailed[s]) + PeriodOf(s)
            /\ MinuteOfHour(mailed[s]) - MinuteOfHour(dispatch[j].start) <= HourTicks - Patience
            => s \in dispatch[j]'.todo]_digestVars
    BY SelectedAgain
<1> QED BY <1>1, DigestInvariance, PTL DEF DigestSpec, LateDigestIsDueAgain

-----------------------------------------------------------------------------
(* Explanations                                                            *)

\* When an hour of the clock begins.
HourBegin(b) == b * HourLength

\* No bound on the numbers is needed, only what they are.
LooseTypes ==
    /\ tick \in 0..Ending
    /\ counter \in [Asker \X Bucket -> [n : Nat, expires : {Forever} \cup Nat]]
    /\ explain \in [Explanation ->
            [pc : {"idle", "bucket", "expire", "cache", "call"},
             user : Asker, bucket : Bucket, since : Nat]]
    /\ allowed \in [Asker \X Bucket -> Nat]
    /\ leaked \in SUBSET (Asker \X Bucket)

\* A request counts itself for its hour soon after it came.
RequestsInTime ==
    \A e \in Explanation :
        /\ explain[e].pc # "idle" => HourBegin(explain[e].bucket) <= tick
        /\ explain[e].pc = "bucket" =>
            /\ tick <= explain[e].since + Delay
            /\ explain[e].since < HourBegin(explain[e].bucket) + HourLength

\* No counter expires before its hour and the requests that may still count
\* themselves in it are over.
CountersLast ==
    \A k \in Asker \X Bucket :
        counter[k].expires # Forever => HourBegin(k[2]) + CounterLife <= counter[k].expires

\* Whoever was let through is counted.
AllowedAreCounted ==
    \A k \in Asker \X Bucket : allowed[k] <= counter[k].n /\ allowed[k] <= Limit

ExplainInv ==
    LooseTypes /\ RequestsInTime /\ CountersLast /\ AllowedAreCounted /\ CountersExpire

\* The hour in which a time is.
LEMMA HourFacts ==
    ASSUME NEW t \in 0..Ending
    PROVE  /\ t \div HourLength \in Bucket
           /\ HourBegin(t \div HourLength) <= t
           /\ t < HourBegin(t \div HourLength) + HourLength
<1> DEFINE q == t \div HourLength
           z == Ending \div HourLength
<1>1. HourLength \in Nat \ {0} /\ t \in Nat /\ Ending \in Nat /\ t <= Ending BY ExplainAssumption
<1>2. q \in Nat /\ q * HourLength <= t /\ t < q * HourLength + HourLength
    <2>1. q \in Nat /\ t % HourLength \in 0..(HourLength - 1)
          /\ t = q * HourLength + (t % HourLength)
        BY <1>1, DivisionParts
    <2> HIDE DEF q
    <2>2. q * HourLength \in Nat BY <1>1, <2>1
    <2> QED BY <1>1, <2>1, <2>2
<1>3. z \in Nat /\ Ending < z * HourLength + HourLength
    <2>1. z \in Nat /\ Ending % HourLength \in 0..(HourLength - 1)
          /\ Ending = z * HourLength + (Ending % HourLength)
        BY <1>1, DivisionParts
    <2> HIDE DEF z
    <2>2. z * HourLength \in Nat BY <1>1, <2>1
    <2> QED BY <1>1, <2>1, <2>2
<1> HIDE DEF q, z
<1>4. q <= z
    <2>1. q * HourLength \in Nat /\ z * HourLength \in Nat BY <1>1, <1>2, <1>3
    <2>2. q * HourLength < z * HourLength + HourLength BY <1>1, <1>2, <1>3, <2>1
    <2> QED BY <1>1, <1>2, <1>3, <2>2, MultipleOrder
<1>5. q \in Bucket BY <1>2, <1>3, <1>4 DEF Bucket, z
<1> QED BY <1>2, <1>5 DEF HourBegin, q

LEMMA HourBeginNat == \A b \in Bucket : HourBegin(b) \in Nat
<1>1. HourLength \in Nat /\ Ending \div HourLength \in Int /\ HourLength \in Nat \ {0}
    BY ExplainAssumption
<1>2. \A b \in Bucket : b \in Nat BY <1>1 DEF Bucket
<1> QED BY <1>1, <1>2 DEF HourBegin

LEMMA ExplainInitInv ==
    ASSUME Asker # {}
    PROVE  ExplainInit => ExplainInv
<1> SUFFICES ASSUME ExplainInit PROVE ExplainInv
    OBVIOUS
<1>1. (CHOOSE a \in Asker : TRUE) \in Asker OBVIOUS
<1>2. 0 \in 0..Ending /\ 0 \div HourLength \in Bucket
    <2>1. 0 \in 0..Ending BY ExplainAssumption
    <2> QED BY <2>1, HourFacts
<1>3. 0 \div HourLength = 0 BY ExplainAssumption
<1>4. NoExplanation \in [pc : {"idle", "bucket", "expire", "cache", "call"},
                         user : Asker, bucket : Bucket, since : Nat]
    BY <1>1, <1>2, <1>3 DEF NoExplanation
<1>5. LooseTypes BY <1>2, <1>4 DEF ExplainInit, LooseTypes
<1>6. RequestsInTime BY DEF ExplainInit, RequestsInTime, NoExplanation
<1>7. CountersLast BY DEF ExplainInit, CountersLast
<1>8. AllowedAreCounted BY ExplainAssumption DEF ExplainInit, AllowedAreCounted
<1>9. CountersExpire BY DEF ExplainInit, CountersExpire
<1> QED BY <1>5, <1>6, <1>7, <1>8, <1>9 DEF ExplainInv

\* The key of a request, and what becomes of the requests in a step of one.
LEMMA KeyFacts ==
    ASSUME LooseTypes, NEW e \in Explanation
    PROVE  /\ KeyOf(e) \in Asker \X Bucket /\ KeyOf(e)[2] = explain[e].bucket
           /\ explain[e].bucket \in Bucket
BY DEF LooseTypes, KeyOf

LEMMA OneRequestMoves ==
    ASSUME Asker # {}, LooseTypes, NEW e \in Explanation,
           NEW pc \in {"expire", "cache", "call"}, GoesTo(e, pc) \/ Ends(e)
    PROVE  /\ explain' \in [Explanation ->
                [pc : {"idle", "bucket", "expire", "cache", "call"},
                 user : Asker, bucket : Bucket, since : Nat]]
           /\ \A d \in Explanation \ {e} : explain'[d] = explain[d] /\ KeyOf(d)' = KeyOf(d)
           /\ \/ explain'[e].pc = pc /\ explain'[e].bucket = explain[e].bucket /\ KeyOf(e)' = KeyOf(e)
              \/ explain'[e].pc = "idle" /\ Ends(e)
<1>1. CASE GoesTo(e, pc)
    <2>1. explain' = [explain EXCEPT ![e] = [explain[e] EXCEPT !.pc = pc, !.since = 0]]
        BY <1>1 DEF GoesTo, LooseTypes
    <2>2. explain[e] \in [pc : {"idle", "bucket", "expire", "cache", "call"},
                          user : Asker, bucket : Bucket, since : Nat]
        BY DEF LooseTypes
    <2> QED BY <2>1, <2>2 DEF LooseTypes, KeyOf
<1>2. CASE Ends(e)
    <2>1. (CHOOSE a \in Asker : TRUE) \in Asker OBVIOUS
    <2>2. 0 \in Bucket
        <3>1. 0 \in 0..Ending /\ 0 \div HourLength = 0 BY ExplainAssumption
        <3> QED BY <3>1, HourFacts
    <2>3. /\ NoExplanation \in [pc : {"idle", "bucket", "expire", "cache", "call"},
                                user : Asker, bucket : Bucket, since : Nat]
          /\ NoExplanation.pc = "idle"
        BY <2>1, <2>2 DEF NoExplanation
    <2>4. explain' = [explain EXCEPT ![e] = NoExplanation] BY <1>2 DEF Ends
    <2>5. /\ explain' \in [Explanation ->
                [pc : {"idle", "bucket", "expire", "cache", "call"},
                 user : Asker, bucket : Bucket, since : Nat]]
          /\ explain'[e].pc = "idle"
          /\ \A d \in Explanation \ {e} : explain'[d] = explain[d]
        BY <2>3, <2>4 DEF LooseTypes
    <2> QED BY <1>2, <2>5 DEF KeyOf
<1> QED BY <1>1, <1>2

\* A request comes at the time of its hour.
LEMMA AskForInv ==
    ASSUME ExplainInv, NEW e \in Explanation, NEW a \in Asker, AskFor(e, a)
    PROVE  ExplainInv'
<1> DEFINE b == tick \div HourLength
           r == [pc |-> IF Limit = 0 THEN "cache" ELSE "bucket", user |-> a,
                 bucket |-> b, since |-> tick]
<1>1. /\ explain[e].pc = "idle" /\ explain' = [explain EXCEPT ![e] = r]
      /\ UNCHANGED <<tick, counter, answer, allowed, leaked>>
    BY DEF AskFor
<1>2. b \in Bucket /\ HourBegin(b) <= tick /\ tick < HourBegin(b) + HourLength
    BY HourFacts DEF ExplainInv, LooseTypes
<1> HIDE DEF b
<1>3. tick \in Nat BY ExplainAssumption DEF ExplainInv, LooseTypes
<1>4. /\ r \in [pc : {"idle", "bucket", "expire", "cache", "call"},
                user : Asker, bucket : Bucket, since : Nat]
      /\ r.pc \in {"cache", "bucket"} /\ r.bucket = b /\ r.since = tick
    BY <1>2, <1>3
<1> HIDE DEF r
<1>5. LooseTypes' /\ explain'[e] = r /\ \A d \in Explanation \ {e} : explain'[d] = explain[d]
    BY <1>1, <1>4 DEF ExplainInv, LooseTypes
<1>6. RequestsInTime'
    <2>1. tick <= tick + Delay BY <1>3, ExplainAssumption
    <2> QED BY <1>1, <1>2, <1>4, <1>5, <2>1 DEF ExplainInv, RequestsInTime
<1>7. CountersLast' /\ AllowedAreCounted'
    BY <1>1 DEF ExplainInv, CountersLast, AllowedAreCounted
<1>8. CountersExpire'
    <2> SUFFICES ASSUME NEW k \in DOMAIN counter, counter[k].n > 0, counter[k].expires = Forever,
                        k \notin leaked
                 PROVE  \E d \in Explanation : explain'[d].pc = "expire" /\ KeyOf(d)' = k
        BY <1>1 DEF CountersExpire
    <2>1. PICK d \in Explanation : explain[d].pc = "expire" /\ KeyOf(d) = k
        BY DEF ExplainInv, CountersExpire
    <2>2. d # e BY <1>1, <2>1
    <2> QED BY <1>5, <2>1, <2>2 DEF KeyOf
<1> QED BY <1>5, <1>6, <1>7, <1>8 DEF ExplainInv

\* The counter of the hour is alive when a request counts itself, so that it
\* counts every request of the hour.
LEMMA IncrementInv ==
    ASSUME Asker # {}, ExplainInv, NEW e \in Explanation, Increment(e)
    PROVE  ExplainInv'
<1> DEFINE k == KeyOf(e)
           n == Counted(k)
<1>1. /\ explain[e].pc = "bucket"
      /\ counter' = [counter EXCEPT ![k] =
                        [n |-> n, expires |-> IF Live(k) THEN @.expires ELSE Forever]]
      /\ GoesTo(e, "expire") \/ GoesTo(e, "cache") \/ Ends(e)
      /\ n = 1 => GoesTo(e, "expire")
      /\ allowed' = IF n <= Limit THEN [allowed EXCEPT ![k] = @ + 1] ELSE allowed
      /\ UNCHANGED <<tick, answer, leaked, asked>>
    BY DEF Increment, FirstOfBucket
<1>2. k \in Asker \X Bucket /\ k[2] = explain[e].bucket /\ k[2] \in Bucket
    BY KeyFacts DEF ExplainInv
<1>3. counter[k].n \in Nat /\ counter[k].expires \in {Forever} \cup Nat /\ allowed[k] \in Nat
    BY <1>2 DEF ExplainInv, LooseTypes
<1>4. Live(k)
    <2> SUFFICES ASSUME counter[k].expires # Forever, counter[k].expires <= tick
                 PROVE  FALSE
        BY <1>3, ExplainAssumption DEF Live, ExplainInv, LooseTypes
    <2>1. HourBegin(k[2]) + CounterLife <= counter[k].expires
        BY <1>2 DEF ExplainInv, CountersLast
    <2>2. /\ tick <= explain[e].since + Delay
          /\ explain[e].since < HourBegin(k[2]) + HourLength
        BY <1>1, <1>2 DEF ExplainInv, RequestsInTime
    <2>3. HourBegin(k[2]) \in Nat BY <1>2, HourBeginNat
    <2>4. explain[e].since \in Nat /\ tick \in Nat
        BY ExplainAssumption DEF ExplainInv, LooseTypes
    <2> QED BY <1>3, <2>1, <2>2, <2>3, <2>4, ExplainAssumption
<1>5. n = counter[k].n + 1 BY <1>4 DEF Counted
<1>6. counter' = [counter EXCEPT ![k] = [n |-> n, expires |-> counter[k].expires]]
    BY <1>1, <1>4
<1> HIDE DEF n
<1>7. /\ counter' \in [Asker \X Bucket -> [n : Nat, expires : {Forever} \cup Nat]]
      /\ counter'[k].n = counter[k].n + 1
      /\ \A l \in Asker \X Bucket :
            /\ counter'[l].expires = counter[l].expires
            /\ l # k => counter'[l] = counter[l]
    BY <1>2, <1>3, <1>5, <1>6 DEF ExplainInv, LooseTypes
<1>8. /\ allowed' \in [Asker \X Bucket -> Nat]
      /\ \A l \in Asker \X Bucket : allowed'[l] <= counter'[l].n /\ allowed'[l] <= Limit
    <2>1. \A l \in Asker \X Bucket : allowed[l] <= counter[l].n /\ allowed[l] <= Limit
        BY DEF ExplainInv, AllowedAreCounted
    <2>2. CASE n <= Limit
        <3>1. allowed' = [allowed EXCEPT ![k] = allowed[k] + 1] BY <1>1, <2>2
        <3>2. allowed'[k] = allowed[k] + 1 /\ \A l \in (Asker \X Bucket) \ {k} : allowed'[l] = allowed[l]
            BY <1>2, <3>1 DEF ExplainInv, LooseTypes
        <3>3. allowed[k] + 1 <= counter'[k].n /\ allowed[k] + 1 <= Limit
            BY <1>2, <1>3, <1>5, <1>7, <2>1, <2>2, ExplainAssumption
        <3>4. allowed' \in [Asker \X Bucket -> Nat]
            BY <1>2, <1>3, <3>1 DEF ExplainInv, LooseTypes
        <3> QED BY <1>7, <2>1, <3>2, <3>3, <3>4
    <2>3. CASE ~(n <= Limit)
        <3>1. allowed' = allowed BY <1>1, <2>3
        <3>2. allowed[k] <= counter[k].n + 1 BY <1>2, <1>3, <2>1
        <3> QED BY <1>7, <2>1, <3>1, <3>2 DEF ExplainInv, LooseTypes
    <2> QED BY <2>2, <2>3
<1>9. PICK pc \in {"expire", "cache"} : (GoesTo(e, pc) \/ Ends(e)) /\ (n = 1 => GoesTo(e, pc) /\ pc = "expire")
    BY <1>1
<1>10. /\ explain' \in [Explanation ->
                [pc : {"idle", "bucket", "expire", "cache", "call"},
                 user : Asker, bucket : Bucket, since : Nat]]
       /\ \A d \in Explanation \ {e} : explain'[d] = explain[d] /\ KeyOf(d)' = KeyOf(d)
       /\ \/ explain'[e].pc = pc /\ explain'[e].bucket = explain[e].bucket /\ KeyOf(e)' = KeyOf(e)
          \/ explain'[e].pc = "idle" /\ Ends(e)
    BY <1>9, OneRequestMoves DEF ExplainInv
<1>11. LooseTypes' BY <1>1, <1>7, <1>8, <1>10 DEF ExplainInv, LooseTypes
<1>12. RequestsInTime' BY <1>1, <1>9, <1>10 DEF ExplainInv, RequestsInTime
<1>13. CountersLast' BY <1>7 DEF ExplainInv, CountersLast
<1>14. AllowedAreCounted' BY <1>8 DEF AllowedAreCounted
<1>15. CountersExpire'
    <2> SUFFICES ASSUME NEW l \in Asker \X Bucket, counter'[l].n > 0, counter'[l].expires = Forever,
                        l \notin leaked
                 PROVE  \E d \in Explanation : explain'[d].pc = "expire" /\ KeyOf(d)' = l
        BY <1>1, <1>7 DEF CountersExpire
    <2>1. CASE counter[l].n > 0
        <3>1. PICK d \in Explanation : explain[d].pc = "expire" /\ KeyOf(d) = l
            BY <1>7, <2>1 DEF ExplainInv, CountersExpire, LooseTypes
        <3>2. d # e BY <1>1, <3>1
        <3> QED BY <1>10, <3>1, <3>2
    <2>2. CASE ~(counter[l].n > 0)
        <3>1. l = k BY <1>7, <2>2
        <3>2. n = 1 BY <1>3, <1>5, <2>2, <3>1
        <3>3. GoesTo(e, "expire") BY <1>9, <3>2
        <3>4. explain'[e].pc = "expire" /\ KeyOf(e)' = KeyOf(e)
            BY <3>3 DEF GoesTo, KeyOf, ExplainInv, LooseTypes
        <3> QED BY <3>1, <3>4
    <2> QED BY <2>1, <2>2
<1> QED BY <1>11, <1>12, <1>13, <1>14, <1>15 DEF ExplainInv

\* A counter that gets its time to live outlasts its hour.
LEMMA SetExpiryInv ==
    ASSUME Asker # {}, ExplainInv, NEW e \in Explanation, SetExpiry(e)
    PROVE  ExplainInv'
<1> DEFINE k == KeyOf(e)
<1>1. /\ explain[e].pc = "expire"
      /\ counter' = [counter EXCEPT ![k].expires = IF Live(k) THEN tick + CounterLife ELSE @]
      /\ GoesTo(e, "cache")
      /\ UNCHANGED <<tick, answer, allowed, leaked, asked>>
    BY DEF SetExpiry, Expiry
<1>2. k \in Asker \X Bucket /\ k[2] = explain[e].bucket /\ k[2] \in Bucket
    BY KeyFacts DEF ExplainInv
<1>3. /\ counter[k].n \in Nat /\ counter[k].expires \in {Forever} \cup Nat
      /\ tick \in Nat /\ CounterLife \in Nat /\ HourBegin(k[2]) \in Nat
    BY <1>2, HourBeginNat, ExplainAssumption DEF ExplainInv, LooseTypes
<1>4. HourBegin(k[2]) <= tick BY <1>1, <1>2 DEF ExplainInv, RequestsInTime
<1> DEFINE x == IF Live(k) THEN tick + CounterLife ELSE counter[k].expires
<1>5. x \in Nat /\ HourBegin(k[2]) + CounterLife <= x
    <2>1. CASE Live(k) BY <1>3, <1>4, <2>1
    <2>2. CASE ~Live(k)
        <3>1. counter[k].expires # Forever BY <2>2 DEF Live
        <3> QED BY <1>2, <1>3, <2>2, <3>1 DEF ExplainInv, CountersLast
    <2> QED BY <2>1, <2>2
<1>6. counter' = [counter EXCEPT ![k] = [counter[k] EXCEPT !.expires = x]]
    BY <1>1, <1>2 DEF ExplainInv, LooseTypes
<1> HIDE DEF x
<1>7. /\ counter' \in [Asker \X Bucket -> [n : Nat, expires : {Forever} \cup Nat]]
      /\ counter'[k].expires = x
      /\ \A l \in Asker \X Bucket :
            /\ counter'[l].n = counter[l].n
            /\ l # k => counter'[l] = counter[l]
    BY <1>2, <1>3, <1>5, <1>6 DEF ExplainInv, LooseTypes
<1>8. /\ explain' \in [Explanation ->
                [pc : {"idle", "bucket", "expire", "cache", "call"},
                 user : Asker, bucket : Bucket, since : Nat]]
      /\ \A d \in Explanation \ {e} : explain'[d] = explain[d] /\ KeyOf(d)' = KeyOf(d)
      /\ \/ explain'[e].pc = "cache" /\ explain'[e].bucket = explain[e].bucket
         \/ explain'[e].pc = "idle"
    BY <1>1, OneRequestMoves DEF ExplainInv
<1>9. LooseTypes' BY <1>1, <1>7, <1>8 DEF ExplainInv, LooseTypes
<1>10. RequestsInTime' BY <1>1, <1>8 DEF ExplainInv, RequestsInTime
<1>11. CountersLast' BY <1>5, <1>7 DEF ExplainInv, CountersLast
<1>12. AllowedAreCounted' BY <1>1, <1>7 DEF ExplainInv, AllowedAreCounted
<1>13. CountersExpire'
    <2> SUFFICES ASSUME NEW l \in Asker \X Bucket, counter'[l].n > 0, counter'[l].expires = Forever,
                        l \notin leaked
                 PROVE  \E d \in Explanation : explain'[d].pc = "expire" /\ KeyOf(d)' = l
        BY <1>1, <1>7 DEF CountersExpire
    <2>1. l # k BY <1>5, <1>7 DEF Forever
    <2>2. PICK d \in Explanation : explain[d].pc = "expire" /\ KeyOf(d) = l
        BY <1>7, <2>1 DEF ExplainInv, CountersExpire, LooseTypes
    <2> QED BY <1>8, <2>1, <2>2
<1> QED BY <1>9, <1>10, <1>11, <1>12, <1>13 DEF ExplainInv

\* What touches no counter: at most a counter leaks.
LEMMA OtherStepsInv ==
    ASSUME Asker # {}, ExplainInv, NEW e \in Explanation,
           FailOpen(e) \/ AnswerCached(e) \/ AskModel(e) \/ ModelAnswers(e) \/ ExplainFails(e)
    PROVE  ExplainInv'
<1>1. /\ UNCHANGED <<tick, counter, allowed>>
      /\ \E pc \in {"cache", "call"} : GoesTo(e, pc) \/ Ends(e)
      /\ explain[e].pc # "idle"
      /\ leaked \subseteq leaked' /\ leaked' \subseteq leaked \cup {KeyOf(e)}
      /\ explain[e].pc = "expire" => KeyOf(e) \in leaked'
    BY DEF FailOpen, AnswerCached, AskModel, ModelAnswers, ExplainFails
<1>2. PICK pc \in {"cache", "call"} : GoesTo(e, pc) \/ Ends(e) BY <1>1
<1>3. /\ explain' \in [Explanation ->
                [pc : {"idle", "bucket", "expire", "cache", "call"},
                 user : Asker, bucket : Bucket, since : Nat]]
      /\ \A d \in Explanation \ {e} : explain'[d] = explain[d] /\ KeyOf(d)' = KeyOf(d)
      /\ \/ explain'[e].pc = pc /\ explain'[e].bucket = explain[e].bucket
         \/ explain'[e].pc = "idle"
    BY <1>2, OneRequestMoves DEF ExplainInv
<1>4. LooseTypes' BY <1>1, <1>3, KeyFacts DEF ExplainInv, LooseTypes
<1>5. RequestsInTime' BY <1>1, <1>2, <1>3 DEF ExplainInv, RequestsInTime
<1>6. CountersLast' /\ AllowedAreCounted'
    BY <1>1 DEF ExplainInv, CountersLast, AllowedAreCounted
<1>7. CountersExpire'
    <2> SUFFICES ASSUME NEW l \in DOMAIN counter, counter[l].n > 0, counter[l].expires = Forever,
                        l \notin leaked'
                 PROVE  \E d \in Explanation : explain'[d].pc = "expire" /\ KeyOf(d)' = l
        BY <1>1 DEF CountersExpire
    <2>1. PICK d \in Explanation : explain[d].pc = "expire" /\ KeyOf(d) = l
        BY <1>1 DEF ExplainInv, CountersExpire
    <2>2. d # e BY <1>1, <2>1
    <2> QED BY <1>3, <2>1, <2>2
<1> QED BY <1>4, <1>5, <1>6, <1>7 DEF ExplainInv

\* The clock waits for who is up to counting himself.
LEMMA ExplainTickInv ==
    ASSUME ExplainInv, ExplainTick
    PROVE  ExplainInv'
<1>1. /\ tick < Ending /\ tick' = tick + 1
      /\ \A e \in Explanation : explain[e].pc = "bucket" => tick - explain[e].since < Delay
      /\ UNCHANGED <<counter, explain, allowed, leaked>>
    BY DEF ExplainTick
<1>2. tick \in Nat /\ Ending \in Nat /\ Delay \in Nat
    BY ExplainAssumption DEF ExplainInv, LooseTypes
<1>3. LooseTypes' BY <1>1, <1>2 DEF ExplainInv, LooseTypes
<1>4. RequestsInTime'
    <2> SUFFICES ASSUME NEW e \in Explanation
                 PROVE  /\ explain[e].pc # "idle" => HourBegin(explain[e].bucket) <= tick + 1
                        /\ explain[e].pc = "bucket" =>
                            /\ tick + 1 <= explain[e].since + Delay
                            /\ explain[e].since < HourBegin(explain[e].bucket) + HourLength
        BY <1>1 DEF RequestsInTime, HourBegin
    <2>1. HourBegin(explain[e].bucket) \in Nat /\ explain[e].since \in Nat
        BY KeyFacts, HourBeginNat DEF ExplainInv, LooseTypes
    <2> QED BY <1>1, <1>2, <2>1 DEF ExplainInv, RequestsInTime
<1>5. CountersLast' /\ AllowedAreCounted'
    BY <1>1 DEF ExplainInv, CountersLast, AllowedAreCounted
<1>6. CountersExpire' BY <1>1 DEF ExplainInv, CountersExpire, KeyOf
<1> QED BY <1>3, <1>4, <1>5, <1>6 DEF ExplainInv

\* Every step keeps the invariant.
LEMMA ExplainNextInv ==
    ASSUME Asker # {}
    PROVE  ExplainInv /\ [ExplainNext]_explainVars => ExplainInv'
<1> SUFFICES ASSUME ExplainInv, [ExplainNext]_explainVars PROVE ExplainInv'
    OBVIOUS
<1>1. CASE UNCHANGED explainVars
    BY <1>1 DEF explainVars, ExplainInv, LooseTypes, RequestsInTime, CountersLast,
                AllowedAreCounted, CountersExpire, KeyOf
<1>2. CASE ExplainNext
    BY <1>2, ExplainTickInv, AskForInv, IncrementInv, SetExpiryInv, OtherStepsInv
       DEF ExplainNext
<1> QED BY <1>1, <1>2

LEMMA ExplainInvariance ==
    ASSUME Asker # {}
    PROVE  ExplainSpec => []ExplainInv
BY ExplainInitInv, ExplainNextInv, PTL DEF ExplainSpec

\* No more than Limit requests of a user are let through for an hour of the
\* clock, however they overlap, for every length of the hour that leaves the
\* slowest request time to count itself before the counter expires.
THEOREM LimitsHold ==
    ASSUME Asker # {}
    PROVE  ExplainSpec => []LimitHolds
<1>1. ExplainInv => LimitHolds
    BY DEF ExplainInv, LooseTypes, AllowedAreCounted, LimitHolds
<1> QED BY <1>1, ExplainInvariance, PTL

\* A counter without a time to live is about to get one, or was left without
\* by a failure of Redis or the death of the process at that very point.
THEOREM AllCountersExpire ==
    ASSUME Asker # {}
    PROVE  ExplainSpec => []CountersExpire
<1>1. ExplainInv => CountersExpire BY DEF ExplainInv
<1> QED BY <1>1, ExplainInvariance, PTL

=============================================================================
