----------------------------- MODULE JobsProofs -----------------------------
(***************************************************************************)
(* What jobs do beside each other: checks of alerts, refreshes of cached   *)
(* schemas, schedulers that start. For any number of each.                 *)
(***************************************************************************)
EXTENDS Alerts, SchemaCache, PeriodicJobs, WellFoundedInduction, TLAPS

-----------------------------------------------------------------------------
(* Numbers                                                                 *)

\* Every set of numbers has a least one, because "less than" is well-founded.
LEMMA LeastNumber ==
    ASSUME NEW S \in SUBSET Nat, S # {}
    PROVE  \E m \in S : \A n \in S : m <= n
<1> DEFINE R == OpToRel(<, Nat)
<1>1. IsWellFoundedOn(R, Nat) BY NatLessThanWellFounded
<1>2. \A n, m \in Nat : <<n, m>> \in R <=> n < m BY DEF OpToRel
<1> HIDE DEF R
<1>3. PICK m \in S : \A n \in S : ~(<<n, m>> \in R) BY <1>1, WFMin
<1>4. \A n \in S : n \in Nat OBVIOUS
<1>5. \A n \in S : ~(n < m) BY <1>2, <1>3, <1>4
<1>6. \A n \in S : m <= n BY <1>4, <1>5
<1> QED BY <1>6

-----------------------------------------------------------------------------
(* Alerts                                                                  *)

\* The alert that comes first.
First(T) == CHOOSE a \in T : \A b \in T : a <= b

\* A check under way has an alert in hand.
BusyOK == \A c \in Check : Checking(c) => check[c].todo # {}

\* A check that will still evaluate an alert.
Ahead(c, a) ==
    /\ Checking(c) /\ a \in check[c].todo
    /\ check[c].pc = "evaluate" \/ a # First(check[c].todo)

\* Checks that take turns know the states as they are ...
LoneOK ==
    /\ \A c, d \in Check : Checking(c) /\ Checking(d) => c = d
    /\ \A c \in Check, a \in Alert :
        Ahead(c, a) => check[c].row[a].state = alert[a].state

\* ... and the verdicts, until a result comes that has a check of its own coming.
TurnsOK ==
    \/ \E d \in Check : check[d].pc = "queued"
    \/ /\ \A c \in Check : Checking(c) => check[c].verdict = verdict
       /\ \A a \in Alert :
             alert[a].state = verdict[a] \/ \E c \in Check : Ahead(c, a)

AlertsInv ==
    /\ AlertsTypeOK /\ BusyOK
    /\ NewsIsTold
    /\ ~overlap => LoneOK
    /\ ~mishap /\ ~overlap => TurnsOK

LEMMA FirstFacts ==
    ASSUME NEW T \in SUBSET Alert, T # {}
    PROVE  First(T) \in T
<1>1. T \in SUBSET Nat BY AlertsAssumption
<1>2. \E a \in T : \A b \in T : a <= b BY <1>1, LeastNumber
<1> QED BY <1>2 DEF First

LEMMA InHandFacts ==
    ASSUME AlertsInv, NEW c \in Check, Checking(c)
    PROVE  /\ InHand(c) = First(check[c].todo)
           /\ InHand(c) \in Alert /\ InHand(c) \in check[c].todo
<1>1. InHand(c) = First(check[c].todo) BY DEF InHand, First
<1>2. check[c].todo \in SUBSET Alert BY DEF AlertsInv, AlertsTypeOK, CheckRecord
<1>3. check[c].todo # {} BY DEF AlertsInv, BusyOK
<1> QED BY <1>1, <1>2, <1>3, FirstFacts

\* A check that is over.
LEMMA OverFacts ==
    ASSUME NEW c
    PROVE  Over(c) \in CheckRecord /\ Over(c).pc = "over"
BY DEF Over, NewCheck, CheckRecord, NewAlert, AlertRecord, State, Verdict

\* What becomes of a check that is through with the alert in hand.
LEMMA OnwardFacts ==
    ASSUME AlertsInv, NEW c \in Check, Checking(c)
    PROVE  /\ Onward(c) \in CheckRecord
           /\ Onward(c).pc = "over" \/ /\ Onward(c).pc = "evaluate"
                                       /\ Onward(c).todo = check[c].todo \ {First(check[c].todo)}
                                       /\ Onward(c).row = check[c].row
                                       /\ Onward(c).verdict = check[c].verdict
                                       /\ Onward(c).todo # {}
           /\ Onward(c).pc = "over" => check[c].todo = {First(check[c].todo)}
<1>1. check[c] \in CheckRecord BY DEF AlertsInv, AlertsTypeOK
<1>2. check[c].todo # {} BY DEF AlertsInv, BusyOK
<1>3. CASE check[c].todo = {InHand(c)}
    <2>1. Onward(c) = Over(c) BY <1>3 DEF Onward
    <2> QED BY <1>3, <2>1, OverFacts, InHandFacts
<1>4. CASE check[c].todo # {InHand(c)}
    <2>1. Onward(c) = [check[c] EXCEPT !.pc = "evaluate", !.todo = @ \ {InHand(c)}]
        BY <1>4 DEF Onward
    <2>2. Onward(c).todo = check[c].todo \ {InHand(c)} /\ Onward(c).todo # {}
        BY <1>1, <1>2, <1>4, <2>1 DEF CheckRecord
    <2>3. Onward(c) \in CheckRecord /\ Onward(c).pc = "evaluate"
          /\ Onward(c).row = check[c].row /\ Onward(c).verdict = check[c].verdict
        BY <1>1, <2>1 DEF CheckRecord
    <2> QED BY <2>2, <2>3, InHandFacts
<1> QED BY <1>3, <1>4

\* A check that does not move tells and will evaluate what it did, where the
\* state of the alert stays.
LEMMA OthersStay ==
    ASSUME AlertsTypeOK, NEW c \in Check, NEW r \in CheckRecord,
           check' = [check EXCEPT ![c] = r]
    PROVE  /\ check' \in [Check -> CheckRecord]
           /\ check'[c] = r
           /\ \A d \in Check \ {c} : check'[d] = check[d]
BY DEF AlertsTypeOK

LEMMA WillTellStays ==
    ASSUME NEW d \in Check, check'[d] = check[d],
           NEW a \in Alert, alert'[a].state = alert[a].state
    PROVE  WillTell(d, a)' <=> WillTell(d, a)
<1>1. InHand(d) = First(check[d].todo) BY DEF InHand, First
<1>2. InHand(d)' = First(check'[d].todo) BY DEF InHand, First
<1> QED BY <1>1, <1>2 DEF WillTell

LEMMA PendingStays ==
    ASSUME NEW d \in Check, check'[d] = check[d], NEW a \in Alert
    PROVE  (Ahead(d, a)' <=> Ahead(d, a)) /\ (Checking(d)' <=> Checking(d))
BY DEF Ahead, Checking

-----------------------------------------------------------------------------

LEMMA AlertsInitInv == AlertsInit => AlertsInv
<1> SUFFICES ASSUME AlertsInit PROVE AlertsInv
    OBVIOUS
<1>1. AlertsTypeOK
    BY DEF AlertsInit, AlertsTypeOK, NewAlert, NewCheck, AlertRecord, CheckRecord, State, Verdict,
           News
<1>2. \A c \in Check : check[c].pc = "new" BY DEF AlertsInit, NewCheck
<1>3. \A a \in Alert : heard[a] # "no" /\ alert[a].state = verdict[a]
    BY DEF AlertsInit, NewAlert
<1> QED BY <1>1, <1>2, <1>3 DEF AlertsInv, BusyOK, NewsIsTold, LoneOK, TurnsOK, Checking, Ahead

\* A result that comes is followed by a check, whatever its verdicts.
LEMMA NewResultInv ==
    ASSUME AlertsInv, NEW c \in Check, NewResult(c)
    PROVE  AlertsInv'
<1> DEFINE r == [check[c] EXCEPT !.pc = "queued"]
<1>1. /\ check[c].pc = "new" /\ check' = [check EXCEPT ![c] = r]
      /\ verdict' \in Outcome /\ UNCHANGED <<alert, heard, overlap, mishap>>
    BY DEF NewResult, AlertsInv, AlertsTypeOK
<1>2. r \in CheckRecord /\ r.pc = "queued"
    BY DEF AlertsInv, AlertsTypeOK, CheckRecord
<1> HIDE DEF r
<1>3. /\ check' \in [Check -> CheckRecord] /\ check'[c] = r
      /\ \A d \in Check \ {c} : check'[d] = check[d]
    BY <1>1, <1>2, OthersStay DEF AlertsInv
<1>4. AlertsTypeOK'
    BY <1>1, <1>3, AlertsAssumption DEF AlertsInv, AlertsTypeOK
<1>5. ~Checking(c) /\ ~Checking(c)' BY <1>1, <1>2, <1>3 DEF Checking
<1>6. BusyOK' BY <1>3, <1>5 DEF AlertsInv, BusyOK, Checking
<1>7. NewsIsTold'
    <2>1. \A d \in Check, a \in Alert : WillTell(d, a) => WillTell(d, a)'
        <3> SUFFICES ASSUME NEW d \in Check, NEW a \in Alert, WillTell(d, a)
                     PROVE  WillTell(d, a)'
            OBVIOUS
        <3>1. d # c BY <1>1 DEF WillTell
        <3> QED BY <1>1, <1>3, <3>1, WillTellStays
    <2> QED BY <1>1, <2>1 DEF AlertsInv, NewsIsTold
<1>8. LoneOK => LoneOK'
    <2>1. \A d \in Check, a \in Alert :
            (Ahead(d, a)' => Ahead(d, a)) /\ (Checking(d)' => Checking(d)) /\ (Checking(d) => d # c)
        BY <1>3, <1>5, PendingStays DEF Ahead
    <2>2. \A d \in Check : Checking(d)' => Checking(d)
        BY <1>3, <1>5 DEF Checking
    <2> QED BY <1>1, <1>3, <1>5, <2>1, <2>2 DEF LoneOK, Ahead
<1>9. TurnsOK' BY <1>2, <1>3 DEF TurnsOK
<1> QED BY <1>1, <1>4, <1>6, <1>7, <1>8, <1>9 DEF AlertsInv

\* A check reads the states and the verdicts as they are.
LEMMA BeginCheckInv ==
    ASSUME AlertsInv, NEW c \in Check, check[c].pc \in {"new", "queued"},
           NEW asked \in BOOLEAN, NEW alerts \in SUBSET Alert, alerts # {},
           check[c].pc = "queued" => alerts = Alert,
           BeginCheck(c, asked, alerts)
    PROVE  AlertsInv'
<1> DEFINE r == [pc |-> "evaluate", asked |-> asked, todo |-> alerts, row |-> alert,
                 verdict |-> verdict, old |-> "unknown"]
<1>1. /\ check' = [check EXCEPT ![c] = r]
      /\ overlap' = (overlap \/ \E d \in Check : Checking(d))
      /\ UNCHANGED <<alert, verdict, heard, mishap>>
    BY DEF BeginCheck
<1>2. /\ r \in CheckRecord /\ r.pc = "evaluate" /\ r.todo = alerts /\ r.row = alert
      /\ r.verdict = verdict
    BY DEF AlertsInv, AlertsTypeOK, CheckRecord, State
<1> HIDE DEF r
<1>3. /\ check' \in [Check -> CheckRecord] /\ check'[c] = r
      /\ \A d \in Check \ {c} : check'[d] = check[d]
    BY <1>1, <1>2, OthersStay DEF AlertsInv
<1>4. AlertsTypeOK' BY <1>1, <1>3 DEF AlertsInv, AlertsTypeOK
<1>5. ~Checking(c) /\ Checking(c)' BY <1>2, <1>3 DEF Checking
<1>6. BusyOK' BY <1>2, <1>3 DEF AlertsInv, BusyOK, Checking
<1>7. NewsIsTold'
    <2>1. \A d \in Check, a \in Alert : WillTell(d, a) => WillTell(d, a)'
        <3> SUFFICES ASSUME NEW d \in Check, NEW a \in Alert, WillTell(d, a)
                     PROVE  WillTell(d, a)'
            OBVIOUS
        <3>1. d # c BY DEF WillTell
        <3> QED BY <1>1, <1>3, <3>1, WillTellStays
    <2> QED BY <1>1, <2>1 DEF AlertsInv, NewsIsTold
<1>8. ASSUME ~overlap' PROVE LoneOK' /\ (~mishap' => TurnsOK')
    <2>1. /\ ~overlap /\ \A d \in Check : ~Checking(d)
          /\ ~mishap => TurnsOK
        BY <1>1, <1>8 DEF AlertsInv
    <2>2. \A d \in Check : Checking(d)' => d = c BY <1>3, <2>1 DEF Checking
    <2>3. \A a \in Alert : Ahead(c, a)' <=> a \in alerts
        BY <1>2, <1>3, <1>5 DEF Ahead
    <2>4. \A d \in Check, a \in Alert : Ahead(d, a)' => d = c BY <2>2 DEF Ahead
    <2>5. \A d \in Check, a \in Alert : ~Ahead(d, a) BY <2>1 DEF Ahead
    <2>6. LoneOK' BY <1>1, <1>2, <1>3, <2>2, <2>4 DEF LoneOK
    <2> SUFFICES ASSUME TurnsOK PROVE TurnsOK' BY <1>1, <2>1, <2>6
    <2>7. CASE \E d \in Check \ {c} : check[d].pc = "queued"
        BY <1>3, <2>7 DEF TurnsOK
    <2>8. CASE ~\E d \in Check \ {c} : check[d].pc = "queued"
        <3>1. \A a \in Alert : alert[a].state = verdict[a] \/ a \in alerts
            <4>1. CASE check[c].pc = "queued" BY <4>1
            <4>2. CASE check[c].pc = "new" BY <2>5, <2>8, <4>2 DEF TurnsOK
            <4> QED BY <4>1, <4>2
        <3> QED BY <1>1, <1>2, <1>3, <2>2, <2>3, <3>1 DEF TurnsOK
    <2> QED BY <2>7, <2>8
<1> QED BY <1>4, <1>6, <1>7, <1>8 DEF AlertsInv

\* A check that dies or raises leaves what others will tell; the news that only
\* it would have told are lost.
LEMMA MishapInv ==
    ASSUME AlertsInv, NEW c \in Check, EvaluateRaises(c) \/ Crash(c)
    PROVE  AlertsInv'
<1> DEFINE a == InHand(c)
<1>1. /\ check' = [check EXCEPT ![c] = Over(c)] /\ mishap' = TRUE
      /\ UNCHANGED <<alert, verdict, overlap>> /\ Checking(c)
    BY DEF EvaluateRaises, Crash, Checking
<1>2. /\ check' \in [Check -> CheckRecord] /\ check'[c] = Over(c)
      /\ \A d \in Check \ {c} : check'[d] = check[d]
    BY <1>1, OverFacts, OthersStay DEF AlertsInv
<1>3. a \in Alert BY <1>1, InHandFacts
<1>4. /\ heard' \in [Alert -> News]
      /\ \A b \in Alert : heard'[b] = "no" => heard[b] = "no" /\ ~WillTell(c, b)
    <2>1. heard \in [Alert -> News] BY DEF AlertsInv, AlertsTypeOK
    <2>2. \A b \in Alert : WillTell(c, b) => b = a BY DEF WillTell
    <2>3. CASE EvaluateRaises(c)
        <3>1. heard' = heard /\ \A b \in Alert : ~WillTell(c, b)
            BY <2>3 DEF EvaluateRaises, WillTell
        <3> QED BY <2>1, <3>1
    <2>4. CASE Crash(c)
        <3> DEFINE n == IF heard[a] = "no" /\ WillTell(c, a) THEN "lost" ELSE heard[a]
        <3>1. heard' = [heard EXCEPT ![a] = n] BY <1>3, <2>1, <2>4 DEF Crash
        <3>2. n \in News /\ (n = "no" => heard[a] = "no" /\ ~WillTell(c, a))
            BY <1>3, <2>1 DEF News
        <3> HIDE DEF n, a
        <3> QED BY <1>3, <2>1, <2>2, <3>1, <3>2
    <2> QED BY <2>3, <2>4
<1>5. AlertsTypeOK' BY <1>1, <1>2, <1>4 DEF AlertsInv, AlertsTypeOK
<1>6. BusyOK' BY <1>2, OverFacts DEF AlertsInv, BusyOK, Checking
<1>7. NewsIsTold'
    <2> SUFFICES ASSUME NEW b \in Alert, heard'[b] = "no"
                 PROVE  (\E d \in Check : WillTell(d, b)') \/ (alert[b].state = "ok" /\ overlap)
        BY <1>1 DEF NewsIsTold
    <2>1. (\E d \in Check : WillTell(d, b)) \/ (alert[b].state = "ok" /\ overlap)
        BY <1>4 DEF AlertsInv, NewsIsTold
    <2>2. \A d \in Check : WillTell(d, b) => WillTell(d, b)'
        <3> SUFFICES ASSUME NEW d \in Check, WillTell(d, b) PROVE WillTell(d, b)'
            OBVIOUS
        <3>1. d # c BY <1>4
        <3> QED BY <1>1, <1>2, <3>1, WillTellStays
    <2> QED BY <2>1, <2>2
<1>8. LoneOK => LoneOK'
    <2>1. ~Checking(c)' BY <1>2, OverFacts DEF Checking
    <2>2. \A d \in Check \ {c}, b \in Alert :
            (Ahead(d, b)' <=> Ahead(d, b)) /\ (Checking(d)' <=> Checking(d))
        BY <1>2, PendingStays
    <2>3. \A d \in Check : Checking(d)' => d # c /\ Checking(d) BY <1>3, <2>1, <2>2
    <2>4. \A d \in Check, b \in Alert : Ahead(d, b)' => d # c /\ Ahead(d, b)
        BY <2>1, <2>2 DEF Ahead
    <2> QED BY <1>1, <1>2, <2>3, <2>4 DEF LoneOK
<1> QED BY <1>1, <1>5, <1>6, <1>7, <1>8 DEF AlertsInv

\* An alert that is as it was: its state is the verdict of the check.
LEMMA EvaluateSameInv ==
    ASSUME AlertsInv, NEW c \in Check, EvaluateSame(c)
    PROVE  AlertsInv'
<1> DEFINE r == IF check[c].asked THEN [check[c] EXCEPT !.pc = "notify"] ELSE Onward(c)
           a == First(check[c].todo)
<1>1. /\ check[c].pc = "evaluate" /\ check' = [check EXCEPT ![c] = r]
      /\ check[c].verdict[InHand(c)] = check[c].row[InHand(c)].state
      /\ UNCHANGED <<alert, verdict, heard, overlap, mishap>>
    BY DEF EvaluateSame, ShouldNotify
<1>2. Checking(c) /\ InHand(c) = a /\ a \in Alert /\ a \in check[c].todo
    BY <1>1, InHandFacts DEF Checking
<1>3. /\ r \in CheckRecord
      /\ r.pc \in {"notify", "evaluate"} => r.row = check[c].row /\ r.verdict = check[c].verdict
      /\ r.pc = "notify" => r.todo = check[c].todo
      /\ r.pc = "evaluate" => r.todo = check[c].todo \ {a} /\ r.todo # {}
      /\ r.pc \notin {"notify", "evaluate"} => r.pc = "over" /\ check[c].todo = {a}
    <2>1. check[c] \in CheckRecord BY DEF AlertsInv, AlertsTypeOK
    <2>2. CASE check[c].asked
        <3>1. r = [check[c] EXCEPT !.pc = "notify"] BY <2>2
        <3> HIDE DEF r
        <3> QED BY <2>1, <3>1 DEF CheckRecord
    <2>3. CASE ~check[c].asked
        <3>1. r = Onward(c) BY <2>3
        <3> HIDE DEF r
        <3> QED BY <1>2, <3>1, OnwardFacts
    <2> QED BY <2>2, <2>3
<1> HIDE DEF r
<1>4. /\ check' \in [Check -> CheckRecord] /\ check'[c] = r
      /\ \A d \in Check \ {c} : check'[d] = check[d]
    BY <1>1, <1>3, OthersStay DEF AlertsInv
<1>5. AlertsTypeOK' BY <1>1, <1>4 DEF AlertsInv, AlertsTypeOK
<1>6. BusyOK'
    BY <1>2, <1>3, <1>4 DEF AlertsInv, BusyOK, Checking
<1>7. NewsIsTold'
    <2>1. \A d \in Check, b \in Alert : WillTell(d, b) => WillTell(d, b)'
        <3> SUFFICES ASSUME NEW d \in Check, NEW b \in Alert, WillTell(d, b)
                     PROVE  WillTell(d, b)'
            OBVIOUS
        <3>1. d # c BY <1>1 DEF WillTell
        <3> QED BY <1>1, <1>4, <3>1, WillTellStays
    <2> QED BY <1>1, <2>1 DEF AlertsInv, NewsIsTold
<1>8. LoneOK => LoneOK' /\ (TurnsOK => TurnsOK')
    <2> SUFFICES ASSUME LoneOK PROVE LoneOK' /\ (TurnsOK => TurnsOK')
        OBVIOUS
    <2>1. \A b \in Alert : Ahead(c, b)' <=> Ahead(c, b) /\ b # a
        <3>1. r.pc = "notify" => First(r.todo) = a BY <1>3
        <3> QED BY <1>1, <1>2, <1>3, <1>4, <3>1 DEF Ahead, Checking
    <2>2. \A d \in Check \ {c}, b \in Alert :
            (Ahead(d, b)' <=> Ahead(d, b)) /\ (Checking(d)' <=> Checking(d))
        BY <1>4, PendingStays
    <2>3. \A d \in Check : Checking(d)' => Checking(d)
        BY <1>2, <2>2
    <2>4. \A d \in Check : Checking(d)' => check'[d].row = check[d].row
                                           /\ check'[d].verdict = check[d].verdict
        BY <1>3, <1>4 DEF Checking
    <2>5. \A d \in Check, b \in Alert :
            Ahead(d, b)' => check'[d].row[b].state = alert'[b].state
        <3>1. \A d \in Check, b \in Alert : Ahead(d, b)' => Ahead(d, b) /\ Checking(d)'
            BY <2>1, <2>2 DEF Ahead
        <3> QED BY <1>1, <2>4, <3>1 DEF LoneOK
    <2>6. check[c].verdict = verdict => alert[a].state = verdict[a]
        <3>1. Ahead(c, a) BY <1>1, <1>2 DEF Ahead
        <3> QED BY <1>1, <1>2, <3>1 DEF LoneOK
    <2>9. LoneOK' BY <2>3, <2>5 DEF LoneOK
    <2> SUFFICES ASSUME TurnsOK PROVE TurnsOK' BY <2>9
    <2>7. CASE \E d \in Check : check[d].pc = "queued"
        BY <1>1, <1>4, <2>7 DEF TurnsOK
    <2>8. CASE ~\E d \in Check : check[d].pc = "queued"
        <3>1. \A d \in Check : Checking(d)' => check'[d].verdict = verdict'
            BY <1>1, <2>3, <2>4, <2>8 DEF TurnsOK
        <3>2. \A b \in Alert : alert'[b].state = verdict'[b] \/ \E d \in Check : Ahead(d, b)'
            <4> SUFFICES ASSUME NEW b \in Alert, alert[b].state # verdict[b]
                         PROVE  \E d \in Check : Ahead(d, b)'
                BY <1>1
            <4>1. PICK d \in Check : Ahead(d, b) BY <2>8 DEF TurnsOK
            <4>2. b # a BY <1>2, <2>6, <2>8 DEF TurnsOK
            <4> QED BY <2>1, <2>2, <4>1, <4>2
        <3> QED BY <3>1, <3>2 DEF TurnsOK
    <2> QED BY <2>7, <2>8
<1> QED BY <1>1, <1>5, <1>6, <1>7, <1>8 DEF AlertsInv

\* A new state is committed: this check will tell it, if it knew the old one.
LEMMA EvaluateNewInv ==
    ASSUME AlertsInv, NEW c \in Check, EvaluateNew(c)
    PROVE  AlertsInv'
<1> DEFINE a == First(check[c].todo)
           new == check[c].verdict[a]
           row == check[c].row[a]
           state == IF new = row.state THEN alert[a].state ELSE new
           n == IF state = alert[a].state THEN heard[a]
                ELSE IF IsNews(alert[a].state, state) THEN "no" ELSE "told"
           r == [check[c] EXCEPT !.pc = "notify", !.old = row.state]
<1>1. check[c].pc = "evaluate" BY DEF EvaluateNew
<1>2. Checking(c) /\ InHand(c) = a /\ a \in Alert /\ a \in check[c].todo
    BY <1>1, InHandFacts DEF Checking
<1>3. /\ new # "raises" /\ check' = [check EXCEPT ![c] = r]
      /\ alert' = [alert EXCEPT ![a].state = state, ![a].rearmed = FALSE]
      /\ heard' = [heard EXCEPT ![a] = n]
      /\ UNCHANGED <<verdict, overlap, mishap>>
    <2>1. check' = [check EXCEPT ![c].pc = "notify", ![c].old = check[c].row[a].state]
        BY <1>2 DEF EvaluateNew
    <2> QED BY <1>2, <2>1 DEF EvaluateNew, AlertsInv, AlertsTypeOK
<1>4. check[c] \in CheckRecord BY DEF AlertsInv, AlertsTypeOK
<1>5. /\ new \in State /\ row \in AlertRecord /\ state \in State
      /\ n \in News /\ heard \in [Alert -> News]
    BY <1>2, <1>3, <1>4
    DEF CheckRecord, Verdict, State, AlertsInv, AlertsTypeOK, AlertRecord, News
<1>6. /\ r \in CheckRecord /\ r.pc = "notify" /\ r.old = row.state
      /\ r.todo = check[c].todo /\ r.row = check[c].row /\ r.verdict = check[c].verdict
      /\ r.asked = check[c].asked
    BY <1>4, <1>5 DEF CheckRecord, AlertRecord
<1> HIDE DEF r
<1>7. /\ check' \in [Check -> CheckRecord] /\ check'[c] = r
      /\ \A d \in Check \ {c} : check'[d] = check[d]
    BY <1>3, <1>6, OthersStay DEF AlertsInv
<1>8. /\ alert' \in [Alert -> AlertRecord] /\ alert'[a].state = state
      /\ \A b \in Alert \ {a} : alert'[b] = alert[b]
    <2> HIDE DEF state
    <2> QED BY <1>2, <1>3, <1>5 DEF AlertsInv, AlertsTypeOK, AlertRecord
<1>9. heard' \in [Alert -> News] /\ heard'[a] = n /\ \A b \in Alert \ {a} : heard'[b] = heard[b]
    <2> HIDE DEF n
    <2> QED BY <1>2, <1>3, <1>5
<1>10. AlertsTypeOK' BY <1>3, <1>7, <1>8, <1>9 DEF AlertsInv, AlertsTypeOK
<1>11. BusyOK' BY <1>2, <1>6, <1>7 DEF AlertsInv, BusyOK, Checking
<1>12. NewsIsTold'
    <2> SUFFICES ASSUME NEW b \in Alert, heard'[b] = "no"
                 PROVE  (\E d \in Check : WillTell(d, b)') \/ (alert'[b].state = "ok" /\ overlap)
        BY <1>3 DEF NewsIsTold
    <2>1. CASE alert'[b].state = alert[b].state
        <3>1. heard[b] = "no" BY <1>8, <1>9, <2>1
        <3>2. \A d \in Check : WillTell(d, b) => WillTell(d, b)'
            <4> SUFFICES ASSUME NEW d \in Check, WillTell(d, b) PROVE WillTell(d, b)'
                OBVIOUS
            <4>1. d # c BY <1>1 DEF WillTell
            <4> QED BY <1>7, <2>1, <4>1, WillTellStays
        <3> QED BY <2>1, <3>1, <3>2 DEF AlertsInv, NewsIsTold
    <2>2. CASE alert'[b].state # alert[b].state
        <3>1. b = a /\ state # alert[a].state BY <1>8, <2>2
        <3>2. state = new /\ IsNews(alert[a].state, new) BY <1>9, <3>1
        <3>3. InHand(c)' = a BY <1>6, <1>7 DEF InHand, First
        <3>4. CASE ~overlap
            <4>1. row.state = alert[a].state
                BY <1>1, <1>2, <3>4 DEF AlertsInv, LoneOK, Ahead
            <4> QED BY <1>6, <1>7, <1>8, <3>1, <3>2, <3>3, <4>1 DEF WillTell
        <3>5. CASE overlap
            <4>1. CASE new = "ok" BY <1>8, <3>1, <3>2, <3>5, <4>1
            <4>2. CASE new # "ok"
                BY <1>6, <1>7, <1>8, <3>1, <3>2, <3>3, <4>2 DEF WillTell, IsNews
            <4> QED BY <4>1, <4>2
        <3> QED BY <3>4, <3>5
    <2> QED BY <2>1, <2>2
<1>13. LoneOK => LoneOK' /\ (TurnsOK => TurnsOK')
    <2> SUFFICES ASSUME LoneOK PROVE LoneOK' /\ (TurnsOK => TurnsOK')
        OBVIOUS
    <2>7. state = new
        <3>1. row.state = alert[a].state BY <1>1, <1>2 DEF LoneOK, Ahead
        <3> QED BY <3>1
    <2>1. \A b \in Alert : Ahead(c, b)' <=> Ahead(c, b) /\ b # a
        BY <1>1, <1>2, <1>6, <1>7 DEF Ahead, Checking
    <2>2. \A d \in Check \ {c}, b \in Alert :
            (Ahead(d, b)' <=> Ahead(d, b)) /\ (Checking(d)' <=> Checking(d))
        BY <1>7, PendingStays
    <2>3. \A d \in Check : Checking(d)' => Checking(d) /\ d = c
        BY <1>2, <2>2 DEF LoneOK
    <2>4. \A d \in Check, b \in Alert :
            Ahead(d, b)' => check'[d].row[b].state = alert'[b].state
        <3>1. \A d \in Check, b \in Alert : Ahead(d, b)' => d = c /\ Ahead(c, b) /\ b # a
            BY <2>1, <2>3 DEF Ahead
        <3> QED BY <1>6, <1>7, <1>8, <3>1 DEF LoneOK
    <2>8. LoneOK' BY <2>3, <2>4 DEF LoneOK
    <2> SUFFICES ASSUME TurnsOK PROVE TurnsOK' BY <2>8
    <2>5. CASE \E d \in Check : check[d].pc = "queued"
        BY <1>1, <1>7, <2>5 DEF TurnsOK
    <2>6. CASE ~\E d \in Check : check[d].pc = "queued"
        <3>1. \A d \in Check : Checking(d)' => check'[d].verdict = verdict'
            BY <1>3, <1>6, <1>7, <2>3, <2>6 DEF TurnsOK
        <3>2. \A b \in Alert : alert'[b].state = verdict'[b] \/ \E d \in Check : Ahead(d, b)'
            <4> SUFFICES ASSUME NEW b \in Alert, alert'[b].state # verdict[b]
                         PROVE  \E d \in Check : Ahead(d, b)'
                BY <1>3
            <4>1. b # a BY <1>2, <1>8, <2>6, <2>7 DEF TurnsOK
            <4>2. PICK d \in Check : Ahead(d, b) BY <1>8, <2>6, <4>1 DEF TurnsOK
            <4> QED BY <2>1, <2>2, <4>1, <4>2
        <3> QED BY <3>1, <3>2 DEF TurnsOK
    <2> QED BY <2>5, <2>6
<1> QED BY <1>3, <1>10, <1>11, <1>12, <1>13 DEF AlertsInv

\* A notification tells the state the alert is in, or another check will.
LEMMA NotifyInv ==
    ASSUME AlertsInv, NEW c \in Check, Notify(c)
    PROVE  AlertsInv'
<1> DEFINE a == First(check[c].todo)
           n == HeardAfter(c, a)
<1>1. check[c].pc = "notify" BY DEF Notify
<1>2. Checking(c) /\ InHand(c) = a /\ a \in Alert /\ a \in check[c].todo
    BY <1>1, InHandFacts DEF Checking
<1>3. /\ heard' = [heard EXCEPT ![a] = n]
      /\ check' = [check EXCEPT ![c] = Onward(c)]
      /\ UNCHANGED <<alert, verdict, overlap, mishap>>
    BY <1>2 DEF Notify
<1>4. /\ check' \in [Check -> CheckRecord] /\ check'[c] = Onward(c)
      /\ \A d \in Check \ {c} : check'[d] = check[d]
    BY <1>2, <1>3, OnwardFacts, OthersStay DEF AlertsInv
<1>5. /\ heard' \in [Alert -> News]
      /\ \A b \in Alert : heard'[b] = "no" => heard[b] = "no" /\ ~WillTell(c, b)
    <2>1. heard \in [Alert -> News] BY DEF AlertsInv, AlertsTypeOK
    <2>2. \A b \in Alert : WillTell(c, b) => b = a BY <1>2 DEF WillTell
    <2>3. n \in News BY <1>2, <2>1 DEF HeardAfter, News
    <2>4. ASSUME n = "no" PROVE heard[a] = "no" /\ ~WillTell(c, a)
        <3>1. heard[a] = "no" BY <2>4 DEF HeardAfter
        <3>2. CASE alert[a].state # check[c].verdict[a] BY <3>1, <3>2 DEF WillTell
        <3>3. CASE alert[a].state = check[c].verdict[a]
            <4>1. Skipped(c) /\ ~check[c].row[a].muted BY <2>4, <3>1, <3>3 DEF HeardAfter
            <4> QED BY <1>2, <3>1, <4>1 DEF Skipped, WillTell
        <3> QED BY <3>2, <3>3
    <2> HIDE DEF n, a
    <2> QED BY <1>2, <1>3, <2>1, <2>2, <2>3, <2>4
<1>6. AlertsTypeOK' BY <1>3, <1>4, <1>5 DEF AlertsInv, AlertsTypeOK
<1>7. BusyOK' BY <1>2, <1>4, OnwardFacts DEF AlertsInv, BusyOK, Checking
<1>8. NewsIsTold'
    <2> SUFFICES ASSUME NEW b \in Alert, heard'[b] = "no"
                 PROVE  (\E d \in Check : WillTell(d, b)') \/ (alert[b].state = "ok" /\ overlap)
        BY <1>3 DEF NewsIsTold
    <2>1. (\E d \in Check : WillTell(d, b)) \/ (alert[b].state = "ok" /\ overlap)
        BY <1>5 DEF AlertsInv, NewsIsTold
    <2>2. \A d \in Check : WillTell(d, b) => WillTell(d, b)'
        <3> SUFFICES ASSUME NEW d \in Check, WillTell(d, b) PROVE WillTell(d, b)'
            OBVIOUS
        <3>1. d # c BY <1>5
        <3> QED BY <1>3, <1>4, <3>1, WillTellStays
    <2> QED BY <2>1, <2>2
<1>9. LoneOK => LoneOK' /\ (TurnsOK => TurnsOK')
    <2> SUFFICES ASSUME LoneOK PROVE LoneOK' /\ (TurnsOK => TurnsOK')
        OBVIOUS
    <2>1. \A b \in Alert : Ahead(c, b)' <=> Ahead(c, b)
        BY <1>1, <1>2, <1>4, OnwardFacts DEF Ahead, Checking
    <2>2. \A d \in Check \ {c}, b \in Alert :
            (Ahead(d, b)' <=> Ahead(d, b)) /\ (Checking(d)' <=> Checking(d))
        BY <1>4, PendingStays
    <2>3. \A d \in Check : Checking(d)' => Checking(d) /\ d = c
        BY <1>2, <2>2 DEF LoneOK
    <2>4. Checking(c)' => check'[c].row = check[c].row /\ check'[c].verdict = check[c].verdict
        BY <1>2, <1>4, OnwardFacts DEF Checking
    <2>5. \A d \in Check, b \in Alert :
            Ahead(d, b)' => check'[d].row[b].state = alert'[b].state
        <3>1. \A d \in Check, b \in Alert : Ahead(d, b)' => d = c /\ Ahead(c, b) /\ Checking(c)'
            BY <2>1, <2>3 DEF Ahead
        <3> QED BY <1>3, <2>4, <3>1 DEF LoneOK
    <2>8. LoneOK' BY <2>3, <2>5 DEF LoneOK
    <2> SUFFICES ASSUME TurnsOK PROVE TurnsOK' BY <2>8
    <2>6. CASE \E d \in Check : check[d].pc = "queued"
        BY <1>1, <1>4, <2>6 DEF TurnsOK
    <2>7. CASE ~\E d \in Check : check[d].pc = "queued"
        <3>1. \A d \in Check : Checking(d)' => check'[d].verdict = verdict'
            BY <1>3, <2>3, <2>4, <2>7 DEF TurnsOK
        <3>2. \A b \in Alert : alert'[b].state = verdict'[b] \/ \E d \in Check : Ahead(d, b)'
            BY <1>3, <2>1, <2>2, <2>7 DEF TurnsOK
        <3> QED BY <3>1, <3>2 DEF TurnsOK
    <2> QED BY <2>6, <2>7
<1> QED BY <1>3, <1>6, <1>7, <1>8, <1>9 DEF AlertsInv

\* Time and people change no state.
LEMMA RearmInv ==
    ASSUME AlertsInv, NEW a \in Alert, RearmPasses(a) \/ Mute(a)
    PROVE  AlertsInv'
<1>1. UNCHANGED <<verdict, check, heard, overlap, mishap>>
    BY DEF RearmPasses, Mute
<1>2. /\ alert' \in [Alert -> AlertRecord]
      /\ \A b \in Alert : alert'[b].state = alert[b].state
    <2>1. alert \in [Alert -> AlertRecord] BY DEF AlertsInv, AlertsTypeOK
    <2>2. CASE RearmPasses(a)
        <3>1. alert' = [alert EXCEPT ![a].rearmed = TRUE] BY <2>2 DEF RearmPasses
        <3> QED BY <2>1, <3>1 DEF AlertRecord
    <2>3. CASE Mute(a)
        <3>1. alert' = [alert EXCEPT ![a].muted = ~alert[a].muted] BY <2>1, <2>3 DEF Mute
        <3>2. (~alert[a].muted) \in BOOLEAN BY <2>1 DEF AlertRecord
        <3> QED BY <2>1, <3>1, <3>2 DEF AlertRecord
    <2> QED BY <2>2, <2>3
<1>3. AlertsTypeOK' BY <1>1, <1>2 DEF AlertsInv, AlertsTypeOK
<1>4. BusyOK' BY <1>1 DEF AlertsInv, BusyOK, Checking
<1>5. NewsIsTold'
    <2>1. \A d \in Check, b \in Alert : WillTell(d, b)' <=> WillTell(d, b)
        BY <1>1, <1>2, WillTellStays
    <2> QED BY <1>1, <1>2, <2>1 DEF AlertsInv, NewsIsTold
<1>6. (LoneOK => LoneOK') /\ (TurnsOK => TurnsOK')
    <2>1. \A d \in Check, b \in Alert :
            (Ahead(d, b)' <=> Ahead(d, b)) /\ (Checking(d)' <=> Checking(d))
        BY <1>1, PendingStays
    <2> QED BY <1>1, <1>2, <2>1 DEF LoneOK, TurnsOK
<1> QED BY <1>1, <1>3, <1>4, <1>5, <1>6 DEF AlertsInv

\* Every step keeps the invariant.
LEMMA AlertsNextInv ==
    ASSUME Alert # {}
    PROVE  AlertsInv /\ [AlertsNext]_alertsVars => AlertsInv'
<1> SUFFICES ASSUME AlertsInv, [AlertsNext]_alertsVars PROVE AlertsInv'
    OBVIOUS
<1>1. CASE UNCHANGED alertsVars
    <2>1. UNCHANGED <<alert, verdict, check, heard, overlap, mishap>> BY <1>1 DEF alertsVars
    <2>2. \A d \in Check, b \in Alert :
            /\ WillTell(d, b)' <=> WillTell(d, b)
            /\ (Ahead(d, b)' <=> Ahead(d, b)) /\ (Checking(d)' <=> Checking(d))
        BY <2>1, WillTellStays, PendingStays
    <2>3. AlertsTypeOK' BY <2>1 DEF AlertsInv, AlertsTypeOK
    <2>4. BusyOK' BY <2>1 DEF AlertsInv, BusyOK, Checking
    <2>5. NewsIsTold' BY <2>1, <2>2 DEF AlertsInv, NewsIsTold
    <2>6. (LoneOK => LoneOK') /\ (TurnsOK => TurnsOK')
        BY <2>1, <2>2 DEF LoneOK, TurnsOK
    <2> QED BY <2>1, <2>3, <2>4, <2>5, <2>6 DEF AlertsInv
<1>2. ASSUME NEW c \in Check, Begin(c) PROVE AlertsInv'
    BY <1>2, BeginCheckInv DEF Begin
<1>3. ASSUME NEW c \in Check, NEW a \in Alert, EvaluateOnRequest(c, a) PROVE AlertsInv'
    <2>1. {a} \in SUBSET Alert /\ {a} # {} /\ check[c].pc = "new" /\ BeginCheck(c, TRUE, {a})
        BY <1>3 DEF EvaluateOnRequest
    <2> QED BY <2>1, BeginCheckInv
<1>4. CASE AlertsNext
    BY <1>2, <1>3, <1>4, NewResultInv, MishapInv, EvaluateSameInv, EvaluateNewInv,
       NotifyInv, RearmInv DEF AlertsNext
<1> QED BY <1>1, <1>4

\* News are told or about to be, however checks and requests overlap, and
\* whichever check dies: only the one that was about to tell loses them. With
\* overlap this is so of every state but "ok".
THEOREM NewsAreTold ==
    ASSUME Alert # {}
    PROVE  AlertsSpec => []NewsIsTold
<1>1. AlertsInv => NewsIsTold BY DEF AlertsInv
<1> QED BY <1>1, AlertsInitInv, AlertsNextInv, PTL DEF AlertsSpec

\* Checks that take turns leave every alert in the state that its latest
\* result calls for.
THEOREM StatesFollowVerdicts ==
    ASSUME Alert # {}
    PROVE  AlertsSpec => []StatesAreVerdicts
<1>1. AlertsInv => StatesAreVerdicts
    <2>1. AtRest => \A c \in Check, a \in Alert : check[c].pc # "queued" /\ ~Ahead(c, a)
        BY DEF AtRest, Ahead, Checking
    <2> QED BY <2>1 DEF AlertsInv, TurnsOK, StatesAreVerdicts
<1> QED BY <1>1, AlertsInitInv, AlertsNextInv, PTL DEF AlertsSpec

-----------------------------------------------------------------------------
(* Schemas                                                                 *)

USE SchemaAssumption

\* A refresh that can still become the newest one has no job beside it, and
\* what is about to be written is no older than any refresh that went through.
GetterOK(g) ==
    /\ getter[g].pc # "idle" => getter[g].since <= catalogue
    /\ getter[g].pc = "look" => ~getter[g].refresh
    /\ getter[g].pc = "store" =>
        getter[g].since <= getter[g].schema /\ fresh <= getter[g].schema
    /\ getter[g].pc # "idle" /\ getter[g].alone =>
        \A h \in Getter \ {g} : getter[h].pc = "idle"
GettersOK == \A g \in Getter : GetterOK(g)

CacheOK == fresh <= catalogue /\ (cached # Uncached => fresh <= cached)

\* Without a late job nobody is left who could write the cache again.
DeletionOK == deletion = "key" /\ ~late => cached = Uncached /\ Getting = {}

SchemaInv == SchemaTypeOK /\ GettersOK /\ CacheOK /\ DeletionOK

GetterRecord ==
    [pc : {"idle", "look", "fetch", "store"}, refresh : BOOLEAN, schema : Version,
     since : Version, alone : BOOLEAN]

-----------------------------------------------------------------------------
(* The invariant                                                           *)

\* The record of the type invariant, by its name.
LEMMA GetterTyped == SchemaTypeOK => getter \in [Getter -> GetterRecord]
BY DEF SchemaTypeOK, GetterRecord

\* An idle job is a record like any other.
LEMMA NoGetTyped == NoGet \in GetterRecord
BY DEF NoGet, GetterRecord, Version

\* An empty cache and no jobs.
LEMMA SchemaInitInv == SchemaInit => SchemaInv
<1> SUFFICES ASSUME SchemaInit PROVE SchemaInv
    OBVIOUS
<1>1. SchemaTypeOK
    <2>1. getter \in [Getter -> GetterRecord]
        BY NoGetTyped DEF SchemaInit
    <2>2. 0 \in Version BY DEF Version
    <2> QED BY <2>1, <2>2 DEF SchemaInit, SchemaTypeOK, GetterRecord
<1>2. GettersOK /\ CacheOK /\ DeletionOK
    BY DEF SchemaInit, GettersOK, GetterOK, CacheOK, DeletionOK, NoGet, Uncached
<1> QED BY <1>1, <1>2 DEF SchemaInv

\* A job that begins is alone if there is no other, and then ends that for others.
LEMMA BeginGetInv ==
    ASSUME SchemaInv, NEW g \in Getter, NEW refresh \in BOOLEAN, BeginGet(g, refresh)
    PROVE  SchemaInv'
<1> DEFINE new == [pc |-> FirstLook(refresh), refresh |-> refresh, schema |-> 0,
                   since |-> catalogue, alone |-> Getting = {}]
<1>1. /\ getter' = [h \in Getter |-> IF h = g THEN new ELSE [getter[h] EXCEPT !.alone = FALSE]]
      /\ UNCHANGED <<catalogue, cached, deletion, fresh, late>> /\ deletion = "none"
    BY DEF BeginGet
<1>2. getter \in [Getter -> GetterRecord] /\ catalogue \in Version
    BY GetterTyped DEF SchemaInv, SchemaTypeOK
<1>3. new \in GetterRecord
    <2>1. (Getting = {}) \in BOOLEAN OBVIOUS
    <2> QED BY <1>2, <2>1 DEF GetterRecord, FirstLook, Version
<1>4. \A h \in Getter \ {g} : getter'[h] \in GetterRecord
    BY <1>1, <1>2 DEF GetterRecord
<1>5. getter' \in [Getter -> GetterRecord]
    BY <1>1, <1>3, <1>4
<1>6. SchemaTypeOK'
    BY <1>1, <1>5 DEF SchemaInv, SchemaTypeOK, GetterRecord, Version
<1>7. ASSUME NEW h \in Getter PROVE GetterOK(h)'
    <2>1. CASE h = g
        <3>1. getter'[g] = new BY <1>1
        <3>2. getter'[g].pc # "store" /\ (getter'[g].pc = "look" => ~getter'[g].refresh)
            BY <3>1 DEF FirstLook
        <3>3. getter'[g].since = catalogue BY <3>1
        <3>4. getter'[g].alone => \A k \in Getter \ {g} : getter'[k].pc = "idle"
            BY <1>1, <1>2, <3>1 DEF Getting, GetterRecord
        <3> QED BY <1>1, <1>2, <2>1, <3>2, <3>3, <3>4 DEF GetterOK, Version
    <2>2. CASE h # g
        <3>1. /\ getter'[h].pc = getter[h].pc /\ getter'[h].since = getter[h].since
              /\ getter'[h].refresh = getter[h].refresh /\ getter'[h].schema = getter[h].schema
              /\ getter'[h].alone = FALSE
            BY <1>1, <1>2, <2>2 DEF GetterRecord
        <3> QED BY <1>1, <3>1 DEF GetterOK, SchemaInv, GettersOK
    <2> QED BY <2>1, <2>2
<1>8. CacheOK' /\ DeletionOK'
    BY <1>1 DEF SchemaInv, CacheOK, DeletionOK
<1> QED BY <1>6, <1>7, <1>8 DEF SchemaInv, GettersOK

\* A job that ends, having counted as a refresh or not, leaves an invariant
\* state behind if what it wrote is new enough.
LEMMA EndInv ==
    ASSUME SchemaInv, NEW g \in Getter, getter[g].pc # "idle",
           getter' = [getter EXCEPT ![g] = NoGet],
           UNCHANGED <<catalogue, deletion, late>>,
           fresh' = fresh \/ (getter[g].alone /\ fresh' = getter[g].since /\ fresh' > fresh),
           cached' \in Version \cup {Uncached},
           cached' # Uncached => fresh' <= cached'
    PROVE  SchemaInv'
<1>1. getter \in [Getter -> GetterRecord] /\ getter[g] \in GetterRecord
    BY GetterTyped DEF SchemaInv
<1>2. fresh' \in Version \cup {Uncached} /\ fresh' <= catalogue
    BY <1>1 DEF SchemaInv, SchemaTypeOK, CacheOK, GettersOK, GetterOK, GetterRecord, Version
<1>3. SchemaTypeOK'
    BY <1>1, <1>2, NoGetTyped DEF SchemaInv, SchemaTypeOK, GetterRecord
<1>4. \A h \in Getter \ {g} : getter'[h] = getter[h] /\ GetterOK(h)
    BY <1>1 DEF SchemaInv, GettersOK
<1>5. getter'[g] = NoGet /\ getter'[g].pc = "idle"
    BY <1>1 DEF NoGet
<1>6. ASSUME NEW h \in Getter PROVE GetterOK(h)'
    <2>1. CASE h = g
        BY <1>5, <2>1 DEF GetterOK
    <2>2. CASE h # g /\ fresh' = fresh
        BY <1>4, <1>5, <2>2 DEF GetterOK
    <2>3. CASE h # g /\ getter[g].alone
        <3>1. getter'[h].pc = "idle" BY <1>4, <2>3 DEF SchemaInv, GettersOK, GetterOK
        <3> QED BY <3>1 DEF GetterOK
    <2> QED BY <2>1, <2>2, <2>3
<1>7. CacheOK' BY <1>2 DEF CacheOK
<1>8. DeletionOK' BY DEF SchemaInv, DeletionOK, Getting
<1> QED BY <1>3, <1>6, <1>7, <1>8 DEF SchemaInv, GettersOK

\* A look in the cache is over, or goes on to the catalogue; it never refreshes.
LEMMA LookInCacheInv ==
    ASSUME SchemaInv, NEW g \in Getter, LookInCache(g)
    PROVE  SchemaInv'
<1>1. getter \in [Getter -> GetterRecord] /\ getter[g] \in GetterRecord
    BY GetterTyped DEF SchemaInv
<1>2. CASE cached = Uncached
    <2>1. getter' = [getter EXCEPT ![g].pc = "fetch"]
          /\ UNCHANGED <<catalogue, cached, deletion, fresh, late>>
        BY <1>2 DEF LookInCache
    <2>2. getter' \in [Getter -> GetterRecord]
        <3>1. [getter[g] EXCEPT !.pc = "fetch"] \in GetterRecord BY <1>1 DEF GetterRecord
        <3> QED BY <1>1, <2>1, <3>1
    <2>3. ASSUME NEW h \in Getter PROVE GetterOK(h)'
        <3>1. /\ getter'[h].since = getter[h].since /\ getter'[h].alone = getter[h].alone
              /\ (getter'[h].pc = "idle") <=> (getter[h].pc = "idle")
              /\ getter'[h].refresh = getter[h].refresh /\ getter'[h].schema = getter[h].schema
              /\ getter'[h].pc = getter[h].pc \/ (h = g /\ getter'[h].pc = "fetch")
            BY <1>1, <2>1 DEF GetterRecord, LookInCache
        <3>2. \A k \in Getter : getter[k].pc = "idle" => getter'[k].pc = "idle"
            BY <1>1, <2>1 DEF LookInCache
        <3> QED BY <2>1, <3>1, <3>2 DEF GetterOK, SchemaInv, GettersOK
    <2>4. DeletionOK'
        BY <1>1, <2>1 DEF SchemaInv, DeletionOK, Getting, LookInCache
    <2> QED BY <2>1, <2>2, <2>3, <2>4
        DEF SchemaInv, SchemaTypeOK, GettersOK, CacheOK, GetterRecord
<1>3. CASE cached # Uncached
    <2>1. GetDone(g) /\ UNCHANGED <<catalogue, cached, deletion, late>>
        BY <1>3 DEF LookInCache
    <2>2. getter[g].pc # "idle" /\ ~getter[g].refresh
        BY DEF LookInCache, SchemaInv, GettersOK, GetterOK
    <2> QED BY <2>1, <2>2, EndInv DEF GetDone, SchemaInv, SchemaTypeOK, CacheOK
<1> QED BY <1>2, <1>3

\* What is read from the catalogue is as new as any refresh can be.
LEMMA FetchSchemaInv ==
    ASSUME SchemaInv, NEW g \in Getter, FetchSchema(g)
    PROVE  SchemaInv'
<1>1. getter \in [Getter -> GetterRecord] /\ getter[g] \in GetterRecord /\ catalogue \in Version
    BY GetterTyped DEF SchemaInv, SchemaTypeOK
<1>2. getter' = [getter EXCEPT ![g].pc = "store", ![g].schema = catalogue]
      /\ UNCHANGED <<catalogue, cached, deletion, fresh, late>>
    BY DEF FetchSchema
<1>3. getter' \in [Getter -> GetterRecord]
    <2>1. [getter[g] EXCEPT !.pc = "store", !.schema = catalogue] \in GetterRecord
        BY <1>1 DEF GetterRecord
    <2> QED BY <1>1, <1>2, <2>1
<1>4. ASSUME NEW h \in Getter PROVE GetterOK(h)'
    <2>1. \A k \in Getter : getter[k].pc = "idle" => getter'[k].pc = "idle"
        BY <1>1, <1>2 DEF FetchSchema
    <2>2. CASE h = g
        <3>1. /\ getter'[g].since = getter[g].since /\ getter'[g].alone = getter[g].alone
              /\ getter'[g].pc = "store" /\ getter'[g].schema = catalogue
              /\ getter[g].pc # "idle"
            BY <1>1, <1>2 DEF GetterRecord, FetchSchema
        <3> QED BY <1>2, <2>1, <2>2, <3>1 DEF GetterOK, SchemaInv, GettersOK, CacheOK
    <2>3. CASE h # g
        <3>1. getter'[h] = getter[h] BY <1>1, <1>2, <2>3
        <3> QED BY <1>2, <2>1, <3>1 DEF GetterOK, SchemaInv, GettersOK
    <2> QED BY <2>2, <2>3
<1>5. DeletionOK'
    BY <1>1, <1>2 DEF SchemaInv, DeletionOK, Getting, FetchSchema
<1> QED BY <1>2, <1>3, <1>4, <1>5
    DEF SchemaInv, SchemaTypeOK, GettersOK, CacheOK, GetterRecord

\* A job that fails writes nothing.
LEMMA GetFailsInv ==
    ASSUME SchemaInv, NEW g \in Getter, GetFails(g)
    PROVE  SchemaInv'
BY EndInv DEF GetFails, SchemaInv, SchemaTypeOK, CacheOK

\* What is stored is at least as new as every refresh, this one included.
LEMMA StoreSchemaInv ==
    ASSUME SchemaInv, NEW g \in Getter, StoreSchema(g)
    PROVE  SchemaInv'
<1>1. getter[g] \in GetterRecord BY GetterTyped DEF SchemaInv
<1>2. getter[g].since <= getter[g].schema /\ fresh <= getter[g].schema
    BY DEF StoreSchema, SchemaInv, GettersOK, GetterOK
<1>3. /\ getter' = [getter EXCEPT ![g] = NoGet] /\ getter[g].pc # "idle"
      /\ UNCHANGED <<catalogue, deletion, late>>
      /\ fresh' = fresh \/ (getter[g].alone /\ fresh' = getter[g].since /\ fresh' > fresh)
      /\ cached' = getter[g].schema
    BY DEF StoreSchema, GetDone
<1>4. cached' \in Version \cup {Uncached} /\ fresh' <= cached'
    BY <1>1, <1>2, <1>3 DEF GetterRecord
<1> QED BY <1>3, <1>4, EndInv

\* The steps of the data source and of its cache.
LEMMA SourceInv ==
    ASSUME SchemaInv, CatalogueChanges \/ CacheExpires \/ DeleteRow \/ DeleteKey
    PROVE  SchemaInv'
<1>1. getter' = getter /\ fresh' = fresh /\ getter \in [Getter -> GetterRecord]
    BY GetterTyped DEF SchemaInv, CatalogueChanges, CacheExpires, DeleteRow, DeleteKey
<1>2. SchemaTypeOK'
    <2>1. catalogue' \in Version
        BY DEF SchemaInv, SchemaTypeOK, Version, CatalogueChanges, CacheExpires, DeleteRow,
               DeleteKey
    <2>2. cached' \in Version \cup {Uncached} /\ deletion' \in {"none", "row", "key"}
        BY DEF SchemaInv, SchemaTypeOK, CatalogueChanges, CacheExpires, DeleteRow, DeleteKey,
               KeyAfterwards
    <2>3. late' \in BOOLEAN
        BY DEF SchemaInv, SchemaTypeOK, CatalogueChanges, CacheExpires, DeleteRow, DeleteKey
    <2> QED BY <1>1, <2>1, <2>2, <2>3 DEF SchemaInv, SchemaTypeOK
<1>3. catalogue <= catalogue' /\ catalogue \in Int /\ catalogue' \in Int
    BY DEF SchemaInv, SchemaTypeOK, Version, CatalogueChanges, CacheExpires, DeleteRow, DeleteKey
<1>4. GettersOK'
    <2> SUFFICES ASSUME NEW g \in Getter PROVE GetterOK(g)'
        BY DEF GettersOK
    <2>1. getter[g].since \in Int BY <1>1 DEF GetterRecord, Version
    <2> QED BY <1>1, <1>3, <2>1 DEF SchemaInv, GettersOK, GetterOK
<1>5. CacheOK'
    BY <1>1, <1>3 DEF SchemaInv, SchemaTypeOK, Version, Uncached, CacheOK, CatalogueChanges,
                      CacheExpires, DeleteRow, DeleteKey, KeyAfterwards
<1>6. DeletionOK'
    BY <1>1 DEF SchemaInv, SchemaTypeOK, DeletionOK, Getting, CatalogueChanges, CacheExpires,
                DeleteRow, DeleteKey, KeyAfterwards
<1> QED BY <1>2, <1>4, <1>5, <1>6 DEF SchemaInv

\* Every step keeps the invariant.
LEMMA SchemaNextInv == SchemaInv /\ [SchemaNext]_schemaVars => SchemaInv'
<1> SUFFICES ASSUME SchemaInv, [SchemaNext]_schemaVars PROVE SchemaInv'
    OBVIOUS
<1>1. CASE UNCHANGED schemaVars
    BY <1>1 DEF schemaVars, SchemaInv, SchemaTypeOK, GettersOK, GetterOK, CacheOK, DeletionOK,
                Getting
<1>2. CASE SchemaNext
    BY <1>2, BeginGetInv, LookInCacheInv, FetchSchemaInv, GetFailsInv, StoreSchemaInv, SourceInv
    DEF SchemaNext
<1> QED BY <1>1, <1>2

\* The invariant holds in every state.
THEOREM SchemaInvariance == SchemaSpec => []SchemaInv
<1> QED BY SchemaInitInv, SchemaNextInv, PTL DEF SchemaSpec

-----------------------------------------------------------------------------

\* However jobs overlap, fail and come late, what is cached is never older than
\* the last refresh that went through with no job beside it.
THEOREM RefreshesTakeEffect == SchemaSpec => []RefreshTakesEffect
<1>1. SchemaInv => RefreshTakesEffect
    BY DEF SchemaInv, SchemaTypeOK, Version, CacheOK, RefreshTakesEffect
<1> QED BY <1>1, SchemaInvariance, PTL

\* A deleted data source leaves nothing in the cache, unless a job was late.
THEOREM DeletionsLeaveNothing == SchemaSpec => []DeletedLeavesNothing
<1>1. SchemaInv => DeletedLeavesNothing
    BY DEF SchemaInv, DeletionOK, DeletedLeavesNothing
<1> QED BY <1>1, SchemaInvariance, PTL

-----------------------------------------------------------------------------
(* Periodic jobs                                                           *)

USE PeriodicAssumption

Active(s) == starter[s].pc # "off"
Listed(s) == starter[s].pc \in {"fetch", "check", "clean", "delete", "add"}

\* A starter cleans up nothing of its own release, and adds nothing else.
LocalsOK(s) ==
    LET r == starter[s]
    IN  /\ r.obsolete \cap r.release = {} /\ r.canceled \cap r.release = {}
        /\ r.missing \subseteq r.release /\ r.unchecked \subseteq r.release
        /\ r.pc \in {"clean", "delete", "add"} => r.unchecked = {}
        /\ r.pc = "add" => r.obsolete = {}

AloneOK(s) ==
    starter[s].alone =>
        Active(s) /\ \A t \in Starter : Active(t) => starter[t].release = starter[s].release

\* What a starter with no other release beside it knows of the schedule.
ScheduleOK(s) ==
    starter[s].alone /\ Listed(s) =>
        LET r == starter[s]
        IN  /\ scheduled \subseteq r.release \cup r.obsolete
            /\ scheduled \cap r.release \subseteq saved
            /\ r.pc # "fetch" => r.release \subseteq scheduled \cup r.missing \cup r.unchecked

StarterOK(s) == LocalsOK(s) /\ AloneOK(s) /\ ScheduleOK(s)
StartersOK == \A s \in Starter : StarterOK(s)

\* A settled schedule is saved as well, and nobody of another release is about.
SettledOK ==
    settled.is =>
        /\ scheduled = settled.release
        /\ scheduled \subseteq saved
        /\ \A t \in Starter : Active(t) => starter[t].release = settled.release

PeriodicInv == PeriodicTypeOK /\ StartersOK /\ SettledOK

-----------------------------------------------------------------------------

\* No process, and nothing scheduled.
LEMMA PeriodicInitInv == PeriodicInit => PeriodicInv
<1> SUFFICES ASSUME PeriodicInit PROVE PeriodicInv
    OBVIOUS
<1>1. Off \in StarterRecord BY DEF Off, StarterRecord
<1>2. PeriodicTypeOK BY <1>1 DEF PeriodicInit, PeriodicTypeOK, Unsettled
<1>3. ASSUME NEW s \in Starter PROVE StarterOK(s)
    <2>1. starter[s] = Off BY DEF PeriodicInit
    <2> QED BY <2>1 DEF StarterOK, LocalsOK, AloneOK, ScheduleOK, Off
<1>4. SettledOK BY DEF PeriodicInit, SettledOK, Unsettled
<1> QED BY <1>2, <1>3, <1>4 DEF PeriodicInv, StartersOK

\* A starter that is on its way disturbs no other that is alone, and no settled
\* schedule, as long as it adds only saved jobs of its release and takes away
\* no saved job of it.
LEMMA OthersInv ==
    ASSUME PeriodicInv, NEW s \in Starter, Active(s), NEW new \in StarterRecord,
           starter' = [starter EXCEPT ![s] = new],
           new.pc = "off" \/ new.release = starter[s].release,
           scheduled' \in SUBSET Periodic, saved' \in SUBSET Periodic, starts' = starts,
           scheduled' \ scheduled \subseteq starter[s].release,
           starter[s].release \cap scheduled \cap saved \subseteq scheduled' \cap saved',
           scheduled' \ scheduled \subseteq saved'
    PROVE  /\ \A t \in Starter \ {s} : StarterOK(t)'
           /\ settled' = settled => PeriodicTypeOK' /\ SettledOK'
<1>1. starter'[s] = new /\ \A t \in Starter \ {s} : starter'[t] = starter[t]
    BY DEF PeriodicInv, PeriodicTypeOK
<1>2. ASSUME NEW t \in Starter \ {s} PROVE StarterOK(t)'
    <2>1. StarterOK(t) /\ starter'[t] = starter[t] BY <1>1 DEF PeriodicInv, StartersOK
    <2>2. LocalsOK(t)' BY <2>1 DEF StarterOK, LocalsOK
    <2>3. AloneOK(t)' BY <1>1, <2>1 DEF StarterOK, AloneOK, Active
    <2>4. ScheduleOK(t)'
        <3>1. starter[t].alone => starter[s].release = starter[t].release
            BY <2>1 DEF StarterOK, AloneOK
        <3> QED BY <2>1, <3>1 DEF StarterOK, ScheduleOK, Listed
    <2> QED BY <2>2, <2>3, <2>4 DEF StarterOK
<1>3. ASSUME settled' = settled PROVE PeriodicTypeOK' /\ SettledOK'
    <2>1. PeriodicTypeOK' BY <1>3 DEF PeriodicInv, PeriodicTypeOK
    <2>2. settled.is => starter[s].release = settled.release BY DEF PeriodicInv, SettledOK
    <2>3. \A t \in Starter : Active(t)' =>
            Active(t) /\ starter'[t].release = starter[t].release
        BY <1>1 DEF Active
    <2>4. SettledOK' BY <1>3, <2>2, <2>3 DEF PeriodicInv, SettledOK
    <2> QED BY <2>1, <2>4
<1> QED BY <1>2, <1>3

\* A start makes those of other releases no longer alone.
LEMMA StartSchedulerInv ==
    ASSUME PeriodicInv, NEW s \in Starter, NEW release \in Release, StartScheduler(s, release)
    PROVE  PeriodicInv'
<1> DEFINE isAlone == Others(release) = {}
<1> DEFINE new == [Off EXCEPT !.pc = "list", !.release = release, !.alone = isAlone]
<1>1. /\ starter[s].pc = "off" /\ starts' = starts + 1 /\ starts < MaxStarts
      /\ starter' = [t \in Starter |->
                        IF t = s THEN new
                        ELSE [starter[t] EXCEPT !.alone = @ /\ t \notin Others(release)]]
      /\ settled' = IF settled.is /\ settled.release = release THEN settled ELSE Unsettled
      /\ scheduled' = scheduled /\ saved' = saved
    BY DEF StartScheduler
<1>2. isAlone \in BOOLEAN OBVIOUS
<1>3. new \in StarterRecord
    <2> HIDE DEF isAlone
    <2>1. Off \in StarterRecord BY DEF Off, StarterRecord
    <2> QED BY <1>2, <2>1 DEF StarterRecord
<1>4. ASSUME NEW t \in Starter \ {s}
      PROVE  /\ starter'[t] \in StarterRecord
             /\ starter'[t].pc = starter[t].pc /\ starter'[t].release = starter[t].release
             /\ starter'[t].obsolete = starter[t].obsolete
             /\ starter'[t].unchecked = starter[t].unchecked
             /\ starter'[t].missing = starter[t].missing
             /\ starter'[t].canceled = starter[t].canceled
             /\ starter'[t].alone => starter[t].alone /\ t \notin Others(release)
    <2>1. starter[t] \in StarterRecord BY DEF PeriodicInv, PeriodicTypeOK
    <2>2. starter'[t] = [starter[t] EXCEPT !.alone = @ /\ t \notin Others(release)] BY <1>1
    <2>3. (starter[t].alone /\ t \notin Others(release)) \in BOOLEAN OBVIOUS
    <2> QED BY <2>1, <2>2, <2>3 DEF StarterRecord
<1>5. /\ starter'[s] = new /\ new.pc = "list" /\ new.release = release /\ new.alone = isAlone
      /\ new.obsolete = {} /\ new.canceled = {} /\ new.missing = {} /\ new.unchecked = {}
    <2>1. starter'[s] = new BY <1>1
    <2> HIDE DEF isAlone
    <2> QED BY <2>1 DEF Off
<1> HIDE DEF new
<1>6. PeriodicTypeOK'
    <2>1. starter' \in [Starter -> StarterRecord] BY <1>1, <1>3, <1>4, <1>5
    <2>2. settled' \in [is : BOOLEAN, release : SUBSET Periodic]
        BY <1>1 DEF PeriodicInv, PeriodicTypeOK, Unsettled
    <2>3. starts' \in 0..MaxStarts BY <1>1 DEF PeriodicInv, PeriodicTypeOK
    <2> QED BY <1>1, <2>1, <2>2, <2>3 DEF PeriodicInv, PeriodicTypeOK
<1>7. ASSUME NEW t \in Starter PROVE StarterOK(t)'
    <2>1. CASE t = s
        <3>1. LocalsOK(s)' BY <1>5 DEF LocalsOK
        <3>2. ASSUME isAlone, NEW u \in Starter, Active(u)'
              PROVE  starter'[u].release = release
            BY <1>4, <1>5, <3>2 DEF Active, Others
        <3>3. AloneOK(s)' BY <1>5, <3>2 DEF AloneOK, Active
        <3>4. ScheduleOK(s)' BY <1>5 DEF ScheduleOK, Listed
        <3> QED BY <2>1, <3>1, <3>3, <3>4 DEF StarterOK
    <2>2. CASE t # s
        <3>1. StarterOK(t) BY DEF PeriodicInv, StartersOK
        <3>2. LocalsOK(t)' BY <1>4, <2>2, <3>1 DEF StarterOK, LocalsOK
        <3>3. AloneOK(t)'
            <4> SUFFICES ASSUME starter'[t].alone
                         PROVE  Active(t)' /\ \A u \in Starter : Active(u)' =>
                                                starter'[u].release = starter'[t].release
                BY DEF AloneOK
            <4>1. Active(t) /\ starter[t].release = release
                BY <1>4, <2>2, <3>1 DEF StarterOK, AloneOK, Others, Active
            <4>2. \A u \in Starter \ {s} : Active(u)' => starter'[u].release = starter[t].release
                BY <1>4, <2>2, <3>1 DEF StarterOK, AloneOK, Active
            <4> QED BY <1>4, <1>5, <2>2, <4>1, <4>2 DEF Active
        <3>4. ScheduleOK(t)' BY <1>1, <1>4, <2>2, <3>1 DEF StarterOK, ScheduleOK, Listed
        <3> QED BY <3>2, <3>3, <3>4 DEF StarterOK
    <2> QED BY <2>1, <2>2
<1>8. SettledOK'
    <2> SUFFICES ASSUME settled'.is PROVE SettledOK'
        BY DEF SettledOK
    <2>1. settled' = settled /\ settled.release = release BY <1>1 DEF Unsettled
    <2>2. \A t \in Starter : Active(t)' => starter'[t].release = release
        BY <1>4, <1>5, <2>1 DEF PeriodicInv, SettledOK, Active
    <2> QED BY <1>1, <2>1, <2>2 DEF PeriodicInv, SettledOK
<1> QED BY <1>6, <1>7, <1>8 DEF PeriodicInv, StartersOK

\* A process that ends or dies leaves the schedule as it is.
LEMMA EndsInv ==
    ASSUME PeriodicInv, NEW s \in Starter, CancelRaises(s) \/ StartDies(s)
    PROVE  PeriodicInv'
<1>1. starter' = [starter EXCEPT ![s] = Off] /\ UNCHANGED <<scheduled, saved, starts, settled>>
      /\ Active(s)
    BY DEF CancelRaises, StartDies, Active
<1>2. Off \in StarterRecord /\ Off.pc = "off" BY DEF Off, StarterRecord
<1>3. /\ \A t \in Starter \ {s} : StarterOK(t)'
      /\ PeriodicTypeOK' /\ SettledOK'
    BY <1>1, <1>2, OthersInv DEF PeriodicInv, PeriodicTypeOK
<1>4. starter'[s] = Off BY <1>1 DEF PeriodicInv, PeriodicTypeOK
<1>5. StarterOK(s)' BY <1>4 DEF StarterOK, LocalsOK, AloneOK, ScheduleOK, Off
<1> QED BY <1>3, <1>5 DEF PeriodicInv, StartersOK

\* The steps that go on, with what they make of the starter and the jobs.
LEMMA StepInv ==
    ASSUME PeriodicInv, NEW s \in Starter, Active(s), NEW new \in StarterRecord,
           starter' = [starter EXCEPT ![s] = new],
           new.pc # "off", new.release = starter[s].release, new.alone = starter[s].alone,
           scheduled' \in SUBSET Periodic, saved' \in SUBSET Periodic,
           starts' = starts, settled' = settled,
           scheduled' \ scheduled \subseteq starter[s].release,
           starter[s].release \cap scheduled \cap saved \subseteq scheduled' \cap saved',
           scheduled' \ scheduled \subseteq saved',
           LocalsOK(s)', ScheduleOK(s)'
    PROVE  PeriodicInv'
<1>1. /\ \A t \in Starter \ {s} : StarterOK(t)'
      /\ PeriodicTypeOK' /\ SettledOK'
    BY OthersInv
<1>2. starter'[s] = new /\ \A t \in Starter \ {s} : starter'[t] = starter[t]
    BY DEF PeriodicInv, PeriodicTypeOK
<1>3. \A t \in Starter : starter'[t].release = starter[t].release /\ (Active(t)' <=> Active(t))
    BY <1>2 DEF Active
<1>4. AloneOK(s)'
    BY <1>2, <1>3 DEF PeriodicInv, StartersOK, StarterOK, AloneOK
<1> QED BY <1>1, <1>4 DEF PeriodicInv, StartersOK, StarterOK

\* Listing, fetching and checking.
LEMMA LookInv ==
    ASSUME PeriodicInv, NEW s \in Starter, ListJobs(s) \/ FetchJobs(s) \/ CheckJob(s)
    PROVE  PeriodicInv'
<1> DEFINE r == starter[s]
<1>1. r \in StarterRecord /\ LocalsOK(s) /\ ScheduleOK(s) /\ starter \in [Starter -> StarterRecord]
    BY DEF PeriodicInv, PeriodicTypeOK, StartersOK, StarterOK
<1>2. scheduled \in SUBSET Periodic /\ saved \in SUBSET Periodic
    BY DEF PeriodicInv, PeriodicTypeOK
<1>3. CASE ListJobs(s)
    <2> DEFINE new == [r EXCEPT !.pc = "fetch", !.obsolete = (scheduled \cap saved) \ r.release]
    <2>1. /\ starter' = [starter EXCEPT ![s] = new] /\ scheduled' = scheduled \cap saved
          /\ saved' = saved /\ starts' = starts /\ settled' = settled /\ r.pc = "list"
        BY <1>1, <1>3 DEF ListJobs
    <2>2. /\ new \in StarterRecord /\ new.pc = "fetch" /\ new.release = r.release
          /\ new.alone = r.alone /\ new.obsolete = (scheduled \cap saved) \ r.release
          /\ new.missing = r.missing /\ new.unchecked = r.unchecked /\ new.canceled = r.canceled
        BY <1>1, <1>2 DEF StarterRecord
    <2>3. starter'[s] = new BY <1>1, <2>1
    <2>4. LocalsOK(s)' BY <1>1, <2>2, <2>3 DEF LocalsOK
    <2>5. ScheduleOK(s)' BY <2>1, <2>2, <2>3 DEF ScheduleOK
    <2> HIDE DEF new
    <2> QED BY <1>2, <2>1, <2>2, <2>4, <2>5, StepInv DEF Active
<1>4. CASE FetchJobs(s)
    <2> DEFINE new == [r EXCEPT !.pc = "check", !.unchecked = r.release,
                                !.gone = r.obsolete \ saved]
    <2>1. /\ starter' = [starter EXCEPT ![s] = new] /\ r.pc = "fetch"
          /\ UNCHANGED <<scheduled, saved, starts, settled>>
        BY <1>1, <1>4 DEF FetchJobs
    <2>2. /\ new \in StarterRecord /\ new.pc = "check" /\ new.release = r.release
          /\ new.alone = r.alone /\ new.obsolete = r.obsolete
          /\ new.missing = r.missing /\ new.unchecked = r.release /\ new.canceled = r.canceled
        BY <1>1, <1>2 DEF StarterRecord
    <2>3. starter'[s] = new BY <1>1, <2>1
    <2>4. LocalsOK(s)' BY <1>1, <2>2, <2>3 DEF LocalsOK
    <2>5. ScheduleOK(s)' BY <1>1, <2>1, <2>2, <2>3 DEF ScheduleOK, Listed
    <2> HIDE DEF new
    <2> QED BY <1>2, <2>1, <2>2, <2>4, <2>5, StepInv DEF Active
<1>5. CASE CheckJob(s) /\ r.unchecked = {}
    <2> DEFINE new == [r EXCEPT !.pc = "clean"]
    <2>1. /\ starter' = [starter EXCEPT ![s] = new] /\ r.pc = "check"
          /\ UNCHANGED <<scheduled, saved, starts, settled>>
        BY <1>1, <1>5 DEF CheckJob
    <2>2. /\ new \in StarterRecord /\ new.pc = "clean" /\ new.release = r.release
          /\ new.alone = r.alone /\ new.obsolete = r.obsolete
          /\ new.missing = r.missing /\ new.unchecked = r.unchecked /\ new.canceled = r.canceled
        BY <1>1 DEF StarterRecord
    <2>3. starter'[s] = new BY <1>1, <2>1
    <2>4. LocalsOK(s)' BY <1>1, <1>5, <2>2, <2>3 DEF LocalsOK
    <2>5. ScheduleOK(s)' BY <1>1, <2>1, <2>2, <2>3 DEF ScheduleOK, Listed
    <2> HIDE DEF new
    <2> QED BY <1>2, <2>1, <2>2, <2>4, <2>5, StepInv DEF Active
<1>6. CASE CheckJob(s) /\ r.unchecked # {}
    <2>1. PICK j \in r.unchecked :
            starter' = [starter EXCEPT ![s].unchecked = @ \ {j},
                                       ![s].missing = IF Known(j) THEN @ ELSE @ \cup {j}]
        BY <1>6 DEF CheckJob
    <2> DEFINE added == IF Known(j) THEN r.missing ELSE r.missing \cup {j}
    <2> DEFINE new == [r EXCEPT !.unchecked = r.unchecked \ {j}, !.missing = added]
    <2>2. /\ starter' = [starter EXCEPT ![s] = new] /\ r.pc = "check"
          /\ UNCHANGED <<scheduled, saved, starts, settled>>
        BY <1>1, <1>6, <2>1 DEF CheckJob
    <2>3. j \in r.release /\ j \in Periodic BY <1>1 DEF LocalsOK, StarterRecord
    <2>4. added \in SUBSET Periodic /\ added \subseteq r.missing \cup {j}
          /\ (j \in scheduled \/ j \in added) /\ r.missing \subseteq added
        BY <1>1, <2>3 DEF StarterRecord, Known
    <2> HIDE DEF added
    <2>5. /\ new \in StarterRecord /\ new.pc = "check" /\ new.release = r.release
          /\ new.alone = r.alone /\ new.obsolete = r.obsolete
          /\ new.missing = added /\ new.unchecked = r.unchecked \ {j}
          /\ new.canceled = r.canceled
        BY <1>1, <2>2, <2>4 DEF StarterRecord
    <2>6. starter'[s] = new BY <1>1, <2>2
    <2>7. LocalsOK(s)' BY <1>1, <2>3, <2>4, <2>5, <2>6 DEF LocalsOK
    <2>8. ScheduleOK(s)' BY <1>1, <2>2, <2>4, <2>5, <2>6 DEF ScheduleOK, Listed
    <2> HIDE DEF new
    <2> QED BY <1>2, <2>2, <2>5, <2>7, <2>8, StepInv DEF Active
<1> QED BY <1>3, <1>4, <1>5, <1>6

\* Cleaning up, adding, and going on from one to the other.
LEMMA ChangeInv ==
    ASSUME PeriodicInv, NEW s \in Starter,
           CleanDone(s) \/ CancelJob(s) \/ DeleteJob(s) \/ AddJob(s)
    PROVE  PeriodicInv'
<1> DEFINE r == starter[s]
<1>1. r \in StarterRecord /\ LocalsOK(s) /\ ScheduleOK(s) /\ starter \in [Starter -> StarterRecord]
    BY DEF PeriodicInv, PeriodicTypeOK, StartersOK, StarterOK
<1>2. scheduled \in SUBSET Periodic /\ saved \in SUBSET Periodic
    BY DEF PeriodicInv, PeriodicTypeOK
<1>3. CASE CleanDone(s)
    <2> DEFINE new == [r EXCEPT !.pc = "add"]
    <2>1. /\ starter' = [starter EXCEPT ![s] = new] /\ r.pc = "clean" /\ r.obsolete = {}
          /\ UNCHANGED <<scheduled, saved, starts, settled>>
        BY <1>1, <1>3 DEF CleanDone
    <2>2. /\ new \in StarterRecord /\ new.pc = "add" /\ new.release = r.release
          /\ new.alone = r.alone /\ new.obsolete = r.obsolete
          /\ new.missing = r.missing /\ new.unchecked = r.unchecked /\ new.canceled = r.canceled
        BY <1>1 DEF StarterRecord
    <2>3. starter'[s] = new BY <1>1, <2>1
    <2>4. LocalsOK(s)' BY <1>1, <2>1, <2>2, <2>3 DEF LocalsOK
    <2>5. ScheduleOK(s)' BY <1>1, <2>1, <2>2, <2>3 DEF ScheduleOK, Listed
    <2> HIDE DEF new
    <2> QED BY <1>2, <2>1, <2>2, <2>4, <2>5, StepInv DEF Active
<1>4. CASE CancelJob(s)
    <2>1. PICK j \in r.obsolete \ r.gone :
            /\ scheduled' = scheduled \ {j}
            /\ starter' = [starter EXCEPT ![s].pc = "delete", ![s].canceled = {j},
                                          ![s].obsolete = @ \ {j}]
        BY <1>4 DEF CancelJob
    <2> DEFINE new == [r EXCEPT !.pc = "delete", !.canceled = {j}, !.obsolete = r.obsolete \ {j}]
    <2>2. /\ starter' = [starter EXCEPT ![s] = new] /\ r.pc = "clean"
          /\ UNCHANGED <<saved, starts, settled>>
        BY <1>1, <1>4, <2>1 DEF CancelJob
    <2>3. j \in Periodic /\ j \notin r.release BY <1>1 DEF LocalsOK, StarterRecord
    <2>4. /\ new \in StarterRecord /\ new.pc = "delete" /\ new.release = r.release
          /\ new.alone = r.alone /\ new.obsolete = r.obsolete \ {j}
          /\ new.missing = r.missing /\ new.unchecked = r.unchecked /\ new.canceled = {j}
        BY <1>1, <2>3 DEF StarterRecord
    <2>5. starter'[s] = new BY <1>1, <2>2
    <2>6. LocalsOK(s)' BY <1>1, <2>2, <2>3, <2>4, <2>5 DEF LocalsOK
    <2>7. ScheduleOK(s)' BY <1>1, <2>1, <2>2, <2>3, <2>4, <2>5 DEF ScheduleOK, Listed
    <2> HIDE DEF new
    <2> QED BY <1>2, <2>1, <2>2, <2>3, <2>4, <2>6, <2>7, StepInv DEF Active
<1>5. CASE DeleteJob(s)
    <2> DEFINE new == [r EXCEPT !.pc = "clean", !.canceled = {}]
    <2>1. /\ starter' = [starter EXCEPT ![s] = new] /\ r.pc = "delete"
          /\ saved' = saved \ r.canceled /\ UNCHANGED <<scheduled, starts, settled>>
        BY <1>1, <1>5 DEF DeleteJob
    <2>2. /\ new \in StarterRecord /\ new.pc = "clean" /\ new.release = r.release
          /\ new.alone = r.alone /\ new.obsolete = r.obsolete
          /\ new.missing = r.missing /\ new.unchecked = r.unchecked /\ new.canceled = {}
        BY <1>1 DEF StarterRecord
    <2>3. starter'[s] = new BY <1>1, <2>1
    <2>4. LocalsOK(s)' BY <1>1, <2>1, <2>2, <2>3 DEF LocalsOK
    <2>5. r.canceled \cap r.release = {} BY <1>1 DEF LocalsOK
    <2>6. ScheduleOK(s)' BY <1>1, <2>1, <2>2, <2>3, <2>5 DEF ScheduleOK, Listed
    <2> HIDE DEF new
    <2> QED BY <1>2, <2>1, <2>2, <2>4, <2>5, <2>6, StepInv DEF Active
<1>6. CASE AddJob(s)
    <2>1. PICK j \in r.missing :
            /\ scheduled' = scheduled \cup {j}
            /\ saved' = saved \cup {j}
            /\ starter' = [starter EXCEPT ![s].missing = @ \ {j}]
        BY <1>6 DEF AddJob
    <2> DEFINE new == [r EXCEPT !.missing = r.missing \ {j}]
    <2>2. /\ starter' = [starter EXCEPT ![s] = new] /\ r.pc = "add"
          /\ UNCHANGED <<starts, settled>>
        BY <1>1, <1>6, <2>1 DEF AddJob
    <2>3. j \in Periodic /\ j \in r.release BY <1>1 DEF LocalsOK, StarterRecord
    <2>4. /\ new \in StarterRecord /\ new.pc = "add" /\ new.release = r.release
          /\ new.alone = r.alone /\ new.obsolete = r.obsolete
          /\ new.missing = r.missing \ {j} /\ new.unchecked = r.unchecked
          /\ new.canceled = r.canceled
        BY <1>1, <2>2 DEF StarterRecord
    <2>5. starter'[s] = new BY <1>1, <2>2
    <2>6. LocalsOK(s)' BY <1>1, <2>2, <2>3, <2>4, <2>5 DEF LocalsOK
    <2>7. ScheduleOK(s)' BY <1>1, <2>1, <2>2, <2>3, <2>4, <2>5 DEF ScheduleOK, Listed
    <2> HIDE DEF new
    <2> QED BY <1>2, <2>1, <2>2, <2>3, <2>4, <2>6, <2>7, StepInv DEF Active
<1> QED BY <1>3, <1>4, <1>5, <1>6

\* Who gets through alone has left exactly the jobs of its release.
LEMMA StartDoneInv ==
    ASSUME PeriodicInv, NEW s \in Starter, StartDone(s)
    PROVE  PeriodicInv'
<1> DEFINE r == starter[s]
<1>1. /\ r.pc = "add" /\ r.missing = {} /\ starter' = [starter EXCEPT ![s] = Off]
      /\ settled' = IF r.alone THEN [is |-> TRUE, release |-> r.release] ELSE Unsettled
      /\ UNCHANGED <<scheduled, saved, starts>> /\ Active(s)
    BY DEF StartDone, Active
<1>2. Off \in StarterRecord /\ Off.pc = "off" BY DEF Off, StarterRecord
<1>3. r \in StarterRecord /\ StarterOK(s) BY DEF PeriodicInv, PeriodicTypeOK, StartersOK
<1>4. \A t \in Starter \ {s} : StarterOK(t)'
    BY <1>1, <1>2, OthersInv DEF PeriodicInv, PeriodicTypeOK
<1>5. starter'[s] = Off /\ \A t \in Starter \ {s} : starter'[t] = starter[t]
    BY <1>1 DEF PeriodicInv, PeriodicTypeOK
<1>6. StarterOK(s)' BY <1>5 DEF StarterOK, LocalsOK, AloneOK, ScheduleOK, Off
<1>7. PeriodicTypeOK'
    BY <1>1, <1>2, <1>3 DEF PeriodicInv, PeriodicTypeOK, Unsettled, StarterRecord
<1>8. SettledOK'
    <2> SUFFICES ASSUME r.alone PROVE SettledOK'
        BY <1>1 DEF SettledOK, Unsettled
    <2>1. scheduled = r.release /\ scheduled \subseteq saved
        BY <1>1, <1>3 DEF StarterOK, LocalsOK, ScheduleOK, Listed
    <2>2. settled'.release = r.release BY <1>1
    <2>3. \A t \in Starter : Active(t)' => starter'[t].release = r.release
        BY <1>2, <1>3, <1>5 DEF StarterOK, AloneOK, Active
    <2> QED BY <1>1, <2>1, <2>2, <2>3 DEF SettledOK
<1> QED BY <1>4, <1>6, <1>7, <1>8 DEF PeriodicInv, StartersOK

\* Every step keeps the invariant.
LEMMA PeriodicNextInv == PeriodicInv /\ [PeriodicNext]_periodicVars => PeriodicInv'
<1> SUFFICES ASSUME PeriodicInv, [PeriodicNext]_periodicVars PROVE PeriodicInv'
    OBVIOUS
<1>1. CASE UNCHANGED periodicVars
    BY <1>1 DEF periodicVars, PeriodicInv, PeriodicTypeOK, StartersOK, StarterOK, LocalsOK,
                AloneOK, ScheduleOK, SettledOK, Active, Listed
<1>2. CASE PeriodicNext
    BY <1>2, StartSchedulerInv, EndsInv, LookInv, ChangeInv, StartDoneInv DEF PeriodicNext
<1> QED BY <1>1, <1>2

\* After a start with no other release beside it, exactly the jobs of its
\* release are scheduled, however many of its processes start at once or die.
THEOREM ReleasesAreScheduled == PeriodicSpec => []ReleaseIsScheduled
<1>1. PeriodicInv => ReleaseIsScheduled
    BY DEF PeriodicInv, SettledOK, ReleaseIsScheduled
<1> QED BY <1>1, PeriodicInitInv, PeriodicNextInv, PTL DEF PeriodicSpec

=============================================================================
