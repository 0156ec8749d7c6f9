------------------------------- MODULE Alerts -------------------------------
(***************************************************************************)
(* The alerts of one query: check_alerts_for_query, a job that every new   *)
(* result starts, and the evaluation of a single alert on request.         *)
(*                                                                         *)
(* A job reads the alerts once, with the result of that time; it commits   *)
(* the new state of an alert first and notifies its subscribers then.      *)
(* Several jobs may be at it at once, and each may die between two steps.  *)
(***************************************************************************)
EXTENDS Naturals, FiniteSets

CONSTANTS
    Alert,      \* the ids of the query's alerts, numbers in the order of their checks
    Check,      \* ids of jobs and requests that check alerts
    Outcome     \* the verdicts that a result may lead to, per alert

Verdict == {"ok", "triggered", "unknown", "raises"}

ASSUME AlertsAssumption ==
    /\ Alert \subseteq Nat
    /\ Outcome \subseteq [Alert -> Verdict]

VARIABLES
    alert,      \* the committed rows of the alerts
    verdict,    \* what evaluating the latest result gives
    check,      \* the locals of each check
    heard,      \* history: what has become of the news of the committed state
    overlap,    \* history: two checks have been under way at once
    mishap      \* history: a check has died or raised

alertsVars == <<alert, verdict, check, heard, overlap, mishap>>

State == {"unknown", "ok", "triggered"}
News == {"told",        \* a job told the state, or there is nothing to tell
         "onrequest",   \* a request did
         "no",          \* nobody did yet
         "muted",       \* a check that read the alert as muted passed over it
         "lost"}        \* a check died that was about to tell it
AlertRecord ==
    [state : State,
     rearmed : BOOLEAN,     \* rearm is set and has passed since last_triggered_at
     muted : BOOLEAN]
CheckRecord ==
    [pc : {"new", "queued", "evaluate", "notify", "over"},
     asked : BOOLEAN,                   \* a request, not a job
     todo : SUBSET Alert,               \* alerts still to be checked
     row : [Alert -> AlertRecord],      \* the alerts as read
     verdict : [Alert -> Verdict],      \* what their evaluation will give
     old : State]                       \* old_state of the alert in hand

AlertsTypeOK ==
    /\ alert \in [Alert -> AlertRecord]
    /\ verdict \in [Alert -> Verdict]
    /\ check \in [Check -> CheckRecord]
    /\ heard \in [Alert -> News]
    /\ overlap \in BOOLEAN /\ mishap \in BOOLEAN

NewAlert == [state |-> "unknown", rearmed |-> FALSE, muted |-> FALSE]
NewCheck ==
    [pc |-> "new", asked |-> FALSE, todo |-> {}, row |-> [a \in Alert |-> NewAlert],
     verdict |-> [a \in Alert |-> "unknown"], old |-> "unknown"]

AlertsInit ==
    /\ alert = [a \in Alert |-> NewAlert]
    /\ verdict = [a \in Alert |-> "unknown"]
    /\ check = [c \in Check |-> NewCheck]
    /\ heard = [a \in Alert |-> "told"]
    /\ overlap = FALSE /\ mishap = FALSE

Checking(c) == check[c].pc \in {"evaluate", "notify"}
Over(c) == [NewCheck EXCEPT !.pc = "over"]
InHand(c) == CHOOSE a \in check[c].todo : \A b \in check[c].todo : a <= b

-----------------------------------------------------------------------------
(* A result comes and a check of it begins                                 *)

NewResult(c) ==
    /\ check[c].pc = "new"
    /\ verdict' \in Outcome
    /\ check' = [check EXCEPT ![c].pc = "queued"]
    /\ UNCHANGED <<alert, heard, overlap, mishap>>

\* The alerts and the latest result are read.
BeginCheck(c, asked, alerts) ==
    /\ check' = [check EXCEPT ![c] =
                    [pc |-> "evaluate", asked |-> asked, todo |-> alerts, row |-> alert,
                     verdict |-> verdict, old |-> "unknown"]]
    /\ overlap' = (overlap \/ \E d \in Check : Checking(d))
    /\ UNCHANGED <<alert, verdict, heard, mishap>>

Begin(c) == check[c].pc = "queued" /\ BeginCheck(c, FALSE, Alert)

-----------------------------------------------------------------------------
(* Evaluating an alert                                                     *)

ShouldNotify(row, new) ==
    \/ new # row.state
    \/ row.state = "triggered" /\ row.rearmed

\* What becomes of a check when it is through with the alert in hand.
\* A fault for TLC: it returns where it should go on with the next alert.
OnwardReturns(c) == Over(c)
Onward(c) ==
    IF check[c].todo = {InHand(c)} THEN Over(c)
    ELSE [check[c] EXCEPT !.pc = "evaluate", !.todo = @ \ {InHand(c)}]

\* max and min of a column with an empty cell raise TypeError; the job ends.
EvaluateRaises(c) ==
    /\ check[c].pc = "evaluate"
    /\ check[c].verdict[InHand(c)] = "raises"
    /\ check' = [check EXCEPT ![c] = Over(c)]
    /\ mishap' = TRUE
    /\ UNCHANGED <<alert, verdict, heard, overlap>>

EvaluateSame(c) ==
    /\ check[c].pc = "evaluate"
    /\ check[c].verdict[InHand(c)] # "raises"
    /\ ~ShouldNotify(check[c].row[InHand(c)], check[c].verdict[InHand(c)])
    /\ check' = [check EXCEPT ![c] = IF check[c].asked THEN [@ EXCEPT !.pc = "notify"]
                                    ELSE Onward(c)]
    /\ UNCHANGED <<alert, verdict, heard, overlap, mishap>>

\* What subscribers are to hear of: not that an alert nobody knew of is fine.
IsNews(old, new) == ~(old = "unknown" /\ new = "ok")

\* The new state, if it is not the one read, and last_triggered_at are committed.
EvaluateNew(c) ==
    LET a == InHand(c)
        new == check[c].verdict[a]
        row == check[c].row[a]
        state == IF new = row.state THEN alert[a].state ELSE new
    IN  /\ check[c].pc = "evaluate"
        /\ new # "raises" /\ ShouldNotify(row, new)
        /\ alert' = [alert EXCEPT ![a].state = state, ![a].rearmed = FALSE]
        /\ heard' = [heard EXCEPT ![a] = IF state = alert[a].state THEN @
                                        ELSE IF IsNews(alert[a].state, state) THEN "no" ELSE "told"]
        /\ check' = [check EXCEPT ![c].pc = "notify", ![c].old = row.state]
        /\ UNCHANGED <<verdict, overlap, mishap>>

-----------------------------------------------------------------------------
(* Notifying its subscribers                                               *)

\* A fault for TLC: all that comes first of an alert is passed over, bad news too.
SkippedAtFirst(c) ==
    ~check[c].asked /\ (check[c].old = "unknown" \/ check[c].row[InHand(c)].muted)
Skipped(c) ==
    /\ ~check[c].asked
    /\ ~IsNews(check[c].old, check[c].verdict[InHand(c)]) \/ check[c].row[InHand(c)].muted

\* The check is about to tell the state that the alert is in, or would be if it
\* did not take the alert for muted.
WillTell(c, a) ==
    /\ check[c].pc = "notify" /\ InHand(c) = a
    /\ check[c].asked \/ IsNews(check[c].old, check[c].verdict[a])
    /\ alert[a].state = check[c].verdict[a]

HeardAfter(c, a) ==
    IF alert[a].state # check[c].verdict[a] THEN heard[a]
    ELSE IF ~Skipped(c) THEN IF check[c].asked /\ heard[a] # "told" THEN "onrequest" ELSE "told"
    ELSE IF heard[a] = "no" /\ check[c].row[a].muted THEN "muted"
    ELSE heard[a]

Notify(c) ==
    /\ check[c].pc = "notify"
    /\ heard' = [heard EXCEPT ![InHand(c)] = HeardAfter(c, InHand(c))]
    /\ check' = [check EXCEPT ![c] = Onward(c)]
    /\ UNCHANGED <<alert, verdict, overlap, mishap>>

Crash(c) ==
    LET a == InHand(c)
    IN  /\ Checking(c)
        /\ check' = [check EXCEPT ![c] = Over(c)]
        /\ heard' = [heard EXCEPT ![a] = IF @ = "no" /\ WillTell(c, a) THEN "lost" ELSE @]
        /\ mishap' = TRUE
        /\ UNCHANGED <<alert, verdict, overlap>>

-----------------------------------------------------------------------------
(* Time and people                                                         *)

RearmPasses(a) ==
    /\ alert[a].state = "triggered" /\ ~alert[a].rearmed
    /\ alert' = [alert EXCEPT ![a].rearmed = TRUE]
    /\ UNCHANGED <<verdict, check, heard, overlap, mishap>>

Mute(a) ==
    /\ alert' = [alert EXCEPT ![a].muted = ~@]
    /\ UNCHANGED <<verdict, check, heard, overlap, mishap>>

\* AlertEvaluateResource notifies whether anything is new or not.
EvaluateOnRequest(c, a) == check[c].pc = "new" /\ BeginCheck(c, TRUE, {a})

AlertsNext ==
    \/ \E c \in Check :
        \/ NewResult(c) \/ Begin(c)
        \/ EvaluateRaises(c) \/ EvaluateSame(c) \/ EvaluateNew(c)
        \/ Notify(c) \/ Crash(c)
        \/ \E a \in Alert : EvaluateOnRequest(c, a)
    \/ \E a \in Alert : RearmPasses(a) \/ Mute(a)

AlertsSpec == AlertsInit /\ [][AlertsNext]_alertsVars

-----------------------------------------------------------------------------
(* Properties                                                              *)

AtRest == \A c \in Check : check[c].pc \in {"new", "over"}

\* However checks and requests overlap, and although another check may change
\* the state between a commit and its notification: of the state that an alert
\* is in subscribers have heard, or a check is about to tell them, unless the
\* alert was muted or a check died right before it told. What overlapping checks
\* may lose is that an alert is fine again: one that read it when nobody knew of
\* it takes that for no news, whatever has been told meanwhile.
NewsIsTold ==
    \A a \in Alert : heard[a] = "no" =>
        \/ \E c \in Check : WillTell(c, a)
        \/ alert[a].state = "ok" /\ overlap

\* If checks take turns, and none died or raised, every alert of the query is
\* in the state its latest result calls for once the checks are through.
StatesAreVerdicts ==
    AtRest /\ ~mishap /\ ~overlap => \A a \in Alert : alert[a].state = verdict[a]

=============================================================================
