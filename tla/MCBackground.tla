---------------------------- MODULE MCBackground ----------------------------
(***************************************************************************)
(* The parts of the system beside queries and their jobs, on small         *)
(* instances. They share no state, so a behaviour is about one part, named *)
(* by the variable part, and the state spaces add up instead of            *)
(* multiplying.                                                            *)
(***************************************************************************)
EXTENDS VersionedEdits, ResultPages, ScheduleTime, Alerts, Digest,
        LastActive, Membership, Grants, Explain, SchemaCache, PeriodicJobs

VARIABLE part   \* the part that runs; the others stay as they began

Part == {"edits", "pages", "time", "alerts", "digest", "active",
         "membership", "grants", "explain", "schema", "periodic"}

MCSchedule ==
    {[interval |-> days * Day, minute |-> m, weekday |-> NoTime] : days \in 1..2, m \in 0..1}
        \cup {[interval |-> 7 * Day, minute |-> m, weekday |-> 1] : m \in 0..1}
        \cup {[interval |-> 3, minute |-> NoTime, weekday |-> NoTime]}
MCOutcome == {<<"ok", "triggered">>, <<"triggered", "ok">>, <<"unknown", "raises">>}
MCRelease == {{"j1", "j2"}, {"j2", "j3"}}

\* A part that does not run begins in one state only.
BackgroundInit ==
    /\ part \in Part
    /\ EditsInit
    /\ PagesInit
    /\ TimeInit
    /\ AlertsInit
    /\ DigestInit
    /\ ActiveInit
    /\ MembershipInit
    /\ GrantsInit
    /\ ExplainInit
    /\ SchemaInit
    /\ PeriodicInit
    /\ part # "pages" => result = <<>> /\ view.size = MaxPageSize
    /\ part # "time" => schedule = CHOOSE s \in Schedule : TRUE
    /\ part # "digest" => \A s \in Subscription : digest[s].frequency = "daily"

KeepOthers(p) ==
    /\ UNCHANGED part
    /\ IF p = "edits" THEN TRUE ELSE UNCHANGED editsVars
    /\ IF p = "pages" THEN TRUE ELSE UNCHANGED pagesVars
    /\ IF p = "time" THEN TRUE ELSE UNCHANGED timeVars
    /\ IF p = "alerts" THEN TRUE ELSE UNCHANGED alertsVars
    /\ IF p = "digest" THEN TRUE ELSE UNCHANGED digestVars
    /\ IF p = "active" THEN TRUE ELSE UNCHANGED activeVars
    /\ IF p = "membership" THEN TRUE ELSE UNCHANGED membershipVars
    /\ IF p = "grants" THEN TRUE ELSE UNCHANGED grantsVars
    /\ IF p = "explain" THEN TRUE ELSE UNCHANGED explainVars
    /\ IF p = "schema" THEN TRUE ELSE UNCHANGED schemaVars
    /\ IF p = "periodic" THEN TRUE ELSE UNCHANGED periodicVars

BackgroundNext ==
    \/ part = "edits" /\ EditsNext /\ KeepOthers("edits")
    \/ part = "pages" /\ PagesNext /\ KeepOthers("pages")
    \/ part = "time" /\ TimeNext /\ KeepOthers("time")
    \/ part = "alerts" /\ AlertsNext /\ KeepOthers("alerts")
    \/ part = "digest" /\ DigestNext /\ KeepOthers("digest")
    \/ part = "active" /\ ActiveNext /\ KeepOthers("active")
    \/ part = "membership" /\ MembershipNext /\ KeepOthers("membership")
    \/ part = "grants" /\ GrantsNext /\ KeepOthers("grants")
    \/ part = "explain" /\ ExplainNext /\ KeepOthers("explain")
    \/ part = "schema" /\ SchemaNext /\ KeepOthers("schema")
    \/ part = "periodic" /\ PeriodicNext /\ KeepOthers("periodic")

vars == <<part, editsVars, pagesVars, timeVars, alertsVars, digestVars,
          activeVars, membershipVars, grantsVars, explainVars, schemaVars,
          periodicVars>>

BackgroundSpec == BackgroundInit /\ [][BackgroundNext]_vars

\* Every part's variables stay in their types.
BackgroundTypeOK ==
    /\ EditsTypeOK
    /\ PagesTypeOK
    /\ TimeTypeOK
    /\ AlertsTypeOK
    /\ DigestTypeOK
    /\ ActiveTypeOK
    /\ MembershipTypeOK
    /\ GrantsTypeOK
    /\ ExplainTypeOK
    /\ SchemaTypeOK
    /\ PeriodicTypeOK

=============================================================================
