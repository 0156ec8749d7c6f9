------------------------- MODULE QueryResultsProofs -------------------------
(***************************************************************************)
(* What QueryResults guarantees for any queries, executions and editors:   *)
(* the types always; that alerts see the results they were woken for, as   *)
(* long as nobody edits; that the latest result is the newest and failures *)
(* are counted, as long as transactions do not meet.                       *)
(***************************************************************************)
EXTENDS QueryResults, FiniteSetTheorems, TLAPS

USE ConstantsAssumption

-----------------------------------------------------------------------------
(* The types, and the order of results                                     *)

Before(e) ==
    exec[e].pc \in {"new", "running", "track", "store", "reset", "select", "update", "commit"}

\* Nobody has a later result than every other, and results are counted as they
\* are committed.
TimesOK == Exec # {} => \E d \in Exec : \A c \in Exec : exec[c].at <= exec[d].at
OrderOK ==
    \A e \in Exec :
        /\ Before(e) => exec[e].order = 0
        /\ exec[e].order <= Cardinality(Committed)

\* Of the results of a text one is the newest.
BestOK ==
    \A h \in Hash : ResultsOf(h) # {} =>
        \E d \in ResultsOf(h) : \A e \in ResultsOf(h) : exec[e].at <= exec[d].at

BaseInv == TypeOK /\ TimesOK /\ OrderOK /\ BestOK

\* A step of e that stores and commits nothing.
Local(e) ==
    /\ exec' \in [Exec -> ExecRecord]
    /\ \A d \in Exec \ {e} : exec'[d] = exec[d]
    /\ exec'[e].order = exec[e].order /\ exec'[e].at = exec[e].at
    /\ exec[e].pc # "new" => exec'[e].hash = exec[e].hash
    /\ Before(e)' => Before(e)

\* What is read of the rows is as before; locks may be taken and released.
RowsKept ==
    /\ query' \in [Query -> QueryRecord]
    /\ \A q \in Query :
        /\ query'[q].hash = query[q].hash /\ query'[q].latest = query[q].latest
        /\ query'[q].failures = query[q].failures /\ query'[q].streak = query[q].streak

\* What an execution knows about itself between its load and its end.
Carries(e) ==
    /\ exec'[e].query = exec[e].query /\ exec'[e].loaded = exec[e].loaded
    /\ exec'[e].scheduled = exec[e].scheduled

\* The way of an execution, but for its store and its commit.
Moves(e) ==
    \/ exec[e].pc = "running" /\ exec'[e].pc \in {"track", "store"}
    \/ exec[e].pc = "reset" /\ exec'[e].pc = "select"
    \/ /\ exec[e].pc = "select" /\ exec'[e].pc = "update"
       /\ exec'[e].seen = SameHash(exec[e].hash)
    \/ exec[e].pc = "update" /\ exec'[e].pc = "update" /\ exec'[e].seen = exec[e].seen
    \/ /\ exec[e].pc = "update" /\ exec'[e].pc = "commit" /\ exec'[e].seen = exec[e].seen
       /\ exec'[e].todo = SameHash(exec[e].hash)

\* A set of times that has a greatest one has it for its maximum.
LEMMA MaxOfTimes ==
    ASSUME NEW S \in SUBSET Nat, NEW m \in S, \A x \in S : x <= m
    PROVE  Max(S) \in S /\ \A x \in S : x <= Max(S)
<1> DEFINE P(x) == \A y \in S : x >= y
<1>1. m \in S /\ P(m) OBVIOUS
<1> HIDE DEF P
<1>2. Max(S) = CHOOSE x \in S : P(x) BY DEF Max, P
<1>3. Max(S) \in S /\ P(Max(S)) BY <1>1, <1>2, Zenon
<1> QED BY <1>3 DEF P

\* There are finitely many results, so that their number is one.
LEMMA CommittedFinite == IsFiniteSet(Committed) /\ Cardinality(Committed) \in Nat
<1>1. Committed \subseteq Exec BY DEF Committed
<1> QED BY <1>1, FS_Subset, FS_CardinalityType

\* The results of a text stay the same as long as nothing is committed.
LEMMA SameResults ==
    ASSUME BaseInv,
           \A d \in Exec : /\ exec'[d].order = exec[d].order
                           /\ exec[d].order > 0 => exec'[d].hash = exec[d].hash
    PROVE  Committed' = Committed /\ \A h \in Hash : ResultsOf(h)' = ResultsOf(h)
<1>1. Committed' = Committed BY DEF Committed
<1>2. \A d \in Committed : exec'[d].hash = exec[d].hash BY DEF Committed
<1> QED BY <1>1, <1>2 DEF ResultsOf

\* A local step keeps the order of results.
LEMMA LocalBase ==
    ASSUME BaseInv, NEW e \in Exec, Local(e), query' \in [Query -> QueryRecord],
           edit' \in [Editor -> EditRecord], checks' \subseteq Query \X Exec
    PROVE  BaseInv'
<1>1. TypeOK' BY DEF Local, TypeOK
<1>2. \A d \in Exec : /\ exec'[d].order = exec[d].order /\ exec'[d].at = exec[d].at
                      /\ Before(d)' => Before(d)
    BY DEF Local, Before
<1>3. \A d \in Exec : exec[d].order > 0 => exec'[d].hash = exec[d].hash
    BY DEF Local, BaseInv, OrderOK, Before
<1>4. Committed' = Committed /\ \A h \in Hash : ResultsOf(h)' = ResultsOf(h)
    BY <1>2, <1>3, SameResults
<1>5. TimesOK' BY <1>2 DEF BaseInv, TimesOK
<1>6. OrderOK' BY <1>2, <1>4 DEF BaseInv, OrderOK
<1>7. BestOK' BY <1>2, <1>4 DEF BaseInv, BestOK, ResultsOf, Committed
<1> QED BY <1>1, <1>5, <1>6, <1>7 DEF BaseInv

\* So does a step that leaves executions alone.
LEMMA OtherBase ==
    ASSUME BaseInv, exec' = exec, query' \in [Query -> QueryRecord],
           edit' \in [Editor -> EditRecord], checks' \subseteq Query \X Exec
    PROVE  BaseInv'
<1>1. TypeOK' BY DEF BaseInv, TypeOK
<1>2. Committed' = Committed /\ \A h \in Hash : ResultsOf(h)' = ResultsOf(h)
    BY SameResults
<1> QED BY <1>1, <1>2 DEF BaseInv, TimesOK, OrderOK, BestOK, Before

\* An execution that is loaded.
LEMMA LoadFacts ==
    ASSUME TypeOK, NEW e \in Exec, Load(e)
    PROVE  /\ Local(e) /\ UNCHANGED <<query, edit, checks>> /\ (Overlap \/ Quiet)
           /\ exec[e].pc = "new" /\ exec'[e].pc = "running"
           /\ exec'[e].query \in Query => exec'[e].loaded = query[exec'[e].query].failures
<1>1. PICK h \in Hash, q \in Query \cup {NoQuery}, s \in BOOLEAN :
        /\ MayLoad(e, h)
        /\ exec' = [exec EXCEPT ![e].pc = "running", ![e].hash = h, ![e].query = q,
                                ![e].scheduled = s, ![e].loaded = Loaded(q)]
    BY DEF Load
<1>2. exec[e] \in ExecRecord /\ exec[e].pc = "new" BY DEF TypeOK, Load
<1>3. Loaded(q) \in Nat /\ (q \in Query => Loaded(q) = query[q].failures)
    BY DEF Loaded, TypeOK, QueryRecord
<1> DEFINE new == [exec[e] EXCEPT !.pc = "running", !.hash = h, !.query = q,
                                  !.scheduled = s, !.loaded = Loaded(q)]
<1>4. /\ new \in ExecRecord /\ new.pc = "running" /\ new.query = q /\ new.loaded = Loaded(q)
      /\ new.order = exec[e].order /\ new.at = exec[e].at
    BY <1>2, <1>3 DEF ExecRecord
<1>5. exec' = [exec EXCEPT ![e] = new] BY <1>1 DEF TypeOK
<1> HIDE DEF new
<1>6. exec'[e] = new /\ Local(e)
    BY <1>2, <1>4, <1>5 DEF TypeOK, Local, Before
<1> QED BY <1>1, <1>2, <1>3, <1>4, <1>6 DEF Load, MayLoad

\* An execution that ends, one way or the other.
LEMMA EndFacts ==
    ASSUME TypeOK, NEW e \in Exec, NEW label \in {"done", "dead"}, End(e, label)
    PROVE  Local(e) /\ exec'[e].pc = label
<1> DEFINE new == [exec[e] EXCEPT !.pc = label, !.query = NoQuery, !.scheduled = FALSE,
                                  !.loaded = 0, !.seen = {}, !.todo = {}]
<1>1. exec[e] \in ExecRecord BY DEF TypeOK
<1>2. /\ new \in ExecRecord /\ new.pc = label /\ new.order = exec[e].order
      /\ new.at = exec[e].at /\ new.hash = exec[e].hash
    BY <1>1 DEF ExecRecord
<1>3. exec' = [exec EXCEPT ![e] = new] BY DEF End
<1> HIDE DEF new
<1> QED BY <1>2, <1>3 DEF TypeOK, Local, Before

\* An execution that only goes on.
LEMMA GotoFacts ==
    ASSUME TypeOK, NEW e \in Exec, NEW label \in {"track", "store", "select"},
           Before(e), Goto(e, label)
    PROVE  /\ Local(e) /\ Carries(e) /\ exec'[e].pc = label /\ exec'[e].hash = exec[e].hash
           /\ exec'[e].seen = exec[e].seen /\ exec'[e].todo = exec[e].todo
<1> DEFINE new == [exec[e] EXCEPT !.pc = label]
<1>1. exec[e] \in ExecRecord BY DEF TypeOK
<1>2. /\ new \in ExecRecord /\ new.pc = label /\ new.order = exec[e].order
      /\ new.at = exec[e].at /\ new.hash = exec[e].hash /\ new.query = exec[e].query
      /\ new.loaded = exec[e].loaded /\ new.scheduled = exec[e].scheduled
      /\ new.seen = exec[e].seen /\ new.todo = exec[e].todo
    BY <1>1 DEF ExecRecord
<1>3. exec' = [exec EXCEPT ![e] = new] BY DEF Goto, TypeOK
<1> HIDE DEF new
<1> QED BY <1>2, <1>3 DEF TypeOK, Local, Before, Carries

\* Taking and releasing locks keeps the rows.
LEMMA LocksKeepRows ==
    ASSUME TypeOK, NEW e \in Exec,
           query' = Release(e) \/ \E q \in Query : query' = [query EXCEPT ![q].holder = e]
    PROVE  RowsKept
<1>1. \A q \in Query : query[q] \in QueryRecord BY DEF TypeOK
<1>2. CASE query' = Release(e)
    <2>1. ASSUME NEW q \in Query
          PROVE  /\ query'[q] \in QueryRecord
                 /\ query'[q].hash = query[q].hash /\ query'[q].latest = query[q].latest
                 /\ query'[q].failures = query[q].failures /\ query'[q].streak = query[q].streak
        <3>1. query'[q] = query[q] \/ query'[q] = [query[q] EXCEPT !.holder = NoExec]
            BY <1>2 DEF Release
        <3> QED BY <1>1, <3>1 DEF QueryRecord
    <2>2. query' = [q \in Query |-> query'[q]] BY <1>2 DEF Release
    <2> QED BY <2>1, <2>2 DEF RowsKept
<1>3. ASSUME NEW q \in Query, query' = [query EXCEPT ![q].holder = e] PROVE RowsKept
    <2> DEFINE new == [query[q] EXCEPT !.holder = e]
    <2>1. /\ new \in QueryRecord /\ new.hash = query[q].hash /\ new.latest = query[q].latest
          /\ new.failures = query[q].failures /\ new.streak = query[q].streak
        BY <1>1 DEF QueryRecord
    <2>2. query' = [query EXCEPT ![q] = new] BY <1>3 DEF TypeOK
    <2> HIDE DEF new
    <2> QED BY <2>1, <2>2 DEF TypeOK, RowsKept
<1> QED BY <1>2, <1>3

\* The steps that neither count a failure nor store, commit or enqueue.
QuietStep(e) ==
    \/ RunFails(e) \/ RunSucceeds(e) \/ Reset(e) \/ Select(e) \/ Update(e) \/ Collect(e)
    \/ Finish(e) \/ AbortDeadlocked(e) \/ Crash(e)

\* They keep the rows, and an execution ends or takes the next step of its way.
LEMMA QuietFacts ==
    ASSUME TypeOK, NEW e \in Exec, QuietStep(e)
    PROVE  /\ Local(e) /\ RowsKept /\ UNCHANGED <<edit, checks>> /\ ~Over(e)
           /\ \/ exec'[e].pc \in {"done", "dead"}
              \/ Moves(e) /\ Carries(e) /\ exec'[e].hash = exec[e].hash
<1>1. exec[e] \in ExecRecord /\ query \in [Query -> QueryRecord] BY DEF TypeOK
<1>2. UNCHANGED query => RowsKept BY <1>1 DEF RowsKept
<1>3. CASE RunFails(e) \/ RunSucceeds(e)
    <2>1. UNCHANGED <<query, edit, checks>> /\ exec[e].pc = "running"
          /\ (Goto(e, "track") \/ Goto(e, "store") \/ End(e, "done"))
        BY <1>3 DEF RunFails, RunSucceeds
    <2> QED BY <1>2, <2>1, GotoFacts, EndFacts DEF Moves, Over, Before
<1>4. CASE Reset(e)
    <2>1. query' = [query EXCEPT ![exec[e].query].holder = e] /\ exec[e].pc = "reset"
          /\ Goto(e, "select") /\ UNCHANGED <<edit, checks>>
        BY <1>4 DEF Reset
    <2>2. RowsKept
        <3>1. CASE exec[e].query \in Query BY <2>1, <3>1, LocksKeepRows
        <3>2. CASE exec[e].query \notin Query
            <4>1. query' = query BY <1>1, <2>1, <3>2
            <4> QED BY <1>2, <4>1
        <3> QED BY <3>1, <3>2
    <2> QED BY <2>1, <2>2, GotoFacts DEF Moves, Over, Before
<1>5. CASE Select(e)
    <2> DEFINE new == [exec[e] EXCEPT !.pc = "update", !.seen = SameHash(exec[e].hash),
                                      !.todo = SameHash(exec[e].hash)]
    <2>1. exec' = [exec EXCEPT ![e] = new] /\ exec[e].pc = "select"
          /\ UNCHANGED <<query, edit, checks>>
        BY <1>1, <1>5 DEF Select, TypeOK
    <2>2. SameHash(exec[e].hash) \in SUBSET Query BY DEF SameHash
    <2>3. /\ new \in ExecRecord /\ new.pc = "update" /\ new.seen = SameHash(exec[e].hash)
          /\ new.order = exec[e].order /\ new.at = exec[e].at /\ new.hash = exec[e].hash
          /\ new.query = exec[e].query /\ new.loaded = exec[e].loaded
          /\ new.scheduled = exec[e].scheduled
        BY <1>1, <2>2 DEF ExecRecord
    <2> HIDE DEF new
    <2> QED BY <1>1, <1>2, <2>1, <2>3 DEF TypeOK, Local, Before, Moves, Carries, Over
<1>6. CASE Update(e)
    <2> DEFINE q == Min(exec[e].todo)
    <2> DEFINE new == [exec[e] EXCEPT !.todo = exec[e].todo \ {q}]
    <2>1. exec' = [exec EXCEPT ![e] = new] /\ exec[e].pc = "update"
          /\ query' = [query EXCEPT ![q].holder = e] /\ UNCHANGED <<edit, checks>>
        BY <1>1, <1>6 DEF Update, TypeOK
    <2>2. /\ new \in ExecRecord /\ new.pc = "update" /\ new.seen = exec[e].seen
          /\ new.order = exec[e].order /\ new.at = exec[e].at /\ new.hash = exec[e].hash
          /\ new.query = exec[e].query /\ new.loaded = exec[e].loaded
          /\ new.scheduled = exec[e].scheduled
        BY <1>1, <2>1 DEF ExecRecord
    <2> HIDE DEF new, q
    <2>3. RowsKept
        <3>1. CASE q \in Query BY <2>1, <3>1, LocksKeepRows
        <3>2. CASE q \notin Query
            <4>1. query' = query BY <1>1, <2>1, <3>2
            <4> QED BY <1>2, <4>1
        <3> QED BY <3>1, <3>2
    <2> QED BY <1>1, <2>1, <2>2, <2>3 DEF TypeOK, Local, Before, Moves, Carries, Over
<1>7. CASE Collect(e)
    <2> DEFINE new == [exec[e] EXCEPT !.pc = "commit", !.todo = SameHash(exec[e].hash)]
    <2>1. exec' = [exec EXCEPT ![e] = new] /\ exec[e].pc = "update"
          /\ UNCHANGED <<query, edit, checks>>
        BY <1>1, <1>7 DEF Collect, Ids, TypeOK
    <2>2. SameHash(exec[e].hash) \in SUBSET Query BY DEF SameHash
    <2>3. /\ new \in ExecRecord /\ new.pc = "commit" /\ new.seen = exec[e].seen
          /\ new.todo = SameHash(exec[e].hash)
          /\ new.order = exec[e].order /\ new.at = exec[e].at /\ new.hash = exec[e].hash
          /\ new.query = exec[e].query /\ new.loaded = exec[e].loaded
          /\ new.scheduled = exec[e].scheduled
        BY <1>1, <2>2 DEF ExecRecord
    <2> HIDE DEF new
    <2> QED BY <1>1, <1>2, <2>1, <2>3 DEF TypeOK, Local, Before, Moves, Carries, Over
<1>8. CASE Finish(e)
    <2>1. End(e, "done") /\ UNCHANGED <<query, edit, checks>> /\ exec[e].pc = "enqueue"
        BY <1>8 DEF Finish
    <2> QED BY <1>2, <2>1, EndFacts DEF Over
<1>9. CASE AbortDeadlocked(e) \/ Crash(e)
    <2>1. End(e, "dead") /\ query' = Release(e) /\ UNCHANGED <<edit, checks>>
        BY <1>9 DEF AbortDeadlocked, Crash
    <2>2. ~Over(e)
        BY <1>9 DEF Crash, AbortDeadlocked, Deadlocked, Awaits, Wanted, Over
    <2> QED BY <2>1, <2>2, EndFacts, LocksKeepRows
<1> QED BY <1>3, <1>4, <1>5, <1>6, <1>7, <1>8, <1>9 DEF QuietStep

\* A failure that is counted ends its execution.
LEMMA TrackFacts ==
    ASSUME TypeOK, NEW e \in Exec, Track(e)
    PROVE  /\ Local(e) /\ exec[e].pc = "track" /\ exec'[e].pc = "done"
           /\ UNCHANGED <<edit, checks>> /\ query' \in [Query -> QueryRecord]
           /\ \A q \in Query :
                /\ query'[q].hash = query[q].hash /\ query'[q].latest = query[q].latest
                /\ q # exec[e].query =>
                    query'[q].failures = query[q].failures /\ query'[q].streak = query[q].streak
                /\ q = exec[e].query =>
                    query'[q].failures = exec[e].loaded + 1
                    /\ query'[q].streak = query[q].streak + 1
<1> DEFINE r == exec[e].query
<1> DEFINE failures == exec[e].loaded + 1
<1> DEFINE streak == query[r].streak + 1
<1> DEFINE new == [query[r] EXCEPT !.failures = failures, !.streak = streak]
<1>1. /\ query' = [query EXCEPT ![r].failures = exec[e].loaded + 1, ![r].streak = @ + 1]
      /\ exec[e].pc = "track" /\ End(e, "done") /\ UNCHANGED <<edit, checks>>
    BY DEF Track
<1>2. Local(e) /\ exec'[e].pc = "done" BY <1>1, EndFacts
<1>3. exec[e].loaded \in Nat BY DEF TypeOK, ExecRecord
<1>4. CASE r \in Query
    <2>1. query[r] \in QueryRecord BY <1>4 DEF TypeOK
    <2>2. /\ new \in QueryRecord /\ new.hash = query[r].hash /\ new.latest = query[r].latest
          /\ new.failures = failures /\ new.streak = streak
        <3>1. failures \in Nat /\ streak \in Nat BY <1>3, <2>1 DEF QueryRecord
        <3> HIDE DEF failures, streak, r
        <3> QED BY <2>1, <3>1 DEF QueryRecord
    <2>3. query' = [query EXCEPT ![r] = new] BY <1>1, <1>4 DEF TypeOK
    <2> HIDE DEF new, r
    <2>4. query'[r] = new /\ \A q \in Query \ {r} : query'[q] = query[q]
        BY <1>4, <2>3 DEF TypeOK
    <2>5. query' \in [Query -> QueryRecord] BY <2>2, <2>3 DEF TypeOK
    <2> QED BY <1>1, <1>2, <2>2, <2>4, <2>5 DEF r
<1>5. CASE r \notin Query
    <2>1. query' = query BY <1>1, <1>5 DEF TypeOK
    <2> QED BY <1>1, <1>2, <1>5, <2>1 DEF TypeOK
<1> QED BY <1>4, <1>5

\* A result that is stored is the newest one.
LEMMA StoreFacts ==
    ASSUME BaseInv, NEW e \in Exec, Store(e)
    PROVE  /\ BaseInv' /\ UNCHANGED <<query, edit, checks>>
           /\ exec[e].pc = "store" /\ exec'[e].pc \in {"reset", "select"}
           /\ Carries(e) /\ exec'[e].hash = exec[e].hash /\ exec'[e].order = exec[e].order
           /\ \A d \in Exec \ {e} : exec'[d] = exec[d] /\ exec'[d].at < exec'[e].at
<1> DEFINE S == {exec[d].at : d \in Exec}
<1> DEFINE label == IF Resets(e) THEN "reset" ELSE "select"
<1> DEFINE now == 1 + Max(S)
<1> DEFINE new == [exec[e] EXCEPT !.at = now, !.pc = label]
<1>1. /\ exec' = [exec EXCEPT ![e] = new] /\ exec[e].pc = "store"
      /\ UNCHANGED <<query, edit, checks>>
    BY DEF BaseInv, Store, TypeOK
<1>2. S \in SUBSET Nat BY DEF BaseInv, TypeOK, ExecRecord
<1>3. PICK d \in Exec : \A c \in Exec : exec[c].at <= exec[d].at BY DEF BaseInv, TimesOK
<1>4. Max(S) \in Nat /\ \A c \in Exec : exec[c].at <= Max(S)
    <2>1. exec[d].at \in S /\ \A x \in S : x <= exec[d].at BY <1>3
    <2>2. \A c \in Exec : exec[c].at \in S OBVIOUS
    <2> HIDE DEF S
    <2> QED BY <1>2, <2>1, <2>2, MaxOfTimes
<1>5. exec[e] \in ExecRecord /\ now \in Nat /\ \A c \in Exec : exec[c].at < now
    <2>1. \A c \in Exec : exec[c].at \in Nat BY DEF BaseInv, TypeOK, ExecRecord
    <2> HIDE DEF S
    <2> QED BY <1>4, <2>1 DEF BaseInv, TypeOK
<1> HIDE DEF S, now
<1>6. label \in {"reset", "select"} OBVIOUS
<1> HIDE DEF label
<1>7. /\ new \in ExecRecord /\ new.pc = label /\ new.at = now
      /\ new.order = exec[e].order /\ new.hash = exec[e].hash /\ new.query = exec[e].query
      /\ new.loaded = exec[e].loaded /\ new.scheduled = exec[e].scheduled
    BY <1>5, <1>6 DEF ExecRecord
<1> HIDE DEF new
<1>8. exec'[e] = new /\ \A c \in Exec \ {e} : exec'[c] = exec[c]
    BY <1>1 DEF BaseInv, TypeOK
<1>9. \A c \in Exec : exec[c].at \in Nat BY DEF BaseInv, TypeOK, ExecRecord
<1>10. \A c \in Exec \ {e} : exec'[c].at < exec'[e].at
    BY <1>5, <1>7, <1>8
<1>11. BaseInv'
    <2>1. TypeOK' BY <1>1, <1>7 DEF BaseInv, TypeOK
    <2>2. TimesOK' BY <1>5, <1>7, <1>8, <1>9 DEF TimesOK
    <2>3. \A c \in Exec : exec'[c].order = exec[c].order /\ (Before(c)' => Before(c))
        BY <1>1, <1>7, <1>8 DEF Before
    <2>4. \A c \in Exec : exec'[c].hash = exec[c].hash BY <1>7, <1>8
    <2>5. Committed' = Committed /\ \A h \in Hash : ResultsOf(h)' = ResultsOf(h)
        BY <2>3, <2>4, SameResults
    <2>6. OrderOK' BY <2>3, <2>5 DEF BaseInv, OrderOK
    <2>7. \A c \in Committed : exec'[c].at = exec[c].at
        <3>1. exec[e].order = 0 BY <1>1 DEF BaseInv, OrderOK, Before
        <3>2. e \notin Committed BY <3>1 DEF Committed
        <3> QED BY <1>8, <3>2 DEF Committed
    <2>8. BestOK' BY <2>5, <2>7 DEF BaseInv, BestOK, ResultsOf
    <2> QED BY <2>1, <2>2, <2>6, <2>8 DEF BaseInv
<1> QED BY <1>1, <1>6, <1>7, <1>8, <1>10, <1>11 DEF Carries

\* A result that is committed is the last of those that were.
LEMMA CommitFacts ==
    ASSUME BaseInv, NEW e \in Exec, Commit(e)
    PROVE  /\ BaseInv' /\ UNCHANGED <<edit, checks>>
           /\ exec[e].pc = "commit" /\ exec'[e].pc = "enqueue"
           /\ exec[e].order = 0 /\ exec'[e].order > 0 /\ exec'[e].order \in Nat
           /\ \A d \in Exec : exec[d].order < exec'[e].order
           /\ exec'[e].hash = exec[e].hash /\ exec'[e].at = exec[e].at
           /\ exec'[e].todo = exec[e].todo
           /\ \A d \in Exec \ {e} : exec'[d] = exec[d]
           /\ \A q \in Query :
                /\ query'[q].hash = query[q].hash
                /\ query'[q].latest = IF q \in exec[e].seen THEN e ELSE query[q].latest
                /\ query'[q].failures =
                    IF q = exec[e].query /\ Resets(e) THEN 0 ELSE query[q].failures
                /\ query'[q].streak = IF q = exec[e].query THEN 0 ELSE query[q].streak
<1> DEFINE n == 1 + Cardinality(Committed)
<1> DEFINE new == [exec[e] EXCEPT !.pc = "enqueue", !.order = n]
<1>1. /\ exec' = [exec EXCEPT ![e] = new] /\ exec[e].pc = "commit"
      /\ query' = [q \in Query |-> Written(e, q)] /\ UNCHANGED <<edit, checks>>
    BY DEF BaseInv, Commit, TypeOK
<1>2. n \in Nat /\ n > 0 BY CommittedFinite
<1>3. exec[e] \in ExecRecord BY DEF BaseInv, TypeOK
<1>4. /\ new \in ExecRecord /\ new.pc = "enqueue" /\ new.order = n /\ new.at = exec[e].at
      /\ new.hash = exec[e].hash /\ new.todo = exec[e].todo
    BY <1>2, <1>3 DEF ExecRecord
<1> HIDE DEF new
<1>5. exec'[e] = new /\ \A d \in Exec \ {e} : exec'[d] = exec[d]
    BY <1>1 DEF BaseInv, TypeOK
<1>6. exec[e].order = 0 BY <1>1 DEF BaseInv, OrderOK, Before
<1>7. \A d \in Exec : exec[d].order \in Nat /\ exec[d].order < n
    BY <1>2, CommittedFinite DEF BaseInv, OrderOK, TypeOK, ExecRecord
<1>8. ASSUME NEW q \in Query
      PROVE  /\ query'[q] \in QueryRecord /\ query'[q].hash = query[q].hash
             /\ query'[q].latest = IF q \in exec[e].seen THEN e ELSE query[q].latest
             /\ query'[q].failures =
                 IF q = exec[e].query /\ Resets(e) THEN 0 ELSE query[q].failures
             /\ query'[q].streak = IF q = exec[e].query THEN 0 ELSE query[q].streak
    <2> DEFINE latest == IF q \in exec[e].seen THEN e ELSE query[q].latest
    <2> DEFINE failures == IF q = exec[e].query /\ Resets(e) THEN 0 ELSE query[q].failures
    <2> DEFINE streak == IF q = exec[e].query THEN 0 ELSE query[q].streak
    <2> DEFINE holder == HolderAfter(e, q)
    <2>1. query[q] \in QueryRecord BY DEF BaseInv, TypeOK
    <2>2. /\ latest \in Exec \cup {NoExec} /\ failures \in Nat /\ streak \in Nat
          /\ holder \in Exec \cup {NoExec}
        BY <2>1 DEF QueryRecord, HolderAfter
    <2>3. query'[q] = [query[q] EXCEPT !.latest = latest, !.failures = failures,
                                       !.streak = streak, !.holder = holder]
        BY <1>1 DEF Written
    <2> HIDE DEF latest, failures, streak, holder
    <2>4. query'[q] \in QueryRecord /\ query'[q].hash = query[q].hash
          /\ query'[q].latest = latest /\ query'[q].failures = failures
          /\ query'[q].streak = streak
        BY <2>1, <2>2, <2>3 DEF QueryRecord
    <2> QED BY <2>4 DEF latest, failures, streak
<1>9. BaseInv'
    <2>1. query' \in [Query -> QueryRecord] BY <1>1, <1>8
    <2>2. TypeOK' BY <1>1, <1>4, <2>1 DEF BaseInv, TypeOK
    <2>3. TimesOK' BY <1>4, <1>5 DEF BaseInv, TimesOK
    <2>4. Committed' = Committed \cup {e} /\ e \notin Committed
        BY <1>2, <1>4, <1>5, <1>6 DEF Committed
    <2>5. Cardinality(Committed') = n
        <3>1. Cardinality(Committed \cup {e}) = Cardinality(Committed) + 1
            BY <2>4, CommittedFinite, FS_AddElement
        <3> QED BY <2>4, <3>1, CommittedFinite
    <2>6. OrderOK'
        <3>1. \A d \in Exec : Before(d)' => Before(d) /\ d # e
            BY <1>4, <1>5 DEF Before
        <3>2. \A d \in Exec : exec'[d].order <= n
            BY <1>2, <1>4, <1>5, <1>7
        <3> QED BY <1>5, <2>5, <3>1, <3>2 DEF BaseInv, OrderOK
    <2>7. BestOK'
        <3> SUFFICES ASSUME NEW h \in Hash, ResultsOf(h)' # {}
                     PROVE  \E d \in ResultsOf(h)' : \A c \in ResultsOf(h)' :
                                exec'[c].at <= exec'[d].at
            BY DEF BestOK
        <3>1. \A c \in Exec : exec'[c].at = exec[c].at /\ exec'[c].hash = exec[c].hash
                             /\ exec[c].at \in Nat
            BY <1>4, <1>5 DEF BaseInv, TypeOK, ExecRecord
        <3>2. ResultsOf(h)' = IF exec[e].hash = h THEN ResultsOf(h) \cup {e} ELSE ResultsOf(h)
            BY <2>4, <3>1 DEF ResultsOf, Committed
        <3>3. ResultsOf(h) \subseteq Exec BY DEF ResultsOf, Committed
        <3>4. CASE ResultsOf(h) = {}
            BY <3>1, <3>2, <3>3, <3>4
        <3>5. CASE ResultsOf(h) # {}
            <4>1. PICK d \in ResultsOf(h) : \A c \in ResultsOf(h) : exec[c].at <= exec[d].at
                BY <3>5 DEF BaseInv, BestOK
            <4>2. CASE exec[e].at <= exec[d].at
                BY <3>1, <3>2, <3>3, <4>1, <4>2
            <4>3. CASE ~(exec[e].at <= exec[d].at) /\ exec[e].hash = h
                <5>1. \A c \in ResultsOf(h) : exec[c].at <= exec[e].at
                    BY <3>1, <3>3, <4>1, <4>3
                <5> QED BY <3>1, <3>2, <3>3, <4>3, <5>1
            <4>4. CASE exec[e].hash # h
                BY <3>1, <3>2, <3>3, <4>1, <4>4
            <4> QED BY <4>2, <4>3, <4>4
        <3> QED BY <3>4, <3>5
    <2> QED BY <2>2, <2>3, <2>6, <2>7 DEF BaseInv
<1> QED BY <1>1, <1>2, <1>4, <1>5, <1>6, <1>7, <1>8, <1>9

\* A check of alerts that is enqueued.
LEMMA DelayFacts ==
    ASSUME TypeOK, NEW e \in Exec, NEW q \in Query, Delay(e, q)
    PROVE  /\ Local(e) /\ UNCHANGED <<query, edit>> /\ checks' = checks \cup {<<q, e>>}
           /\ exec[e].pc = "enqueue" /\ exec'[e].pc = "enqueue" /\ q \in exec[e].todo
           /\ exec'[e].todo \subseteq exec[e].todo /\ exec'[e].hash = exec[e].hash
<1> DEFINE new == [exec[e] EXCEPT !.todo = exec[e].todo \ {q}]
<1>1. /\ exec' = [exec EXCEPT ![e] = new] /\ exec[e].pc = "enqueue" /\ q \in exec[e].todo
      /\ checks' = checks \cup {<<q, e>>} /\ UNCHANGED <<query, edit>>
    BY DEF Delay, ReadyToCheck, TypeOK
<1>2. exec[e] \in ExecRecord BY DEF TypeOK
<1>3. /\ new \in ExecRecord /\ new.pc = "enqueue" /\ new.order = exec[e].order
      /\ new.at = exec[e].at /\ new.hash = exec[e].hash /\ new.todo = exec[e].todo \ {q}
    BY <1>1, <1>2 DEF ExecRecord
<1> HIDE DEF new
<1> QED BY <1>1, <1>3 DEF TypeOK, Local, Before

\* What an editor finds is the newest result of the text, if there is one.
LEMMA NewestFacts ==
    ASSUME BaseInv, NEW h
    PROVE  \/ ResultsOf(h) = {} /\ NewestOf(h) = NoExec
           \/ /\ NewestOf(h) \in ResultsOf(h) /\ NewestOf(h) \in Exec
              /\ \A d \in ResultsOf(h) : exec[d].at <= exec[NewestOf(h)].at
<1> DEFINE P(e) == \A d \in ResultsOf(h) : exec[d].at <= exec[e].at
<1>1. CASE ResultsOf(h) = {} BY <1>1 DEF NewestOf
<1>2. CASE ResultsOf(h) # {}
    <2>1. h \in Hash BY <1>2 DEF BaseInv, TypeOK, ExecRecord, ResultsOf, Committed
    <2>2. \E e \in ResultsOf(h) : P(e) BY <1>2, <2>1 DEF BaseInv, BestOK
    <2>3. NewestOf(h) = CHOOSE e \in ResultsOf(h) : P(e) BY <1>2 DEF NewestOf
    <2>4. NewestOf(h) \in ResultsOf(h) /\ P(NewestOf(h))
        <3> HIDE DEF P
        <3> QED BY <2>2, <2>3, Zenon
    <2> QED BY <2>4 DEF ResultsOf, Committed
<1> QED BY <1>1, <1>2

\* An editor that begins.
LEMMA EditLoadFacts ==
    ASSUME BaseInv, NEW x \in Editor, NEW q \in Query, EditLoad(x, q)
    PROVE  /\ BaseInv' /\ UNCHANGED <<query, exec, checks>>
           /\ "edit" \in Events /\ (Overlap \/ Quiet)
           /\ \A y \in Editor \ {x} : edit'[y] = edit[y]
           /\ edit'[x].pc = "edit" /\ edit'[x].query = q /\ edit'[x].latest = query[q].latest
<1> DEFINE new == [pc |-> "edit", query |-> q, latest |-> query[q].latest, found |-> NoExec]
<1>1. new \in EditRecord /\ edit \in [Editor -> EditRecord]
    BY DEF BaseInv, TypeOK, EditRecord, QueryRecord
<1>2. /\ edit' = [edit EXCEPT ![x] = new] /\ UNCHANGED <<query, exec, checks>>
      /\ "edit" \in Events /\ (Overlap \/ Quiet)
    BY DEF EditLoad
<1>3. /\ new.pc = "edit" /\ new.query = q /\ new.latest = query[q].latest OBVIOUS
<1> HIDE DEF new
<1>4. edit' \in [Editor -> EditRecord] BY <1>1, <1>2
<1>5. BaseInv' BY <1>2, <1>4, OtherBase DEF BaseInv, TypeOK
<1> QED BY <1>1, <1>2, <1>3, <1>5

\* The text of a query changes, and nothing else of it.
LEMMA EditTextFacts ==
    ASSUME BaseInv, NEW x \in Editor, NEW h \in Hash, EditText(x, h)
    PROVE  /\ BaseInv' /\ UNCHANGED <<exec, checks>>
           /\ edit[x].pc = "edit" /\ edit'[x].pc = "find"
           /\ edit'[x].query = edit[x].query /\ edit'[x].latest = edit[x].latest
           /\ \A y \in Editor \ {x} : edit'[y] = edit[y]
           /\ \A q \in Query :
                /\ query'[q].latest = query[q].latest
                /\ query'[q].failures = query[q].failures /\ query'[q].streak = query[q].streak
                /\ q # edit[x].query => query'[q].hash = query[q].hash
<1> DEFINE r == edit[x].query
<1> DEFINE new == [edit[x] EXCEPT !.pc = "find"]
<1>1. /\ edit[x] \in EditRecord /\ edit \in [Editor -> EditRecord]
      /\ query \in [Query -> QueryRecord]
    BY DEF BaseInv, TypeOK
<1>2. /\ edit[x].pc = "edit" /\ UNCHANGED <<exec, checks>>
      /\ query' = [query EXCEPT ![r].hash = h] /\ edit' = [edit EXCEPT ![x] = new]
    BY <1>1 DEF EditText
<1>3. /\ new \in EditRecord /\ new.pc = "find" /\ new.query = edit[x].query
      /\ new.latest = edit[x].latest
    BY <1>1 DEF EditRecord
<1> HIDE DEF new, r
<1>4. edit' \in [Editor -> EditRecord] BY <1>1, <1>2, <1>3
<1>5. /\ query' \in [Query -> QueryRecord]
      /\ \A q \in Query :
            /\ query'[q].latest = query[q].latest
            /\ query'[q].failures = query[q].failures /\ query'[q].streak = query[q].streak
            /\ q # r => query'[q].hash = query[q].hash
    <2>1. CASE r \in Query
        <3> DEFINE row == [query[r] EXCEPT !.hash = h]
        <3>1. query[r] \in QueryRecord BY <1>1, <2>1
        <3>2. /\ row \in QueryRecord /\ row.latest = query[r].latest
              /\ row.failures = query[r].failures /\ row.streak = query[r].streak
            BY <3>1 DEF QueryRecord
        <3>3. query' = [query EXCEPT ![r] = row] BY <1>1, <1>2, <2>1
        <3> HIDE DEF row
        <3> QED BY <1>1, <2>1, <3>2, <3>3
    <2>2. CASE r \notin Query
        <3>1. query' = query BY <1>1, <1>2, <2>2
        <3> QED BY <1>1, <3>1
    <2> QED BY <2>1, <2>2
<1>6. BaseInv' BY <1>2, <1>4, <1>5, OtherBase DEF BaseInv, TypeOK
<1> QED BY <1>1, <1>2, <1>3, <1>5, <1>6 DEF r

\* An editor has found the newest result of the text it has written.
LEMMA EditFindFacts ==
    ASSUME BaseInv, NEW x \in Editor, EditFind(x)
    PROVE  /\ BaseInv' /\ UNCHANGED <<query, exec, checks>>
           /\ edit[x].pc = "find" /\ edit'[x].pc = "latest"
           /\ edit'[x].query = edit[x].query /\ edit'[x].latest = edit[x].latest
           /\ edit'[x].found = NewestOf(query[edit[x].query].hash)
           /\ \A y \in Editor \ {x} : edit'[y] = edit[y]
<1> DEFINE found == NewestOf(query[edit[x].query].hash)
<1> DEFINE new == [edit[x] EXCEPT !.pc = "latest", !.found = found]
<1>1. edit[x] \in EditRecord /\ edit \in [Editor -> EditRecord] BY DEF BaseInv, TypeOK
<1>2. /\ edit[x].pc = "find" /\ UNCHANGED <<query, exec, checks>>
      /\ edit' = [edit EXCEPT ![x] = new]
    BY <1>1 DEF EditFind
<1>3. found \in Exec \cup {NoExec} BY NewestFacts
<1> HIDE DEF found
<1>4. /\ new \in EditRecord /\ new.pc = "latest" /\ new.query = edit[x].query
      /\ new.latest = edit[x].latest /\ new.found = found
    BY <1>1, <1>3 DEF EditRecord
<1> HIDE DEF new
<1>5. edit' \in [Editor -> EditRecord] BY <1>1, <1>2, <1>4
<1>6. BaseInv' BY <1>2, <1>5, OtherBase DEF BaseInv, TypeOK
<1> QED BY <1>1, <1>2, <1>4, <1>6 DEF found

\* An editor ends; its query has the result found, if there is one.
LEMMA EditLatestFacts ==
    ASSUME BaseInv, NEW x \in Editor, EditLatest(x)
    PROVE  /\ BaseInv' /\ UNCHANGED <<exec, checks>>
           /\ edit[x].pc = "latest" /\ edit'[x].pc = "idle" /\ edit'[x].query = NoQuery
           /\ \A y \in Editor \ {x} : edit'[y] = edit[y]
           /\ \A q \in Query :
                /\ query'[q].hash = query[q].hash
                /\ query'[q].failures = query[q].failures /\ query'[q].streak = query[q].streak
                /\ query'[q].latest =
                    IF q = edit[x].query /\ edit[x].found \notin {NoExec, edit[x].latest}
                    THEN edit[x].found ELSE query[q].latest
<1> DEFINE r == edit[x].query
<1> DEFINE found == edit[x].found
<1>1. /\ edit[x] \in EditRecord /\ edit \in [Editor -> EditRecord]
      /\ query \in [Query -> QueryRecord]
    BY DEF BaseInv, TypeOK
<1>2. /\ edit[x].pc = "latest" /\ UNCHANGED <<exec, checks>> /\ edit' = [edit EXCEPT ![x] = NoEdit]
      /\ IF found \in {NoExec, edit[x].latest}
         THEN query' = query ELSE query' = [query EXCEPT ![r].latest = found]
    BY DEF EditLatest
<1>3. NoEdit \in EditRecord /\ NoEdit.pc = "idle" /\ NoEdit.query = NoQuery
    BY DEF NoEdit, EditRecord
<1>4. found \in Exec \cup {NoExec} BY <1>1 DEF EditRecord
<1>5. edit' \in [Editor -> EditRecord] BY <1>1, <1>2, <1>3
<1> HIDE DEF r, found
<1>6. /\ query' \in [Query -> QueryRecord]
      /\ \A q \in Query :
            /\ query'[q].hash = query[q].hash
            /\ query'[q].failures = query[q].failures /\ query'[q].streak = query[q].streak
            /\ query'[q].latest =
                IF q = r /\ found \notin {NoExec, edit[x].latest}
                THEN found ELSE query[q].latest
    <2>1. CASE found \in {NoExec, edit[x].latest} BY <1>1, <1>2, <2>1
    <2>2. CASE found \notin {NoExec, edit[x].latest} /\ r \in Query
        <3> DEFINE row == [query[r] EXCEPT !.latest = found]
        <3>1. query[r] \in QueryRecord BY <1>1, <2>2
        <3>2. /\ row \in QueryRecord /\ row.latest = found /\ row.hash = query[r].hash
              /\ row.failures = query[r].failures /\ row.streak = query[r].streak
            BY <1>4, <3>1 DEF QueryRecord
        <3>3. query' = [query EXCEPT ![r] = row] BY <1>1, <1>2, <2>2
        <3> HIDE DEF row
        <3> QED BY <1>1, <2>2, <3>2, <3>3
    <2>3. CASE found \notin {NoExec, edit[x].latest} /\ r \notin Query
        <3>1. query' = query BY <1>1, <1>2, <2>3
        <3> QED BY <1>1, <2>3, <3>1
    <2> QED BY <2>1, <2>2, <2>3
<1>7. BaseInv' BY <1>2, <1>5, <1>6, OtherBase DEF BaseInv, TypeOK
<1> QED BY <1>1, <1>2, <1>3, <1>6, <1>7 DEF r, found

-----------------------------------------------------------------------------
(* Every run                                                               *)

\* In the beginning there are no results.
LEMMA BaseInit == Init => BaseInv
<1> SUFFICES ASSUME Init PROVE BaseInv OBVIOUS
<1>1. TypeOK BY DEF Init, TypeOK, QueryRecord, ExecRecord, EditRecord, NoEdit
<1>2. \A e \in Exec : exec[e].at = 0 /\ exec[e].order = 0 BY DEF Init
<1>3. Committed = {} BY <1>2 DEF Committed
<1>4. OrderOK BY <1>2, <1>3, FS_EmptySet DEF OrderOK
<1>5. TimesOK BY <1>2 DEF TimesOK
<1>6. BestOK BY <1>3 DEF BestOK, ResultsOf
<1> QED BY <1>1, <1>4, <1>5, <1>6 DEF BaseInv

\* Every step keeps the types and the order of results.
LEMMA BaseNext == BaseInv /\ [Next]_vars => BaseInv'
<1> SUFFICES ASSUME BaseInv, [Next]_vars PROVE BaseInv' OBVIOUS
<1>1. TypeOK /\ edit \in [Editor -> EditRecord] /\ checks \subseteq Query \X Exec
      /\ query \in [Query -> QueryRecord]
    BY DEF BaseInv, TypeOK
<1>2. ASSUME NEW e \in Exec, Load(e) PROVE BaseInv'
    BY <1>1, <1>2, LoadFacts, LocalBase
<1>3. ASSUME NEW e \in Exec, QuietStep(e) PROVE BaseInv'
    BY <1>1, <1>3, QuietFacts, LocalBase DEF RowsKept
<1>4. ASSUME NEW e \in Exec, Track(e) PROVE BaseInv'
    BY <1>1, <1>4, TrackFacts, LocalBase
<1>5. ASSUME NEW e \in Exec, Store(e) PROVE BaseInv' BY <1>5, StoreFacts
<1>6. ASSUME NEW e \in Exec, Commit(e) PROVE BaseInv' BY <1>6, CommitFacts
<1>7. ASSUME NEW e \in Exec, NEW q \in Query, Delay(e, q) PROVE BaseInv'
    BY <1>1, <1>7, DelayFacts, LocalBase
<1>8. ASSUME NEW q \in Query, NEW e \in Exec, CheckAlerts(q, e) PROVE BaseInv'
    BY <1>1, <1>8, OtherBase DEF CheckAlerts
<1>9. ASSUME NEW x \in Editor, EditStep(x) \/ \E q \in Query : EditLoad(x, q) PROVE BaseInv'
    BY <1>9, EditLoadFacts, EditTextFacts, EditFindFacts, EditLatestFacts DEF EditStep
<1>10. CASE UNCHANGED vars BY <1>1, <1>10, OtherBase DEF vars
<1> QED BY <1>2, <1>3, <1>4, <1>5, <1>6, <1>7, <1>8, <1>9, <1>10
        DEF Next, ExecStep, QuietStep

\* Whatever executions, editors and crashes do, the types are kept and commits
\* are numbered in their order.
THEOREM ResultsInvariance == Spec => []BaseInv
BY BaseInit, BaseNext, PTL DEF Spec

\* Rows, executions and editors keep their types, for any queries and texts.
THEOREM ResultsTypeCorrect == Spec => []TypeOK
<1>1. BaseInv => TypeOK BY DEF BaseInv
<1> QED BY <1>1, ResultsInvariance, PTL

-----------------------------------------------------------------------------
(* Alerts, as long as nobody edits                                         *)

\* The query shows the result of e or one committed after it.
Shows(q, e) ==
    /\ exec[e].order > 0
    /\ query[q].latest \in Exec
    /\ exec[query[q].latest].order >= exec[e].order

\* An execution writes its result to all queries of its text, and names no
\* other query to the alerts.
Seen(e) ==
    /\ exec[e].pc \in {"update", "commit"} => exec[e].seen = SameHash(exec[e].hash)
    /\ exec[e].pc = "commit" => exec[e].todo = exec[e].seen
    /\ exec[e].pc = "enqueue" => \A q \in exec[e].todo : Shows(q, e)

RaceInv ==
    /\ BaseInv
    /\ \A x \in Editor : edit[x].pc = "idle"
    /\ \A e \in Exec : Seen(e)
    /\ \A q \in Query, e \in Exec : <<q, e>> \in checks => Shows(q, e)

\* What a query shows stays as long as it is not written.
LEMMA ShownStays ==
    ASSUME BaseInv,
           \A q \in Query : query'[q].hash = query[q].hash /\ query'[q].latest = query[q].latest,
           \A e \in Exec : exec'[e].order = exec[e].order
    PROVE  /\ \A h \in Hash : SameHash(h)' = SameHash(h)
           /\ \A q \in Query, e \in Exec : Shows(q, e) => Shows(q, e)'
<1>1. \A h \in Hash : SameHash(h)' = SameHash(h) BY DEF SameHash
<1>2. ASSUME NEW q \in Query, NEW e \in Exec, Shows(q, e) PROVE Shows(q, e)'
    BY <1>2 DEF Shows
<1> QED BY <1>1, <1>2

\* In the beginning no check is pending.
LEMMA RaceInit == Init => RaceInv
<1> SUFFICES ASSUME Init PROVE RaceInv OBVIOUS
<1>1. BaseInv BY BaseInit
<1>2. \A e \in Exec : exec[e].pc = "new" BY DEF Init
<1>3. checks = {} /\ \A x \in Editor : edit[x].pc = "idle" BY DEF Init, NoEdit
<1> QED BY <1>1, <1>2, <1>3 DEF RaceInv, Seen

\* A step of e that writes no row keeps what holds of alerts if it does of e.
LEMMA RaceStep ==
    ASSUME RaceInv, BaseInv', NEW e \in Exec, edit' = edit,
           \A d \in Exec \ {e} : exec'[d] = exec[d],
           exec'[e].order = exec[e].order,
           \A q \in Query : query'[q].hash = query[q].hash /\ query'[q].latest = query[q].latest,
           exec'[e].pc \in {"update", "commit"} => exec'[e].seen = SameHash(exec'[e].hash),
           exec'[e].pc = "commit" => exec'[e].todo = exec'[e].seen,
           exec'[e].pc = "enqueue" => \A q \in exec'[e].todo : Shows(q, e),
           \A q \in Query, d \in Exec : <<q, d>> \in checks' => Shows(q, d)
    PROVE  RaceInv'
<1>1. \A d \in Exec : exec'[d].order = exec[d].order OBVIOUS
<1>2. \A q \in Query, d \in Exec : Shows(q, d) => Shows(q, d)'
    BY <1>1, ShownStays DEF RaceInv
<1>3. \A d \in Exec : exec'[d].todo \subseteq Query
    BY DEF BaseInv, TypeOK, ExecRecord
<1>4. ASSUME NEW d \in Exec PROVE Seen(d)'
    <2>1. Seen(d) BY DEF RaceInv
    <2>2. \A q \in exec'[d].todo : Shows(q, d) => Shows(q, d)' BY <1>2, <1>3
    <2>3. exec'[d].pc \in {"update", "commit"} => exec'[d].seen = SameHash(exec'[d].hash)
        BY <2>1 DEF Seen
    <2>4. exec'[d].pc \in {"update", "commit"} => exec'[d].seen = SameHash(exec[d].hash)'
        BY <2>3 DEF SameHash
    <2>5. exec'[d].pc = "commit" => exec'[d].todo = exec'[d].seen BY <2>1 DEF Seen
    <2>6. exec'[d].pc = "enqueue" => \A q \in exec'[d].todo : Shows(q, d)
        BY <2>1 DEF Seen
    <2> QED BY <2>2, <2>4, <2>5, <2>6 DEF Seen
<1> QED BY <1>2, <1>4 DEF RaceInv

\* A commit writes the row of every query that the execution then names to
\* the alerts, and no earlier commit comes after it.
LEMMA RaceCommit ==
    ASSUME RaceInv, NEW e \in Exec, Commit(e)
    PROVE  RaceInv'
<1>1. BaseInv' /\ UNCHANGED <<edit, checks>> BY CommitFacts DEF RaceInv
<1>2. /\ exec[e].pc = "commit" /\ exec'[e].pc = "enqueue" /\ exec'[e].todo = exec[e].todo
      /\ exec'[e].order > 0 /\ exec'[e].order \in Nat
      /\ \A d \in Exec \ {e} : exec'[d] = exec[d]
    BY CommitFacts DEF RaceInv
<1>3. \A q \in Query : /\ query'[q].hash = query[q].hash
                       /\ query'[q].latest = IF q \in exec[e].seen THEN e ELSE query[q].latest
    BY CommitFacts DEF RaceInv
<1>4. \A d \in Exec : exec[d].order < exec'[e].order /\ exec[d].order \in Nat
    BY CommitFacts DEF RaceInv, BaseInv, TypeOK, ExecRecord
<1>5. exec[e].order = 0 BY CommitFacts DEF RaceInv
<1>6. ASSUME NEW q \in Query, NEW d \in Exec, Shows(q, d) PROVE Shows(q, d)'
    <2>1. d # e /\ query[q].latest # e /\ exec'[d] = exec[d]
        BY <1>2, <1>4, <1>5, <1>6 DEF Shows
    <2>2. CASE q \in exec[e].seen BY <1>2, <1>3, <1>4, <1>6, <2>1, <2>2 DEF Shows
    <2>3. CASE q \notin exec[e].seen
        <3>1. query'[q].latest = query[q].latest BY <1>3, <2>3
        <3>2. exec'[query[q].latest] = exec[query[q].latest] BY <1>2, <1>6, <2>1 DEF Shows
        <3> QED BY <1>6, <2>1, <3>1, <3>2 DEF Shows
    <2> QED BY <2>2, <2>3
<1>7. ASSUME NEW q \in Query, q \in exec[e].seen PROVE Shows(q, e)'
    BY <1>2, <1>3, <1>7 DEF Shows
<1>8. ASSUME NEW d \in Exec PROVE Seen(d)'
    <2>1. Seen(d) /\ exec[d].seen \subseteq Query /\ exec[d].todo \subseteq Query
        BY DEF RaceInv, BaseInv, TypeOK, ExecRecord
    <2>2. CASE d = e BY <1>2, <1>7, <2>1, <2>2 DEF Seen
    <2>3. CASE d # e
        <3>1. exec'[d] = exec[d] BY <1>2, <2>3
        <3>2. exec[d].pc \in {"update", "commit"} => exec'[d].seen = SameHash(exec[d].hash)'
            BY <1>3, <2>1, <3>1 DEF Seen, SameHash
        <3>3. exec[d].pc = "enqueue" => \A q \in exec[d].todo : Shows(q, d)'
            BY <1>6, <2>1 DEF Seen
        <3> QED BY <2>1, <3>1, <3>2, <3>3 DEF Seen
    <2> QED BY <2>2, <2>3
<1> QED BY <1>1, <1>6, <1>8 DEF RaceInv

\* Every step keeps it, if there are no editors.
LEMMA RaceNext ==
    ASSUME "edit" \notin Events
    PROVE  RaceInv /\ [Next]_vars => RaceInv'
<1> SUFFICES ASSUME RaceInv, [Next]_vars PROVE RaceInv' OBVIOUS
<1>1. BaseInv /\ TypeOK /\ BaseInv' BY BaseNext DEF RaceInv, BaseInv
<1>2. (\A d \in Exec : Seen(d)) /\ \A q \in Query, d \in Exec : <<q, d>> \in checks => Shows(q, d)
    BY DEF RaceInv
<1>3. ASSUME NEW e \in Exec, Load(e) PROVE RaceInv'
    BY <1>1, <1>2, <1>3, LoadFacts, RaceStep DEF Local
<1>4. ASSUME NEW e \in Exec, QuietStep(e) PROVE RaceInv'
    <2>1. Local(e) /\ RowsKept /\ UNCHANGED <<edit, checks>> BY <1>1, <1>4, QuietFacts
    <2>2. \/ exec'[e].pc \in {"done", "dead"}
          \/ Moves(e) /\ exec'[e].hash = exec[e].hash
        BY <1>1, <1>4, QuietFacts
    <2>3. /\ exec'[e].pc \in {"update", "commit"} => exec'[e].seen = SameHash(exec'[e].hash)
          /\ exec'[e].pc = "commit" => exec'[e].todo = exec'[e].seen
          /\ exec'[e].pc # "enqueue"
        BY <1>2, <2>2 DEF Moves, Seen
    <2> QED BY <1>1, <1>2, <2>1, <2>3, RaceStep DEF Local, RowsKept
<1>5. ASSUME NEW e \in Exec, Track(e) PROVE RaceInv'
    BY <1>1, <1>2, <1>5, TrackFacts, RaceStep DEF Local
<1>6. ASSUME NEW e \in Exec, Store(e) PROVE RaceInv'
    BY <1>1, <1>2, <1>6, StoreFacts, RaceStep
<1>7. ASSUME NEW e \in Exec, Commit(e) PROVE RaceInv' BY <1>7, RaceCommit
<1>8. ASSUME NEW e \in Exec, NEW q \in Query, Delay(e, q) PROVE RaceInv'
    <2>1. /\ Local(e) /\ UNCHANGED <<query, edit>> /\ checks' = checks \cup {<<q, e>>}
          /\ exec[e].pc = "enqueue" /\ exec'[e].pc = "enqueue" /\ q \in exec[e].todo
          /\ exec'[e].todo \subseteq exec[e].todo
        BY <1>1, <1>8, DelayFacts
    <2>2. \A p \in exec[e].todo : Shows(p, e) BY <1>2, <2>1 DEF Seen
    <2>3. \A p \in Query, d \in Exec : <<p, d>> \in checks' => Shows(p, d)
        BY <1>2, <2>1, <2>2
    <2> QED BY <1>1, <2>1, <2>2, <2>3, RaceStep DEF Local
<1>9. ASSUME NEW q \in Query, NEW e \in Exec, CheckAlerts(q, e) PROVE RaceInv'
    <2>1. checks' \subseteq checks /\ UNCHANGED <<query, exec, edit>> BY <1>9 DEF CheckAlerts
    <2> QED BY <1>1, <1>2, <2>1, RaceStep DEF Seen
<1>10. ASSUME NEW x \in Editor, EditStep(x) \/ \E q \in Query : EditLoad(x, q) PROVE RaceInv'
    BY <1>10 DEF EditStep, EditText, EditFind, EditLatest, EditLoad, RaceInv
<1>11. CASE UNCHANGED vars
    <2>1. UNCHANGED <<query, exec, edit, checks>> BY <1>11 DEF vars
    <2>2. /\ \A d \in Exec : Seen(d)'
          /\ \A q \in Query, d \in Exec : <<q, d>> \in checks' => Shows(q, d)'
        BY <1>2, <2>1 DEF Seen, SameHash, Shows
    <2> QED BY <1>1, <2>1, <2>2 DEF RaceInv
<1> QED BY <1>3, <1>4, <1>5, <1>6, <1>7, <1>8, <1>9, <1>10, <1>11
        DEF Next, ExecStep, QuietStep

\* However many executions of however many texts race and die: when the check
\* of an alert runs, its query shows the result the check was asked for, or
\* one that was committed later.
THEOREM AlertsSeeResults ==
    ASSUME "edit" \notin Events
    PROVE  Spec => AlertSeesResult
<1> DEFINE Sees == \A q \in Query, e \in Exec : CheckAlerts(q, e) =>
        /\ query[q].latest # NoExec
        /\ exec[e].order > 0
        /\ exec[query[q].latest].order >= exec[e].order
<1>1. RaceInv => Sees
    BY DEF RaceInv, CheckAlerts, Shows
<1> HIDE DEF Sees
<1>2. RaceInv /\ [Next]_vars => [Sees]_vars BY <1>1
<1>3. Spec => [][Sees]_vars BY <1>2, RaceInit, RaceNext, PTL DEF Spec
<1> QED BY <1>3 DEF Sees, AlertSeesResult

-----------------------------------------------------------------------------
(* Results and failures, as long as transactions do not meet               *)

\* The result of l is the newest of text h.
NewestResult(l, h) ==
    \A e \in ResultsOf(h) : l \in ResultsOf(h) /\ exec[l].at >= exec[e].at

Idle(x) == edit[x].pc = "idle"

\* At most one execution or editor is at work.
OneAtATime ==
    /\ \A e \in Exec : ~Over(e) =>
        (\A d \in Exec \ {e} : Over(d)) /\ \A x \in Editor : Idle(x)
    /\ \A x \in Editor : ~Idle(x) => \A y \in Editor \ {x} : Idle(y)

\* The counter an execution has read is current, its result is newer than any
\* other, and it has seen all queries of its text.
ExecOK(e) ==
    /\ ~Over(e) /\ exec[e].pc # "enqueue" /\ exec[e].query \in Query =>
        exec[e].loaded = query[exec[e].query].failures
    /\ exec[e].pc \in {"reset", "select", "update", "commit"} =>
        \A d \in Exec \ {e} : exec[d].at < exec[e].at
    /\ exec[e].pc \in {"update", "commit"} => exec[e].seen = SameHash(exec[e].hash)

\* The latest result an editor has read is current, and what it has found is
\* the newest result of the text it has written.
EditOK(x) ==
    /\ Idle(x) => edit[x].query = NoQuery
    /\ ~Idle(x) => edit[x].query \in Query /\ edit[x].latest = query[edit[x].query].latest
    /\ edit[x].pc = "latest" =>
        LET h == query[edit[x].query].hash IN
        \/ ResultsOf(h) = {} /\ edit[x].found = NoExec
        \/ edit[x].found \in Exec /\ NewestResult(edit[x].found, h)

\* A query that nobody edits shows the newest result of its text.
RowOK(q) ==
    /\ query[q].failures = query[q].streak
    /\ (\A x \in Editor : edit[x].query # q) => NewestResult(query[q].latest, query[q].hash)

AloneInv ==
    /\ BaseInv /\ OneAtATime
    /\ \A e \in Exec : ExecOK(e)
    /\ \A x \in Editor : EditOK(x)
    /\ \A q \in Query : RowOK(q)

\* A query that shows the newest result goes on to do so if it is not written
\* and no result of its text is committed.
LEMMA NewestStays ==
    ASSUME BaseInv, NEW l, NEW h \in Hash, NewestResult(l, h),
           \A d \in Exec : /\ exec'[d].order = exec[d].order
                           /\ exec[d].order > 0 => exec'[d].hash = exec[d].hash
                           /\ exec[d].order > 0 => exec'[d].at = exec[d].at
    PROVE  NewestResult(l, h)'
<1>1. ResultsOf(h)' = ResultsOf(h) BY SameResults
<1>2. \A d \in ResultsOf(h) : d \in Exec /\ exec[d].order > 0 BY DEF ResultsOf, Committed
<1> QED BY <1>1, <1>2 DEF NewestResult

\* A step of one execution, alone at work, that neither counts nor commits.
LEMMA AloneStep ==
    ASSUME AloneInv, BaseInv', NEW e \in Exec, edit' = edit, ~Over(e) \/ Quiet,
           \A d \in Exec \ {e} : exec'[d] = exec[d],
           exec'[e].order = exec[e].order,
           exec[e].order > 0 => exec'[e].hash = exec[e].hash /\ exec'[e].at = exec[e].at,
           \A q \in Query :
                /\ query'[q].hash = query[q].hash /\ query'[q].latest = query[q].latest
                /\ query'[q].failures = query'[q].streak,
           ExecOK(e)'
    PROVE  AloneInv'
<1>1. /\ \A d \in Exec \ {e} : Over(d) /\ Over(d)'
      /\ \A x \in Editor : Idle(x) /\ Idle(x)' /\ edit'[x].query = NoQuery
    BY DEF AloneInv, OneAtATime, Quiet, Over, Idle, EditOK
<1>2. OneAtATime' BY <1>1 DEF OneAtATime
<1>3. ASSUME NEW d \in Exec PROVE ExecOK(d)'
    <2>1. CASE d = e BY <2>1
    <2>2. CASE d # e BY <1>1, <2>2 DEF ExecOK, Over
    <2> QED BY <2>1, <2>2
<1>4. \A x \in Editor : EditOK(x)' BY <1>1 DEF EditOK, Idle
<1>5. ASSUME NEW q \in Query PROVE RowOK(q)'
    <2>1. query[q].hash \in Hash BY DEF AloneInv, BaseInv, TypeOK, QueryRecord
    <2>2. NewestResult(query[q].latest, query[q].hash)
        <3>1. \A x \in Editor : edit[x].query # q BY <1>1
        <3> QED BY <3>1 DEF AloneInv, RowOK
    <2>3. PICK l, h : l = query[q].latest /\ h = query[q].hash OBVIOUS
    <2>4. NewestResult(l, h)' BY <2>1, <2>2, <2>3, NewestStays DEF AloneInv
    <2>5. query'[q].latest = l /\ query'[q].hash = h BY <2>3
    <2> QED BY <2>4, <2>5 DEF RowOK, NewestResult, ResultsOf, Committed
<1> QED BY <1>2, <1>3, <1>4, <1>5 DEF AloneInv

\* In the beginning there is no result that a query could fail to show.
LEMMA AloneInit == Init => AloneInv
<1> SUFFICES ASSUME Init PROVE AloneInv OBVIOUS
<1>1. BaseInv BY BaseInit
<1>2. \A e \in Exec : exec[e].pc = "new" /\ exec[e].order = 0 BY DEF Init
<1>3. \A x \in Editor : edit[x].pc = "idle" /\ edit[x].query = NoQuery BY DEF Init, NoEdit
<1>4. OneAtATime BY <1>2, <1>3 DEF OneAtATime, Over, Idle
<1>5. \A e \in Exec : ExecOK(e) BY <1>2 DEF ExecOK, Over
<1>6. \A x \in Editor : EditOK(x) BY <1>3 DEF EditOK, Idle
<1>7. \A h : ResultsOf(h) = {} BY <1>2 DEF ResultsOf, Committed
<1>8. \A q \in Query : query[q].failures = query[q].streak BY DEF Init
<1>9. \A q \in Query : RowOK(q) BY <1>7, <1>8 DEF RowOK, NewestResult
<1> QED BY <1>1, <1>4, <1>5, <1>6, <1>9 DEF AloneInv

\* The result that a commit writes is newer than the others of its text, and
\* queries of other texts have nothing to do with it.
LEMMA AloneCommit ==
    ASSUME AloneInv, NEW e \in Exec, Commit(e)
    PROVE  AloneInv'
<1>1. BaseInv /\ BaseInv' /\ UNCHANGED <<edit, checks>> BY CommitFacts DEF AloneInv
<1>2. /\ exec[e].pc = "commit" /\ exec'[e].pc = "enqueue"
      /\ exec[e].order = 0 /\ exec'[e].order > 0
      /\ exec'[e].hash = exec[e].hash /\ exec'[e].at = exec[e].at
      /\ \A d \in Exec \ {e} : exec'[d] = exec[d]
    BY CommitFacts DEF AloneInv
<1>3. \A q \in Query :
        /\ query'[q].hash = query[q].hash
        /\ query'[q].latest = IF q \in exec[e].seen THEN e ELSE query[q].latest
        /\ query'[q].failures = IF q = exec[e].query /\ Resets(e) THEN 0 ELSE query[q].failures
        /\ query'[q].streak = IF q = exec[e].query THEN 0 ELSE query[q].streak
    BY CommitFacts DEF AloneInv
<1>4. /\ \A d \in Exec \ {e} : Over(d) /\ Over(d)'
      /\ \A x \in Editor : Idle(x) /\ Idle(x)' /\ edit'[x].query = NoQuery /\ edit[x].query = NoQuery
    BY <1>1, <1>2 DEF AloneInv, OneAtATime, Over, Idle, EditOK
<1>5. OneAtATime' BY <1>4 DEF OneAtATime
<1>6. \A d \in Exec : ExecOK(d)' BY <1>2, <1>4 DEF ExecOK, Over
<1>7. \A x \in Editor : EditOK(x)' BY <1>4 DEF EditOK, Idle
<1>8. ASSUME NEW q \in Query PROVE query'[q].failures = query'[q].streak
    <2>1. query[q].failures = query[q].streak BY DEF AloneInv, RowOK
    <2>2. exec[e].query = q => exec[e].loaded = query[q].failures
        BY <1>2 DEF AloneInv, ExecOK, Over
    <2>3. exec[e].loaded \in Nat BY <1>1 DEF BaseInv, TypeOK, ExecRecord
    <2> QED BY <1>3, <2>1, <2>2, <2>3 DEF Resets
<1>9. ASSUME NEW q \in Query, NEW d \in Exec,
             exec'[d].order > 0, exec'[d].hash = query[q].hash
      PROVE  LET l == query'[q].latest IN
             /\ l \in Exec /\ exec'[l].order > 0 /\ exec'[l].hash = query[q].hash
             /\ exec'[l].at >= exec'[d].at
    <2>1. NewestResult(query[q].latest, query[q].hash)
        BY <1>4 DEF AloneInv, RowOK
    <2>2. q \in exec[e].seen <=> query[q].hash = exec[e].hash
        BY <1>2 DEF AloneInv, ExecOK, SameHash
    <2>3. \A c \in Exec : exec[c].at \in Nat BY <1>1 DEF BaseInv, TypeOK, ExecRecord
    <2>4. \A c \in Exec \ {e} : exec[c].at < exec[e].at BY <1>2 DEF AloneInv, ExecOK
    <2>5. CASE q \in exec[e].seen
        <3>1. query'[q].latest = e BY <1>3, <2>5
        <3>2. exec'[e].at >= exec'[d].at BY <1>2, <2>3, <2>4
        <3> QED BY <1>2, <2>2, <2>5, <3>1, <3>2
    <2>6. CASE q \notin exec[e].seen
        <3>1. query'[q].latest = query[q].latest BY <1>3, <2>6
        <3>2. d # e /\ exec[d].order > 0 /\ exec[d].hash = query[q].hash
            BY <1>2, <1>9, <2>2, <2>6
        <3>3. d \in ResultsOf(query[q].hash) BY <3>2 DEF ResultsOf, Committed
        <3>4. query[q].latest \in ResultsOf(query[q].hash)
              /\ exec[query[q].latest].at >= exec[d].at
            BY <2>1, <3>3 DEF NewestResult
        <3>5. query[q].latest # e BY <1>2, <3>4 DEF ResultsOf, Committed
        <3> QED BY <1>2, <3>1, <3>2, <3>4, <3>5 DEF ResultsOf, Committed
    <2> QED BY <2>5, <2>6
<1>10. \A q \in Query : RowOK(q)'
    BY <1>3, <1>8, <1>9 DEF RowOK, NewestResult, ResultsOf, Committed
<1> QED BY <1>1, <1>5, <1>6, <1>7, <1>10 DEF AloneInv

\* A step of an editor, alone at work.
LEMMA AloneEdit ==
    ASSUME AloneInv, BaseInv', NEW x \in Editor, exec' = exec, ~Idle(x) \/ Quiet,
           \A y \in Editor \ {x} : edit'[y] = edit[y],
           EditOK(x)', \A q \in Query : RowOK(q)'
    PROVE  AloneInv'
<1>1. /\ \A d \in Exec : Over(d) /\ Over(d)'
      /\ \A y \in Editor \ {x} : Idle(y) /\ Idle(y)' /\ edit'[y].query = NoQuery
    BY DEF AloneInv, OneAtATime, Quiet, Over, Idle, EditOK
<1>2. OneAtATime' BY <1>1 DEF OneAtATime
<1>3. \A d \in Exec : ExecOK(d)' BY <1>1 DEF ExecOK, Over
<1>4. ASSUME NEW y \in Editor PROVE EditOK(y)'
    <2>1. CASE y = x BY <2>1
    <2>2. CASE y # x BY <1>1, <2>2 DEF EditOK, Idle
    <2> QED BY <2>1, <2>2
<1> QED BY <1>2, <1>3, <1>4 DEF AloneInv

\* Every step of an execution keeps it, if transactions do not meet.
LEMMA AloneExecNext ==
    ASSUME Overlap = FALSE, AloneInv, NEW e \in Exec, Load(e) \/ ExecStep(e) \/ Crash(e)
    PROVE  AloneInv'
<1>1. BaseInv /\ TypeOK /\ BaseInv'
    <2>1. Next BY DEF Next
    <2> QED BY <2>1, BaseNext DEF AloneInv, BaseInv
<1>2. ExecOK(e) /\ \A q \in Query : query[q].failures = query[q].streak
    BY DEF AloneInv, RowOK
<1>3. CASE Load(e)
    <2>1. /\ Local(e) /\ UNCHANGED <<query, edit, checks>> /\ Quiet
          /\ exec[e].pc = "new" /\ exec'[e].pc = "running"
          /\ exec'[e].query \in Query => exec'[e].loaded = query[exec'[e].query].failures
        BY <1>1, <1>3, LoadFacts
    <2>2. exec[e].order = 0 BY <1>1, <2>1 DEF BaseInv, OrderOK, Before
    <2>3. ExecOK(e)' BY <2>1 DEF ExecOK
    <2> QED BY <1>1, <1>2, <2>1, <2>2, <2>3, AloneStep DEF Local
<1>4. CASE QuietStep(e)
    <2>1. Local(e) /\ RowsKept /\ UNCHANGED <<edit, checks>> /\ ~Over(e)
        BY <1>1, <1>4, QuietFacts
    <2>2. \/ exec'[e].pc \in {"done", "dead"}
          \/ Moves(e) /\ Carries(e) /\ exec'[e].hash = exec[e].hash
        BY <1>1, <1>4, QuietFacts
    <2>3. ExecOK(e)'
        <3>1. CASE exec'[e].pc \in {"done", "dead"} BY <3>1 DEF ExecOK, Over
        <3>2. CASE Moves(e) /\ Carries(e) /\ exec'[e].hash = exec[e].hash
            <4>1. exec'[e].query \in Query =>
                    exec'[e].loaded = query'[exec'[e].query].failures
                <5>1. exec[e].pc # "enqueue" /\ exec'[e].query = exec[e].query
                      /\ exec'[e].loaded = exec[e].loaded
                    BY <3>2 DEF Moves, Carries
                <5>2. exec[e].query \in Query => exec[e].loaded = query[exec[e].query].failures
                    BY <1>2, <2>1, <5>1 DEF ExecOK
                <5> QED BY <2>1, <5>1, <5>2 DEF RowsKept
            <4>2. exec'[e].pc \in {"reset", "select", "update", "commit"} =>
                    \A d \in Exec \ {e} : exec'[d].at < exec'[e].at
                BY <1>2, <2>1, <3>2 DEF ExecOK, Local, Moves
            <4>3. exec'[e].pc \in {"update", "commit"} =>
                    exec'[e].seen = SameHash(exec[e].hash)
                BY <1>2, <3>2 DEF ExecOK, Moves
            <4>4. exec'[e].pc \in {"update", "commit"} =>
                    exec'[e].seen = SameHash(exec[e].hash)'
                BY <2>1, <3>2, <4>3 DEF RowsKept, SameHash
            <4> QED BY <4>1, <4>2, <4>4 DEF ExecOK
        <3> QED BY <2>2, <3>1, <3>2
    <2> QED BY <1>1, <1>2, <2>1, <2>3, AloneStep DEF Local, RowsKept, Over
<1>5. CASE Track(e)
    <2>1. /\ Local(e) /\ exec[e].pc = "track" /\ exec'[e].pc = "done"
          /\ UNCHANGED <<edit, checks>>
          /\ \A q \in Query :
                /\ query'[q].hash = query[q].hash /\ query'[q].latest = query[q].latest
                /\ q # exec[e].query =>
                    query'[q].failures = query[q].failures /\ query'[q].streak = query[q].streak
                /\ q = exec[e].query =>
                    query'[q].failures = exec[e].loaded + 1
                    /\ query'[q].streak = query[q].streak + 1
        BY <1>1, <1>5, TrackFacts
    <2>2. exec[e].query \in Query => exec[e].loaded = query[exec[e].query].failures
        BY <1>2, <2>1 DEF ExecOK, Over
    <2>3. \A q \in Query : query'[q].failures = query'[q].streak
        BY <1>2, <2>1, <2>2
    <2>4. ExecOK(e)' BY <2>1 DEF ExecOK, Over
    <2> QED BY <1>1, <2>1, <2>3, <2>4, AloneStep DEF Local, Over
<1>6. CASE Store(e)
    <2>1. /\ UNCHANGED <<query, edit, checks>>
          /\ exec[e].pc = "store" /\ exec'[e].pc \in {"reset", "select"}
          /\ Carries(e) /\ exec'[e].hash = exec[e].hash /\ exec'[e].order = exec[e].order
          /\ \A d \in Exec \ {e} : exec'[d] = exec[d] /\ exec'[d].at < exec'[e].at
        BY <1>1, <1>6, StoreFacts
    <2>2. exec[e].order = 0 BY <1>1, <2>1 DEF BaseInv, OrderOK, Before
    <2>3. ExecOK(e)' BY <1>2, <2>1 DEF ExecOK, Carries, Over
    <2> QED BY <1>1, <1>2, <2>1, <2>2, <2>3, AloneStep DEF Over
<1>7. CASE Commit(e) BY <1>7, AloneCommit
<1>8. ASSUME NEW q \in Query, Delay(e, q) PROVE AloneInv'
    <2>1. /\ Local(e) /\ UNCHANGED <<query, edit>>
          /\ exec[e].pc = "enqueue" /\ exec'[e].pc = "enqueue" /\ exec'[e].hash = exec[e].hash
        BY <1>1, <1>8, DelayFacts
    <2>2. ExecOK(e)' BY <2>1 DEF ExecOK
    <2> QED BY <1>1, <1>2, <2>1, <2>2, AloneStep DEF Local, Over
<1> QED BY <1>3, <1>4, <1>5, <1>6, <1>7, <1>8 DEF ExecStep, QuietStep

\* So does every step of an editor.
LEMMA AloneEditNext ==
    ASSUME Overlap = FALSE, AloneInv, NEW x \in Editor,
           EditStep(x) \/ \E q \in Query : EditLoad(x, q)
    PROVE  AloneInv'
<1>1. BaseInv /\ TypeOK /\ BaseInv'
    <2>1. Next BY DEF Next
    <2> QED BY <2>1, BaseNext DEF AloneInv, BaseInv
<1>2. EditOK(x) /\ \A q \in Query : RowOK(q) BY DEF AloneInv
<1>3. ~Idle(x) \/ Quiet => \A y \in Editor \ {x} : edit[y].query = NoQuery
    BY DEF AloneInv, OneAtATime, Quiet, Idle, EditOK
<1>4. ASSUME NEW q \in Query, EditLoad(x, q) PROVE AloneInv'
    <2>1. /\ UNCHANGED <<query, exec, checks>> /\ Quiet
          /\ \A y \in Editor \ {x} : edit'[y] = edit[y]
          /\ edit'[x].pc = "edit" /\ edit'[x].query = q /\ edit'[x].latest = query[q].latest
        BY <1>1, <1>4, EditLoadFacts
    <2>2. EditOK(x)' BY <2>1 DEF EditOK, Idle
    <2>3. \A y \in Editor : edit[y].query = NoQuery
        BY <1>2, <1>3, <2>1 DEF EditOK, Idle, Quiet
    <2>4. \A p \in Query : RowOK(p)'
        BY <1>2, <2>1, <2>3 DEF RowOK, NewestResult, ResultsOf, Committed
    <2> QED BY <1>1, <2>1, <2>2, <2>4, AloneEdit
<1>5. ASSUME NEW h \in Hash, EditText(x, h) PROVE AloneInv'
    <2>1. /\ UNCHANGED <<exec, checks>>
          /\ edit[x].pc = "edit" /\ edit'[x].pc = "find"
          /\ edit'[x].query = edit[x].query /\ edit'[x].latest = edit[x].latest
          /\ \A y \in Editor \ {x} : edit'[y] = edit[y]
          /\ \A q \in Query :
                /\ query'[q].latest = query[q].latest
                /\ query'[q].failures = query[q].failures /\ query'[q].streak = query[q].streak
                /\ q # edit[x].query => query'[q].hash = query[q].hash
        BY <1>1, <1>5, EditTextFacts
    <2>2. EditOK(x)' BY <1>2, <2>1 DEF EditOK, Idle
    <2>3. ASSUME NEW p \in Query PROVE RowOK(p)'
        <3>1. CASE p = edit[x].query BY <1>2, <2>1, <3>1 DEF RowOK
        <3>2. CASE p # edit[x].query
            <4>1. \A y \in Editor : edit[y].query # p BY <1>3, <2>1, <3>2 DEF Idle
            <4>2. query'[p].hash = query[p].hash /\ query'[p].latest = query[p].latest
                BY <2>1, <3>2
            <4> QED BY <1>2, <2>1, <4>1, <4>2 DEF RowOK, NewestResult, ResultsOf, Committed
        <3> QED BY <3>1, <3>2
    <2> QED BY <1>1, <2>1, <2>2, <2>3, AloneEdit DEF Idle
<1>6. CASE EditFind(x)
    <2> DEFINE h == query[edit[x].query].hash
    <2>1. /\ UNCHANGED <<query, exec, checks>>
          /\ edit[x].pc = "find" /\ edit'[x].pc = "latest"
          /\ edit'[x].query = edit[x].query /\ edit'[x].latest = edit[x].latest
          /\ edit'[x].found = NewestOf(h)
          /\ \A y \in Editor \ {x} : edit'[y] = edit[y]
        BY <1>1, <1>6, EditFindFacts
    <2>2. \/ ResultsOf(h) = {} /\ NewestOf(h) = NoExec
          \/ NewestOf(h) \in Exec /\ NewestResult(NewestOf(h), h)
        <3>1. \A d \in Exec : exec[d].at \in Nat BY <1>1 DEF TypeOK, ExecRecord
        <3>2. PICK g : g = h OBVIOUS
        <3>3. \/ ResultsOf(g) = {} /\ NewestOf(g) = NoExec
              \/ /\ NewestOf(g) \in ResultsOf(g) /\ NewestOf(g) \in Exec
                 /\ \A d \in ResultsOf(g) : exec[d].at <= exec[NewestOf(g)].at
            BY <1>1, NewestFacts
        <3>4. \A d \in ResultsOf(g) : d \in Exec BY DEF ResultsOf, Committed
        <3> HIDE DEF h
        <3> QED BY <3>1, <3>2, <3>3, <3>4 DEF NewestResult
    <2>3. EditOK(x)'
        <3>1. edit'[x].query \in Query /\ edit'[x].latest = query'[edit'[x].query].latest
            BY <1>2, <2>1 DEF EditOK, Idle
        <3>2. query'[edit'[x].query].hash = h BY <2>1
        <3>3. PICK g, f : g = h /\ f = NewestOf(h) OBVIOUS
        <3>4. \/ {e \in Exec : exec[e].order > 0 /\ exec[e].hash = g} = {} /\ f = NoExec
              \/ /\ f \in Exec
                 /\ \A e \in Exec : exec[e].order > 0 /\ exec[e].hash = g =>
                        /\ exec[f].order > 0 /\ exec[f].hash = g
                        /\ exec[f].at >= exec[e].at
            BY <2>2, <3>3 DEF NewestResult, ResultsOf, Committed
        <3> HIDE DEF h
        <3> QED BY <2>1, <3>1, <3>2, <3>3, <3>4
                DEF EditOK, Idle, NewestResult, ResultsOf, Committed
    <2>4. ASSUME NEW p \in Query PROVE RowOK(p)'
        <3>1. (\A y \in Editor : edit'[y].query # p) => \A y \in Editor : edit[y].query # p
            BY <2>1
        <3> QED BY <1>2, <2>1, <3>1 DEF RowOK, NewestResult, ResultsOf, Committed
    <2> QED BY <1>1, <2>1, <2>3, <2>4, AloneEdit DEF Idle
<1>7. CASE EditLatest(x)
    <2> DEFINE r == edit[x].query
    <2> DEFINE found == edit[x].found
    <2>1. /\ UNCHANGED <<exec, checks>>
          /\ edit[x].pc = "latest" /\ edit'[x].pc = "idle" /\ edit'[x].query = NoQuery
          /\ \A y \in Editor \ {x} : edit'[y] = edit[y]
          /\ \A q \in Query :
                /\ query'[q].hash = query[q].hash
                /\ query'[q].failures = query[q].failures /\ query'[q].streak = query[q].streak
                /\ query'[q].latest =
                    IF q = r /\ found \notin {NoExec, edit[x].latest}
                    THEN found ELSE query[q].latest
        BY <1>1, <1>7, EditLatestFacts
    <2>2. EditOK(x)' BY <2>1 DEF EditOK, Idle
    <2>3. r \in Query /\ edit[x].latest = query[r].latest
        BY <1>2, <2>1 DEF EditOK, Idle
    <2>4. NewestResult(query'[r].latest, query[r].hash)
        <3>1. \/ ResultsOf(query[r].hash) = {} /\ found = NoExec
              \/ found \in Exec /\ NewestResult(found, query[r].hash)
            BY <1>2, <2>1 DEF EditOK
        <3>2. CASE ResultsOf(query[r].hash) = {} BY <3>2 DEF NewestResult
        <3>3. CASE found \in Exec /\ NewestResult(found, query[r].hash)
            <4>1. query'[r].latest = found BY <2>1, <2>3, <3>3
            <4> QED BY <3>3, <4>1
        <3> QED BY <3>1, <3>2, <3>3
    <2>5. ASSUME NEW p \in Query PROVE RowOK(p)'
        <3>1. query'[p].failures = query'[p].streak BY <1>2, <2>1 DEF RowOK
        <3>2. NewestResult(query'[p].latest, query[p].hash)
            <4>1. CASE p = r BY <2>4, <4>1
            <4>2. CASE p # r
                <5>1. \A y \in Editor : edit[y].query # p BY <1>3, <2>1, <4>2 DEF Idle
                <5> QED BY <1>2, <2>1, <4>2, <5>1 DEF RowOK
            <4> QED BY <4>1, <4>2
        <3> QED BY <2>1, <3>1, <3>2 DEF RowOK, NewestResult, ResultsOf, Committed
    <2> QED BY <1>1, <2>1, <2>2, <2>5, AloneEdit DEF Idle
<1> QED BY <1>4, <1>5, <1>6, <1>7 DEF EditStep

\* So do checks of alerts, and steps of nobody.
LEMMA AloneNext ==
    ASSUME Overlap = FALSE
    PROVE  AloneInv /\ [Next]_vars => AloneInv'
<1> SUFFICES ASSUME AloneInv, [Next]_vars PROVE AloneInv' OBVIOUS
<1>1. ASSUME UNCHANGED <<query, exec, edit>> PROVE AloneInv'
    <2>1. BaseInv' BY BaseNext DEF AloneInv
    <2>2. OneAtATime' BY <1>1 DEF AloneInv, OneAtATime, Over, Idle
    <2>3. \A e \in Exec : ExecOK(e)' BY <1>1 DEF AloneInv, ExecOK, Over, SameHash
    <2>4. \A x \in Editor : EditOK(x)'
        BY <1>1 DEF AloneInv, EditOK, Idle, NewestResult, ResultsOf, Committed
    <2>5. \A q \in Query : RowOK(q)'
        BY <1>1 DEF AloneInv, RowOK, NewestResult, ResultsOf, Committed
    <2> QED BY <2>1, <2>2, <2>3, <2>4, <2>5 DEF AloneInv
<1>2. ASSUME NEW q \in Query, NEW e \in Exec, CheckAlerts(q, e) PROVE AloneInv'
    BY <1>1, <1>2 DEF CheckAlerts
<1>3. CASE UNCHANGED vars BY <1>1, <1>3 DEF vars
<1> QED BY <1>2, <1>3, AloneExecNext, AloneEditNext DEF Next

\* If transactions do not meet, a failure counter is the number of scheduled
\* runs that failed since the last success, whatever crashes in between.
THEOREM FailuresAreCounted ==
    ASSUME Overlap = FALSE
    PROVE  Spec => []FailuresCounted
<1>1. AloneInv => FailuresCounted BY DEF AloneInv, RowOK, FailuresCounted
<1> QED BY <1>1, AloneInit, AloneNext, PTL DEF Spec

\* If transactions do not meet, queries show the newest result of their text,
\* in whatever order texts are edited, run and stored.
THEOREM QueriesShowTheNewest ==
    ASSUME Overlap = FALSE
    PROVE  Spec => []LatestIsNewest
<1>1. AloneInv => LatestIsNewest
    <2> SUFFICES ASSUME AloneInv, NEW q \in Query, \A x \in Editor : edit[x].query # q,
                        NEW e \in ResultsOf(query[q].hash)
                 PROVE  LET l == query[q].latest IN
                        /\ l \in Committed /\ exec[l].hash = query[q].hash
                        /\ exec[l].at >= exec[e].at
        BY DEF LatestIsNewest
    <2>1. NewestResult(query[q].latest, query[q].hash) BY DEF AloneInv, RowOK
    <2> QED BY <2>1 DEF NewestResult, ResultsOf
<1> QED BY <1>1, AloneInit, AloneNext, PTL DEF Spec

=============================================================================
