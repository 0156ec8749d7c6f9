------------------------------ MODULE Explain ------------------------------
(***************************************************************************)
(* Explanations of a metric: a request counts itself in a Redis counter of *)
(* its user and hour, is refused over the limit, and otherwise answers     *)
(* from the cache or asks a language model.  INCR and EXPIRE are two round *)
(* trips; Redis may fail, and the process may die, at each.                *)
(***************************************************************************)
EXTENDS Integers, FiniteSets

CONSTANTS
    Asker,          \* users
    Explanation,    \* requests, all for the same payload
    Limit,          \* EXPLAIN_RATE_LIMIT_PER_HOUR; 0 means no limit
    HourLength,      \* ticks of an hour
    CounterLife,    \* 3700 seconds
    Delay,          \* how long a request may take to its INCR
    CacheLife,      \* EXPLAIN_CACHE_TTL_SECONDS; 0 means no cache
    Ending,       \* when the model's clock stops (bound of the model)
    MaxAsked        \* how many requests there are (bound of the model)

ASSUME ExplainAssumption ==
    /\ Limit \in Nat /\ HourLength \in Nat \ {0} /\ CacheLife \in Nat
    /\ Ending \in Nat /\ MaxAsked \in Nat
    /\ CounterLife \in Nat /\ Delay \in Nat /\ HourLength + Delay < CounterLife

VARIABLES
    tick,       \* the time
    counter,    \* the counter of each user and hour, and when it expires
    answer,     \* when the explanation in the cache expires, or Absent
    explain,    \* the requests
    asked,      \* how many there have been
    allowed,    \* history: how many requests of each hour were let through
    leaked      \* history: counters whose EXPIRE was lost

explainVars == <<tick, counter, answer, explain, asked, allowed, leaked>>

Bucket == 0..(Ending \div HourLength)
Absent == -1        \* nothing is cached
Forever == -2       \* no time to live

ExplainTypeOK ==
    /\ tick \in 0..Ending
    /\ counter \in [Asker \X Bucket ->
            [n : 0..MaxAsked, expires : {Forever} \cup 0..(Ending + CounterLife)]]
    /\ answer \in {Absent} \cup 0..(Ending + CacheLife)
    /\ explain \in [Explanation ->
            [pc : {"idle", "bucket", "expire", "cache", "call"},
             user : Asker, bucket : Bucket, since : 0..Ending]]
    /\ allowed \in [Asker \X Bucket -> 0..MaxAsked]
    /\ asked \in 0..MaxAsked
    /\ leaked \in SUBSET (Asker \X Bucket)

NoExplanation == [pc |-> "idle", user |-> CHOOSE a \in Asker : TRUE, bucket |-> 0, since |-> 0]

ExplainInit ==
    /\ tick = 0
    /\ counter = [k \in Asker \X Bucket |-> [n |-> 0, expires |-> Forever]]
    /\ answer = Absent
    /\ explain = [e \in Explanation |-> NoExplanation]
    /\ asked = 0
    /\ allowed = [k \in Asker \X Bucket |-> 0]
    /\ leaked = {}

KeyOf(e) == <<explain[e].user, explain[e].bucket>>
GoesTo(e, pc) == explain' = [explain EXCEPT ![e].pc = pc, ![e].since = 0]
Ends(e) == explain' = [explain EXCEPT ![e] = NoExplanation]

-----------------------------------------------------------------------------
(* check_rate_limit                                                        *)

AskFor(e, a) ==
    /\ explain[e].pc = "idle" /\ asked < MaxAsked
    /\ asked' = asked + 1
    /\ explain' = [explain EXCEPT ![e] =
                    [pc |-> IF Limit = 0 THEN "cache" ELSE "bucket", user |-> a,
                     bucket |-> tick \div HourLength, since |-> tick]]
    /\ UNCHANGED <<tick, counter, answer, allowed, leaked>>

Live(k) == counter[k].expires = Forever \/ tick < counter[k].expires
Counted(k) == IF Live(k) THEN counter[k].n + 1 ELSE 1

\* A fault for TLC: the counters are taken to start at 0.
FirstOfBucketZero(n) == n = 0
FirstOfBucket(n) == n = 1

Increment(e) ==
    LET k == KeyOf(e)
        n == Counted(k)
        in == n <= Limit
    IN  /\ explain[e].pc = "bucket"
        /\ counter' = [counter EXCEPT ![k] =
                        [n |-> n, expires |-> IF Live(k) THEN @.expires ELSE Forever]]
        /\ IF FirstOfBucket(n) THEN GoesTo(e, "expire")
           ELSE IF in THEN GoesTo(e, "cache") ELSE Ends(e)
        /\ allowed' = IF in THEN [allowed EXCEPT ![k] = @ + 1] ELSE allowed
        /\ UNCHANGED <<tick, answer, leaked, asked>>

\* A fault for TLC: the time to live is measured in ticks.
ExpiryShort(k) == tick + 1
Expiry(k) == tick + CounterLife

SetExpiry(e) ==
    LET k == KeyOf(e)
    IN  /\ explain[e].pc = "expire"
        /\ counter' = [counter EXCEPT ![k].expires = IF Live(k) THEN Expiry(k) ELSE @]
        /\ GoesTo(e, "cache")
        /\ UNCHANGED <<tick, answer, allowed, leaked, asked>>

\* Redis fails: the request is let through.
FailOpen(e) ==
    /\ explain[e].pc \in {"bucket", "expire"}
    /\ leaked' = IF explain[e].pc = "expire" THEN leaked \cup {KeyOf(e)} ELSE leaked
    /\ GoesTo(e, "cache")
    /\ UNCHANGED <<tick, counter, answer, allowed, asked>>

-----------------------------------------------------------------------------
(* The cache and the model                                                 *)

InCache == answer # Absent /\ tick < answer

AnswerCached(e) ==
    /\ explain[e].pc = "cache" /\ InCache
    /\ Ends(e)
    /\ UNCHANGED <<tick, counter, answer, allowed, leaked, asked>>

\* Nothing is cached, or Redis fails.
AskModel(e) ==
    /\ explain[e].pc = "cache"
    /\ GoesTo(e, "call")
    /\ UNCHANGED <<tick, counter, answer, allowed, leaked, asked>>

\* SET with EX, if a time to live is configured.
ModelAnswers(e) ==
    /\ explain[e].pc = "call"
    /\ answer' = IF CacheLife = 0 THEN answer ELSE tick + CacheLife
    /\ Ends(e)
    /\ UNCHANGED <<tick, counter, allowed, leaked, asked>>

\* The model fails (502), storing fails, or the process dies.
ExplainFails(e) ==
    /\ explain[e].pc # "idle"
    /\ leaked' = IF explain[e].pc = "expire" THEN leaked \cup {KeyOf(e)} ELSE leaked
    /\ Ends(e)
    /\ UNCHANGED <<tick, counter, answer, allowed, asked>>

\* Only what is up to its INCR has to be fast.
ExplainTick ==
    /\ tick < Ending
    /\ \A e \in Explanation : explain[e].pc = "bucket" => tick - explain[e].since < Delay
    /\ tick' = tick + 1
    /\ UNCHANGED <<counter, answer, explain, allowed, leaked, asked>>

ExplainNext ==
    \/ ExplainTick
    \/ \E e \in Explanation :
        \/ \E a \in Asker : AskFor(e, a)
        \/ Increment(e) \/ SetExpiry(e) \/ FailOpen(e)
        \/ AnswerCached(e) \/ AskModel(e) \/ ModelAnswers(e) \/ ExplainFails(e)

ExplainSpec == ExplainInit /\ [][ExplainNext]_explainVars

-----------------------------------------------------------------------------
(* Properties                                                              *)

\* As long as Redis works, no more than Limit requests of a user are let
\* through for one hour of the clock, however they overlap and however late
\* they count themselves: the counter of an hour outlives the hour. That is
\* check_rate_limit's "one-hour bucket", and less than the "sliding-window
\* rate limit" of the module's doc: on both sides of a full hour Limit requests
\* each are let through, which may be the same sixty minutes.
LimitHolds == Limit > 0 => \A k \in DOMAIN allowed : allowed[k] <= Limit

\* Every counter vanishes some day: it has a time to live, or is just being
\* given one, unless Redis failed or the process died right there.
CountersExpire ==
    \A k \in DOMAIN counter :
        counter[k].n > 0 /\ counter[k].expires = Forever =>
            \/ k \in leaked
            \/ \E e \in Explanation : explain[e].pc = "expire" /\ KeyOf(e) = k

=============================================================================
