----------------------------- MODULE JobPromise -----------------------------
(***************************************************************************)
(* What the query queue promises, with no Redis, no workers and no calls:  *)
(* a job is accepted for one key, waits, is executed at most once and is   *)
(* then settled for good; a lock is acquired only while it is free, only   *)
(* by an accepted job and only by a job of its own key.                    *)
(***************************************************************************)
CONSTANTS Key, Job, NoJob, NoKey

VARIABLES
    holder,     \* holder[k]: the job that holds the lock of k, or NoJob
    owner,      \* owner[j]: the key job j was accepted for, or NoKey
    phase       \* phase[j]: how far job j is

vars == <<holder, owner, phase>>

Init ==
    /\ holder = [k \in Key |-> NoJob]
    /\ owner = [j \in Job |-> NoKey]
    /\ phase = [j \in Job |-> "absent"]

Accept(j, k) ==
    /\ phase[j] = "absent"
    /\ phase' = [phase EXCEPT ![j] = "waiting"]
    /\ owner' = [owner EXCEPT ![j] = k]
    /\ UNCHANGED holder

Execute(j) ==
    /\ phase[j] = "waiting"
    /\ phase' = [phase EXCEPT ![j] = "executing"]
    /\ UNCHANGED <<holder, owner>>

Settle(j) ==
    /\ phase[j] \in {"waiting", "executing"}
    /\ phase' = [phase EXCEPT ![j] = "settled"]
    /\ UNCHANGED <<holder, owner>>

Acquire(k, j) ==
    /\ holder[k] = NoJob
    /\ phase[j] # "absent"
    /\ owner[j] = k
    /\ holder' = [holder EXCEPT ![k] = j]
    /\ UNCHANGED <<owner, phase>>

Release(k) ==
    /\ holder' = [holder EXCEPT ![k] = NoJob]
    /\ UNCHANGED <<owner, phase>>

Next ==
    \/ \E j \in Job : Execute(j) \/ Settle(j)
    \/ \E j \in Job, k \in Key : Accept(j, k) \/ Acquire(k, j)
    \/ \E k \in Key : Release(k)

Spec == Init /\ [][Next]_vars

=============================================================================
