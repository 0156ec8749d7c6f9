----------------------------- MODULE LastActive -----------------------------
(***************************************************************************)
(* When users were last active: every request leaves its time in a Redis   *)
(* hash, and sync_last_active_at moves the times to the users' rows.  It   *)
(* shares their column "details" with other writers, each of whom writes   *)
(* the whole column as it read it.                                         *)
(***************************************************************************)
EXTENDS Naturals

CONSTANTS
    Member,     \* users
    MaxTime     \* how many requests there are (bound of the model)

ASSUME LastActiveAssumption == MaxTime \in Nat

VARIABLES
    time,       \* the time; each request has its own
    stamp,      \* the Redis hash users:last_active_at, 0 for a missing field
    details,    \* the committed column of each user
    sync,       \* sync_last_active_at and its session
    verify,     \* the verify requests under way, with the details they read
    seen,       \* history: each user's last request
    excused     \* history: users whose last request came where it may get lost

activeVars == <<time, stamp, details, sync, verify, seen, excused>>

DetailsRecord == [active : 0..MaxTime, verified : BOOLEAN]
SyncRecord ==
    [pc : {"idle", "next", "got", "loaded"},
     todo : SUBSET Member,              \* the rest of HKEYS
     member : Member,                   \* the one in hand
     timestamp : 0..MaxTime,            \* what HGET gave
     session : [Member -> DetailsRecord],   \* the column as it will be written
     loaded : SUBSET Member,            \* users in the session
     flushed : SUBSET Member]           \* users whose row has been updated, and is locked
VerifyRecord == [pc : {"idle", "loaded"}, details : DetailsRecord]

ActiveTypeOK ==
    /\ time \in 0..MaxTime
    /\ stamp \in [Member -> 0..MaxTime]
    /\ details \in [Member -> DetailsRecord]
    /\ sync \in SyncRecord
    /\ verify \in [Member -> VerifyRecord]
    /\ seen \in [Member -> 0..MaxTime]
    /\ excused \in SUBSET Member

NoDetails == [active |-> 0, verified |-> FALSE]
NoSync ==
    [pc |-> "idle", todo |-> {}, member |-> CHOOSE m \in Member : TRUE, timestamp |-> 0,
     session |-> [m \in Member |-> NoDetails], loaded |-> {}, flushed |-> {}]

ActiveInit ==
    /\ time = 0
    /\ stamp = [m \in Member |-> 0]
    /\ details = [m \in Member |-> NoDetails]
    /\ sync = NoSync
    /\ verify = [m \in Member |-> [pc |-> "idle", details |-> NoDetails]]
    /\ seen = [m \in Member |-> 0]
    /\ excused = {}

-----------------------------------------------------------------------------
(* Requests                                                                *)

\* A request between HGET and HDEL is the loss the comment of the function
\* speaks of.
Touch(m) ==
    /\ time < MaxTime
    /\ time' = time + 1
    /\ stamp' = [stamp EXCEPT ![m] = time + 1]
    /\ seen' = [seen EXCEPT ![m] = time + 1]
    /\ excused' = IF sync.pc \in {"got", "loaded"} /\ sync.member = m
                  THEN excused \cup {m} ELSE excused \ {m}
    /\ UNCHANGED <<details, sync, verify>>

VerifyLoad(m) ==
    /\ verify[m].pc = "idle" /\ ~details[m].verified
    /\ verify' = [verify EXCEPT ![m] = [pc |-> "loaded", details |-> details[m]]]
    /\ UNCHANGED <<time, stamp, details, sync, seen, excused>>

\* The UPDATE waits for the lock on the row.
VerifyCommit(m) ==
    /\ verify[m].pc = "loaded" /\ m \notin sync.flushed
    /\ details' = [details EXCEPT ![m] = [verify[m].details EXCEPT !.verified = TRUE]]
    /\ verify' = [verify EXCEPT ![m] = [pc |-> "idle", details |-> NoDetails]]
    /\ excused' = IF verify[m].details.active # details[m].active
                  THEN excused \cup {m} ELSE excused
    /\ UNCHANGED <<time, stamp, sync, seen>>

-----------------------------------------------------------------------------
(* sync_last_active_at                                                     *)

SyncKeys ==
    /\ sync.pc = "idle"
    /\ sync' = [NoSync EXCEPT !.pc = "next", !.todo = {m \in Member : stamp[m] # 0}]
    /\ UNCHANGED <<time, stamp, details, verify, seen, excused>>

SyncGet(m) ==
    /\ sync.pc = "next" /\ m \in sync.todo
    /\ sync' = [sync EXCEPT !.pc = "got", !.todo = @ \ {m}, !.member = m,
                            !.timestamp = stamp[m]]
    /\ UNCHANGED <<time, stamp, details, verify, seen, excused>>

\* The SELECT flushes the users before.
SyncLoad ==
    LET m == sync.member
    IN  /\ sync.pc = "got"
        /\ sync' = [sync EXCEPT !.pc = "loaded",
                                !.session[m] = [details[m] EXCEPT !.active = sync.timestamp],
                                !.flushed = sync.loaded, !.loaded = @ \cup {m}]
        /\ UNCHANGED <<time, stamp, details, verify, seen, excused>>

\* A fault for TLC: the whole hash is deleted, not the field.
DeletedAll(m) == TRUE
Deleted(m) == m = sync.member

SyncDelete ==
    /\ sync.pc = "loaded"
    /\ stamp' = [m \in Member |-> IF Deleted(m) THEN 0 ELSE stamp[m]]
    /\ sync' = [sync EXCEPT !.pc = "next"]
    /\ UNCHANGED <<time, details, verify, seen, excused>>

\* One commit at the end, for all of them.
SyncCommit ==
    /\ sync.pc = "next" /\ sync.todo = {}
    /\ details' = [m \in Member |-> IF m \in sync.loaded THEN sync.session[m] ELSE details[m]]
    /\ sync' = NoSync
    /\ UNCHANGED <<time, stamp, verify, seen, excused>>

\* The transaction is rolled back; the fields deleted so far are gone.
SyncDies ==
    /\ sync.pc # "idle"
    /\ excused' = excused \cup {m \in sync.loaded : stamp[m] = 0}
    /\ sync' = NoSync
    /\ UNCHANGED <<time, stamp, details, verify, seen>>

ActiveNext ==
    \/ SyncKeys \/ SyncLoad \/ SyncDelete \/ SyncCommit \/ SyncDies
    \/ \E m \in Member : Touch(m) \/ VerifyLoad(m) \/ VerifyCommit(m) \/ SyncGet(m)

ActiveSpec == ActiveInit /\ [][ActiveNext]_activeVars

-----------------------------------------------------------------------------
(* Properties                                                              *)

\* Where a user's last request is to be found.
Pending(m) ==
    \/ stamp[m] = seen[m]
    \/ m \in sync.loaded /\ sync.session[m].active = seen[m]

\* The time of a user's last request is on its way to the database or there:
\* it is lost only if the request came between HGET and HDEL of that user, if
\* the job died, or if another writer had read the row before.
LastRequestIsKept ==
    \A m \in Member : m \notin excused => Pending(m) \/ details[m].active = seen[m]

=============================================================================
