------------------------------- MODULE Grants -------------------------------
(***************************************************************************)
(* Permission to modify one query or dashboard, granted by its owner and   *)
(* by administrators: a row per grant, and access for whoever has a row.   *)
(*                                                                         *)
(* A grant looks for a row like it and inserts one if there is none; no    *)
(* constraint keeps two rows apart.  A revocation deletes all rows of its  *)
(* grantee in one statement.                                               *)
(***************************************************************************)
EXTENDS Naturals, FiniteSets

CONSTANTS
    Grantor,    \* the owner and administrators
    Grantee,
    GrantCall,  \* grant requests
    MaxGrants   \* how many grants are asked for (bound of the model)

ASSUME GrantsAssumption == MaxGrants \in Nat

VARIABLES
    rows,       \* access_permissions: how many rows each grantor and grantee have
    call,       \* the grant requests and what they found
    grants,     \* how many grants were asked for so far
    lasting,    \* history: grantees to whom a grant was confirmed since the last revocation
    crossed     \* history: grantees with a grant and a revocation at once

grantsVars == <<rows, call, grants, lasting, crossed>>

Pair == Grantor \X Grantee
CallRecord ==
    [pc : {"idle", "found", "missing", "failed"}, pair : Pair]

GrantsTypeOK ==
    /\ rows \in [Pair -> 0..MaxGrants]
    /\ call \in [GrantCall -> CallRecord]
    /\ grants \in 0..MaxGrants
    /\ lasting \in SUBSET Grantee
    /\ crossed \in SUBSET Grantee

GrantsInit ==
    /\ rows = [x \in Pair |-> 0]
    /\ call = [c \in GrantCall |-> [pc |-> "idle", pair |-> CHOOSE x \in Pair : TRUE]]
    /\ grants = 0
    /\ lasting = {}
    /\ crossed = {}

Granting(c) == call[c].pc \in {"found", "missing"}
GrantingPairs == {call[c].pair : c \in {d \in GrantCall : Granting(d)}}

-----------------------------------------------------------------------------

\* What one_or_none says of the rows of a grantor and a grantee.
Lookup(x) ==
    CASE rows[x] = 0 -> "missing"
      [] rows[x] = 1 -> "found"
      [] rows[x] > 1 -> "failed"        \* MultipleResultsFound

GrantLookup(c, x) ==
    /\ ~Granting(c) /\ grants < MaxGrants
    /\ grants' = grants + 1
    /\ call' = [call EXCEPT ![c] = [pc |-> Lookup(x), pair |-> x]]
    /\ UNCHANGED <<rows, lasting, crossed>>

GrantCommit(c) ==
    LET x == call[c].pair
    IN  /\ Granting(c)
        /\ rows' = [rows EXCEPT ![x] = IF call[c].pc = "missing" THEN @ + 1 ELSE @]
        /\ lasting' = lasting \cup {x[2]}
        /\ call' = [call EXCEPT ![c].pc = "idle"]
        /\ UNCHANGED <<grants, crossed>>

\* Whoever granted it: all rows of the grantee go.
\* A fault for TLC: those of one grantor stay.
RevokedOwn(x, e) == x[2] = e /\ x[1] = CHOOSE r \in Grantor : TRUE
Revoked(x, e) == x[2] = e

Revoke(e) ==
    /\ rows' = [x \in Pair |-> IF Revoked(x, e) THEN 0 ELSE rows[x]]
    /\ lasting' = lasting \ {e}
    /\ crossed' = crossed \cup ({x[2] : x \in GrantingPairs} \cap {e})
    /\ rows' # rows \/ e \in lasting
    /\ UNCHANGED <<call, grants>>

GrantsNext ==
    \/ \E c \in GrantCall : GrantCommit(c) \/ \E x \in Pair : GrantLookup(c, x)
    \/ \E e \in Grantee : Revoke(e)

GrantsSpec == GrantsInit /\ [][GrantsNext]_grantsVars

-----------------------------------------------------------------------------
(* Properties                                                              *)

HasPermission(e) == \E x \in Pair : x[2] = e /\ rows[x] > 0

\* After a revocation its grantee has no permission until a grant is confirmed
\* again, whoever had granted it and however many equal rows there were; and a
\* grant that was confirmed gives permission until then, unless it overlapped
\* with the revocation.
PermissionsAreAsConfirmed ==
    \A e \in Grantee :
        /\ HasPermission(e) => e \in lasting
        /\ e \in lasting => HasPermission(e) \/ e \in crossed

=============================================================================
