----------------------------- MODULE UserProofs -----------------------------
(***************************************************************************)
(* Who may do what: the last requests, the permissions and the groups of   *)
(* users are as they should be, for any number of people, groups and       *)
(* requests.                                                               *)
(***************************************************************************)
EXTENDS Grants, Membership, LastActive, Integers, TLAPS

-----------------------------------------------------------------------------
(* Permissions                                                             *)

\* How many rows there can be is not needed; that they are counted is.
CountsOK ==
    /\ rows \in [Pair -> Nat]
    /\ call \in [GrantCall -> CallRecord]
    /\ lasting \in SUBSET Grantee
    /\ crossed \in SUBSET Grantee

\* A grant that found a row relies on it, unless a revocation came between.
RelianceOK ==
    \A c \in GrantCall :
        call[c].pc = "found" => rows[call[c].pair] > 0 \/ call[c].pair[2] \in crossed

GrantsInv == CountsOK /\ RelianceOK /\ PermissionsAreAsConfirmed

-----------------------------------------------------------------------------

\* No rows and no requests.
LEMMA GrantsInitInv ==
    ASSUME Pair # {}
    PROVE  GrantsInit => GrantsInv
<1> SUFFICES ASSUME GrantsInit PROVE GrantsInv
    OBVIOUS
<1>1. (CHOOSE x \in Pair : TRUE) \in Pair OBVIOUS
<1>2. CountsOK BY <1>1 DEF GrantsInit, CountsOK, CallRecord
<1>3. RelianceOK BY DEF GrantsInit, RelianceOK
<1>4. PermissionsAreAsConfirmed
    BY DEF GrantsInit, PermissionsAreAsConfirmed, HasPermission
<1> QED BY <1>2, <1>3, <1>4 DEF GrantsInv

\* Looking for a row changes none.
LEMMA LookupInv ==
    ASSUME GrantsInv, NEW c \in GrantCall, NEW x \in Pair, GrantLookup(c, x)
    PROVE  GrantsInv'
<1>1. call' = [call EXCEPT ![c] = [pc |-> Lookup(x), pair |-> x]]
      /\ UNCHANGED <<rows, lasting, crossed>>
    BY DEF GrantLookup
<1>2. rows[x] \in Nat BY DEF GrantsInv, CountsOK
<1>3. Lookup(x) \in {"missing", "found", "failed"} /\ (Lookup(x) = "found" => rows[x] > 0)
    BY <1>2 DEF Lookup
<1>4. CountsOK'
    <2>1. [pc |-> Lookup(x), pair |-> x] \in CallRecord BY <1>3 DEF CallRecord
    <2> QED BY <1>1, <2>1 DEF GrantsInv, CountsOK
<1>5. RelianceOK'
    BY <1>1, <1>3 DEF GrantsInv, CountsOK, RelianceOK
<1>6. PermissionsAreAsConfirmed'
    BY <1>1 DEF GrantsInv, PermissionsAreAsConfirmed, HasPermission
<1> QED BY <1>4, <1>5, <1>6 DEF GrantsInv

\* A grant is confirmed with its own row, or with the one it found.
LEMMA CommitInv ==
    ASSUME GrantsInv, NEW c \in GrantCall, GrantCommit(c)
    PROVE  GrantsInv'
<1> DEFINE x == call[c].pair
<1>1. /\ rows' = [rows EXCEPT ![x] = IF call[c].pc = "missing" THEN @ + 1 ELSE @]
      /\ lasting' = lasting \cup {x[2]}
      /\ call' = [call EXCEPT ![c].pc = "idle"]
      /\ UNCHANGED <<grants, crossed>> /\ call[c].pc \in {"found", "missing"}
    BY DEF GrantCommit, Granting
<1>2. x \in Pair /\ x[2] \in Grantee /\ rows[x] \in Nat
    BY DEF GrantsInv, CountsOK, CallRecord, Pair
<1>3. /\ rows' \in [Pair -> Nat] /\ \A y \in Pair : rows[y] <= rows'[y]
      /\ \A y \in Pair \ {x} : rows'[y] = rows[y]
      /\ call[c].pc = "missing" => rows'[x] > 0
    BY <1>1, <1>2 DEF GrantsInv, CountsOK
<1>4. CountsOK'
    <2>1. [call[c] EXCEPT !.pc = "idle"] \in CallRecord
        BY DEF GrantsInv, CountsOK, CallRecord
    <2> QED BY <1>1, <1>2, <1>3, <2>1 DEF GrantsInv, CountsOK
<1>5. RelianceOK'
    <2> SUFFICES ASSUME NEW d \in GrantCall, call'[d].pc = "found"
                 PROVE  rows'[call'[d].pair] > 0 \/ call'[d].pair[2] \in crossed'
        BY DEF RelianceOK
    <2>1. d # c /\ call'[d] = call[d] /\ call[d].pair \in Pair
        BY <1>1 DEF GrantsInv, CountsOK, CallRecord
    <2>2. rows[call[d].pair] > 0 \/ call[d].pair[2] \in crossed
        BY <2>1 DEF GrantsInv, RelianceOK
    <2>3. rows[call[d].pair] \in Nat /\ rows'[call[d].pair] \in Nat
        BY <1>3, <2>1 DEF GrantsInv, CountsOK
    <2> QED BY <1>1, <1>3, <2>1, <2>2, <2>3
<1>6. PermissionsAreAsConfirmed'
    <2> SUFFICES ASSUME NEW e \in Grantee
                 PROVE  /\ HasPermission(e)' => e \in lasting'
                        /\ e \in lasting' => HasPermission(e)' \/ e \in crossed'
        BY DEF PermissionsAreAsConfirmed
    <2>1. \A y \in Pair : rows[y] > 0 => rows'[y] > 0
        BY <1>3 DEF GrantsInv, CountsOK
    <2>2. HasPermission(e) => HasPermission(e)' BY <2>1 DEF HasPermission
    <2>3. HasPermission(e)' => HasPermission(e) \/ e = x[2]
        BY <1>3 DEF HasPermission
    <2>4. rows'[x] > 0 \/ x[2] \in crossed
        BY <1>1, <1>2, <1>3, <2>1 DEF GrantsInv, RelianceOK
    <2>5. e = x[2] => HasPermission(e)' \/ e \in crossed
        BY <1>2, <2>4 DEF HasPermission
    <2> QED BY <1>1, <2>2, <2>3, <2>5 DEF GrantsInv, PermissionsAreAsConfirmed
<1> QED BY <1>4, <1>5, <1>6 DEF GrantsInv

\* A revocation deletes every row of its grantee and marks the grants under way.
LEMMA RevokeInv ==
    ASSUME GrantsInv, NEW e \in Grantee, Revoke(e)
    PROVE  GrantsInv'
<1>1. /\ rows' = [x \in Pair |-> IF x[2] = e THEN 0 ELSE rows[x]]
      /\ lasting' = lasting \ {e}
      /\ crossed' = crossed \cup ({x[2] : x \in GrantingPairs} \cap {e})
      /\ call' = call
    BY DEF Revoke, Revoked
<1>2. CountsOK' BY <1>1 DEF GrantsInv, CountsOK
<1>3. RelianceOK'
    <2> SUFFICES ASSUME NEW d \in GrantCall, call[d].pc = "found"
                 PROVE  rows'[call[d].pair] > 0 \/ call[d].pair[2] \in crossed'
        BY <1>1 DEF RelianceOK
    <2>1. call[d].pair \in Pair /\ call[d].pair \in GrantingPairs
        BY DEF GrantsInv, CountsOK, CallRecord, GrantingPairs, Granting
    <2>2. rows[call[d].pair] > 0 \/ call[d].pair[2] \in crossed
        BY DEF GrantsInv, RelianceOK
    <2> QED BY <1>1, <2>1, <2>2
<1>4. PermissionsAreAsConfirmed'
    <2> SUFFICES ASSUME NEW f \in Grantee
                 PROVE  /\ HasPermission(f)' => f \in lasting'
                        /\ f \in lasting' => HasPermission(f)' \/ f \in crossed'
        BY DEF PermissionsAreAsConfirmed
    <2>1. CASE f = e
        BY <1>1, <2>1 DEF HasPermission
    <2>2. CASE f # e
        <3>1. HasPermission(f)' <=> HasPermission(f) BY <1>1, <2>2 DEF HasPermission
        <3> QED BY <1>1, <2>2, <3>1 DEF GrantsInv, PermissionsAreAsConfirmed
    <2> QED BY <2>1, <2>2
<1> QED BY <1>2, <1>3, <1>4 DEF GrantsInv

\* Every step keeps the invariant.
LEMMA GrantsNextInv == GrantsInv /\ [GrantsNext]_grantsVars => GrantsInv'
<1> SUFFICES ASSUME GrantsInv, [GrantsNext]_grantsVars PROVE GrantsInv'
    OBVIOUS
<1>1. CASE UNCHANGED grantsVars
    BY <1>1 DEF grantsVars, GrantsInv, CountsOK, RelianceOK, PermissionsAreAsConfirmed,
                HasPermission
<1>2. CASE GrantsNext
    BY <1>2, LookupInv, CommitInv, RevokeInv DEF GrantsNext
<1> QED BY <1>1, <1>2

\* A revocation takes the permission away until a grant is confirmed again, and
\* a confirmed grant gives it, unless it overlapped with a revocation.
THEOREM GrantsAreAsConfirmed ==
    ASSUME Pair # {}
    PROVE  GrantsSpec => []PermissionsAreAsConfirmed
<1>1. GrantsInv => PermissionsAreAsConfirmed BY DEF GrantsInv
<1> QED BY <1>1, GrantsInitInv, GrantsNextInv, PTL DEF GrantsSpec

-----------------------------------------------------------------------------
(* Groups                                                                  *)

\* How often an array may hold a group is not bounded here.
ArraysOf == [Person -> [Group -> Int]]
LooseChange ==
    [kind : {"none", "add", "remove", "set", "drop"}, groups : SUBSET Group, person : Person,
     arrays : ArraysOf, loaded : SUBSET Person]
MemberTypes ==
    /\ groupIds \in ArraysOf
    /\ live \in SUBSET Group
    /\ links \in [Group -> [BOOLEAN -> 0..2]]
    /\ change \in [Request -> LooseChange]
    /\ wanted \in [Person -> SUBSET Group]
    /\ irregular \in SUBSET Person

\* What a request is about, and what it knows of the users it has loaded.
ChangeOK(r) ==
    /\ change[r].kind = "none" => change[r].loaded = {}
    /\ change[r].kind \in {"add", "remove", "drop"} => \E g \in Group : change[r].groups = {g}
    /\ change[r].kind = "drop" => AdminGroup \notin change[r].groups
    /\ \A p \in change[r].loaded \ irregular :
        /\ change[r].arrays[p] = groupIds[p]
        /\ change[r].kind \in {"remove", "drop"} => \A g \in change[r].groups : groupIds[p][g] > 0
        /\ change[r].kind = "add" => \A g \in change[r].groups : groupIds[p][g] <= 0
ChangesOK == \A r \in Request : ChangeOK(r)

\* Two requests at once make their users irregular.
OneAtATimeOK ==
    \A r, s \in Request : r # s => change[r].loaded \cap change[s].loaded \subseteq irregular

\* The array of a regular user holds the groups asked for, each once.
RegularOK ==
    \A p \in Person \ irregular, g \in Group :
        groupIds[p][g] = IF g \in wanted[p] THEN 1 ELSE 0

MembershipInv ==
    MemberTypes /\ ChangesOK /\ OneAtATimeOK /\ RegularOK /\ AdminGroup \in live

-----------------------------------------------------------------------------

LEMMA ArrayFacts ==
    /\ \A gs \in SUBSET Group : IdsOf(gs) \in [Group -> Int]
    /\ NoIds \in [Group -> Int]
    /\ \A array \in [Group -> Int], g \in Group, kind \in {"add", "remove", "drop"} :
        /\ Shifted(array, g, kind) \in [Group -> Int]
        /\ Shifted(array, g, kind)[g] = IF kind = "add" THEN array[g] + 1 ELSE array[g] - 1
        /\ \A h \in Group \ {g} : Shifted(array, g, kind)[h] = array[h]
BY DEF IdsOf, NoIds, Shifted

LEMMA NoChangeFacts ==
    ASSUME Person # {}
    PROVE  NoChange \in LooseChange /\ NoChange.kind = "none" /\ NoChange.loaded = {}
<1>1. (CHOOSE p \in Person : TRUE) \in Person OBVIOUS
<1>2. [p \in Person |-> NoIds] \in ArraysOf BY ArrayFacts DEF ArraysOf
<1> QED BY <1>1, <1>2 DEF NoChange, LooseChange

LEMMA MembershipInitInv ==
    ASSUME Person # {}
    PROVE  MembershipInit => MembershipInv
<1> SUFFICES ASSUME MembershipInit PROVE MembershipInv
    OBVIOUS
<1>1. AdminGroup \in Group /\ {DefaultGroup} \in SUBSET Group BY MembershipAssumption
<1>2. MemberTypes
    <2>1. groupIds \in ArraysOf BY <1>1, ArrayFacts DEF MembershipInit, ArraysOf
    <2>2. links \in [Group -> [BOOLEAN -> 0..2]] BY DEF MembershipInit, NoLinks
    <2>3. change \in [Request -> LooseChange] BY NoChangeFacts DEF MembershipInit
    <2> QED BY <1>1, <2>1, <2>2, <2>3 DEF MembershipInit, MemberTypes
<1>3. ChangesOK BY NoChangeFacts DEF MembershipInit, ChangesOK, ChangeOK
<1>4. OneAtATimeOK BY NoChangeFacts DEF MembershipInit, OneAtATimeOK
<1>5. RegularOK BY DEF MembershipInit, RegularOK, IdsOf
<1> QED BY <1>1, <1>2, <1>3, <1>4, <1>5 DEF MembershipInit, MembershipInv

\* A request reads the users it is about as they are.
LEMMA LoadUsersInv ==
    ASSUME MembershipInv, NEW r \in Request, NEW kind \in {"add", "remove", "set", "drop"},
           NEW gs \in SUBSET Group, NEW p \in Person, NEW loaded \in SUBSET Person,
           kind # "set" => \E g \in Group : gs = {g},
           kind = "drop" => AdminGroup \notin gs,
           kind \in {"remove", "drop"} => \A q \in loaded, g \in gs : groupIds[q][g] > 0,
           LoadUsers(r, kind, gs, p, loaded)
    PROVE  MembershipInv'
<1> DEFINE c == [kind |-> kind, groups |-> gs, person |-> p, loaded |-> loaded,
                 arrays |-> [q \in Person |-> IF q \in loaded THEN groupIds[q] ELSE NoIds]]
<1>1. /\ change' = [change EXCEPT ![r] = c]
      /\ irregular' = irregular
            \cup (loaded \cap UNION {change[s].loaded : s \in Request})
            \cup (IF kind = "add" THEN loaded \cap UNION {MembersOf(g) : g \in gs} ELSE {})
      /\ UNCHANGED <<groupIds, live, links, wanted>>
    BY DEF LoadUsers
<1>2. /\ c.kind = kind /\ c.groups = gs /\ c.loaded = loaded
      /\ \A q \in loaded : c.arrays[q] = groupIds[q]
    OBVIOUS
<1>3. c \in LooseChange
    <2>1. c.arrays \in ArraysOf BY ArrayFacts DEF MembershipInv, MemberTypes, ArraysOf
    <2> QED BY <2>1 DEF LooseChange
<1> HIDE DEF c
<1>4. /\ irregular' \in SUBSET Person /\ irregular \subseteq irregular'
      /\ \A s \in Request : loaded \cap change[s].loaded \subseteq irregular'
      /\ kind = "add" => \A g \in gs : loaded \cap MembersOf(g) \subseteq irregular'
    BY <1>1 DEF MembershipInv, MemberTypes
<1>5. /\ change' \in [Request -> LooseChange] /\ change'[r] = c
      /\ \A s \in Request \ {r} : change'[s] = change[s]
    BY <1>1, <1>3 DEF MembershipInv, MemberTypes
<1>6. MemberTypes' BY <1>1, <1>4, <1>5 DEF MembershipInv, MemberTypes
<1>7. ChangesOK'
    <2>1. ChangeOK(r)'
        <3>1. kind = "add" => \A q \in loaded \ irregular', g \in gs : groupIds[q][g] <= 0
            <4> SUFFICES ASSUME kind = "add", NEW q \in loaded \ irregular', NEW g \in gs
                         PROVE  groupIds[q][g] <= 0
                OBVIOUS
            <4>1. q \notin MembersOf(g) BY <1>4
            <4>2. groupIds[q][g] \in Int BY DEF MembershipInv, MemberTypes, ArraysOf
            <4> QED BY <4>1, <4>2 DEF MembersOf, InGroup
        <3> QED BY <1>1, <1>2, <1>5, <3>1 DEF ChangeOK
    <2>2. \A s \in Request \ {r} : ChangeOK(s)'
        BY <1>1, <1>4, <1>5 DEF MembershipInv, ChangesOK, ChangeOK
    <2> QED BY <2>1, <2>2 DEF ChangesOK
<1>8. OneAtATimeOK'
    <2> SUFFICES ASSUME NEW s \in Request, NEW t \in Request, s # t
                 PROVE  change'[s].loaded \cap change'[t].loaded \subseteq irregular'
        BY DEF OneAtATimeOK
    <2>1. CASE s = r BY <1>2, <1>4, <1>5, <2>1
    <2>2. CASE t = r BY <1>2, <1>4, <1>5, <2>2
    <2>3. CASE s # r /\ t # r BY <1>4, <1>5, <2>3 DEF MembershipInv, OneAtATimeOK
    <2> QED BY <2>1, <2>2, <2>3
<1>9. RegularOK' BY <1>1, <1>4 DEF MembershipInv, RegularOK
<1> QED BY <1>1, <1>6, <1>7, <1>8, <1>9 DEF MembershipInv

\* What a commit makes of a regular user who was loaded.
LEMMA ChangedFacts ==
    ASSUME MembershipInv, NEW r \in Request, change[r].kind # "none", NEW p \in change[r].loaded
    PROVE  /\ Changed(r, p) \in [Group -> Int]
           /\ p \notin irregular => \A g \in Group :
                Changed(r, p)[g] = IF g \in Left(r, p) THEN 1 ELSE 0
<1> DEFINE read == change[r].arrays[p]
           kind == change[r].kind
           gs == change[r].groups
<1>1. /\ p \in Person /\ read \in [Group -> Int] /\ gs \in SUBSET Group
      /\ kind \in {"add", "remove", "set", "drop"} /\ groupIds[p] \in [Group -> Int]
      /\ wanted[p] \in SUBSET Group
    BY DEF MembershipInv, MemberTypes, LooseChange, ArraysOf
<1>2. CASE kind = "set"
    <2>1. Left(r, p) = gs BY <1>2 DEF Left
    <2>2. Changed(r, p) = IF read = IdsOf(gs) THEN groupIds[p] ELSE IdsOf(gs)
        BY <1>2 DEF Changed
    <2>3. p \notin irregular => read = groupIds[p] BY DEF MembershipInv, ChangesOK, ChangeOK
    <2>4. \A g \in Group : IdsOf(gs)[g] = IF g \in gs THEN 1 ELSE 0 BY DEF IdsOf
    <2> QED BY <1>1, <2>1, <2>2, <2>3, <2>4, ArrayFacts
<1>3. CASE kind # "set"
    <2>1. PICK h \in Group : gs = {h} BY <1>1, <1>3 DEF MembershipInv, ChangesOK, ChangeOK
    <2>2. Changed(r, p) = Shifted(read, h, kind)
        <3>1. (CHOOSE g \in gs : TRUE) = h BY <2>1
        <3> QED BY <1>3, <3>1 DEF Changed
    <2>3. /\ Changed(r, p) \in [Group -> Int]
          /\ Changed(r, p)[h] = IF kind = "add" THEN read[h] + 1 ELSE read[h] - 1
          /\ \A g \in Group \ {h} : Changed(r, p)[g] = read[g]
        BY <1>1, <1>3, <2>2, ArrayFacts
    <2>4. Left(r, p) = IF kind = "add" THEN wanted[p] \cup gs ELSE wanted[p] \ gs
        BY <1>1, <1>3 DEF Left
    <2>5. ASSUME p \notin irregular, NEW g \in Group
          PROVE  Changed(r, p)[g] = IF g \in Left(r, p) THEN 1 ELSE 0
        <3>1. read = groupIds[p] BY <2>5 DEF MembershipInv, ChangesOK, ChangeOK
        <3>2. \A x \in Group : groupIds[p][x] = IF x \in wanted[p] THEN 1 ELSE 0
            BY <1>1, <2>5 DEF MembershipInv, RegularOK
        <3>3. CASE g # h BY <2>1, <2>3, <2>4, <3>1, <3>2, <3>3
        <3>4. CASE g = h /\ kind = "add"
            <4>1. groupIds[p][h] <= 0
                BY <2>1, <2>5, <3>4 DEF MembershipInv, ChangesOK, ChangeOK
            <4>2. groupIds[p][h] = 0 BY <3>2, <4>1
            <4> QED BY <2>1, <2>3, <2>4, <3>1, <3>4, <4>2
        <3>5. CASE g = h /\ kind # "add"
            <4>1. groupIds[p][h] > 0
                BY <1>1, <1>3, <2>1, <2>5, <3>5 DEF MembershipInv, ChangesOK, ChangeOK
            <4>2. groupIds[p][h] = 1 BY <3>2, <4>1
            <4> QED BY <2>1, <2>3, <2>4, <3>1, <3>5, <4>2
        <3> QED BY <3>3, <3>4, <3>5
    <2> QED BY <2>3, <2>5
<1> QED BY <1>2, <1>3

\* A user who was not loaded is left as he is; if a group he has joined since
\* is deleted, he is irregular.
LEMMA UnloadedFacts ==
    ASSUME MembershipInv, NEW r \in Request, CommitUsers(r), NEW p \in Person,
           p \notin change[r].loaded, p \notin irregular'
    PROVE  /\ Left(r, p) \in SUBSET Group
           /\ \A g \in Group : groupIds[p][g] = IF g \in Left(r, p) THEN 1 ELSE 0
<1>1. wanted[p] \in SUBSET Group /\ change[r].kind \in {"add", "remove", "set", "drop"}
    BY DEF MembershipInv, MemberTypes, LooseChange, CommitUsers
<1>2. p \notin irregular BY DEF CommitUsers
<1>3. \A g \in Group : groupIds[p][g] = IF g \in wanted[p] THEN 1 ELSE 0
    BY <1>2 DEF MembershipInv, RegularOK
<1>4. CASE change[r].kind # "drop"
    <2>1. Left(r, p) = wanted[p] BY <1>4, p \notin change[r].loaded DEF Left
    <2> QED BY <1>1, <1>3, <2>1
<1>5. CASE change[r].kind = "drop"
    <2>1. Left(r, p) = wanted[p] \ change[r].groups BY <1>5 DEF Left
    <2>2. p \notin Joining(r) BY <1>5 DEF CommitUsers
    <2>3. ASSUME NEW g \in change[r].groups, InGroup(groupIds[p], g) PROVE FALSE
        <3>1. p \in Joining(r) BY <2>3, p \notin change[r].loaded DEF Joining
        <3> QED BY <2>2, <3>1
    <2>4. \A g \in Group : g \in change[r].groups => g \notin wanted[p]
        BY <1>3, <2>3 DEF InGroup
    <2> QED BY <1>1, <1>3, <2>1, <2>4
<1> QED BY <1>4, <1>5

LEMMA CommitUsersInv ==
    ASSUME Person # {}, MembershipInv, NEW r \in Request, CommitUsers(r)
    PROVE  MembershipInv'
<1>1. /\ change[r].kind # "none"
      /\ groupIds' = [p \in Person |-> IF p \in change[r].loaded THEN Changed(r, p) ELSE groupIds[p]]
      /\ change' = [change EXCEPT ![r] = NoChange]
      /\ wanted' = [p \in Person |-> Left(r, p)]
    BY DEF CommitUsers
<1>2. /\ live' \in SUBSET Group /\ AdminGroup \in live'
      /\ links' \in [Group -> [BOOLEAN -> 0..2]]
      /\ irregular \subseteq irregular' /\ irregular' \in SUBSET Person
    <2>1. CASE change[r].kind = "drop"
        <3>1. /\ live' = live \ change[r].groups /\ irregular' = irregular \cup Joining(r)
              /\ links' = [g \in Group |-> IF g \in change[r].groups THEN NoLinks ELSE links[g]]
            BY <2>1 DEF CommitUsers
        <3>2. AdminGroup \notin change[r].groups BY <2>1 DEF MembershipInv, ChangesOK, ChangeOK
        <3>3. Joining(r) \in SUBSET Person BY DEF Joining
        <3>4. links' \in [Group -> [BOOLEAN -> 0..2]]
            BY <3>1 DEF NoLinks, MembershipInv, MemberTypes
        <3> QED BY <3>1, <3>2, <3>3, <3>4 DEF MembershipInv, MemberTypes
    <2>2. CASE change[r].kind # "drop"
        BY <2>2 DEF CommitUsers, MembershipInv, MemberTypes
    <2> QED BY <2>1, <2>2
<1>3. /\ change' \in [Request -> LooseChange]
      /\ change'[r].loaded = {} /\ change'[r].kind = "none"
      /\ \A s \in Request \ {r} : change'[s] = change[s]
    BY <1>1, NoChangeFacts DEF MembershipInv, MemberTypes
<1>4. \A p \in Person : Left(r, p) \in SUBSET Group
    <2>1. change[r].groups \in SUBSET Group /\ change[r].kind \in {"add", "remove", "set", "drop"}
          /\ \A p \in Person : wanted[p] \in SUBSET Group
        BY <1>1 DEF MembershipInv, MemberTypes, LooseChange
    <2> QED BY <2>1 DEF Left
<1>5. \A p \in Person \ irregular' :
        /\ wanted'[p] = Left(r, p)
        /\ \A g \in Group : groupIds'[p][g] = IF g \in Left(r, p) THEN 1 ELSE 0
    <2> SUFFICES ASSUME NEW p \in Person, p \notin irregular', NEW g \in Group
                 PROVE  groupIds'[p][g] = IF g \in Left(r, p) THEN 1 ELSE 0
        BY <1>1
    <2>1. CASE p \in change[r].loaded BY <1>1, <1>2, <2>1, ChangedFacts
    <2>2. CASE p \notin change[r].loaded BY <1>1, <2>2, UnloadedFacts
    <2> QED BY <2>1, <2>2
<1>6. MemberTypes'
    <2>1. groupIds' \in ArraysOf
        <3>1. \A p \in Person : p \in change[r].loaded => Changed(r, p) \in [Group -> Int]
            BY <1>1, ChangedFacts
        <3>2. groupIds \in ArraysOf BY DEF MembershipInv, MemberTypes
        <3> QED BY <1>1, <3>1, <3>2 DEF ArraysOf
    <2>2. wanted' \in [Person -> SUBSET Group] BY <1>1, <1>4
    <2> QED BY <1>2, <1>3, <2>1, <2>2 DEF MemberTypes
<1>7. ChangesOK'
    <2>1. ChangeOK(r)' BY <1>3 DEF ChangeOK
    <2>2. ASSUME NEW s \in Request, s # r PROVE ChangeOK(s)'
        <3>1. change'[s] = change[s] /\ ChangeOK(s)
            BY <1>3, <2>2 DEF MembershipInv, ChangesOK
        <3>2. ASSUME NEW p \in change[s].loaded, p \notin irregular'
              PROVE  groupIds'[p] = groupIds[p] /\ p \notin irregular
            <4>1. p \notin irregular BY <1>2, <3>2
            <4>2. p \notin change[r].loaded
                BY <2>2, <3>2, <4>1 DEF MembershipInv, OneAtATimeOK
            <4>3. p \in Person BY DEF MembershipInv, MemberTypes, LooseChange
            <4> QED BY <1>1, <4>1, <4>2, <4>3
        <3> QED BY <3>1, <3>2 DEF ChangeOK
    <2> QED BY <2>1, <2>2 DEF ChangesOK
<1>8. OneAtATimeOK' BY <1>2, <1>3 DEF MembershipInv, OneAtATimeOK
<1>9. RegularOK' BY <1>5 DEF RegularOK
<1> QED BY <1>2, <1>6, <1>7, <1>8, <1>9 DEF MembershipInv

\* Rows of data_source_groups change no membership.
LEMMA LinksInv ==
    ASSUME MembershipInv, NEW g \in Group,
           AddGroup(g) \/ RemoveGroup(g) \/ \E v \in BOOLEAN : UpdateGroupPermission(g, v)
    PROVE  MembershipInv'
<1>1. UNCHANGED <<groupIds, live, change, wanted, irregular>>
    BY DEF AddGroup, RemoveGroup, UpdateGroupPermission
<1>2. links \in [Group -> [BOOLEAN -> 0..2]] BY DEF MembershipInv, MemberTypes
<1>3. links' \in [Group -> [BOOLEAN -> 0..2]]
    <2>1. CASE AddGroup(g)
        <3>1. /\ links' = [links EXCEPT ![g] = [links[g] EXCEPT ![FALSE] = links[g][FALSE] + 1]]
              /\ links[g][TRUE] + links[g][FALSE] < 2
            BY <1>2, <2>1 DEF AddGroup
        <3>2. links[g][TRUE] \in 0..2 /\ links[g][FALSE] \in 0..2 BY <1>2
        <3>3. links[g][FALSE] + 1 \in 0..2
            <4> DEFINE full == links[g][TRUE]
                       viewing == links[g][FALSE]
            <4>1. full \in 0..2 /\ viewing \in 0..2 /\ full + viewing < 2 BY <3>1, <3>2
            <4> HIDE DEF full, viewing
            <4>2. viewing + 1 \in 0..2 BY <4>1
            <4> QED BY <4>2 DEF viewing
        <3> QED BY <1>2, <3>1, <3>3
    <2>2. CASE RemoveGroup(g)
        <3>1. NoLinks \in [BOOLEAN -> 0..2] BY DEF NoLinks
        <3> QED BY <1>2, <2>2, <3>1 DEF RemoveGroup
    <2>3. ASSUME NEW v \in BOOLEAN, UpdateGroupPermission(g, v)
          PROVE  links' \in [Group -> [BOOLEAN -> 0..2]]
        <3>1. [b \in BOOLEAN |-> IF b = v THEN 1 ELSE 0] \in [BOOLEAN -> 0..2] OBVIOUS
        <3> QED BY <1>2, <2>3, <3>1 DEF UpdateGroupPermission
    <2> QED BY <2>1, <2>2, <2>3
<1>4. MemberTypes' BY <1>1, <1>3 DEF MembershipInv, MemberTypes
<1>5. ChangesOK' /\ OneAtATimeOK' /\ RegularOK'
    BY <1>1 DEF MembershipInv, ChangesOK, ChangeOK, OneAtATimeOK, RegularOK
<1> QED BY <1>1, <1>4, <1>5 DEF MembershipInv

\* Every step keeps the invariant.
LEMMA MembershipNextInv ==
    ASSUME Person # {}
    PROVE  MembershipInv /\ [MembershipNext]_membershipVars => MembershipInv'
<1> SUFFICES ASSUME MembershipInv, [MembershipNext]_membershipVars PROVE MembershipInv'
    OBVIOUS
<1>1. CASE UNCHANGED membershipVars
    BY <1>1 DEF membershipVars, MembershipInv, MemberTypes, ChangesOK, ChangeOK, OneAtATimeOK,
                RegularOK
<1>2. ASSUME NEW r \in Request, NEW g \in Group, LoadDrop(r, g) PROVE MembershipInv'
    <2>1. /\ g # AdminGroup /\ LoadUsers(r, "drop", {g}, NoChange.person, MembersOf(g))
          /\ MembersOf(g) \in SUBSET Person /\ \A q \in MembersOf(g) : groupIds[q][g] > 0
        BY <1>2 DEF LoadDrop, MembersOf, InGroup
    <2>2. NoChange.person \in Person BY NoChangeFacts DEF LooseChange
    <2> QED BY <2>1, <2>2, LoadUsersInv
<1>3. ASSUME NEW r \in Request, NEW g \in Group, NEW p \in Person, LoadAdd(r, g, p)
      PROVE  MembershipInv'
    BY <1>3, LoadUsersInv DEF LoadAdd
<1>4. ASSUME NEW r \in Request, NEW g \in Group, NEW p \in Person, LoadRemove(r, g, p)
      PROVE  MembershipInv'
    BY <1>4, LoadUsersInv DEF LoadRemove, MembersOf, InGroup
<1>5. ASSUME NEW r \in Request, NEW gs \in SUBSET Group, NEW p \in Person, LoadSet(r, gs, p)
      PROVE  MembershipInv'
    BY <1>5, LoadUsersInv DEF LoadSet
<1>6. CASE MembershipNext
    BY <1>2, <1>3, <1>4, <1>5, <1>6, CommitUsersInv, LinksInv DEF MembershipNext
<1> QED BY <1>1, <1>6

LEMMA MembershipInvariance ==
    ASSUME Person # {}
    PROVE  MembershipSpec => []MembershipInv
BY MembershipInitInv, MembershipNextInv, PTL DEF MembershipSpec

LEMMA AsAsked == MembershipInv => MembershipIsAsAsked
<1> SUFFICES ASSUME MembershipInv, NEW p \in Person \ irregular
             PROVE  {g \in Group : InGroup(groupIds[p], g)} = wanted[p]
    BY DEF MembershipIsAsAsked
<1>1. \A g \in Group : groupIds[p][g] = IF g \in wanted[p] THEN 1 ELSE 0
    BY DEF MembershipInv, RegularOK
<1>2. wanted[p] \in SUBSET Group BY DEF MembershipInv, MemberTypes
<1> QED BY <1>1, <1>2 DEF InGroup

\* A user whose changes came one after another is in exactly the groups asked
\* for, for any number of users, groups and requests.
THEOREM MembershipsAreAsAsked ==
    ASSUME Person # {}
    PROVE  MembershipSpec => []MembershipIsAsAsked
BY AsAsked, MembershipInvariance, PTL

\* And he has the access that the best of these groups gives.
THEOREM AccessesAreAsAsked ==
    ASSUME Person # {}
    PROVE  MembershipSpec => []AccessIsAsAsked
<1>1. MembershipInv => AccessIsAsAsked
    <2> SUFFICES ASSUME MembershipInv, NEW p \in Person \ irregular, NEW viewOnly \in BOOLEAN,
                        NEW view \in GroupViews,
                        \A g \in Group : ~(links[g][TRUE] > 0 /\ links[g][FALSE] > 0)
                 PROVE  HasAccess(p, viewOnly, view)
                            <=> \/ AdminGroup \in wanted[p]
                                \/ \E g \in wanted[p] :
                                    links[g][FALSE] > 0 \/ (viewOnly /\ links[g][TRUE] > 0)
        BY DEF AccessIsAsAsked
    <2>1. \A g \in Group : InGroup(groupIds[p], g) <=> g \in wanted[p]
        BY AsAsked DEF MembershipIsAsAsked
    <2>2. wanted[p] \in SUBSET Group /\ AdminGroup \in live /\ AdminGroup \in Group
        BY MembershipAssumption DEF MembershipInv, MemberTypes
    <2>3. IsAdmin(p) <=> AdminGroup \in wanted[p] BY <2>1, <2>2 DEF IsAdmin
    <2>4. /\ view \in [LinkedGroups -> BOOLEAN]
          /\ \A g \in LinkedGroups : links[g][view[g]] > 0
        BY DEF GroupViews
    <2>5. \A g \in LinkedGroups : /\ view[g] <=> links[g][TRUE] > 0
                                  /\ ~view[g] <=> links[g][FALSE] > 0
        <3> SUFFICES ASSUME NEW g \in LinkedGroups
                     PROVE  /\ view[g] <=> links[g][TRUE] > 0
                            /\ ~view[g] <=> links[g][FALSE] > 0
            OBVIOUS
        <3>1. g \in Group BY DEF LinkedGroups
        <3>2. view[g] = TRUE \/ view[g] = FALSE BY <2>4
        <3> QED BY <2>4, <3>1, <3>2
    <2>6. MatchingGroups(p) = wanted[p] \cap LinkedGroups
        BY <2>1, <2>2 DEF MatchingGroups, LinkedGroups
    <2>7. \A g \in Group : g \in LinkedGroups <=> links[g][TRUE] > 0 \/ links[g][FALSE] > 0
        BY DEF LinkedGroups
    <2>8. RequiredLevel(viewOnly) <= GroupLevel(p, view)
            <=> viewOnly \/ \E g \in MatchingGroups(p) : ~view[g]
        BY DEF RequiredLevel, GroupLevel
    <2>9. (MatchingGroups(p) # {} /\ (viewOnly \/ \E g \in MatchingGroups(p) : ~view[g]))
            <=> \E g \in wanted[p] : links[g][FALSE] > 0 \/ (viewOnly /\ links[g][TRUE] > 0)
        BY <2>2, <2>5, <2>6, <2>7
    <2> QED BY <2>3, <2>8, <2>9 DEF HasAccess
<1> QED BY <1>1, MembershipInvariance, PTL

-----------------------------------------------------------------------------
(* Last activity                                                           *)

USE LastActiveAssumption

\* A time in the hash is that of the last request; one that was deleted from it
\* is in the session of the job.
MemberOK(m) ==
    /\ stamp[m] # 0 => stamp[m] = seen[m]
    /\ m \in sync.todo => stamp[m] # 0 /\ m \notin sync.loaded
    /\ m \in sync.loaded /\ m \notin excused =>
        stamp[m] = seen[m] \/ sync.session[m].active = seen[m]
    /\ m \notin excused => Pending(m) \/ details[m].active = seen[m]
MembersOK == \A m \in Member : MemberOK(m)

\* The user in hand, whose field is about to be deleted.
SyncOK ==
    /\ sync.pc = "idle" => sync.loaded = {} /\ sync.todo = {}
    /\ sync.pc \in {"got", "loaded"} =>
        /\ stamp[sync.member] # 0
        /\ sync.member \notin sync.todo
        /\ sync.member \notin excused => sync.timestamp = stamp[sync.member]
    /\ sync.pc = "got" => sync.member \notin sync.loaded
    /\ sync.pc = "loaded" =>
        sync.member \in sync.loaded /\ sync.session[sync.member].active = sync.timestamp

ActiveInv == ActiveTypeOK /\ MembersOK /\ SyncOK

-----------------------------------------------------------------------------

\* The job that does not run is a job like any other.
LEMMA NoSyncTyped == Member # {} => NoSync \in SyncRecord /\ NoDetails \in DetailsRecord
BY DEF NoSync, NoDetails, SyncRecord, DetailsRecord

\* No requests and no times.
LEMMA ActiveInitInv ==
    ASSUME Member # {}
    PROVE  ActiveInit => ActiveInv
<1> SUFFICES ASSUME ActiveInit PROVE ActiveInv
    OBVIOUS
<1>1. ActiveTypeOK
    <2>1. [pc |-> "idle", details |-> NoDetails] \in VerifyRecord
        BY NoSyncTyped DEF VerifyRecord
    <2>2. verify \in [Member -> VerifyRecord] /\ details \in [Member -> DetailsRecord]
        BY <2>1, NoSyncTyped DEF ActiveInit
    <2> QED BY <2>2, NoSyncTyped DEF ActiveInit, ActiveTypeOK
<1>2. ASSUME NEW m \in Member PROVE MemberOK(m)
    BY DEF ActiveInit, MemberOK, Pending, NoSync
<1>3. SyncOK BY DEF ActiveInit, SyncOK, NoSync
<1> QED BY <1>1, <1>2, <1>3 DEF ActiveInv, MembersOK

\* A request leaves its time, or comes where it may get lost.
LEMMA TouchInv ==
    ASSUME ActiveInv, NEW m \in Member, Touch(m)
    PROVE  ActiveInv'
<1>1. /\ time' = time + 1 /\ time' \in 0..MaxTime /\ time' # 0
      /\ stamp' = [stamp EXCEPT ![m] = time'] /\ seen' = [seen EXCEPT ![m] = time']
      /\ UNCHANGED <<details, sync, verify>>
      /\ stamp \in [Member -> 0..MaxTime] /\ seen \in [Member -> 0..MaxTime]
    BY DEF Touch, ActiveInv, ActiveTypeOK
<1>2. excused' = IF sync.pc \in {"got", "loaded"} /\ sync.member = m
                 THEN excused \cup {m} ELSE excused \ {m}
    BY DEF Touch
<1>3. ActiveTypeOK'
    BY <1>1, <1>2 DEF ActiveInv, ActiveTypeOK
<1>4. ASSUME NEW n \in Member PROVE MemberOK(n)'
    <2>1. CASE n = m
        <3>1. stamp'[n] = time' /\ seen'[n] = time' BY <1>1, <2>1
        <3> QED BY <1>1, <2>1, <3>1 DEF ActiveInv, MembersOK, MemberOK, Pending
    <2>2. CASE n # m
        <3>1. stamp'[n] = stamp[n] /\ seen'[n] = seen[n] /\ (n \in excused' <=> n \in excused)
            BY <1>1, <1>2, <2>2
        <3> QED BY <1>1, <3>1 DEF ActiveInv, MembersOK, MemberOK, Pending
    <2> QED BY <2>1, <2>2
<1>5. SyncOK'
    <2>1. ASSUME sync.pc \in {"got", "loaded"}
          PROVE  stamp'[sync.member] # 0
                 /\ (sync.member \notin excused' =>
                        sync.member \notin excused /\ stamp'[sync.member] = stamp[sync.member])
        <3>1. sync.member \in Member BY DEF ActiveInv, ActiveTypeOK, SyncRecord
        <3>2. CASE sync.member = m BY <1>1, <1>2, <2>1, <3>2
        <3>3. CASE sync.member # m
            BY <1>1, <1>2, <2>1, <3>1, <3>3 DEF ActiveInv, SyncOK
        <3> QED BY <3>2, <3>3
    <2> QED BY <1>1, <2>1 DEF ActiveInv, SyncOK
<1> QED BY <1>3, <1>4, <1>5 DEF ActiveInv, MembersOK

\* A verification that reverts the time of another excuses its user.
LEMMA VerifyInv ==
    ASSUME ActiveInv, NEW m \in Member, VerifyLoad(m) \/ VerifyCommit(m)
    PROVE  ActiveInv'
<1>1. UNCHANGED <<time, stamp, sync, seen>> /\ excused \subseteq excused'
    BY DEF VerifyLoad, VerifyCommit
<1>2. details[m] \in DetailsRecord /\ verify[m] \in VerifyRecord
    BY DEF ActiveInv, ActiveTypeOK
<1>3. ActiveTypeOK' /\ \A n \in Member \ excused' : details'[n].active = details[n].active
    <2>1. CASE VerifyLoad(m)
        <3>1. [pc |-> "loaded", details |-> details[m]] \in VerifyRecord
            BY <1>2 DEF VerifyRecord
        <3> QED BY <1>1, <2>1, <3>1 DEF ActiveInv, ActiveTypeOK, VerifyLoad
    <2>2. CASE VerifyCommit(m)
        <3> DEFINE new == [verify[m].details EXCEPT !.verified = TRUE]
        <3>1. new \in DetailsRecord /\ new.active = verify[m].details.active
            BY <1>2 DEF VerifyRecord, DetailsRecord
        <3>2. [pc |-> "idle", details |-> NoDetails] \in VerifyRecord
            BY DEF VerifyRecord, NoDetails, DetailsRecord
        <3>3. /\ details' = [details EXCEPT ![m] = new]
              /\ verify' = [verify EXCEPT ![m] = [pc |-> "idle", details |-> NoDetails]]
              /\ excused' = IF verify[m].details.active # details[m].active
                            THEN excused \cup {m} ELSE excused
            BY <2>2 DEF VerifyCommit
        <3> HIDE DEF new
        <3>4. details' \in [Member -> DetailsRecord] /\ verify' \in [Member -> VerifyRecord]
              /\ excused' \in SUBSET Member
            BY <3>1, <3>2, <3>3 DEF ActiveInv, ActiveTypeOK
        <3>5. \A n \in Member \ excused' : details'[n].active = details[n].active
            BY <3>1, <3>3 DEF ActiveInv, ActiveTypeOK
        <3> QED BY <1>1, <3>4, <3>5 DEF ActiveInv, ActiveTypeOK
    <2> QED BY <2>1, <2>2
<1>4. MembersOK' BY <1>1, <1>3 DEF ActiveInv, MembersOK, MemberOK, Pending
<1>5. SyncOK' BY <1>1 DEF ActiveInv, SyncOK
<1> QED BY <1>3, <1>4, <1>5 DEF ActiveInv

\* The job lists the users and takes one of them in hand.
LEMMA SyncGetInv ==
    ASSUME ActiveInv, Member # {}, SyncKeys \/ \E m \in Member : SyncGet(m)
    PROVE  ActiveInv'
<1>1. UNCHANGED <<time, stamp, details, verify, seen, excused>>
    BY DEF SyncKeys, SyncGet
<1>2. sync \in SyncRecord /\ stamp \in [Member -> 0..MaxTime]
    BY DEF ActiveInv, ActiveTypeOK
<1>3. CASE SyncKeys
    <2>1. sync' = [NoSync EXCEPT !.pc = "next", !.todo = {m \in Member : stamp[m] # 0}]
          /\ sync.pc = "idle"
        BY <1>3 DEF SyncKeys
    <2>2. /\ sync' \in SyncRecord /\ sync'.pc = "next" /\ sync'.loaded = {}
          /\ sync'.todo = {m \in Member : stamp[m] # 0}
        BY <2>1, NoSyncTyped DEF SyncRecord, NoSync
    <2>3. sync.loaded = {} BY <2>1 DEF ActiveInv, SyncOK
    <2>4. MembersOK'
        BY <1>1, <2>2, <2>3 DEF ActiveInv, MembersOK, MemberOK, Pending
    <2>5. SyncOK' BY <2>2 DEF SyncOK
    <2> QED BY <1>1, <2>2, <2>4, <2>5 DEF ActiveInv, ActiveTypeOK
<1>4. ASSUME NEW m \in Member, SyncGet(m) PROVE ActiveInv'
    <2>1. /\ sync' = [sync EXCEPT !.pc = "got", !.todo = @ \ {m}, !.member = m,
                                  !.timestamp = stamp[m]]
          /\ sync.pc = "next" /\ m \in sync.todo
        BY <1>4 DEF SyncGet
    <2>2. /\ sync' \in SyncRecord /\ sync'.pc = "got" /\ sync'.todo = sync.todo \ {m}
          /\ sync'.member = m /\ sync'.timestamp = stamp[m]
          /\ sync'.loaded = sync.loaded /\ sync'.session = sync.session
        BY <1>2, <2>1 DEF SyncRecord
    <2>3. MembersOK'
        BY <1>1, <2>2 DEF ActiveInv, MembersOK, MemberOK, Pending
    <2>4. SyncOK'
        BY <1>1, <2>1, <2>2 DEF ActiveInv, MembersOK, MemberOK, SyncOK
    <2> QED BY <1>1, <2>2, <2>3, <2>4 DEF ActiveInv, ActiveTypeOK
<1> QED BY <1>3, <1>4

\* The time in hand is brought into the session, and then leaves the hash.
LEMMA SyncMoveInv ==
    ASSUME ActiveInv, SyncLoad \/ SyncDelete
    PROVE  ActiveInv'
<1> DEFINE m == sync.member
<1>1. m \in Member /\ sync \in SyncRecord /\ stamp \in [Member -> 0..MaxTime]
      /\ details \in [Member -> DetailsRecord]
    BY DEF ActiveInv, ActiveTypeOK, SyncRecord
<1>2. UNCHANGED <<time, details, verify, seen, excused>>
    BY DEF SyncLoad, SyncDelete
<1>3. CASE SyncLoad
    <2> DEFINE new == [details[m] EXCEPT !.active = sync.timestamp]
    <2>1. /\ sync' = [sync EXCEPT !.pc = "loaded", !.session[m] = new,
                                  !.flushed = sync.loaded, !.loaded = @ \cup {m}]
          /\ stamp' = stamp /\ sync.pc = "got"
        BY <1>3 DEF SyncLoad
    <2>2. new \in DetailsRecord /\ new.active = sync.timestamp
        BY <1>1 DEF DetailsRecord, SyncRecord
    <2> HIDE DEF new
    <2>3. /\ sync' \in SyncRecord /\ sync'.pc = "loaded" /\ sync'.todo = sync.todo
          /\ sync'.member = m /\ sync'.timestamp = sync.timestamp
          /\ sync'.loaded = sync.loaded \cup {m}
          /\ sync'.session = [sync.session EXCEPT ![m] = new]
        BY <1>1, <2>1, <2>2 DEF SyncRecord
    <2>4. sync'.session[m] = new /\ \A n \in Member \ {m} : sync'.session[n] = sync.session[n]
        BY <1>1, <2>3 DEF SyncRecord
    <2>5. /\ stamp[m] # 0 /\ m \notin sync.todo
          /\ m \notin excused => sync.timestamp = stamp[m]
        BY <2>1 DEF ActiveInv, SyncOK
    <2>6. ASSUME NEW n \in Member PROVE MemberOK(n)'
        <3>1. MemberOK(n) BY DEF ActiveInv, MembersOK
        <3>2. CASE n = m
            <4>1. stamp[n] = seen[n] BY <2>5, <3>1, <3>2 DEF MemberOK
            <4> HIDE DEF m
            <4> QED BY <1>2, <2>1, <2>3, <2>5, <3>2, <4>1 DEF MemberOK, Pending
        <3>3. CASE n # m
            <4> HIDE DEF m
            <4> QED BY <1>2, <2>1, <2>3, <2>4, <3>1, <3>3 DEF MemberOK, Pending
        <3> QED BY <3>2, <3>3
    <2>7. SyncOK'
        <3> HIDE DEF m
        <3> QED BY <1>2, <2>1, <2>2, <2>3, <2>4, <2>5 DEF SyncOK
    <2> QED BY <1>2, <2>1, <2>3, <2>6, <2>7 DEF ActiveInv, ActiveTypeOK, MembersOK
<1>4. CASE SyncDelete
    <2>1. /\ stamp' = [n \in Member |-> IF n = m THEN 0 ELSE stamp[n]]
          /\ sync' = [sync EXCEPT !.pc = "next"] /\ sync.pc = "loaded"
        BY <1>4 DEF SyncDelete, Deleted
    <2>2. /\ sync' \in SyncRecord /\ sync'.pc = "next" /\ sync'.todo = sync.todo
          /\ sync'.loaded = sync.loaded /\ sync'.session = sync.session
        BY <1>1, <2>1 DEF SyncRecord
    <2>3. /\ stamp[m] # 0 /\ m \notin sync.todo /\ m \in sync.loaded
          /\ m \notin excused => sync.session[m].active = stamp[m]
        BY <2>1 DEF ActiveInv, SyncOK
    <2>4. ASSUME NEW n \in Member PROVE MemberOK(n)'
        <3>1. MemberOK(n) BY DEF ActiveInv, MembersOK
        <3>2. CASE n = m
            <4>1. stamp[n] = seen[n] BY <2>3, <3>1, <3>2 DEF MemberOK
            <4>2. stamp'[n] = 0 BY <2>1, <3>2
            <4> QED BY <1>2, <2>2, <2>3, <3>2, <4>1, <4>2 DEF MemberOK, Pending
        <3>3. CASE n # m
            <4>1. stamp'[n] = stamp[n] BY <2>1, <3>3
            <4> QED BY <1>2, <2>2, <3>1, <4>1 DEF MemberOK, Pending
        <3> QED BY <3>2, <3>3
    <2>5. stamp' \in [Member -> 0..MaxTime] BY <1>1, <2>1
    <2>6. SyncOK' BY <2>2 DEF SyncOK
    <2> QED BY <1>2, <2>2, <2>4, <2>5, <2>6 DEF ActiveInv, ActiveTypeOK, MembersOK
<1> QED BY <1>3, <1>4

\* The end of the job: what is in the session is committed, or its loss excused.
LEMMA SyncEndInv ==
    ASSUME ActiveInv, Member # {}, SyncCommit \/ SyncDies
    PROVE  ActiveInv'
<1>1. UNCHANGED <<time, stamp, verify, seen>> /\ sync' = NoSync
    BY DEF SyncCommit, SyncDies
<1>2. NoSync \in SyncRecord /\ NoSync.pc = "idle" /\ NoSync.todo = {} /\ NoSync.loaded = {}
    BY NoSyncTyped DEF NoSync
<1>3. ActiveTypeOK'
    BY <1>1, <1>2 DEF ActiveInv, ActiveTypeOK, SyncRecord, SyncCommit, SyncDies
<1>4. SyncOK' BY <1>1, <1>2 DEF SyncOK
<1>5. ASSUME NEW n \in Member PROVE MemberOK(n)'
    <2>1. MemberOK(n) BY DEF ActiveInv, MembersOK
    <2>2. n \notin excused' => stamp[n] = seen[n] \/ details'[n].active = seen[n]
        <3>1. CASE SyncCommit
            <4>1. details' = [k \in Member |-> IF k \in sync.loaded THEN sync.session[k]
                                               ELSE details[k]]
                  /\ excused' = excused
                BY <3>1 DEF SyncCommit
            <4> QED BY <2>1, <4>1 DEF MemberOK, Pending
        <3>2. CASE SyncDies
            <4>1. details' = details
                  /\ excused' = excused \cup {k \in sync.loaded : stamp[k] = 0}
                BY <3>2 DEF SyncDies
            <4> QED BY <2>1, <4>1 DEF MemberOK, Pending
        <3> QED BY <3>1, <3>2
    <2> QED BY <1>1, <1>2, <2>1, <2>2 DEF MemberOK, Pending
<1> QED BY <1>3, <1>4, <1>5 DEF ActiveInv, MembersOK

\* Every step keeps the invariant.
LEMMA ActiveNextInv ==
    ASSUME Member # {}
    PROVE  ActiveInv /\ [ActiveNext]_activeVars => ActiveInv'
<1> SUFFICES ASSUME ActiveInv, [ActiveNext]_activeVars PROVE ActiveInv'
    OBVIOUS
<1>1. CASE UNCHANGED activeVars
    BY <1>1 DEF activeVars, ActiveInv, ActiveTypeOK, MembersOK, MemberOK, SyncOK, Pending
<1>2. CASE ActiveNext
    BY <1>2, TouchInv, VerifyInv, SyncGetInv, SyncMoveInv, SyncEndInv DEF ActiveNext
<1> QED BY <1>1, <1>2

\* The time of a last request is in the hash, in the session or in the database,
\* unless it was lost where LastActive says.
THEOREM LastRequestsAreKept ==
    ASSUME Member # {}
    PROVE  ActiveSpec => []LastRequestIsKept
<1>1. ActiveInv => LastRequestIsKept
    BY DEF ActiveInv, MembersOK, MemberOK, LastRequestIsKept
<1> QED BY <1>1, ActiveInitInv, ActiveNextInv, PTL DEF ActiveSpec

=============================================================================
