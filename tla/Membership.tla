----------------------------- MODULE Membership -----------------------------
(***************************************************************************)
(* Who may use a data source: users are in groups, groups have access to   *)
(* the data source, fully or for viewing only.                             *)
(*                                                                         *)
(* The groups of a user are an array in the user's row.  A request reads   *)
(* it, changes it and writes it whole; it may hold a group twice, and the  *)
(* id of a group that is gone.                                             *)
(***************************************************************************)
EXTENDS Naturals, FiniteSets

CONSTANTS
    Person,         \* users
    Group,
    AdminGroup,     \* the built-in group whose permissions include "admin"
    DefaultGroup,   \* the built-in group of new users
    Request,        \* requests of administrators
    MaxChanges      \* how many changes of groups are asked for (bound of the model)

ASSUME MembershipAssumption == {AdminGroup, DefaultGroup} \subseteq Group /\ MaxChanges \in Nat

VARIABLES
    groupIds,   \* the array of each user: how often it holds each group
    live,       \* the groups there are
    links,      \* data_source_groups: how many rows of each group have which view_only
    change,     \* the requests and the arrays they have read
    changes,    \* how many changes were asked for so far
    wanted,     \* history: the groups each user was last put or left in
    irregular   \* history: users with two changes at once, or put in a group twice

membershipVars == <<groupIds, live, links, change, changes, wanted, irregular>>

IdArray == [Group -> 0..(MaxChanges + 1)]
ChangeRecord ==
    [kind : {"none", "add", "remove", "set", "drop"},
     groups : SUBSET Group,             \* the group in question, or the ones to set
     person : Person,
     arrays : [Person -> IdArray],      \* the arrays as read
     loaded : SUBSET Person]            \* whose arrays these are

MembershipTypeOK ==
    /\ groupIds \in [Person -> IdArray]
    /\ live \in SUBSET Group
    /\ links \in [Group -> [BOOLEAN -> 0..2]]
    /\ change \in [Request -> ChangeRecord]
    /\ changes \in 0..MaxChanges
    /\ wanted \in [Person -> SUBSET Group]
    /\ irregular \in SUBSET Person

IdsOf(gs) == [g \in Group |-> IF g \in gs THEN 1 ELSE 0]
NoIds == IdsOf({})
NoLinks == [b \in BOOLEAN |-> 0]
NoChange ==
    [kind |-> "none", groups |-> {}, person |-> CHOOSE p \in Person : TRUE,
     arrays |-> [p \in Person |-> NoIds], loaded |-> {}]

MembershipInit ==
    /\ groupIds = [p \in Person |-> IdsOf({DefaultGroup})]
    /\ live = Group
    /\ links = [g \in Group |-> NoLinks]
    /\ change = [r \in Request |-> NoChange]
    /\ changes = 0
    /\ wanted = [p \in Person |-> {DefaultGroup}]
    /\ irregular = {}

-----------------------------------------------------------------------------
(* Changes of the arrays                                                   *)

InGroup(array, g) == array[g] > 0
MembersOf(g) == {p \in Person : InGroup(groupIds[p], g)}

\* The request has read the rows of some users; whoever else is changing one
\* of them overlaps with it.
LoadUsers(r, kind, gs, p, loaded) ==
    /\ change[r].kind = "none" /\ changes < MaxChanges
    /\ changes' = changes + 1
    /\ change' = [change EXCEPT ![r] =
                    [kind |-> kind, groups |-> gs, person |-> p, loaded |-> loaded,
                     arrays |-> [q \in Person |-> IF q \in loaded THEN groupIds[q] ELSE NoIds]]]
    /\ irregular' = irregular
            \cup (loaded \cap UNION {change[s].loaded : s \in Request})
            \cup (IF kind = "add" THEN loaded \cap UNION {MembersOf(g) : g \in gs} ELSE {})
    /\ UNCHANGED <<groupIds, live, links, wanted>>

\* A person is put in a group, which is loaded too, or removed from it.  A
\* removal from a group the array does not hold raises, and changes nothing.
LoadAdd(r, g, p) == g \in live /\ LoadUsers(r, "add", {g}, p, {p})
LoadRemove(r, g, p) == p \in MembersOf(g) /\ LoadUsers(r, "remove", {g}, p, {p})

\* An administrator's edit of a user, or a login whose groups come from the
\* identity provider, sets the array.
LoadSet(r, gs, p) == gs # {} /\ gs \subseteq live /\ LoadUsers(r, "set", gs, p, {p})

\* Built-in groups cannot be deleted.
LoadDrop(r, g) ==
    /\ g \in live \ {AdminGroup, DefaultGroup}
    /\ LoadUsers(r, "drop", {g}, NoChange.person, MembersOf(g))

\* list.append and list.remove, which takes one of several equal items.
Shifted(array, g, kind) == [array EXCEPT ![g] = IF kind = "add" THEN @ + 1 ELSE @ - 1]

\* What a request makes of a user's array.  Setting what was read is no change.
\* A fault for TLC: the members of a deleted group stay as they are.
ChangedForget(r, p) ==
    IF change[r].kind = "drop" THEN groupIds[p]
    ELSE IF change[r].kind = "set" THEN IdsOf(change[r].groups)
    ELSE Shifted(change[r].arrays[p], CHOOSE g \in change[r].groups : TRUE, change[r].kind)
Changed(r, p) ==
    LET read == change[r].arrays[p]
    IN  IF change[r].kind = "set"
        THEN IF read = IdsOf(change[r].groups) THEN groupIds[p] ELSE IdsOf(change[r].groups)
        ELSE Shifted(read, CHOOSE g \in change[r].groups : TRUE, change[r].kind)

Left(r, p) ==
    IF change[r].kind = "drop" THEN wanted[p] \ change[r].groups
    ELSE IF p \notin change[r].loaded THEN wanted[p]
    ELSE CASE change[r].kind = "add" -> wanted[p] \cup change[r].groups
           [] change[r].kind = "remove" -> wanted[p] \ change[r].groups
           [] change[r].kind = "set" -> change[r].groups

\* Whoever joined a group after its members were read for its deletion, or is
\* about to, keeps a group that is gone.
Joining(r) ==
    {p \in Person \ change[r].loaded : \E g \in change[r].groups : InGroup(groupIds[p], g)}
        \cup {p \in Person : \E s \in Request :
                /\ change[s].kind \in {"add", "set"} /\ p = change[s].person
                /\ change[s].groups \cap change[r].groups # {}}

CommitUsers(r) ==
    /\ change[r].kind # "none"
    /\ groupIds' = [p \in Person |-> IF p \in change[r].loaded THEN Changed(r, p) ELSE groupIds[p]]
    /\ change' = [change EXCEPT ![r] = NoChange]
    /\ IF change[r].kind = "drop"
       THEN /\ live' = live \ change[r].groups
            /\ links' = [g \in Group |-> IF g \in change[r].groups THEN NoLinks ELSE links[g]]
            /\ irregular' = irregular \cup Joining(r)
       ELSE UNCHANGED <<live, links, irregular>>
    /\ wanted' = [p \in Person |-> Left(r, p)]
    /\ UNCHANGED changes

-----------------------------------------------------------------------------
(* Access of groups to the data source                                     *)

\* Nothing keeps a group from being linked twice.
AddGroup(g) ==
    /\ g \in live
    /\ links[g][TRUE] + links[g][FALSE] < 2
    /\ links' = [links EXCEPT ![g][FALSE] = @ + 1]
    /\ UNCHANGED <<groupIds, live, change, changes, wanted, irregular>>

\* .one() raises if there are several rows.
UpdateGroupPermission(g, viewOnly) ==
    /\ g \in live
    /\ links[g][TRUE] + links[g][FALSE] = 1
    /\ links' = [links EXCEPT ![g] = [b \in BOOLEAN |-> IF b = viewOnly THEN 1 ELSE 0]]
    /\ links' # links
    /\ UNCHANGED <<groupIds, live, change, changes, wanted, irregular>>

RemoveGroup(g) ==
    /\ links[g] # NoLinks
    /\ links' = [links EXCEPT ![g] = NoLinks]
    /\ UNCHANGED <<groupIds, live, change, changes, wanted, irregular>>

MembershipNext ==
    \/ \E r \in Request :
        \/ CommitUsers(r)
        \/ \E g \in Group : LoadDrop(r, g)
        \/ \E g \in Group, p \in Person : LoadAdd(r, g, p) \/ LoadRemove(r, g, p)
        \/ \E p \in Person, gs \in SUBSET Group : LoadSet(r, gs, p)
    \/ \E g \in Group :
        \/ AddGroup(g) \/ RemoveGroup(g)
        \/ \E viewOnly \in BOOLEAN : UpdateGroupPermission(g, viewOnly)

MembershipSpec == MembershipInit /\ [][MembershipNext]_membershipVars

-----------------------------------------------------------------------------
(* has_access_to_groups                                                    *)

\* DataSource.groups is a dictionary: of several rows of a group one counts.
LinkedGroups == {g \in Group : \E b \in BOOLEAN : links[g][b] > 0}
GroupViews == {f \in [LinkedGroups -> BOOLEAN] : \A g \in LinkedGroups : links[g][f[g]] > 0}

IsAdmin(p) == AdminGroup \in live /\ InGroup(groupIds[p], AdminGroup)
MatchingGroups(p) == {g \in LinkedGroups : InGroup(groupIds[p], g)}

RequiredLevel(viewOnly) == IF viewOnly THEN 1 ELSE 2

\* A fault for TLC: any group for viewing only makes the level that of a viewer.
GroupLevelLowest(p, view) == IF \E g \in MatchingGroups(p) : view[g] THEN 1 ELSE 2
GroupLevel(p, view) == IF \A g \in MatchingGroups(p) : view[g] THEN 1 ELSE 2

HasAccess(p, viewOnly, view) ==
    \/ IsAdmin(p)
    \/ MatchingGroups(p) # {} /\ RequiredLevel(viewOnly) <= GroupLevel(p, view)

-----------------------------------------------------------------------------
(* Properties                                                              *)

\* A user whose changes came one after another and who was not put in a group
\* twice is in the groups asked for: no removal is forgotten, nor undone by an
\* older array, and the deletion of a group ends every membership of it.
MembershipIsAsAsked ==
    \A p \in Person \ irregular : {g \in Group : InGroup(groupIds[p], g)} = wanted[p]

\* Such a user has exactly the access that the best of the groups asked for
\* gives, by the rows of data_source_groups as they are; groups linked twice
\* with different rights aside.
AccessIsAsAsked ==
    \A p \in Person \ irregular, viewOnly \in BOOLEAN, view \in GroupViews :
        (\A g \in Group : ~(links[g][TRUE] > 0 /\ links[g][FALSE] > 0)) =>
            (HasAccess(p, viewOnly, view)
                <=> \/ AdminGroup \in wanted[p]
                    \/ \E g \in wanted[p] :
                        links[g][FALSE] > 0 \/ (viewOnly /\ links[g][TRUE] > 0))

=============================================================================
