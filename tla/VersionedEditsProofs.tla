------------------------ MODULE VersionedEditsProofs ------------------------
(***************************************************************************)
(* What VersionedEdits guarantees for any number of users, objects and     *)
(* edits: the types, and, if the version of every object moves with every  *)
(* UPDATE as that of a dashboard does, that no edit is lost and that       *)
(* EditPromise is kept.  For queries both fail: see run QueryVersions.     *)
(***************************************************************************)
EXTENDS VersionedEdits, TLAPS

\* Neither versions nor contents run ahead of the number of edits.
RowOK(o) == row[o].version <= edits + 1 /\ row[o].content <= edits
RowsOK == \A o \in Object : RowOK(o)

\* A tab that shows a dashboard has its version exactly if it has its content.
TabOK(u) ==
    /\ tab[u].content <= edits
    /\ Shown(u) # NoObject =>
        /\ tab[u].version <= row[Shown(u)].version
        /\ Shown(u) \in Dashboard =>
            (tab[u].version = row[Shown(u)].version <=> tab[u].content = row[Shown(u)].content)
TabsOK == \A u \in User : TabOK(u)

\* A versioned request that was not refused was loaded at the version of its tab.
RequestOK(u) ==
    /\ UnderWay(u) => Shown(u) # NoObject
    /\ request[u].kind = "archive" => ~request[u].versioned
    /\ request[u].pc = "loaded" =>
        /\ request[u].version <= row[Shown(u)].version
        /\ request[u].versioned => request[u].version = tab[u].version
RequestsOK == \A u \in User : RequestOK(u)

EditsInv == EditsTypeOK /\ RowsOK /\ TabsOK /\ RequestsOK

-----------------------------------------------------------------------------
(* The invariant                                                           *)

\* Untouched tables start out consistent.
LEMMA EditsInitInv == EditsInit => EditsInv
<1> USE EditsAssumption
<1>1. ASSUME EditsInit PROVE EditsTypeOK
    BY <1>1 DEF EditsInit, EditsTypeOK, RowRecord, TabRecord, RequestRecord
<1>2. ASSUME EditsInit PROVE RowsOK /\ TabsOK /\ RequestsOK
    BY <1>2 DEF EditsInit, RowsOK, RowOK, TabsOK, TabOK, RequestsOK, RequestOK, UnderWay, Shown
<1> QED BY <1>1, <1>2 DEF EditsInv

\* Opening a page gives its tab the version and the content of one row.
LEMMA OpenInv ==
    ASSUME EditsInv, NEW u \in User, NEW o \in Object, Open(u, o)
    PROVE  EditsInv'
<1> USE EditsAssumption
<1>1. row[o] \in RowRecord /\ tab[u] \in TabRecord /\ request[u] \in RequestRecord
    BY DEF EditsInv, EditsTypeOK
<1>2. EditsTypeOK'
    BY <1>1 DEF EditsInv, EditsTypeOK, Open, Answer, RowRecord, TabRecord, RequestRecord
<1>3. RowsOK' BY DEF EditsInv, RowsOK, RowOK, Open
<1>4. TabsOK'
    BY DEF EditsInv, EditsTypeOK, RowsOK, RowOK, TabsOK, TabOK, Shown, Open, RowRecord, TabRecord
<1>5. RequestsOK'
    BY DEF EditsInv, EditsTypeOK, RequestsOK, RequestOK, UnderWay, Shown, Open, Answer
<1> QED BY <1>2, <1>3, <1>4, <1>5 DEF EditsInv

\* A request that is sent has no version loaded yet.
LEMMA SendInv ==
    ASSUME EditsInv, NEW u \in User, SendSave(u) \/ SendArchive(u)
    PROVE  EditsInv'
<1>1. PICK kind \in {"save", "archive"}, versioned \in BOOLEAN :
            Send(u, kind, versioned) /\ (kind = "archive" => ~versioned)
    BY DEF SendSave, SendArchive
<1>2. EditsTypeOK'
    <2>1. request[u] \in RequestRecord BY DEF EditsInv, EditsTypeOK
    <2>2. [request[u] EXCEPT !.pc = "sent", !.kind = kind, !.versioned = versioned]
            \in RequestRecord
        BY <2>1 DEF RequestRecord
    <2>3. request' \in [User -> RequestRecord]
        BY <1>1, <2>2 DEF EditsInv, EditsTypeOK, Send
    <2> QED BY <1>1, <2>3 DEF EditsInv, EditsTypeOK, Send
<1>3. RowsOK' /\ TabsOK'
    BY <1>1 DEF EditsInv, RowsOK, RowOK, TabsOK, TabOK, Shown, Send
<1>4. RequestsOK'
    BY <1>1 DEF EditsInv, EditsTypeOK, RequestsOK, RequestOK, UnderWay, Shown, Send
<1> QED BY <1>2, <1>3, <1>4 DEF EditsInv

\* The version test makes the loaded version that of the tab.
LEMMA LoadInv ==
    ASSUME EditsInv, NEW u \in User, Load(u)
    PROVE  EditsInv'
<1>1. Shown(u) # NoObject /\ Shown(u) \in Object
    BY DEF EditsInv, EditsTypeOK, RequestsOK, RequestOK, UnderWay, Load, Shown, TabRecord
<1>2. row[Shown(u)] \in RowRecord /\ request[u] \in RequestRecord
    BY <1>1 DEF EditsInv, EditsTypeOK
<1>3. EditsTypeOK'
    BY <1>1, <1>2 DEF EditsInv, EditsTypeOK, Load, Answer, RowRecord, RequestRecord
<1>4. RowsOK' /\ TabsOK'
    BY DEF EditsInv, RowsOK, RowOK, TabsOK, TabOK, Shown, Load
<1>5. ASSUME NEW v \in User PROVE RequestOK(v)'
    <2>1. RequestOK(v) /\ tab' = tab /\ row' = row /\ request[v] \in RequestRecord
        BY DEF EditsInv, EditsTypeOK, RequestsOK, Load
    <2>2. CASE v # u
        <3>1. request'[v] = request[v]
            BY <2>2 DEF EditsInv, EditsTypeOK, Load, Answer
        <3> QED BY <2>1, <3>1 DEF RequestOK, UnderWay, Shown
    <2>3. CASE v = u /\ request'[u].pc \in {"refused", "unchanged"}
        <3>1. request'[u].kind = request[u].kind /\ request'[u].versioned = request[u].versioned
            BY <1>2 DEF EditsInv, EditsTypeOK, Load, Answer, RequestRecord
        <3> QED BY <2>1, <2>3, <3>1 DEF RequestOK, UnderWay, Shown
    <2>4. CASE v = u /\ ~StartsBehind(u)
                /\ request' = [request EXCEPT ![u].pc = "loaded",
                                              ![u].version = row[Shown(u)].version]
        <3>1. /\ request'[u].kind = request[u].kind
              /\ request'[u].versioned = request[u].versioned
              /\ request'[u].version = row[Shown(u)].version
            BY <1>2, <2>4 DEF EditsInv, EditsTypeOK, RequestRecord
        <3>2. request[u].versioned => tab[u].version = row[Shown(u)].version
            BY <2>4 DEF StartsBehind
        <3>3. row[Shown(u)].version \in Nat BY <1>2 DEF RowRecord
        <3> QED BY <1>1, <2>1, <2>4, <3>1, <3>2, <3>3 DEF RequestOK, UnderWay, Shown
    <2>5. \/ request'[u].pc \in {"refused", "unchanged"}
          \/ ~StartsBehind(u)
             /\ request' = [request EXCEPT ![u].pc = "loaded",
                                           ![u].version = row[Shown(u)].version]
        BY <1>2 DEF EditsInv, EditsTypeOK, Load, Answer, RequestRecord
    <2> QED BY <2>2, <2>3, <2>4, <2>5
<1> QED BY <1>3, <1>4, <1>5 DEF EditsInv, RequestsOK

\* An UPDATE moves the version of a dashboard beyond what any tab or request
\* has, and gives every object a content that nothing has.
LEMMA WriteInv ==
    ASSUME EditsInv, NEW u \in User, Write(u)
    PROVE  EditsInv'
<1> USE EditsAssumption
<1> DEFINE o == Shown(u)
<1>1. o # NoObject /\ o \in Object
    BY DEF EditsInv, EditsTypeOK, RequestsOK, RequestOK, UnderWay, Write, Shown, TabRecord
<1>2. row[o] \in RowRecord /\ request[u] \in RequestRecord /\ edits \in Nat /\ edits < MaxEdits
    BY <1>1 DEF EditsInv, EditsTypeOK, Write
<1>3. row[o].version <= NextVersion(o) /\ NextVersion(o) <= edits + 2 /\ NextVersion(o) \in Nat
    BY <1>1, <1>2 DEF EditsInv, RowsOK, RowOK, NextVersion, RowRecord
<1>4. /\ row' = [row EXCEPT ![o].content = edits + 1, ![o].version = NextVersion(o),
                            ![o].archived = @ \/ request[u].kind = "archive"]
      /\ tab' = IF request[u].versioned
                THEN [tab EXCEPT ![u].content = edits + 1, ![u].version = NextVersion(o)]
                ELSE tab
      /\ request' = [request EXCEPT ![u].pc = "saved"]
      /\ edits' = edits + 1
    BY DEF Write, Answer
<1>5. EditsTypeOK'
    <2>0. NextVersion(o) \in 1..(MaxEdits + 1) /\ edits + 1 \in 0..MaxEdits
        BY <1>2, <1>3 DEF RowRecord
    <2>1. row' \in [Object -> RowRecord]
        <3> DEFINE isArchived == row[o].archived \/ request[u].kind = "archive"
        <3>1. isArchived \in BOOLEAN OBVIOUS
        <3>2. [row[o] EXCEPT !.content = edits + 1, !.version = NextVersion(o),
                             !.archived = isArchived] \in RowRecord
            <4> HIDE DEF isArchived
            <4> QED BY <1>2, <3>1, <2>0 DEF RowRecord
        <3> QED BY <1>1, <1>4, <3>2 DEF EditsInv, EditsTypeOK
    <2>2. tab' \in [User -> TabRecord]
        <3>1. tab[u] \in TabRecord BY DEF EditsInv, EditsTypeOK
        <3>2. [tab[u] EXCEPT !.content = edits + 1, !.version = NextVersion(o)] \in TabRecord
            BY <3>1, <2>0 DEF TabRecord
        <3>3. CASE request[u].versioned
            <4>1. tab' = [tab EXCEPT ![u].content = edits + 1, ![u].version = NextVersion(o)]
                BY <1>4, <3>3
            <4> QED BY <3>2, <4>1 DEF EditsInv, EditsTypeOK
        <3>4. CASE ~request[u].versioned
            BY <1>4, <3>4 DEF EditsInv, EditsTypeOK
        <3> QED BY <3>3, <3>4
    <2>3. request' \in [User -> RequestRecord]
        BY <1>4 DEF EditsInv, EditsTypeOK, RequestRecord
    <2> QED BY <1>2, <1>4, <2>1, <2>2, <2>3 DEF EditsTypeOK, EditsInv
<1>6. RowsOK'
    BY <1>1, <1>2, <1>3, <1>4 DEF EditsInv, EditsTypeOK, RowsOK, RowOK, RowRecord
<1>7. ASSUME NEW v \in User PROVE TabOK(v)'
    <2>1. tab[v] \in TabRecord /\ TabOK(v) BY DEF EditsInv, EditsTypeOK, TabsOK
    <2>2. CASE v = u /\ request[u].versioned
        <3>1. tab'[v].content = edits + 1 /\ tab'[v].version = NextVersion(o) /\ Shown(v)' = o
            BY <1>4, <2>2 DEF EditsInv, EditsTypeOK, Shown, TabRecord
        <3>2. row'[o].content = edits + 1 /\ row'[o].version = NextVersion(o)
            BY <1>1, <1>4 DEF EditsInv, EditsTypeOK, RowRecord
        <3>3. edits' = edits + 1 BY <1>4
        <3> HIDE DEF o
        <3> QED BY <1>2, <1>3, <3>1, <3>2, <3>3 DEF TabOK
    <2>3. CASE ~(v = u /\ request[u].versioned)
        <3>1. tab'[v] = tab[v] /\ Shown(v)' = Shown(v)
            BY <1>4, <2>3 DEF EditsInv, EditsTypeOK, Shown
        <3>2. CASE Shown(v) = o
            <4>1. row'[o].content = edits + 1 /\ row'[o].version = NextVersion(o)
                BY <1>1, <1>4 DEF EditsInv, EditsTypeOK, RowRecord
            <4>2. tab[v].content <= edits /\ tab[v].version <= row[o].version
                BY <1>1, <2>1, <3>2 DEF TabOK
            <4>3. o \in Dashboard => NextVersion(o) = row[o].version + 1
                BY DEF NextVersion
            <4> QED
                BY <1>1, <1>2, <1>3, <1>4, <2>1, <3>1, <3>2, <4>1, <4>2, <4>3
                DEF TabOK, TabRecord, RowRecord
        <3>3. CASE Shown(v) # o
            <4>1. Shown(v) \in Object => row'[Shown(v)] = row[Shown(v)]
                BY <1>4, <3>3 DEF EditsInv, EditsTypeOK
            <4>2. Shown(v) \in Object \cup {NoObject} BY <2>1 DEF Shown, TabRecord
            <4>3. tab[v].content <= edits + 1
                BY <1>2, <2>1 DEF TabOK, TabRecord
            <4> QED BY <1>4, <2>1, <3>1, <4>1, <4>2, <4>3 DEF TabOK, Shown
        <3> QED BY <3>2, <3>3
    <2> QED BY <2>2, <2>3
<1>8. ASSUME NEW v \in User PROVE RequestOK(v)'
    <2>1. RequestOK(v) /\ Shown(v)' = Shown(v)
        BY <1>4 DEF EditsInv, EditsTypeOK, RequestsOK, Shown, TabRecord
    <2>2. CASE v = u
        BY <1>4, <2>1, <2>2 DEF EditsInv, EditsTypeOK, RequestOK, UnderWay, RequestRecord
    <2>3. CASE v # u
        <3>1. request'[v] = request[v] /\ tab'[v] = tab[v]
            BY <1>4, <2>3 DEF EditsInv, EditsTypeOK
        <3>2. ASSUME request[v].pc = "loaded"
              PROVE  row[Shown(v)].version <= row'[Shown(v)].version
                     /\ row[Shown(v)].version \in Nat /\ row'[Shown(v)].version \in Nat
            <4>1. Shown(v) \in Object
                BY <2>1, <3>2 DEF EditsInv, EditsTypeOK, RequestOK, UnderWay, Shown, TabRecord
            <4>2. row[Shown(v)] \in RowRecord BY <4>1 DEF EditsInv, EditsTypeOK
            <4> QED BY <1>3, <1>4, <4>1, <4>2 DEF EditsInv, EditsTypeOK, RowRecord
        <3>3. request[v] \in RequestRecord BY DEF EditsInv, EditsTypeOK
        <3> QED BY <2>1, <3>1, <3>2, <3>3 DEF RequestOK, UnderWay, RequestRecord
    <2> QED BY <2>2, <2>3
<1> QED BY <1>5, <1>6, <1>7, <1>8 DEF EditsInv, TabsOK, RequestsOK

\* A failed UPDATE only ends its request.
LEMMA WriteFailsInv ==
    ASSUME EditsInv, NEW u \in User, WriteFails(u)
    PROVE  EditsInv'
<1>1. EditsTypeOK'
    BY DEF EditsInv, EditsTypeOK, WriteFails, Answer, RequestRecord
<1>2. RowsOK' /\ TabsOK'
    BY DEF EditsInv, RowsOK, RowOK, TabsOK, TabOK, Shown, WriteFails
<1>3. RequestsOK'
    BY DEF EditsInv, EditsTypeOK, RequestsOK, RequestOK, UnderWay, Shown, WriteFails, Answer
<1> QED BY <1>1, <1>2, <1>3 DEF EditsInv

\* Every step keeps the invariant.
LEMMA EditsNextInv == EditsInv /\ [EditsNext]_editsVars => EditsInv'
<1> SUFFICES ASSUME EditsInv, [EditsNext]_editsVars PROVE EditsInv'
    OBVIOUS
<1>1. CASE UNCHANGED editsVars
    BY <1>1 DEF EditsInv, EditsTypeOK, RowsOK, RowOK, TabsOK, TabOK, RequestsOK, RequestOK,
                UnderWay, Shown, editsVars
<1>2. CASE EditsNext
    BY <1>2, OpenInv, SendInv, LoadInv, WriteInv, WriteFailsInv DEF EditsNext
<1> QED BY <1>1, <1>2

\* The invariant holds in every state, for objects with and without a version
\* that moves.
THEOREM EditsInvariance == EditsSpec => []EditsInv
<1> QED BY EditsInitInv, EditsNextInv, PTL DEF EditsSpec

\* Rows, tabs and requests keep their types: versions in particular stay
\* within the number of edits.
THEOREM EditsTypeCorrect == EditsSpec => []EditsTypeOK
<1>1. EditsInv => EditsTypeOK BY DEF EditsInv
<1> QED BY <1>1, EditsInvariance, PTL

-----------------------------------------------------------------------------
(* Objects whose version moves                                             *)

\* A versioned UPDATE of a dashboard goes through only if its tab has the content.
LEMMA WriterHasSeen ==
    ASSUME EditsInv, NEW u \in User, request[u].pc = "loaded", UpdateMatches(u),
           request[u].versioned, Shown(u) \in Dashboard
    PROVE  tab[u].content = row[Shown(u)].content
<1>1. Shown(u) # NoObject BY DEF EditsInv, RequestsOK, RequestOK, UnderWay
<1> QED BY <1>1 DEF EditsInv, RequestsOK, RequestOK, TabsOK, TabOK, UpdateMatches

\* No edit of a dashboard is lost: a save that carries a version replaces only
\* content its author has seen, for any users, dashboards and edits.
THEOREM DashboardEditsKept ==
    ASSUME Dashboard = Object
    PROVE  EditsSpec => NoEditLost
<1>1. ASSUME EditsInv, NEW u \in User, Write(u), request[u].versioned
      PROVE  tab[u].content = row[Shown(u)].content
    <2>1. Shown(u) \in Object
        BY <1>1 DEF EditsInv, EditsTypeOK, RequestsOK, RequestOK, UnderWay, Write, Shown, TabRecord
    <2> QED BY <1>1, <2>1, WriterHasSeen DEF Write
<1>2. EditsInv =>
        [\A u \in User : Write(u) /\ request[u].versioned
                         => tab[u].content = row[Shown(u)].content]_editsVars
    BY <1>1
<1> QED BY <1>2, EditsInvariance, PTL DEF NoEditLost, EditsSpec

-----------------------------------------------------------------------------
(* Dashboards keep EditPromise: what the tables, the tabs and the requests *)
(* look like to the abstract specification, then one lemma per action.     *)

contentBar == [o \in Object |-> row[o].content]
seenBar == [u \in User |-> [object |-> tab[u].object, content |-> tab[u].content]]
askedBar == [u \in User |-> AskedBy(u)]

\* The step of the abstract specification is found from the three images.
LEMMA OpenLooks ==
    ASSUME EditsInv, NEW u \in User, NEW o \in Object, Open(u, o)
    PROVE  EditPromises!Next
<1>1. ~EditPromises!Pending(u)
    BY DEF EditPromises!Pending, AskedBy, Open, UnderWay, EditsInv, EditsTypeOK, RequestRecord
<1>2. contentBar' = contentBar
    BY DEF Open, contentBar
<1>3. seenBar' = [seenBar EXCEPT ![u] = [object |-> o, content |-> contentBar[o]]]
    BY DEF Open, seenBar, contentBar, EditsInv, EditsTypeOK
<1>4. askedBar' = [askedBar EXCEPT ![u] = "nothing"]
    <2>1. request'[u].pc = "none" /\ \A v \in User \ {u} : request'[v] = request[v]
        BY DEF Open, Answer, EditsInv, EditsTypeOK, RequestRecord
    <2> QED BY <2>1 DEF askedBar, AskedBy
<1>5. EditPromises!Look(u, o)
    BY <1>1, <1>2, <1>3, <1>4 DEF EditPromises!Look, contentBar, seenBar, askedBar
<1> QED BY <1>5 DEF EditPromises!Next

\* Sending a request asks for what its body means.
LEMMA SendAsks ==
    ASSUME EditsInv, NEW u \in User, SendSave(u) \/ SendArchive(u)
    PROVE  EditPromises!Next
<1>1. PICK kind \in {"save", "archive"}, versioned \in BOOLEAN : Send(u, kind, versioned)
    BY DEF SendSave, SendArchive
<1> DEFINE wish == IF versioned THEN "replace" ELSE "overwrite"
<1>2. ~EditPromises!Pending(u) /\ seenBar[u].object # NoObject
    BY <1>1 DEF EditPromises!Pending, AskedBy, Send, UnderWay, Shown, seenBar,
                EditsInv, EditsTypeOK, RequestRecord
<1>3. contentBar' = contentBar /\ seenBar' = seenBar
    BY <1>1 DEF Send, contentBar, seenBar
<1>4. request'[u].pc = "sent" /\ request'[u].versioned = versioned
    BY <1>1 DEF Send, EditsInv, EditsTypeOK, RequestRecord
<1>5. \A v \in User \ {u} : request'[v] = request[v]
    BY <1>1 DEF Send, EditsInv, EditsTypeOK
<1>6. askedBar' = [askedBar EXCEPT ![u] = wish]
    BY <1>4, <1>5 DEF askedBar, AskedBy
<1>7. EditPromises!Ask(u, wish)
    BY <1>2, <1>3, <1>6 DEF EditPromises!Ask, contentBar, seenBar, askedBar
<1> QED BY <1>7 DEF EditPromises!Next

\* What ends a request without an UPDATE, while nothing else changes, refuses
\* it; of a versioned one it has to be known that its tab is behind.
LEMMA EndRefuses ==
    ASSUME EditsInv, NEW u \in User, UnderWay(u), UNCHANGED <<row, tab>>,
           NEW outcome \in {"refused", "unchanged"}, Answer(u, outcome),
           request[u].versioned => tab[u].content # row[Shown(u)].content
    PROVE  EditPromises!Next
<1>1. Shown(u) \in Object
    BY DEF EditsInv, EditsTypeOK, RequestsOK, RequestOK, Shown, TabRecord
<1>2. askedBar[u] = IF request[u].versioned THEN "replace" ELSE "overwrite"
    BY DEF askedBar, AskedBy, UnderWay
<1>3. EditPromises!Pending(u)
    BY <1>2 DEF EditPromises!Pending, askedBar
<1>4. askedBar[u] = "replace" => seenBar[u].content # contentBar[seenBar[u].object]
    BY <1>1, <1>2 DEF seenBar, contentBar, Shown
<1>5. request'[u].pc = outcome /\ \A v \in User \ {u} : request'[v] = request[v]
    BY DEF Answer, EditsInv, EditsTypeOK, RequestRecord
<1>6. askedBar' = [askedBar EXCEPT ![u] = "refused"]
    BY <1>5 DEF askedBar, AskedBy
<1>7. contentBar' = contentBar /\ seenBar' = seenBar
    BY DEF contentBar, seenBar
<1>8. EditPromises!Refuse(u)
    BY <1>3, <1>4, <1>6, <1>7
    DEF EditPromises!Refuse, EditPromises!Shown, contentBar, seenBar, askedBar
<1> QED BY <1>8 DEF EditPromises!Next

\* Loading the row refuses, finds nothing to do, or is not seen at all.
LEMMA LoadRefusesOrStutters ==
    ASSUME EditsInv, Dashboard = Object, NEW u \in User, Load(u)
    PROVE  EditPromises!Next \/ UNCHANGED <<contentBar, seenBar, askedBar>>
<1>1. UnderWay(u) /\ UNCHANGED <<row, tab>> BY DEF UnderWay, Load
<1>2. Shown(u) # NoObject /\ Shown(u) \in Object
    BY <1>1 DEF EditsInv, EditsTypeOK, RequestsOK, RequestOK, Shown, TabRecord
<1>3. CASE StartsBehind(u) /\ Answer(u, "refused")
    <2>1. tab[u].content # row[Shown(u)].content
        BY <1>2, <1>3 DEF StartsBehind, EditsInv, TabsOK, TabOK
    <2> QED BY <1>1, <1>3, <2>1, EndRefuses
<1>4. CASE NothingToDo(u) /\ Answer(u, "unchanged")
    <2>1. ~request[u].versioned BY <1>4 DEF NothingToDo, EditsInv, RequestsOK, RequestOK
    <2> QED BY <1>1, <1>4, <2>1, EndRefuses
<1>5. CASE request' = [request EXCEPT ![u].pc = "loaded", ![u].version = row[Shown(u)].version]
    <2>1. /\ request'[u].pc = "loaded" /\ request[u].pc = "sent"
          /\ request'[u].versioned = request[u].versioned
          /\ \A v \in User \ {u} : request'[v] = request[v]
        BY <1>5 DEF Load, EditsInv, EditsTypeOK, RequestRecord
    <2>2. askedBar' = askedBar BY <2>1 DEF askedBar, AskedBy
    <2> QED BY <1>1, <2>2 DEF contentBar, seenBar
<1> QED BY <1>3, <1>4, <1>5 DEF Load

\* An UPDATE that goes through grants the request: its edit is new, and one that
\* carried a version replaces what its author has seen.
LEMMA WriteGrants ==
    ASSUME EditsInv, Dashboard = Object, NEW u \in User, Write(u)
    PROVE  EditPromises!Next
<1> USE EditsAssumption
<1> DEFINE o == Shown(u)
<1> DEFINE c == edits + 1
<1>1. o # NoObject /\ o \in Object
    BY DEF EditsInv, EditsTypeOK, RequestsOK, RequestOK, UnderWay, Write, Shown, TabRecord
<1>2. askedBar[u] = IF request[u].versioned THEN "replace" ELSE "overwrite"
    BY DEF askedBar, AskedBy, Write
<1>3. request[u].versioned => seenBar[u].content = contentBar[o]
    BY <1>1, WriterHasSeen DEF Write, seenBar, contentBar
<1>4. /\ row' = [row EXCEPT ![o].content = c, ![o].version = NextVersion(o),
                            ![o].archived = @ \/ request[u].kind = "archive"]
      /\ tab' = IF request[u].versioned
                THEN [tab EXCEPT ![u].content = c, ![u].version = NextVersion(o)]
                ELSE tab
      /\ request' = [request EXCEPT ![u].pc = "saved"]
      /\ edits \in Nat /\ c \in 1..MaxEdits
    BY DEF Write, Answer, EditsInv, EditsTypeOK
<1>5. c \notin {contentBar[p] : p \in Object} \cup {seenBar[v].content : v \in User}
    <2>1. \A p \in Object : row[p].content \in Nat /\ row[p].content <= edits
        BY DEF EditsInv, EditsTypeOK, RowsOK, RowOK, RowRecord
    <2>2. \A v \in User : tab[v].content \in Nat /\ tab[v].content <= edits
        BY DEF EditsInv, EditsTypeOK, TabsOK, TabOK, TabRecord
    <2> QED BY <1>4, <2>1, <2>2 DEF contentBar, seenBar
<1>6. contentBar' = [contentBar EXCEPT ![o] = c]
    <2>1. row'[o].content = c /\ \A p \in Object \ {o} : row'[p] = row[p]
        BY <1>1, <1>4 DEF EditsInv, EditsTypeOK, RowRecord
    <2> HIDE DEF o, c
    <2> QED BY <2>1 DEF contentBar
<1>7. seenBar' = IF request[u].versioned THEN [seenBar EXCEPT ![u].content = c] ELSE seenBar
    <2>1. CASE request[u].versioned
        <3>1. /\ tab'[u].content = c /\ tab'[u].object = tab[u].object
              /\ \A v \in User \ {u} : tab'[v] = tab[v]
            BY <1>4, <2>1 DEF EditsInv, EditsTypeOK, TabRecord
        <3> HIDE DEF o, c
        <3> QED BY <2>1, <3>1 DEF seenBar
    <2>2. CASE ~request[u].versioned
        BY <1>4, <2>2 DEF seenBar
    <2> QED BY <2>1, <2>2
<1>8. askedBar' = [askedBar EXCEPT ![u] = "granted"]
    <2>1. request'[u].pc = "saved" /\ \A v \in User \ {u} : request'[v] = request[v]
        BY <1>4 DEF EditsInv, EditsTypeOK, RequestRecord
    <2> QED BY <2>1 DEF askedBar, AskedBy
<1>9. seenBar[u].object = o BY DEF seenBar, Shown
<1>10. EditPromises!Grant(u)
    <2> HIDE DEF o, c
    <2>1. EditPromises!Pending(u) BY <1>2 DEF EditPromises!Pending, askedBar
    <2> QED BY <1>2, <1>3, <1>4, <1>5, <1>6, <1>7, <1>8, <1>9, <2>1
        DEF EditPromises!Grant, EditPromises!Shown, contentBar, seenBar, askedBar
<1> QED BY <1>10 DEF EditPromises!Next

\* An UPDATE that matches no row: somebody else's UPDATE moved the version, so
\* its tab does not have the content any more.
LEMMA WriteFailsRefuses ==
    ASSUME EditsInv, Dashboard = Object, NEW u \in User, WriteFails(u)
    PROVE  EditPromises!Next
<1>1. UnderWay(u) /\ UNCHANGED <<row, tab>> /\ Answer(u, "refused")
    BY DEF UnderWay, WriteFails
<1>2. Shown(u) # NoObject /\ Shown(u) \in Object
    BY <1>1 DEF EditsInv, EditsTypeOK, RequestsOK, RequestOK, Shown, TabRecord
<1>3. request[u].versioned => tab[u].content # row[Shown(u)].content
    BY <1>2 DEF WriteFails, UpdateMatches, EditsInv, RequestsOK, RequestOK, TabsOK, TabOK
<1> QED BY <1>1, <1>3, EndRefuses

\* Saving dashboards keeps EditPromise for any users, dashboards and edits: a
\* versioned save is granted exactly if its author had seen what it replaces.
THEOREM DashboardsKeepEditPromise ==
    ASSUME Dashboard = Object
    PROVE  EditsSpec => KeepsEditPromise
<1>1. EditsInit => EditPromises!Init
    BY DEF EditsInit, EditPromises!Init, AskedBy
<1>2. EditsInv /\ [EditsNext]_editsVars => [EditPromises!Next]_EditPromises!vars
    <2> SUFFICES ASSUME EditsInv, [EditsNext]_editsVars
                 PROVE  EditPromises!Next \/ UNCHANGED <<contentBar, seenBar, askedBar>>
        BY DEF EditPromises!vars, contentBar, seenBar, askedBar
    <2>1. CASE UNCHANGED editsVars
        BY <2>1 DEF editsVars, contentBar, seenBar, askedBar, AskedBy
    <2>2. CASE EditsNext
        BY <2>2, OpenLooks, SendAsks, LoadRefusesOrStutters, WriteGrants, WriteFailsRefuses
        DEF EditsNext
    <2> QED BY <2>1, <2>2
<1> QED BY <1>1, <1>2, EditsInvariance, PTL DEF EditsSpec, KeepsEditPromise, EditPromises!Spec

=============================================================================
