--------------------------- MODULE VersionedEdits ---------------------------
(***************************************************************************)
(* Saving a query or a dashboard that other people may be editing too.     *)
(*                                                                         *)
(* A browser tab sends the version it loaded; the handler loads the row,   *)
(* answers 409 if the versions differ, and the UPDATE that follows carries *)
(* the version of the loaded row in its WHERE clause.  The ORM moves the   *)
(* version of a dashboard with every UPDATE; that of a query is declared   *)
(* version_id_generator=False, and nothing else moves it.                  *)
(***************************************************************************)
EXTENDS Naturals

CONSTANTS
    User,       \* browser tabs, one user each
    Object,     \* rows of queries and dashboards
    NoObject,   \* what a tab shows before it has loaded anything
    Dashboard,  \* the objects whose version the ORM generates
    MaxEdits    \* how many edits are made (bounds the numbers of edits)

ASSUME EditsAssumption ==
    /\ NoObject \notin Object
    /\ Dashboard \subseteq Object
    /\ MaxEdits \in Nat

VARIABLES
    row,        \* the committed rows
    tab,        \* what each tab shows
    request,    \* the request each tab has under way, or its outcome
    edits       \* the number of edits so far; an edit is known by its number

editsVars == <<row, tab, request, edits>>

RowRecord == [content : 0..MaxEdits, version : 1..(MaxEdits + 1), archived : BOOLEAN]
TabRecord == [object : Object \cup {NoObject}, content : 0..MaxEdits, version : 1..(MaxEdits + 1)]
RequestRecord ==
    [pc : {"none", "sent", "loaded", "saved", "refused", "unchanged"},
     kind : {"save", "archive"},
     versioned : BOOLEAN,           \* whether the body has a version
     version : 1..(MaxEdits + 1)]   \* the version of the row the handler loaded

EditsTypeOK ==
    /\ row \in [Object -> RowRecord]
    /\ tab \in [User -> TabRecord]
    /\ request \in [User -> RequestRecord]
    /\ edits \in 0..MaxEdits

EditsInit ==
    /\ row = [o \in Object |-> [content |-> 0, version |-> 1, archived |-> FALSE]]
    /\ tab = [u \in User |-> [object |-> NoObject, content |-> 0, version |-> 1]]
    /\ request = [u \in User |-> [pc |-> "none", kind |-> "save", versioned |-> FALSE, version |-> 1]]
    /\ edits = 0

UnderWay(u) == request[u].pc \in {"sent", "loaded"}
Shown(u) == tab[u].object
Answer(u, outcome) == request' = [request EXCEPT ![u].pc = outcome]

-----------------------------------------------------------------------------
(* The browser                                                             *)

\* GET: the page is loaded, or loaded again.
Open(u, o) ==
    /\ ~UnderWay(u)
    /\ tab' = [tab EXCEPT ![u] = [object |-> o, content |-> row[o].content,
                                  version |-> row[o].version]]
    /\ Answer(u, "none")
    /\ UNCHANGED <<row, edits>>

Send(u, kind, versioned) ==
    /\ ~UnderWay(u)
    /\ Shown(u) # NoObject
    /\ request' = [request EXCEPT ![u].pc = "sent", ![u].kind = kind, ![u].versioned = versioned]
    /\ UNCHANGED <<row, tab, edits>>

\* Publishing a dashboard, and overwriting a query after a 409, omit the version.
SendSave(u) == \E versioned \in BOOLEAN : Send(u, "save", versioned)
SendArchive(u) == Send(u, "archive", FALSE)

-----------------------------------------------------------------------------
(* The handlers                                                            *)

\* A fault for TLC: no version is compared.
StartsBehindNever(u) == FALSE
StartsBehind(u) == request[u].versioned /\ tab[u].version # row[Shown(u)].version

\* Archiving what is archived already changes no column of the row.
NothingToDo(u) == request[u].kind = "archive" /\ row[Shown(u)].archived

\* The handler loads the row and makes sure the tab is not behind.
Load(u) ==
    /\ request[u].pc = "sent"
    /\ \/ StartsBehind(u) /\ Answer(u, "refused")
       \/ ~StartsBehind(u) /\ NothingToDo(u) /\ Answer(u, "unchanged")
       \/ /\ ~StartsBehind(u) /\ ~NothingToDo(u)
          /\ request' = [request EXCEPT ![u].pc = "loaded",
                                        ![u].version = row[Shown(u)].version]
    /\ UNCHANGED <<row, tab, edits>>

\* A fault for TLC: UPDATE ... WHERE id = ..., with no version.
UpdateMatchesAnything(u) == TRUE
UpdateMatches(u) == request[u].version = row[Shown(u)].version

\* A fault for TLC: the handler counts the version up beside the mapper.
NextVersionTwice(o) == row[o].version + 2
NextVersion(o) == IF o \in Dashboard THEN row[o].version + 1 ELSE row[o].version

\* The tab keeps its version unless the body had one: only the fields of the
\* body are taken from the answer.
Write(u) ==
    /\ request[u].pc = "loaded"
    /\ UpdateMatches(u)
    /\ edits < MaxEdits
    /\ edits' = edits + 1
    /\ row' = [row EXCEPT ![Shown(u)].content = edits + 1,
                          ![Shown(u)].version = NextVersion(Shown(u)),
                          ![Shown(u)].archived = @ \/ request[u].kind = "archive"]
    /\ tab' = IF request[u].versioned
              THEN [tab EXCEPT ![u].content = edits + 1, ![u].version = NextVersion(Shown(u))]
              ELSE tab
    /\ Answer(u, "saved")

\* StaleDataError: 409 from a save, 500 from an archiving.
WriteFails(u) ==
    /\ request[u].pc = "loaded"
    /\ ~UpdateMatches(u)
    /\ Answer(u, "refused")
    /\ UNCHANGED <<row, tab, edits>>

EditsNext ==
    \E u \in User :
        \/ \E o \in Object : Open(u, o)
        \/ SendSave(u) \/ SendArchive(u)
        \/ Load(u) \/ Write(u) \/ WriteFails(u)

EditsSpec == EditsInit /\ [][EditsNext]_editsVars

-----------------------------------------------------------------------------
(* Properties                                                              *)

\* A save that carries the version it was made against never replaces content
\* its author had not seen: what the version test and the version in the
\* UPDATE are there for ("we still have to make sure that we're not starting
\* out behind").
NoEditLost ==
    [][\A u \in User : Write(u) /\ request[u].versioned
                           => tab[u].content = row[Shown(u)].content]_editsVars

\* Dashboards keep EditPromise: a versioned save is granted if and only if
\* its author had seen what it replaces, however requests overlap, and whoever
\* publishes, archives or overwrites in between.
AskedBy(u) ==
    CASE request[u].pc = "none"    -> "nothing"
      [] request[u].pc = "saved"   -> "granted"
      [] request[u].pc \in {"refused", "unchanged"} -> "refused"
      [] OTHER -> IF request[u].versioned THEN "replace" ELSE "overwrite"

EditPromises == INSTANCE EditPromise
    WITH content <- [o \in Object |-> row[o].content],
         seen <- [u \in User |-> [object |-> tab[u].object, content |-> tab[u].content]],
         asked <- [u \in User |-> AskedBy(u)]

KeepsEditPromise == EditPromises!Spec

=============================================================================
