---------------------------- MODULE ResultPages ----------------------------
(***************************************************************************)
(* Showing a large stored result a block at a time.                        *)
(*                                                                         *)
(* The table asks QueryResultPageResource for blocks of rows in whatever   *)
(* order its user scrolls, keeps some and asks again for those it dropped; *)
(* each answer is a slice of the result, filtered and sorted afresh, with  *)
(* the number of rows that match.                                          *)
(***************************************************************************)
EXTENDS Integers, Sequences, FiniteSets

CONSTANTS
    Cell,           \* the values of the column in play, None aside
    None,           \* the empty cell; also: no text to search for
    MaxRows,        \* how many rows a result has at most (bound of the model)
    MaxPageSize,    \* 5000 in the code
    BlockSize,      \* the sizes of block a table may be set to
    InitialRows,    \* 1000: for how many rows the table has room at first, at most
    MaxBlocks       \* 10: how many blocks it keeps without dropping any

ASSUME PagesAssumption ==
    /\ Cell \subseteq Nat
    /\ None \notin Cell
    /\ MaxRows \in Nat
    /\ MaxPageSize \in Nat \ {0}
    /\ BlockSize \subseteq 1..MaxPageSize   \* GridSettings has max={5000}
    /\ InitialRows \in Nat
    /\ MaxBlocks \in Nat

VARIABLES
    result,     \* the cells of the stored rows; a row is known by its number
    view,       \* the table's block size, sort order and search text
    blocks,     \* the row numbers of each block that is loaded
    room,       \* up to which row the table can be scrolled
    lastRow     \* what the table takes for the number of rows; -1: not known

pagesVars == <<result, view, blocks, room, lastRow>>

Column == UNION {[1..n -> Cell \cup {None}] : n \in 0..MaxRows}
View == [size : BlockSize, sort : {"none", "asc", "desc"}, needle : Cell \cup {None}]

PagesTypeOK ==
    /\ result \in Column
    /\ view \in View
    /\ DOMAIN blocks \subseteq 0..(MaxRows + 1)
    /\ \A b \in DOMAIN blocks : blocks[b] \in Seq(1..MaxRows)
    /\ room \in Nat
    /\ lastRow \in -1..MaxRows

\* infiniteInitialRowCount: two blocks, but not more than InitialRows.
InitialRoom == IF 2 * view.size < InitialRows THEN 2 * view.size ELSE InitialRows

PagesInit ==
    /\ result \in Column
    /\ view \in [size : BlockSize, sort : {"none"}, needle : {None}]
    /\ blocks = [b \in {} |-> <<>>]
    /\ room = InitialRoom
    /\ lastRow = -1

-----------------------------------------------------------------------------
(* The server                                                              *)

Matching == {i \in DOMAIN result : view.needle # None => result[i] = view.needle}

\* sort_key(row) = (v is None, _comparable(v)), compared as Python does.
KeyLess(i, j) ==
    \/ result[i] # None /\ result[j] = None
    \/ result[i] # None /\ result[j] # None /\ result[i] < result[j]

\* rows.sort is stable, and reverse=True keeps it so.
Before(i, j) ==
    CASE view.sort = "none" -> i < j
      [] view.sort = "asc"  -> KeyLess(i, j) \/ (~KeyLess(j, i) /\ i < j)
      [] view.sort = "desc" -> KeyLess(j, i) \/ (~KeyLess(i, j) /\ i < j)

\* The n-th row is the one with n - 1 rows before it.
RowsBefore(i) == {j \in Matching : Before(j, i)}
SortedRows == [n \in 1..Cardinality(Matching) |->
                  CHOOSE i \in Matching : Cardinality(RowsBefore(i)) = n - 1]

\* A fault for TLC: the cap is one too low.
ClampTooLow(limit) == IF limit >= MaxPageSize THEN MaxPageSize - 1 ELSE limit
Clamp(limit) == IF limit > MaxPageSize THEN MaxPageSize ELSE limit

\* rows[offset : offset + limit]
Slice(offset, limit) ==
    LET end == offset + Clamp(limit)
    IN  SubSeq(SortedRows, offset + 1, IF end > Len(SortedRows) THEN Len(SortedRows) ELSE end)

-----------------------------------------------------------------------------
(* The table                                                               *)

EndsHere(start, got) == start + Len(got) >= Cardinality(Matching) \/ Len(got) < view.size

\* Once the last row is known, there is room for the rows up to it; until then
\* for one row more than the furthest block seen so far.
RoomAfter(start, got) ==
    IF EndsHere(start, got) THEN Cardinality(Matching)
    ELSE IF lastRow # -1 \/ room > start + view.size THEN room
    ELSE start + view.size + 1

\* getRows for a block that has come into view; if there are MaxBlocks already,
\* blocks out of view may be dropped for it.
GetRows(b, dropped) ==
    LET start == b * view.size
        got == Slice(start, view.size)
    IN  /\ b \notin DOMAIN blocks
        /\ start < room
        /\ Cardinality(DOMAIN blocks) < MaxBlocks => dropped = {}
        /\ blocks' = [c \in (DOMAIN blocks \ dropped) \cup {b} |->
                        IF c = b THEN got ELSE blocks[c]]
        /\ room' = RoomAfter(start, got)
        /\ lastRow' = IF EndsHere(start, got) THEN Cardinality(Matching) ELSE lastRow
        /\ UNCHANGED <<result, view>>

\* A user sorts or searches: the table forgets its blocks.
Rearrange ==
    /\ \E sort \in {"none", "asc", "desc"}, needle \in Cell \cup {None} :
        view' = [view EXCEPT !.sort = sort, !.needle = needle]
    /\ view' # view
    /\ blocks' = [b \in {} |-> <<>>]
    /\ room' = InitialRoom
    /\ lastRow' = -1
    /\ UNCHANGED result

\* There is never room for a block beyond MaxRows + 1.
PagesNext ==
    \/ \E b \in 0..(MaxRows + 1), dropped \in SUBSET DOMAIN blocks : GetRows(b, dropped)
    \/ Rearrange

PagesSpec == PagesInit /\ [][PagesNext]_pagesVars

-----------------------------------------------------------------------------
(* Properties                                                              *)

\* The grid counts its rows from 0 and finds each in the block it belongs to.
Filled == UNION {{b * view.size + i : i \in 0..Len(blocks[b]) - 1} : b \in DOMAIN blocks}
RowAt(n) == blocks[n \div view.size][(n % view.size) + 1]
Complete == lastRow # -1 /\ \A b \in 0..MaxRows : b * view.size < lastRow => b \in DOMAIN blocks

InOrder(i, j) ==
    \/ result[i] = None
    \/ result[j] = None
    \/ CASE view.sort = "none" -> i < j
         [] view.sort = "asc"  -> result[i] <= result[j]
         [] view.sort = "desc" -> result[i] >= result[j]

\* In whatever order blocks are fetched, dropped and fetched again, they fit
\* together: each is full as far as there are rows; at every place stands the
\* row that as many others come before, so the same one whenever it is fetched
\* and never one twice; the values are in the order asked for; and when all is
\* loaded up to what the table takes for the end, no matching row is missing.
EveryRowShownOnce ==
    /\ \A b \in DOMAIN blocks, i \in 0..(view.size - 1) :
          b * view.size + i \in Filled <=> b * view.size + i < Cardinality(Matching)
    /\ \A n \in Filled : RowAt(n) \in Matching /\ Cardinality(RowsBefore(RowAt(n))) = n
    /\ \A m, n \in Filled : m < n => InOrder(RowAt(m), RowAt(n))
    /\ Complete => {RowAt(n) : n \in Filled} = Matching

=============================================================================
