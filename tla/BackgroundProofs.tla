-------------------------- MODULE BackgroundProofs --------------------------
(***************************************************************************)
(* Pages of a result, how far counts can go, and the parts together: a     *)
(* behaviour in which the parts run side by side is a behaviour of each.   *)
(***************************************************************************)
EXTENDS MCBackground, VersionedEditsProofs, UserProofs, JobsProofs, TimeProofs

-----------------------------------------------------------------------------
(* Numbers                                                                 *)

LEMMA MultipleAtLeast ==
    ASSUME NEW d \in Nat \ {0}, NEW b \in Nat
    PROVE  b * d \in Nat /\ b <= b * d
<1>1. 1 <= d /\ 1 \in Int /\ d \in Int OBVIOUS
<1>2. 1 * b <= d * b BY <1>1, MultipleGrows
<1>3. 1 * b = b /\ d * b = b * d OBVIOUS
<1>4. b * d \in Nat OBVIOUS
<1> QED BY <1>2, <1>3, <1>4

-----------------------------------------------------------------------------
(* Counting                                                                *)

\* A set grows by one element at most, or loses one.
LEMMA OneMore ==
    ASSUME NEW S, IsFiniteSet(S), NEW x, NEW T, T \subseteq S \cup {x}
    PROVE  /\ IsFiniteSet(T) /\ Cardinality(T) \in Nat /\ Cardinality(S) \in Nat
           /\ Cardinality(T) <= Cardinality(S) + 1
<1>1. IsFiniteSet(S \cup {x}) /\ Cardinality(S) \in Nat
      /\ Cardinality(S \cup {x}) \in {Cardinality(S), Cardinality(S) + 1}
    BY FS_AddElement, FS_CardinalityType
<1>2. IsFiniteSet(T) /\ Cardinality(T) <= Cardinality(S \cup {x}) BY <1>1, FS_Subset
<1> QED BY <1>1, <1>2, FS_CardinalityType

LEMMA OneLess ==
    ASSUME NEW S, IsFiniteSet(S), NEW x \in S, NEW T, T \subseteq S \ {x}
    PROVE  /\ IsFiniteSet(T) /\ Cardinality(T) \in Nat /\ Cardinality(S) \in Nat
           /\ Cardinality(T) + 1 <= Cardinality(S)
<1>1. /\ IsFiniteSet(S \ {x}) /\ Cardinality(S) \in Nat /\ Cardinality(S \ {x}) \in Nat
      /\ Cardinality(S \ {x}) = Cardinality(S) - 1
    BY FS_RemoveElement, FS_CardinalityType
<1>2. IsFiniteSet(T) /\ Cardinality(T) <= Cardinality(S \ {x}) BY <1>1, FS_Subset
<1>3. Cardinality(T) \in Nat BY <1>2, FS_CardinalityType
<1> QED BY <1>1, <1>2, <1>3

LEMMA NoMore ==
    ASSUME NEW S, IsFiniteSet(S), NEW T, T \subseteq S
    PROVE  /\ IsFiniteSet(T) /\ Cardinality(T) \in Nat /\ Cardinality(S) \in Nat
           /\ Cardinality(T) <= Cardinality(S)
BY FS_Subset, FS_CardinalityType

-----------------------------------------------------------------------------
(* Pages                                                                   *)

\* The blocks a table has are the slices of the result as it is filtered and
\* sorted now, and the number of rows it takes for theirs is the right one.
PagesInv ==
    /\ PagesTypeOK
    /\ \A b \in DOMAIN blocks : blocks[b] = Slice(b * view.size, view.size)
    /\ lastRow # -1 => lastRow = Cardinality(Matching)

LEMMA MatchingFacts ==
    ASSUME PagesTypeOK
    PROVE  /\ Len(result) \in 0..MaxRows
           /\ Matching \subseteq 1..Len(result)
           /\ \A i \in Matching : i \in Int /\ result[i] \in Cell \cup {None}
           /\ IsFiniteSet(Matching)
           /\ Cardinality(Matching) \in 0..MaxRows
<1>1. PICK n \in 0..MaxRows : result \in [1..n -> Cell \cup {None}] BY DEF PagesTypeOK, Column
<1>2. MaxRows \in Nat BY PagesAssumption
<1>3. Len(result) = n /\ DOMAIN result = 1..n BY <1>1, <1>2
<1>4. Matching \subseteq 1..n BY <1>3 DEF Matching
<1>5. \A i \in Matching : i \in Int /\ result[i] \in Cell \cup {None} BY <1>1, <1>4
<1>6. IsFiniteSet(1..n) /\ Cardinality(1..n) = IF 1 > n THEN 0 ELSE n - 1 + 1
    BY <1>1, <1>2, FS_Interval
<1>7. IsFiniteSet(Matching) /\ Cardinality(Matching) <= Cardinality(1..n)
    BY <1>4, <1>6, FS_Subset
<1>8. Cardinality(Matching) \in 0..MaxRows BY <1>1, <1>2, <1>6, <1>7, FS_CardinalityType
<1> QED BY <1>1, <1>3, <1>4, <1>5, <1>7, <1>8

\* Before is a strict total order of the rows that match.
LEMMA BeforeOrders ==
    ASSUME PagesTypeOK
    PROVE  \A i, j, k \in Matching :
              /\ ~Before(i, i)
              /\ i # j => Before(i, j) \/ Before(j, i)
              /\ Before(i, j) /\ Before(j, k) => Before(i, k)
<1> SUFFICES ASSUME NEW i \in Matching, NEW j \in Matching, NEW k \in Matching
             PROVE  /\ ~Before(i, i)
                    /\ i # j => Before(i, j) \/ Before(j, i)
                    /\ Before(i, j) /\ Before(j, k) => Before(i, k)
    OBVIOUS
<1>1. i \in Int /\ j \in Int /\ k \in Int BY MatchingFacts
<1> DEFINE u == result[i]
           v == result[j]
           w == result[k]
<1>2. u \in Cell \cup {None} /\ v \in Cell \cup {None} /\ w \in Cell \cup {None}
    BY MatchingFacts
<1> HIDE DEF u, v, w
<1>3. /\ u # None => u \in Int
      /\ v # None => v \in Int
      /\ w # None => w \in Int
    BY <1>2, PagesAssumption
<1>4. CASE view.sort = "none" BY <1>1, <1>4 DEF Before
<1>5. CASE view.sort = "asc" BY <1>1, <1>3, <1>5 DEF Before, KeyLess, u, v, w
<1>6. CASE view.sort = "desc" BY <1>1, <1>3, <1>6 DEF Before, KeyLess, u, v, w
<1> QED BY <1>4, <1>5, <1>6 DEF PagesTypeOK, View

LEMMA BeforeInOrder ==
    ASSUME PagesTypeOK, NEW i \in Matching, NEW j \in Matching, Before(i, j)
    PROVE  InOrder(i, j)
<1>1. i \in Int /\ j \in Int BY MatchingFacts
<1> DEFINE u == result[i]
           v == result[j]
<1>2. u \in Cell \cup {None} /\ v \in Cell \cup {None} BY MatchingFacts
<1> HIDE DEF u, v
<1>3. (u # None => u \in Int) /\ (v # None => v \in Int) BY <1>2, PagesAssumption
<1>4. CASE view.sort = "none" BY <1>1, <1>4 DEF Before, InOrder
<1>5. CASE view.sort = "asc" BY <1>1, <1>3, <1>5 DEF Before, InOrder, KeyLess, u, v
<1>6. CASE view.sort = "desc" BY <1>1, <1>3, <1>6 DEF Before, InOrder, KeyLess, u, v
<1> QED BY <1>4, <1>5, <1>6 DEF PagesTypeOK, View

\* How many rows come before a row is less than their number, and grows with the
\* row; so it tells the rows apart.
LEMMA RankFacts ==
    ASSUME PagesTypeOK
    PROVE  /\ \A i \in Matching : Cardinality(RowsBefore(i)) \in 0..(Cardinality(Matching) - 1)
           /\ \A i, j \in Matching :
                 Before(i, j) => Cardinality(RowsBefore(i)) < Cardinality(RowsBefore(j))
<1>1. IsFiniteSet(Matching) /\ Cardinality(Matching) \in Int BY MatchingFacts
<1>2. ASSUME NEW i \in Matching
      PROVE  /\ i \notin RowsBefore(i)
             /\ IsFiniteSet(RowsBefore(i) \cup {i})
             /\ Cardinality(RowsBefore(i)) \in Nat
             /\ Cardinality(RowsBefore(i) \cup {i}) = Cardinality(RowsBefore(i)) + 1
    <2>1. i \notin RowsBefore(i) BY BeforeOrders DEF RowsBefore
    <2>2. RowsBefore(i) \subseteq Matching BY DEF RowsBefore
    <2>3. IsFiniteSet(RowsBefore(i)) /\ Cardinality(RowsBefore(i)) \in Nat
        BY <1>1, <2>2, FS_Subset, FS_CardinalityType
    <2> QED BY <2>1, <2>3, FS_AddElement
<1>3. ASSUME NEW i \in Matching
      PROVE  Cardinality(RowsBefore(i)) \in 0..(Cardinality(Matching) - 1)
    <2>1. RowsBefore(i) \cup {i} \subseteq Matching BY DEF RowsBefore
    <2>2. Cardinality(RowsBefore(i) \cup {i}) <= Cardinality(Matching) BY <1>1, <2>1, FS_Subset
    <2> QED BY <1>1, <1>2, <2>2
<1>4. ASSUME NEW i \in Matching, NEW j \in Matching, Before(i, j)
      PROVE  Cardinality(RowsBefore(i)) < Cardinality(RowsBefore(j))
    <2>1. RowsBefore(i) \cup {i} \subseteq RowsBefore(j) BY <1>4, BeforeOrders DEF RowsBefore
    <2>2. RowsBefore(j) \subseteq Matching BY DEF RowsBefore
    <2>3. IsFiniteSet(RowsBefore(j)) BY <1>1, <2>2, FS_Subset
    <2>4. Cardinality(RowsBefore(i) \cup {i}) <= Cardinality(RowsBefore(j))
        BY <2>1, <2>3, FS_Subset
    <2>5. /\ Cardinality(RowsBefore(i) \cup {i}) = Cardinality(RowsBefore(i)) + 1
          /\ Cardinality(RowsBefore(i)) \in Nat /\ Cardinality(RowsBefore(j)) \in Nat
        BY <1>2
    <2> QED BY <2>4, <2>5
<1> QED BY <1>3, <1>4

\* SortedRows has every matching row in one place, each before the next.
LEMMA SortedFacts ==
    ASSUME PagesTypeOK
    PROVE  /\ SortedRows \in [1..Cardinality(Matching) -> Matching]
           /\ \A i \in Matching : \E n \in 1..Cardinality(Matching) : SortedRows[n] = i
           /\ \A m, n \in 1..Cardinality(Matching) :
                 m < n => Before(SortedRows[m], SortedRows[n])
           /\ \A n \in 1..Cardinality(Matching) :
                 Cardinality(RowsBefore(SortedRows[n])) = n - 1
<1> DEFINE N == Cardinality(Matching)
           rank == [i \in Matching |-> Cardinality(RowsBefore(i))]
<1>1. N \in Nat /\ IsFiniteSet(Matching) BY MatchingFacts
<1>2. rank \in [Matching -> 0..(N - 1)] BY RankFacts
<1>3. \A i, j \in Matching : rank[i] = rank[j] => i = j
    <2> SUFFICES ASSUME NEW i \in Matching, NEW j \in Matching, i # j PROVE rank[i] # rank[j]
        OBVIOUS
    <2>1. Before(i, j) \/ Before(j, i) BY BeforeOrders
    <2>2. rank[i] < rank[j] \/ rank[j] < rank[i] BY <2>1, RankFacts
    <2>3. rank[i] \in Int /\ rank[j] \in Int BY <1>2
    <2> QED BY <2>2, <2>3
<1>4. IsFiniteSet(0..(N - 1)) /\ Cardinality(0..(N - 1)) = N
    <2>1. 0 \in Int /\ N - 1 \in Int BY <1>1
    <2>2. /\ IsFiniteSet(0..(N - 1))
          /\ Cardinality(0..(N - 1)) = IF 0 > N - 1 THEN 0 ELSE (N - 1) - 0 + 1
        BY <2>1, FS_Interval
    <2> QED BY <1>1, <2>2
<1>5. \A k \in 0..(N - 1) : \E i \in Matching : rank[i] = k
    <2>1. rank \in Injection(Matching, 0..(N - 1)) BY <1>2, <1>3 DEF Injection, IsInjective
    <2>2. rank \in Surjection(Matching, 0..(N - 1)) BY <1>4, <2>1, FS_Injection
    <2> QED BY <2>2 DEF Surjection
<1>6. \A n \in 1..N : SortedRows[n] \in Matching /\ rank[SortedRows[n]] = n - 1
    <2> SUFFICES ASSUME NEW n \in 1..N
                 PROVE  SortedRows[n] \in Matching /\ rank[SortedRows[n]] = n - 1
        OBVIOUS
    <2>1. n - 1 \in 0..(N - 1) BY <1>1
    <2>2. \E i \in Matching : Cardinality(RowsBefore(i)) = n - 1 BY <1>5, <2>1
    <2>3. SortedRows[n] = CHOOSE i \in Matching : Cardinality(RowsBefore(i)) = n - 1
        BY DEF SortedRows
    <2> QED BY <2>2, <2>3
<1>7. SortedRows \in [1..N -> Matching] BY <1>6 DEF SortedRows
<1>10. \A n \in 1..N : Cardinality(RowsBefore(SortedRows[n])) = n - 1 BY <1>6
<1> HIDE DEF rank
<1>8. ASSUME NEW i \in Matching PROVE \E n \in 1..N : SortedRows[n] = i
    <2>1. rank[i] + 1 \in 1..N /\ (rank[i] + 1) - 1 = rank[i] BY <1>1, <1>2
    <2>2. SortedRows[rank[i] + 1] \in Matching /\ rank[SortedRows[rank[i] + 1]] = rank[i]
        BY <1>6, <2>1
    <2> QED BY <1>3, <2>1, <2>2
<1>9. ASSUME NEW m \in 1..N, NEW n \in 1..N, m < n
      PROVE  Before(SortedRows[m], SortedRows[n])
    <2> DEFINE i == SortedRows[m]
               j == SortedRows[n]
    <2>1. i \in Matching /\ j \in Matching /\ rank[i] = m - 1 /\ rank[j] = n - 1 BY <1>6
    <2> HIDE DEF i, j
    <2>2. m \in Int /\ n \in Int BY <1>1
    <2>3. i # j BY <1>9, <2>1, <2>2
    <2>4. Before(j, i) => rank[j] < rank[i] BY <2>1, RankFacts DEF rank
    <2>5. Before(i, j) BY <1>9, <2>1, <2>2, <2>3, <2>4, BeforeOrders
    <2> QED BY <2>5 DEF i, j
<1> QED BY <1>7, <1>8, <1>9, <1>10

\* What a slice within the limit holds.
LEMMA SliceFacts ==
    ASSUME PagesTypeOK, NEW b \in Nat
    PROVE  LET size == view.size
               N == Cardinality(Matching)
           IN  /\ b * size \in Nat /\ size \in Nat \ {0}
               /\ Slice(b * size, size) \in Seq(Matching)
               /\ Len(Slice(b * size, size)) = IF b * size >= N THEN 0
                                               ELSE IF b * size + size > N THEN N - b * size
                                               ELSE size
               /\ \A i \in 1..Len(Slice(b * size, size)) :
                     /\ b * size + i \in 1..N
                     /\ Slice(b * size, size)[i] = SortedRows[b * size + i]
<1> DEFINE size == view.size
           N == Cardinality(Matching)
           start == b * size
           stop == IF start + size > N THEN N ELSE start + size
           s == Slice(start, size)
<1>1. size \in Nat \ {0} /\ size <= MaxPageSize /\ MaxPageSize \in Nat
    <2>1. size \in BlockSize BY DEF PagesTypeOK, View
    <2>2. BlockSize \subseteq 1..MaxPageSize /\ MaxPageSize \in Nat BY PagesAssumption
    <2> HIDE DEF size
    <2>3. size \in 1..MaxPageSize BY <2>1, <2>2
    <2> QED BY <2>2, <2>3
<1>2. N \in Nat /\ SortedRows \in [1..N -> Matching] BY MatchingFacts, SortedFacts
<1>3. SortedRows \in Seq(Matching) /\ Len(SortedRows) = N BY <1>2
<1>4. start \in Nat BY <1>1
<1>5. s = SubSeq(SortedRows, start + 1, stop)
    <2>1. Clamp(size) = size BY <1>1 DEF Clamp
    <2> HIDE DEF start, size, N
    <2> QED BY <1>3, <2>1 DEF Slice
<1> HIDE DEF start, size, N
<1>6. stop \in Nat /\ stop <= N BY <1>1, <1>2, <1>4
<1>7. /\ s \in Seq(Matching)
      /\ Len(s) = IF start + 1 <= stop THEN stop - start ELSE 0
      /\ \A i \in 1..Len(s) : s[i] = SortedRows[start + i]
    <2>1. \A i \in (start + 1)..stop : i \in 1..N /\ SortedRows[i] \in Matching
        BY <1>2, <1>4, <1>6
    <2> HIDE DEF stop, s
    <2>2. s = [i \in 1..(stop - (start + 1) + 1) |-> SortedRows[i + (start + 1) - 1]]
        BY <1>3, <1>4, <1>5, <1>6
    <2>3. \A i \in 1..(stop - start) : /\ i + (start + 1) - 1 = start + i
                                       /\ start + i \in (start + 1)..stop
        BY <1>4, <1>6
    <2>4. stop - (start + 1) + 1 = stop - start BY <1>4, <1>6
    <2>5. s = [i \in 1..(stop - start) |-> SortedRows[start + i]] BY <2>2, <2>3, <2>4
    <2>6. CASE start + 1 <= stop
        <3>1. stop - start \in Nat BY <1>4, <1>6, <2>6
        <3>2. s \in [1..(stop - start) -> Matching] BY <2>1, <2>3, <2>5
        <3> QED BY <2>5, <2>6, <3>1, <3>2
    <2>7. CASE ~(start + 1 <= stop)
        <3>1. 1..(stop - start) = {} BY <1>4, <1>6, <2>7
        <3>2. s = <<>> BY <2>5, <3>1
        <3> QED BY <2>7, <3>2
    <2> QED BY <2>6, <2>7
<1>8. Len(s) = IF start >= N THEN 0 ELSE IF start + size > N THEN N - start ELSE size
    BY <1>1, <1>2, <1>4, <1>7
<1>9. \A i \in 1..Len(s) : start + i \in 1..N BY <1>1, <1>2, <1>4, <1>8
<1> QED BY <1>1, <1>4, <1>7, <1>8, <1>9 DEF start, size, N

\* Blocks hold a row at least, and the room there is at first is a number of rows.
LEMMA RoomTyped == ASSUME view \in View PROVE view.size \in Nat \ {0} /\ InitialRoom \in Nat
<1>1. view.size \in BlockSize BY DEF View
<1>2. BlockSize \subseteq 1..MaxPageSize /\ MaxPageSize \in Nat /\ InitialRows \in Nat
    BY PagesAssumption
<1> DEFINE size == view.size
<1> HIDE DEF size
<1>3. size \in 1..MaxPageSize BY <1>1, <1>2 DEF size
<1>4. size \in Nat \ {0} BY <1>2, <1>3
<1> QED BY <1>2, <1>4 DEF InitialRoom, size

LEMMA PagesInitInv == PagesInit => PagesInv
<1> SUFFICES ASSUME PagesInit PROVE PagesInv OBVIOUS
<1>1. MaxRows \in Nat BY PagesAssumption
<1>2. view \in View BY DEF PagesInit, View
<1>3. room \in Nat BY <1>2, RoomTyped DEF PagesInit
<1> QED BY <1>1, <1>2, <1>3 DEF PagesInit, PagesInv, PagesTypeOK

LEMMA GetRowsInv ==
    ASSUME PagesInv, NEW b \in 0..(MaxRows + 1), NEW dropped \in SUBSET DOMAIN blocks,
           GetRows(b, dropped)
    PROVE  PagesInv'
<1> DEFINE start == b * view.size
           got == Slice(start, view.size)
<1>1. PagesTypeOK BY DEF PagesInv
<1>2. b \in Nat /\ MaxRows \in Nat BY PagesAssumption
<1>3. got \in Seq(Matching) BY <1>1, <1>2, SliceFacts
<1>4. Matching \subseteq 1..MaxRows /\ Cardinality(Matching) \in 0..MaxRows
    <2>1. Len(result) \in 0..MaxRows /\ Matching \subseteq 1..Len(result) BY <1>1, MatchingFacts
    <2>2. 1..Len(result) \subseteq 1..MaxRows BY <1>2, <2>1
    <2> QED BY <1>1, <2>1, <2>2, MatchingFacts
<1>5. got \in Seq(1..MaxRows)
    <2> HIDE DEF got
    <2>1. PICK n \in Nat : got \in [1..n -> Matching] BY <1>3
    <2> DEFINE S == 1..MaxRows
    <2>2. got \in [1..n -> S] BY <1>4, <2>1
    <2> HIDE DEF S
    <2>3. got \in Seq(S) BY <2>1, <2>2
    <2> QED BY <2>3 DEF S
<1>6. /\ blocks' = [c \in (DOMAIN blocks \ dropped) \cup {b} |->
                        IF c = b THEN got ELSE blocks[c]]
      /\ room' = RoomAfter(start, got)
      /\ lastRow' \in {lastRow, Cardinality(Matching)}
      /\ result' = result /\ view' = view
    BY DEF GetRows
<1>7. Matching' = Matching BY <1>6 DEF Matching
<1>8. SortedRows' = SortedRows BY <1>6, <1>7 DEF SortedRows, RowsBefore, Before, KeyLess
<1>9. \A c \in DOMAIN blocks' :
        Slice(c * view.size, view.size)' = Slice(c * view.size, view.size)
    BY <1>6, <1>8 DEF Slice, Clamp
<1> HIDE DEF got
<1>10. PagesTypeOK'
    <2>1. DOMAIN blocks' \subseteq 0..(MaxRows + 1) BY <1>1, <1>6 DEF PagesTypeOK
    <2>2. \A c \in DOMAIN blocks' : blocks'[c] \in Seq(1..MaxRows)
        BY <1>1, <1>5, <1>6 DEF PagesTypeOK
    <2>4. room' \in Nat
        <3>1. view.size \in Nat /\ start \in Nat BY <1>1, <1>2, SliceFacts
        <3>2. Cardinality(Matching) \in Nat /\ room \in Nat BY <1>1, <1>2, <1>4 DEF PagesTypeOK
        <3> HIDE DEF start
        <3> QED BY <1>6, <3>1, <3>2 DEF RoomAfter
    <2>3. lastRow' \in -1..MaxRows BY <1>1, <1>2, <1>4, <1>6 DEF PagesTypeOK
    <2> QED BY <1>1, <1>6, <2>1, <2>2, <2>3, <2>4 DEF PagesTypeOK
<1>11. \A c \in DOMAIN blocks' : blocks'[c] = Slice(c * view.size, view.size)
    BY <1>6 DEF PagesInv, got
<1>12. lastRow' # -1 => lastRow' = Cardinality(Matching) BY <1>6 DEF PagesInv
<1> QED BY <1>6, <1>7, <1>9, <1>10, <1>11, <1>12 DEF PagesInv

LEMMA RearrangeInv == ASSUME PagesInv, Rearrange PROVE PagesInv'
<1>1. PICK sort \in {"none", "asc", "desc"}, needle \in Cell \cup {None} :
          view' = [view EXCEPT !.sort = sort, !.needle = needle]
    BY DEF Rearrange
<1>2. view' \in View BY <1>1 DEF PagesInv, PagesTypeOK, View
<1>3. MaxRows \in Nat BY PagesAssumption
<1>4. blocks' = [b \in {} |-> <<>>] /\ lastRow' = -1 /\ result' = result BY DEF Rearrange
<1>5. room' \in Nat
    <2>1. room' = InitialRoom BY DEF Rearrange
    <2>2. view.size \in Nat /\ InitialRows \in Nat
        BY RoomTyped, PagesAssumption DEF PagesInv, PagesTypeOK
    <2> QED BY <2>1, <2>2 DEF InitialRoom
<1> QED BY <1>2, <1>3, <1>4, <1>5 DEF PagesInv, PagesTypeOK

LEMMA PagesNextInv == PagesInv /\ [PagesNext]_pagesVars => PagesInv'
<1> SUFFICES ASSUME PagesInv, [PagesNext]_pagesVars PROVE PagesInv' OBVIOUS
<1>1. CASE \E b \in 0..(MaxRows + 1), dropped \in SUBSET DOMAIN blocks : GetRows(b, dropped)
    BY <1>1, GetRowsInv
<1>2. CASE Rearrange BY <1>2, RearrangeInv
<1>3. CASE UNCHANGED pagesVars
    <2>1. /\ result' = result /\ view' = view /\ blocks' = blocks
          /\ room' = room /\ lastRow' = lastRow
        BY <1>3 DEF pagesVars
    <2>2. Matching' = Matching BY <2>1 DEF Matching
    <2>3. SortedRows' = SortedRows BY <2>1, <2>2 DEF SortedRows, RowsBefore, Before, KeyLess
    <2>4. \A b \in DOMAIN blocks :
            Slice(b * view.size, view.size)' = Slice(b * view.size, view.size)
        BY <2>1, <2>3 DEF Slice, Clamp
    <2>5. PagesTypeOK' BY <2>1 DEF PagesInv, PagesTypeOK
    <2> QED BY <2>1, <2>2, <2>4, <2>5 DEF PagesInv
<1> QED BY <1>1, <1>2, <1>3 DEF PagesNext

LEMMA PagesInvariance == PagesSpec => []PagesInv
<1> QED BY PagesInitInv, PagesNextInv, PTL DEF PagesSpec

\* Where a loaded block has a place below the number of rows that match, the
\* grid shows the row of that place of the sorted rows, and elsewhere none.
LEMMA ShownAre ==
    ASSUME PagesInv
    PROVE  LET N == Cardinality(Matching)
               size == view.size
           IN  /\ \A n \in Filled : n \in 0..(N - 1) /\ RowAt(n) = SortedRows[n + 1]
               /\ \A b \in DOMAIN blocks, i \in 0..(size - 1) :
                     b * size + i < N => b * size + i \in Filled
               /\ Complete => 0..(N - 1) \subseteq Filled
<1> DEFINE size == view.size
           N == Cardinality(Matching)
<1>1. PagesTypeOK BY DEF PagesInv
<1>2. N \in 0..MaxRows /\ MaxRows \in Nat BY <1>1, MatchingFacts, PagesAssumption
<1>3. size \in Nat \ {0} BY <1>1, <1>2, SliceFacts
<1>4. DOMAIN blocks \subseteq 0..(MaxRows + 1) BY <1>1 DEF PagesTypeOK
<1>5. ASSUME NEW b \in DOMAIN blocks
      PROVE  /\ b \in Nat /\ b * size \in Nat
             /\ Len(blocks[b]) = IF b * size >= N THEN 0
                                 ELSE IF b * size + size > N THEN N - b * size ELSE size
             /\ \A i \in 1..Len(blocks[b]) :
                   b * size + i \in 1..N /\ blocks[b][i] = SortedRows[b * size + i]
    <2>1. b \in Nat BY <1>2, <1>4
    <2>2. blocks[b] = Slice(b * size, size) BY DEF PagesInv
    <2> QED BY <1>1, <2>1, <2>2, SliceFacts
<1>6. ASSUME NEW b \in DOMAIN blocks, NEW i \in 0..(Len(blocks[b]) - 1)
      PROVE  LET n == b * size + i
             IN  n \in 0..(N - 1) /\ RowAt(n) = SortedRows[n + 1]
    <2> DEFINE start == b * size
               n == start + i
    <2>1. /\ b \in Nat /\ start \in Nat
          /\ Len(blocks[b]) = IF start >= N THEN 0 ELSE IF start + size > N THEN N - start ELSE size
          /\ \A k \in 1..Len(blocks[b]) : start + k \in 1..N /\ blocks[b][k] = SortedRows[start + k]
        BY <1>5
    <2> HIDE DEF size, N
    <2>2. i \in 0..(size - 1) /\ i + 1 \in 1..Len(blocks[b])
        <3> HIDE DEF start
        <3> QED BY <1>2, <1>3, <2>1
    <2>3. n \div size = b /\ (n % size) = i
        <3>1. n \in Nat BY <1>3, <2>1, <2>2
        <3>2. n = b * size + i /\ b \in Int BY <2>1
        <3> HIDE DEF n, start
        <3> QED BY ONLY <1>3, <2>2, <3>1, <3>2, DivisionUnique
    <2>4. RowAt(n) = blocks[b][i + 1] BY <2>3 DEF RowAt, size
    <2>5. start + (i + 1) \in 1..N /\ blocks[b][i + 1] = SortedRows[start + (i + 1)] BY <2>1, <2>2
    <2> HIDE DEF start
    <2>6. start + (i + 1) = n + 1 /\ n \in 0..(N - 1) BY <1>2, <1>3, <2>1, <2>2, <2>5
    <2> QED BY <2>4, <2>5, <2>6 DEF start, size, N
<1>7. ASSUME NEW n \in Filled PROVE n \in 0..(N - 1) /\ RowAt(n) = SortedRows[n + 1]
    <2>1. PICK b \in DOMAIN blocks : n \in {b * size + i : i \in 0..(Len(blocks[b]) - 1)}
        BY DEF Filled
    <2>2. PICK i \in 0..(Len(blocks[b]) - 1) : n = b * size + i BY <2>1
    <2> QED BY <1>6, <2>2
<1>8. ASSUME NEW b \in DOMAIN blocks, NEW i \in 0..(size - 1), b * size + i < N
      PROVE  b * size + i \in Filled
    <2> DEFINE start == b * size
    <2>1. /\ start \in Nat /\ start + i < N
          /\ Len(blocks[b]) = IF start >= N THEN 0 ELSE IF start + size > N THEN N - start ELSE size
        BY <1>5, <1>8
    <2> HIDE DEF start, size, N
    <2>2. i \in 0..(Len(blocks[b]) - 1) BY <1>2, <1>3, <1>8, <2>1
    <2>3. start + i \in {start + k : k \in 0..(Len(blocks[b]) - 1)} BY <2>2
    <2> QED BY <2>3 DEF Filled, start, size
<1>9. ASSUME Complete, NEW n \in 0..(N - 1) PROVE n \in Filled
    <2> DEFINE b == n \div size
               i == n % size
               start == b * size
    <2>1. n \in Nat /\ n < N BY <1>2
    <2>2. b \in Nat /\ i \in 0..(size - 1) /\ n = start + i BY <1>3, <2>1, DivisionParts
    <2> HIDE DEF b, i, size, N
    <2>3. start \in Nat /\ start <= n BY <1>3, <2>1, <2>2
    <2>4. b <= start BY <1>3, <2>2, MultipleAtLeast
    <2>5. lastRow = N /\ \A c \in 0..MaxRows : c * size < N => c \in DOMAIN blocks
        BY <1>9 DEF Complete, PagesInv, size, N
    <2> HIDE DEF start
    <2>6. b \in 0..MaxRows /\ start < N BY <1>2, <2>1, <2>2, <2>3, <2>4
    <2>7. b \in DOMAIN blocks BY <2>5, <2>6 DEF start
    <2> QED BY <1>8, <2>1, <2>2, <2>7 DEF start
<1> QED BY <1>7, <1>8, <1>9

\* Whatever the result and in whatever order its blocks are fetched, dropped
\* and fetched again, sorted and searched anew: the blocks that are loaded show
\* the rows of their places, each row at its own and in the order asked for,
\* and all of them when the table has come to the end.
THEOREM RowsAreShownOnce == PagesSpec => []EveryRowShownOnce
<1>1. ASSUME PagesInv PROVE EveryRowShownOnce
    <2> DEFINE N == Cardinality(Matching)
               size == view.size
    <2>1. PagesTypeOK /\ N \in Nat BY <1>1, MatchingFacts, PagesAssumption DEF PagesInv
    <2>2. /\ \A n \in Filled : n \in 0..(N - 1) /\ RowAt(n) = SortedRows[n + 1]
          /\ \A b \in DOMAIN blocks, i \in 0..(size - 1) :
                b * size + i < N => b * size + i \in Filled
          /\ Complete => 0..(N - 1) \subseteq Filled
        BY <1>1, ShownAre
    <2>3. /\ SortedRows \in [1..N -> Matching]
          /\ \A i \in Matching : \E n \in 1..N : SortedRows[n] = i
          /\ \A m, n \in 1..N : m < n => Before(SortedRows[m], SortedRows[n])
          /\ \A n \in 1..N : Cardinality(RowsBefore(SortedRows[n])) = n - 1
        BY <2>1, SortedFacts
    <2>4. ASSUME NEW b \in DOMAIN blocks, NEW i \in 0..(size - 1)
          PROVE  b * size + i \in Filled <=> b * size + i < N
        <3>1. b * size + i \in Filled => b * size + i \in 0..(N - 1) BY <2>2
        <3> HIDE DEF N
        <3>2. \A n \in 0..(N - 1) : n < N BY <2>1
        <3> QED BY <2>2, <3>1, <3>2
    <2>5. ASSUME NEW n \in Filled
          PROVE  RowAt(n) \in Matching /\ Cardinality(RowsBefore(RowAt(n))) = n
        <3>1. n \in 0..(N - 1) /\ RowAt(n) = SortedRows[n + 1] BY <2>2
        <3> HIDE DEF N
        <3>2. n + 1 \in 1..N /\ (n + 1) - 1 = n BY <2>1, <3>1
        <3> QED BY <2>3, <3>1, <3>2
    <2>6. ASSUME NEW m \in Filled, NEW n \in Filled, m < n
          PROVE  InOrder(RowAt(m), RowAt(n))
        <3> DEFINE i == RowAt(m)
                   j == RowAt(n)
        <3>1. /\ m \in 0..(N - 1) /\ i = SortedRows[m + 1]
              /\ n \in 0..(N - 1) /\ j = SortedRows[n + 1]
            BY <2>2
        <3> HIDE DEF i, j, N
        <3>2. m + 1 \in 1..N /\ n + 1 \in 1..N /\ m + 1 < n + 1 BY <2>1, <2>6, <3>1
        <3>3. i \in Matching /\ j \in Matching /\ Before(i, j) BY <2>3, <3>1, <3>2
        <3>4. InOrder(i, j) BY <2>1, <3>3, BeforeInOrder
        <3> QED BY <3>4 DEF i, j
    <2>7. ASSUME Complete PROVE {RowAt(n) : n \in Filled} = Matching
        <3> SUFFICES ASSUME NEW i \in Matching PROVE \E n \in Filled : RowAt(n) = i BY <2>5
        <3>1. PICK n \in 1..N : SortedRows[n] = i BY <2>3
        <3>2. n - 1 \in Filled
            <4>1. 0..(N - 1) \subseteq Filled BY <2>2, <2>7
            <4> HIDE DEF N
            <4>2. n - 1 \in 0..(N - 1) BY <2>1, <3>1
            <4> QED BY <4>1, <4>2
        <3>3. (n - 1) + 1 = n BY <2>1, <3>1
        <3> QED BY <2>2, <3>1, <3>2, <3>3
    <2> QED BY <2>4, <2>5, <2>6, <2>7 DEF EveryRowShownOnce
<1> QED BY <1>1, PagesInvariance, PTL

-----------------------------------------------------------------------------
(* How often arrays hold a group                                           *)

\* Each change adds a group to an array once at most, and what is to be removed
\* was there when it was read.
ArraysBounded ==
    /\ changes \in 0..MaxChanges
    /\ \A p \in Person, g \in Group : groupIds[p][g] \in 0..(changes + 1)
    /\ \A r \in Request, p \in Person, g \in Group : change[r].arrays[p][g] \in 0..changes
    /\ \A r \in Request : change[r].kind \in {"remove", "drop"} =>
        \A p \in change[r].loaded, g \in change[r].groups : change[r].arrays[p][g] > 0

LEMMA ArraysInit ==
    ASSUME Person # {}, MembershipInit
    PROVE  ArraysBounded
<1>1. changes = 0 /\ MaxChanges \in Nat BY MembershipAssumption DEF MembershipInit
<1>2. \A p \in Person, g \in Group : groupIds[p][g] \in {0, 1} BY DEF MembershipInit, IdsOf
<1>3. \A r \in Request : change[r] = NoChange BY DEF MembershipInit
<1>4. NoChange.kind = "none" /\ \A p \in Person, g \in Group : NoChange.arrays[p][g] = 0
    BY DEF NoChange, NoIds, IdsOf
<1> QED BY <1>1, <1>2, <1>3, <1>4 DEF ArraysBounded

LEMMA LoadBounded ==
    ASSUME MembershipInv, ArraysBounded, NEW r \in Request,
           NEW kind \in {"add", "remove", "set", "drop"},
           NEW gs \in SUBSET Group, NEW p \in Person, NEW loaded \in SUBSET Person,
           kind \in {"remove", "drop"} => \A q \in loaded, g \in gs : groupIds[q][g] > 0,
           LoadUsers(r, kind, gs, p, loaded)
    PROVE  ArraysBounded'
<1> DEFINE c == [kind |-> kind, groups |-> gs, person |-> p, loaded |-> loaded,
                 arrays |-> [q \in Person |-> IF q \in loaded THEN groupIds[q] ELSE NoIds]]
<1>1. /\ change' = [change EXCEPT ![r] = c]
      /\ changes < MaxChanges /\ changes' = changes + 1 /\ groupIds' = groupIds
    BY DEF LoadUsers
<1>2. changes \in Nat /\ MaxChanges \in Nat /\ changes' \in 0..MaxChanges
    BY <1>1, MembershipAssumption DEF ArraysBounded
<1>3. \A q \in Person, g \in Group : groupIds[q][g] \in 0..changes'
    BY <1>1, <1>2 DEF ArraysBounded
<1>4. \A q \in Person, g \in Group : c.arrays[q][g] \in 0..changes'
    <2>1. \A q \in Person, g \in Group :
            c.arrays[q][g] = IF q \in loaded THEN groupIds[q][g] ELSE 0
        BY DEF NoIds, IdsOf
    <2> HIDE DEF c
    <2> QED BY <1>1, <1>2, <1>3, <2>1
<1>5. c.kind \in {"remove", "drop"} =>
        \A q \in c.loaded, g \in c.groups : c.arrays[q][g] > 0
    OBVIOUS
<1> HIDE DEF c
<1>6. change'[r] = c /\ \A s \in Request \ {r} : change'[s] = change[s]
    BY <1>1 DEF MembershipInv, MemberTypes
<1>7. \A s \in Request, q \in Person, g \in Group : change'[s].arrays[q][g] \in 0..changes'
    <2>1. \A s \in Request, q \in Person, g \in Group : change[s].arrays[q][g] \in 0..changes'
        BY <1>1, <1>2 DEF ArraysBounded
    <2> QED BY <1>4, <1>6, <2>1
<1>8. \A q \in Person, g \in Group : groupIds'[q][g] \in 0..(changes' + 1)
    BY <1>1, <1>2, <1>3
<1>9. \A s \in Request : change'[s].kind \in {"remove", "drop"} =>
        \A q \in change'[s].loaded, g \in change'[s].groups : change'[s].arrays[q][g] > 0
    BY <1>5, <1>6 DEF ArraysBounded
<1> QED BY <1>2, <1>7, <1>8, <1>9 DEF ArraysBounded

LEMMA CommitBounded ==
    ASSUME Person # {}, MembershipInv, ArraysBounded, NEW r \in Request, CommitUsers(r)
    PROVE  ArraysBounded'
<1>1. /\ change[r].kind # "none"
      /\ groupIds' = [p \in Person |-> IF p \in change[r].loaded THEN Changed(r, p) ELSE groupIds[p]]
      /\ change' = [change EXCEPT ![r] = NoChange] /\ changes' = changes
    BY DEF CommitUsers
<1>2. changes \in Nat BY MembershipAssumption DEF ArraysBounded
<1>3. ASSUME NEW p \in change[r].loaded, NEW g \in Group
      PROVE  Changed(r, p)[g] \in 0..(changes + 1)
    <2> DEFINE read == change[r].arrays[p]
               kind == change[r].kind
               gs == change[r].groups
    <2>1. /\ p \in Person /\ read \in [Group -> Int] /\ gs \in SUBSET Group
          /\ kind \in {"add", "remove", "set", "drop"}
        BY <1>1 DEF MembershipInv, MemberTypes, LooseChange, ArraysOf
    <2>2. read[g] \in 0..changes /\ groupIds[p][g] \in 0..(changes + 1)
        BY <2>1 DEF ArraysBounded
    <2>3. CASE kind = "set"
        <3>1. Changed(r, p) = groupIds[p] \/ Changed(r, p) = IdsOf(gs) BY <2>3 DEF Changed
        <3>2. IdsOf(gs)[g] \in {0, 1} BY DEF IdsOf
        <3> QED BY <1>2, <2>2, <3>1, <3>2
    <2>4. CASE kind # "set"
        <3>1. PICK h \in Group : gs = {h} BY <2>1, <2>4 DEF MembershipInv, ChangesOK, ChangeOK
        <3>2. (CHOOSE x \in gs : TRUE) = h BY <3>1
        <3>3. Changed(r, p) = Shifted(read, h, kind) BY <2>4, <3>2 DEF Changed
        <3>4. /\ Changed(r, p)[h] = IF kind = "add" THEN read[h] + 1 ELSE read[h] - 1
              /\ g # h => Changed(r, p)[g] = read[g]
            BY <2>1, <2>4, <3>3, ArrayFacts
        <3>5. kind # "add" => read[h] > 0 BY <2>1, <2>4, <3>1 DEF ArraysBounded
        <3> HIDE DEF read, kind
        <3>6. CASE g = h BY <1>2, <2>2, <3>4, <3>5, <3>6
        <3>7. CASE g # h BY <1>2, <2>2, <3>4, <3>7
        <3> QED BY <3>6, <3>7
    <2> QED BY <2>3, <2>4
<1>4. \A p \in Person, g \in Group : groupIds'[p][g] \in 0..(changes' + 1)
    BY <1>1, <1>3 DEF ArraysBounded
<1>5. change'[r] = NoChange /\ \A s \in Request \ {r} : change'[s] = change[s]
    BY <1>1 DEF MembershipInv, MemberTypes
<1>6. NoChange.kind = "none" /\ \A p \in Person, g \in Group : NoChange.arrays[p][g] = 0
    BY DEF NoChange, NoIds, IdsOf
<1>7. \A s \in Request, p \in Person, g \in Group : change'[s].arrays[p][g] \in 0..changes'
    BY <1>1, <1>2, <1>5, <1>6 DEF ArraysBounded
<1>8. \A s \in Request : change'[s].kind \in {"remove", "drop"} =>
        \A p \in change'[s].loaded, g \in change'[s].groups : change'[s].arrays[p][g] > 0
    BY <1>5, <1>6 DEF ArraysBounded
<1> QED BY <1>1, <1>4, <1>7, <1>8 DEF ArraysBounded

LEMMA ArraysNext ==
    ASSUME Person # {}, MembershipInv, ArraysBounded, [MembershipNext]_membershipVars
    PROVE  ArraysBounded'
<1>1. ASSUME UNCHANGED <<groupIds, change, changes>> PROVE ArraysBounded'
    BY <1>1 DEF ArraysBounded
<1>2. CASE UNCHANGED membershipVars BY <1>1, <1>2 DEF membershipVars
<1>3. ASSUME NEW r \in Request, CommitUsers(r) PROVE ArraysBounded' BY <1>3, CommitBounded
<1>4. ASSUME NEW r \in Request, NEW g \in Group, LoadDrop(r, g) PROVE ArraysBounded'
    <2>1. NoChange.person \in Person BY NoChangeFacts DEF LooseChange
    <2>2. MembersOf(g) \in SUBSET Person /\ \A q \in MembersOf(g) : groupIds[q][g] > 0
        BY DEF MembersOf, InGroup
    <2> QED BY <1>4, <2>1, <2>2, LoadBounded DEF LoadDrop
<1>5. ASSUME NEW r \in Request, NEW g \in Group, NEW p \in Person, LoadAdd(r, g, p)
      PROVE ArraysBounded'
    BY <1>5, LoadBounded DEF LoadAdd
<1>6. ASSUME NEW r \in Request, NEW g \in Group, NEW p \in Person, LoadRemove(r, g, p)
      PROVE ArraysBounded'
    <2>1. groupIds[p][g] > 0 BY <1>6 DEF LoadRemove, MembersOf, InGroup
    <2> QED BY <1>6, <2>1, LoadBounded DEF LoadRemove
<1>7. ASSUME NEW r \in Request, NEW p \in Person, NEW gs \in SUBSET Group, LoadSet(r, gs, p)
      PROVE ArraysBounded'
    BY <1>7, LoadBounded DEF LoadSet
<1>8. ASSUME NEW g \in Group,
             AddGroup(g) \/ RemoveGroup(g) \/ \E v \in BOOLEAN : UpdateGroupPermission(g, v)
      PROVE ArraysBounded'
    BY <1>1, <1>8 DEF AddGroup, RemoveGroup, UpdateGroupPermission
<1> QED BY <1>2, <1>3, <1>4, <1>5, <1>6, <1>7, <1>8 DEF MembershipNext

\* Groups, requests and arrays stay what they are, whatever is asked for.
THEOREM MembershipTypeCorrect ==
    ASSUME Person # {}
    PROVE  MembershipSpec => []MembershipTypeOK
<1>1. MembershipInit => ArraysBounded BY ArraysInit
<1>2. MembershipInv /\ ArraysBounded /\ [MembershipNext]_membershipVars => ArraysBounded'
    BY ArraysNext
<1>3. MembershipInv /\ ArraysBounded => MembershipTypeOK
    <2> SUFFICES ASSUME MembershipInv, ArraysBounded PROVE MembershipTypeOK OBVIOUS
    <2>1. changes \in Nat /\ changes <= MaxChanges /\ MaxChanges \in Nat
        BY MembershipAssumption DEF ArraysBounded
    <2>2. groupIds \in [Person -> IdArray]
        <3>1. groupIds \in [Person -> [Group -> Int]] BY DEF MembershipInv, MemberTypes, ArraysOf
        <3>2. \A p \in Person, g \in Group : groupIds[p][g] \in 0..(MaxChanges + 1)
            BY <2>1 DEF ArraysBounded
        <3> QED BY <3>1, <3>2 DEF IdArray
    <2>3. ASSUME NEW r \in Request PROVE change[r] \in ChangeRecord
        <3>1. change[r] \in LooseChange BY DEF MembershipInv, MemberTypes
        <3>2. \A p \in Person, g \in Group : change[r].arrays[p][g] \in 0..(MaxChanges + 1)
            BY <2>1 DEF ArraysBounded
        <3>3. change[r].arrays \in [Person -> [Group -> Int]] BY <3>1 DEF LooseChange, ArraysOf
        <3>4. change[r].arrays \in [Person -> IdArray] BY <3>2, <3>3 DEF IdArray
        <3> QED BY <3>1, <3>4 DEF LooseChange, ChangeRecord
    <2>4. change \in [Request -> ChangeRecord] BY <2>3 DEF MembershipInv, MemberTypes
    <2> QED BY <2>2, <2>4 DEF MembershipInv, MemberTypes, MembershipTypeOK, ArraysBounded
<1> QED BY <1>1, <1>2, <1>3, MembershipInvariance, PTL DEF MembershipSpec

-----------------------------------------------------------------------------
(* How many rows grants make                                               *)

\* A grant makes one row at most, and not before it is confirmed.
Unconfirmed == {c \in GrantCall : Granting(c)}
RowsBounded ==
    /\ grants \in 0..MaxGrants
    /\ IsFiniteSet(Unconfirmed)
    /\ \A x \in Pair : rows[x] + Cardinality(Unconfirmed) <= grants

LEMMA RowsBoundedNext ==
    ASSUME GrantsInv, RowsBounded, [GrantsNext]_grantsVars
    PROVE  RowsBounded'
<1>1. grants \in Nat /\ MaxGrants \in Nat /\ \A x \in Pair : rows[x] \in Nat
    BY GrantsAssumption DEF GrantsInv, CountsOK, RowsBounded
<1>2. IsFiniteSet(Unconfirmed) /\ \A x \in Pair : rows[x] + Cardinality(Unconfirmed) <= grants
    BY DEF RowsBounded
<1>3. ASSUME NEW c \in GrantCall, NEW x \in Pair, GrantLookup(c, x) PROVE RowsBounded'
    <2>1. /\ grants < MaxGrants /\ grants' = grants + 1 /\ rows' = rows
          /\ call' = [call EXCEPT ![c] = [pc |-> Lookup(x), pair |-> x]]
        BY <1>3 DEF GrantLookup
    <2>2. Unconfirmed' \subseteq Unconfirmed \cup {c}
        BY <2>1 DEF Unconfirmed, Granting, GrantsInv, CountsOK
    <2>3. /\ IsFiniteSet(Unconfirmed') /\ Cardinality(Unconfirmed') \in Nat
          /\ Cardinality(Unconfirmed) \in Nat
          /\ Cardinality(Unconfirmed') <= Cardinality(Unconfirmed) + 1
        BY <1>2, <2>2, OneMore
    <2>4. \A y \in Pair : rows'[y] + Cardinality(Unconfirmed') <= grants'
        BY <1>1, <1>2, <2>1, <2>3
    <2> QED BY <1>1, <2>1, <2>3, <2>4 DEF RowsBounded
<1>4. ASSUME NEW c \in GrantCall, GrantCommit(c) PROVE RowsBounded'
    <2> DEFINE x == call[c].pair
    <2>1. /\ Granting(c) /\ grants' = grants /\ call' = [call EXCEPT ![c].pc = "idle"]
          /\ rows' = [rows EXCEPT ![x] = IF call[c].pc = "missing" THEN @ + 1 ELSE @]
        BY <1>4 DEF GrantCommit
    <2>2. c \in Unconfirmed /\ Unconfirmed' \subseteq Unconfirmed \ {c}
        BY <2>1 DEF Unconfirmed, Granting, GrantsInv, CountsOK, CallRecord
    <2>3. /\ IsFiniteSet(Unconfirmed') /\ Cardinality(Unconfirmed') \in Nat
          /\ Cardinality(Unconfirmed) \in Nat
          /\ Cardinality(Unconfirmed') + 1 <= Cardinality(Unconfirmed)
        BY <1>2, <2>2, OneLess
    <2>4. \A y \in Pair : rows'[y] \in Nat /\ rows'[y] <= rows[y] + 1
        BY <1>1, <2>1 DEF GrantsInv, CountsOK
    <2>5. \A y \in Pair : rows'[y] + Cardinality(Unconfirmed') <= grants
        BY <1>1, <1>2, <2>3, <2>4
    <2> QED BY <2>1, <2>3, <2>5 DEF RowsBounded
<1>5. ASSUME NEW e \in Grantee, Revoke(e) PROVE RowsBounded'
    <2>1. grants' = grants /\ call' = call /\ \A x \in Pair : rows'[x] \in {0, rows[x]}
        BY <1>5 DEF Revoke
    <2>2. Unconfirmed' = Unconfirmed BY <2>1 DEF Unconfirmed, Granting
    <2>3. Cardinality(Unconfirmed) \in Nat BY <1>2, FS_CardinalityType
    <2>4. \A x \in Pair : rows'[x] + Cardinality(Unconfirmed) <= grants
        BY <1>1, <1>2, <2>1, <2>3
    <2> QED BY <2>1, <2>2, <2>4 DEF RowsBounded
<1>6. CASE UNCHANGED grantsVars
    BY <1>6 DEF grantsVars, RowsBounded, Unconfirmed, Granting
<1> QED BY <1>3, <1>4, <1>5, <1>6 DEF GrantsNext

\* There are never more rows of a grantor and a grantee than grants.
THEOREM GrantsTypeCorrect ==
    ASSUME Pair # {}
    PROVE  GrantsSpec => []GrantsTypeOK
<1>1. GrantsInit => RowsBounded
    <2> SUFFICES ASSUME GrantsInit PROVE RowsBounded OBVIOUS
    <2>1. Unconfirmed = {} BY DEF GrantsInit, Unconfirmed, Granting
    <2>2. IsFiniteSet(Unconfirmed) /\ Cardinality(Unconfirmed) = 0 BY <2>1, FS_EmptySet
    <2> QED BY <2>2, GrantsAssumption DEF GrantsInit, RowsBounded
<1>2. GrantsInv /\ RowsBounded /\ [GrantsNext]_grantsVars => RowsBounded' BY RowsBoundedNext
<1>3. GrantsInv /\ RowsBounded => GrantsTypeOK
    <2> SUFFICES ASSUME GrantsInv, RowsBounded PROVE GrantsTypeOK OBVIOUS
    <2>1. Cardinality(Unconfirmed) \in Nat BY FS_CardinalityType DEF RowsBounded
    <2>2. rows \in [Pair -> Nat] BY DEF GrantsInv, CountsOK
    <2>3. \A x \in Pair : rows[x] \in 0..MaxGrants
        <3> SUFFICES ASSUME NEW x \in Pair PROVE rows[x] \in 0..MaxGrants OBVIOUS
        <3>1. /\ rows[x] \in Nat /\ grants \in 0..MaxGrants
              /\ rows[x] + Cardinality(Unconfirmed) <= grants
            BY <2>2 DEF RowsBounded
        <3> QED BY <2>1, <3>1, GrantsAssumption
    <2>4. rows \in [Pair -> 0..MaxGrants] BY <2>2, <2>3
    <2> QED BY <2>4 DEF GrantsInv, CountsOK, RowsBounded, GrantsTypeOK
<1>4. GrantsSpec => []GrantsInv BY GrantsInitInv, GrantsNextInv, PTL DEF GrantsSpec
<1> QED BY <1>1, <1>2, <1>3, <1>4, PTL DEF GrantsSpec

-----------------------------------------------------------------------------
(* How far counters of explanations go                                     *)

\* A request counts itself once at most, and is let through once at most.
ToCount == {e \in Explanation : explain[e].pc = "bucket"}
NumbersBounded ==
    /\ asked \in 0..MaxAsked
    /\ IsFiniteSet(ToCount)
    /\ \A k \in Asker \X Bucket :
        /\ counter[k].n + Cardinality(ToCount) <= asked
        /\ allowed[k] + Cardinality(ToCount) <= asked
TimesBounded ==
    /\ \A k \in Asker \X Bucket : counter[k].expires \in {Forever} \cup 0..(Ending + CounterLife)
    /\ answer \in {Absent} \cup 0..(Ending + CacheLife)
    /\ \A e \in Explanation : explain[e].since \in 0..Ending

LEMMA NumbersNext ==
    ASSUME Asker # {}, ExplainInv, NumbersBounded, [ExplainNext]_explainVars
    PROVE  NumbersBounded'
<1>1. /\ asked \in Nat /\ MaxAsked \in Nat
      /\ \A k \in Asker \X Bucket : counter[k].n \in Nat /\ allowed[k] \in Nat
    BY ExplainAssumption DEF ExplainInv, LooseTypes, NumbersBounded
<1>2. /\ IsFiniteSet(ToCount)
      /\ \A k \in Asker \X Bucket :
            /\ counter[k].n + Cardinality(ToCount) <= asked
            /\ allowed[k] + Cardinality(ToCount) <= asked
    BY DEF NumbersBounded
<1>3. ASSUME NEW e \in Explanation, NEW a \in Asker, AskFor(e, a) PROVE NumbersBounded'
    <2>1. /\ asked < MaxAsked /\ asked' = asked + 1 /\ UNCHANGED <<counter, allowed>>
          /\ \A d \in Explanation \ {e} : explain'[d] = explain[d]
        BY <1>3 DEF AskFor, ExplainInv, LooseTypes
    <2>2. ToCount' \subseteq ToCount \cup {e} BY <2>1 DEF ToCount
    <2>3. /\ IsFiniteSet(ToCount') /\ Cardinality(ToCount') \in Nat /\ Cardinality(ToCount) \in Nat
          /\ Cardinality(ToCount') <= Cardinality(ToCount) + 1
        BY <1>2, <2>2, OneMore
    <2>4. \A k \in Asker \X Bucket :
            /\ counter[k].n + Cardinality(ToCount') <= asked + 1
            /\ allowed[k] + Cardinality(ToCount') <= asked + 1
        BY <1>1, <1>2, <2>3
    <2> QED BY <1>1, <2>1, <2>3, <2>4 DEF NumbersBounded
<1>4. ASSUME NEW e \in Explanation, Increment(e) PROVE NumbersBounded'
    <2> DEFINE k == KeyOf(e)
    <2>1. /\ explain[e].pc = "bucket" /\ asked' = asked
          /\ counter' = [counter EXCEPT ![k] =
                [n |-> Counted(k), expires |-> IF Live(k) THEN counter[k].expires ELSE Forever]]
          /\ allowed' = [allowed EXCEPT ![k] = allowed[k] + 1] \/ allowed' = allowed
          /\ \E pc \in {"expire", "cache"} : GoesTo(e, pc) \/ Ends(e)
        BY <1>4 DEF Increment
    <2>2. k \in Asker \X Bucket BY KeyFacts DEF ExplainInv
    <2>3. Counted(k) \in {1, counter[k].n + 1} BY DEF Counted
    <2>4. /\ explain'[e].pc # "bucket"
          /\ \A d \in Explanation \ {e} : explain'[d] = explain[d]
        <3>1. PICK pc \in {"expire", "cache"} : GoesTo(e, pc) \/ Ends(e) BY <2>1
        <3> QED BY <3>1, OneRequestMoves DEF ExplainInv
    <2>5. e \in ToCount /\ ToCount' \subseteq ToCount \ {e} BY <2>1, <2>4 DEF ToCount
    <2>6. /\ IsFiniteSet(ToCount') /\ Cardinality(ToCount') \in Nat /\ Cardinality(ToCount) \in Nat
          /\ Cardinality(ToCount') + 1 <= Cardinality(ToCount)
        BY <1>2, <2>5, OneLess
    <2>7. \A l \in Asker \X Bucket :
            /\ counter'[l].n \in {counter[l].n, 1, counter[l].n + 1}
            /\ allowed'[l] \in {allowed[l], allowed[l] + 1}
        BY <2>1, <2>2, <2>3 DEF ExplainInv, LooseTypes
    <2>8. ASSUME NEW l \in Asker \X Bucket
          PROVE  /\ counter'[l].n + Cardinality(ToCount') <= asked
                 /\ allowed'[l] + Cardinality(ToCount') <= asked
        <3> DEFINE n == counter[l].n
                   m == allowed[l]
        <3>1. /\ n \in Nat /\ m \in Nat /\ n + Cardinality(ToCount) <= asked
              /\ m + Cardinality(ToCount) <= asked
              /\ counter'[l].n \in {n, 1, n + 1} /\ allowed'[l] \in {m, m + 1}
            BY <1>1, <1>2, <2>7
        <3> HIDE DEF n, m
        <3> QED BY <1>1, <2>6, <3>1
    <2> QED BY <2>1, <2>6, <2>8 DEF NumbersBounded
<1>5. ASSUME ToCount' \subseteq ToCount, UNCHANGED <<asked, allowed>>,
             \A k \in Asker \X Bucket : counter'[k].n = counter[k].n
      PROVE  NumbersBounded'
    <2>1. /\ IsFiniteSet(ToCount') /\ Cardinality(ToCount') \in Nat /\ Cardinality(ToCount) \in Nat
          /\ Cardinality(ToCount') <= Cardinality(ToCount)
        BY <1>2, <1>5, NoMore
    <2>2. \A k \in Asker \X Bucket :
            /\ counter[k].n + Cardinality(ToCount') <= asked
            /\ allowed[k] + Cardinality(ToCount') <= asked
        BY <1>1, <1>2, <2>1
    <2> QED BY <1>5, <2>1, <2>2 DEF NumbersBounded
<1>6. ASSUME NEW e \in Explanation,
             \/ SetExpiry(e) \/ FailOpen(e) \/ AnswerCached(e) \/ AskModel(e)
             \/ ModelAnswers(e) \/ ExplainFails(e)
      PROVE  NumbersBounded'
    <2>1. \E pc \in {"cache", "call"} : GoesTo(e, pc) \/ Ends(e)
        BY <1>6 DEF SetExpiry, FailOpen, AnswerCached, AskModel, ModelAnswers, ExplainFails
    <2>2. PICK pc \in {"cache", "call"} : GoesTo(e, pc) \/ Ends(e) BY <2>1
    <2>3. /\ explain'[e].pc # "bucket"
          /\ \A d \in Explanation \ {e} : explain'[d] = explain[d]
        BY <2>2, OneRequestMoves DEF ExplainInv
    <2>4. ToCount' \subseteq ToCount BY <2>3 DEF ToCount
    <2>5. UNCHANGED <<asked, allowed>>
        BY <1>6 DEF SetExpiry, FailOpen, AnswerCached, AskModel, ModelAnswers, ExplainFails
    <2>6. \A k \in Asker \X Bucket : counter'[k].n = counter[k].n
        <3>1. CASE SetExpiry(e)
            <4> DEFINE x == IF Live(KeyOf(e)) THEN Expiry(KeyOf(e)) ELSE counter[KeyOf(e)].expires
            <4>1. counter' = [counter EXCEPT ![KeyOf(e)] = [counter[KeyOf(e)] EXCEPT !.expires = x]]
                BY <3>1 DEF SetExpiry, ExplainInv, LooseTypes
            <4> HIDE DEF x
            <4> QED BY <4>1 DEF ExplainInv, LooseTypes
        <3>2. CASE ~SetExpiry(e)
            BY <1>6, <3>2 DEF FailOpen, AnswerCached, AskModel, ModelAnswers, ExplainFails
        <3> QED BY <3>1, <3>2
    <2> QED BY <1>5, <2>4, <2>5, <2>6
<1>7. CASE ExplainTick BY <1>5, <1>7 DEF ExplainTick, ToCount
<1>8. CASE UNCHANGED explainVars BY <1>5, <1>8 DEF explainVars, ToCount
<1> QED BY <1>3, <1>4, <1>6, <1>7, <1>8 DEF ExplainNext

LEMMA TimesNext ==
    ASSUME Asker # {}, ExplainInv, TimesBounded, [ExplainNext]_explainVars
    PROVE  TimesBounded'
<1>1. /\ tick \in 0..Ending /\ Ending \in Nat /\ CounterLife \in Nat /\ CacheLife \in Nat
    BY ExplainAssumption DEF ExplainInv, LooseTypes
<1>2. 0 \in 0..Ending /\ tick + CounterLife \in 0..(Ending + CounterLife)
      /\ tick + CacheLife \in 0..(Ending + CacheLife)
    BY <1>1
<1>3. \A e \in Explanation : explain'[e].since \in {0, tick, explain[e].since}
    <2>1. ASSUME NEW e \in Explanation, NEW pc, GoesTo(e, pc) \/ Ends(e)
          PROVE  \A d \in Explanation : explain'[d].since \in {0, explain[d].since}
        <3>1. CASE GoesTo(e, pc)
            <4>1. explain' = [explain EXCEPT ![e] = [explain[e] EXCEPT !.pc = pc, !.since = 0]]
                BY <3>1 DEF GoesTo, ExplainInv, LooseTypes
            <4> QED BY <4>1 DEF ExplainInv, LooseTypes
        <3>2. CASE Ends(e) BY <3>2 DEF Ends, NoExplanation, ExplainInv, LooseTypes
        <3> QED BY <2>1, <3>1, <3>2
    <2>2. ASSUME NEW e \in Explanation,
                 \/ Increment(e) \/ SetExpiry(e) \/ FailOpen(e) \/ AnswerCached(e) \/ AskModel(e)
                 \/ ModelAnswers(e) \/ ExplainFails(e)
          PROVE  \A d \in Explanation : explain'[d].since \in {0, explain[d].since}
        <3>1. \E pc \in {"expire", "cache", "call"} : GoesTo(e, pc) \/ Ends(e)
            BY <2>2 DEF Increment, SetExpiry, FailOpen, AnswerCached, AskModel, ModelAnswers,
                        ExplainFails
        <3> QED BY <2>1, <3>1
    <2>3. ASSUME NEW e \in Explanation, NEW a \in Asker, AskFor(e, a)
          PROVE  \A d \in Explanation : explain'[d].since \in {tick, explain[d].since}
        BY <2>3 DEF AskFor, ExplainInv, LooseTypes
    <2>4. CASE explain' = explain BY <2>4
    <2>5. CASE ExplainTick BY <2>4, <2>5 DEF ExplainTick
    <2>6. CASE UNCHANGED explainVars BY <2>4, <2>6 DEF explainVars
    <2> QED BY <2>2, <2>3, <2>5, <2>6 DEF ExplainNext
<1>4. answer' \in {answer, tick + CacheLife}
    BY DEF ExplainNext, explainVars, ExplainTick, AskFor, Increment, SetExpiry, FailOpen,
           AnswerCached, AskModel, ModelAnswers, ExplainFails
<1>5. \A k \in Asker \X Bucket :
        counter'[k].expires \in {Forever, tick + CounterLife, counter[k].expires}
    <2>1. CASE counter' = counter BY <2>1
    <2>2. ASSUME NEW e \in Explanation, Increment(e)
          PROVE  \A k \in Asker \X Bucket : counter'[k].expires \in {Forever, counter[k].expires}
        <3> DEFINE x == IF Live(KeyOf(e)) THEN counter[KeyOf(e)].expires ELSE Forever
        <3>1. counter' = [counter EXCEPT ![KeyOf(e)] = [n |-> Counted(KeyOf(e)), expires |-> x]]
            BY <2>2 DEF Increment
        <3>2. x \in {Forever, counter[KeyOf(e)].expires} OBVIOUS
        <3> HIDE DEF x
        <3> QED BY <3>1, <3>2 DEF ExplainInv, LooseTypes
    <2>3. ASSUME NEW e \in Explanation, SetExpiry(e)
          PROVE  \A k \in Asker \X Bucket :
                    counter'[k].expires \in {tick + CounterLife, counter[k].expires}
        <3> DEFINE x == IF Live(KeyOf(e)) THEN tick + CounterLife ELSE counter[KeyOf(e)].expires
        <3>1. counter' = [counter EXCEPT ![KeyOf(e)] = [counter[KeyOf(e)] EXCEPT !.expires = x]]
            BY <2>3 DEF SetExpiry, Expiry, ExplainInv, LooseTypes
        <3>2. x \in {tick + CounterLife, counter[KeyOf(e)].expires} OBVIOUS
        <3> HIDE DEF x
        <3> QED BY <3>1, <3>2 DEF ExplainInv, LooseTypes
    <2> QED BY <2>1, <2>2, <2>3 DEF ExplainNext, explainVars, ExplainTick, AskFor, FailOpen,
               AnswerCached, AskModel, ModelAnswers, ExplainFails
<1> QED BY <1>1, <1>2, <1>3, <1>4, <1>5 DEF TimesBounded

\* Counters never exceed the number of requests, nor times the clock's end by
\* more than what is added to it.
THEOREM ExplainTypeCorrect ==
    ASSUME Asker # {}
    PROVE  ExplainSpec => []ExplainTypeOK
<1>1. ExplainInit => NumbersBounded /\ TimesBounded
    <2> SUFFICES ASSUME ExplainInit PROVE NumbersBounded /\ TimesBounded OBVIOUS
    <2>1. ToCount = {} BY DEF ExplainInit, ToCount, NoExplanation
    <2>2. IsFiniteSet(ToCount) /\ Cardinality(ToCount) = 0 BY <2>1, FS_EmptySet
    <2>3. NumbersBounded BY <2>2, ExplainAssumption DEF ExplainInit, NumbersBounded
    <2>4. TimesBounded BY ExplainAssumption DEF ExplainInit, NoExplanation, TimesBounded
    <2> QED BY <2>3, <2>4
<1>2. ExplainInv /\ NumbersBounded /\ [ExplainNext]_explainVars => NumbersBounded' BY NumbersNext
<1>3. ExplainInv /\ TimesBounded /\ [ExplainNext]_explainVars => TimesBounded' BY TimesNext
<1>4. ExplainInv /\ NumbersBounded /\ TimesBounded => ExplainTypeOK
    <2> SUFFICES ASSUME ExplainInv, NumbersBounded, TimesBounded PROVE ExplainTypeOK OBVIOUS
    <2>1. Cardinality(ToCount) \in Nat BY FS_CardinalityType DEF NumbersBounded
    <2>2. asked \in 0..MaxAsked /\ MaxAsked \in Nat BY ExplainAssumption DEF NumbersBounded
    <2>3. ASSUME NEW k \in Asker \X Bucket
          PROVE  counter[k].n \in 0..MaxAsked /\ allowed[k] \in 0..MaxAsked
        <3> DEFINE n == counter[k].n
                   m == allowed[k]
        <3>1. /\ n \in Nat /\ m \in Nat
              /\ n + Cardinality(ToCount) <= asked /\ m + Cardinality(ToCount) <= asked
            BY DEF NumbersBounded, ExplainInv, LooseTypes
        <3> HIDE DEF n, m
        <3>2. n \in 0..MaxAsked /\ m \in 0..MaxAsked BY <2>1, <2>2, <3>1
        <3> QED BY <3>2 DEF n, m
    <2>4. counter \in [Asker \X Bucket ->
            [n : 0..MaxAsked, expires : {Forever} \cup 0..(Ending + CounterLife)]]
        BY <2>3 DEF ExplainInv, LooseTypes, TimesBounded
    <2>5. allowed \in [Asker \X Bucket -> 0..MaxAsked] BY <2>3 DEF ExplainInv, LooseTypes
    <2>6. explain \in [Explanation ->
            [pc : {"idle", "bucket", "expire", "cache", "call"},
             user : Asker, bucket : Bucket, since : 0..Ending]]
        BY DEF ExplainInv, LooseTypes, TimesBounded
    <2> QED BY <2>2, <2>4, <2>5, <2>6 DEF ExplainInv, LooseTypes, TimesBounded, ExplainTypeOK
<1> QED BY <1>1, <1>2, <1>3, <1>4, ExplainInvariance, PTL DEF ExplainSpec

-----------------------------------------------------------------------------
(* The parts together                                                      *)

\* A behaviour of all parts is one of each, in which the part may stand still: so
\* what is proved of a part holds where the parts are checked together.
THEOREM PartsBehave ==
    BackgroundSpec => /\ EditsSpec /\ PagesSpec /\ TimeSpec /\ AlertsSpec
                      /\ DigestSpec /\ ActiveSpec /\ MembershipSpec /\ GrantsSpec
                      /\ ExplainSpec /\ SchemaSpec /\ PeriodicSpec
<1>1. BackgroundInit => /\ EditsInit /\ PagesInit /\ TimeInit /\ AlertsInit
                        /\ DigestInit /\ ActiveInit /\ MembershipInit /\ GrantsInit
                        /\ ExplainInit /\ SchemaInit /\ PeriodicInit
    BY DEF BackgroundInit
<1>2. [BackgroundNext]_vars =>
        /\ [EditsNext]_editsVars /\ [PagesNext]_pagesVars /\ [TimeNext]_timeVars
        /\ [AlertsNext]_alertsVars /\ [DigestNext]_digestVars /\ [ActiveNext]_activeVars
        /\ [MembershipNext]_membershipVars /\ [GrantsNext]_grantsVars
        /\ [ExplainNext]_explainVars /\ [SchemaNext]_schemaVars /\ [PeriodicNext]_periodicVars
    BY DEF BackgroundNext, KeepOthers, vars
<1> QED
    BY <1>1, <1>2, PTL
       DEF BackgroundSpec, EditsSpec, PagesSpec, TimeSpec, AlertsSpec, DigestSpec, ActiveSpec,
           MembershipSpec, GrantsSpec, ExplainSpec, SchemaSpec, PeriodicSpec

\* No step takes any part out of its types.
THEOREM BackgroundTypesCorrect ==
    ASSUME Alert # {}, Member # {}, Person # {}, Pair # {}, Asker # {}
    PROVE  BackgroundSpec => []BackgroundTypeOK
<1>1. PagesSpec => []PagesTypeOK
    <2>1. PagesInv => PagesTypeOK BY DEF PagesInv
    <2> QED BY <2>1, PagesInvariance, PTL
<1>2. TimeSpec => []TimeTypeOK
    <2>1. TimeInv => TimeTypeOK BY DEF TimeInv
    <2> QED BY <2>1, TimeInvariance, PTL
<1>3. AlertsSpec => []AlertsTypeOK
    <2>1. AlertsInv => AlertsTypeOK BY DEF AlertsInv
    <2> QED BY <2>1, AlertsInitInv, AlertsNextInv, PTL DEF AlertsSpec
<1>4. DigestSpec => []DigestTypeOK
    <2>1. DigestInv => DigestTypeOK BY DEF DigestInv
    <2> QED BY <2>1, DigestInvariance, PTL
<1>5. ActiveSpec => []ActiveTypeOK
    <2>1. ActiveInv => ActiveTypeOK BY DEF ActiveInv
    <2> QED BY <2>1, ActiveInitInv, ActiveNextInv, PTL DEF ActiveSpec
<1>6. SchemaSpec => []SchemaTypeOK
    <2>1. SchemaInv => SchemaTypeOK BY DEF SchemaInv
    <2> QED BY <2>1, SchemaInvariance, PTL
<1>7. PeriodicSpec => []PeriodicTypeOK
    <2>1. PeriodicInv => PeriodicTypeOK BY DEF PeriodicInv
    <2> QED BY <2>1, PeriodicInitInv, PeriodicNextInv, PTL DEF PeriodicSpec
<1>8. MembershipSpec => []MembershipTypeOK BY MembershipTypeCorrect
<1>9. GrantsSpec => []GrantsTypeOK BY GrantsTypeCorrect
<1>10. ExplainSpec => []ExplainTypeOK BY ExplainTypeCorrect
<1>11. /\ EditsTypeOK /\ PagesTypeOK /\ TimeTypeOK /\ AlertsTypeOK
       /\ DigestTypeOK /\ ActiveTypeOK /\ MembershipTypeOK /\ GrantsTypeOK
       /\ ExplainTypeOK /\ SchemaTypeOK /\ PeriodicTypeOK
       => BackgroundTypeOK
    BY DEF BackgroundTypeOK
<1> QED
    BY <1>1, <1>2, <1>3, <1>4, <1>5, <1>6, <1>7, <1>8, <1>9, <1>10, <1>11,
       EditsTypeCorrect, PartsBehave, PTL

=============================================================================
