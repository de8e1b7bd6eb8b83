----------------------------- MODULE PagingProofs -----------------------------
(***************************************************************************)
(* What a client is shown by the listings of Paging, for every table, every *)
(* limit and whatever is inserted and deleted between two pages.            *)
(***************************************************************************)
EXTENDS PagingInvariants, FiniteSums, SequenceTheorems

------------------------------------------------------------------------------
(* The answers of a query. *)

\* Rows that an ORDER BY on their identifiers tells apart.
Keyed(rows) ==
  /\ IsFiniteSet(rows)
  /\ \A row \in rows : "uuid" \in DOMAIN row /\ row.uuid \in Nat
  /\ \A a, b \in rows : a.uuid = b.uuid => a = b

Decreasing(rows) == \A i, j \in DOMAIN rows : i < j => rows[i].uuid > rows[j].uuid

\* A sort by identifier has the rows of higher identifiers after those of lower.
LEMMA BeyondInUuid ==
  \A row, cursor : /\ Beyond(row, cursor, ByUuid) <=> row.uuid > cursor.uuid
                   /\ Beyond(row, cursor, Reversed(ByUuid)) <=> row.uuid < cursor.uuid
  <1>1. DOMAIN ByUuid = {1} /\ ByUuid[1] = [field |-> "uuid", direction |-> "ASC"]
    BY DEF ByUuid, Ascending
  <1>2. /\ DOMAIN Reversed(ByUuid) = {1}
        /\ Reversed(ByUuid)[1] = [field |-> "uuid", direction |-> "DESC"]
    BY <1>1 DEF Reversed
  <1>3. ASSUME NEW sorts, NEW sort, DOMAIN sorts = {1}, sorts[1] = sort, NEW row, NEW cursor
        PROVE  Beyond(row, cursor, sorts) <=>
                 IF sort.direction = "ASC" THEN row[sort.field] > cursor[sort.field]
                                           ELSE row[sort.field] < cursor[sort.field]
    <2>1. \A j \in 1..(1 - 1) : FALSE
      OBVIOUS
    <2> QED BY <1>3, <2>1 DEF Beyond
  <1>4. ASSUME NEW row, NEW cursor PROVE Beyond(row, cursor, ByUuid) <=> row.uuid > cursor.uuid
    BY <1>1, <1>3
  <1>5. ASSUME NEW row, NEW cursor
        PROVE  Beyond(row, cursor, Reversed(ByUuid)) <=> row.uuid < cursor.uuid
    BY <1>2, <1>3
  <1> QED BY <1>4, <1>5

\* Every row is somewhere in the answer of a query.
LEMMA OrderedRows ==
  ASSUME NEW rows, IsFiniteSet(rows), NEW sorts, NEW allowed, NEW s \in Ordered(rows, sorts, allowed)
  PROVE  /\ s \in Seq(rows) /\ Len(s) = Cardinality(rows) /\ DOMAIN s = 1..Len(s)
         /\ Len(s) \in Nat
         /\ ToSet(s) = rows
         /\ \A i, j \in DOMAIN s : i # j => s[i] # s[j]
  <1> DEFINE D == 1..Cardinality(rows)
  <1>1. s \in [D -> rows] /\ \A i, j \in D : i # j => s[i] # s[j]
    BY DEF Ordered, SetToSeqs
  <1>2. Cardinality(rows) \in Nat
    BY FS_CardinalityType
  <1>3. s \in Seq(rows) /\ Len(s) = Cardinality(rows) /\ DOMAIN s = D
    BY <1>1, <1>2
  <1>4. IsFiniteSet(D) /\ Cardinality(D) = Cardinality(rows)
    BY <1>2, FS_Interval
  <1>5. s \in Injection(D, rows)
    BY <1>1 DEF Injection, IsInjective
  <1>6. s \in Surjection(D, rows)
    BY <1>4, <1>5, FS_Injection
  <1>7. ToSet(s) = rows
    BY <1>1, <1>3, <1>6 DEF Surjection, ToSet
  <1> QED BY <1>1, <1>2, <1>3, <1>7

\* By identifier there is one order.
LEMMA OrderedByUuid ==
  ASSUME NEW rows, Keyed(rows), NEW allowed, "uuid" \in allowed
  PROVE  /\ \A s \in Ordered(rows, ByUuid, allowed) : Increasing(s)
         /\ \A s \in Ordered(rows, Reversed(ByUuid), allowed) : Decreasing(s)
  <1> DEFINE Sortable(row) == [field \in DOMAIN row |-> IF field \in allowed THEN row[field] ELSE 0]
  <1>1. \A row \in rows : Sortable(row).uuid = row.uuid
    BY DEF Keyed
  <1>2. ASSUME NEW sorts, NEW s \in Ordered(rows, sorts, allowed),
               NEW i \in DOMAIN s, NEW j \in DOMAIN s, i < j
        PROVE  /\ s[i] \in rows /\ s[j] \in rows /\ s[i].uuid # s[j].uuid
               /\ ~Beyond(Sortable(s[i]), Sortable(s[j]), sorts)
    <2>1. /\ s \in Seq(rows) /\ DOMAIN s = 1..Len(s) /\ Len(s) \in Nat
          /\ s[i] # s[j]
      BY <1>2, OrderedRows DEF Keyed
    <2>2. s[i] \in rows /\ s[j] \in rows
      BY <2>1, ElementOfSeq
    <2>3. i \in 1..(j - 1)
      BY <1>2, <2>1
    <2> QED BY <2>1, <2>2, <2>3 DEF Ordered, Keyed
  <1>3. ASSUME NEW s \in Ordered(rows, ByUuid, allowed), NEW i \in DOMAIN s, NEW j \in DOMAIN s, i < j
        PROVE  s[i].uuid < s[j].uuid
    <2>1. /\ s[i] \in rows /\ s[j] \in rows /\ s[i].uuid # s[j].uuid
          /\ ~Beyond(Sortable(s[i]), Sortable(s[j]), ByUuid)
      BY <1>2, <1>3
    <2>2. Sortable(s[i]).uuid = s[i].uuid /\ Sortable(s[j]).uuid = s[j].uuid
      BY <1>1, <2>1
    <2> HIDE DEF Sortable
    <2>3. ~(s[i].uuid > s[j].uuid)
      BY <2>1, <2>2, BeyondInUuid
    <2> QED BY <2>1, <2>3 DEF Keyed
  <1>4. ASSUME NEW s \in Ordered(rows, Reversed(ByUuid), allowed),
               NEW i \in DOMAIN s, NEW j \in DOMAIN s, i < j
        PROVE  s[i].uuid > s[j].uuid
    <2>1. /\ s[i] \in rows /\ s[j] \in rows /\ s[i].uuid # s[j].uuid
          /\ ~Beyond(Sortable(s[i]), Sortable(s[j]), Reversed(ByUuid))
      BY <1>2, <1>4
    <2>2. Sortable(s[i]).uuid = s[i].uuid /\ Sortable(s[j]).uuid = s[j].uuid
      BY <1>1, <2>1
    <2> HIDE DEF Sortable
    <2>3. ~(s[i].uuid < s[j].uuid)
      BY <2>1, <2>2, BeyondInUuid
    <2> QED BY <2>1, <2>3 DEF Keyed
  <1> QED BY <1>3, <1>4 DEF Increasing, Decreasing

\* A page is a segment of the answer.
LEMMA CutFacts ==
  ASSUME NEW S, NEW s \in Seq(S), NEW from \in Nat, NEW n \in Nat,
         NEW last, last = IF from + n < Len(s) THEN from + n ELSE Len(s)
  PROVE  /\ Cut(s, from, n) \in Seq(S)
         /\ Len(Cut(s, from, n)) = IF from < last THEN last - from ELSE 0
         /\ \A k \in 1..Len(Cut(s, from, n)) : Cut(s, from, n)[k] = s[from + k]
         /\ Len(Cut(s, from, n)) <= n
  <1>1. Len(s) \in Nat /\ last \in Nat /\ last <= Len(s) /\ last <= from + n
    BY LenProperties
  <1>2. \A i \in (from + 1)..last : s[i] \in S
    BY <1>1, ElementOfSeq
  <1>3. /\ SubSeq(s, from + 1, last) \in Seq(S)
        /\ Len(SubSeq(s, from + 1, last)) = IF from + 1 <= last THEN last - (from + 1) + 1 ELSE 0
        /\ \A i \in 1..(last - (from + 1) + 1) : SubSeq(s, from + 1, last)[i] = s[from + 1 + i - 1]
    <2> QED BY <1>1, <1>2, SubSeqProperties
  <1>4. Cut(s, from, n) = SubSeq(s, from + 1, last)
    BY DEF Cut
  <1> DEFINE cut == Cut(s, from, n)
  <1>5. Len(cut) = IF from < last THEN last - from ELSE 0
    <2> HIDE DEF cut
    <2> QED BY <1>1, <1>3, <1>4 DEF cut
  <1>6. ASSUME NEW k \in 1..Len(cut) PROVE cut[k] = s[from + k]
    <2> HIDE DEF cut
    <2>1. from + 1 <= last /\ k \in 1..(last - (from + 1) + 1) /\ from + 1 + k - 1 = from + k
      BY <1>1, <1>5
    <2> QED BY <1>3, <1>4, <2>1 DEF cut
  <1>7. Len(cut) <= n
    <2> HIDE DEF cut
    <2> QED BY <1>1, <1>5
  <1> QED BY <1>3, <1>4, <1>5, <1>6, <1>7

\* The first rows of an answer.
LEMMA FirstCut ==
  ASSUME NEW S, NEW s \in Seq(S), NEW n \in Nat
  PROVE  /\ Cut(s, 0, n) \in Seq(S)
         /\ Len(Cut(s, 0, n)) = IF n < Len(s) THEN n ELSE Len(s)
         /\ \A k \in 1..Len(Cut(s, 0, n)) : Cut(s, 0, n)[k] = s[k]
  <1> DEFINE last == IF 0 + n < Len(s) THEN 0 + n ELSE Len(s)
  <1>1. last = IF 0 + n < Len(s) THEN 0 + n ELSE Len(s)
    OBVIOUS
  <1>2. 0 \in Nat /\ last \in Nat /\ last = IF n < Len(s) THEN n ELSE Len(s)
    BY LenProperties
  <1>3. Len(s) \in Nat
    BY LenProperties
  <1> HIDE DEF last
  <1>4. /\ Cut(s, 0, n) \in Seq(S) /\ Len(Cut(s, 0, n)) = IF 0 < last THEN last - 0 ELSE 0
        /\ \A k \in 1..Len(Cut(s, 0, n)) : Cut(s, 0, n)[k] = s[0 + k]
    BY <1>1, <1>2, CutFacts
  <1>5. Len(Cut(s, 0, n)) = last
    BY <1>2, <1>4
  <1>6. ASSUME NEW k \in 1..Len(Cut(s, 0, n)) PROVE Cut(s, 0, n)[k] = s[k]
    <2>1. 0 + k = k
      BY <1>2, <1>5
    <2> QED BY <1>4, <2>1
  <1> QED BY <1>2, <1>4, <1>5, <1>6

------------------------------------------------------------------------------
(* The pages of the cart. *)

\* The tables have finitely many rows, told apart by their identifiers.
LEMMA ItemsAreKeyed ==
  /\ \A rows \in SUBSET Item : Keyed(rows)
  /\ \A rows \in SUBSET Products : Keyed(rows)
  <1>1. ASSUME NEW rows \in SUBSET Item PROVE Keyed(rows)
    BY RowAssumption, FS_Subset DEF Keyed
  <1>2. ASSUME NEW rows \in SUBSET Products PROVE Keyed(rows)
    BY RowAssumption, FS_Subset DEF Keyed
  <1> QED BY <1>1, <1>2

\* Limits are numbers, and one row more than the limit is taken at least.
LEMMA LimitFacts ==
  ASSUME NEW limit \in Nat \cup {Absent}
  PROVE  Limit(limit) \in Nat /\ Taken(limit) \in Nat /\ Limit(limit) < Taken(limit)
  <1>1. Base \in Nat /\ Base >= 2 /\ DefaultTake \in Nat
    BY PageSizeAssumption
  <1>2. CASE limit = Absent
    BY <1>1, <1>2 DEF Limit, Taken
  <1>3. CASE limit \in Nat /\ limit # Absent
    <2>1. Base * limit \in Nat /\ Base * limit >= limit
      BY <1>1, <1>3
    <2> QED BY <1>3, <2>1 DEF Limit, Taken
  <1> QED BY <1>2, <1>3

\* Of the rows in front of the limit none is lost, and one that is dropped shows
\* that there are more.
LEMMA KeptFacts ==
  ASSUME NEW S, NEW s \in Seq(S), NEW limit \in Nat \cup {Absent}
  PROVE  LET found == Cut(s, 0, Taken(limit))
             kept == Kept(found, limit) IN
         /\ kept \in Seq(S) /\ Len(kept) \in Nat /\ Len(kept) <= Len(s)
         /\ Len(kept) <= Taken(limit) - 1
         /\ \A k \in 1..Len(kept) : kept[k] = s[k]
         /\ (Len(found) > Limit(limit)) <=> (Len(kept) < Len(s))
  <1> DEFINE found == Cut(s, 0, Taken(limit))
             kept == Kept(found, limit)
             n == Taken(limit)
             last == IF n < Len(s) THEN n ELSE Len(s)
  <1>1. /\ Limit(limit) \in Nat /\ n \in Nat /\ Limit(limit) < n
        /\ Len(s) \in Nat
    BY LimitFacts, LenProperties
  <1>2. /\ found \in Seq(S) /\ Len(found) = last
        /\ \A k \in 1..last : found[k] = s[k]
    <2> HIDE DEF found
    <2>0. 0 \in Nat /\ 0 + n = n
      BY <1>1
    <2>1. /\ found \in Seq(S) /\ Len(found) = IF 0 < last THEN last - 0 ELSE 0
          /\ \A k \in 1..Len(found) : found[k] = s[0 + k]
      <3> HIDE DEF last, n
      <3>1. last = IF 0 + n < Len(s) THEN 0 + n ELSE Len(s)
        BY <2>0 DEF last
      <3>2. 0 \in Nat
        OBVIOUS
      <3>3. /\ Cut(s, 0, n) \in Seq(S) /\ Len(Cut(s, 0, n)) = IF 0 < last THEN last - 0 ELSE 0
            /\ \A k \in 1..Len(Cut(s, 0, n)) : Cut(s, 0, n)[k] = s[0 + k]
        BY <1>1, <3>1, <3>2, CutFacts
      <3> QED BY <3>3 DEF found, n
    <2>2. last \in Nat
      BY <1>1
    <2> HIDE DEF last, n
    <2> QED BY <2>1, <2>2
  <1>3. last \in Nat /\ last <= Len(s) /\ last <= n
    BY <1>1
  <1>4. CASE last > Limit(limit)
    <2>1. kept = SubSeq(found, 1, last - 1)
      BY <1>2, <1>4 DEF Kept, Front
    <2> HIDE DEF last, n, found, kept
    <2>2. \A i \in 1..(last - 1) : found[i] \in S
      BY <1>2, <1>3, ElementOfSeq
    <2>3. /\ kept \in Seq(S) /\ Len(kept) = last - 1
          /\ \A i \in 1..(last - 1) : kept[i] = found[1 + i - 1]
      BY <1>1, <1>3, <1>4, <2>1, <2>2, SubSeqProperties
    <2>4. \A i \in 1..(last - 1) : kept[i] = s[i]
      BY <1>2, <1>3, <2>3
    <2> QED BY <1>1, <1>2, <1>3, <1>4, <2>3, <2>4 DEF n, found, kept
  <1>5. CASE ~(last > Limit(limit))
    <2>1. kept = found
      BY <1>2, <1>5 DEF Kept
    <2>2. last = Len(s)
      BY <1>1, <1>5
    <2> HIDE DEF last, found, kept
    <2> QED BY <1>1, <1>2, <1>3, <1>5, <2>1, <2>2 DEF found, kept
  <1> QED BY <1>4, <1>5

\* The items of the cart that a request asks for.
Asked(next, previous) ==
  {i \in Mine : IF previous # {} THEN \A c \in previous : i.uuid < c.uuid
                                 ELSE \A c \in next : i.uuid > c.uuid}

\* The page that is made of the rows s.
IsPageOf(a, s, limit, next, previous) ==
  LET found == Cut(s, 0, Taken(limit))
      hasMore == Len(found) > Limit(limit)
  IN /\ a.status = 200 /\ a.data = InOrder(Kept(found, limit), previous # {})
     /\ a.hasNextPage <=> hasMore \/ (previous # {} /\ next # {})
     /\ a.hasPreviousPage <=> IF previous # {} THEN hasMore ELSE next # {}
     /\ a.next = IF a.hasNextPage /\ a.data # <<>>
                 THEN {EncodeCursor(Last(a.data), ByUuid)} ELSE {}
     /\ a.previous = IF a.hasPreviousPage /\ a.data # <<>>
                     THEN {EncodeCursor(Head(a.data), ByUuid)} ELSE {}

\* A request for the cart that does not fail is answered by such a page.
LEMMA CartQuery ==
  ASSUME NEW limit, limit # NotANumeral, NEW next, NEW previous,
         NEW a \in FindCartItems(limit, next, previous)
  PROVE  \E s \in Ordered(Asked(next, previous),
                          IF previous # {} THEN Reversed(ByUuid) ELSE ByUuid, {"createdAt", "uuid"}) :
           IsPageOf(a, s, limit, next, previous)
  <1> DEFINE filters == {[field |-> "cartId", operator |-> "eq", value |-> MyCart]}
             sorts == IF previous # {} THEN Reversed(ByUuid) ELSE ByUuid
             cursors == IF previous # {} THEN previous ELSE next
             matching == {row \in Filtered(Present, filters, {"cartId"}) :
                            \A cursor \in cursors : Beyond(row, cursor, sorts)}
  <1>1. ~IsRefused(filters, {"cartId"})
    BY DEF IsRefused
  <1>2. Filtered(Present, filters, {"cartId"}) = Mine
    BY DEF Filtered, Satisfies, Mine
  <1>3. matching = Asked(next, previous)
    <2> HIDE DEF filters
    <2>1. CASE previous # {}
      BY <1>2, <2>1, BeyondInUuid DEF Asked
    <2>2. CASE previous = {}
      BY <1>2, <2>2, BeyondInUuid DEF Asked
    <2> QED BY <2>1, <2>2
  <1> DEFINE Page(found) ==
               LET hasMore == Len(found) > Limit(limit)
                   data == InOrder(Kept(found, limit), previous # {})
                   hasNext == hasMore \/ (previous # {} /\ next # {})
                   hasPrevious == IF previous # {} THEN hasMore ELSE next # {}
               IN [status |-> 200, data |-> data, totalPages |-> 0,
                   hasNextPage |-> hasNext, hasPreviousPage |-> hasPrevious,
                   next |-> IF hasNext /\ data # <<>>
                            THEN {EncodeCursor(Last(data), ByUuid)} ELSE {},
                   previous |-> IF hasPrevious /\ data # <<>>
                                THEN {EncodeCursor(Head(data), ByUuid)} ELSE {}]
             pages == {Page(Cut(s, 0, Taken(limit))) : s \in Ordered(matching, sorts, {"createdAt", "uuid"})}
  <1>a. FindCartItems(limit, next, previous) =
          IF limit = NotANumeral THEN {Failed(500)}
          ELSE IF IsRefused(filters, {"cartId"}) THEN {Failed(400)} ELSE pages
    BY DEF FindCartItems, BuildQueryWithCursor, ByUuid
  <1>4. PICK s \in Ordered(matching, sorts, {"createdAt", "uuid"}) : a = Page(Cut(s, 0, Taken(limit)))
    <2> HIDE DEF matching, sorts, filters, Page
    <2> QED BY <1>1, <1>a
  <1> DEFINE found == Cut(s, 0, Taken(limit))
             hasMore == Len(found) > Limit(limit)
             data == InOrder(Kept(found, limit), previous # {})
  <1> HIDE DEF matching
  <1>5. s \in Ordered(Asked(next, previous), sorts, {"createdAt", "uuid"})
    BY <1>3
  <1>6. /\ a.status = 200 /\ a.data = data
        /\ a.hasNextPage <=> hasMore \/ (previous # {} /\ next # {})
        /\ a.hasPreviousPage <=> IF previous # {} THEN hasMore ELSE next # {}
        /\ a.next = IF a.hasNextPage /\ data # <<>>
                    THEN {EncodeCursor(Last(data), ByUuid)} ELSE {}
        /\ a.previous = IF a.hasPreviousPage /\ data # <<>>
                        THEN {EncodeCursor(Head(data), ByUuid)} ELSE {}
    <2> HIDE DEF hasMore, data
    <2> QED BY <1>4 DEF data, hasMore
  <1>7. IsPageOf(a, s, limit, next, previous)
    BY <1>6 DEF IsPageOf
  <1> QED BY <1>5, <1>7

\* A cursor is the identifier of its row.
LEMMA CursorFacts == \A row : EncodeCursor(row, ByUuid).uuid = row.uuid
  <1>1. {ByUuid[i].field : i \in DOMAIN ByUuid} = {"uuid"}
    <2>1. DOMAIN ByUuid = {1} /\ ByUuid[1].field = "uuid"
      BY DEF ByUuid, Ascending
    <2> QED BY <2>1
  <1> QED BY <1>1 DEF EncodeCursor

\* What a page of the cart shows of the items that were asked for: nothing of
\* them is lost before the limit, forwards or backwards.
LEMMA CartPage ==
  ASSUME NEW limit \in Nat \cup {Absent}, NEW next, NEW previous,
         NEW a \in FindCartItems(limit, next, previous)
  PROVE  LET rows == Asked(next, previous) IN
         /\ a.status = 200 /\ a.data \in Seq(rows) /\ Increasing(a.data)
         /\ Len(a.data) <= Taken(limit) - 1
         /\ CursorsOf(a)
         /\ previous = {} => \A i \in rows :
              i \in ToSet(a.data) \/ (a.hasNextPage /\ \A c \in a.next : i.uuid > c.uuid)
         /\ previous # {} => \A i \in rows :
              i \in ToSet(a.data) \/ (a.hasPreviousPage /\ \A c \in a.previous : i.uuid < c.uuid)
  <1> DEFINE rows == Asked(next, previous)
             sorts == IF previous # {} THEN Reversed(ByUuid) ELSE ByUuid
  <1>1. limit # NotANumeral
    BY DEF Absent, NotANumeral
  <1>2. rows \subseteq Item /\ Keyed(rows)
    BY ItemsAreKeyed DEF Asked, Mine, Present
  <1>3. PICK s \in Ordered(rows, sorts, {"createdAt", "uuid"}) :
           IsPageOf(a, s, limit, next, previous)
    BY <1>1, CartQuery
  <1> DEFINE kept == Kept(Cut(s, 0, Taken(limit)), limit)
             more == Len(Cut(s, 0, Taken(limit))) > Limit(limit)
  <1>4. /\ a.status = 200 /\ a.data = InOrder(kept, previous # {})
        /\ a.hasNextPage <=> more \/ (previous # {} /\ next # {})
        /\ a.hasPreviousPage <=> IF previous # {} THEN more ELSE next # {}
        /\ a.next = IF a.hasNextPage /\ a.data # <<>>
                    THEN {EncodeCursor(Last(a.data), ByUuid)} ELSE {}
        /\ a.previous = IF a.hasPreviousPage /\ a.data # <<>>
                        THEN {EncodeCursor(Head(a.data), ByUuid)} ELSE {}
    BY <1>3 DEF IsPageOf
  <1>5. /\ s \in Seq(rows) /\ Len(s) \in Nat /\ DOMAIN s = 1..Len(s)
        /\ \A i \in rows : \E k \in 1..Len(s) : i = s[k]
    BY <1>2, OrderedRows DEF Keyed, ToSet
  <1>6. /\ kept \in Seq(rows) /\ Len(kept) \in Nat /\ Len(kept) <= Len(s)
        /\ Len(kept) <= Taken(limit) - 1
        /\ \A k \in 1..Len(kept) : kept[k] = s[k]
        /\ more <=> (Len(kept) < Len(s))
    <2> HIDE DEF rows
    <2> QED BY <1>5, KeptFacts
  <1>7. /\ \A k \in 1..Len(s) : s[k] \in rows /\ s[k].uuid \in Nat
        /\ previous = {} => Increasing(s)
        /\ previous # {} => Decreasing(s)
    <2>1. \A k \in 1..Len(s) : s[k] \in rows /\ s[k].uuid \in Nat
      BY <1>2, <1>5, ElementOfSeq DEF Keyed
    <2> HIDE DEF rows
    <2> QED BY <1>2, <1>3, <2>1, OrderedByUuid
  <1> HIDE DEF rows, kept, more
  <1>8. CursorsOf(a)
    <2>1. \A c \in a.next : a.data # <<>> /\ c = EncodeCursor(Last(a.data), ByUuid)
      BY <1>4
    <2>2. \A c \in a.previous : a.data # <<>> /\ c = EncodeCursor(Head(a.data), ByUuid)
      BY <1>4
    <2>3. AtMostOne(a.next) /\ AtMostOne(a.previous)
      BY <1>4 DEF AtMostOne
    <2> QED BY <2>1, <2>2, <2>3, CursorFacts DEF CursorsOf
  <1>9. CASE previous = {}
    <2>1. a.data = kept
      BY <1>4, <1>9 DEF InOrder
    <2>2. Increasing(kept)
      <3>1. DOMAIN kept = 1..Len(kept) /\ 1..Len(kept) \subseteq DOMAIN s
        BY <1>5, <1>6
      <3> QED BY <1>6, <1>7, <1>9, <3>1 DEF Increasing
    <2>3. ASSUME NEW i \in rows, i \notin ToSet(kept)
          PROVE  a.hasNextPage /\ \A c \in a.next : i.uuid > c.uuid
      <3>1. PICK k \in 1..Len(s) : i = s[k]
        BY <1>5
      <3>2. DOMAIN kept = 1..Len(kept)
        BY <1>6
      <3>3. Len(kept) < k
        BY <1>5, <1>6, <2>3, <3>1, <3>2 DEF ToSet
      <3>4. a.hasNextPage
        BY <1>4, <1>5, <1>6, <3>3
      <3>5. ASSUME NEW c \in a.next PROVE i.uuid > c.uuid
        <4>1. kept # <<>> /\ c.uuid = kept[Len(kept)].uuid
          BY <1>8, <2>1, <3>5 DEF CursorsOf, Last
        <4>2. Len(kept) \in 1..Len(kept)
          BY <1>6, <4>1, EmptySeq
        <4>3. c.uuid = s[Len(kept)].uuid
          BY <1>6, <4>1, <4>2
        <4>4. s[Len(kept)].uuid < s[k].uuid
          <5>1. Len(kept) \in DOMAIN s /\ k \in DOMAIN s
            BY <1>5, <1>6, <4>2
          <5> QED BY <1>7, <1>9, <3>3, <5>1 DEF Increasing
        <4> QED BY <1>6, <1>7, <3>1, <4>2, <4>3, <4>4
      <3> QED BY <3>4, <3>5
    <2> QED BY <1>4, <1>6, <1>8, <1>9, <2>1, <2>2, <2>3 DEF rows
  <1>10. CASE previous # {}
    <2> DEFINE n == Len(kept)
               data == Reverse(kept)
    <2>1. a.data = data
      BY <1>4, <1>10 DEF InOrder
    <2>2. data = [k \in 1..n |-> kept[(n - k) + 1]]
      BY DEF Reverse
    <2>3. /\ data \in Seq(rows) /\ Len(data) = n /\ DOMAIN data = 1..n
          /\ \A k \in 1..n : data[k] = kept[(n - k) + 1] /\ (n - k) + 1 \in 1..n
      <3>1. \A k \in 1..n : (n - k) + 1 \in 1..n
        BY <1>6
      <3>2. \A k \in 1..n : kept[(n - k) + 1] \in rows
        BY <1>6, <3>1, ElementOfSeq
      <3>3. data \in [1..n -> rows]
        BY <2>2, <3>2
      <3> HIDE DEF data
      <3> QED BY <1>6, <2>2, <3>1, <3>3
    <2> HIDE DEF data
    <2>4. Increasing(data)
      <3>1. ASSUME NEW i \in 1..n, NEW j \in 1..n, i < j PROVE data[i].uuid < data[j].uuid
        <4>1. /\ (n - i) + 1 \in 1..n /\ (n - j) + 1 \in 1..n /\ (n - j) + 1 < (n - i) + 1
              /\ data[i] = s[(n - i) + 1] /\ data[j] = s[(n - j) + 1]
          <5>1. /\ (n - i) + 1 \in 1..n /\ (n - j) + 1 \in 1..n
                /\ data[i] = kept[(n - i) + 1] /\ data[j] = kept[(n - j) + 1]
            BY <2>3
          <5>2. (n - j) + 1 < (n - i) + 1
            BY <1>6, <3>1
          <5> QED BY <1>6, <5>1, <5>2
        <4>2. (n - i) + 1 \in DOMAIN s /\ (n - j) + 1 \in DOMAIN s
          BY <1>5, <1>6, <4>1
        <4>3. s[(n - j) + 1].uuid > s[(n - i) + 1].uuid
          BY <1>7, <1>10, <4>1, <4>2 DEF Decreasing
        <4> QED BY <1>5, <1>7, <4>1, <4>2, <4>3
      <3> QED BY <2>3, <3>1 DEF Increasing
    <2>5. ASSUME NEW i \in rows, i \notin ToSet(data)
          PROVE  a.hasPreviousPage /\ \A c \in a.previous : i.uuid < c.uuid
      <3>1. PICK k \in 1..Len(s) : i = s[k]
        BY <1>5
      <3>2. n < k
        <4> SUFFICES ASSUME ~(n < k) PROVE FALSE
          OBVIOUS
        <4>1. k \in 1..n /\ (n - k) + 1 \in 1..n /\ (n - ((n - k) + 1)) + 1 = k
          BY <1>5, <1>6
        <4>2. data[(n - k) + 1] = i
          BY <1>6, <2>3, <3>1, <4>1
        <4> QED BY <2>3, <2>5, <4>1, <4>2 DEF ToSet
      <3>3. a.hasPreviousPage
        BY <1>4, <1>5, <1>6, <1>10, <3>2
      <3>4. ASSUME NEW c \in a.previous PROVE i.uuid < c.uuid
        <4>1. data # <<>> /\ c.uuid = Head(data).uuid
          BY <1>8, <2>1, <3>4 DEF CursorsOf
        <4>2. n \in 1..n /\ 1 \in 1..n /\ (n - 1) + 1 = n
          BY <1>6, <2>3, <4>1, EmptySeq
        <4>3. c.uuid = s[n].uuid
          BY <1>6, <2>3, <4>1, <4>2
        <4>4. s[n].uuid > s[k].uuid
          <5>1. n \in DOMAIN s /\ k \in DOMAIN s
            BY <1>5, <1>6, <4>2
          <5> QED BY <1>7, <1>10, <3>2, <5>1 DEF Decreasing
        <4> QED BY <1>5, <1>6, <1>7, <3>1, <4>2, <4>3, <4>4
      <3> QED BY <3>3, <3>4
    <2> QED BY <1>4, <1>6, <1>8, <1>10, <2>1, <2>3, <2>4, <2>5 DEF rows
  <1> QED BY <1>9, <1>10

\* Two increasing sequences, one behind the other, are one.
LEMMA JoinFacts ==
  ASSUME NEW S, \A x \in S : x.uuid \in Nat, NEW s \in Seq(S), NEW t \in Seq(S),
         Increasing(s), Increasing(t),
         \A i \in DOMAIN s, j \in DOMAIN t : s[i].uuid < t[j].uuid
  PROVE  /\ s \o t \in Seq(S) /\ Increasing(s \o t)
         /\ ToSet(s \o t) = ToSet(s) \cup ToSet(t)
  <1> DEFINE st == s \o t
             m == Len(s)
             n == Len(t)
  <1>1. /\ m \in Nat /\ n \in Nat /\ DOMAIN s = 1..m /\ DOMAIN t = 1..n
    BY LenProperties
  <1>2. /\ st \in Seq(S) /\ Len(st) = m + n
        /\ \A i \in 1..(m + n) : st[i] = IF i <= m THEN s[i] ELSE t[i - m]
    BY ConcatProperties
  <1>3. DOMAIN st = 1..(m + n)
    BY <1>1, <1>2, LenProperties
  <1> HIDE DEF st
  <1>4. ASSUME NEW i \in 1..(m + n), NEW j \in 1..(m + n), i < j PROVE st[i].uuid < st[j].uuid
    <2>1. CASE j <= m
      <3>1. i \in DOMAIN s /\ j \in DOMAIN s /\ st[i] = s[i] /\ st[j] = s[j]
        BY <1>1, <1>2, <1>4, <2>1
      <3> QED BY <1>4, <3>1 DEF Increasing
    <2>2. CASE i <= m /\ m < j
      <3>1. i \in DOMAIN s /\ j - m \in DOMAIN t /\ st[i] = s[i] /\ st[j] = t[j - m]
        BY <1>1, <1>2, <1>4, <2>2
      <3> QED BY <3>1
    <2>3. CASE m < i
      <3>1. /\ i - m \in DOMAIN t /\ j - m \in DOMAIN t /\ i - m < j - m
            /\ st[i] = t[i - m] /\ st[j] = t[j - m]
        BY <1>1, <1>2, <1>4, <2>3
      <3> QED BY <3>1 DEF Increasing
    <2> QED BY <1>1, <1>4, <2>1, <2>2, <2>3
  <1>5. Increasing(st)
    BY <1>3, <1>4 DEF Increasing
  <1>6. ToSet(st) = ToSet(s) \cup ToSet(t)
    <2>1. ASSUME NEW x \in ToSet(st) PROVE x \in ToSet(s) \cup ToSet(t)
      <3>1. PICK i \in 1..(m + n) : x = st[i]
        BY <1>3, <2>1 DEF ToSet
      <3>2. CASE i <= m
        <4>1. i \in DOMAIN s /\ x = s[i]
          BY <1>1, <1>2, <3>1, <3>2
        <4> QED BY <4>1 DEF ToSet
      <3>3. CASE m < i
        <4>1. i - m \in DOMAIN t /\ x = t[i - m]
          BY <1>1, <1>2, <3>1, <3>3
        <4> QED BY <4>1 DEF ToSet
      <3> QED BY <1>1, <3>2, <3>3
    <2>2. ASSUME NEW x \in ToSet(s) PROVE x \in ToSet(st)
      <3>1. PICK i \in 1..m : x = s[i]
        BY <1>1, <2>2 DEF ToSet
      <3>2. i \in DOMAIN st /\ st[i] = x
        BY <1>1, <1>2, <1>3, <3>1
      <3> QED BY <3>2 DEF ToSet
    <2>3. ASSUME NEW x \in ToSet(t) PROVE x \in ToSet(st)
      <3>1. PICK i \in 1..n : x = t[i]
        BY <1>1, <2>3 DEF ToSet
      <3>2. i + m \in 1..(m + n) /\ ~(i + m <= m) /\ (i + m) - m = i
        BY <1>1
      <3>3. i + m \in DOMAIN st /\ st[i + m] = x
        BY <1>2, <1>3, <3>1, <3>2
      <3> QED BY <3>3 DEF ToSet
    <2> QED BY <2>1, <2>2, <2>3
  <1> QED BY <1>2, <1>5, <1>6 DEF st

\* The last row of an increasing sequence is its greatest, the first its least.
LEMMA EndFacts ==
  ASSUME NEW S, \A x \in S : x.uuid \in Nat, NEW s \in Seq(S), Increasing(s), s # <<>>
  PROVE  /\ Last(s) \in S /\ Head(s) \in S
         /\ \A k \in DOMAIN s : s[k].uuid <= Last(s).uuid /\ Head(s).uuid <= s[k].uuid
  <1>1. Len(s) \in Nat \ {0} /\ DOMAIN s = 1..Len(s)
    BY EmptySeq, LenProperties
  <1>2. Len(s) \in 1..Len(s) /\ 1 \in 1..Len(s)
    BY <1>1
  <1>3. Last(s) = s[Len(s)] /\ Head(s) = s[1]
    BY <1>1, HeadTailProperties DEF Last
  <1>4. \A k \in 1..Len(s) : s[k] \in S /\ s[k].uuid \in Nat
    BY ElementOfSeq
  <1>5. ASSUME NEW k \in DOMAIN s
        PROVE  s[k].uuid <= s[Len(s)].uuid /\ s[1].uuid <= s[k].uuid
    <2>1. k = Len(s) \/ s[k].uuid < s[Len(s)].uuid
      BY <1>1, <1>2 DEF Increasing
    <2>2. k = 1 \/ s[1].uuid < s[k].uuid
      BY <1>1, <1>2 DEF Increasing
    <2>3. s[k].uuid \in Nat /\ s[Len(s)].uuid \in Nat /\ s[1].uuid \in Nat
      BY <1>1, <1>2, <1>4
    <2> QED BY <2>1, <2>2, <2>3
  <1> QED BY <1>2, <1>3, <1>4, <1>5

\* The cursors of a page of items name identifiers.
LEMMA CursorNumbers ==
  ASSUME NEW a, CursorsOf(a), a.data \in Seq(Item)
  PROVE  /\ \A c \in a.next : c.uuid \in Nat
         /\ \A c \in a.previous : c.uuid \in Nat
         /\ \A c, d \in a.next : c = d
         /\ \A c, d \in a.previous : c = d
  <1>1. \A x \in Item : x.uuid \in Nat
    BY RowAssumption
  <1>2. ASSUME a.data # <<>> PROVE Last(a.data) \in Item /\ Head(a.data) \in Item
    <2>1. Len(a.data) \in Nat \ {0}
      BY <1>2, EmptySeq
    <2>2. Len(a.data) \in 1..Len(a.data)
      BY <2>1
    <2> QED BY <1>2, <2>2, ElementOfSeq, HeadTailProperties DEF Last
  <1> QED BY <1>1, <1>2 DEF CursorsOf, AtMostOne

\* A sequence of some elements of a set is one of the set.
LEMMA SeqWiden ==
  ASSUME NEW S, NEW T, S \subseteq T, NEW s \in Seq(S)
  PROVE  s \in Seq(T)
  OBVIOUS

\* The first page of a walk.
LEMMA ForwardStarts ==
  ASSUME NEW limit \in Nat \cup {Absent}, NEW next, NEW a \in FindCartItems(limit, next, {})
  PROVE  a.data \in Seq(Item) /\ WalkedForward(a, a.data, Asked(next, {}))
  <1> DEFINE rows == Asked(next, {})
  <1>1. /\ a.data \in Seq(rows) /\ Increasing(a.data) /\ CursorsOf(a)
        /\ \A i \in rows :
             i \in ToSet(a.data) \/ (a.hasNextPage /\ \A c \in a.next : i.uuid > c.uuid)
    BY CartPage
  <1>2. rows \subseteq Item /\ \A x \in Item : x.uuid \in Nat
    BY RowAssumption DEF Asked, Mine, Present
  <1>3. a.data \in Seq(Item)
    <2> HIDE DEF rows
    <2> QED BY <1>1, <1>2, SeqWiden
  <1>4. ASSUME NEW c \in a.next, NEW k \in DOMAIN a.data PROVE a.data[k].uuid <= c.uuid
    <2>1. a.data # <<>> /\ c.uuid = Last(a.data).uuid
      BY <1>1 DEF CursorsOf
    <2> QED BY <1>1, <1>2, <1>3, <2>1, EndFacts
  <1> QED BY <1>1, <1>3, <1>4 DEF WalkedForward

\* The first page of a walk backwards.
LEMMA BackStarts ==
  ASSUME NEW limit \in Nat \cup {Absent}, NEW next, NEW previous, previous # {},
         NEW a \in FindCartItems(limit, next, previous)
  PROVE  a.data \in Seq(Item) /\ WalkedBack(a, a.data, Asked(next, previous))
  <1> DEFINE rows == Asked(next, previous)
  <1>1. /\ a.data \in Seq(rows) /\ Increasing(a.data) /\ CursorsOf(a)
        /\ \A i \in rows :
             i \in ToSet(a.data) \/ (a.hasPreviousPage /\ \A c \in a.previous : i.uuid < c.uuid)
    BY CartPage
  <1>2. rows \subseteq Item /\ \A x \in Item : x.uuid \in Nat
    BY RowAssumption DEF Asked, Mine, Present
  <1>3. a.data \in Seq(Item)
    <2> HIDE DEF rows
    <2> QED BY <1>1, <1>2, SeqWiden
  <1>4. ASSUME NEW c \in a.previous, NEW k \in DOMAIN a.data PROVE a.data[k].uuid >= c.uuid
    <2>1. a.data # <<>> /\ c.uuid = Head(a.data).uuid
      BY <1>1 DEF CursorsOf
    <2>2. /\ Head(a.data) \in Item /\ Head(a.data).uuid <= a.data[k].uuid
          /\ a.data[k] \in Item
      BY <1>1, <1>2, <1>3, <2>1, EndFacts, LenProperties, ElementOfSeq
    <2> QED BY <1>2, <2>1, <2>2
  <1> QED BY <1>1, <1>3, <1>4 DEF WalkedBack

\* The next page of a walk follows what was shown, whatever came and went.
LEMMA ForwardGoesOn ==
  ASSUME NEW limit \in Nat \cup {Absent}, NEW b, NEW shown, NEW rest,
         WalkedForward(b, shown, rest), CursorsOf(b), b.data \in Seq(Item), b.next # {},
         rest \subseteq Mine, NEW a \in FindCartItems(limit, b.next, {})
  PROVE  WalkedForward(a, shown \o a.data, rest)
  <1> DEFINE rows == Asked(b.next, {})
             seq == shown \o a.data
  <1>1. /\ a.data \in Seq(rows) /\ Increasing(a.data) /\ CursorsOf(a)
        /\ \A i \in rows :
             i \in ToSet(a.data) \/ (a.hasNextPage /\ \A c \in a.next : i.uuid > c.uuid)
    BY CartPage
  <1>2. rows \subseteq Item /\ \A x \in Item : x.uuid \in Nat
    BY RowAssumption DEF Asked, Mine, Present
  <1>3. a.data \in Seq(Item)
    <2> HIDE DEF rows
    <2> QED BY <1>1, <1>2, SeqWiden
  <1>4. PICK d \in b.next : d.uuid \in Nat /\ \A c \in b.next : c = d
    BY CursorNumbers
  <1>5. /\ shown \in Seq(Item) /\ Increasing(shown)
        /\ \A k \in DOMAIN shown : shown[k].uuid <= d.uuid /\ shown[k].uuid \in Nat
    BY <1>2, ElementOfSeq, LenProperties DEF WalkedForward
  <1>6. \A k \in DOMAIN a.data : a.data[k].uuid > d.uuid /\ a.data[k].uuid \in Nat
    <2>1. \A k \in DOMAIN a.data : a.data[k] \in rows
      <3> HIDE DEF rows
      <3> QED BY <1>1, ElementOfSeq, LenProperties
    <2> QED BY <1>2, <2>1 DEF Asked
  <1>7. \A i \in DOMAIN shown, j \in DOMAIN a.data : shown[i].uuid < a.data[j].uuid
    BY <1>4, <1>5, <1>6
  <1>8. seq \in Seq(Item) /\ Increasing(seq) /\ ToSet(seq) = ToSet(shown) \cup ToSet(a.data)
    BY <1>1, <1>2, <1>3, <1>5, <1>7, JoinFacts
  <1> HIDE DEF seq
  <1>9. ASSUME NEW c \in a.next, NEW k \in DOMAIN seq PROVE seq[k].uuid <= c.uuid
    <2>1. a.data # <<>> /\ c.uuid = Last(a.data).uuid
      BY <1>1 DEF CursorsOf
    <2>2. \A x \in ToSet(a.data) : x.uuid <= c.uuid
      BY <1>1, <1>2, <1>3, <2>1, EndFacts DEF ToSet
    <2>3. \A x \in ToSet(shown) : x.uuid <= c.uuid
      <3>1. 1 \in DOMAIN a.data
        BY <1>3, <2>1, EmptySeq, LenProperties
      <3>2. a.data[1].uuid <= c.uuid /\ a.data[1].uuid > d.uuid
        BY <1>6, <2>2, <3>1 DEF ToSet
      <3>3. c.uuid \in Nat
        BY <1>1, <1>3, CursorNumbers
      <3>4. \A j \in DOMAIN shown : shown[j].uuid <= c.uuid
        BY <1>4, <1>5, <1>6, <3>1, <3>2, <3>3
      <3> QED BY <3>4 DEF ToSet
    <2>4. seq[k] \in ToSet(seq)
      BY DEF ToSet
    <2> QED BY <1>8, <2>2, <2>3, <2>4
  <1>10. ASSUME NEW i \in rest, i \notin ToSet(seq)
         PROVE  a.hasNextPage /\ \A c \in a.next : i.uuid > c.uuid
    <2>1. i \in Mine /\ \A c \in b.next : i.uuid > c.uuid
      BY <1>8, <1>10 DEF WalkedForward
    <2>2. i \in rows
      BY <2>1 DEF Asked
    <2> QED BY <1>1, <1>8, <1>10, <2>2
  <1> QED BY <1>8, <1>9, <1>10 DEF WalkedForward, seq

\* The previous page of a walk precedes what was shown.
LEMMA BackGoesOn ==
  ASSUME NEW limit \in Nat \cup {Absent}, NEW b, NEW shown, NEW rest, NEW next,
         WalkedBack(b, shown, rest), CursorsOf(b), b.data \in Seq(Item), b.previous # {},
         rest \subseteq Mine, NEW a \in FindCartItems(limit, next, b.previous)
  PROVE  WalkedBack(a, a.data \o shown, rest)
  <1> DEFINE rows == Asked(next, b.previous)
             seq == a.data \o shown
  <1>1. /\ a.data \in Seq(rows) /\ Increasing(a.data) /\ CursorsOf(a)
        /\ \A i \in rows :
             i \in ToSet(a.data) \/ (a.hasPreviousPage /\ \A c \in a.previous : i.uuid < c.uuid)
    BY CartPage
  <1>2. rows \subseteq Item /\ \A x \in Item : x.uuid \in Nat
    BY RowAssumption DEF Asked, Mine, Present
  <1>3. a.data \in Seq(Item)
    <2> HIDE DEF rows
    <2> QED BY <1>1, <1>2, SeqWiden
  <1>4. PICK d \in b.previous : d.uuid \in Nat /\ \A c \in b.previous : c = d
    BY CursorNumbers
  <1>5. /\ shown \in Seq(Item) /\ Increasing(shown)
        /\ \A k \in DOMAIN shown : shown[k].uuid >= d.uuid /\ shown[k].uuid \in Nat
    BY <1>2, ElementOfSeq, LenProperties DEF WalkedBack
  <1>6. \A k \in DOMAIN a.data : a.data[k].uuid < d.uuid /\ a.data[k].uuid \in Nat
    <2>1. \A k \in DOMAIN a.data : a.data[k] \in rows
      <3> HIDE DEF rows
      <3> QED BY <1>1, ElementOfSeq, LenProperties
    <2> QED BY <1>2, <2>1 DEF Asked
  <1>7. \A i \in DOMAIN a.data, j \in DOMAIN shown : a.data[i].uuid < shown[j].uuid
    BY <1>4, <1>5, <1>6
  <1>8. seq \in Seq(Item) /\ Increasing(seq) /\ ToSet(seq) = ToSet(a.data) \cup ToSet(shown)
    BY <1>1, <1>2, <1>3, <1>5, <1>7, JoinFacts
  <1> HIDE DEF seq
  <1>9. ASSUME NEW c \in a.previous, NEW k \in DOMAIN seq PROVE seq[k].uuid >= c.uuid
    <2>1. a.data # <<>> /\ c.uuid = Head(a.data).uuid
      BY <1>1 DEF CursorsOf
    <2>2. c.uuid \in Nat
      BY <1>1, <1>3, CursorNumbers
    <2>3. \A x \in ToSet(a.data) : x.uuid >= c.uuid
      <3>1. \A j \in DOMAIN a.data : c.uuid <= a.data[j].uuid
        BY <1>1, <1>2, <1>3, <2>1, EndFacts
      <3> QED BY <1>6, <2>2, <3>1 DEF ToSet
    <2>4. \A x \in ToSet(shown) : x.uuid >= c.uuid
      <3>1. 1 \in DOMAIN a.data
        BY <1>3, <2>1, EmptySeq, LenProperties
      <3>2. a.data[1].uuid >= c.uuid /\ a.data[1].uuid < d.uuid
        BY <1>6, <2>3, <3>1 DEF ToSet
      <3>3. \A j \in DOMAIN shown : shown[j].uuid >= c.uuid
        BY <1>4, <1>5, <1>6, <2>2, <3>1, <3>2
      <3> QED BY <3>3 DEF ToSet
    <2>5. seq[k] \in ToSet(seq)
      BY DEF ToSet
    <2> QED BY <1>8, <2>3, <2>4, <2>5
  <1>10. ASSUME NEW i \in rest, i \notin ToSet(seq)
         PROVE  a.hasPreviousPage /\ \A c \in a.previous : i.uuid < c.uuid
    <2>1. i \in Mine /\ \A c \in b.previous : i.uuid < c.uuid
      BY <1>8, <1>10 DEF WalkedBack
    <2>2. i \in rows
      BY <2>1 DEF Asked
    <2> QED BY <1>1, <1>8, <1>10, <2>2
  <1> QED BY <1>8, <1>9, <1>10 DEF WalkedBack, seq

------------------------------------------------------------------------------
(* The pages of the products. *)

\* A page of products has a row at least, and not more than the largest page.
LEMMA PageFacts ==
  ASSUME NEW limit \in Nat \cup {Absent}
  PROVE  /\ PageLimit(limit) \in Nat \ {0}
         /\ PageLimit(limit) <= IF limit = Absent THEN DefaultTake ELSE MaxTake
  <1>1. DefaultTake \in Nat \ {0} /\ MaxTake \in Nat \ {0}
    BY PageSizeAssumption
  <1> QED BY <1>1 DEF PageLimit, Clamped

\* The number of pages of n rows.
PageCount(n, take) == (n + take - 1) \div take

\* The last page has the last row.
LEMMA PageCountCovers ==
  ASSUME NEW n \in Nat, NEW take \in Nat \ {0}, NEW page \in Nat, page >= PageCount(n, take)
  PROVE  page * take >= n
  <1> DEFINE q == (n + take - 1) \div take
             r == (n + take - 1) % take
  <1>1. n + take - 1 \in Nat
    OBVIOUS
  <1>2. q \in Int /\ r \in 0..(take - 1) /\ n + take - 1 = q * take + r
    BY <1>1
  <1>3. page >= q
    BY DEF PageCount
  <1> HIDE DEF q, r
  <1>4. page * take >= q * take
    BY <1>2, <1>3
  <1>5. q * take \in Int /\ page * take \in Int
    BY <1>2
  <1> QED BY <1>2, <1>4, <1>5

\* Rows in one order, without the ties of the ORDER BY, are one answer.
LEMMA IncreasingIsUnique ==
  ASSUME NEW rows, Keyed(rows), NEW allowed, "uuid" \in allowed,
         NEW s \in Ordered(rows, ByUuid, allowed), NEW t \in Ordered(rows, ByUuid, allowed)
  PROVE  s = t
  <1> DEFINE n == Cardinality(rows)
  <1>1. /\ s \in Seq(rows) /\ Len(s) = n /\ DOMAIN s = 1..n /\ ToSet(s) = rows
        /\ t \in Seq(rows) /\ Len(t) = n /\ DOMAIN t = 1..n /\ ToSet(t) = rows
        /\ n \in Nat
    BY OrderedRows DEF Keyed
  <1>2. Increasing(s) /\ Increasing(t)
    BY OrderedByUuid
  <1>3. \A k \in 1..n : s[k] \in rows /\ t[k] \in rows /\ s[k].uuid \in Nat /\ t[k].uuid \in Nat
    BY <1>1, ElementOfSeq DEF Keyed
  <1> HIDE DEF n
  <1>4. ASSUME NEW u, NEW v, NEW k \in 1..n,
               DOMAIN u = 1..n, DOMAIN v = 1..n, ToSet(v) = rows,
               \A j \in 1..n : u[j] \in rows /\ u[j].uuid \in Nat /\ v[j].uuid \in Nat,
               Increasing(u), Increasing(v),
               \A j \in 1..n : j < k => u[j] = v[j], u[k] # v[k]
        PROVE  v[k].uuid < u[k].uuid
    <2>1. PICK j \in 1..n : u[k] = v[j]
      BY <1>4 DEF ToSet
    <2>2. j # k
      BY <1>4, <2>1
    <2>3. ~(j < k)
      <3> SUFFICES ASSUME j < k PROVE FALSE
        OBVIOUS
      <3>1. u[j] = u[k] /\ u[j].uuid < u[k].uuid
        BY <1>4, <2>1 DEF Increasing
      <3> QED BY <1>4, <3>1
    <2>4. k < j
      BY <1>1, <2>2, <2>3
    <2> QED BY <1>4, <2>1, <2>4 DEF Increasing
  <1> DEFINE Apart == {k \in 1..n : s[k] # t[k]}
  <1>5. Apart = {}
    <2> SUFFICES ASSUME Apart # {} PROVE FALSE
      OBVIOUS
    <2>1. Apart \subseteq Nat
      BY <1>1
    <2>2. PICK k \in Apart : \A j \in Apart : k <= j
      <3> HIDE DEF Apart
      <3> QED BY <2>1, LeastNatural
    <2>3. /\ k \in 1..n /\ s[k] # t[k]
          /\ \A j \in 1..n : j < k => s[j] = t[j]
      BY <1>1, <2>2
    <2>4. t[k].uuid < s[k].uuid
      BY <1>1, <1>2, <1>3, <1>4, <2>3
    <2>5. s[k].uuid < t[k].uuid
      BY <1>1, <1>2, <1>3, <1>4, <2>3
    <2> QED BY <1>3, <2>3, <2>4, <2>5
  <1>6. \A k \in 1..Len(s) : s[k] = t[k]
    BY <1>1, <1>5
  <1> QED BY <1>1, <1>6, SeqEqual

\* A page begins where the one before it ended.
LEMMA CutsJoin ==
  ASSUME NEW S, NEW s \in Seq(S), NEW m \in Nat, NEW n \in Nat
  PROVE  Cut(s, 0, m) \o Cut(s, m, n) = Cut(s, 0, m + n)
  <1> DEFINE a == Cut(s, 0, m)
             b == Cut(s, m, n)
             c == Cut(s, 0, m + n)
             L == Len(s)
             la == IF 0 + m < Len(s) THEN 0 + m ELSE Len(s)
             lc == IF 0 + (m + n) < Len(s) THEN 0 + (m + n) ELSE Len(s)
             lb == IF m + n < Len(s) THEN m + n ELSE Len(s)
  <1>0. 0 \in Nat /\ m + n \in Nat /\ L \in Nat
    BY LenProperties
  <1>1. /\ a \in Seq(S) /\ Len(a) = IF 0 < la THEN la - 0 ELSE 0
        /\ \A k \in 1..Len(a) : a[k] = s[0 + k]
    <2> DEFINE last == la
    <2>1. last = IF 0 + m < Len(s) THEN 0 + m ELSE Len(s)
      OBVIOUS
    <2> HIDE DEF last
    <2> QED BY <1>0, <2>1, CutFacts DEF last
  <1>2. /\ b \in Seq(S) /\ Len(b) = IF m < lb THEN lb - m ELSE 0
        /\ \A k \in 1..Len(b) : b[k] = s[m + k]
    <2> DEFINE last == lb
    <2>1. last = IF m + n < Len(s) THEN m + n ELSE Len(s)
      OBVIOUS
    <2> HIDE DEF last
    <2> QED BY <1>0, <2>1, CutFacts DEF last
  <1>3. /\ c \in Seq(S) /\ Len(c) = IF 0 < lc THEN lc - 0 ELSE 0
        /\ \A k \in 1..Len(c) : c[k] = s[0 + k]
    <2> DEFINE last == lc
               o == m + n
    <2>1. last = IF 0 + o < Len(s) THEN 0 + o ELSE Len(s)
      OBVIOUS
    <2>2. o \in Nat /\ 0 \in Nat
      OBVIOUS
    <2> HIDE DEF last, o
    <2>3. /\ Cut(s, 0, o) \in Seq(S) /\ Len(Cut(s, 0, o)) = IF 0 < last THEN last - 0 ELSE 0
          /\ \A k \in 1..Len(Cut(s, 0, o)) : Cut(s, 0, o)[k] = s[0 + k]
      BY <2>1, <2>2, CutFacts
    <2> QED BY <2>3 DEF last, o
  <1>a. /\ Len(a) = IF m < L THEN m ELSE L
        /\ Len(b) = IF m < L THEN (IF m + n < L THEN n ELSE L - m) ELSE 0
        /\ Len(c) = IF m + n < L THEN m + n ELSE L
    <2> HIDE DEF a, b, c, L
    <2> QED BY <1>0, <1>1, <1>2, <1>3 DEF L
  <1> HIDE DEF a, b, c, L, la, lb, lc
  <1>4. /\ a \o b \in Seq(S) /\ Len(a \o b) = Len(a) + Len(b)
        /\ \A i \in 1..Len(a) + Len(b) : (a \o b)[i] = IF i <= Len(a) THEN a[i] ELSE b[i - Len(a)]
    BY <1>1, <1>2, ConcatProperties
  <1>5. Len(a) + Len(b) = Len(c) /\ Len(a) \in Nat /\ Len(b) \in Nat
    BY <1>0, <1>a
  <1>6. ASSUME NEW i \in 1..Len(c) PROVE (a \o b)[i] = c[i]
    <2>1. CASE i <= Len(a)
      BY <1>1, <1>3, <1>4, <1>5, <1>6, <2>1
    <2>2. CASE Len(a) < i
      <3>1. i - Len(a) \in 1..Len(b) /\ Len(a) = m /\ m + (i - Len(a)) = i
        BY <1>0, <1>a, <1>6, <2>2
      <3> QED BY <1>2, <1>3, <1>4, <1>5, <1>6, <2>2, <3>1
    <2> QED BY <1>5, <1>6, <2>1, <2>2
  <1>7. a \o b = c
    <2>1. Len(a \o b) = Len(c) /\ \A i \in 1..Len(a \o b) : (a \o b)[i] = c[i]
      BY <1>4, <1>5, <1>6
    <2> QED BY <1>3, <1>4, <2>1, SeqEqual
  <1> QED BY <1>7 DEF a, b, c

\* The page of the products that is made of the answer s of the database.
IsProductPage(a, s, criteria, page, limit) ==
  /\ a.status = 200 /\ a.next = {} /\ a.previous = {}
  /\ a.data = Cut(s, Skipped(page, limit), PageLimit(limit))
  /\ a.totalPages = PageCount(Cardinality(Matching(criteria)), PageLimit(limit))

\* The sort of a request: the newest first if it names none.
ProductSort(criteria) ==
  IF criteria.sort = <<>> THEN <<Descending("createdAt")>> ELSE criteria.sort

\* A request for products fails, or is answered by such a page.
LEMMA ProductQuery ==
  ASSUME NEW criteria, NEW page, NEW limit, NEW a \in FindProducts(criteria, page, limit)
  PROVE  \/ a = Failed(400) \/ a = Failed(500)
         \/ /\ page # NotANumeral /\ limit # NotANumeral
            /\ \E s \in Ordered(Matching(criteria), ProductSort(criteria), {"name", "uuid", "createdAt"}) :
                 IsProductPage(a, s, criteria, page, limit)
  <1> DEFINE allowed == {"uuid", "name", "price"}
             take == PageLimit(limit)
             rows == Matching(criteria)
             answers == Ordered(rows, ProductSort(criteria), {"name", "uuid", "createdAt"})
             pages == {[Failed(200) EXCEPT !.data = Cut(s, Skipped(page, limit), take),
                                           !.totalPages = (Cardinality(rows) + take - 1) \div take] :
                         s \in answers}
  <1>1. FindProducts(criteria, page, limit) =
          IF page = NotANumeral \/ limit = NotANumeral THEN {Failed(500)}
          ELSE IF IsRefused(criteria.filters, allowed) THEN {Failed(400)} ELSE pages
    BY DEF FindProducts, BuildQuery, ProductSort, Matching
  <1>2. CASE a \in pages /\ page # NotANumeral /\ limit # NotANumeral
    <2>1. PICK s \in answers :
            a = [Failed(200) EXCEPT !.data = Cut(s, Skipped(page, limit), take),
                                    !.totalPages = (Cardinality(rows) + take - 1) \div take]
      <3> HIDE DEF answers, rows, take
      <3> QED BY <1>2
    <2> DEFINE cut == Cut(s, Skipped(page, limit), take)
               count == (Cardinality(rows) + take - 1) \div take
    <2>2. a = [Failed(200) EXCEPT !.data = cut, !.totalPages = count]
      BY <2>1
    <2> HIDE DEF cut, count
    <2>3. /\ a.status = 200 /\ a.next = {} /\ a.previous = {}
          /\ a.data = cut /\ a.totalPages = count
      BY <2>2 DEF Failed
    <2>4. IsProductPage(a, s, criteria, page, limit)
      BY <2>3 DEF IsProductPage, PageCount, cut, count
    <2> QED BY <1>2, <2>4
  <1> HIDE DEF pages
  <1>3. (a \in pages /\ page # NotANumeral /\ limit # NotANumeral) \/ a = Failed(400) \/ a = Failed(500)
    BY <1>1
  <1> QED BY <1>2, <1>3

\* The conditions of the query are those a client meant.
LEMMA MatchingIsWanted ==
  ASSUME NEW criteria
  PROVE  Matching(criteria) = Wanted(criteria)
  <1>1. ASSUME NEW p, NEW f
        PROVE  Satisfies(p, f) <=>
                 /\ f.operator = "eq" => p[f.field] = f.value
                 /\ f.operator = "neq" => p[f.field] # f.value
                 /\ f.operator = "gt" => p[f.field] > f.value
                 /\ f.operator = "gte" => p[f.field] >= f.value
                 /\ f.operator = "lt" => p[f.field] < f.value
                 /\ f.operator = "lte" => p[f.field] <= f.value
                 /\ f.operator \in {"like", "ilike"} =>
                      <<f.operator, f.value, p[f.field]>> \in Likeness
                 /\ f.operator \notin {"isNull", "inEmpty"}
    <2> DEFINE o == f.operator
    <2>1. /\ o = "eq" => (Satisfies(p, f) <=> p[f.field] = f.value)
          /\ o = "neq" => (Satisfies(p, f) <=> p[f.field] # f.value)
          /\ o = "gt" => (Satisfies(p, f) <=> p[f.field] > f.value)
          /\ o = "gte" => (Satisfies(p, f) <=> p[f.field] >= f.value)
          /\ o = "lt" => (Satisfies(p, f) <=> p[f.field] < f.value)
          /\ o = "lte" => (Satisfies(p, f) <=> p[f.field] <= f.value)
          /\ o \in {"like", "ilike"} => (Satisfies(p, f) <=> <<o, f.value, p[f.field]>> \in Likeness)
          /\ o \in {"isNull", "inEmpty"} => ~Satisfies(p, f)
          /\ o \notin {"eq", "neq", "gt", "gte", "lt", "lte", "like", "ilike", "isNull", "inEmpty"}
               => Satisfies(p, f)
      BY DEF Satisfies
    <2> QED BY <2>1
  <1> QED BY <1>1 DEF Matching, Filtered, Wanted

------------------------------------------------------------------------------
(* The invariant. *)

\* A page has one cursor of a kind at most.
LEMMA FewCursors ==
  ASSUME NEW S, AtMostOne(S)
  PROVE  Cardinality(S) <= 1
  <1>1. CASE S = {}
    BY <1>1, FS_EmptySet
  <1>2. CASE S # {}
    <2>1. PICK x : S = {x}
      BY <1>2 DEF AtMostOne
    <2>2. Cardinality({x}) = 1
      BY FS_Singleton
    <2> QED BY <2>1, <2>2
  <1> QED BY <1>1, <1>2

\* A request that fails shows nothing.
LEMMA FailedFacts ==
  ASSUME NEW status
  PROVE  /\ Failed(status).status = status /\ Failed(status).data = <<>>
         /\ Failed(status).next = {} /\ Failed(status).previous = {}
         /\ Failed(status).totalPages = 0
         /\ ToSet(Failed(status).data) = {}
  BY DEF Failed, ToSet

\* A limit that is no numeral fails the query.
LEMMA CartRefused ==
  \A next, previous : FindCartItems(NotANumeral, next, previous) = {Failed(500)}
  BY DEF FindCartItems, BuildQueryWithCursor

\* A limit that is no numeral is none of the others.
LEMMA Limits ==
  /\ \A limit \in LimitGiven \cup {Absent} : limit = NotANumeral \/ limit \in Nat \cup {Absent}
  /\ NotANumeral \notin Nat \cup {Absent}
  BY RowAssumption DEF Absent, NotANumeral

\* Nothing is listed yet.
LEMMA InitInvariant == Init => PagingInvariant
  <1> SUFFICES ASSUME Init PROVE PagingInvariant
    OBVIOUS
  <1> USE DEF Init
  <1>1. /\ answer.status = 0 /\ answer.data = <<>> /\ answer.next = {} /\ answer.previous = {}
        /\ answer.totalPages = 0
    BY FailedFacts
  <1>2. AtMostOne(answer.next) /\ AtMostOne(answer.previous)
    BY <1>1 DEF AtMostOne
  <1>3. TypeOK
    <2>1. item \in [Item -> {"absent", "present", "deleted"}]
      OBVIOUS
    <2>2. /\ listing \in [of : {"nothing", "cart", "products"}, forward : BOOLEAN,
                          limit : LimitGiven \cup {Absent}, page : Nat \ {0},
                          criteria : Criteria \cup {NoListing.criteria}]
          /\ <<>> \in Seq(Item)
      BY DEF NoListing
    <2>3. Cardinality(answer.next) <= 1 /\ Cardinality(answer.previous) <= 1
      BY <1>2, FewCursors
    <2>4. seen = <<>> /\ steady = {}
      OBVIOUS
    <2> HIDE DEF Init
    <2> QED BY <1>1, <2>1, <2>2, <2>3, <2>4 DEF TypeOK
  <1>4. CursorsAreOfTheCart
    BY <1>1, <1>2 DEF CursorsAreOfTheCart, CursorsOf
  <1>5. WalkIsKept /\ PagesAreKept
    BY <1>1 DEF WalkIsKept, PagesAreKept
  <1> QED BY <1>3, <1>4, <1>5 DEF PagingInvariant

\* What a client may browse, and how it asks.
ListingType ==
  [of : {"nothing", "cart", "products"}, forward : BOOLEAN,
   limit : LimitGiven \cup {Absent}, page : Nat \ {0}, criteria : Criteria \cup {NoListing.criteria}]

\* What any page of the cart leaves true, whatever the walk made of it.
LEMMA CartStep ==
  ASSUME NEW limit \in LimitGiven \cup {Absent}, limit # NotANumeral, NEW next, NEW previous,
         PagingInvariant, answer' \in FindCartItems(limit, next, previous),
         listing' \in ListingType, listing'.of = "cart", listing'.limit = limit,
         seen' \in Seq(Item), steady' \subseteq Mine, UNCHANGED item
  PROVE  /\ TypeOK' /\ CursorsAreOfTheCart' /\ PagesAreKept'
         /\ answer'.status = 200 /\ answer'.data \in Seq(Item) /\ CursorsOf(answer')
  <1>1. limit \in Nat \cup {Absent}
    BY Limits
  <1>2. /\ answer'.status = 200 /\ answer'.data \in Seq(Asked(next, previous))
        /\ Len(answer'.data) <= Taken(limit) - 1 /\ CursorsOf(answer')
    BY <1>1, CartPage
  <1>3. Mine \subseteq Item /\ Asked(next, previous) \subseteq Item
    BY DEF Mine, Present, Asked
  <1>4. answer'.data \in Seq(Item)
    BY <1>2, <1>3, SeqWiden
  <1>5. Cardinality(answer'.next) <= 1 /\ Cardinality(answer'.previous) <= 1
    BY <1>2, FewCursors DEF CursorsOf
  <1>6. item' \in [Item -> {"absent", "present", "deleted"}]
    BY DEF PagingInvariant, TypeOK
  <1>7. TypeOK'
    BY <1>2, <1>3, <1>4, <1>5, <1>6 DEF TypeOK, ListingType
  <1>8. CursorsAreOfTheCart' /\ PagesAreKept'
    BY <1>2 DEF CursorsAreOfTheCart, CursorsOf, PagesAreKept, AtMostOne
  <1> QED BY <1>2, <1>4, <1>7, <1>8

\* A request that fails leaves nothing to go on from.
LEMMA FailedStep ==
  ASSUME PagingInvariant, NEW status \in {400, 500}, answer' = Failed(status),
         listing' \in ListingType, seen' \in Seq(Item) \cup Seq(Products),
         steady' \subseteq Item \cup Products,
         UNCHANGED item
  PROVE  PagingInvariant'
  <1>1. /\ answer'.status = status /\ answer'.data = <<>> /\ answer'.next = {}
        /\ answer'.previous = {} /\ answer'.totalPages = 0 /\ status # 200
    BY FailedFacts
  <1>2. AtMostOne(answer'.next) /\ AtMostOne(answer'.previous)
    BY <1>1 DEF AtMostOne
  <1>3. Cardinality(answer'.next) <= 1 /\ Cardinality(answer'.previous) <= 1
    BY <1>2, FewCursors
  <1>4. item' \in [Item -> {"absent", "present", "deleted"}]
    BY DEF PagingInvariant, TypeOK
  <1>5. TypeOK'
    <2>1. <<>> \in Seq(Item)
      OBVIOUS
    <2> QED BY <1>1, <1>3, <1>4, <2>1 DEF TypeOK, ListingType
  <1>6. CursorsAreOfTheCart' /\ WalkIsKept' /\ PagesAreKept'
    BY <1>1, <1>2 DEF CursorsAreOfTheCart, CursorsOf, WalkIsKept, PagesAreKept, AtMostOne
  <1> QED BY <1>5, <1>6 DEF PagingInvariant

\* One lemma for each action.
LEMMA InsertItemKeeps ==
  ASSUME PagingInvariant, NEW i \in Item, InsertItem(i)
  PROVE  PagingInvariant'
  <1>1. /\ item' = [item EXCEPT ![i] = "present"]
        /\ UNCHANGED <<listing, answer, seen, steady>>
    BY DEF InsertItem
  <1>2. TypeOK'
    BY <1>1 DEF PagingInvariant, TypeOK
  <1>3. Mine \subseteq Mine'
    BY <1>1 DEF Mine, Present, PagingInvariant, TypeOK
  <1>4. WalkIsKept'
    BY <1>1, <1>3 DEF PagingInvariant, WalkIsKept
  <1>5. CursorsAreOfTheCart' /\ PagesAreKept'
    BY <1>1 DEF PagingInvariant, CursorsAreOfTheCart, PagesAreKept
  <1> QED BY <1>2, <1>4, <1>5 DEF PagingInvariant

LEMMA DeleteItemKeeps ==
  ASSUME PagingInvariant, NEW i \in Item, DeleteItem(i)
  PROVE  PagingInvariant'
  <1>1. /\ item' = [item EXCEPT ![i] = "deleted"] /\ steady' = steady \ {i}
        /\ UNCHANGED <<listing, answer, seen>>
    BY DEF DeleteItem
  <1>2. TypeOK'
    BY <1>1 DEF PagingInvariant, TypeOK
  <1>3. Mine \ {i} \subseteq Mine'
    BY <1>1 DEF Mine, Present, PagingInvariant, TypeOK
  <1>4. WalkIsKept'
    BY <1>1, <1>3 DEF PagingInvariant, WalkIsKept, WalkedForward, WalkedBack
  <1>5. CursorsAreOfTheCart' /\ PagesAreKept'
    BY <1>1 DEF PagingInvariant, CursorsAreOfTheCart, PagesAreKept
  <1> QED BY <1>2, <1>4, <1>5 DEF PagingInvariant

LEMMA GetCartKeeps ==
  ASSUME PagingInvariant, NEW limit \in LimitGiven, GetCart(limit)
  PROVE  PagingInvariant'
  <1>1. /\ listing' = [NoListing EXCEPT !.of = "cart", !.limit = limit]
        /\ answer' \in FindCartItems(limit, {}, {})
        /\ seen' = answer'.data /\ steady' = Mine /\ UNCHANGED item
    BY DEF GetCart
  <1>2. /\ listing' \in ListingType /\ listing'.of = "cart" /\ listing'.limit = limit
        /\ listing'.forward
    <2>1. listing' = [of |-> "cart", forward |-> TRUE, limit |-> limit, page |-> 1,
                      criteria |-> NoListing.criteria]
      BY <1>1 DEF NoListing
    <2>2. limit \in LimitGiven \cup {Absent} /\ 1 \in Nat \ {0}
      OBVIOUS
    <2> QED BY <2>1, <2>2 DEF ListingType
  <1>3. Mine \subseteq Item /\ Mine' = Mine
    BY <1>1 DEF Mine, Present
  <1>4. CASE limit = NotANumeral
    <2>1. answer' = Failed(500)
      BY <1>1, <1>4, CartRefused
    <2>2. seen' = <<>>
      BY <1>1, <2>1, FailedFacts
    <2>3. seen' \in Seq(Item)
      BY <2>2
    <2> QED BY <1>1, <1>2, <1>3, <2>1, <2>3, FailedStep
  <1>5. CASE limit # NotANumeral
    <2>1. limit \in Nat \cup {Absent}
      BY <1>5, Limits
    <2>2. Asked({}, {}) = Mine
      BY DEF Asked
    <2>3. answer'.data \in Seq(Item) /\ WalkedForward(answer', answer'.data, Mine)
      BY <1>1, <2>1, <2>2, ForwardStarts
    <2>4. TypeOK' /\ CursorsAreOfTheCart' /\ PagesAreKept'
      BY <1>1, <1>2, <1>5, <2>3, CartStep
    <2>5. WalkIsKept'
      BY <1>1, <1>2, <1>3, <1>5, <2>3 DEF WalkIsKept
    <2> QED BY <2>4, <2>5 DEF PagingInvariant
  <1> QED BY <1>4, <1>5

\* A client that has a cursor has a page of its cart.
LEMMA CursorIsOfTheCart ==
  ASSUME PagingInvariant, answer.next # {} \/ answer.previous # {}
  PROVE  /\ listing.of = "cart" /\ answer.status = 200 /\ CursorsOf(answer)
         /\ listing \in ListingType /\ listing.limit \in LimitGiven \cup {Absent}
         /\ listing.limit # NotANumeral /\ listing.limit \in Nat \cup {Absent}
         /\ answer.data \in Seq(Item) /\ steady \subseteq Mine
         /\ listing.forward => WalkedForward(answer, seen, steady)
         /\ ~listing.forward => WalkedBack(answer, seen, steady)
  <1>1. listing.of = "cart" /\ answer.status = 200 /\ CursorsOf(answer)
    BY DEF PagingInvariant, CursorsAreOfTheCart
  <1>2. listing \in ListingType
    BY DEF PagingInvariant, TypeOK, ListingType
  <1>3. listing.limit \in LimitGiven \cup {Absent}
    BY <1>2 DEF ListingType
  <1>4. listing.limit # NotANumeral /\ answer.data \in Seq(Item) /\ steady \subseteq Mine
    BY <1>1 DEF PagingInvariant, WalkIsKept
  <1>5. /\ listing.forward => WalkedForward(answer, seen, steady)
        /\ ~listing.forward => WalkedBack(answer, seen, steady)
    BY <1>1 DEF PagingInvariant, WalkIsKept
  <1>6. listing.limit \in Nat \cup {Absent}
    BY <1>3, <1>4, Limits
  <1> QED BY <1>1, <1>2, <1>3, <1>4, <1>5, <1>6

LEMMA NextItemsKeeps ==
  ASSUME PagingInvariant, NextItems
  PROVE  PagingInvariant'
  <1> DEFINE limit == listing.limit
  <1>1. /\ answer.next # {} /\ answer' \in FindCartItems(limit, answer.next, {})
        /\ listing' = [listing EXCEPT !.forward = TRUE] /\ UNCHANGED item
    BY DEF NextItems
  <1>2. /\ listing.of = "cart" /\ CursorsOf(answer) /\ listing \in ListingType
        /\ limit \in LimitGiven \cup {Absent} /\ limit # NotANumeral
        /\ limit \in Nat \cup {Absent}
        /\ answer.data \in Seq(Item) /\ steady \subseteq Mine
        /\ listing.forward => WalkedForward(answer, seen, steady)
    BY <1>1, CursorIsOfTheCart
  <1>3. /\ listing' \in ListingType /\ listing'.of = "cart" /\ listing'.limit = limit
        /\ listing'.forward
    BY <1>1, <1>2 DEF ListingType
  <1> HIDE DEF limit
  <1>4. /\ answer'.data \in Seq(Item)
        /\ WalkedForward(answer', answer'.data, Asked(answer.next, {}))
    BY <1>1, <1>2, ForwardStarts
  <1>5. Mine' = Mine
    BY <1>1 DEF Mine, Present
  <1>6. WalkedForward(answer', seen', steady') /\ steady' \subseteq Mine
    <2>1. CASE listing.forward
      <3>1. seen' = seen \o answer'.data /\ steady' = steady
        BY <2>1 DEF NextItems
      <3>2. WalkedForward(answer', seen \o answer'.data, steady)
        <4>1. WalkedForward(answer, seen, steady)
          BY <1>2, <2>1
        <4> QED BY <1>1, <1>2, <4>1, ForwardGoesOn
      <3> QED BY <1>2, <3>1, <3>2
    <2>2. CASE ~listing.forward
      <3>1. /\ seen' = answer'.data
            /\ steady' = {i \in Mine : \E cursor \in answer.next : i.uuid > cursor.uuid}
        BY <2>2 DEF NextItems
      <3>2. \A c, d \in answer.next : c = d
        BY <1>2, CursorNumbers
      <3>3. steady' = Asked(answer.next, {})
        BY <1>1, <3>1, <3>2 DEF Asked
      <3> QED BY <1>4, <3>1, <3>3 DEF Asked
    <2> QED BY <2>1, <2>2
  <1>7. seen' \in Seq(Item)
    BY <1>6 DEF WalkedForward
  <1>8. TypeOK' /\ CursorsAreOfTheCart' /\ PagesAreKept'
    BY <1>1, <1>2, <1>3, <1>6, <1>7, CartStep
  <1>9. WalkIsKept'
    BY <1>2, <1>3, <1>4, <1>5, <1>6 DEF WalkIsKept
  <1> QED BY <1>8, <1>9 DEF PagingInvariant

LEMMA PreviousItemsKeeps ==
  ASSUME PagingInvariant, PreviousItems
  PROVE  PagingInvariant'
  <1> DEFINE limit == listing.limit
  <1>1. /\ answer.previous # {}
        /\ listing' = [listing EXCEPT !.forward = FALSE] /\ UNCHANGED item
    BY DEF PreviousItems
  <1>a. PICK next \in {{}, answer.next} : answer' \in FindCartItems(limit, next, answer.previous)
    BY DEF PreviousItems
  <1>2. /\ listing.of = "cart" /\ CursorsOf(answer) /\ listing \in ListingType
        /\ limit \in LimitGiven \cup {Absent} /\ limit # NotANumeral
        /\ limit \in Nat \cup {Absent}
        /\ answer.data \in Seq(Item) /\ steady \subseteq Mine
        /\ ~listing.forward => WalkedBack(answer, seen, steady)
    BY <1>1, CursorIsOfTheCart
  <1>3. /\ listing' \in ListingType /\ listing'.of = "cart" /\ listing'.limit = limit
        /\ ~listing'.forward
    BY <1>1, <1>2 DEF ListingType
  <1> HIDE DEF limit
  <1>4. /\ answer'.data \in Seq(Item)
        /\ WalkedBack(answer', answer'.data, Asked(next, answer.previous))
    BY <1>1, <1>a, <1>2, BackStarts
  <1>5. Mine' = Mine
    BY <1>1 DEF Mine, Present
  <1>6. WalkedBack(answer', seen', steady') /\ steady' \subseteq Mine
    <2>1. CASE ~listing.forward
      <3>1. seen' = answer'.data \o seen /\ steady' = steady
        BY <2>1 DEF PreviousItems
      <3>2. WalkedBack(answer', answer'.data \o seen, steady)
        <4>1. WalkedBack(answer, seen, steady)
          BY <1>2, <2>1
        <4> QED BY <1>1, <1>a, <1>2, <4>1, BackGoesOn
      <3> QED BY <1>2, <3>1, <3>2
    <2>2. CASE listing.forward
      <3>1. /\ seen' = answer'.data
            /\ steady' = {i \in Mine : \E cursor \in answer.previous : i.uuid < cursor.uuid}
        BY <2>2 DEF PreviousItems
      <3>2. \A c, d \in answer.previous : c = d
        BY <1>2, CursorNumbers
      <3>3. steady' = Asked(next, answer.previous)
        BY <1>1, <3>1, <3>2 DEF Asked
      <3> QED BY <1>4, <3>1, <3>3 DEF Asked
    <2> QED BY <2>1, <2>2
  <1>7. seen' \in Seq(Item)
    BY <1>6 DEF WalkedBack
  <1>8. TypeOK' /\ CursorsAreOfTheCart' /\ PagesAreKept'
    BY <1>1, <1>a, <1>2, <1>3, <1>6, <1>7, CartStep
  <1>9. WalkIsKept'
    BY <1>2, <1>3, <1>4, <1>5, <1>6 DEF WalkIsKept
  <1> QED BY <1>8, <1>9 DEF PagingInvariant

\* What a page of the products shows.
LEMMA ProductStep ==
  ASSUME PagingInvariant, NEW criteria, NEW page, NEW limit \in LimitGiven \cup {Absent},
         answer' \in FindProducts(criteria, page, limit), answer'.status = 200,
         page # NotANumeral => PageNumber(page) \in Nat \ {0}
  PROVE  /\ limit # NotANumeral /\ page # NotANumeral /\ PageLimit(limit) \in Nat \ {0}
         /\ AtMostOne(answer'.next) /\ AtMostOne(answer'.previous) /\ CursorsOf(answer')
         /\ answer'.next = {} /\ answer'.previous = {}
         /\ answer'.data \in Seq(Products)
         /\ Len(answer'.data) <= IF limit = Absent THEN DefaultTake ELSE MaxTake
         /\ \E s \in Ordered(Matching(criteria), ProductSort(criteria), {"name", "uuid", "createdAt"}) :
              /\ IsProductPage(answer', s, criteria, page, limit)
              /\ s \in Seq(Products)
  <1>1. answer' # Failed(400) /\ answer' # Failed(500)
    BY FailedFacts
  <1>2. /\ limit # NotANumeral /\ page # NotANumeral
        /\ \E s \in Ordered(Matching(criteria), ProductSort(criteria), {"name", "uuid", "createdAt"}) :
             IsProductPage(answer', s, criteria, page, limit)
    BY <1>1, ProductQuery
  <1>3. PICK s \in Ordered(Matching(criteria), ProductSort(criteria), {"name", "uuid", "createdAt"}) :
           IsProductPage(answer', s, criteria, page, limit)
    BY <1>2
  <1>4. limit \in Nat \cup {Absent}
    BY <1>2, Limits
  <1>5. /\ PageLimit(limit) \in Nat \ {0}
        /\ PageLimit(limit) <= IF limit = Absent THEN DefaultTake ELSE MaxTake
    BY <1>4, PageFacts
  <1>6. Matching(criteria) \subseteq Products /\ Keyed(Matching(criteria))
    BY ItemsAreKeyed DEF Matching, Filtered
  <1>7. s \in Seq(Products)
    <2>1. s \in Seq(Matching(criteria))
      BY <1>6, OrderedRows DEF Keyed
    <2> QED BY <1>6, <2>1, SeqWiden
  <1>8. Skipped(page, limit) \in Nat
    <2>1. PageNumber(page) - 1 \in Nat
      BY <1>2
    <2> QED BY <1>5, <2>1 DEF Skipped
  <1>9. /\ answer'.data \in Seq(Products) /\ Len(answer'.data) <= PageLimit(limit)
    <2> DEFINE from == Skipped(page, limit)
               n == PageLimit(limit)
               last == IF from + n < Len(s) THEN from + n ELSE Len(s)
    <2>1. answer'.data = Cut(s, from, n)
      BY <1>3 DEF IsProductPage
    <2>2. from \in Nat /\ n \in Nat
      BY <1>5, <1>8
    <2>3. last = IF from + n < Len(s) THEN from + n ELSE Len(s)
      OBVIOUS
    <2> HIDE DEF from, n, last
    <2>4. Cut(s, from, n) \in Seq(Products) /\ Len(Cut(s, from, n)) <= n
      BY <1>7, <2>2, <2>3, CutFacts
    <2> QED BY <2>1, <2>4 DEF n
  <1>10. Len(answer'.data) <= IF limit = Absent THEN DefaultTake ELSE MaxTake
    <2>1. Len(answer'.data) \in Nat /\ DefaultTake \in Nat /\ MaxTake \in Nat
      BY <1>9, LenProperties, PageSizeAssumption
    <2> QED BY <1>5, <1>9, <2>1
  <1>11. answer'.next = {} /\ answer'.previous = {}
    BY <1>3 DEF IsProductPage
  <1> QED BY <1>2, <1>3, <1>5, <1>7, <1>9, <1>10, <1>11 DEF AtMostOne, CursorsOf

\* A page of the products fits the invariant if the rows shown so far do.
LEMMA ProductKeeps ==
  ASSUME PagingInvariant, NEW criteria, NEW page, NEW limit \in LimitGiven \cup {Absent},
         answer' \in FindProducts(criteria, page, limit), answer'.status = 200,
         page # NotANumeral => PageNumber(page) \in Nat \ {0},
         listing' \in ListingType, listing'.of = "products", listing'.limit = limit,
         listing'.criteria = criteria,
         seen' \in Seq(Products), steady' \subseteq Item \cup Products, UNCHANGED item,
         criteria.sort = ByUuid =>
           \E s \in Ordered(Matching(criteria), ByUuid, {"name", "uuid", "createdAt"}) :
             seen' = Cut(s, 0, listing'.page * PageLimit(limit))
  PROVE  PagingInvariant'
  <1>1. /\ limit # NotANumeral /\ CursorsOf(answer')
        /\ AtMostOne(answer'.next) /\ AtMostOne(answer'.previous)
        /\ answer'.next = {} /\ answer'.previous = {}
        /\ answer'.data \in Seq(Products)
        /\ Len(answer'.data) <= IF limit = Absent THEN DefaultTake ELSE MaxTake
        /\ \E s \in Ordered(Matching(criteria), ProductSort(criteria), {"name", "uuid", "createdAt"}) :
             IsProductPage(answer', s, criteria, page, limit)
    BY ProductStep
  <1>2. answer'.totalPages = (Cardinality(Matching(criteria)) + PageLimit(limit) - 1) \div PageLimit(limit)
    BY <1>1 DEF IsProductPage, PageCount
  <1>3. item' \in [Item -> {"absent", "present", "deleted"}]
    BY DEF PagingInvariant, TypeOK
  <1>4. Cardinality(answer'.next) <= 1 /\ Cardinality(answer'.previous) <= 1
    BY <1>1, FewCursors
  <1>5. TypeOK'
    BY <1>1, <1>3, <1>4 DEF TypeOK, ListingType
  <1>6. CursorsAreOfTheCart' /\ WalkIsKept'
    BY <1>1 DEF CursorsAreOfTheCart, CursorsOf, WalkIsKept
  <1>7. PagesAreKept'
    BY <1>1, <1>2 DEF PagesAreKept, Matching
  <1> QED BY <1>5, <1>6, <1>7 DEF PagingInvariant

LEMMA GetProductsKeeps ==
  ASSUME PagingInvariant, NEW criteria \in Criteria, NEW page \in {Absent, NotANumeral, 0},
         NEW limit \in LimitGiven, GetProducts(criteria, page, limit)
  PROVE  PagingInvariant'
  <1>1. /\ listing' = [of |-> "products", forward |-> TRUE, limit |-> limit,
                       page |-> PageNumber(page), criteria |-> criteria]
        /\ answer' \in FindProducts(criteria, page, limit)
        /\ seen' = answer'.data /\ steady' = {} /\ UNCHANGED item
    BY DEF GetProducts
  <1>2. PageNumber(page) = 1
    BY DEF PageNumber, Absent, NotANumeral
  <1>3. limit \in LimitGiven \cup {Absent} /\ criteria \in Criteria \cup {NoListing.criteria}
    OBVIOUS
  <1>4. /\ listing' \in ListingType /\ listing'.of = "products" /\ listing'.limit = limit
        /\ listing'.criteria = criteria /\ listing'.page = 1
    BY <1>1, <1>2, <1>3 DEF ListingType
  <1>5. CASE answer'.status = 200
    <2>1. PICK s \in Ordered(Matching(criteria), ProductSort(criteria), {"name", "uuid", "createdAt"}) :
             IsProductPage(answer', s, criteria, page, limit)
      BY <1>1, <1>2, <1>3, <1>5, ProductStep
    <2>2. seen' \in Seq(Products) /\ PageLimit(limit) \in Nat \ {0}
      BY <1>1, <1>2, <1>3, <1>5, ProductStep
    <2>3. seen' = Cut(s, 0, listing'.page * PageLimit(limit))
      <3>1. Skipped(page, limit) = 0 /\ listing'.page * PageLimit(limit) = PageLimit(limit)
        BY <1>2, <1>4, <2>2 DEF Skipped
      <3> QED BY <1>1, <2>1, <3>1 DEF IsProductPage
    <2>4. criteria.sort = ByUuid => ProductSort(criteria) = ByUuid
      BY DEF ProductSort, ByUuid
    <2>5. criteria.sort = ByUuid =>
            \E t \in Ordered(Matching(criteria), ByUuid, {"name", "uuid", "createdAt"}) :
              seen' = Cut(t, 0, listing'.page * PageLimit(limit))
      BY <2>1, <2>3, <2>4
    <2>6. PageNumber(page) \in Nat \ {0} /\ steady' \subseteq Item \cup Products
      BY <1>1, <1>2
    <2> QED BY <1>1, <1>3, <1>4, <1>5, <2>2, <2>5, <2>6, ProductKeeps
  <1>6. CASE answer'.status # 200
    <2>1. answer' = Failed(400) \/ answer' = Failed(500)
      BY <1>1, <1>6, ProductQuery DEF IsProductPage
    <2>2. seen' = <<>>
      BY <1>1, <2>1, FailedFacts
    <2>3. seen' \in Seq(Products)
      BY <2>2
    <2> QED BY <1>1, <1>4, <2>1, <2>3, FailedStep
  <1> QED BY <1>5, <1>6

LEMMA NextProductsKeeps ==
  ASSUME PagingInvariant, NextProducts
  PROVE  PagingInvariant'
  <1> DEFINE limit == listing.limit
             criteria == listing.criteria
             page == listing.page
             take == PageLimit(limit)
  <1>1. /\ listing.of = "products" /\ page < answer.totalPages
        /\ listing' = [listing EXCEPT !.page = page + 1]
        /\ answer' \in FindProducts(criteria, page + 1, limit)
        /\ seen' = seen \o answer'.data /\ UNCHANGED <<item, steady>>
    BY DEF NextProducts
  <1>2. /\ listing \in ListingType /\ page \in Nat \ {0} /\ limit \in LimitGiven \cup {Absent}
        /\ steady \subseteq Item \cup Products
    BY DEF PagingInvariant, TypeOK, ListingType
  <1>3. answer.status = 200
    BY <1>1, <1>2 DEF PagingInvariant, PagesAreKept
  <1>4. /\ seen \in Seq(Products)
        /\ criteria.sort = ByUuid =>
             \E s \in Ordered(Matching(criteria), ByUuid, {"name", "uuid", "createdAt"}) :
               seen = Cut(s, 0, page * take)
    BY <1>1, <1>3 DEF PagingInvariant, PagesAreKept
  <1>5. /\ listing' \in ListingType /\ listing'.of = "products" /\ listing'.limit = limit
        /\ listing'.criteria = criteria /\ listing'.page = page + 1
    BY <1>1, <1>2 DEF ListingType
  <1> HIDE DEF limit, criteria, page, take
  <1>6. PageNumber(page + 1) = page + 1 /\ page + 1 \in Nat \ {0}
    BY <1>2 DEF PageNumber, Absent
  <1>7. steady' \subseteq Item \cup Products
    BY <1>1, <1>2
  <1>8. CASE answer'.status = 200
    <2> DEFINE next == page + 1
    <2>0. PageNumber(next) \in Nat \ {0} /\ answer' \in FindProducts(criteria, next, limit)
      BY <1>1, <1>6
    <2> HIDE DEF next
    <2>1. /\ answer'.data \in Seq(Products) /\ take \in Nat \ {0}
          /\ \E s \in Ordered(Matching(criteria), ProductSort(criteria), {"name", "uuid", "createdAt"}) :
               /\ IsProductPage(answer', s, criteria, next, limit)
               /\ s \in Seq(Products)
      BY <1>2, <1>8, <2>0, ProductStep DEF take
    <2>2. seen' \in Seq(Products)
      BY <1>1, <1>4, <2>1
    <2>3. ASSUME criteria.sort = ByUuid
          PROVE  \E s \in Ordered(Matching(criteria), ByUuid, {"name", "uuid", "createdAt"}) :
                   seen' = Cut(s, 0, listing'.page * PageLimit(limit))
      <3>1. PICK s \in Ordered(Matching(criteria), ByUuid, {"name", "uuid", "createdAt"}) :
              seen = Cut(s, 0, page * take)
        BY <1>4, <2>3
      <3>2. ProductSort(criteria) = ByUuid
        BY <2>3 DEF ProductSort, ByUuid
      <3>3. PICK t \in Ordered(Matching(criteria), ByUuid, {"name", "uuid", "createdAt"}) :
              IsProductPage(answer', t, criteria, next, limit) /\ t \in Seq(Products)
        BY <2>1, <3>2
      <3>4. Keyed(Matching(criteria))
        BY ItemsAreKeyed DEF Matching, Filtered
      <3> DEFINE allowed == {"name", "uuid", "createdAt"}
      <3>5. "uuid" \in allowed
        OBVIOUS
      <3>6. s = t
        <4>1. s \in Ordered(Matching(criteria), ByUuid, allowed) /\ t \in Ordered(Matching(criteria), ByUuid, allowed)
          BY <3>1, <3>3
        <4> HIDE DEF allowed
        <4> QED BY <3>4, <3>5, <4>1, IncreasingIsUnique
      <3>7. /\ Skipped(next, limit) = page * take /\ page * take \in Nat
            /\ page * take + take = (page + 1) * take
        <4>1. PageNumber(next) - 1 = page
          BY <1>2, <1>6 DEF next
        <4> QED BY <1>2, <2>1, <4>1 DEF Skipped, take
      <3>8. answer'.data = Cut(s, page * take, take)
        BY <3>3, <3>6, <3>7 DEF IsProductPage, take
      <3> DEFINE m == page * take
      <3>9. Cut(s, 0, m) \o Cut(s, m, take) = Cut(s, 0, m + take)
        <4>1. m \in Nat /\ take \in Nat /\ s \in Seq(Products)
          BY <2>1, <3>3, <3>6, <3>7
        <4> HIDE DEF m
        <4> QED BY <4>1, CutsJoin
      <3>10. seen' = Cut(s, 0, (page + 1) * take)
        BY <1>1, <3>1, <3>7, <3>8, <3>9
      <3> QED BY <1>5, <3>10 DEF take
    <2>4. UNCHANGED item /\ limit \in LimitGiven \cup {Absent}
      BY <1>1, <1>2
    <2> HIDE DEF take
    <2> QED BY <1>5, <1>7, <1>8, <2>0, <2>2, <2>3, <2>4, ProductKeeps
  <1>9. CASE answer'.status # 200
    <2>1. answer' = Failed(400) \/ answer' = Failed(500)
      BY <1>1, <1>9, ProductQuery DEF IsProductPage
    <2>2. answer'.data = <<>>
      BY <2>1, FailedFacts
    <2>3. seen' \in Seq(Products)
      BY <1>1, <1>4, <2>2
    <2> QED BY <1>1, <1>5, <1>7, <2>1, <2>3, FailedStep
  <1> QED BY <1>8, <1>9

\* Every step keeps the invariant.
LEMMA StepInvariant == PagingInvariant /\ [Next]_vars => PagingInvariant'
  <1> SUFFICES ASSUME PagingInvariant, [Next]_vars PROVE PagingInvariant'
    OBVIOUS
  <1>1. CASE \E i \in Item : InsertItem(i) \/ DeleteItem(i)
    BY <1>1, InsertItemKeeps, DeleteItemKeeps
  <1>2. CASE \E limit \in LimitGiven : GetCart(limit)
    BY <1>2, GetCartKeeps
  <1>3. CASE NextItems
    BY <1>3, NextItemsKeeps
  <1>4. CASE PreviousItems
    BY <1>4, PreviousItemsKeeps
  <1>5. CASE \E criteria \in Criteria, page \in {Absent, NotANumeral, 0}, limit \in LimitGiven :
               GetProducts(criteria, page, limit)
    BY <1>5, GetProductsKeeps
  <1>6. CASE NextProducts
    BY <1>6, NextProductsKeeps
  <1>7. CASE UNCHANGED vars
    BY <1>7 DEF vars, PagingInvariant, TypeOK, CursorsAreOfTheCart, CursorsOf, AtMostOne,
                WalkIsKept, WalkedForward, WalkedBack, PagesAreKept, Mine, Present
  <1> QED BY <1>1, <1>2, <1>3, <1>4, <1>5, <1>6, <1>7 DEF Next

\* Every page and every cursor is what the walk so far makes of the table: the
\* invariant the promises of the listings rest on.
THEOREM PagesFollowTheTable == Spec => []PagingInvariant
  BY InitInvariant, StepInvariant, PTL DEF Spec

\* A client that follows the next cursors to the last page has been shown every
\* item that was there all the while, once and in order, for any number of items,
\* any limits and whatever is inserted and deleted between two pages.
THEOREM ForwardWalk == Spec => []ForwardWalkIsComplete
  <1>1. PagingInvariant => ForwardWalkIsComplete
    BY DEF PagingInvariant, WalkIsKept, WalkedForward, ForwardWalkIsComplete
  <1> QED BY <1>1, PagesFollowTheTable, PTL

\* So has a client that follows the previous cursors to the first page.
THEOREM BackwardWalk == Spec => []BackwardWalkIsComplete
  <1>1. PagingInvariant => BackwardWalkIsComplete
    BY DEF PagingInvariant, WalkIsKept, WalkedBack, BackwardWalkIsComplete
  <1> QED BY <1>1, PagesFollowTheTable, PTL

\* The pages of the products by identifier are cut from one answer without gap or
\* overlap, and the last of them ends it, for every table, filter and page size.
THEOREM ProductPages == Spec => []ProductPagesPartition
  <1>1. PagingInvariant => ProductPagesPartition
    <2> SUFFICES ASSUME PagingInvariant, listing.of = "products", answer.status = 200,
                        listing.criteria.sort = <<Ascending("uuid")>>
                 PROVE  /\ Increasing(seen)
                        /\ listing.page >= answer.totalPages => ToSet(seen) = Wanted(listing.criteria)
      BY DEF ProductPagesPartition
    <2> DEFINE rows == Matching(listing.criteria)
               allowed == {"name", "uuid", "createdAt"}
               take == PageLimit(listing.limit)
               n == listing.page * take
    <2>1. /\ listing.limit # NotANumeral
          /\ answer.totalPages = PageCount(Cardinality(rows), take)
          /\ \E s \in Ordered(rows, ByUuid, allowed) : seen = Cut(s, 0, n)
      BY DEF PagingInvariant, PagesAreKept, PageCount, ByUuid
    <2>2. rows = Wanted(listing.criteria)
      BY MatchingIsWanted
    <2>3. Keyed(rows) /\ IsFiniteSet(rows) /\ "uuid" \in allowed
      <3>1. rows \subseteq Products
        BY DEF Matching, Filtered
      <3>2. Keyed(rows)
        <4> HIDE DEF rows
        <4> QED BY <3>1, ItemsAreKeyed
      <3>3. IsFiniteSet(rows)
        <4> HIDE DEF rows
        <4> QED BY <3>2 DEF Keyed
      <3> QED BY <3>2, <3>3
    <2>4. listing.limit \in Nat \cup {Absent} /\ listing.page \in Nat
      BY <2>1, Limits DEF PagingInvariant, TypeOK
    <2>5. take \in Nat \ {0}
      <3> DEFINE limit == listing.limit
      <3>1. limit \in Nat \cup {Absent}
        BY <2>4
      <3> HIDE DEF limit
      <3>2. PageLimit(limit) \in Nat \ {0}
        BY <3>1, PageFacts
      <3> QED BY <3>2 DEF limit
    <2>6. n \in Nat
      BY <2>4, <2>5
    <2> HIDE DEF rows, allowed, take
    <2>7. PICK s \in Ordered(rows, ByUuid, allowed) : seen = Cut(s, 0, n)
      BY <2>1
    <2>8. /\ s \in Seq(rows) /\ Len(s) = Cardinality(rows) /\ DOMAIN s = 1..Len(s)
          /\ Len(s) \in Nat /\ ToSet(s) = rows /\ Increasing(s)
      BY <2>3, OrderedRows, OrderedByUuid
    <2> DEFINE last == IF 0 + n < Len(s) THEN 0 + n ELSE Len(s)
    <2>9. /\ seen \in Seq(rows) /\ Len(seen) = last /\ last <= Len(s)
          /\ \A k \in 1..last : seen[k] = s[k]
          /\ DOMAIN seen = 1..last
      <3>1. last \in Nat /\ last <= Len(s) /\ last = IF n < Len(s) THEN n ELSE Len(s)
        BY <2>6, <2>8
      <3>2. s \in Seq(rows)
        BY <2>8
      <3> HIDE DEF last, n
      <3>3. /\ Cut(s, 0, n) \in Seq(rows) /\ Len(Cut(s, 0, n)) = IF n < Len(s) THEN n ELSE Len(s)
            /\ \A k \in 1..Len(Cut(s, 0, n)) : Cut(s, 0, n)[k] = s[k]
        BY <2>6, <3>2, FirstCut
      <3>4. Len(seen) = last /\ seen \in Seq(rows)
        BY <2>7, <3>1, <3>3
      <3>5. \A k \in 1..last : seen[k] = s[k]
        BY <2>7, <3>3, <3>4
      <3> QED BY <3>1, <3>4, <3>5, LenProperties
    <2>10. Increasing(seen)
      <3>1. \A k \in 1..last : k \in DOMAIN s
        BY <2>6, <2>8, <2>9
      <3> HIDE DEF last
      <3> QED BY <2>8, <2>9, <3>1 DEF Increasing
    <2>11. ASSUME listing.page >= answer.totalPages
           PROVE  ToSet(seen) = rows
      <3>1. Cardinality(rows) \in Nat
        BY <2>8
      <3>2. n >= Cardinality(rows)
        <4>1. listing.page >= PageCount(Cardinality(rows), take)
          BY <2>1, <2>11
        <4> QED BY <2>4, <2>5, <3>1, <4>1, PageCountCovers
      <3>3. last = Len(s)
        BY <2>6, <2>8, <3>2
      <3> HIDE DEF last, n
      <3> QED BY <2>8, <2>9, <3>3 DEF ToSet
    <2> QED BY <2>2, <2>10, <2>11 DEF rows
  <1> QED BY <1>1, PagesFollowTheTable, PTL

\* No request shows an item of another customer's cart, or one that is not there.
THEOREM OnlyMyItems == Spec => PagesAreMine
  <1>1. ASSUME PagingInvariant, [Next]_vars, listing'.of = "cart", answer' # answer
        PROVE  ToSet(answer'.data) \subseteq Mine
    <2>1. ASSUME NEW limit \in LimitGiven \cup {Absent}, NEW next, NEW previous,
                 answer' \in FindCartItems(limit, next, previous)
          PROVE  ToSet(answer'.data) \subseteq Mine
      <3>1. CASE limit = NotANumeral
        <4>1. answer' = Failed(500)
          BY <2>1, <3>1, CartRefused
        <4> QED BY <4>1, FailedFacts
      <3>2. CASE limit \in Nat \cup {Absent}
        <4>1. answer'.data \in Seq(Asked(next, previous))
          BY <2>1, <3>2, CartPage
        <4>2. \A k \in DOMAIN answer'.data : answer'.data[k] \in Asked(next, previous)
          BY <4>1, ElementOfSeq, LenProperties
        <4> QED BY <4>2 DEF Asked, ToSet
      <3> QED BY <3>1, <3>2, Limits
    <2>2. ASSUME NEW i \in Item, InsertItem(i) \/ DeleteItem(i) PROVE FALSE
      BY <1>1, <2>2 DEF InsertItem, DeleteItem
    <2>3. ASSUME NEW limit \in LimitGiven, GetCart(limit)
          PROVE  ToSet(answer'.data) \subseteq Mine
      BY <2>1, <2>3 DEF GetCart
    <2>4. listing.limit \in LimitGiven \cup {Absent}
      BY <1>1 DEF PagingInvariant, TypeOK
    <2>5. CASE NextItems
      BY <2>1, <2>4, <2>5 DEF NextItems
    <2>6. CASE PreviousItems
      BY <2>1, <2>4, <2>6 DEF PreviousItems
    <2>7. ASSUME NEW criteria \in Criteria, NEW page, NEW limit, GetProducts(criteria, page, limit)
          PROVE  FALSE
      BY <1>1, <2>7 DEF GetProducts
    <2>8. CASE NextProducts
      <3>1. listing.of = "products" /\ listing'.of = listing.of
        BY <1>1, <2>8 DEF NextProducts, PagingInvariant, TypeOK
      <3> QED BY <1>1, <3>1
    <2>9. CASE UNCHANGED vars
      BY <1>1, <2>9 DEF vars
    <2> QED BY <1>1, <2>2, <2>3, <2>5, <2>6, <2>7, <2>8, <2>9 DEF Next
  <1>2. PagingInvariant /\ [Next]_vars =>
          [listing'.of = "cart" /\ answer' # answer => ToSet(answer'.data) \subseteq Mine]_vars
    BY <1>1
  <1> QED BY <1>2, PagesFollowTheTable, PTL DEF Spec, PagesAreMine

==============================================================================
