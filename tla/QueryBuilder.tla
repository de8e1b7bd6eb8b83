----------------------------- MODULE QueryBuilder -----------------------------
(***************************************************************************)
(* TypeOrmQueryBuilderService: the queries behind every listing.  A row is  *)
(* a function from its fields to numbers; a query has the set of answers    *)
(* that PostgreSQL may give, which orders rows the ORDER BY does not tell   *)
(* apart in any way.                                                        *)
(***************************************************************************)
EXTENDS Integers, FiniteSets, Sequences, SequencesExt

CONSTANTS
  Base,         \* the base numerals are written in: 10
  DefaultTake,  \* the page size of a request that names none: 20
  MaxTake,      \* the largest page of a listing by page number: 100
  Likeness      \* which text is in which: <<"like" or "ilike", part, value of a column>>

ASSUME PageSizeAssumption ==
  Base \in Nat \ {0, 1} /\ DefaultTake \in Nat \ {0} /\ MaxTake \in Nat \ {0}

\* The query string carries text, which nothing converts: a limit that is given
\* is a numeral, or no numeral at all.
Absent == -1
NotANumeral == -2

Ascending(field) == [field |-> field, direction |-> "ASC"]
Descending(field) == [field |-> field, direction |-> "DESC"]
Reversed(sorts) ==
  [i \in DOMAIN sorts |->
     [sorts[i] EXCEPT !.direction = IF @ = "ASC" THEN "DESC" ELSE "ASC"]]

\* Slip: a row that equals the cursor in its first field is let through.
BeyondOrAt(row, cursor, sorts) ==
  \E i \in DOMAIN sorts \cap {1} :
    IF sorts[i].direction = "ASC"
    THEN row[sorts[i].field] >= cursor[sorts[i].field]
    ELSE row[sorts[i].field] <= cursor[sorts[i].field]

\* The row comes after the cursor: it exceeds it in one field and equals it in
\* those before.
Beyond(row, cursor, sorts) ==
  \E i \in DOMAIN sorts :
    /\ \A j \in 1..(i - 1) : row[sorts[j].field] = cursor[sorts[j].field]
    /\ IF sorts[i].direction = "ASC"
       THEN row[sorts[i].field] > cursor[sorts[i].field]
       ELSE row[sorts[i].field] < cursor[sorts[i].field]

\* Sorts by a field that is not allowed are skipped: they see no difference.
Ordered(rows, sorts, allowed) ==
  LET Sortable(row) == [field \in DOMAIN row |-> IF field \in allowed THEN row[field] ELSE 0]
  IN {s \in SetToSeqs(rows) :
        \A i \in DOMAIN s : \A j \in 1..(i - 1) : ~Beyond(Sortable(s[j]), Sortable(s[i]), sorts)}

Cut(s, from, length) == SubSeq(s, from + 1, IF from + length < Len(s) THEN from + length ELSE Len(s))

\* The columns of text; numbers stand for what they hold.
TextFields == {"name"}

\* The condition of one filter on a column that is not null; an operator that is
\* not known adds none, nor does a part that is no text, and a list of no values
\* is in no row.
Satisfies(row, filter) ==
  CASE filter.operator = "eq" -> row[filter.field] = filter.value
    [] filter.operator = "neq" -> row[filter.field] # filter.value
    [] filter.operator = "gt" -> row[filter.field] > filter.value
    [] filter.operator = "gte" -> row[filter.field] >= filter.value
    [] filter.operator = "lt" -> row[filter.field] < filter.value
    [] filter.operator = "lte" -> row[filter.field] <= filter.value
    [] filter.operator \in {"like", "ilike"} ->
         <<filter.operator, filter.value, row[filter.field]>> \in Likeness
    [] filter.operator = "isNotNull" -> TRUE
    [] filter.operator \in {"isNull", "inEmpty"} -> FALSE
    [] OTHER -> TRUE

\* Slip: the test of the allowed fields is the wrong way round.
FilteredByOthers(rows, filters, allowed) ==
  {row \in rows : \A filter \in filters : filter.field \notin allowed => Satisfies(row, filter)}

Filtered(rows, filters, allowed) ==
  {row \in rows : \A filter \in filters : filter.field \in allowed => Satisfies(row, filter)}

\* A filter by a list of values binds them under the wrong name, and the query
\* fails for want of its parameter; PostgreSQL has no LIKE but for text.
IsRefused(filters, allowed) ==
  \E filter \in filters :
    /\ filter.field \in allowed
    /\ \/ filter.operator = "in"
       \/ filter.operator \in {"like", "ilike"} /\ filter.field \notin TextFields

Failed(status) ==
  [status |-> status, data |-> <<>>, next |-> {}, previous |-> {},
   hasNextPage |-> FALSE, hasPreviousPage |-> FALSE, totalPages |-> 0]

------------------------------------------------------------------------------
(* Pages by number. *)

Clamped(n, low, high) == IF n < low THEN low ELSE IF n > high THEN high ELSE n
PageNumber(page) == IF page = Absent \/ page < 1 THEN 1 ELSE page
PageLimit(limit) == IF limit = Absent THEN DefaultTake ELSE Clamped(limit, 1, MaxTake)

\* Slip: the pages that are skipped are counted from one.
SkippedFromOne(page, limit) == PageNumber(page) * PageLimit(limit)

Skipped(page, limit) == (PageNumber(page) - 1) * PageLimit(limit)

\* The rows of a page and the number of pages.
BuildQuery(rows, filters, sorts, allowedFilters, allowedSorts, page, limit) ==
  IF page = NotANumeral \/ limit = NotANumeral THEN {Failed(500)}
  ELSE IF IsRefused(filters, allowedFilters) THEN {Failed(400)}
  ELSE LET matching == Filtered(rows, filters, allowedFilters)
           take == PageLimit(limit)
       IN {[Failed(200) EXCEPT !.data = Cut(s, Skipped(page, limit), take),
                               !.totalPages = (Cardinality(matching) + take - 1) \div take] :
             s \in Ordered(matching, sorts, allowedSorts)}

------------------------------------------------------------------------------
(* Pages by cursor. *)

\* Adding one to a limit that the request gave appends the digit 1 to it.
Taken(limit) == IF limit = Absent THEN DefaultTake + 1 ELSE Base * limit + 1
Limit(limit) == IF limit = Absent THEN DefaultTake ELSE limit

\* A cursor is the values of its row in the fields of the sort.
EncodeCursor(row, sorts) ==
  [field \in {sorts[i].field : i \in DOMAIN sorts} |-> row[field]]

\* Slip: the row beyond the limit, which shows that there are more, is kept.
KeptWhole(found, limit) == found

\* Of the rows found at most one is dropped.
Kept(found, limit) == IF Len(found) > Limit(limit) THEN Front(found) ELSE found

\* Slip: the items before the cursor are handed out as they were read.
InOrderAsRead(kept, seekingPrevious) == kept

\* The items before a cursor are read backwards.
InOrder(kept, seekingPrevious) == IF seekingPrevious THEN Reverse(kept) ELSE kept

\* next and previous are the cursors of the request: none, or one.
BuildQueryWithCursor(rows, filters, sorts, allowedFilters, allowedSorts, limit, next, previous) ==
  LET seekingPrevious == previous # {}
      actual == IF seekingPrevious THEN Reversed(sorts) ELSE sorts
      cursors == IF seekingPrevious THEN previous ELSE next
      matching == {row \in Filtered(rows, filters, allowedFilters) :
                     \A cursor \in cursors : Beyond(row, cursor, actual)}
      Page(found) ==
        LET hasMore == Len(found) > Limit(limit)
            data == InOrder(Kept(found, limit), seekingPrevious)
            hasNext == hasMore \/ (seekingPrevious /\ next # {})
            hasPrevious == IF seekingPrevious THEN hasMore ELSE next # {}
        IN [status |-> 200, data |-> data, totalPages |-> 0,
            hasNextPage |-> hasNext, hasPreviousPage |-> hasPrevious,
            next |-> IF hasNext /\ data # <<>> THEN {EncodeCursor(Last(data), sorts)} ELSE {},
            previous |-> IF hasPrevious /\ data # <<>>
                         THEN {EncodeCursor(Head(data), sorts)} ELSE {}]
  IN IF limit = NotANumeral THEN {Failed(500)}
     ELSE IF IsRefused(filters, allowedFilters) THEN {Failed(400)}
     ELSE {Page(Cut(s, 0, Taken(limit))) : s \in Ordered(matching, actual, allowedSorts)}

==============================================================================
