--------------------------- MODULE PagingInvariants ---------------------------
(***************************************************************************)
(* The inductive invariant behind the walks of Paging: what was shown, and  *)
(* what the cursors or the page number still promise to show.               *)
(***************************************************************************)
EXTENDS Paging

\* The sort that every listing of a cart uses.
ByUuid == <<Ascending("uuid")>>

AtMostOne(S) == \A a, b \in S : a = b

\* The cursors of a page name its last and its first row.
CursorsOf(a) ==
  /\ \A c \in a.next : a.data # <<>> /\ c.uuid = Last(a.data).uuid
  /\ \A c \in a.previous : a.data # <<>> /\ c.uuid = Head(a.data).uuid
  /\ AtMostOne(a.next) /\ AtMostOne(a.previous)

\* Only an answered request for the cart hands out cursors.
CursorsAreOfTheCart ==
  /\ CursorsOf(answer)
  /\ answer.next # {} \/ answer.previous # {} => listing.of = "cart" /\ answer.status = 200

\* Each item of rest, which has been there all the while, was shown or lies
\* beyond the cursor in the direction of the walk; what was shown lies before it.
WalkedForward(a, shown, rest) ==
  /\ shown \in Seq(Item) /\ Increasing(shown)
  /\ \A c \in a.next : \A k \in DOMAIN shown : shown[k].uuid <= c.uuid
  /\ \A i \in rest :
       i \in ToSet(shown) \/ (a.hasNextPage /\ \A c \in a.next : i.uuid > c.uuid)

WalkedBack(a, shown, rest) ==
  /\ shown \in Seq(Item) /\ Increasing(shown)
  /\ \A c \in a.previous : \A k \in DOMAIN shown : shown[k].uuid >= c.uuid
  /\ \A i \in rest :
       i \in ToSet(shown) \/ (a.hasPreviousPage /\ \A c \in a.previous : i.uuid < c.uuid)

WalkIsKept ==
  listing.of = "cart" /\ answer.status = 200 =>
    /\ listing.limit # NotANumeral
    /\ answer.data \in Seq(Item)
    /\ steady \subseteq Mine
    /\ listing.forward => WalkedForward(answer, seen, steady)
    /\ ~listing.forward => WalkedBack(answer, seen, steady)

\* The products the query finds.
Matching(criteria) == Filtered(Products, criteria.filters, {"uuid", "name", "price"})

\* The pages so far are the first rows of the one answer there is.
PagesAreKept ==
  /\ answer.status # 200 => answer.totalPages = 0
  /\ listing.of = "products" /\ answer.status = 200 =>
       LET take == PageLimit(listing.limit)
           matching == Matching(listing.criteria) IN
       /\ listing.limit # NotANumeral
       /\ answer.totalPages = (Cardinality(matching) + take - 1) \div take
       /\ seen \in Seq(Products)
       /\ listing.criteria.sort = ByUuid =>
            \E s \in Ordered(matching, ByUuid, {"name", "uuid", "createdAt"}) :
              seen = Cut(s, 0, listing.page * take)

\* Whatever came and went since the last page, each row that was there all the
\* while was shown or lies beyond the cursor, and the pages of products shown so
\* far are the first rows of the one answer there is.
PagingInvariant == TypeOK /\ CursorsAreOfTheCart /\ WalkIsKept /\ PagesAreKept

==============================================================================
