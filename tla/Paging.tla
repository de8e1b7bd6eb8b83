-------------------------------- MODULE Paging --------------------------------
(***************************************************************************)
(* A client that browses: the items of its cart by cursor, forwards and     *)
(* back, while other requests insert and delete items; or the products by   *)
(* page number.  Each request is one query, and nothing keeps the table as  *)
(* it was between two pages.                                                *)
(***************************************************************************)
EXTENDS QueryBuilder

CONSTANTS
  Item,          \* the items a cart may come to have, as rows
  Products,      \* the products table, as rows; no request changes it
  Criteria,      \* the filters and sorts that clients send for products
  LimitGiven,    \* the limits that clients send
  MyCart         \* the cart the client browses

ASSUME RowAssumption ==
  /\ IsFiniteSet(Item) /\ IsFiniteSet(Products)
  /\ \A item \in Item : {"uuid", "cartId"} \subseteq DOMAIN item /\ item.uuid \in Nat
  /\ \A product \in Products :
       {"uuid", "name", "price", "createdAt"} \subseteq DOMAIN product /\ product.uuid \in Nat
  /\ \A a, b \in Item : a.uuid = b.uuid => a = b
  /\ \A a, b \in Products : a.uuid = b.uuid => a = b
  /\ LimitGiven \subseteq Nat \cup {Absent, NotANumeral}

VARIABLES
  item,     \* [Item -> {"absent", "present", "deleted"}], the cart_items table
  listing,  \* what the client browses, and how it asks
  answer,   \* the page it was given last
  seen,     \* history: the rows shown since it last turned round
  steady    \* history: the rows that lay ahead then and are still there

vars == <<item, listing, answer, seen, steady>>

NoListing == [of |-> "nothing", forward |-> TRUE, limit |-> Absent, page |-> 1,
              criteria |-> [filters |-> {}, sort |-> <<>>]]

TypeOK ==
  /\ item \in [Item -> {"absent", "present", "deleted"}]
  /\ listing \in [of : {"nothing", "cart", "products"}, forward : BOOLEAN,
                  limit : LimitGiven \cup {Absent}, page : Nat \ {0},
                  criteria : Criteria \cup {NoListing.criteria}]
  /\ answer.status \in {0, 200, 400, 500}
  /\ answer.data \in Seq(Item) \cup Seq(Products)
  /\ answer.status = 200 =>
       Len(answer.data) <= IF listing.of = "cart" THEN Taken(listing.limit) - 1
                           ELSE IF listing.limit = Absent THEN DefaultTake ELSE MaxTake
  /\ Cardinality(answer.next) <= 1 /\ Cardinality(answer.previous) <= 1
  /\ seen \in Seq(Item) \cup Seq(Products)
  /\ steady \subseteq Item \cup Products

Init ==
  /\ item \in [Item -> {"absent", "present"}]
  /\ listing = NoListing
  /\ answer = Failed(0)
  /\ seen = <<>>
  /\ steady = {}

Present == {i \in Item : item[i] = "present"}
Mine == {i \in Present : i.cartId = MyCart}

------------------------------------------------------------------------------
(* Items come and go; identifiers are random, and never used again.  The      *)
(* products do not depend on them, so they change while the cart is browsed. *)

InsertItem(i) ==
  /\ listing.of = "cart"
  /\ item[i] = "absent"
  /\ item' = [item EXCEPT ![i] = "present"]
  /\ UNCHANGED <<listing, answer, seen, steady>>

DeleteItem(i) ==
  /\ listing.of = "cart"
  /\ item[i] = "present"
  /\ item' = [item EXCEPT ![i] = "deleted"]
  /\ steady' = steady \ {i}
  /\ UNCHANGED <<listing, answer, seen>>

------------------------------------------------------------------------------
(* The cart. *)

\* The items of the cart, by identifier.
FindCartItems(limit, next, previous) ==
  BuildQueryWithCursor(Present, {[field |-> "cartId", operator |-> "eq", value |-> MyCart]},
                       <<Ascending("uuid")>>, {"cartId"}, {"createdAt", "uuid"},
                       limit, next, previous)

GetCart(limit) ==
  /\ listing.of = "nothing"
  /\ listing' = [NoListing EXCEPT !.of = "cart", !.limit = limit]
  /\ answer' \in FindCartItems(limit, {}, {})
  /\ seen' = answer'.data
  /\ steady' = Mine
  /\ UNCHANGED item

\* The client sends back the cursor of the page it has.
NextItems ==
  /\ listing.of = "cart"
  /\ answer.next # {}
  /\ answer' \in FindCartItems(listing.limit, answer.next, {})
  /\ listing' = [listing EXCEPT !.forward = TRUE]
  /\ IF listing.forward
     THEN seen' = seen \o answer'.data /\ UNCHANGED steady
     ELSE /\ seen' = answer'.data
          /\ steady' = {i \in Mine : \E cursor \in answer.next : i.uuid > cursor.uuid}
  /\ UNCHANGED item

\* It may send the cursor of the next page along.
PreviousItems ==
  /\ listing.of = "cart"
  /\ answer.previous # {}
  /\ \E next \in {{}, answer.next} :
       answer' \in FindCartItems(listing.limit, next, answer.previous)
  /\ listing' = [listing EXCEPT !.forward = FALSE]
  /\ IF listing.forward
     THEN /\ seen' = answer'.data
          /\ steady' = {i \in Mine : \E cursor \in answer.previous : i.uuid < cursor.uuid}
     ELSE seen' = answer'.data \o seen /\ UNCHANGED steady
  /\ UNCHANGED item

------------------------------------------------------------------------------
(* The products. *)

FindProducts(criteria, page, limit) ==
  BuildQuery(Products, criteria.filters,
             IF criteria.sort = <<>> THEN <<Descending("createdAt")>> ELSE criteria.sort,
             {"uuid", "name", "price"}, {"name", "uuid", "createdAt"}, page, limit)

GetProducts(criteria, page, limit) ==
  /\ listing.of = "nothing"
  /\ listing' = [of |-> "products", forward |-> TRUE, limit |-> limit, page |-> PageNumber(page),
                 criteria |-> criteria]
  /\ answer' \in FindProducts(criteria, page, limit)
  /\ seen' = answer'.data
  /\ steady' = {}
  /\ UNCHANGED item

NextProducts ==
  /\ listing.of = "products"
  /\ listing.page < answer.totalPages
  /\ listing' = [listing EXCEPT !.page = @ + 1]
  /\ answer' \in FindProducts(listing.criteria, listing.page + 1, listing.limit)
  /\ seen' = seen \o answer'.data
  /\ UNCHANGED <<item, steady>>

Next ==
  \/ \E i \in Item : InsertItem(i) \/ DeleteItem(i)
  \/ \E limit \in LimitGiven : GetCart(limit)
  \/ NextItems \/ PreviousItems
  \/ \E criteria \in Criteria, page \in {Absent, NotANumeral, 0}, limit \in LimitGiven :
       GetProducts(criteria, page, limit)
  \/ NextProducts

Spec == Init /\ [][Next]_vars

------------------------------------------------------------------------------
(* Properties. *)

Increasing(rows) == \A i, j \in DOMAIN rows : i < j => rows[i].uuid < rows[j].uuid

\* A client that follows the next cursors to the last page has been shown every
\* item that was there all the while exactly once and in order, whatever was
\* inserted and deleted between two pages, and even if the row its cursor names
\* is gone.  A page may be longer than its limit, but it skips nothing.
ForwardWalkIsComplete ==
  listing.of = "cart" /\ listing.forward /\ answer.status = 200 =>
    /\ Increasing(seen)
    /\ ~answer.hasNextPage => steady \subseteq ToSet(seen)

\* So has a client that follows the previous cursors to the first page, of the
\* items before the page it turned round at.
BackwardWalkIsComplete ==
  listing.of = "cart" /\ ~listing.forward /\ answer.status = 200 =>
    /\ Increasing(seen)
    /\ ~answer.hasPreviousPage => steady \subseteq ToSet(seen)

\* No page shows an item of another customer's cart, nor one that was not there
\* when it was asked for.
PagesAreMine ==
  [][listing'.of = "cart" /\ answer' # answer => ToSet(answer'.data) \subseteq Mine]_vars

\* The products that pass the filters of allowed fields.
Wanted(criteria) ==
  {p \in Products :
     \A f \in {g \in criteria.filters : g.field \in {"uuid", "name", "price"}} :
       /\ f.operator = "eq" => p[f.field] = f.value
       /\ f.operator = "neq" => p[f.field] # f.value
       /\ f.operator = "gt" => p[f.field] > f.value
       /\ f.operator = "gte" => p[f.field] >= f.value
       /\ f.operator = "lt" => p[f.field] < f.value
       /\ f.operator = "lte" => p[f.field] <= f.value
       /\ f.operator \in {"like", "ilike"} => <<f.operator, f.value, p[f.field]>> \in Likeness
       /\ f.operator \notin {"isNull", "inEmpty"}}

\* The pages of the products, taken in the order of a field in which they all
\* differ, show every product that passes the filters once, and no other.  By
\* the date of creation, the order of a request that names none, a page may
\* repeat a product of the one before.
ProductPagesPartition ==
  listing.of = "products" /\ answer.status = 200 /\ listing.criteria.sort = <<Ascending("uuid")>> =>
    /\ Increasing(seen)
    /\ listing.page >= answer.totalPages => ToSet(seen) = Wanted(listing.criteria)

\* A page after which items are left has a next page, so that a client that went
\* back can go forward again.  The code breaks it: the first page, reached by the
\* previous cursor alone, claims to be the last.
NextPageIsOffered ==
  LET shown == steady \cup ToSet(seen) IN
  listing.of = "cart" /\ answer.status = 200 /\ answer.data # <<>> /\ ~answer.hasNextPage =>
    \A i \in Mine \cap shown : i.uuid <= Last(answer.data).uuid

\* No page is longer than the limit it was asked with.  The code breaks it.
PagesRespectLimit ==
  listing.of = "cart" /\ listing.limit # Absent => Len(answer.data) <= listing.limit

==============================================================================
