--------------------------------- MODULE Cart ---------------------------------
(***************************************************************************)
(* The shopping cart.  A handler loads the customer's cart with its items,  *)
(* changes it in memory and persists it: the repository reads the items     *)
(* again, deletes them all, and saves the changed list in a second          *)
(* transaction.  Nothing locks the cart, so the requests of one customer    *)
(* meet between any two of these calls.                                     *)
(***************************************************************************)
EXTENDS Session, Sequences, FiniteSets, SequencesExt

CONSTANTS
  Request,     \* the requests; a cart is named after the request that creates it
  Product,     \* product identifiers that customers send
  Catalog,     \* those the products table holds
  Command,     \* the commands customers send
  MaxCrashes   \* bound on the number of crashes

ASSUME CatalogAssumption == IsFiniteSet(Product) /\ Catalog \subseteq Product
\* What the validation of a request lets through.
CartCommand ==
  [op : {"add", "update", "remove", "get"}, product : Product, quantity : Nat \ {0}]

ASSUME CommandAssumption == Command \subseteq CartCommand
ASSUME BoundsAssumption == MaxCrashes \in Nat

VARIABLES
  carts,      \* the carts table, [cart -> customer] for the carts created
  rows,       \* the cart_items table
  pc,         \* where each request is
  token,      \* the token each request carries
  command,    \* what it asks for
  draft,      \* the aggregate it holds, and what the save will do with it
  answer,     \* what its client was told
  expected,   \* history: the contents by the requests that were answered
  disturbed,  \* history: the customers whose requests met, or failed half-way
  crashes     \* number of crashes

vars == <<carts, rows, pc, token, command, draft, answer, expected, disturbed, crashes>>

\* Rows that a request inserts get an identifier of their own.
ItemId == Request \X Product
Line == [id : ItemId, quantity : Nat]
Row == [id : ItemId, cart : Request, product : Product, quantity : Nat]

NoCart == [p \in Product |-> <<>>]
NoDraft == [cart |-> {}, lines |-> NoCart, removes |-> {}, known |-> {}, orphans |-> {}]
NoCommand == [op |-> "none", product |-> CHOOSE p \in Product : TRUE, quantity |-> 0]
NoAnswer == [status |-> 0, lines |-> {}]
Draft == [cart : SUBSET Request, lines : [Product -> Seq(Line)],
          removes : SUBSET ItemId, known : SUBSET ItemId, orphans : SUBSET ItemId]
Answer == [status : {0, 200, 401, 403, 404, 500},
           lines : SUBSET [product : Product, quantity : Nat]]

Place == {"idle", "guarded", "loading", "creating", "persisting", "removing",
          "saving", "writing", "responding", "done"}

TypeOK ==
  /\ DOMAIN carts \subseteq Request /\ carts \in [DOMAIN carts -> Customer]
  /\ rows \subseteq Row
  /\ pc \in [Request -> Place]
  /\ token \in [Request -> TokenPayload \cup {NoToken}]
  /\ command \in [Request -> Command \cup {NoCommand}]
  /\ draft \in [Request -> Draft]
  /\ answer \in [Request -> Answer]
  /\ expected \in [Customer -> [Product -> Nat]]
  /\ disturbed \subseteq Customer
  /\ crashes \in 0..MaxCrashes

Init ==
  /\ carts = [k \in {} |-> NoCustomer]
  /\ rows = {}
  /\ pc = [r \in Request |-> "idle"]
  /\ token = [r \in Request |-> NoToken]
  /\ command = [r \in Request |-> NoCommand]
  /\ draft = [r \in Request |-> NoDraft]
  /\ answer = [r \in Request |-> NoAnswer]
  /\ expected = [c \in Customer |-> [p \in Product |-> 0]]
  /\ disturbed = {}
  /\ crashes = 0

Me(r) == token[r].customerId
CartsOf(c) == {k \in DOMAIN carts : carts[k] = c}
RowsOf(k) == {row \in rows : row.cart = k}
InProgress(r) == pc[r] \notin {"idle", "done"}
\* The items are deleted and not yet inserted, or inserted and not yet answered.
HalfWay(r) == pc[r] \in {"saving", "writing", "responding"}
Ids(lines) == {line.id : line \in UNION {Range(lines[p]) : p \in Product}}

LinesOf(s) == {[id |-> row.id, quantity |-> row.quantity] : row \in s}

\* A query returns the rows of a cart in any order.  The order matters among
\* the lines of one product only, so they are grouped by product.
Queried(k) ==
  {lines \in [Product -> UNION {SetToSeqs(LinesOf(s)) : s \in SUBSET RowsOf(k)}] :
     \A p \in Product : Range(lines[p]) = LinesOf({row \in RowsOf(k) : row.product = p})}

Goes(r, place) == pc' = [pc EXCEPT ![r] = place]
Answers(r, status) == answer' = [answer EXCEPT ![r] = [status |-> status, lines |-> {}]]
Fails(r, status) ==
  /\ Answers(r, status)
  /\ Goes(r, "done")
  /\ draft' = [draft EXCEPT ![r] = NoDraft]
  /\ UNCHANGED <<carts, rows>>
Asks == UNCHANGED <<token, command, expected, disturbed, crashes>>

------------------------------------------------------------------------------
(* The request, its guards, and the aggregate. *)

Send(r, credentials, c) ==
  /\ pc[r] = "idle"
  /\ command' = [command EXCEPT ![r] = c]
  /\ \/ /\ Login(credentials) = {}
        /\ Answers(r, 401) /\ Goes(r, "done")
        /\ UNCHANGED <<token, disturbed>>
     \/ \E t \in Login(credentials) :
          /\ token' = [token EXCEPT ![r] = t]
          /\ disturbed' = disturbed \cup
               {d \in {t.customerId} \cap Customer :
                  \E s \in Request : InProgress(s) /\ Me(s) = d}
          /\ IF ValidateToken(t) /\ IsCustomer(t)
             THEN Goes(r, IF c.op = "get" THEN "responding" ELSE "guarded")
                  /\ UNCHANGED answer
             ELSE Answers(r, IF ValidateToken(t) THEN 403 ELSE 401) /\ Goes(r, "done")
  /\ UNCHANGED <<carts, rows, draft, expected, crashes>>

\* Only a request that adds looks the product up.
FindProduct(r) ==
  /\ pc[r] = "guarded"
  /\ IF command[r].op = "add" /\ command[r].product \notin Catalog
     THEN Fails(r, 404)
     ELSE Goes(r, "loading") /\ UNCHANGED <<carts, rows, draft, answer>>
  /\ Asks

\* The first item of a product gets a new quantity.
Quantified(items, quantity) == [items EXCEPT ![1] = [id |-> items[1].id, quantity |-> quantity]]

AddCartItem(lines, r) ==
  LET p == command[r].product
      items == IF lines[p] = <<>>
               THEN <<[id |-> <<r, p>>, quantity |-> command[r].quantity]>>
               ELSE Quantified(lines[p], lines[p][1].quantity + command[r].quantity)
  IN [lines EXCEPT ![p] = items]

UpdateItemQuantity(lines, r) ==
  LET p == command[r].product IN
  [lines EXCEPT ![p] = Quantified(lines[p], command[r].quantity)]

RemoveCartItem(lines, r) == [lines EXCEPT ![command[r].product] = <<>>]

\* What a command makes of the lines it has found; no result if the aggregate
\* throws, because the product is not in the cart.
UpdateItem(lines, r) == IF lines[command[r].product] = <<>> THEN {} ELSE {UpdateItemQuantity(lines, r)}
RemoveItem(lines, r) == IF lines[command[r].product] = <<>> THEN {} ELSE {RemoveCartItem(lines, r)}

Changed(lines, r) ==
  CASE command[r].op = "add" -> {AddCartItem(lines, r)}
    [] command[r].op = "update" -> UpdateItem(lines, r)
    [] command[r].op = "remove" -> RemoveItem(lines, r)

\* findByUniqueId finds one of the customer's carts, and the handler changes
\* what it found.  A new cart, which no query can find yet, is inserted next.
LoadCart(r) ==
  /\ pc[r] = "loading"
  /\ \/ /\ CartsOf(Me(r)) = {}
        /\ IF command[r].op = "add"
           THEN /\ draft' = [draft EXCEPT ![r] = [@ EXCEPT !.cart = {r}, !.lines = AddCartItem(NoCart, r)]]
                /\ Goes(r, "creating")
                /\ UNCHANGED <<carts, rows, answer>>
           ELSE Fails(r, 404)
     \/ \E k \in CartsOf(Me(r)) : \E found \in Queried(k) :
          IF Changed(found, r) = {}
          THEN Fails(r, 404)
          ELSE /\ \E lines \in Changed(found, r) :
                    draft' = [draft EXCEPT ![r] = [@ EXCEPT !.cart = {k}, !.lines = lines]]
               /\ Goes(r, "persisting")
               /\ UNCHANGED <<carts, rows, answer>>
  /\ Asks

------------------------------------------------------------------------------
(* CartRepository.persist. *)

\* A new cart and its item are inserted in one transaction.
CreateCart(r) ==
  /\ pc[r] = "creating"
  /\ carts' = [k \in DOMAIN carts \cup {r} |-> IF k = r THEN Me(r) ELSE carts[k]]
  /\ rows' = rows \cup {[id |-> line.id, cart |-> r, product |-> line.id[2],
                          quantity |-> line.quantity] :
                           line \in Range(draft[r].lines[command[r].product])}
  /\ Goes(r, "responding")
  /\ UNCHANGED <<draft, answer>>
  /\ Asks

\* Slip: the quantities of the two lists are added.
MergedTwice(stored, incoming, r) ==
  [p \in Product |->
     IF incoming[p] = <<>> \/ stored[p] = <<>> THEN incoming[p]
     ELSE <<[id |-> <<r, p>>, quantity |-> Last(stored[p]).quantity + Last(incoming[p]).quantity]>>]

\* Slip: the stored lines that the aggregate has dropped are kept.
MergedKeeps(stored, incoming, r) ==
  [p \in Product |->
     IF stored[p] = <<>> THEN incoming[p]
     ELSE <<[id |-> <<r, p>>,
             quantity |-> IF incoming[p] = <<>> THEN Last(stored[p]).quantity
                          ELSE Last(incoming[p]).quantity]>>]

\* A line whose product is stored takes the place of the stored item: the map
\* holds the last item of each product, and the last line sets its quantity.
\* The item loses its identifier when it is removed and gets a new one.
Merged(stored, incoming, r) ==
  [p \in Product |->
     IF incoming[p] = <<>> \/ stored[p] = <<>> THEN incoming[p]
     ELSE <<[id |-> <<r, p>>, quantity |-> Last(incoming[p]).quantity]>>]

ReadStored(r) ==
  /\ pc[r] = "persisting"
  /\ \E k \in draft[r].cart : \E stored \in Queried(k) :
       draft' = [draft EXCEPT ![r] = [@ EXCEPT !.lines = Merged(stored, draft[r].lines, r),
                                               !.removes = Ids(stored)]]
  /\ Goes(r, "removing")
  /\ UNCHANGED <<carts, rows, answer>>
  /\ Asks

\* The first transaction deletes every item that was read.
RemoveItems(r) ==
  /\ pc[r] = "removing"
  /\ rows' = {row \in rows : row.id \notin draft[r].removes}
  /\ draft' = [draft EXCEPT ![r] = [@ EXCEPT !.removes = {}]]
  /\ Goes(r, "saving")
  /\ UNCHANGED <<carts, answer>>
  /\ Asks

\* save reads which items exist: those of the list are updated, and the cart's
\* other items are orphans, whose cart_id it will set to null.
ReadForSave(r) ==
  LET listed == Ids(draft[r].lines) IN
  /\ pc[r] = "saving"
  /\ draft' = [draft EXCEPT ![r] = [@ EXCEPT
       !.known = {row.id : row \in rows} \cap listed,
       !.orphans = {row.id : row \in {row \in rows : row.cart \in draft[r].cart}} \ listed]]
  /\ Goes(r, "writing")
  /\ UNCHANGED <<carts, rows, answer>>
  /\ Asks

\* cart_id may not be null, and an identifier may not be inserted twice.
SaveIsRejected(r) ==
  \E row \in rows : row.id \in draft[r].orphans \cup (Ids(draft[r].lines) \ draft[r].known)

\* An update of an item that is gone changes nothing.
Saved(r, p) ==
  {line \in Range(draft[r].lines[p]) :
     line.id \in draft[r].known => \E row \in rows : row.id = line.id}
Written(r) ==
  UNION {{[id |-> line.id, cart |-> k, product |-> p, quantity |-> line.quantity] :
            line \in Saved(r, p)} : k \in draft[r].cart, p \in Product}

\* The second transaction.
WriteCart(r) ==
  /\ pc[r] = "writing"
  /\ IF SaveIsRejected(r)
     THEN Fails(r, 500)
     ELSE /\ rows' = {row \in rows : row.id \notin draft[r].known} \cup Written(r)
          /\ Goes(r, "responding")
          /\ UNCHANGED <<carts, draft, answer>>
  /\ Asks

------------------------------------------------------------------------------
(* The answer. *)

\* What the customer's requests have asked for, one after the other.
Applied(contents, c) ==
  [contents EXCEPT ![c.product] = CASE c.op = "add" -> @ + c.quantity
                                    [] c.op = "update" -> c.quantity
                                    [] c.op = "remove" -> 0
                                    [] OTHER -> @]

Answered(r, lines) ==
  /\ pc[r] = "responding"
  /\ answer' = [answer EXCEPT ![r] = [status |-> 200, lines |-> lines]]
  /\ expected' = [expected EXCEPT ![Me(r)] = Applied(@, command[r])]
  /\ draft' = [draft EXCEPT ![r] = NoDraft]
  /\ Goes(r, "done")
  /\ UNCHANGED <<carts, rows, token, command, disturbed, crashes>>

\* A removal is answered without the cart, the other requests with one of the
\* customer's carts.
RespondRemoved(r) == command[r].op = "remove" /\ Answered(r, {})

GetCart(r) ==
  IF CartsOf(Me(r)) = {} THEN {{}}
  ELSE {{[product |-> row.product, quantity |-> row.quantity] : row \in RowsOf(k)} :
          k \in CartsOf(Me(r))}

Respond(r) == command[r].op # "remove" /\ \E lines \in GetCart(r) : Answered(r, lines)

\* A call to PostgreSQL fails; its transaction is rolled back.
DatabaseFails(r) ==
  /\ pc[r] \in Place \ {"idle", "done"}
  /\ disturbed' = disturbed \cup {Me(s) : s \in {s \in {r} : HalfWay(s)}}
  /\ Fails(r, 500)
  /\ UNCHANGED <<token, command, expected, crashes>>

\* The requests in progress end with the process.
Crash ==
  /\ crashes < MaxCrashes
  /\ crashes' = crashes + 1
  /\ disturbed' = disturbed \cup {Me(r) : r \in {r \in Request : HalfWay(r)}}
  /\ pc' = [r \in Request |-> IF InProgress(r) THEN "done" ELSE pc[r]]
  /\ draft' = [r \in Request |-> NoDraft]
  /\ UNCHANGED <<carts, rows, token, command, answer, expected>>

RequestStep(r) ==
  \/ \E credentials \in Credentials, c \in Command : Send(r, credentials, c)
  \/ FindProduct(r) \/ LoadCart(r) \/ CreateCart(r)
  \/ ReadStored(r) \/ RemoveItems(r) \/ ReadForSave(r) \/ WriteCart(r)
  \/ RespondRemoved(r) \/ Respond(r) \/ DatabaseFails(r)

Next == Crash \/ \E r \in Request : RequestStep(r)

Spec == Init /\ [][Next]_vars

------------------------------------------------------------------------------
(* Properties. *)

\* The cart of a customer whose requests never met and never failed half-way
\* holds what they were told, as one line per product in one cart: the delete
\* and the insert of a persist, the requests of other customers, and requests
\* that fail before the delete leave no trace.
UndisturbedCartsAreExact ==
  \A c \in Customer \ disturbed :
    (\A r \in Request : InProgress(r) => Me(r) # c) =>
      LET items == {row \in rows : row.cart \in CartsOf(c)} IN
      /\ Cardinality(CartsOf(c)) <= 1
      /\ \A p \in Product :
           LET ofProduct == {row \in items : row.product = p} IN
           IF expected[c][p] = 0 THEN ofProduct = {}
           ELSE Cardinality(ofProduct) = 1 /\ \A row \in ofProduct : row.quantity = expected[c][p]

Asked(c, p) ==
  {r \in Request : Me(r) = c /\ command[r].product = p /\ command[r].op \in {"add", "update"}}

\* However requests meet, fail and repeat each other's work, no line holds more
\* units than the requests of its customer asked for: a persist that overtakes
\* another may lose its units but never counts them twice in one line, and no
\* line is of a product the shop does not have.
NoLineExceedsRequests ==
  \A row \in rows :
    /\ row.product \in Catalog
    /\ row.quantity <= SumFunction([r \in Asked(carts[row.cart], row.product) |->
                                     command[r].quantity])

==============================================================================
