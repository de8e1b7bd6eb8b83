---------------------------- MODULE CartInvariants ----------------------------
(***************************************************************************)
(* The inductive invariant behind the guarantees of Cart.                   *)
(***************************************************************************)
EXTENDS Cart

Holding == {"creating", "persisting", "removing", "saving", "writing"}

\* Requests whose rows may be in the table, and those that have taken part in
\* what a line holds.
Landed(r) == pc[r] \in {"responding", "done"}
Contributors(c, p) == {r \in Asked(c, p) : pc[r] \notin {"idle", "guarded", "loading"}}
Units(c, p) == SumFunction([r \in Contributors(c, p) |-> command[r].quantity])

\* Requests in progress act for a customer with a command of theirs, and what
\* they add is in the catalog once it was looked up.
RequestsAreGuarded ==
  /\ IsFiniteSet({r \in Request : pc[r] # "idle"})
  /\ \A r \in Request :
       /\ pc[r] = "idle" => token[r] = NoToken /\ command[r] = NoCommand
       /\ InProgress(r) => Me(r) \in Customer /\ command[r] \in Command
       /\ pc[r] \in {"guarded", "loading"} \cup Holding => command[r].op # "get"
       /\ pc[r] \in {"loading"} \cup Holding /\ command[r].op = "add" =>
            command[r].product \in Catalog
       /\ pc[r] \notin Holding \cup {"responding"} => draft[r] = NoDraft

\* A cart and its rows belong to the customer of the requests that inserted
\* them, and have only what requests asked for.
RowsHaveOwners ==
  /\ IsFiniteSet(rows)
  /\ \A k \in DOMAIN carts : carts[k] = Me(k) /\ Landed(k)
  /\ \A row \in rows :
       /\ row.cart \in DOMAIN carts /\ carts[row.cart] = Me(row.id[1]) /\ Landed(row.id[1])
       /\ row.product = row.id[2] /\ row.product \in Catalog
       /\ row.quantity <= Units(Me(row.id[1]), row.product)

\* So do the carts that requests hold in memory.
DraftsHaveOwners ==
  \A r \in Request :
    /\ pc[r] \in Holding => \E k \in Request : draft[r].cart = {k}
    /\ pc[r] = "creating" => /\ draft[r].cart = {r} /\ command[r].op = "add"
                             /\ \A p \in Product : \A line \in Range(draft[r].lines[p]) :
                                  p = command[r].product /\ line.id = <<r, p>>
    /\ pc[r] \in Holding \ {"creating"} => draft[r].cart \subseteq CartsOf(Me(r))
    /\ \A p \in Product : \A line \in Range(draft[r].lines[p]) :
         /\ line.id[2] = p /\ p \in Catalog
         /\ Me(line.id[1]) = Me(r) /\ (line.id[1] = r \/ Landed(line.id[1]))
         /\ line.quantity <= Units(Me(r), p)
    /\ \A id \in draft[r].removes \cup draft[r].known \cup draft[r].orphans : Me(id[1]) = Me(r)

------------------------------------------------------------------------------
(* Customers whose requests neither met nor failed half-way. *)

CartRows(c) == {row \in rows : row.cart \in CartsOf(c)}
Stored(c, p) == {row \in CartRows(c) : row.product = p}

Holds(c, contents) ==
  \A p \in Product :
    IF contents[p] = 0 THEN Stored(c, p) = {}
    ELSE \E row \in CartRows(c) : Stored(c, p) = {row} /\ row.quantity = contents[p]

Lists(r, contents) ==
  \A p \in Product :
    IF contents[p] = 0 THEN draft[r].lines[p] = <<>>
    ELSE Len(draft[r].lines[p]) = 1 /\ draft[r].lines[p][1].quantity = contents[p]

\* The contents when the request has been answered.
Outcome(r) == Applied(expected[Me(r)], command[r])

\* The request's own lines, which replace those that are stored.
IsRenamed(r) == \A p \in Product : \A line \in Range(draft[r].lines[p]) : line.id[1] = r

\* What was stored when the request came is stored until it deletes it; what it
\* holds is then all there is; and when it has written, that is stored.
IsExact(r) ==
  LET c == Me(r) IN
  /\ ~HalfWay(r) => Holds(c, expected[c])
  /\ pc[r] \in Holding => Lists(r, Outcome(r))
  /\ pc[r] = "creating" => CartsOf(c) = {}
  /\ pc[r] = "persisting" =>
       \A p \in Product : Stored(c, p) = {} =>
         \A line \in Range(draft[r].lines[p]) : line.id[1] = r
  /\ pc[r] \in {"removing", "saving", "writing"} => IsRenamed(r)
  /\ pc[r] = "removing" => \A row \in CartRows(c) : row.id \in draft[r].removes
  /\ pc[r] \in {"saving", "writing"} => CartRows(c) = {}
  /\ pc[r] = "writing" => draft[r].known = {} /\ draft[r].orphans = {}
  /\ pc[r] = "responding" => Holds(c, Outcome(r))

AreExact(c) ==
  LET mine == {r \in Request : InProgress(r) /\ Me(r) = c} IN
  /\ \A k, l \in CartsOf(c) : k = l
  /\ \A r, s \in mine : r = s
  /\ \A r \in mine : IsExact(r)
  /\ mine = {} => Holds(c, expected[c])

UndisturbedAreExact == \A c \in Customer \ disturbed : AreExact(c)

\* Carts, rows and drafts have the owners and the units their requests gave them,
\* between any two awaits of cart.repository.ts, and the cart of a customer whose
\* requests did not meet is exact at every stage of a persist.
CartInvariant ==
  /\ TypeOK
  /\ RequestsAreGuarded
  /\ RowsHaveOwners
  /\ DraftsHaveOwners
  /\ UndisturbedAreExact

==============================================================================
