------------------------------ MODULE CartProofs ------------------------------
(***************************************************************************)
(* The guarantees of the cart for any customers, requests, products and     *)
(* crashes.                                                                 *)
(***************************************************************************)
EXTENDS CartInvariants, FiniteSums

------------------------------------------------------------------------------
(* Rows, lines and drafts. *)

LEMMA RowTyped ==
  ASSUME TypeOK, NEW row \in rows
  PROVE  /\ row.id \in ItemId /\ row.id = <<row.id[1], row.id[2]>>
         /\ row.id[1] \in Request /\ row.id[2] \in Product
         /\ row.cart \in Request /\ row.product \in Product /\ row.quantity \in Nat
<1>1. row \in Row
  BY DEF TypeOK
<1>2. row.id \in Request \X Product
  BY <1>1 DEF Row, ItemId
<1> QED BY <1>1, <1>2 DEF Row, ItemId

LEMMA EmptyIs ==
  ASSUME NEW S, NEW s \in Seq(S)
  PROVE  s = <<>> <=> Range(s) = {}
<1>1. Len(s) \in Nat /\ DOMAIN s = 1..Len(s) /\ (s = <<>> <=> Len(s) = 0)
  OBVIOUS
<1>2. Range(s) = {} <=> DOMAIN s = {}
  BY DEF Range
<1>3. 1..Len(s) = {} <=> Len(s) = 0
  <2>1. Len(s) # 0 => 1 \in 1..Len(s)
    BY <1>1
  <2>2. Len(s) = 0 => 1..Len(s) = {}
    OBVIOUS
  <2> QED BY <2>1, <2>2
<1> QED BY <1>1, <1>2, <1>3

LEMMA LineTyped ==
  ASSUME NEW s \in Seq(Line), NEW line \in Range(s)
  PROVE  /\ line \in Line /\ line.id \in ItemId /\ line.quantity \in Nat
         /\ line.id = <<line.id[1], line.id[2]>>
         /\ line.id[1] \in Request /\ line.id[2] \in Product
<1>1. line \in Line
  BY DEF Range
<1>2. line.id \in Request \X Product
  BY <1>1 DEF Line, ItemId
<1> QED BY <1>1, <1>2 DEF Line, ItemId

LEMMA DraftTyped ==
  ASSUME TypeOK, NEW r \in Request
  PROVE  /\ draft[r] \in Draft
         /\ draft[r].cart \subseteq Request
         /\ draft[r].lines \in [Product -> Seq(Line)]
         /\ \A p \in Product : draft[r].lines[p] \in Seq(Line)
         /\ draft[r].removes \subseteq ItemId /\ draft[r].known \subseteq ItemId
         /\ draft[r].orphans \subseteq ItemId
<1>1. draft[r] \in Draft
  BY DEF TypeOK
<1> QED BY <1>1 DEF Draft

LEMMA EmptyDraft ==
  /\ NoDraft \in Draft /\ NoDraft.cart = {} /\ NoDraft.removes = {}
  /\ NoDraft.known = {} /\ NoDraft.orphans = {}
  /\ \A p \in Product : NoDraft.lines[p] = <<>> /\ Range(NoDraft.lines[p]) = {}
<1>1. NoCart \in [Product -> Seq(Line)] /\ \A p \in Product : NoCart[p] = <<>>
  BY DEF NoCart
<1>2. Range(<<>>) = {}
  BY DEF Range
<1> QED BY <1>1, <1>2 DEF NoDraft, Draft

LEMMA MeTyped ==
  ASSUME TypeOK, NEW r \in Request
  PROVE  Me(r) \in Customer \cup {NoCustomer}
BY DEF TypeOK, TokenPayload, NoToken, Me

\* A command's product and quantity, once it is sent.
LEMMA CommandTyped ==
  ASSUME NEW c \in Command
  PROVE  /\ c.op \in {"add", "update", "remove", "get"} /\ c.product \in Product
         /\ c.quantity \in Nat /\ c.quantity > 0
BY CommandAssumption DEF CartCommand

\* The lines of a query are the rows of the cart, each once.
LEMMA QueriedIs ==
  ASSUME TypeOK, IsFiniteSet(rows), NEW k, NEW lines \in Queried(k)
  PROVE  /\ lines \in [Product -> Seq(Line)]
         /\ \A p \in Product : \A line \in Range(lines[p]) : \E row \in rows :
              /\ row.cart = k /\ row.product = p
              /\ line.id = row.id /\ line.quantity = row.quantity
         /\ \A row \in rows : row.cart = k =>
              \E line \in Range(lines[row.product]) : line.id = row.id
         /\ \A p \in Product :
              lines[p] = <<>> <=> \A row \in rows : ~(row.cart = k /\ row.product = p)
         /\ \A p \in Product : \A row \in rows :
              {other \in rows : other.cart = k /\ other.product = p} = {row} =>
                Len(lines[p]) = 1 /\ lines[p][1] = [id |-> row.id, quantity |-> row.quantity]
<1> DEFINE Of(p) == {row \in RowsOf(k) : row.product = p}
<1>1. \A p \in Product : Range(lines[p]) = LinesOf(Of(p))
  BY DEF Queried
<1>2. ASSUME NEW p \in Product
      PROVE  /\ lines[p] \in Seq(Line)
             /\ \A i, j \in 1..Len(lines[p]) : i # j => lines[p][i] # lines[p][j]
             /\ Len(lines[p]) \in Nat /\ DOMAIN lines[p] = 1..Len(lines[p])
  <2>1. PICK s \in SUBSET RowsOf(k) : lines[p] \in SetToSeqs(LinesOf(s))
    BY DEF Queried
  <2>2. IsFiniteSet(s)
    BY FS_Subset DEF RowsOf
  <2> DEFINE n == Cardinality(LinesOf(s))
  <2>3. n \in Nat
    <3> DEFINE line == [row \in s |-> [id |-> row.id, quantity |-> row.quantity]]
    <3>1. IsFiniteSet({line[row] : row \in s})
      BY <2>2, ImageIsFinite
    <3>2. {line[row] : row \in s} = LinesOf(s)
      BY DEF LinesOf
    <3> QED BY <3>1, <3>2, FS_CardinalityType
  <2>4. LinesOf(s) \subseteq Line
    BY RowTyped DEF RowsOf, LinesOf, Line
  <2>5. /\ lines[p] \in [1..n -> LinesOf(s)]
        /\ \A i, j \in 1..n : i # j => lines[p][i] # lines[p][j]
    BY <2>1 DEF SetToSeqs
  <2> HIDE DEF n
  <2>6. lines[p] \in Seq(Line) /\ Len(lines[p]) = n
    BY <2>3, <2>4, <2>5
  <2> QED BY <2>3, <2>5, <2>6
<1>3. lines \in [Product -> Seq(Line)]
  <2>1. lines \in [Product -> UNION {SetToSeqs(LinesOf(s)) : s \in SUBSET RowsOf(k)}]
    BY DEF Queried
  <2> QED BY <1>2, <2>1
<1>4. \A p \in Product : \A line \in Range(lines[p]) : \E row \in rows :
        /\ row.cart = k /\ row.product = p
        /\ line.id = row.id /\ line.quantity = row.quantity
  BY <1>1 DEF LinesOf, RowsOf
<1>5. \A row \in rows : row.cart = k =>
        [id |-> row.id, quantity |-> row.quantity] \in Range(lines[row.product])
  BY <1>1, RowTyped DEF LinesOf, RowsOf
<1>6. \A p \in Product : lines[p] = <<>> <=> Range(lines[p]) = {}
  BY <1>2, EmptyIs
<1>7. ASSUME NEW p \in Product, NEW row \in rows,
             {other \in rows : other.cart = k /\ other.product = p} = {row}
      PROVE  Len(lines[p]) = 1 /\ lines[p][1] = [id |-> row.id, quantity |-> row.quantity]
  <2> DEFINE line == [id |-> row.id, quantity |-> row.quantity]
  <2>1. Range(lines[p]) = {line}
    <3>1. Of(p) = {row}
      BY <1>7 DEF RowsOf
    <3> QED BY <1>1, <3>1 DEF LinesOf
  <2> HIDE DEF line
  <2>2. \A i \in 1..Len(lines[p]) : lines[p][i] = line
    BY <1>2, <2>1 DEF Range
  <2>3. Len(lines[p]) # 0
    <3>1. PICK i \in DOMAIN lines[p] : TRUE
      BY <2>1 DEF Range
    <3>2. i \in 1..Len(lines[p])
      BY <1>2, <3>1
    <3> QED BY <1>2, <3>2
  <2>4. Len(lines[p]) = 1
    <3>1. Len(lines[p]) >= 2 => 1 \in 1..Len(lines[p]) /\ 2 \in 1..Len(lines[p])
      BY <1>2
    <3>2. ~(Len(lines[p]) >= 2)
      BY <1>2, <2>2, <3>1
    <3>3. \A n \in Nat : n # 0 /\ ~(n >= 2) => n = 1
      OBVIOUS
    <3> QED BY <1>2, <2>3, <3>2, <3>3
  <2> QED BY <2>2, <2>4 DEF line
<1>8. \A row \in rows : row.cart = k => \E line \in Range(lines[row.product]) : line.id = row.id
  BY <1>5
<1>9. ASSUME NEW p \in Product
      PROVE  lines[p] = <<>> <=> \A row \in rows : ~(row.cart = k /\ row.product = p)
  <2>1. ASSUME lines[p] # <<>>
        PROVE  \E row \in rows : row.cart = k /\ row.product = p
    <3>1. PICK line \in Range(lines[p]) : TRUE
      BY <1>6, <2>1
    <3> QED BY <1>4, <3>1
  <2>2. ASSUME NEW row \in rows, row.cart = k, row.product = p
        PROVE  lines[p] # <<>>
    BY <1>5, <1>6, <2>2
  <2> QED BY <2>1, <2>2
<1> QED BY <1>3, <1>4, <1>7, <1>8, <1>9

LEMMA FirstIs ==
  ASSUME NEW s \in Seq(Line), s # <<>>
  PROVE  /\ 1 \in 1..Len(s) /\ s[1] \in Line /\ s[1] \in Range(s)
         /\ s[1].quantity \in Nat /\ s[1].id \in ItemId
<1>1. 1 \in 1..Len(s) /\ s[1] \in Line /\ DOMAIN s = 1..Len(s)
  OBVIOUS
<1> QED BY <1>1 DEF Line, Range

LEMMA LastIs ==
  ASSUME NEW s \in Seq(Line), s # <<>>
  PROVE  Last(s) \in Range(s) /\ Last(s) \in Line /\ Last(s).quantity \in Nat
<1>1. Len(s) \in 1..Len(s) /\ DOMAIN s = 1..Len(s)
  OBVIOUS
<1>2. s[Len(s)] \in Line /\ s[Len(s)] \in Range(s)
  BY <1>1 DEF Range
<1> QED BY <1>2 DEF Last, Line

LEMMA QuantifiedIs ==
  ASSUME NEW s \in Seq(Line), s # <<>>, NEW n \in Nat
  PROVE  /\ Quantified(s, n) \in Seq(Line) /\ Len(Quantified(s, n)) = Len(s)
         /\ 1 \in 1..Len(s) /\ s[1] \in Line /\ s[1].quantity \in Nat
         /\ Quantified(s, n)[1] = [id |-> s[1].id, quantity |-> n]
         /\ \A i \in 1..Len(s) : i # 1 => Quantified(s, n)[i] = s[i]
<1>1. 1 \in 1..Len(s) /\ s[1] \in Line
  OBVIOUS
<1>2. s[1].id \in ItemId /\ s[1].quantity \in Nat
  BY <1>1 DEF Line
<1>3. [id |-> s[1].id, quantity |-> n] \in Line
  BY <1>2 DEF Line
<1> QED BY <1>1, <1>2, <1>3 DEF Quantified

\* What a command for q units of p makes of the lines it finds.
IsChanged(new, lines, r, p, q) ==
  /\ \A other \in Product \ {p} : new[other] = lines[other]
  /\ command[r].op = "add" /\ lines[p] = <<>> =>
       new[p] = <<[id |-> <<r, p>>, quantity |-> q]>>
  /\ command[r].op = "add" /\ lines[p] # <<>> =>
       new[p] = Quantified(lines[p], lines[p][1].quantity + q)
  /\ command[r].op = "update" => lines[p] # <<>> /\ new[p] = Quantified(lines[p], q)
  /\ command[r].op = "remove" => lines[p] # <<>> /\ new[p] = <<>>

LEMMA ChangedIs ==
  ASSUME NEW r \in Request, command[r] \in Command, command[r].op # "get",
         NEW lines \in [Product -> Seq(Line)], NEW new \in Changed(lines, r)
  PROVE  /\ new \in [Product -> Seq(Line)]
         /\ IsChanged(new, lines, r, command[r].product, command[r].quantity)
<1>1. PICK p, q : p = command[r].product /\ q = command[r].quantity
  OBVIOUS
<1>2. /\ p \in Product /\ q \in Nat /\ command[r].op \in {"add", "update", "remove"}
      /\ lines[p] \in Seq(Line) /\ <<r, p>> \in ItemId
  BY <1>1, CommandTyped DEF ItemId
<1>3. SUFFICES new \in [Product -> Seq(Line)] /\ IsChanged(new, lines, r, p, q)
  BY <1>1
<1>4. CASE command[r].op = "add" /\ lines[p] = <<>>
  <2>1. new = [lines EXCEPT ![p] = <<[id |-> <<r, p>>, quantity |-> q]>>]
    BY <1>1, <1>4 DEF Changed, AddCartItem
  <2>2. <<[id |-> <<r, p>>, quantity |-> q]>> \in Seq(Line)
    BY <1>2 DEF Line
  <2> QED BY <1>2, <1>4, <2>1, <2>2 DEF IsChanged
<1>5. CASE command[r].op = "add" /\ lines[p] # <<>>
  <2>1. new = [lines EXCEPT ![p] = Quantified(lines[p], lines[p][1].quantity + q)]
    BY <1>1, <1>5 DEF Changed, AddCartItem
  <2>2. lines[p][1].quantity + q \in Nat
    BY <1>2, <1>5, FirstIs
  <2>3. Quantified(lines[p], lines[p][1].quantity + q) \in Seq(Line)
    BY <1>2, <1>5, <2>2, QuantifiedIs
  <2> QED BY <1>2, <1>5, <2>1, <2>3 DEF IsChanged
<1>6. CASE command[r].op = "update"
  <2>1. lines[p] # <<>> /\ new = [lines EXCEPT ![p] = Quantified(lines[p], q)]
    BY <1>1, <1>6 DEF Changed, UpdateItem, UpdateItemQuantity
  <2>2. Quantified(lines[p], q) \in Seq(Line)
    BY <1>2, <2>1, QuantifiedIs
  <2> QED BY <1>2, <1>6, <2>1, <2>2 DEF IsChanged
<1>7. CASE command[r].op = "remove"
  <2>1. lines[p] # <<>> /\ new = [lines EXCEPT ![p] = <<>>]
    BY <1>1, <1>7 DEF Changed, RemoveItem, RemoveCartItem
  <2>2. <<>> \in Seq(Line)
    OBVIOUS
  <2> QED BY <1>2, <1>7, <2>1, <2>2 DEF IsChanged
<1> QED BY <1>2, <1>4, <1>5, <1>6, <1>7

IsMerged(new, stored, incoming, r) ==
  \A p \in Product :
    /\ incoming[p] = <<>> \/ stored[p] = <<>> => new[p] = incoming[p]
    /\ incoming[p] # <<>> /\ stored[p] # <<>> =>
         new[p] = <<[id |-> <<r, p>>, quantity |-> Last(incoming[p]).quantity]>>

LEMMA MergedIs ==
  ASSUME NEW r \in Request, NEW stored \in [Product -> Seq(Line)],
         NEW incoming \in [Product -> Seq(Line)]
  PROVE  /\ Merged(stored, incoming, r) \in [Product -> Seq(Line)]
         /\ IsMerged(Merged(stored, incoming, r), stored, incoming, r)
<1>1. PICK new : new = Merged(stored, incoming, r)
  OBVIOUS
<1>2. ASSUME NEW p \in Product, incoming[p] # <<>>
      PROVE  <<[id |-> <<r, p>>, quantity |-> Last(incoming[p]).quantity]>> \in Seq(Line)
  <2>1. Last(incoming[p]).quantity \in Nat /\ <<r, p>> \in ItemId
    BY <1>2, LastIs DEF ItemId
  <2>2. [id |-> <<r, p>>, quantity |-> Last(incoming[p]).quantity] \in Line
    BY <2>1 DEF Line
  <2> QED BY <2>2
<1>3. IsMerged(new, stored, incoming, r)
  BY <1>1 DEF Merged, IsMerged
<1>4. \A p \in Product : new[p] \in Seq(Line)
  BY <1>2, <1>3 DEF IsMerged
<1>5. new = [p \in Product |-> new[p]]
  BY <1>1 DEF Merged
<1> QED BY <1>1, <1>3, <1>4, <1>5

------------------------------------------------------------------------------
(* What the steps of a request do. *)

\* All but the sending and the answer.
Acts(r) ==
  /\ \A s \in Request \ {r} : pc'[s] = pc[s] /\ draft'[s] = draft[s]
  /\ token' = token /\ command' = command /\ expected' = expected

Sends(r) ==
  /\ pc[r] = "idle" /\ pc'[r] \in {"done", "guarded", "responding"}
  /\ \A s \in Request \ {r} :
       pc'[s] = pc[s] /\ token'[s] = token[s] /\ command'[s] = command[s]
  /\ draft' = draft /\ expected' = expected /\ carts' = carts /\ rows' = rows
  /\ command'[r] \in Command /\ disturbed \subseteq disturbed'
  /\ pc'[r] # "done" =>
       /\ Me(r)' \in Customer
       /\ pc'[r] = "responding" <=> command'[r].op = "get"
       /\ (\E s \in Request : InProgress(s) /\ Me(s) = Me(r)') => Me(r)' \in disturbed'

LooksUp(r) ==
  /\ Acts(r) /\ pc[r] = "guarded" /\ pc'[r] = "loading"
  /\ draft' = draft /\ carts' = carts /\ rows' = rows /\ disturbed' = disturbed
  /\ command[r].op = "add" => command[r].product \in Catalog

GivesUp(r) ==
  /\ Acts(r) /\ InProgress(r) /\ pc'[r] = "done" /\ draft'[r] = NoDraft
  /\ carts' = carts /\ rows' = rows
  /\ disturbed \subseteq disturbed'
  /\ HalfWay(r) => Me(r) \in disturbed' \/ (pc[r] = "writing" /\ SaveIsRejected(r))

\* The aggregate a handler persists.
Loads(r, cart, lines) ==
  /\ Acts(r) /\ pc[r] = "loading" /\ carts' = carts /\ rows' = rows /\ disturbed' = disturbed
  /\ draft'[r].cart = {cart} /\ draft'[r].lines = lines
  /\ draft'[r].removes = {} /\ draft'[r].known = {} /\ draft'[r].orphans = {}

LoadsNew(r) ==
  /\ pc'[r] = "creating" /\ CartsOf(Me(r)) = {} /\ command[r].op = "add"
  /\ Loads(r, r, AddCartItem(NoCart, r))

LoadsFound(r) ==
  /\ pc'[r] = "persisting"
  /\ \E cart \in CartsOf(Me(r)) : \E found \in Queried(cart) : \E lines \in Changed(found, r) :
       Loads(r, cart, lines)

Creates(r) ==
  /\ Acts(r) /\ pc[r] = "creating" /\ pc'[r] = "responding" /\ draft' = draft
  /\ disturbed' = disturbed
  /\ DOMAIN carts' = DOMAIN carts \cup {r} /\ carts'[r] = Me(r)
  /\ \A k \in DOMAIN carts \ {r} : carts'[k] = carts[k]
  /\ rows' = rows \cup {[id |-> line.id, cart |-> r, product |-> line.id[2],
                          quantity |-> line.quantity] :
                           line \in Range(draft[r].lines[command[r].product])}

Reads(r) ==
  /\ Acts(r) /\ pc[r] = "persisting" /\ pc'[r] = "removing"
  /\ carts' = carts /\ rows' = rows /\ disturbed' = disturbed
  /\ draft'[r].cart = draft[r].cart
  /\ draft'[r].known = draft[r].known /\ draft'[r].orphans = draft[r].orphans
  /\ \E cart \in draft[r].cart : \E stored \in Queried(cart) :
       /\ draft'[r].lines = Merged(stored, draft[r].lines, r)
       /\ draft'[r].removes = Ids(stored)

Removes(r) ==
  /\ Acts(r) /\ pc[r] = "removing" /\ pc'[r] = "saving"
  /\ carts' = carts /\ disturbed' = disturbed
  /\ rows' = {row \in rows : row.id \notin draft[r].removes}
  /\ draft'[r].cart = draft[r].cart /\ draft'[r].lines = draft[r].lines
  /\ draft'[r].removes = {}
  /\ draft'[r].known = draft[r].known /\ draft'[r].orphans = draft[r].orphans

Prepares(r) ==
  /\ Acts(r) /\ pc[r] = "saving" /\ pc'[r] = "writing"
  /\ carts' = carts /\ rows' = rows /\ disturbed' = disturbed
  /\ draft'[r].cart = draft[r].cart /\ draft'[r].lines = draft[r].lines
  /\ draft'[r].removes = draft[r].removes
  /\ draft'[r].known = {row.id : row \in rows} \cap Ids(draft[r].lines)
  /\ draft'[r].orphans =
       {row.id : row \in {row \in rows : row.cart \in draft[r].cart}} \ Ids(draft[r].lines)

Writes(r) ==
  /\ Acts(r) /\ pc[r] = "writing" /\ pc'[r] = "responding" /\ draft' = draft
  /\ carts' = carts /\ disturbed' = disturbed
  /\ rows' = {row \in rows : row.id \notin draft[r].known} \cup Written(r)

IsAnswered(r) ==
  /\ pc[r] = "responding" /\ pc'[r] = "done" /\ draft'[r] = NoDraft
  /\ \A s \in Request \ {r} : pc'[s] = pc[s] /\ draft'[s] = draft[s]
  /\ token' = token /\ command' = command /\ disturbed' = disturbed
  /\ carts' = carts /\ rows' = rows
  /\ expected' = [expected EXCEPT ![Me(r)] = Applied(@, command[r])]

Steps(r) ==
  \/ Sends(r) \/ LooksUp(r) \/ GivesUp(r) \/ LoadsNew(r) \/ LoadsFound(r) \/ Creates(r)
  \/ Reads(r) \/ Removes(r) \/ Prepares(r) \/ Writes(r) \/ IsAnswered(r)

Guarded == TypeOK /\ RequestsAreGuarded

LEMMA IdsTyped ==
  ASSUME NEW lines \in [Product -> Seq(Line)]
  PROVE  /\ Ids(lines) \subseteq ItemId
         /\ \A id \in Ids(lines) : \E p \in Product : \E line \in Range(lines[p]) : id = line.id
         /\ \A p \in Product : \A line \in Range(lines[p]) : line.id \in Ids(lines)
<1>1. \A p \in Product : lines[p] \in Seq(Line)
  OBVIOUS
<1>2. \A id \in Ids(lines) : \E p \in Product : \E line \in Range(lines[p]) : id = line.id
  BY DEF Ids
<1>3. \A p \in Product : \A line \in Range(lines[p]) : line.id \in Ids(lines)
  BY DEF Ids
<1>4. \A p \in Product : \A line \in Range(lines[p]) : line.id \in ItemId
  BY <1>1, LineTyped
<1> QED BY <1>2, <1>3, <1>4

\* What a request in progress has.
LEMMA InProgressIs ==
  ASSUME Guarded, NEW r \in Request, InProgress(r)
  PROVE  /\ Me(r) \in Customer /\ command[r] \in Command
         /\ command[r].product \in Product /\ command[r].quantity \in Nat
         /\ command[r].op \in {"add", "update", "remove", "get"}
BY CommandTyped DEF Guarded, RequestsAreGuarded

LEMMA FailureIs ==
  ASSUME Guarded, NEW r \in Request, NEW status \in {401, 403, 404, 500}, Fails(r, status),
         InProgress(r)
  PROVE  /\ pc' \in [Request -> Place] /\ draft' \in [Request -> Draft]
         /\ answer' \in [Request -> Answer] /\ carts' = carts /\ rows' = rows
         /\ pc'[r] = "done" /\ draft'[r] = NoDraft
         /\ \A s \in Request \ {r} : pc'[s] = pc[s] /\ draft'[s] = draft[s]
<1>1. /\ pc \in [Request -> Place] /\ draft \in [Request -> Draft] /\ answer \in [Request -> Answer]
  BY DEF Guarded, TypeOK
<1>2. /\ pc' = [pc EXCEPT ![r] = "done"] /\ draft' = [draft EXCEPT ![r] = NoDraft]
      /\ answer' = [answer EXCEPT ![r] = [status |-> status, lines |-> {}]]
      /\ carts' = carts /\ rows' = rows
  BY DEF Fails, Goes, Answers
<1>3. [status |-> status, lines |-> {}] \in Answer /\ NoDraft \in Draft /\ "done" \in Place
  BY EmptyDraft DEF Answer, Place
<1> QED BY <1>1, <1>2, <1>3

LEMMA SendIs ==
  ASSUME Guarded, NEW r \in Request, NEW credentials \in Credentials, NEW c \in Command,
         Send(r, credentials, c)
  PROVE  TypeOK' /\ Sends(r)
<1>1. /\ pc[r] = "idle" /\ command' = [command EXCEPT ![r] = c]
      /\ UNCHANGED <<carts, rows, draft, expected, crashes>>
  BY DEF Send
<1>2. /\ pc \in [Request -> Place] /\ token \in [Request -> TokenPayload \cup {NoToken}]
      /\ answer \in [Request -> Answer] /\ command \in [Request -> Command \cup {NoCommand}]
      /\ disturbed \subseteq Customer
  BY DEF Guarded, TypeOK
<1>3. {"done", "guarded", "responding"} \subseteq Place
  BY DEF Place
<1>4. command' \in [Request -> Command \cup {NoCommand}] /\ command'[r] = c
      /\ \A s \in Request \ {r} : command'[s] = command[s]
  BY <1>1, <1>2
<1>5. \A status \in {401, 403} : [status |-> status, lines |-> {}] \in Answer
  BY DEF Answer
<1>6. CASE Login(credentials) = {}
  <2>1. PICK place \in {"done"} : Goes(r, place)
    BY <1>6 DEF Send
  <2>2. \/ Answers(r, 401) /\ UNCHANGED <<token, disturbed>>
        \/ \E t \in Login(credentials) : TRUE
    BY DEF Send
  <2>3. Answers(r, 401) /\ UNCHANGED <<token, disturbed>>
    BY <1>6, <2>2
  <2>4. answer' \in [Request -> Answer]
    BY <1>2, <1>5, <2>3 DEF Answers
  <2>5. pc' \in [Request -> Place] /\ pc'[r] = "done" /\ \A s \in Request \ {r} : pc'[s] = pc[s]
    BY <1>2, <1>3, <2>1 DEF Goes
  <2>6. TypeOK'
    BY <1>1, <1>4, <2>3, <2>4, <2>5 DEF Guarded, TypeOK
  <2> QED BY <1>1, <1>4, <2>3, <2>5, <2>6 DEF Sends
<1>7. CASE Login(credentials) # {}
  <2>1. PICK t \in Login(credentials) :
          /\ token' = [token EXCEPT ![r] = t]
          /\ disturbed' = disturbed \cup
               {d \in {t.customerId} \cap Customer :
                  \E s \in Request : InProgress(s) /\ Me(s) = d}
          /\ IF ValidateToken(t) /\ IsCustomer(t)
             THEN Goes(r, IF c.op = "get" THEN "responding" ELSE "guarded")
                  /\ UNCHANGED answer
             ELSE Answers(r, IF ValidateToken(t) THEN 403 ELSE 401) /\ Goes(r, "done")
    BY <1>7 DEF Send
  <2>2. t \in TokenPayload
    BY CustomerOfAssumption DEF Login, ValidateUser, GenerateTokens, TokenPayload
  <2>3. t.customerId \in Customer \cup {NoCustomer}
    BY <2>2 DEF TokenPayload
  <2>4. token' \in [Request -> TokenPayload \cup {NoToken}] /\ token'[r] = t
        /\ \A s \in Request \ {r} : token'[s] = token[s]
    BY <1>2, <2>1, <2>2
  <2>5. answer' \in [Request -> Answer]
    <3>1. answer' = answer \/ Answers(r, 401) \/ Answers(r, 403)
      BY <2>1
    <3>2. ASSUME NEW status \in {401, 403}, Answers(r, status)
          PROVE  answer' \in [Request -> Answer]
      <4>1. [status |-> status, lines |-> {}] \in Answer
        BY <1>5, <3>2
      <4>2. answer \in [Request -> Answer]
        BY <1>2
      <4> QED BY <3>2, <4>1, <4>2 DEF Answers
    <3> QED BY <1>2, <3>1, <3>2
  <2>6. PICK place \in {"done", "guarded", "responding"} :
          /\ Goes(r, place)
          /\ place # "done" => IsCustomer(t) /\ (place = "responding" <=> c.op = "get")
    BY <2>1
  <2>7. /\ pc' \in [Request -> Place] /\ pc'[r] = place
        /\ \A s \in Request \ {r} : pc'[s] = pc[s]
    BY <1>2, <1>3, <2>6 DEF Goes
  <2>8. disturbed \subseteq disturbed' /\ disturbed' \subseteq Customer
    BY <1>2, <2>1
  <2>9. TypeOK'
    BY <1>1, <1>4, <2>4, <2>5, <2>7, <2>8 DEF Guarded, TypeOK
  <2>10. Me(r)' = t.customerId
    BY <2>4 DEF Me
  <2>11. place # "done" =>
           /\ Me(r)' \in Customer
           /\ place = "responding" <=> c.op = "get"
           /\ (\E s \in Request : InProgress(s) /\ Me(s) = Me(r)') => Me(r)' \in disturbed'
    BY <2>1, <2>3, <2>6, <2>10 DEF IsCustomer
  <2> QED BY <1>1, <1>4, <2>4, <2>7, <2>8, <2>9, <2>11 DEF Sends
<1> QED BY <1>6, <1>7

\* Steps of a request in progress leave who it is and what it asked for alone.
LEMMA ActsTyped ==
  ASSUME Guarded, NEW r \in Request, NEW place \in Place, Goes(r, place), Asks
  PROVE  /\ pc' \in [Request -> Place] /\ pc'[r] = place
         /\ \A s \in Request \ {r} : pc'[s] = pc[s]
         /\ UNCHANGED <<token, command, expected, disturbed, crashes>>
BY DEF Guarded, TypeOK, Goes, Asks

\* Types of all but the places, carts, rows, drafts and answers.
LEMMA TypesFollow ==
  ASSUME Guarded, pc' \in [Request -> Place], draft' \in [Request -> Draft],
         answer' \in [Request -> Answer], rows' \subseteq Row,
         DOMAIN carts' \subseteq Request, carts' \in [DOMAIN carts' -> Customer],
         UNCHANGED <<token, command, expected, crashes>>, disturbed' \subseteq Customer
  PROVE  TypeOK'
BY DEF Guarded, TypeOK

LEMMA BaseTyped ==
  ASSUME Guarded
  PROVE  /\ pc \in [Request -> Place] /\ draft \in [Request -> Draft]
         /\ answer \in [Request -> Answer] /\ rows \subseteq Row
         /\ DOMAIN carts \subseteq Request /\ carts \in [DOMAIN carts -> Customer]
         /\ disturbed \subseteq Customer /\ expected \in [Customer -> [Product -> Nat]]
BY DEF Guarded, TypeOK

LEMMA FindProductIs ==
  ASSUME Guarded, NEW r \in Request, FindProduct(r)
  PROVE  TypeOK' /\ (LooksUp(r) \/ GivesUp(r))
<1>1. InProgress(r) /\ ~HalfWay(r) /\ pc[r] = "guarded"
  BY DEF FindProduct, InProgress, HalfWay
<1>2. CASE command[r].op = "add" /\ command[r].product \notin Catalog
  <2>1. Fails(r, 404) /\ Asks
    BY <1>2 DEF FindProduct
  <2>2. /\ UNCHANGED <<token, command, expected, disturbed, crashes>>
    BY <2>1 DEF Asks
  <2>3. TypeOK'
    BY <1>1, <2>1, <2>2, BaseTyped, FailureIs, TypesFollow
  <2>4. GivesUp(r)
    BY <1>1, <2>1, <2>2, FailureIs DEF GivesUp, Acts
  <2> QED BY <2>3, <2>4
<1>3. CASE ~(command[r].op = "add" /\ command[r].product \notin Catalog)
  <2>1. Goes(r, "loading") /\ UNCHANGED <<carts, rows, draft, answer>> /\ Asks
    BY <1>3 DEF FindProduct
  <2>2. "loading" \in Place
    BY DEF Place
  <2>3. /\ pc' \in [Request -> Place] /\ pc'[r] = "loading"
        /\ \A s \in Request \ {r} : pc'[s] = pc[s]
        /\ UNCHANGED <<token, command, expected, disturbed, crashes>>
    BY <2>1, <2>2, ActsTyped
  <2>4. TypeOK'
    BY <2>1, <2>3, BaseTyped, TypesFollow
  <2>5. LooksUp(r)
    BY <1>1, <1>3, <2>1, <2>3 DEF LooksUp, Acts
  <2> QED BY <2>4, <2>5
<1> QED BY <1>2, <1>3

LEMMA LoadCartIs ==
  ASSUME Guarded, NEW r \in Request, LoadCart(r), IsFiniteSet(rows)
  PROVE  TypeOK' /\ (GivesUp(r) \/ LoadsNew(r) \/ LoadsFound(r))
<1>1. /\ pc[r] = "loading" /\ InProgress(r) /\ ~HalfWay(r) /\ Asks
      /\ UNCHANGED <<token, command, expected, disturbed, crashes>>
  BY DEF LoadCart, InProgress, HalfWay, Asks
<1>2. draft[r] = NoDraft /\ command[r] \in Command /\ command[r].op # "get"
  BY <1>1 DEF Guarded, RequestsAreGuarded, Holding
<1>3. ASSUME NEW cart \in Request, NEW lines \in [Product -> Seq(Line)],
             NEW place \in {"creating", "persisting"},
             draft' = [draft EXCEPT ![r] = [@ EXCEPT !.cart = {cart}, !.lines = lines]],
             Goes(r, place), UNCHANGED <<carts, rows, answer>>
      PROVE  TypeOK' /\ Loads(r, cart, lines) /\ pc'[r] = place
  <2>1. place \in Place
    BY DEF Place
  <2>2. /\ pc' \in [Request -> Place] /\ pc'[r] = place
        /\ \A s \in Request \ {r} : pc'[s] = pc[s]
    BY <1>1, <1>3, <2>1, ActsTyped
  <2>3. PICK new : new = [draft[r] EXCEPT !.cart = {cart}, !.lines = lines]
    OBVIOUS
  <2>4. new \in Draft /\ new.cart = {cart} /\ new.lines = lines
        /\ new.removes = {} /\ new.known = {} /\ new.orphans = {}
    BY <1>2, <2>3, EmptyDraft DEF Draft
  <2>5. draft' \in [Request -> Draft] /\ draft'[r] = new
        /\ \A s \in Request \ {r} : draft'[s] = draft[s]
    BY <1>3, <2>3, <2>4, BaseTyped
  <2>6. TypeOK'
    BY <1>1, <1>3, <2>2, <2>5, BaseTyped, TypesFollow
  <2>7. Loads(r, cart, lines)
    BY <1>1, <1>3, <2>2, <2>4, <2>5 DEF Loads, Acts
  <2> QED BY <2>2, <2>6, <2>7
<1>4. ASSUME Fails(r, 404)
      PROVE  TypeOK' /\ GivesUp(r)
  <2>1. TypeOK'
    BY <1>1, <1>4, BaseTyped, FailureIs, TypesFollow
  <2>2. GivesUp(r)
    BY <1>1, <1>4, FailureIs DEF GivesUp, Acts
  <2> QED BY <2>1, <2>2
<1>5. CASE CartsOf(Me(r)) = {} /\ command[r].op = "add" /\ ~Fails(r, 404)
  <2>1. NoCart \in [Product -> Seq(Line)]
    BY DEF NoCart
  <2>2. AddCartItem(NoCart, r) \in Changed(NoCart, r)
    BY <1>5 DEF Changed
  <2>3. AddCartItem(NoCart, r) \in [Product -> Seq(Line)]
    BY <1>2, <2>1, <2>2, ChangedIs
  <2>5. /\ draft' = [draft EXCEPT ![r] = [@ EXCEPT !.cart = {r}, !.lines = AddCartItem(NoCart, r)]]
        /\ Goes(r, "creating") /\ UNCHANGED <<carts, rows, answer>>
    BY <1>5 DEF LoadCart
  <2> QED BY <1>3, <1>5, <2>3, <2>5 DEF LoadsNew
<1>6. ASSUME NEW cart \in CartsOf(Me(r)), NEW found \in Queried(cart),
             NEW lines \in Changed(found, r),
             draft' = [draft EXCEPT ![r] = [@ EXCEPT !.cart = {cart}, !.lines = lines]],
             Goes(r, "persisting"), UNCHANGED <<carts, rows, answer>>
      PROVE  TypeOK' /\ LoadsFound(r)
  <2>1. found \in [Product -> Seq(Line)]
    BY QueriedIs DEF Guarded
  <2>2. lines \in [Product -> Seq(Line)]
    BY <1>2, <2>1, ChangedIs
  <2>3. cart \in Request
    BY BaseTyped DEF CartsOf
  <2>4. TypeOK' /\ Loads(r, cart, lines) /\ pc'[r] = "persisting"
    BY <1>3, <1>6, <2>2, <2>3
  <2> QED BY <2>4 DEF LoadsFound
<1>7. \/ Fails(r, 404)
      \/ CartsOf(Me(r)) = {} /\ command[r].op = "add" /\ ~Fails(r, 404)
      \/ \E cart \in CartsOf(Me(r)) : \E found \in Queried(cart) : \E lines \in Changed(found, r) :
           /\ draft' = [draft EXCEPT ![r] = [@ EXCEPT !.cart = {cart}, !.lines = lines]]
           /\ Goes(r, "persisting") /\ UNCHANGED <<carts, rows, answer>>
  BY DEF LoadCart
<1> QED BY <1>4, <1>5, <1>6, <1>7

LEMMA CreateCartIs ==
  ASSUME Guarded, NEW r \in Request, CreateCart(r)
  PROVE  TypeOK' /\ Creates(r)
<1>1. /\ pc[r] = "creating" /\ InProgress(r) /\ Goes(r, "responding") /\ Asks
      /\ UNCHANGED <<token, command, expected, disturbed, crashes>>
      /\ draft' = draft /\ answer' = answer
  BY DEF CreateCart, InProgress, Asks
<1>2. "responding" \in Place
  BY DEF Place
<1>3. /\ pc' \in [Request -> Place] /\ pc'[r] = "responding"
      /\ \A s \in Request \ {r} : pc'[s] = pc[s]
  BY <1>1, <1>2, ActsTyped
<1>4. carts' = [k \in DOMAIN carts \cup {r} |-> IF k = r THEN Me(r) ELSE carts[k]]
  BY DEF CreateCart
<1>5. /\ DOMAIN carts' = DOMAIN carts \cup {r} /\ carts'[r] = Me(r)
      /\ \A k \in DOMAIN carts \ {r} : carts'[k] = carts[k]
  BY <1>4
<1>6. DOMAIN carts' \subseteq Request /\ carts' \in [DOMAIN carts' -> Customer]
  <2>1. Me(r) \in Customer
    BY <1>1, InProgressIs
  <2> QED BY <1>4, <2>1, BaseTyped
<1> DEFINE new == {[id |-> line.id, cart |-> r, product |-> line.id[2],
                    quantity |-> line.quantity] :
                     line \in Range(draft[r].lines[command[r].product])}
<1>7. rows' = rows \cup new
  BY DEF CreateCart
<1>8. new \subseteq Row
  <2>1. draft[r].lines[command[r].product] \in Seq(Line)
    BY <1>1, InProgressIs, DraftTyped DEF Guarded
  <2> QED BY <2>1, LineTyped DEF Row
<1>9. rows' \subseteq Row
  <2> HIDE DEF new
  <2> QED BY <1>7, <1>8, BaseTyped
<1>10. TypeOK'
  <2> HIDE DEF new
  <2> QED BY <1>1, <1>3, <1>6, <1>9, BaseTyped, TypesFollow
<1>11. Creates(r)
  BY <1>1, <1>3, <1>5, <1>7 DEF Creates, Acts
<1> QED BY <1>10, <1>11

LEMMA ReadStoredIs ==
  ASSUME Guarded, NEW r \in Request, ReadStored(r), IsFiniteSet(rows)
  PROVE  TypeOK' /\ Reads(r)
<1>1. /\ pc[r] = "persisting" /\ InProgress(r) /\ Goes(r, "removing") /\ Asks
      /\ UNCHANGED <<token, command, expected, disturbed, crashes>>
      /\ carts' = carts /\ rows' = rows /\ answer' = answer
  BY DEF ReadStored, InProgress, Asks
<1>2. "removing" \in Place
  BY DEF Place
<1>3. /\ pc' \in [Request -> Place] /\ pc'[r] = "removing"
      /\ \A s \in Request \ {r} : pc'[s] = pc[s]
  BY <1>1, <1>2, ActsTyped
<1>4. PICK cart \in draft[r].cart : \E stored \in Queried(cart) :
        draft' = [draft EXCEPT ![r] = [@ EXCEPT !.lines = Merged(stored, draft[r].lines, r),
                                                !.removes = Ids(stored)]]
  BY DEF ReadStored
<1>5. PICK stored \in Queried(cart) :
        draft' = [draft EXCEPT ![r] = [@ EXCEPT !.lines = Merged(stored, draft[r].lines, r),
                                                !.removes = Ids(stored)]]
  BY <1>4
<1>6. draft[r] \in Draft /\ draft[r].lines \in [Product -> Seq(Line)]
  BY DraftTyped DEF Guarded
<1>7. stored \in [Product -> Seq(Line)]
  BY QueriedIs DEF Guarded
<1>8. PICK lines : lines = Merged(stored, draft[r].lines, r)
  OBVIOUS
<1>9. lines \in [Product -> Seq(Line)]
  BY <1>6, <1>7, <1>8, MergedIs
<1>10. PICK removes : removes = Ids(stored)
  OBVIOUS
<1>11. removes \subseteq ItemId
  BY <1>7, <1>10, IdsTyped
<1>12. PICK new : new = [draft[r] EXCEPT !.lines = lines, !.removes = removes]
  OBVIOUS
<1>13. /\ new \in Draft /\ new.cart = draft[r].cart /\ new.lines = lines
       /\ new.removes = removes /\ new.known = draft[r].known /\ new.orphans = draft[r].orphans
  BY <1>6, <1>9, <1>11, <1>12 DEF Draft
<1>14. draft' = [draft EXCEPT ![r] = new]
  BY <1>5, <1>8, <1>10, <1>12
<1>15. draft' \in [Request -> Draft] /\ draft'[r] = new
       /\ \A s \in Request \ {r} : draft'[s] = draft[s]
  BY <1>13, <1>14, BaseTyped
<1>16. TypeOK'
  BY <1>1, <1>3, <1>15, BaseTyped, TypesFollow
<1>17. Reads(r)
  BY <1>1, <1>3, <1>8, <1>10, <1>13, <1>15 DEF Reads, Acts
<1> QED BY <1>16, <1>17

LEMMA RemoveItemsIs ==
  ASSUME Guarded, NEW r \in Request, RemoveItems(r)
  PROVE  TypeOK' /\ Removes(r)
<1>1. /\ pc[r] = "removing" /\ InProgress(r) /\ Goes(r, "saving") /\ Asks
      /\ UNCHANGED <<token, command, expected, disturbed, crashes>>
      /\ carts' = carts /\ answer' = answer
      /\ rows' = {row \in rows : row.id \notin draft[r].removes}
      /\ draft' = [draft EXCEPT ![r] = [@ EXCEPT !.removes = {}]]
  BY DEF RemoveItems, InProgress, Asks
<1>2. "saving" \in Place
  BY DEF Place
<1>3. /\ pc' \in [Request -> Place] /\ pc'[r] = "saving"
      /\ \A s \in Request \ {r} : pc'[s] = pc[s]
  BY <1>1, <1>2, ActsTyped
<1>4. draft[r] \in Draft
  BY DraftTyped DEF Guarded
<1>5. PICK new : new = [draft[r] EXCEPT !.removes = {}]
  OBVIOUS
<1>6. /\ new \in Draft /\ new.cart = draft[r].cart /\ new.lines = draft[r].lines
      /\ new.removes = {} /\ new.known = draft[r].known /\ new.orphans = draft[r].orphans
  BY <1>4, <1>5 DEF Draft
<1>7. draft' \in [Request -> Draft] /\ draft'[r] = new
      /\ \A s \in Request \ {r} : draft'[s] = draft[s]
  BY <1>1, <1>5, <1>6, BaseTyped
<1>8. rows' \subseteq Row
  BY <1>1, BaseTyped
<1>9. TypeOK'
  BY <1>1, <1>3, <1>7, <1>8, BaseTyped, TypesFollow
<1>10. Removes(r)
  BY <1>1, <1>3, <1>6, <1>7 DEF Removes, Acts
<1> QED BY <1>9, <1>10

LEMMA ReadForSaveIs ==
  ASSUME Guarded, NEW r \in Request, ReadForSave(r)
  PROVE  TypeOK' /\ Prepares(r)
<1>1. /\ pc[r] = "saving" /\ InProgress(r) /\ Goes(r, "writing") /\ Asks
      /\ UNCHANGED <<token, command, expected, disturbed, crashes>>
      /\ carts' = carts /\ rows' = rows /\ answer' = answer
  BY DEF ReadForSave, InProgress, Asks
<1>2. "writing" \in Place
  BY DEF Place
<1>3. /\ pc' \in [Request -> Place] /\ pc'[r] = "writing"
      /\ \A s \in Request \ {r} : pc'[s] = pc[s]
  BY <1>1, <1>2, ActsTyped
<1>4. draft[r] \in Draft /\ draft[r].lines \in [Product -> Seq(Line)]
  BY DraftTyped DEF Guarded
<1>5. PICK known : known = {row.id : row \in rows} \cap Ids(draft[r].lines)
  OBVIOUS
<1>6. PICK orphans : orphans =
        {row.id : row \in {row \in rows : row.cart \in draft[r].cart}} \ Ids(draft[r].lines)
  OBVIOUS
<1>7. known \subseteq ItemId /\ orphans \subseteq ItemId
  <2>1. \A row \in rows : row.id \in ItemId
    BY RowTyped DEF Guarded
  <2> QED BY <1>5, <1>6, <2>1
<1>8. PICK new : new = [draft[r] EXCEPT !.known = known, !.orphans = orphans]
  OBVIOUS
<1>9. /\ new \in Draft /\ new.cart = draft[r].cart /\ new.lines = draft[r].lines
      /\ new.removes = draft[r].removes /\ new.known = known /\ new.orphans = orphans
  BY <1>4, <1>7, <1>8 DEF Draft
<1>10. draft' = [draft EXCEPT ![r] = new]
  BY <1>5, <1>6, <1>8 DEF ReadForSave
<1>11. draft' \in [Request -> Draft] /\ draft'[r] = new
       /\ \A s \in Request \ {r} : draft'[s] = draft[s]
  BY <1>9, <1>10, BaseTyped
<1>12. TypeOK'
  BY <1>1, <1>3, <1>11, BaseTyped, TypesFollow
<1>13. Prepares(r)
  BY <1>1, <1>3, <1>5, <1>6, <1>9, <1>11 DEF Prepares, Acts
<1> QED BY <1>12, <1>13

LEMMA WrittenTyped ==
  ASSUME TypeOK, NEW r \in Request, NEW row \in Written(r)
  PROVE  /\ row \in Row
         /\ \E line \in Range(draft[r].lines[row.product]) :
              line.id = row.id /\ line.quantity = row.quantity
         /\ row.cart \in draft[r].cart
<1>1. PICK k \in draft[r].cart, p \in Product : \E line \in Saved(r, p) :
        row = [id |-> line.id, cart |-> k, product |-> p, quantity |-> line.quantity]
  BY DEF Written
<1>2. PICK line \in Saved(r, p) :
        row = [id |-> line.id, cart |-> k, product |-> p, quantity |-> line.quantity]
  BY <1>1
<1>3. line \in Range(draft[r].lines[p])
  BY DEF Saved
<1>4. line.id \in ItemId /\ line.quantity \in Nat
  <2>1. draft[r].lines[p] \in Seq(Line)
    BY DraftTyped
  <2> QED BY <1>3, <2>1, LineTyped
<1>5. k \in Request
  BY DraftTyped
<1> QED BY <1>2, <1>3, <1>4, <1>5 DEF Row

LEMMA WriteCartIs ==
  ASSUME Guarded, NEW r \in Request, WriteCart(r)
  PROVE  TypeOK' /\ (Writes(r) \/ GivesUp(r))
<1>1. /\ pc[r] = "writing" /\ InProgress(r) /\ Asks
      /\ UNCHANGED <<token, command, expected, disturbed, crashes>>
  BY DEF WriteCart, InProgress, Asks
<1>2. CASE SaveIsRejected(r)
  <2>1. Fails(r, 500)
    BY <1>2 DEF WriteCart
  <2>2. TypeOK'
    BY <1>1, <2>1, BaseTyped, FailureIs, TypesFollow
  <2>3. GivesUp(r)
    BY <1>1, <1>2, <2>1, FailureIs DEF GivesUp, Acts
  <2> QED BY <2>2, <2>3
<1>3. CASE ~SaveIsRejected(r)
  <2>1. /\ rows' = {row \in rows : row.id \notin draft[r].known} \cup Written(r)
        /\ Goes(r, "responding") /\ UNCHANGED <<carts, draft, answer>>
    BY <1>3 DEF WriteCart
  <2>2. "responding" \in Place
    BY DEF Place
  <2>3. /\ pc' \in [Request -> Place] /\ pc'[r] = "responding"
        /\ \A s \in Request \ {r} : pc'[s] = pc[s]
    BY <1>1, <2>1, <2>2, ActsTyped
  <2>4. rows' \subseteq Row
    BY <2>1, BaseTyped, WrittenTyped DEF Guarded
  <2>5. TypeOK'
    BY <1>1, <2>1, <2>3, <2>4, BaseTyped, TypesFollow
  <2>6. Writes(r)
    BY <1>1, <2>1, <2>3 DEF Writes, Acts
  <2> QED BY <2>5, <2>6
<1> QED BY <1>2, <1>3

LEMMA AnsweredIs ==
  ASSUME Guarded, NEW r \in Request, NEW lines, Answered(r, lines),
         lines \subseteq [product : Product, quantity : Nat]
  PROVE  TypeOK' /\ IsAnswered(r)
<1>1. /\ pc[r] = "responding" /\ InProgress(r) /\ Goes(r, "done")
      /\ UNCHANGED <<carts, rows, token, command, disturbed, crashes>>
      /\ expected' = [expected EXCEPT ![Me(r)] = Applied(expected[Me(r)], command[r])]
      /\ draft' = [draft EXCEPT ![r] = NoDraft]
      /\ answer' = [answer EXCEPT ![r] = [status |-> 200, lines |-> lines]]
  BY DEF Answered, InProgress
<1>2. /\ pc \in [Request -> Place] /\ draft \in [Request -> Draft] /\ answer \in [Request -> Answer]
      /\ expected \in [Customer -> [Product -> Nat]]
  BY BaseTyped
<1>3. "done" \in Place /\ NoDraft \in Draft /\ [status |-> 200, lines |-> lines] \in Answer
  BY EmptyDraft DEF Place, Answer
<1>4. /\ pc' \in [Request -> Place] /\ pc'[r] = "done"
      /\ \A s \in Request \ {r} : pc'[s] = pc[s]
  BY <1>1, <1>2, <1>3 DEF Goes
<1>5. /\ draft' \in [Request -> Draft] /\ draft'[r] = NoDraft
      /\ \A s \in Request \ {r} : draft'[s] = draft[s]
  BY <1>1, <1>2, <1>3
<1>6. answer' \in [Request -> Answer]
  BY <1>1, <1>2, <1>3
<1>7. /\ Me(r) \in Customer /\ command[r].product \in Product /\ command[r].quantity \in Nat
      /\ expected[Me(r)] \in [Product -> Nat]
  BY <1>1, <1>2, InProgressIs
<1>8. PICK next : next = Applied(expected[Me(r)], command[r])
  OBVIOUS
<1>9. next \in [Product -> Nat]
  <2>1. PICK p, q, n : p = command[r].product /\ q = command[r].quantity /\ n = expected[Me(r)][p]
    OBVIOUS
  <2>2. p \in Product /\ q \in Nat /\ n \in Nat /\ n + q \in Nat /\ 0 \in Nat
    BY <1>7, <2>1
  <2>3. next \in {[expected[Me(r)] EXCEPT ![p] = m] : m \in Nat}
    BY <1>8, <2>1, <2>2 DEF Applied
  <2> QED BY <1>7, <2>2, <2>3
<1>10. expected' \in [Customer -> [Product -> Nat]]
  BY <1>1, <1>2, <1>7, <1>8, <1>9
<1>11. TypeOK'
  BY <1>1, <1>4, <1>5, <1>6, <1>10 DEF Guarded, TypeOK
<1>12. IsAnswered(r)
  BY <1>1, <1>4, <1>5 DEF IsAnswered
<1> QED BY <1>11, <1>12

LEMMA RespondIs ==
  ASSUME Guarded, NEW r \in Request, RespondRemoved(r) \/ Respond(r)
  PROVE  TypeOK' /\ IsAnswered(r)
<1>1. CASE RespondRemoved(r)
  BY <1>1, AnsweredIs DEF RespondRemoved
<1>2. CASE Respond(r)
  <2>1. PICK lines \in GetCart(r) : Answered(r, lines)
    BY <1>2 DEF Respond
  <2>2. \A row \in rows : [product |-> row.product, quantity |-> row.quantity]
                            \in [product : Product, quantity : Nat]
    BY RowTyped DEF Guarded
  <2>3. lines \subseteq [product : Product, quantity : Nat]
    BY <2>2 DEF GetCart, RowsOf
  <2> QED BY <2>1, <2>3, AnsweredIs
<1> QED BY <1>1, <1>2

LEMMA DatabaseFailsIs ==
  ASSUME Guarded, NEW r \in Request, DatabaseFails(r)
  PROVE  TypeOK' /\ GivesUp(r)
<1>1. /\ InProgress(r) /\ Fails(r, 500)
      /\ UNCHANGED <<token, command, expected, crashes>>
      /\ disturbed' = disturbed \cup {Me(s) : s \in {s \in {r} : HalfWay(s)}}
  BY DEF DatabaseFails, InProgress
<1>2. Me(r) \in Customer
  BY <1>1, InProgressIs
<1>3. disturbed \subseteq disturbed' /\ disturbed' \subseteq Customer
      /\ (HalfWay(r) => Me(r) \in disturbed')
  BY <1>1, <1>2, BaseTyped
<1>4. TypeOK'
  BY <1>1, <1>3, BaseTyped, FailureIs, TypesFollow
<1>5. GivesUp(r)
  BY <1>1, <1>3, FailureIs DEF GivesUp, Acts
<1> QED BY <1>4, <1>5

\* The end of the process.
EndsAll ==
  /\ \A r \in Request : /\ pc'[r] = (IF InProgress(r) THEN "done" ELSE pc[r])
                        /\ draft'[r] = NoDraft
  /\ carts' = carts /\ rows' = rows
  /\ token' = token /\ command' = command /\ expected' = expected
  /\ disturbed \subseteq disturbed'
  /\ \A r \in Request : HalfWay(r) => Me(r) \in disturbed'

LEMMA CrashIs ==
  ASSUME Guarded, Crash
  PROVE  TypeOK' /\ EndsAll
<1>1. /\ crashes < MaxCrashes /\ crashes' = crashes + 1
      /\ disturbed' = disturbed \cup {Me(r) : r \in {r \in Request : HalfWay(r)}}
      /\ pc' = [r \in Request |-> IF InProgress(r) THEN "done" ELSE pc[r]]
      /\ draft' = [r \in Request |-> NoDraft]
      /\ UNCHANGED <<carts, rows, token, command, answer, expected>>
  BY DEF Crash
<1>2. pc' \in [Request -> Place]
  <2>1. "done" \in Place
    BY DEF Place
  <2> QED BY <1>1, <2>1, BaseTyped
<1>3. draft' \in [Request -> Draft]
  BY <1>1, EmptyDraft
<1>4. \A r \in Request : HalfWay(r) => Me(r) \in Customer
  <2>1. \A r \in Request : HalfWay(r) => InProgress(r)
    BY DEF HalfWay, InProgress
  <2> QED BY <2>1, InProgressIs
<1>5. /\ disturbed \subseteq disturbed' /\ disturbed' \subseteq Customer
      /\ \A r \in Request : HalfWay(r) => Me(r) \in disturbed'
  BY <1>1, <1>4, BaseTyped
<1>6. crashes' \in 0..MaxCrashes
  <2>1. crashes \in 0..MaxCrashes /\ MaxCrashes \in Nat
    BY BoundsAssumption DEF Guarded, TypeOK
  <2> QED BY <1>1, <2>1
<1>7. TypeOK'
  BY <1>1, <1>2, <1>3, <1>5, <1>6 DEF Guarded, TypeOK
<1>8. EndsAll
  BY <1>1, <1>5 DEF EndsAll
<1> QED BY <1>7, <1>8

LEMMA StepKinds ==
  ASSUME Guarded, IsFiniteSet(rows), Next
  PROVE  TypeOK' /\ (EndsAll \/ \E r \in Request : Steps(r))
<1>1. CASE Crash
  BY <1>1, CrashIs
<1>2. CASE \E r \in Request : RequestStep(r)
  <2>1. PICK r \in Request : RequestStep(r)
    BY <1>2
  <2>2. CASE \E credentials \in Credentials, c \in Command : Send(r, credentials, c)
    BY <2>2, SendIs DEF Steps
  <2>3. CASE FindProduct(r) \/ LoadCart(r) \/ CreateCart(r)
    BY <2>3, FindProductIs, LoadCartIs, CreateCartIs DEF Steps
  <2>4. CASE ReadStored(r) \/ RemoveItems(r) \/ ReadForSave(r) \/ WriteCart(r)
    BY <2>4, ReadStoredIs, RemoveItemsIs, ReadForSaveIs, WriteCartIs DEF Steps
  <2>5. CASE RespondRemoved(r) \/ Respond(r) \/ DatabaseFails(r)
    BY <2>5, RespondIs, DatabaseFailsIs DEF Steps
  <2> QED BY <2>1, <2>2, <2>3, <2>4, <2>5 DEF RequestStep
<1> QED BY <1>1, <1>2 DEF Next

------------------------------------------------------------------------------
(* Requests only move on, and what their customers have asked for grows. *)

\* What every step keeps of a request: its token and command once it is sent.
Progresses(s) ==
  /\ pc[s] # "idle" => token'[s] = token[s] /\ command'[s] = command[s] /\ pc'[s] # "idle"
  /\ Landed(s) => Landed(s)'
  /\ pc[s] \notin {"idle", "guarded", "loading"} =>
       pc'[s] \notin {"idle", "guarded", "loading"}

LEMMA RequestsProgress ==
  ASSUME TypeOK, EndsAll \/ \E r \in Request : Steps(r)
  PROVE  \A s \in Request : Progresses(s)
<1>1. CASE EndsAll
  BY <1>1 DEF EndsAll, Progresses, Landed, InProgress
<1>2. CASE \E r \in Request : Steps(r)
  <2>1. PICK r \in Request : Steps(r)
    BY <1>2
  <2>2. CASE Sends(r)
    BY <2>2 DEF Sends, Progresses, Landed
  <2>3. CASE ~Sends(r)
    <3>1. /\ \A s \in Request \ {r} : pc'[s] = pc[s]
          /\ token' = token /\ command' = command
      BY <2>1, <2>3 DEF Steps, LooksUp, GivesUp, LoadsNew, LoadsFound, Loads, Creates, Reads,
         Removes, Prepares, Writes, IsAnswered, Acts
    <3>2. /\ pc'[r] # "idle" /\ (Landed(r) => Landed(r)')
          /\ pc[r] \notin {"idle", "guarded", "loading"} =>
               pc'[r] \notin {"idle", "guarded", "loading"}
      BY <2>1, <2>3 DEF Steps, LooksUp, GivesUp, LoadsNew, LoadsFound, Loads, Creates, Reads,
         Removes, Prepares, Writes, IsAnswered, Landed
    <3> QED BY <3>1, <3>2 DEF Progresses, Landed
  <2> QED BY <2>2, <2>3
<1> QED BY <1>1, <1>2

LEMMA GuardsStay ==
  ASSUME Guarded, TypeOK', EndsAll \/ \E r \in Request : Steps(r)
  PROVE  RequestsAreGuarded'
<1> DEFINE Sent == {r \in Request : pc[r] # "idle"}
           Fits(s) ==
             /\ pc[s] = "idle" => token[s] = NoToken /\ command[s] = NoCommand
             /\ InProgress(s) => Me(s) \in Customer /\ command[s] \in Command
             /\ pc[s] \in {"guarded", "loading"} \cup Holding => command[s].op # "get"
             /\ pc[s] \in {"loading"} \cup Holding /\ command[s].op = "add" =>
                  command[s].product \in Catalog
             /\ pc[s] \notin Holding \cup {"responding"} => draft[s] = NoDraft
<1>1. IsFiniteSet(Sent) /\ \A s \in Request : Fits(s)
  BY DEF Guarded, RequestsAreGuarded
<1>2. SUFFICES IsFiniteSet(Sent') /\ \A s \in Request : Fits(s)'
  BY DEF RequestsAreGuarded
<1>3. CASE EndsAll
  <2>1. Sent' = Sent
    BY <1>3 DEF EndsAll, InProgress
  <2>2. \A s \in Request : Fits(s)'
    BY <1>1, <1>3 DEF EndsAll, InProgress, Holding
  <2> QED BY <1>1, <2>1, <2>2
<1>4. CASE \E r \in Request : Steps(r)
  <2>1. PICK r \in Request : Steps(r)
    BY <1>4
  <2>2. \A s \in Request \ {r} : pc'[s] = pc[s] /\ token'[s] = token[s] /\ command'[s] = command[s]
                                 /\ draft'[s] = draft[s]
    BY <2>1 DEF Steps, Sends, LooksUp, GivesUp, LoadsNew, LoadsFound, Loads, Creates, Reads,
       Removes, Prepares, Writes, IsAnswered, Acts
  <2>3. IsFiniteSet(Sent')
    <3>1. Sent' \subseteq Sent \cup {r}
      BY <2>2
    <3>2. IsFiniteSet(Sent \cup {r})
      BY <1>1, FS_AddElement
    <3> QED BY <3>1, <3>2, FS_Subset
  <2>4. ASSUME NEW s \in Request \ {r}
        PROVE  Fits(s)'
    BY <1>1, <2>2 DEF InProgress, Me, Holding
  <2>5. Fits(r)
    BY <1>1
  <2>6. Fits(r)'
    <3>1. CASE Sends(r)
      <4>1. draft[r] = NoDraft
        BY <2>5, <3>1 DEF Sends, Holding
      <4> QED BY <3>1, <4>1 DEF Sends, InProgress, Holding
    <3>2. CASE ~Sends(r)
      <4>1. token' = token /\ command' = command
        BY <2>1, <3>2 DEF Steps, LooksUp, GivesUp, LoadsNew, LoadsFound, Loads, Creates, Reads,
           Removes, Prepares, Writes, IsAnswered, Acts
      <4>2. CASE LooksUp(r)
        BY <2>5, <4>1, <4>2 DEF LooksUp, InProgress, Holding, Me
      <4>3. CASE GivesUp(r) \/ IsAnswered(r)
        BY <2>5, <4>1, <4>3 DEF GivesUp, IsAnswered, InProgress, Holding, Me
      <4>4. CASE LoadsNew(r) \/ LoadsFound(r)
        BY <2>5, <4>1, <4>4 DEF LoadsNew, LoadsFound, Loads, InProgress, Holding, Me
      <4>5. CASE Creates(r) \/ Reads(r) \/ Removes(r) \/ Prepares(r) \/ Writes(r)
        BY <2>5, <4>1, <4>5 DEF Creates, Reads, Removes, Prepares, Writes, InProgress, Holding, Me
      <4> QED BY <2>1, <3>2, <4>2, <4>3, <4>4, <4>5 DEF Steps
    <3> QED BY <3>1, <3>2
  <2> QED BY <2>3, <2>4, <2>6
<1> QED BY <1>3, <1>4

\* More requests, none of which asks for less.
LEMMA SumOfWider ==
  ASSUME NEW S, IsFiniteSet(S), NEW R \in SUBSET S, NEW f, NEW g,
         \A x \in S : g[x] \in Nat, \A x \in R : f[x] = g[x]
  PROVE  /\ SumFunction([x \in R |-> f[x]]) \in Nat /\ SumFunction([x \in S |-> g[x]]) \in Nat
         /\ SumFunction([x \in R |-> f[x]]) <= SumFunction([x \in S |-> g[x]])
<1> DEFINE F == [x \in R |-> f[x]]
           G == [x \in S |-> g[x]]
<1>1. /\ SumFunction(F) = SumFunctionOnSet(F, R) /\ SumFunction(G) = SumFunctionOnSet(G, S)
  BY DEF SumFunction, FoldFunction, SumFunctionOnSet
<1>2. /\ \A x \in R : F[x] \in Int /\ F[x] = G[x] /\ F[x] \in Nat
      /\ \A x \in S : G[x] \in Nat
  OBVIOUS
<1>3. IsFiniteSet(R)
  BY FS_Subset
<1> HIDE DEF F, G
<1>4. SumFunctionOnSet(F, R) = SumFunctionOnSet(G, R)
  BY <1>2, <1>3, SumOfEqualTerms
<1>5. SumFunctionOnSet(G, R) <= SumFunctionOnSet(G, S)
  BY <1>2, SumOfMore
<1>6. SumFunctionOnSet(F, R) \in Nat /\ SumFunctionOnSet(G, S) \in Nat
  BY <1>2, <1>3, SumOfNaturals
<1>7. SumFunction(F) \in Nat /\ SumFunction(G) \in Nat /\ SumFunction(F) <= SumFunction(G)
  BY <1>1, <1>4, <1>5, <1>6
<1> QED BY <1>7 DEF F, G

LEMMA UnitsGrow ==
  ASSUME Guarded, RequestsAreGuarded', TypeOK', \A s \in Request : Progresses(s),
         NEW c, NEW p
  PROVE  /\ Contributors(c, p) \subseteq Contributors(c, p)'
         /\ IsFiniteSet(Contributors(c, p)')
         /\ \A s \in Contributors(c, p)' : command'[s].quantity \in Nat
         /\ Units(c, p) \in Nat /\ Units(c, p)' \in Nat /\ Units(c, p) <= Units(c, p)'
<1>1. PICK R, S : R = Contributors(c, p) /\ S = Contributors(c, p)'
  OBVIOUS
<1>2. R \subseteq S /\ \A s \in R : command'[s] = command[s]
  BY <1>1 DEF Contributors, Asked, Me, Progresses
<1>3. IsFiniteSet(S)
  <2>1. IsFiniteSet({s \in Request : pc'[s] # "idle"})
    BY DEF RequestsAreGuarded
  <2>2. S \subseteq {s \in Request : pc'[s] # "idle"}
    BY <1>1 DEF Contributors, Asked
  <2> QED BY <2>1, <2>2, FS_Subset
<1>4. \A s \in S : command'[s].quantity \in Nat
  <2>1. \A s \in S : command'[s].op \in {"add", "update"} /\ s \in Request
    BY <1>1 DEF Contributors, Asked
  <2>2. \A s \in S : command'[s] \in Command \cup {NoCommand}
    BY <2>1 DEF TypeOK
  <2>3. NoCommand.op = "none"
    BY DEF NoCommand
  <2>4. \A s \in S : command'[s] \in Command
    BY <2>1, <2>2, <2>3
  <2> QED BY <2>4, CommandTyped
<1> DEFINE f == [s \in R |-> command[s].quantity]
           g == [s \in S |-> command'[s].quantity]
<1>5. \A s \in S : g[s] \in Nat
  BY <1>4
<1>6. \A s \in R : f[s] = g[s]
  BY <1>2
<1>7. Units(c, p) = SumFunction([s \in R |-> f[s]]) /\ Units(c, p)' = SumFunction([s \in S |-> g[s]])
  BY <1>1 DEF Units
<1> HIDE DEF f, g
<1>8. /\ SumFunction([s \in R |-> f[s]]) \in Nat /\ SumFunction([s \in S |-> g[s]]) \in Nat
      /\ SumFunction([s \in R |-> f[s]]) <= SumFunction([s \in S |-> g[s]])
  BY <1>2, <1>3, <1>5, <1>6, SumOfWider
<1> QED BY <1>1, <1>2, <1>3, <1>4, <1>7, <1>8

\* A request that begins to take part adds what it asked for.
LEMMA UnitsGrowBy ==
  ASSUME Guarded, RequestsAreGuarded', TypeOK', \A s \in Request : Progresses(s),
         NEW c, NEW p, NEW r \in Contributors(c, p)', r \notin Contributors(c, p)
  PROVE  Units(c, p) + command'[r].quantity <= Units(c, p)'
<1>1. PICK R, S : R = Contributors(c, p) /\ S = Contributors(c, p)'
  OBVIOUS
<1>2. /\ R \cup {r} \subseteq S /\ r \notin R /\ IsFiniteSet(S)
      /\ \A s \in S : command'[s].quantity \in Nat
  BY <1>1, UnitsGrow
<1>3. \A s \in R : command'[s] = command[s]
  BY <1>1 DEF Contributors, Asked, Progresses
<1> DEFINE g == [s \in S |-> command'[s].quantity]
           h == [s \in R |-> command[s].quantity]
<1>4. /\ \A s \in S : g[s] \in Nat /\ g[s] \in Int
      /\ g[r] = command'[r].quantity /\ \A s \in R : h[s] \in Int /\ h[s] = g[s]
  BY <1>2, <1>3
<1>5. Units(c, p) = SumFunctionOnSet(h, R) /\ Units(c, p)' = SumFunctionOnSet(g, S)
  BY <1>1 DEF Units, SumFunction
<1> HIDE DEF g, h
<1>6. IsFiniteSet(R) /\ IsFiniteSet(R \cup {r}) /\ R \in SUBSET S /\ R \cup {r} \in SUBSET S
  BY <1>2, FS_Subset
<1>7. SumFunctionOnSet(h, R) = SumFunctionOnSet(g, R)
  BY <1>4, <1>6, SumOfEqualTerms
<1>8. SumFunctionOnSet(g, R \cup {r}) = SumFunctionOnSet(g, R) + g[r]
  <2>1. \A s \in R \cup {r} : g[s] \in Int
    BY <1>2, <1>4
  <2> QED BY <1>2, <1>6, <2>1, SumOfOneMore
<1>9. SumFunctionOnSet(g, R \cup {r}) <= SumFunctionOnSet(g, S)
  BY <1>2, <1>4, <1>6, SumOfMore
<1> QED BY <1>4, <1>5, <1>7, <1>8, <1>9

\* What a request asked for is part of what was asked for.
LEMMA OwnUnits ==
  ASSUME Guarded, RequestsAreGuarded', TypeOK', \A s \in Request : Progresses(s),
         NEW c, NEW p, NEW r \in Contributors(c, p)'
  PROVE  command'[r].quantity \in Nat /\ command'[r].quantity <= Units(c, p)'
<1>1. PICK S : S = Contributors(c, p)'
  OBVIOUS
<1>2. /\ {r} \in SUBSET S /\ IsFiniteSet(S) /\ \A s \in S : command'[s].quantity \in Nat
  BY <1>1, UnitsGrow
<1> DEFINE g == [s \in S |-> command'[s].quantity]
<1>3. /\ \A s \in S : g[s] \in Nat /\ g[s] \in Int
      /\ g[r] = command'[r].quantity /\ g[r] \in Int
  BY <1>2
<1>4. Units(c, p)' = SumFunctionOnSet(g, S)
  BY <1>1 DEF Units, SumFunction
<1> HIDE DEF g
<1>5. SumFunctionOnSet(g, {} \cup {r}) = SumFunctionOnSet(g, {}) + g[r]
  <2>1. IsFiniteSet({}) /\ \A s \in {} \cup {r} : g[s] \in Int
    BY <1>3, FS_EmptySet
  <2> QED BY <2>1, SumOfOneMore
<1>6. SumFunctionOnSet(g, {r}) = g[r]
  <2>1. {} \cup {r} = {r} /\ SumFunctionOnSet(g, {}) = 0
    BY SumOfNothing
  <2> QED BY <1>3, <1>5, <2>1
<1>7. SumFunctionOnSet(g, {r}) <= SumFunctionOnSet(g, S)
  BY <1>2, <1>3, SumOfMore
<1> QED BY <1>2, <1>3, <1>4, <1>6, <1>7

------------------------------------------------------------------------------
(* Rows and drafts belong to the customers of the requests that made them. *)

RowOwned(row) ==
  /\ row.cart \in DOMAIN carts /\ carts[row.cart] = Me(row.id[1]) /\ Landed(row.id[1])
  /\ row.product = row.id[2] /\ row.product \in Catalog
  /\ row.quantity <= Units(Me(row.id[1]), row.product)

LineOwned(r, p, line) ==
  /\ line.id[2] = p /\ p \in Catalog
  /\ Me(line.id[1]) = Me(r) /\ (line.id[1] = r \/ Landed(line.id[1]))
  /\ line.quantity <= Units(Me(r), p)

CartOwned(r) ==
  /\ pc[r] \in Holding => \E k \in Request : draft[r].cart = {k}
  /\ pc[r] = "creating" => /\ draft[r].cart = {r} /\ command[r].op = "add"
                           /\ \A p \in Product : \A line \in Range(draft[r].lines[p]) :
                                p = command[r].product /\ line.id = <<r, p>>
  /\ pc[r] \in Holding \ {"creating"} => draft[r].cart \subseteq CartsOf(Me(r))

LinesOwned(r) == \A p \in Product : \A line \in Range(draft[r].lines[p]) : LineOwned(r, p, line)

IdsOwned(r) ==
  \A id \in draft[r].removes \cup draft[r].known \cup draft[r].orphans : Me(id[1]) = Me(r)

DraftOwned(r) == CartOwned(r) /\ LinesOwned(r) /\ IdsOwned(r)

LEMMA OwnershipParts ==
  /\ RowsHaveOwners <=>
       /\ IsFiniteSet(rows)
       /\ \A k \in DOMAIN carts : carts[k] = Me(k) /\ Landed(k)
       /\ \A row \in rows : RowOwned(row)
  /\ DraftsHaveOwners <=> \A r \in Request : DraftOwned(r)
<1>1. DraftsHaveOwners <=> \A r \in Request : DraftOwned(r)
  BY DEF DraftsHaveOwners, DraftOwned, CartOwned, LinesOwned, LineOwned, IdsOwned
<1> QED BY <1>1 DEF RowsHaveOwners, RowOwned

\* The situation of a step.
Follows ==
  /\ Guarded /\ RowsHaveOwners /\ DraftsHaveOwners /\ TypeOK' /\ RequestsAreGuarded'
  /\ \A s \in Request : Progresses(s)

LEMMA CartsStay ==
  ASSUME Follows, EndsAll \/ \E r \in Request : Steps(r)
  PROVE  \A k \in DOMAIN carts : k \in DOMAIN carts' /\ carts'[k] = carts[k]
<1>1. CASE carts' = carts
  BY <1>1
<1>2. CASE \E r \in Request : Creates(r)
  <2>1. PICK r \in Request : Creates(r)
    BY <1>2
  <2>2. r \notin DOMAIN carts
    BY <2>1 DEF Creates, Follows, RowsHaveOwners, Landed
  <2> QED BY <2>1, <2>2 DEF Creates
<1>3. carts' = carts \/ \E r \in Request : Creates(r)
  BY DEF EndsAll, Steps, Sends, LooksUp, GivesUp, LoadsNew, LoadsFound, Loads, Reads, Removes,
     Prepares, Writes, IsAnswered
<1> QED BY <1>1, <1>2, <1>3

\* A cart and a row whose cart stays keep their owner.
LEMMA OwnerStays ==
  ASSUME Follows, NEW r \in Request, Landed(r)
  PROVE  Landed(r)' /\ Me(r)' = Me(r)
<1>1. pc[r] # "idle" /\ Progresses(r)
  BY DEF Follows, Landed
<1> QED BY <1>1 DEF Progresses, Me

LEMMA RowStays ==
  ASSUME Follows, NEW row \in rows, row.cart \in DOMAIN carts', carts'[row.cart] = carts[row.cart]
  PROVE  RowOwned(row)'
<1>1. RowOwned(row) /\ TypeOK
  BY OwnershipParts DEF Follows, Guarded
<1>2. row.id[1] \in Request /\ row.quantity \in Nat
  BY <1>1, RowTyped
<1>3. Landed(row.id[1])' /\ Me(row.id[1])' = Me(row.id[1])
  BY <1>1, <1>2, OwnerStays DEF RowOwned
<1>4. PICK c : c = Me(row.id[1])
  OBVIOUS
<1>5. Units(c, row.product) \in Nat /\ Units(c, row.product)' \in Nat
      /\ Units(c, row.product) <= Units(c, row.product)'
  BY UnitsGrow DEF Follows
<1>6. row.quantity <= Units(c, row.product)
  BY <1>1, <1>4 DEF RowOwned
<1>7. row.quantity <= Units(c, row.product)'
  BY <1>2, <1>5, <1>6
<1>8. Units(Me(row.id[1]), row.product)' = Units(c, row.product)'
  BY <1>3, <1>4 DEF Units, Contributors, Asked
<1> QED BY <1>1, <1>3, <1>7, <1>8 DEF RowOwned

LEMMA LineStays ==
  ASSUME Follows, NEW r \in Request, pc[r] # "idle", NEW p, NEW line \in Line, LineOwned(r, p, line)
  PROVE  LineOwned(r, p, line)'
<1>1. line.id[1] \in Request /\ line.quantity \in Nat
  BY DEF Line, ItemId
<1>2. Me(r)' = Me(r)
  BY DEF Follows, Progresses, Me
<1>3. Me(line.id[1])' = Me(line.id[1]) /\ (line.id[1] = r \/ Landed(line.id[1])')
  BY <1>1, <1>2, OwnerStays DEF LineOwned
<1>4. PICK c : c = Me(r)
  OBVIOUS
<1>5. Units(c, p) \in Nat /\ Units(c, p)' \in Nat /\ Units(c, p) <= Units(c, p)'
  BY UnitsGrow DEF Follows
<1>6. line.quantity <= Units(c, p)
  BY <1>4 DEF LineOwned
<1>7. line.quantity <= Units(c, p)'
  BY <1>1, <1>5, <1>6
<1>8. Units(Me(r), p)' = Units(c, p)'
  BY <1>2, <1>4 DEF Units, Contributors, Asked
<1> QED BY <1>2, <1>3, <1>7, <1>8 DEF LineOwned

\* A line that a cart of the customer keeps becomes a row of theirs.
LEMMA LineBecomesRow ==
  ASSUME Follows, NEW r \in Request, InProgress(r), NEW p \in Product,
         NEW line \in Range(draft[r].lines[p]), NEW row,
         row.id = line.id, row.quantity = line.quantity, row.product = p,
         row.cart \in DOMAIN carts', carts'[row.cart] = Me(r), Landed(r)'
  PROVE  RowOwned(row)'
<1>1. line \in Line
  <2>1. draft[r].lines[p] \in Seq(Line)
    BY DraftTyped DEF Follows, Guarded
  <2> QED BY <2>1, LineTyped
<1>2. LineOwned(r, p, line)
  BY OwnershipParts DEF Follows, DraftOwned, LinesOwned
<1>3. pc[r] # "idle"
  BY DEF InProgress
<1>4. LineOwned(r, p, line)'
  BY <1>1, <1>2, <1>3, LineStays
<1>5. Me(r)' = Me(r)
  BY <1>3 DEF Follows, Progresses, Me
<1>6. PICK n : n = Units(Me(r), p)'
  OBVIOUS
<1>7. row.quantity <= n
  BY <1>4, <1>6 DEF LineOwned
<1>8. Units(Me(row.id[1]), row.product)' = n
  BY <1>4, <1>6 DEF LineOwned, Units, Contributors, Asked
<1>9. /\ carts'[row.cart] = Me(row.id[1])' /\ Landed(row.id[1])'
      /\ row.product = row.id[2] /\ row.product \in Catalog
  BY <1>4, <1>5 DEF LineOwned
<1> QED BY <1>7, <1>8, <1>9 DEF RowOwned

LEMMA RangeFinite ==
  ASSUME NEW S, NEW s \in Seq(S)
  PROVE  IsFiniteSet(Range(s))
<1>1. PICK n \in Nat : n = Len(s)
  OBVIOUS
<1>2. IsFiniteSet(1..n)
  BY FS_Interval
<1>3. IsFiniteSet({s[i] : i \in 1..n})
  BY <1>2, ImageIsFinite
<1>4. Range(s) = {s[i] : i \in 1..n}
  <2>1. DOMAIN s = 1..n
    BY <1>1
  <2> QED BY <2>1 DEF Range
<1> QED BY <1>3, <1>4

LEMMA WrittenFinite ==
  ASSUME TypeOK, NEW r \in Request, NEW k, draft[r].cart = {k}
  PROVE  IsFiniteSet(Written(r))
<1> DEFINE Of(p) == {[id |-> line.id, cart |-> k, product |-> p, quantity |-> line.quantity] :
                       line \in Range(draft[r].lines[p])}
<1>1. \A p \in Product : IsFiniteSet(Of(p))
  <2> TAKE p \in Product
  <2>1. draft[r].lines[p] \in Seq(Line)
    BY DraftTyped
  <2> DEFINE S == Range(draft[r].lines[p])
             f == [line \in S |-> [id |-> line.id, cart |-> k, product |-> p,
                                   quantity |-> line.quantity]]
  <2>2. IsFiniteSet(S)
    BY <2>1, RangeFinite
  <2>3. Of(p) = {f[line] : line \in S}
    OBVIOUS
  <2> HIDE DEF S, f, Of
  <2> QED BY <2>2, <2>3, ImageIsFinite
<1> DEFINE g == [p \in Product |-> Of(p)]
           All == {g[p] : p \in Product}
<1>2. \A T \in All : IsFiniteSet(T)
  BY <1>1
<1>3. Written(r) \subseteq UNION All
  <2>1. ASSUME NEW row \in Written(r)
        PROVE  row \in UNION All
    <3>1. PICK l \in draft[r].cart, p \in Product : \E line \in Saved(r, p) :
            row = [id |-> line.id, cart |-> l, product |-> p, quantity |-> line.quantity]
      BY DEF Written
    <3>2. row \in Of(p)
      BY <3>1 DEF Saved
    <3>3. g[p] = Of(p)
      OBVIOUS
    <3> QED BY <3>2, <3>3
  <2> QED BY <2>1
<1> HIDE DEF g
<1>4. IsFiniteSet(All)
  BY CatalogAssumption, ImageIsFinite
<1> HIDE DEF All
<1>5. IsFiniteSet(UNION All)
  BY <1>2, <1>4, FS_UNION
<1> QED BY <1>3, <1>5, FS_Subset

LEMMA RowsFollow ==
  ASSUME Follows, EndsAll \/ \E r \in Request : Steps(r)
  PROVE  RowsHaveOwners'
<1>1. /\ IsFiniteSet(rows) /\ \A k \in DOMAIN carts : carts[k] = Me(k) /\ Landed(k)
      /\ \A row \in rows : row.cart \in DOMAIN carts
      /\ DOMAIN carts \subseteq Request
  BY BaseTyped DEF Follows, RowsHaveOwners
<1>2. \A k \in DOMAIN carts : k \in DOMAIN carts' /\ carts'[k] = carts[k]
  BY CartsStay
<1>3. \A row \in rows : RowOwned(row)'
  BY <1>1, <1>2, RowStays
<1>4. \A k \in DOMAIN carts : carts'[k] = Me(k)' /\ Landed(k)'
  BY <1>1, <1>2, OwnerStays
<1>5. SUFFICES /\ IsFiniteSet(rows')
               /\ \A k \in DOMAIN carts' \ DOMAIN carts : carts'[k] = Me(k)' /\ Landed(k)'
               /\ \A row \in rows' \ rows : RowOwned(row)'
  BY <1>3, <1>4 DEF RowsHaveOwners, RowOwned
<1>6. CASE carts' = carts /\ rows' \subseteq rows
  BY <1>1, <1>6, FS_Subset
<1>7. ASSUME NEW r \in Request, Creates(r)
      PROVE  /\ IsFiniteSet(rows')
             /\ \A k \in DOMAIN carts' \ DOMAIN carts : carts'[k] = Me(k)' /\ Landed(k)'
             /\ \A row \in rows' \ rows : RowOwned(row)'
  <2>1. InProgress(r) /\ Landed(r)' /\ carts'[r] = Me(r) /\ DOMAIN carts' = DOMAIN carts \cup {r}
        /\ Me(r)' = Me(r)
    BY <1>7 DEF Creates, InProgress, Landed, Acts, Me
  <2>2. PICK p \in Product : p = command[r].product
    BY <2>1, InProgressIs DEF Follows
  <2> DEFINE S == Range(draft[r].lines[p])
             f == [line \in S |-> [id |-> line.id, cart |-> r, product |-> line.id[2],
                                   quantity |-> line.quantity]]
  <2>3. rows' = rows \cup {f[line] : line \in S}
    BY <1>7, <2>2 DEF Creates
  <2>4. draft[r].lines[p] \in Seq(Line)
    BY DraftTyped DEF Follows, Guarded
  <2>5. IsFiniteSet(S)
    BY <2>4, RangeFinite
  <2>6. \A line \in S : line.id[2] = p
    BY OwnershipParts DEF Follows, DraftOwned, LinesOwned, LineOwned
  <2>7. ASSUME NEW line \in S, NEW row, row = f[line]
        PROVE  RowOwned(row)'
    <3>1. row.id = line.id /\ row.quantity = line.quantity /\ row.product = p /\ row.cart = r
      BY <2>6, <2>7
    <3> QED BY <2>1, <3>1, LineBecomesRow
  <2> HIDE DEF S, f
  <2>8. IsFiniteSet({f[line] : line \in S})
    BY <2>5, ImageIsFinite
  <2>9. IsFiniteSet(rows')
    BY <1>1, <2>3, <2>8, FS_Union
  <2>10. \A row \in rows' \ rows : RowOwned(row)'
    BY <2>3, <2>7
  <2> QED BY <1>1, <2>1, <2>9, <2>10
<1>8. ASSUME NEW r \in Request, Writes(r)
      PROVE  /\ IsFiniteSet(rows')
             /\ \A k \in DOMAIN carts' \ DOMAIN carts : carts'[k] = Me(k)' /\ Landed(k)'
             /\ \A row \in rows' \ rows : RowOwned(row)'
  <2>1. InProgress(r) /\ Landed(r)' /\ carts' = carts /\ TypeOK
    BY <1>8 DEF Writes, InProgress, Landed, Follows, Guarded
  <2>2. CartOwned(r) /\ pc[r] = "writing"
    BY <1>8, OwnershipParts DEF Follows, DraftOwned, Writes
  <2>3. PICK k : draft[r].cart = {k} /\ k \in CartsOf(Me(r))
    BY <2>2 DEF CartOwned, Holding
  <2>4. k \in DOMAIN carts /\ carts[k] = Me(r)
    BY <2>3 DEF CartsOf
  <2>5. \A row \in Written(r) : RowOwned(row)'
    <3> TAKE row \in Written(r)
    <3>1. /\ row.product \in Product /\ row.cart = k
          /\ \E line \in Range(draft[r].lines[row.product]) :
               line.id = row.id /\ line.quantity = row.quantity
      BY <2>1, <2>3, WrittenTyped DEF Row
    <3> QED BY <2>1, <2>4, <3>1, LineBecomesRow
  <2>6. IsFiniteSet(Written(r))
    BY <2>1, <2>3, WrittenFinite
  <2>7. rows' \subseteq rows \cup Written(r)
    BY <1>8 DEF Writes
  <2>8. IsFiniteSet(rows')
    BY <1>1, <2>6, <2>7, FS_Union, FS_Subset
  <2> QED BY <2>1, <2>5, <2>7, <2>8
<1>9. \/ carts' = carts /\ rows' \subseteq rows
      \/ \E r \in Request : Creates(r) \/ Writes(r)
  BY DEF EndsAll, Steps, Sends, LooksUp, GivesUp, LoadsNew, LoadsFound, Loads, Reads, Removes,
     Prepares, IsAnswered
<1> QED BY <1>6, <1>7, <1>8, <1>9

LEMMA CartsOfStay ==
  ASSUME Follows, EndsAll \/ \E r \in Request : Steps(r), NEW c
  PROVE  CartsOf(c) \subseteq CartsOf(c)'
BY CartsStay DEF CartsOf

\* A request that does not move, or only ends.
LEMMA DraftStays ==
  ASSUME Follows, EndsAll \/ \E r \in Request : Steps(r), NEW r \in Request,
         draft'[r] = draft[r], pc'[r] = pc[r] \/ pc'[r] \notin Holding
  PROVE  DraftOwned(r)'
<1>1. DraftOwned(r) /\ draft[r].lines \in [Product -> Seq(Line)] /\ draft[r] \in Draft
      /\ \A p \in Product : draft[r].lines[p] \in Seq(Line)
  BY OwnershipParts, DraftTyped DEF Follows, Guarded
<1>2. CASE pc[r] = "idle"
  <2>1. draft'[r] = NoDraft
    BY <1>2 DEF Follows, Guarded, RequestsAreGuarded, Holding
  <2>2. pc'[r] \notin Holding
    BY <1>2 DEF Holding
  <2> QED BY <2>1, <2>2, EmptyDraft DEF DraftOwned, CartOwned, LinesOwned, IdsOwned, Holding
<1>3. CASE pc[r] # "idle"
  <2>1. Me(r)' = Me(r) /\ command'[r] = command[r]
    BY <1>3 DEF Follows, Progresses, Me
  <2>2. CartOwned(r)'
    <3>1. CartOwned(r)
      BY <1>1 DEF DraftOwned
    <3>2. PICK c : c = Me(r)
      OBVIOUS
    <3>3. CartsOf(c) \subseteq CartsOf(c)' /\ CartsOf(Me(r)) = CartsOf(c)
          /\ CartsOf(Me(r))' = CartsOf(c)'
      BY <2>1, <3>2, CartsOfStay DEF CartsOf
    <3> QED BY <2>1, <3>1, <3>3 DEF CartOwned, Holding
  <2>3. LinesOwned(r)'
    <3>1. \A p \in Product : \A line \in Range(draft[r].lines[p]) : line \in Line
      BY <1>1, LineTyped
    <3>2. \A p \in Product : \A line \in Range(draft[r].lines[p]) : LineOwned(r, p, line)
      BY <1>1 DEF DraftOwned, LinesOwned
    <3>3. \A p \in Product : \A line \in Range(draft[r].lines[p]) : LineOwned(r, p, line)'
      BY <1>3, <3>1, <3>2, LineStays
    <3> QED BY <3>3 DEF LinesOwned
  <2>4. IdsOwned(r)'
    <3>1. ASSUME NEW id \in draft[r].removes \cup draft[r].known \cup draft[r].orphans
          PROVE  Me(id[1])' = Me(r)'
      <4>1. Me(id[1]) = Me(r) /\ id \in ItemId
        BY <1>1 DEF DraftOwned, IdsOwned, Draft
      <4>2. id[1] \in Request
        BY <4>1 DEF ItemId
      <4>3. Me(r) \in Customer
        BY <3>1, EmptyDraft DEF Follows, Guarded, RequestsAreGuarded, InProgress, Holding
      <4>4. pc[id[1]] # "idle"
        BY <4>1, <4>2, <4>3, NobodyAssumption
           DEF Follows, Guarded, RequestsAreGuarded, Me, NoToken
      <4>5. Me(id[1])' = Me(id[1])
        BY <4>2, <4>4 DEF Follows, Progresses, Me
      <4> QED BY <2>1, <4>1, <4>5
    <3> QED BY <3>1 DEF IdsOwned
  <2> QED BY <2>2, <2>3, <2>4 DEF DraftOwned
<1> QED BY <1>2, <1>3

LEMMA DraftEmpties ==
  ASSUME NEW r \in Request, draft'[r] = NoDraft, pc'[r] \notin Holding
  PROVE  DraftOwned(r)'
BY EmptyDraft DEF DraftOwned, CartOwned, LinesOwned, IdsOwned, Holding

LEMMA FoundOwned ==
  ASSUME Follows, NEW r \in Request, NEW k \in CartsOf(Me(r)), NEW found \in Queried(k),
         NEW p \in Product, NEW line \in Range(found[p])
  PROVE  LineOwned(r, p, line)
<1>1. PICK row \in rows : /\ row.cart = k /\ row.product = p
                          /\ line.id = row.id /\ line.quantity = row.quantity
  <2>1. TypeOK /\ IsFiniteSet(rows)
    BY DEF Follows, Guarded, RowsHaveOwners
  <2>2. \A q \in Product : \A other \in Range(found[q]) : \E row \in rows :
          /\ row.cart = k /\ row.product = q
          /\ other.id = row.id /\ other.quantity = row.quantity
    BY <2>1, QueriedIs
  <2> QED BY <2>2
<1>2. RowOwned(row)
  BY OwnershipParts DEF Follows
<1>3. Me(row.id[1]) = Me(r)
  BY <1>1, <1>2 DEF RowOwned, CartsOf
<1>4. PICK c : c = Me(r)
  OBVIOUS
<1>5. row.quantity <= Units(c, p)
  BY <1>1, <1>2, <1>3, <1>4 DEF RowOwned
<1> QED BY <1>1, <1>2, <1>3, <1>4, <1>5 DEF RowOwned, LineOwned

\* What a line of one item has.
LEMMA OnlyIs == \A x : Range(<<x>>) = {x}
BY DEF Range

LEMMA ChangedOwned ==
  ASSUME Follows, NEW r \in Request, pc[r] = "loading", pc'[r] \in {"creating", "persisting"},
         NEW lines \in [Product -> Seq(Line)],
         \A p \in Product : \A line \in Range(lines[p]) : LineOwned(r, p, line),
         NEW new \in Changed(lines, r), NEW p \in Product, NEW line \in Range(new[p])
  PROVE  LineOwned(r, p, line)'
<1>1. /\ InProgress(r) /\ pc[r] # "idle" /\ command[r] \in Command /\ command[r].op # "get"
      /\ command'[r] = command[r] /\ Me(r)' = Me(r) /\ Me(r) \in Customer
      /\ command[r].op = "add" => command[r].product \in Catalog
  BY DEF Follows, Guarded, RequestsAreGuarded, InProgress, Holding, Progresses, Me
<1>2. PICK c, q, mine : c = Me(r) /\ q = command[r].quantity /\ mine = command[r].product
  OBVIOUS
<1>3. mine \in Product /\ q \in Nat /\ command[r].op \in {"add", "update", "remove", "get"}
  BY <1>1, <1>2, CommandTyped
<1>4. new \in [Product -> Seq(Line)] /\ IsChanged(new, lines, r, mine, q)
  BY <1>1, <1>2, ChangedIs
<1>5. \A other \in Product : \A old \in Range(lines[other]) : LineOwned(r, other, old)'
  <2>1. \A other \in Product : \A old \in Range(lines[other]) : old \in Line
    BY LineTyped
  <2> QED BY <1>1, <2>1, LineStays
<1>6. PICK had, has : had = Units(c, mine) /\ has = Units(c, mine)'
  OBVIOUS
<1>7. \A m : Units(Me(r), m)' = Units(c, m)'
  BY <1>1, <1>2 DEF Units, Contributors, Asked
<1>8. command[r].op \in {"add", "update"} => q <= has /\ had + q <= has
  <2>1. command[r].op \in {"add", "update"} => r \in Contributors(c, mine)'
    BY <1>1, <1>2 DEF Contributors, Asked
  <2>2. r \notin Contributors(c, mine)
    BY DEF Contributors
  <2> QED BY <1>1, <1>2, <1>6, <2>1, <2>2, OwnUnits, UnitsGrowBy DEF Follows
<1>9. CASE p # mine
  BY <1>4, <1>5, <1>9 DEF IsChanged
<1>10. CASE p = mine /\ command[r].op = "add" /\ lines[mine] = <<>>
  <2>1. line = [id |-> <<r, mine>>, quantity |-> q]
    BY <1>4, <1>10, OnlyIs DEF IsChanged
  <2>2. line.id[1] = r /\ line.id[2] = p /\ line.quantity <= has /\ p \in Catalog
    BY <1>1, <1>2, <1>8, <1>10, <2>1
  <2> QED BY <1>6, <1>7, <1>10, <2>2 DEF LineOwned
<1>11. ASSUME p = mine, lines[mine] # <<>>, NEW m \in Nat, new[mine] = Quantified(lines[mine], m),
              m <= has
       PROVE  LineOwned(r, p, line)'
  <2>1. /\ lines[mine] \in Seq(Line) /\ Len(new[mine]) = Len(lines[mine])
        /\ new[mine] \in Seq(Line)
        /\ 1 \in 1..Len(lines[mine])
        /\ new[mine][1] = [id |-> lines[mine][1].id, quantity |-> m]
        /\ \A i \in 1..Len(lines[mine]) : i # 1 => new[mine][i] = lines[mine][i]
    BY <1>3, <1>11, QuantifiedIs
  <2>2. DOMAIN new[mine] = 1..Len(lines[mine]) /\ DOMAIN lines[mine] = 1..Len(lines[mine])
    BY <2>1
  <2>3. PICK i \in 1..Len(lines[mine]) : line = new[mine][i]
    BY <1>11, <2>2 DEF Range
  <2>4. CASE i # 1
    BY <1>5, <1>11, <2>1, <2>2, <2>3, <2>4 DEF Range
  <2>5. CASE i = 1
    <3>1. PICK first : first = lines[mine][1]
      OBVIOUS
    <3>2. first \in Range(lines[p])
      BY <1>11, <2>1, <2>2, <3>1 DEF Range
    <3>3. LineOwned(r, p, first)'
      BY <1>5, <3>2
    <3>4. line.id = first.id /\ line.quantity = m
      BY <2>1, <2>3, <2>5, <3>1
    <3>5. line.quantity <= has
      BY <1>11, <3>4
    <3> QED BY <1>6, <1>7, <1>11, <3>3, <3>4, <3>5 DEF LineOwned
  <2> QED BY <2>4, <2>5
<1>12. CASE p = mine /\ command[r].op = "add" /\ lines[mine] # <<>>
  <2>1. lines[mine] \in Seq(Line)
    BY <1>3
  <2>2. PICK n : n = lines[mine][1].quantity
    OBVIOUS
  <2>3. n \in Nat /\ lines[mine][1] \in Range(lines[mine])
    BY <1>12, <2>1, <2>2, FirstIs
  <2>4. n <= had
    BY <1>2, <1>3, <1>6, <2>2, <2>3 DEF LineOwned
  <2>5. had \in Nat /\ has \in Nat
    BY <1>6, UnitsGrow DEF Follows
  <2>6. n + q <= has /\ n + q \in Nat
    BY <1>3, <1>8, <1>12, <2>3, <2>4, <2>5
  <2> QED BY <1>4, <1>11, <1>12, <2>2, <2>6 DEF IsChanged
<1>13. CASE p = mine /\ command[r].op = "update"
  BY <1>3, <1>4, <1>8, <1>11, <1>13 DEF IsChanged
<1>14. CASE p = mine /\ command[r].op = "remove"
  BY <1>4, <1>14, EmptyDraft DEF Range, IsChanged
<1> QED BY <1>1, <1>3, <1>9, <1>10, <1>12, <1>13, <1>14

LEMMA LoadsOwned ==
  ASSUME Follows, EndsAll \/ \E s \in Request : Steps(s), NEW r \in Request,
         LoadsNew(r) \/ LoadsFound(r)
  PROVE  DraftOwned(r)'
<1>1. ASSUME NEW cart \in Request, NEW lines \in [Product -> Seq(Line)],
             \A p \in Product : \A line \in Range(lines[p]) : LineOwned(r, p, line),
             NEW new \in Changed(lines, r), Loads(r, cart, new),
             pc'[r] \in {"creating", "persisting"}
      PROVE  LinesOwned(r)' /\ IdsOwned(r)' /\ draft'[r].cart = {cart} /\ draft'[r].lines = new
  <2>1. pc[r] = "loading"
    BY <1>1 DEF Loads
  <2>2. LinesOwned(r)'
    BY <1>1, <2>1, ChangedOwned DEF LinesOwned, Loads
  <2> QED BY <1>1, <2>2 DEF IdsOwned, Loads
<1>2. CASE LoadsNew(r)
  <2>1. /\ NoCart \in [Product -> Seq(Line)]
        /\ \A p \in Product : NoCart[p] = <<>> /\ Range(NoCart[p]) = {}
    BY DEF NoCart, Range
  <2>2. PICK new : new = AddCartItem(NoCart, r)
    OBVIOUS
  <2>3. new \in Changed(NoCart, r) /\ command[r].op = "add" /\ pc'[r] = "creating"
        /\ Loads(r, r, new) /\ pc[r] = "loading"
    BY <1>2, <2>2 DEF LoadsNew, Loads, Changed
  <2>4. LinesOwned(r)' /\ IdsOwned(r)' /\ draft'[r].cart = {r} /\ draft'[r].lines = new
    BY <1>1, <2>1, <2>3
  <2>5. command'[r] = command[r] /\ command[r] \in Command /\ command[r].op # "get"
    BY <2>3 DEF Loads, Acts, Follows, Guarded, RequestsAreGuarded, InProgress
  <2>6. PICK mine : mine = command[r].product
    OBVIOUS
  <2>7. /\ \A other \in Product \ {mine} : new[other] = <<>>
        /\ new[mine] = <<[id |-> <<r, mine>>, quantity |-> command[r].quantity]>>
    <3>1. mine \in Product
      BY <2>5, <2>6, CommandTyped
    <3>2. IsChanged(new, NoCart, r, mine, command[r].quantity)
      BY <2>1, <2>3, <2>5, <2>6, ChangedIs
    <3> QED BY <2>1, <2>3, <3>1, <3>2 DEF IsChanged
  <2>8. \A p \in Product : \A line \in Range(new[p]) : p = mine /\ line.id = <<r, p>>
    BY <2>7, OnlyIs, EmptyDraft DEF Range
  <2>9. CartOwned(r)'
    BY <2>3, <2>4, <2>5, <2>6, <2>8 DEF CartOwned, Holding
  <2> QED BY <2>4, <2>9 DEF DraftOwned
<1>3. CASE LoadsFound(r)
  <2>1. PICK cart \in CartsOf(Me(r)) : \E found \in Queried(cart) :
          \E lines \in Changed(found, r) : Loads(r, cart, lines)
    BY <1>3 DEF LoadsFound
  <2>2. PICK found \in Queried(cart) : \E lines \in Changed(found, r) : Loads(r, cart, lines)
    BY <2>1
  <2>3. PICK new \in Changed(found, r) : Loads(r, cart, new)
    BY <2>2
  <2>4. found \in [Product -> Seq(Line)] /\ cart \in Request
    BY QueriedIs, BaseTyped DEF Follows, Guarded, RowsHaveOwners, CartsOf
  <2>5. \A p \in Product : \A line \in Range(found[p]) : LineOwned(r, p, line)
    BY FoundOwned
  <2>6. pc'[r] = "persisting" /\ pc[r] = "loading"
    BY <1>3, <2>3 DEF LoadsFound, Loads
  <2>7. LinesOwned(r)' /\ IdsOwned(r)' /\ draft'[r].cart = {cart}
    BY <1>1, <2>3, <2>4, <2>5, <2>6
  <2>8. Me(r)' = Me(r)
    BY <2>6 DEF Follows, Progresses, Me
  <2>9. PICK c : c = Me(r)
    OBVIOUS
  <2>10. cart \in CartsOf(c)' /\ CartsOf(c)' = CartsOf(Me(r))'
    BY <2>8, <2>9, CartsOfStay DEF CartsOf
  <2>11. CartOwned(r)'
    BY <2>4, <2>6, <2>7, <2>10 DEF CartOwned
  <2> QED BY <2>7, <2>11 DEF DraftOwned
<1> QED BY <1>2, <1>3

LEMMA ReadsOwned ==
  ASSUME Follows, EndsAll \/ \E s \in Request : Steps(s), NEW r \in Request, Reads(r)
  PROVE  DraftOwned(r)'
<1>1. /\ pc[r] = "persisting" /\ pc'[r] = "removing" /\ pc[r] # "idle"
      /\ Me(r)' = Me(r) /\ draft'[r].cart = draft[r].cart
      /\ draft'[r].known = draft[r].known /\ draft'[r].orphans = draft[r].orphans
  BY DEF Reads, Acts, Me
<1>2. DraftOwned(r) /\ TypeOK /\ IsFiniteSet(rows)
  BY OwnershipParts DEF Follows, Guarded, RowsHaveOwners
<1>3. draft[r].lines \in [Product -> Seq(Line)] /\ \A p \in Product : draft[r].lines[p] \in Seq(Line)
  BY <1>2, DraftTyped
<1>4. PICK cart \in draft[r].cart : \E stored \in Queried(cart) :
        /\ draft'[r].lines = Merged(stored, draft[r].lines, r)
        /\ draft'[r].removes = Ids(stored)
  BY DEF Reads
<1>5. PICK stored \in Queried(cart) :
        /\ draft'[r].lines = Merged(stored, draft[r].lines, r)
        /\ draft'[r].removes = Ids(stored)
  BY <1>4
<1>6. cart \in CartsOf(Me(r)) /\ \E k \in Request : draft[r].cart = {k}
      /\ draft[r].cart \subseteq CartsOf(Me(r))
  BY <1>1, <1>2 DEF DraftOwned, CartOwned, Holding
<1>7. CartOwned(r)'
  <2>1. PICK c : c = Me(r)
    OBVIOUS
  <2>2. CartsOf(c) \subseteq CartsOf(c)' /\ CartsOf(Me(r))' = CartsOf(c)'
    BY <1>1, <2>1, CartsOfStay DEF CartsOf
  <2> QED BY <1>1, <1>6, <2>1, <2>2 DEF CartOwned, Holding
<1>8. stored \in [Product -> Seq(Line)]
  BY <1>2, QueriedIs
<1>9. PICK new : new = Merged(stored, draft[r].lines, r)
  OBVIOUS
<1>10. \A p \in Product : \A line \in Range(draft[r].lines[p]) : LineOwned(r, p, line)'
  <2>1. \A p \in Product : \A line \in Range(draft[r].lines[p]) :
          line \in Line /\ LineOwned(r, p, line)
    BY <1>2, <1>3, LineTyped DEF DraftOwned, LinesOwned
  <2> QED BY <1>1, <2>1, LineStays
<1>11. LinesOwned(r)'
  <2>1. SUFFICES ASSUME NEW p \in Product, NEW line \in Range(new[p])
                 PROVE  LineOwned(r, p, line)'
    BY <1>5, <1>9 DEF LinesOwned
  <2>2. /\ draft[r].lines[p] = <<>> \/ stored[p] = <<>> => new[p] = draft[r].lines[p]
        /\ draft[r].lines[p] # <<>> /\ stored[p] # <<>> =>
             new[p] = <<[id |-> <<r, p>>, quantity |-> Last(draft[r].lines[p]).quantity]>>
    <3>1. IsMerged(Merged(stored, draft[r].lines, r), stored, draft[r].lines, r)
      BY <1>3, <1>8, MergedIs
    <3>2. IsMerged(new, stored, draft[r].lines, r)
      BY <1>9, <3>1
    <3> QED BY <3>2 DEF IsMerged
  <2>3. CASE draft[r].lines[p] = <<>> \/ stored[p] = <<>>
    BY <1>10, <2>2, <2>3
  <2>4. CASE draft[r].lines[p] # <<>> /\ stored[p] # <<>>
    <3>1. PICK last : last = Last(draft[r].lines[p])
      OBVIOUS
    <3>2. last \in Range(draft[r].lines[p])
      BY <1>3, <2>4, <3>1, LastIs
    <3>3. LineOwned(r, p, last)'
      BY <1>10, <3>2
    <3>4. line = [id |-> <<r, p>>, quantity |-> last.quantity]
      BY <2>2, <2>4, <3>1, OnlyIs
    <3>5. line.id[1] = r /\ line.id[2] = p /\ line.quantity = last.quantity
      BY <3>4
    <3> QED BY <3>3, <3>5 DEF LineOwned
  <2> QED BY <2>3, <2>4
<1>12. Me(r) \in Customer
  BY <1>1, InProgressIs DEF Follows, InProgress
<1>13. ASSUME NEW id \in draft'[r].removes \cup draft'[r].known \cup draft'[r].orphans
       PROVE  Me(id[1])' = Me(r)'
  <2>1. Me(id[1]) = Me(r) /\ id[1] \in Request
    <3>1. CASE id \in Ids(stored)
      <4>1. PICK p \in Product : \E line \in Range(stored[p]) : id = line.id
        BY <1>8, <3>1, IdsTyped
      <4>2. PICK line \in Range(stored[p]) : id = line.id
        BY <4>1
      <4>3. LineOwned(r, p, line)
        BY <1>6, FoundOwned
      <4>4. stored[p] \in Seq(Line)
        BY <1>8
      <4> QED BY <4>2, <4>3, <4>4, LineTyped DEF LineOwned
    <3>2. CASE id \in draft[r].known \cup draft[r].orphans
      <4>1. id \in ItemId
        BY <1>2, <3>2, DraftTyped
      <4> QED BY <1>2, <3>2, <4>1 DEF DraftOwned, IdsOwned, ItemId
    <3> QED BY <1>1, <1>5, <1>13, <3>1, <3>2
  <2>2. pc[id[1]] # "idle"
    BY <1>12, <2>1, NobodyAssumption DEF Follows, Guarded, RequestsAreGuarded, Me, NoToken
  <2> QED BY <1>1, <2>1, <2>2 DEF Follows, Progresses, Me
<1>14. IdsOwned(r)'
  BY <1>13 DEF IdsOwned
<1> QED BY <1>7, <1>11, <1>14 DEF DraftOwned

\* Deletes and reads of a transaction that is under way change no line.
LEMMA RemovesOwned ==
  ASSUME Follows, EndsAll \/ \E s \in Request : Steps(s), NEW r \in Request,
         Removes(r) \/ Prepares(r)
  PROVE  DraftOwned(r)'
<1>1. /\ pc[r] \in {"removing", "saving"} /\ pc'[r] \in {"saving", "writing"} /\ pc[r] # "idle"
      /\ Me(r)' = Me(r) /\ draft'[r].cart = draft[r].cart /\ draft'[r].lines = draft[r].lines
  BY DEF Removes, Prepares, Acts, Me
<1>2. DraftOwned(r) /\ TypeOK
  BY OwnershipParts DEF Follows, Guarded
<1>3. draft[r].lines \in [Product -> Seq(Line)] /\ \A p \in Product : draft[r].lines[p] \in Seq(Line)
  BY <1>2, DraftTyped
<1>4. (\E k \in Request : draft[r].cart = {k}) /\ draft[r].cart \subseteq CartsOf(Me(r))
  BY <1>1, <1>2 DEF DraftOwned, CartOwned, Holding
<1>5. CartOwned(r)'
  <2>1. PICK c : c = Me(r)
    OBVIOUS
  <2>2. CartsOf(c) \subseteq CartsOf(c)' /\ CartsOf(Me(r))' = CartsOf(c)'
    BY <1>1, <2>1, CartsOfStay DEF CartsOf
  <2> QED BY <1>1, <1>4, <2>1, <2>2 DEF CartOwned, Holding
<1>6. LinesOwned(r)'
  <2>1. \A p \in Product : \A line \in Range(draft[r].lines[p]) :
          line \in Line /\ LineOwned(r, p, line)
    BY <1>2, <1>3, LineTyped DEF DraftOwned, LinesOwned
  <2>2. \A p \in Product : \A line \in Range(draft[r].lines[p]) : LineOwned(r, p, line)'
    BY <1>1, <2>1, LineStays
  <2> QED BY <1>1, <2>2 DEF LinesOwned
<1>7. Me(r) \in Customer
  BY <1>1, InProgressIs DEF Follows, InProgress
<1>8. ASSUME NEW id \in draft'[r].removes \cup draft'[r].known \cup draft'[r].orphans
      PROVE  Me(id[1])' = Me(r)'
  <2>1. Me(id[1]) = Me(r) /\ id[1] \in Request
    <3>1. CASE id \in draft[r].removes \cup draft[r].known \cup draft[r].orphans
      <4>1. id \in ItemId
        BY <1>2, <3>1, DraftTyped
      <4> QED BY <1>2, <3>1, <4>1 DEF DraftOwned, IdsOwned, ItemId
    <3>2. CASE id \in Ids(draft[r].lines)
      <4>1. PICK p \in Product : \E line \in Range(draft[r].lines[p]) : id = line.id
        BY <1>3, <3>2, IdsTyped
      <4>2. PICK line \in Range(draft[r].lines[p]) : id = line.id
        BY <4>1
      <4>3. LineOwned(r, p, line)
        BY <1>2 DEF DraftOwned, LinesOwned
      <4> QED BY <1>3, <4>2, <4>3, LineTyped DEF LineOwned
    <3>3. ASSUME NEW row \in rows, row.cart \in draft[r].cart, id = row.id
          PROVE  Me(id[1]) = Me(r) /\ id[1] \in Request
      <4>1. RowOwned(row)
        BY OwnershipParts DEF Follows
      <4> QED BY <1>2, <1>4, <3>3, <4>1, RowTyped DEF RowOwned, CartsOf
    <3>4. \/ id \in draft[r].removes \cup draft[r].known \cup draft[r].orphans
          \/ id \in Ids(draft[r].lines)
          \/ \E row \in rows : row.cart \in draft[r].cart /\ id = row.id
      BY <1>8 DEF Removes, Prepares
    <3> QED BY <3>1, <3>2, <3>3, <3>4
  <2>2. pc[id[1]] # "idle"
    BY <1>7, <2>1, NobodyAssumption DEF Follows, Guarded, RequestsAreGuarded, Me, NoToken
  <2> QED BY <1>1, <2>1, <2>2 DEF Follows, Progresses, Me
<1>9. IdsOwned(r)'
  BY <1>8 DEF IdsOwned
<1> QED BY <1>5, <1>6, <1>9 DEF DraftOwned

LEMMA DraftsFollow ==
  ASSUME Follows, EndsAll \/ \E r \in Request : Steps(r)
  PROVE  DraftsHaveOwners'
<1>1. SUFFICES \A r \in Request : DraftOwned(r)'
  BY DEF DraftsHaveOwners, DraftOwned, CartOwned, LinesOwned, LineOwned, IdsOwned
<1>2. CASE EndsAll
  <2>1. \A r \in Request : draft'[r] = NoDraft /\ pc'[r] \notin Holding
    BY <1>2 DEF EndsAll, InProgress, Holding
  <2> QED BY <2>1, DraftEmpties
<1>3. CASE \E r \in Request : Steps(r)
  <2>1. PICK r \in Request : Steps(r)
    BY <1>3
  <2>2. \A s \in Request \ {r} : pc'[s] = pc[s] /\ draft'[s] = draft[s]
    BY <2>1 DEF Steps, Sends, LooksUp, GivesUp, LoadsNew, LoadsFound, Loads, Creates, Reads,
       Removes, Prepares, Writes, IsAnswered, Acts
  <2>3. \A s \in Request \ {r} : DraftOwned(s)'
    BY <2>2, DraftStays
  <2>4. CASE Sends(r) \/ LooksUp(r) \/ Creates(r) \/ Writes(r)
    <3>1. draft'[r] = draft[r] /\ pc'[r] \notin Holding
      BY <2>4 DEF Sends, LooksUp, Creates, Writes, Holding
    <3> QED BY <2>3, <3>1, DraftStays
  <2>5. CASE GivesUp(r) \/ IsAnswered(r)
    <3>1. draft'[r] = NoDraft /\ pc'[r] \notin Holding
      BY <2>5 DEF GivesUp, IsAnswered, Holding
    <3> QED BY <2>3, <3>1, DraftEmpties
  <2>6. CASE LoadsNew(r) \/ LoadsFound(r)
    BY <2>3, <2>6, LoadsOwned
  <2>7. CASE Reads(r) \/ Removes(r) \/ Prepares(r)
    BY <2>3, <2>7, ReadsOwned, RemovesOwned
  <2> QED BY <2>1, <2>4, <2>5, <2>6, <2>7 DEF Steps
<1> QED BY <1>2, <1>3

------------------------------------------------------------------------------
(* What undisturbed customers have: the contents of their cart, as lines. *)

ListsOf(lines, contents) ==
  \A p \in Product :
    IF contents[p] = 0 THEN lines[p] = <<>>
    ELSE Len(lines[p]) = 1 /\ lines[p][1].quantity = contents[p]

\* The contents a command leaves.
LEMMA AppliedIs ==
  ASSUME NEW before \in [Product -> Nat], NEW c \in Command
  PROVE  /\ Applied(before, c) \in [Product -> Nat]
         /\ \A p \in Product : p # c.product => Applied(before, c)[p] = before[p]
         /\ c.op = "add" => Applied(before, c)[c.product] = before[c.product] + c.quantity
         /\ c.op = "update" => Applied(before, c)[c.product] = c.quantity
         /\ c.op = "remove" => Applied(before, c)[c.product] = 0
         /\ c.op = "get" => Applied(before, c) = before
<1>1. PICK p, q, n : p = c.product /\ q = c.quantity /\ n = before[p]
  OBVIOUS
<1>2. /\ p \in Product /\ q \in Nat /\ n \in Nat /\ n + q \in Nat
      /\ c.op \in {"add", "update", "remove", "get"}
  BY <1>1, CommandTyped
<1>3. CASE c.op = "add"
  <2>1. Applied(before, c) = [before EXCEPT ![p] = n + q]
    BY <1>1, <1>3 DEF Applied
  <2> QED BY <1>1, <1>2, <1>3, <2>1
<1>4. CASE c.op = "update"
  <2>1. Applied(before, c) = [before EXCEPT ![p] = q]
    BY <1>1, <1>4 DEF Applied
  <2> QED BY <1>1, <1>2, <1>4, <2>1
<1>5. CASE c.op = "remove"
  <2>1. Applied(before, c) = [before EXCEPT ![p] = 0]
    BY <1>1, <1>5 DEF Applied
  <2> QED BY <1>1, <1>2, <1>5, <2>1
<1>6. CASE c.op = "get"
  <2>1. Applied(before, c) = [before EXCEPT ![p] = n]
    BY <1>1, <1>6 DEF Applied
  <2>2. [before EXCEPT ![p] = n] = before
    BY <1>1, <1>2
  <2> QED BY <1>1, <1>2, <1>6, <2>1, <2>2
<1> QED BY <1>2, <1>3, <1>4, <1>5, <1>6

LEMMA ChangedLists ==
  ASSUME NEW r \in Request, command[r] \in Command, command[r].op # "get",
         NEW lines \in [Product -> Seq(Line)], NEW before \in [Product -> Nat],
         ListsOf(lines, before), NEW new \in Changed(lines, r)
  PROVE  ListsOf(new, Applied(before, command[r]))
<1>1. PICK p, q, op : p = command[r].product /\ q = command[r].quantity /\ op = command[r].op
  OBVIOUS
<1>2. p \in Product /\ q \in Nat /\ q > 0 /\ op \in {"add", "update", "remove"}
  BY <1>1, CommandTyped
<1>3. PICK after : after = Applied(before, command[r])
  OBVIOUS
<1>4. /\ after \in [Product -> Nat]
      /\ \A other \in Product : other # p => after[other] = before[other]
      /\ op = "add" => after[p] = before[p] + q
      /\ op = "update" => after[p] = q
      /\ op = "remove" => after[p] = 0
  BY <1>1, <1>3, AppliedIs
<1>5. IsChanged(new, lines, r, p, q)
  BY <1>1, ChangedIs
<1>6. SUFFICES ASSUME NEW other \in Product
               PROVE  IF after[other] = 0 THEN new[other] = <<>>
                      ELSE Len(new[other]) = 1 /\ new[other][1].quantity = after[other]
  BY <1>3 DEF ListsOf
<1>7. IF before[other] = 0 THEN lines[other] = <<>>
      ELSE Len(lines[other]) = 1 /\ lines[other][1].quantity = before[other]
  BY DEF ListsOf
<1>8. before[other] \in Nat /\ lines[other] \in Seq(Line) /\ lines[p] \in Seq(Line)
  BY <1>2
<1>9. CASE other # p
  BY <1>4, <1>5, <1>7, <1>9 DEF IsChanged
<1>10. CASE other = p /\ op = "add" /\ lines[p] = <<>>
  <2>1. new[p] = <<[id |-> <<r, p>>, quantity |-> q]>>
    BY <1>1, <1>5, <1>10 DEF IsChanged
  <2>2. Len(new[p]) = 1 /\ new[p][1].quantity = q
    BY <2>1
  <2>3. before[p] = 0
    BY <1>7, <1>10
  <2>4. after[p] = q /\ after[p] # 0
    BY <1>2, <1>4, <1>10, <2>3
  <2> QED BY <1>10, <2>2, <2>4
<1>11. ASSUME other = p, lines[p] # <<>>, NEW n \in Nat, new[p] = Quantified(lines[p], n)
       PROVE  Len(new[p]) = 1 /\ new[p][1].quantity = n
  <2>1. Len(lines[p]) = 1
    BY <1>7, <1>11
  <2>2. Len(new[p]) = Len(lines[p]) /\ new[p][1] = [id |-> lines[p][1].id, quantity |-> n]
    BY <1>8, <1>11, QuantifiedIs
  <2> QED BY <2>1, <2>2
<1>12. CASE other = p /\ op = "add" /\ lines[p] # <<>>
  <2>1. PICK n : n = lines[p][1].quantity
    OBVIOUS
  <2>2. n = before[p] /\ n \in Nat /\ n + q \in Nat /\ n + q # 0
    BY <1>2, <1>7, <1>8, <1>12, <2>1
  <2>3. new[p] = Quantified(lines[p], n + q)
    BY <1>1, <1>5, <1>12, <2>1 DEF IsChanged
  <2>4. Len(new[p]) = 1 /\ new[p][1].quantity = n + q
    BY <1>11, <1>12, <2>2, <2>3
  <2> QED BY <1>4, <1>12, <2>2, <2>4
<1>13. CASE other = p /\ op = "update"
  <2>1. lines[p] # <<>> /\ new[p] = Quantified(lines[p], q)
    BY <1>1, <1>5, <1>13 DEF IsChanged
  <2>2. Len(new[p]) = 1 /\ new[p][1].quantity = q
    BY <1>2, <1>11, <1>13, <2>1
  <2> QED BY <1>2, <1>4, <1>13, <2>2
<1>14. CASE other = p /\ op = "remove"
  BY <1>1, <1>4, <1>5, <1>14 DEF IsChanged
<1> QED BY <1>2, <1>9, <1>10, <1>12, <1>13, <1>14

LEMMA FoundLists ==
  ASSUME TypeOK, IsFiniteSet(rows), NEW c, NEW k, CartsOf(c) = {k}, NEW found \in Queried(k),
         NEW before, Holds(c, before)
  PROVE  /\ ListsOf(found, before)
         /\ \A p \in Product : found[p] = <<>> <=> Stored(c, p) = {}
<1>1. \A p \in Product : Stored(c, p) = {row \in rows : row.cart = k /\ row.product = p}
  BY DEF Stored, CartRows
<1>2. \A p \in Product : found[p] = <<>> <=> Stored(c, p) = {}
  BY <1>1, QueriedIs
<1>3. ASSUME NEW p \in Product, before[p] # 0
      PROVE  Len(found[p]) = 1 /\ found[p][1].quantity = before[p]
  <2>1. PICK row \in CartRows(c) : Stored(c, p) = {row} /\ row.quantity = before[p]
    BY <1>3 DEF Holds
  <2>2. row \in rows /\ {other \in rows : other.cart = k /\ other.product = p} = {row}
    BY <1>1, <2>1 DEF CartRows
  <2>3. Len(found[p]) = 1 /\ found[p][1] = [id |-> row.id, quantity |-> row.quantity]
    BY <2>2, QueriedIs
  <2> QED BY <2>1, <2>3
<1>4. \A p \in Product : before[p] = 0 => Stored(c, p) = {}
  BY DEF Holds
<1> QED BY <1>2, <1>3, <1>4 DEF ListsOf

LEMMA MergedLists ==
  ASSUME NEW r \in Request, NEW stored \in [Product -> Seq(Line)],
         NEW incoming \in [Product -> Seq(Line)], NEW x, ListsOf(incoming, x)
  PROVE  ListsOf(Merged(stored, incoming, r), x)
<1>1. PICK new : new = Merged(stored, incoming, r)
  OBVIOUS
<1>2. IsMerged(new, stored, incoming, r)
  BY <1>1, MergedIs
<1>3. ASSUME NEW p \in Product
      PROVE  IF x[p] = 0 THEN new[p] = <<>> ELSE Len(new[p]) = 1 /\ new[p][1].quantity = x[p]
  <2>1. IF x[p] = 0 THEN incoming[p] = <<>>
        ELSE Len(incoming[p]) = 1 /\ incoming[p][1].quantity = x[p]
    BY DEF ListsOf
  <2>2. CASE incoming[p] = <<>> \/ stored[p] = <<>>
    BY <1>2, <2>1, <2>2 DEF IsMerged
  <2>3. CASE incoming[p] # <<>> /\ stored[p] # <<>>
    <3>1. new[p] = <<[id |-> <<r, p>>, quantity |-> Last(incoming[p]).quantity]>>
      BY <1>2, <2>3 DEF IsMerged
    <3>2. Last(incoming[p]) = incoming[p][1] /\ x[p] # 0
      BY <2>1, <2>3 DEF Last
    <3> QED BY <2>1, <3>1, <3>2
  <2> QED BY <2>2, <2>3
<1> QED BY <1>1, <1>3 DEF ListsOf

\* Lines that were inserted are what the cart holds.
Inserted(k, p, lines) ==
  {[id |-> line.id, cart |-> k, product |-> p, quantity |-> line.quantity] :
     line \in Range(lines[p])}

LEMMA ListsBecomeRows ==
  ASSUME NEW c, NEW k, NEW x, NEW lines \in [Product -> Seq(Line)], ListsOf(lines, x),
         \A p \in Product : Stored(c, p)' = Inserted(k, p, lines)
  PROVE  Holds(c, x)'
<1>1. SUFFICES ASSUME NEW p \in Product
               PROVE  IF x[p] = 0 THEN Stored(c, p)' = {}
                      ELSE \E row \in CartRows(c)' :
                             Stored(c, p)' = {row} /\ row.quantity = x[p]
  BY DEF Holds
<1>2. lines[p] \in Seq(Line)
  OBVIOUS
<1>3. CASE x[p] = 0
  <2>1. Range(lines[p]) = {}
    BY <1>2, <1>3, EmptyIs DEF ListsOf
  <2> QED BY <1>3, <2>1 DEF Inserted
<1>4. CASE x[p] # 0
  <2>1. Len(lines[p]) = 1 /\ lines[p][1].quantity = x[p]
    BY <1>4 DEF ListsOf
  <2>2. PICK only : only = lines[p][1]
    OBVIOUS
  <2>3. Range(lines[p]) = {only}
    <3>1. DOMAIN lines[p] = 1..1
      BY <1>2, <2>1
    <3> QED BY <2>2, <3>1 DEF Range
  <2>4. PICK row : row = [id |-> only.id, cart |-> k, product |-> p, quantity |-> only.quantity]
    OBVIOUS
  <2>5. Stored(c, p)' = {row} /\ row.quantity = x[p]
    BY <2>1, <2>2, <2>3, <2>4 DEF Inserted
  <2>6. row \in CartRows(c)'
    BY <2>5 DEF Stored
  <2> QED BY <1>4, <2>5, <2>6
<1> QED BY <1>3, <1>4

------------------------------------------------------------------------------
(* The step of another customer's request. *)

Mine(c) == {r \in Request : InProgress(r) /\ Me(r) = c}

\* IsExact, for a customer with these contents before and after the request.
ExactFor(r, c, before, after) ==
  /\ ~HalfWay(r) => Holds(c, before)
  /\ pc[r] \in Holding => ListsOf(draft[r].lines, after)
  /\ pc[r] = "creating" => CartsOf(c) = {}
  /\ pc[r] = "persisting" =>
       \A p \in Product : Stored(c, p) = {} =>
         \A line \in Range(draft[r].lines[p]) : line.id[1] = r
  /\ pc[r] \in {"removing", "saving", "writing"} => IsRenamed(r)
  /\ pc[r] = "removing" => \A row \in CartRows(c) : row.id \in draft[r].removes
  /\ pc[r] \in {"saving", "writing"} => CartRows(c) = {}
  /\ pc[r] = "writing" => draft[r].known = {} /\ draft[r].orphans = {}
  /\ pc[r] = "responding" => Holds(c, after)

OneCart(c) == \A k, l \in CartsOf(c) : k = l

LEMMA ExactParts ==
  ASSUME NEW c, AreExact(c)
  PROVE  /\ OneCart(c) /\ \A r, s \in Mine(c) : r = s
         /\ \A r \in Mine(c) : ExactFor(r, c, expected[c], Applied(expected[c], command[r]))
         /\ Mine(c) = {} => Holds(c, expected[c])
<1>1. ASSUME NEW r \in Mine(c)
      PROVE  ExactFor(r, c, expected[c], Applied(expected[c], command[r]))
  <2>1. IsExact(r) /\ Me(r) = c
    BY DEF AreExact, Mine
  <2> QED BY <2>1 DEF IsExact, ExactFor, Lists, ListsOf, Outcome
<1> QED BY <1>1 DEF AreExact, Mine, OneCart

LEMMA ExactAfter ==
  ASSUME NEW c, NEW before, before = expected'[c],
         OneCart(c)', \A r, s \in Mine(c)' : r = s,
         \A r \in Mine(c)' : \E after :
           after = Applied(before, command'[r]) /\ ExactFor(r, c, before, after)',
         Mine(c)' = {} => Holds(c, before)'
  PROVE  AreExact(c)'
<1>1. ASSUME NEW r \in Mine(c)'
      PROVE  IsExact(r)'
  <2>1. PICK after : after = Applied(before, command'[r]) /\ ExactFor(r, c, before, after)'
    OBVIOUS
  <2>2. Me(r)' = c
    BY DEF Mine
  <2>3. Outcome(r)' = after /\ expected'[Me(r)'] = before
    BY <2>1, <2>2 DEF Outcome
  <2>4. /\ HalfWay(r)' \/ Holds(c, expected[c])'
        /\ pc'[r] \in Holding => Lists(r, Outcome(r))'
        /\ pc'[r] = "responding" => Holds(c, Outcome(r))'
    BY <2>1, <2>3 DEF ExactFor, Holds, Lists, ListsOf
  <2> QED BY <2>1, <2>2, <2>4 DEF IsExact, ExactFor, Holds, Stored, CartRows, CartsOf
<1>2. Mine(c)' = {} => Holds(c, expected[c])'
  BY DEF Holds
<1> QED BY <1>1, <1>2 DEF AreExact, Mine, OneCart

LEMMA HoldsStay ==
  ASSUME NEW c, CartRows(c)' = CartRows(c), NEW x
  PROVE  /\ Holds(c, x)' <=> Holds(c, x)
         /\ \A p : Stored(c, p)' = Stored(c, p)
BY DEF Holds, Stored

LEMMA Untouched ==
  ASSUME NEW c, AreExact(c), CartsOf(c)' = CartsOf(c), CartRows(c)' = CartRows(c),
         expected'[c] = expected[c], Mine(c)' = Mine(c),
         \A s \in Mine(c) : pc'[s] = pc[s] /\ draft'[s] = draft[s] /\ command'[s] = command[s]
  PROVE  AreExact(c)'
<1>1. PICK before : before = expected[c]
  OBVIOUS
<1>2. OneCart(c)' /\ \A r, s \in Mine(c)' : r = s
  BY ExactParts DEF OneCart
<1>3. ASSUME NEW r \in Mine(c)'
      PROVE  \E after : after = Applied(before, command'[r]) /\ ExactFor(r, c, before, after)'
  <2>1. PICK after : after = Applied(before, command'[r])
    OBVIOUS
  <2>2. ExactFor(r, c, before, after)
    BY <1>1, <2>1, ExactParts
  <2>3. /\ pc'[r] = pc[r] /\ draft'[r] = draft[r]
        /\ Holds(c, before)' <=> Holds(c, before)
        /\ Holds(c, after)' <=> Holds(c, after)
        /\ \A p : Stored(c, p)' = Stored(c, p)
    BY HoldsStay
  <2>4. ExactFor(r, c, before, after)'
    BY <2>2, <2>3 DEF ExactFor, HalfWay, Holding, IsRenamed
  <2> QED BY <2>1, <2>4
<1>4. Mine(c)' = {} => Holds(c, before)'
  BY <1>1, ExactParts, HoldsStay
<1> QED BY <1>1, <1>2, <1>3, <1>4, ExactAfter

LEMMA OtherRows ==
  ASSUME Follows, NEW r \in Request, Steps(r), NEW c \in Customer,
         ~InProgress(r) \/ Me(r) # c
  PROVE  CartsOf(c)' = CartsOf(c) /\ CartRows(c)' = CartRows(c) /\ expected'[c] = expected[c]
<1>1. /\ CartRows(c) = {row \in rows : row.cart \in CartsOf(c)}
      /\ CartRows(c)' = {row \in rows' : row.cart \in CartsOf(c)'}
      /\ CartsOf(c) = {k \in DOMAIN carts : carts[k] = c}
      /\ CartsOf(c)' = {k \in DOMAIN carts' : carts'[k] = c}
  BY DEF CartRows, CartsOf
<1>2. \A row \in rows : RowOwned(row) /\ row.id \in ItemId
  BY OwnershipParts, RowTyped DEF Follows, Guarded
<1>3. DraftOwned(r) /\ draft[r] \in Draft
  BY OwnershipParts, DraftTyped DEF Follows, Guarded
<1>4. CASE carts' = carts /\ rows' = rows /\ expected' = expected
  BY <1>1, <1>4
<1>5. CASE Creates(r)
  <2>1. /\ DOMAIN carts' = DOMAIN carts \cup {r} /\ carts'[r] = Me(r) /\ Me(r) # c
        /\ \A k \in DOMAIN carts \ {r} : carts'[k] = carts[k]
        /\ \A row \in rows' \ rows : row.cart = r
        /\ rows \subseteq rows' /\ expected' = expected
    BY <1>5 DEF Creates, InProgress, Acts
  <2>2. r \notin DOMAIN carts
    BY <1>5 DEF Creates, Follows, RowsHaveOwners, Landed
  <2>3. CartsOf(c)' = CartsOf(c)
    BY <1>1, <2>1, <2>2
  <2>4. r \notin CartsOf(c)
    BY <1>1, <2>2
  <2> QED BY <1>1, <2>1, <2>3, <2>4
<1>6. CASE Removes(r)
  <2>1. /\ carts' = carts /\ expected' = expected /\ Me(r) # c
        /\ rows' = {row \in rows : row.id \notin draft[r].removes}
    BY <1>6 DEF Removes, InProgress, Acts
  <2>2. \A row \in CartRows(c) : row.id \notin draft[r].removes
    BY <1>1, <1>2, <1>3, <2>1 DEF RowOwned, DraftOwned, IdsOwned
  <2> QED BY <1>1, <2>1, <2>2
<1>7. CASE Writes(r)
  <2>1. /\ carts' = carts /\ expected' = expected /\ Me(r) # c /\ pc[r] = "writing"
        /\ rows' = {row \in rows : row.id \notin draft[r].known} \cup Written(r)
    BY <1>7 DEF Writes, InProgress, Acts
  <2>2. \A row \in CartRows(c) : row.id \notin draft[r].known
    BY <1>1, <1>2, <1>3, <2>1 DEF RowOwned, DraftOwned, IdsOwned
  <2>3. draft[r].cart \subseteq CartsOf(Me(r))
    BY <1>3, <2>1 DEF DraftOwned, CartOwned, Holding
  <2>4. \A row \in Written(r) : row.cart \notin CartsOf(c)
    BY <2>1, <2>3, WrittenTyped DEF CartsOf, Follows, Guarded
  <2>5. CartsOf(c)' = CartsOf(c)
    BY <1>1, <2>1
  <2> QED BY <1>1, <2>1, <2>2, <2>4, <2>5
<1>8. CASE IsAnswered(r)
  <2>1. carts' = carts /\ rows' = rows /\ Me(r) # c
        /\ expected' = [expected EXCEPT ![Me(r)] = Applied(expected[Me(r)], command[r])]
    BY <1>8 DEF IsAnswered, InProgress
  <2>2. expected \in [Customer -> [Product -> Nat]]
    BY DEF Follows, Guarded, TypeOK
  <2>3. expected'[c] = expected[c]
    BY <2>1, <2>2
  <2> QED BY <1>1, <2>1, <2>3
<1> QED BY <1>4, <1>5, <1>6, <1>7, <1>8
        DEF Steps, Sends, LooksUp, GivesUp, LoadsNew, LoadsFound, Loads, Reads, Prepares, Acts

------------------------------------------------------------------------------
(* The steps of the only request of a customer. *)

Alone(r, c, before, after) ==
  /\ InProgress(r) /\ Me(r) = c /\ c \in Customer
  /\ before = expected[c] /\ after = Applied(before, command[r])
  /\ ExactFor(r, c, before, after) /\ OneCart(c)

LEMMA AloneTyped ==
  ASSUME Follows, NEW r \in Request, NEW c, NEW before, NEW after, Alone(r, c, before, after)
  PROVE  /\ before \in [Product -> Nat] /\ after \in [Product -> Nat] /\ command[r] \in Command
         /\ TypeOK /\ IsFiniteSet(rows) /\ DraftOwned(r)
         /\ draft[r].lines \in [Product -> Seq(Line)]
         /\ \A p \in Product : draft[r].lines[p] \in Seq(Line)
         /\ \A row \in rows : RowOwned(row) /\ row.id \in ItemId
<1>1. before \in [Product -> Nat] /\ command[r] \in Command
  BY InProgressIs, BaseTyped DEF Follows, Alone
<1>2. after \in [Product -> Nat]
  BY <1>1, AppliedIs DEF Alone
<1> QED BY <1>1, <1>2, OwnershipParts, DraftTyped, RowTyped DEF Follows, Guarded, RowsHaveOwners

LEMMA LoadsNewExact ==
  ASSUME Follows, NEW r \in Request, NEW c, NEW before, NEW after, Alone(r, c, before, after),
         LoadsNew(r)
  PROVE  ExactFor(r, c, before, after)' /\ OneCart(c)'
<1>1. /\ pc[r] = "loading" /\ pc'[r] = "creating" /\ CartsOf(c) = {} /\ command[r].op = "add"
      /\ draft'[r].lines = AddCartItem(NoCart, r) /\ carts' = carts /\ rows' = rows
  BY DEF LoadsNew, Loads, Alone
<1>2. /\ CartsOf(c)' = {} /\ CartRows(c)' = CartRows(c) /\ CartRows(c) = {}
  BY <1>1 DEF CartsOf, CartRows
<1>3. Holds(c, before) /\ Holds(c, before)'
  BY <1>1, <1>2, HoldsStay DEF Alone, ExactFor, HalfWay
<1>4. \A p \in Product : before[p] = 0
  BY <1>2, <1>3 DEF Holds
<1>5. NoCart \in [Product -> Seq(Line)] /\ ListsOf(NoCart, before)
  BY <1>4 DEF NoCart, ListsOf
<1>6. AddCartItem(NoCart, r) \in Changed(NoCart, r)
  BY <1>1 DEF Changed
<1>7. ListsOf(draft'[r].lines, after)
  BY <1>1, <1>5, <1>6, AloneTyped, ChangedLists DEF Alone
<1> QED BY <1>1, <1>2, <1>3, <1>7 DEF ExactFor, ListsOf, HalfWay, OneCart

LEMMA LoadsFoundExact ==
  ASSUME Follows, NEW r \in Request, NEW c, NEW before, NEW after, Alone(r, c, before, after),
         LoadsFound(r)
  PROVE  ExactFor(r, c, before, after)' /\ OneCart(c)'
<1>1. pc'[r] = "persisting" /\ Me(r) = c /\ OneCart(c)
  BY DEF LoadsFound, Alone
<1>2. PICK cart \in CartsOf(c) : \E found \in Queried(cart) : \E lines \in Changed(found, r) :
        Loads(r, cart, lines)
  BY <1>1 DEF LoadsFound
<1>3. PICK found \in Queried(cart) : \E lines \in Changed(found, r) : Loads(r, cart, lines)
  BY <1>2
<1>4. PICK lines \in Changed(found, r) : Loads(r, cart, lines)
  BY <1>3
<1>5. /\ pc[r] = "loading" /\ carts' = carts /\ rows' = rows /\ draft'[r].lines = lines
  BY <1>4 DEF Loads
<1>6. CartsOf(c)' = CartsOf(c) /\ CartRows(c)' = CartRows(c) /\ CartsOf(c) = {cart}
  BY <1>1, <1>2, <1>5 DEF CartsOf, CartRows, OneCart
<1>7. Holds(c, before) /\ Holds(c, before)' /\ \A p : Stored(c, p)' = Stored(c, p)
  BY <1>5, <1>6, HoldsStay DEF Alone, ExactFor, HalfWay
<1>8. /\ before \in [Product -> Nat] /\ command[r] \in Command /\ TypeOK /\ IsFiniteSet(rows)
      /\ command[r].op # "get" /\ after = Applied(before, command[r])
  BY <1>5, AloneTyped DEF Follows, Guarded, RequestsAreGuarded, Alone
<1>9. found \in [Product -> Seq(Line)]
  BY <1>8, QueriedIs
<1>10. ListsOf(found, before) /\ \A p \in Product : found[p] = <<>> <=> Stored(c, p) = {}
  BY <1>6, <1>7, <1>8, FoundLists
<1>11. ListsOf(lines, after)
  BY <1>8, <1>9, <1>10, ChangedLists
<1>12. ASSUME NEW p \in Product, Stored(c, p) = {}, NEW line \in Range(lines[p])
       PROVE  line.id[1] = r
  <2>1. found[p] = <<>>
    BY <1>10, <1>12
  <2>2. PICK mine, q : mine = command[r].product /\ q = command[r].quantity
    OBVIOUS
  <2>3. IsChanged(lines, found, r, mine, q) /\ mine \in Product
        /\ command[r].op \in {"add", "update", "remove"}
    BY <1>8, <1>9, <2>2, ChangedIs, CommandTyped
  <2>4. CASE p # mine
    <3>1. lines[p] = <<>>
      BY <2>1, <2>3, <2>4 DEF IsChanged
    <3> QED BY <1>12, <3>1 DEF Range
  <2>5. CASE p = mine
    <3>1. lines[p] = <<[id |-> <<r, p>>, quantity |-> q]>>
      BY <2>1, <2>3, <2>5 DEF IsChanged
    <3>2. line = [id |-> <<r, p>>, quantity |-> q]
      BY <1>12, <3>1, OnlyIs
    <3> QED BY <3>2
  <2> QED BY <2>4, <2>5
<1>13. OneCart(c)'
  BY <1>1, <1>6 DEF OneCart
<1> QED BY <1>1, <1>5, <1>7, <1>11, <1>12, <1>13 DEF ExactFor, ListsOf, HalfWay

LEMMA CreatesExact ==
  ASSUME Follows, NEW r \in Request, NEW c, NEW before, NEW after, Alone(r, c, before, after),
         Creates(r)
  PROVE  ExactFor(r, c, before, after)' /\ OneCart(c)'
<1>1. /\ pc[r] = "creating" /\ pc'[r] = "responding" /\ Me(r) = c
      /\ DOMAIN carts' = DOMAIN carts \cup {r} /\ carts'[r] = c
      /\ \A k \in DOMAIN carts \ {r} : carts'[k] = carts[k]
      /\ rows' = rows \cup {[id |-> line.id, cart |-> r, product |-> line.id[2],
                              quantity |-> line.quantity] :
                               line \in Range(draft[r].lines[command[r].product])}
  BY DEF Creates, Alone
<1>2. CartsOf(c) = {} /\ ListsOf(draft[r].lines, after)
  BY <1>1 DEF Alone, ExactFor, Holding
<1>3. CartsOf(c)' = {r}
  BY <1>1, <1>2 DEF CartsOf
<1>4. \A row \in rows : row.cart # r
  BY <1>1, AloneTyped DEF RowOwned, Follows, RowsHaveOwners, Landed
<1>5. PICK mine \in Product : mine = command[r].product
  BY AloneTyped, CommandTyped
<1>6. PICK lines : lines = draft[r].lines
  OBVIOUS
<1>7. \A p \in Product : \A line \in Range(lines[p]) : p = mine /\ line.id[2] = p
  <2>1. CartOwned(r) /\ LinesOwned(r)
    BY AloneTyped DEF DraftOwned
  <2>2. \A p \in Product : \A line \in Range(lines[p]) : line.id[2] = p
    BY <1>6, <2>1 DEF LinesOwned, LineOwned
  <2>3. \A p \in Product : \A line \in Range(lines[p]) : p = mine
    BY <1>1, <1>5, <1>6, <2>1 DEF CartOwned
  <2> QED BY <2>2, <2>3
<1>8. CartRows(c)' = {[id |-> line.id, cart |-> r, product |-> line.id[2],
                        quantity |-> line.quantity] : line \in Range(lines[mine])}
  BY <1>1, <1>3, <1>4, <1>5, <1>6 DEF CartRows
<1>9. ASSUME NEW p \in Product
      PROVE  Stored(c, p)' = Inserted(r, p, lines)
  <2>1. Stored(c, p)' = {row \in CartRows(c)' : row.product = p}
    BY DEF Stored
  <2>2. CASE p = mine
    BY <1>7, <1>8, <2>1, <2>2 DEF Inserted
  <2>3. CASE p # mine
    BY <1>7, <1>8, <2>1, <2>3 DEF Inserted
  <2> QED BY <2>2, <2>3
<1>10. lines \in [Product -> Seq(Line)] /\ ListsOf(lines, after)
  BY <1>2, <1>6, AloneTyped
<1>11. Holds(c, after)'
  BY <1>9, <1>10, ListsBecomeRows
<1>12. OneCart(c)'
  BY <1>3 DEF OneCart
<1> QED BY <1>1, <1>11, <1>12 DEF ExactFor, HalfWay, Holding

LEMMA ReadsExact ==
  ASSUME Follows, NEW r \in Request, NEW c, NEW before, NEW after, Alone(r, c, before, after),
         Reads(r)
  PROVE  ExactFor(r, c, before, after)' /\ OneCart(c)'
<1>1. /\ pc[r] = "persisting" /\ pc'[r] = "removing" /\ Me(r) = c
      /\ carts' = carts /\ rows' = rows
  BY DEF Reads, Alone
<1>2. PICK cart \in draft[r].cart : \E stored \in Queried(cart) :
        /\ draft'[r].lines = Merged(stored, draft[r].lines, r)
        /\ draft'[r].removes = Ids(stored)
  BY DEF Reads
<1>3. PICK stored \in Queried(cart) :
        /\ draft'[r].lines = Merged(stored, draft[r].lines, r)
        /\ draft'[r].removes = Ids(stored)
  BY <1>2
<1>4. /\ TypeOK /\ IsFiniteSet(rows) /\ draft[r].lines \in [Product -> Seq(Line)]
      /\ draft[r].cart \subseteq CartsOf(c)
  BY <1>1, AloneTyped DEF DraftOwned, CartOwned, Holding
<1>5. CartsOf(c)' = CartsOf(c) /\ CartRows(c)' = CartRows(c) /\ CartsOf(c) = {cart}
  BY <1>1, <1>2, <1>4 DEF CartsOf, CartRows, OneCart, Alone
<1>6. /\ Holds(c, before) /\ Holds(c, before)' /\ \A p : Stored(c, p)' = Stored(c, p)
      /\ ListsOf(draft[r].lines, after)
      /\ \A p \in Product : Stored(c, p) = {} =>
           \A line \in Range(draft[r].lines[p]) : line.id[1] = r
  BY <1>1, <1>5, HoldsStay DEF Alone, ExactFor, HalfWay, Holding
<1>7. /\ stored \in [Product -> Seq(Line)]
      /\ \A p \in Product : stored[p] = <<>> <=> Stored(c, p) = {}
  <2>1. \A p \in Product : Stored(c, p) = {row \in rows : row.cart = cart /\ row.product = p}
    BY <1>5 DEF Stored, CartRows
  <2> QED BY <1>4, <2>1, QueriedIs
<1>8. ListsOf(draft'[r].lines, after)
  BY <1>3, <1>4, <1>6, <1>7, MergedLists
<1>9. ASSUME NEW p \in Product, NEW line \in Range(draft'[r].lines[p])
      PROVE  line.id[1] = r
  <2>1. PICK new, incoming : new = draft'[r].lines /\ incoming = draft[r].lines
    OBVIOUS
  <2>2. IsMerged(new, stored, incoming, r)
    BY <1>3, <1>4, <1>7, <2>1, MergedIs
  <2>3. CASE stored[p] = <<>>
    BY <1>6, <1>7, <1>9, <2>1, <2>2, <2>3 DEF IsMerged
  <2>4. CASE incoming[p] = <<>>
    <3>1. new[p] = <<>>
      BY <2>2, <2>4 DEF IsMerged
    <3> QED BY <1>9, <2>1, <3>1 DEF Range
  <2>5. CASE stored[p] # <<>> /\ incoming[p] # <<>>
    <3>1. new[p] = <<[id |-> <<r, p>>, quantity |-> Last(incoming[p]).quantity]>>
      BY <2>2, <2>5 DEF IsMerged
    <3>2. line = [id |-> <<r, p>>, quantity |-> Last(incoming[p]).quantity]
      BY <1>9, <2>1, <3>1, OnlyIs
    <3> QED BY <3>2
  <2> QED BY <2>3, <2>4, <2>5
<1>10. IsRenamed(r)'
  BY <1>9 DEF IsRenamed
<1>11. ASSUME NEW row \in CartRows(c)
       PROVE  row.id \in draft'[r].removes
  <2>1. row \in rows /\ row.cart = cart /\ row.product \in Product
    BY <1>4, <1>5, RowTyped DEF CartRows
  <2>2. PICK line \in Range(stored[row.product]) : line.id = row.id
    BY <1>4, <2>1, QueriedIs
  <2> QED BY <1>3, <1>7, <2>1, <2>2, IdsTyped
<1>12. OneCart(c)'
  BY <1>5 DEF OneCart, Alone
<1> QED BY <1>1, <1>5, <1>6, <1>8, <1>10, <1>11, <1>12 DEF ExactFor, ListsOf, HalfWay

LEMMA RemovesExact ==
  ASSUME Follows, NEW r \in Request, NEW c, NEW before, NEW after, Alone(r, c, before, after),
         Removes(r)
  PROVE  ExactFor(r, c, before, after)' /\ OneCart(c)'
<1>1. /\ pc[r] = "removing" /\ pc'[r] = "saving" /\ carts' = carts
      /\ rows' = {row \in rows : row.id \notin draft[r].removes}
      /\ draft'[r].lines = draft[r].lines
  BY DEF Removes
<1>2. /\ ListsOf(draft[r].lines, after) /\ IsRenamed(r) /\ OneCart(c)
      /\ \A row \in CartRows(c) : row.id \in draft[r].removes
  BY <1>1 DEF Alone, ExactFor, Holding
<1>3. CartRows(c)' = {} /\ OneCart(c)'
  BY <1>1, <1>2 DEF CartRows, CartsOf, OneCart
<1>4. IsRenamed(r)' /\ ListsOf(draft'[r].lines, after)
  BY <1>1, <1>2 DEF IsRenamed
<1> QED BY <1>1, <1>3, <1>4 DEF ExactFor, ListsOf, HalfWay

\* No row can have the identifiers of the request's own lines before they land.
LEMMA OwnLinesAreNew ==
  ASSUME Follows, NEW r \in Request, NEW c, NEW before, NEW after, Alone(r, c, before, after),
         IsRenamed(r), ~Landed(r)
  PROVE  \A row \in rows : row.id \notin Ids(draft[r].lines)
<1> SUFFICES ASSUME NEW row \in rows, row.id \in Ids(draft[r].lines)
             PROVE  FALSE
  OBVIOUS
<1>1. PICK p \in Product : \E line \in Range(draft[r].lines[p]) : row.id = line.id
  BY AloneTyped, IdsTyped
<1>2. row.id[1] = r
  BY <1>1 DEF IsRenamed
<1>3. Landed(row.id[1])
  BY AloneTyped DEF RowOwned
<1> QED BY <1>2, <1>3

LEMMA PreparesExact ==
  ASSUME Follows, NEW r \in Request, NEW c, NEW before, NEW after, Alone(r, c, before, after),
         Prepares(r)
  PROVE  ExactFor(r, c, before, after)' /\ OneCart(c)'
<1>1. /\ pc[r] = "saving" /\ pc'[r] = "writing" /\ carts' = carts /\ rows' = rows
      /\ draft'[r].lines = draft[r].lines /\ Me(r) = c
      /\ draft'[r].known = {row.id : row \in rows} \cap Ids(draft[r].lines)
      /\ draft'[r].orphans =
           {row.id : row \in {row \in rows : row.cart \in draft[r].cart}} \ Ids(draft[r].lines)
  BY DEF Prepares, Alone
<1>2. /\ ListsOf(draft[r].lines, after) /\ IsRenamed(r) /\ OneCart(c) /\ CartRows(c) = {}
      /\ ~Landed(r)
  BY <1>1 DEF Alone, ExactFor, Holding, Landed
<1>3. CartRows(c)' = {} /\ OneCart(c)'
  BY <1>1, <1>2 DEF CartRows, CartsOf, OneCart
<1>4. draft'[r].known = {}
  BY <1>1, <1>2, OwnLinesAreNew
<1>5. draft'[r].orphans = {}
  <2>1. draft[r].cart \subseteq CartsOf(c)
    BY <1>1, AloneTyped DEF DraftOwned, CartOwned, Holding
  <2> QED BY <1>1, <1>2, <2>1 DEF CartRows
<1>6. IsRenamed(r)' /\ ListsOf(draft'[r].lines, after)
  BY <1>1, <1>2 DEF IsRenamed
<1> QED BY <1>1, <1>3, <1>4, <1>5, <1>6 DEF ExactFor, ListsOf, HalfWay

LEMMA WritesExact ==
  ASSUME Follows, NEW r \in Request, NEW c, NEW before, NEW after, Alone(r, c, before, after),
         Writes(r)
  PROVE  ExactFor(r, c, before, after)' /\ OneCart(c)'
<1>1. /\ pc[r] = "writing" /\ pc'[r] = "responding" /\ carts' = carts /\ Me(r) = c
      /\ rows' = {row \in rows : row.id \notin draft[r].known} \cup Written(r)
  BY DEF Writes, Alone
<1>2. /\ ListsOf(draft[r].lines, after) /\ OneCart(c) /\ CartRows(c) = {}
      /\ draft[r].known = {}
  BY <1>1 DEF Alone, ExactFor, Holding
<1>3. PICK cart : draft[r].cart = {cart} /\ cart \in CartsOf(c)
  BY <1>1, AloneTyped DEF DraftOwned, CartOwned, Holding
<1>4. PICK lines : lines = draft[r].lines
  OBVIOUS
<1>5. \A p \in Product : Saved(r, p) = Range(lines[p])
  BY <1>2, <1>4 DEF Saved
<1>6. /\ \A row \in Written(r) : row.cart = cart /\ row.product \in Product
                                 /\ row \in Inserted(cart, row.product, lines)
      /\ \A p \in Product : Inserted(cart, p, lines) \subseteq Written(r)
  <2> DEFINE In(k, p) ==
               {[id |-> line.id, cart |-> k, product |-> p, quantity |-> line.quantity] :
                  line \in Saved(r, p)}
  <2>1. Written(r) = UNION {In(k, p) : k \in {cart}, p \in Product}
    BY <1>3 DEF Written
  <2>2. \A p \in Product : In(cart, p) = Inserted(cart, p, lines)
    BY <1>5 DEF Inserted
  <2>3. \A p \in Product : \A row \in In(cart, p) : row.cart = cart /\ row.product = p
    OBVIOUS
  <2> HIDE DEF In
  <2>4. \A row : row \in Written(r) <=> \E p \in Product : row \in In(cart, p)
    BY <2>1
  <2> QED BY <2>2, <2>3, <2>4
<1>7. CartRows(c)' = Written(r)
  <2>1. CartRows(c)' = {row \in rows' : row.cart \in CartsOf(c)} /\ rows' = rows \cup Written(r)
    BY <1>1, <1>2 DEF CartRows, CartsOf
  <2>2. \A row \in rows : row.cart \notin CartsOf(c)
    BY <1>2 DEF CartRows
  <2> QED BY <1>3, <1>6, <2>1, <2>2
<1>8. ASSUME NEW p \in Product
      PROVE  Stored(c, p)' = Inserted(cart, p, lines)
  <2>1. Stored(c, p)' = {row \in Written(r) : row.product = p}
    BY <1>7 DEF Stored
  <2>2. \A row \in Inserted(cart, p, lines) : row.product = p
    BY DEF Inserted
  <2> QED BY <1>6, <2>1, <2>2
<1>9. lines \in [Product -> Seq(Line)] /\ ListsOf(lines, after)
  BY <1>2, <1>4, AloneTyped
<1>10. Holds(c, after)'
  BY <1>8, <1>9, ListsBecomeRows
<1>11. OneCart(c)'
  BY <1>1, <1>2 DEF CartsOf, OneCart
<1> QED BY <1>1, <1>10, <1>11 DEF ExactFor, HalfWay, Holding

LEMMA LooksUpExact ==
  ASSUME NEW r \in Request, NEW c, NEW before, NEW after, Alone(r, c, before, after), LooksUp(r)
  PROVE  ExactFor(r, c, before, after)' /\ OneCart(c)'
<1>1. /\ pc[r] = "guarded" /\ pc'[r] = "loading" /\ carts' = carts /\ rows' = rows
  BY DEF LooksUp
<1>2. CartsOf(c)' = CartsOf(c) /\ CartRows(c)' = CartRows(c)
  BY <1>1 DEF CartsOf, CartRows
<1>3. Holds(c, before) /\ OneCart(c)
  BY <1>1 DEF Alone, ExactFor, HalfWay
<1>4. Holds(c, before)' /\ OneCart(c)'
  BY <1>2, <1>3, HoldsStay DEF OneCart
<1> QED BY <1>1, <1>4 DEF ExactFor, Holding

\* A request that goes on keeps what is exact.
LEMMA GoesOnExact ==
  ASSUME Follows, NEW r \in Request, NEW c, NEW before, NEW after, Alone(r, c, before, after),
         Steps(r), ~GivesUp(r), ~IsAnswered(r)
  PROVE  /\ ExactFor(r, c, before, after)' /\ OneCart(c)'
         /\ expected' = expected /\ command' = command
<1>1. ~Sends(r)
  BY DEF Sends, Alone, InProgress
<1>2. expected' = expected /\ command' = command
  BY <1>1 DEF Steps, LooksUp, LoadsNew, LoadsFound, Loads, Creates, Reads, Removes, Prepares,
     Writes, Acts
<1>3. ExactFor(r, c, before, after)' /\ OneCart(c)'
  BY <1>1, LooksUpExact, LoadsNewExact, LoadsFoundExact, CreatesExact, ReadsExact, RemovesExact,
     PreparesExact, WritesExact DEF Steps
<1> QED BY <1>2, <1>3

\* The contents are exact when the request has ended.
LEMMA EndsExact ==
  ASSUME Follows, NEW r \in Request, NEW c, NEW before, NEW after, Alone(r, c, before, after),
         c \notin disturbed', GivesUp(r) \/ IsAnswered(r)
  PROVE  OneCart(c)' /\ \E x : x = expected'[c] /\ Holds(c, x)'
<1>1. carts' = carts /\ rows' = rows /\ Me(r) = c /\ OneCart(c)
  BY DEF GivesUp, IsAnswered, Alone
<1>2. CartsOf(c)' = CartsOf(c) /\ CartRows(c)' = CartRows(c) /\ OneCart(c)'
  BY <1>1 DEF CartsOf, CartRows, OneCart
<1>3. CASE IsAnswered(r)
  <2>1. Holds(c, after)
    BY <1>3 DEF IsAnswered, Alone, ExactFor
  <2>2. expected'[c] = after
    BY <1>1, <1>3, BaseTyped DEF IsAnswered, Alone, Follows
  <2> QED BY <1>2, <2>1, <2>2, HoldsStay
<1>4. CASE GivesUp(r)
  <2>1. ~HalfWay(r)
    <3>1. HalfWay(r) => pc[r] = "writing" /\ SaveIsRejected(r)
      BY <1>1, <1>4 DEF GivesUp
    <3>2. ASSUME pc[r] = "writing"
          PROVE  ~SaveIsRejected(r)
      <4>1. IsRenamed(r) /\ draft[r].known = {} /\ draft[r].orphans = {} /\ ~Landed(r)
        BY <3>2 DEF Alone, ExactFor, Landed
      <4> QED BY <4>1, OwnLinesAreNew DEF SaveIsRejected
    <3> QED BY <3>1, <3>2
  <2>2. Holds(c, before) /\ before = expected[c]
    BY <2>1 DEF Alone, ExactFor
  <2>3. expected'[c] = before
    BY <1>4, <2>2 DEF GivesUp, Acts
  <2> QED BY <1>2, <2>2, <2>3, HoldsStay
<1> QED BY <1>3, <1>4

------------------------------------------------------------------------------
(* Every step keeps the carts of undisturbed customers exact. *)

\* The only request ends, and leaves the customer without any.
LEMMA ExactWhenEnded ==
  ASSUME NEW c, OneCart(c)', Mine(c)' = {}, NEW x, x = expected'[c], Holds(c, x)'
  PROVE  AreExact(c)'
<1>1. \A r, s \in Mine(c)' : r = s
  OBVIOUS
<1>2. \A r \in Mine(c)' : \E after :
        after = Applied(x, command'[r]) /\ ExactFor(r, c, x, after)'
  OBVIOUS
<1> QED BY <1>1, <1>2, ExactAfter

LEMMA ExactWhenAlone ==
  ASSUME NEW c, NEW r, Mine(c)' = {r}, OneCart(c)', NEW x, x = expected'[c],
         NEW after, after = Applied(x, command'[r]), ExactFor(r, c, x, after)'
  PROVE  AreExact(c)'
<1>1. \A s, t \in Mine(c)' : s = t
  OBVIOUS
<1>2. \A s \in Mine(c)' : \E y : y = Applied(x, command'[s]) /\ ExactFor(s, c, x, y)'
  <2>1. SUFFICES ASSUME NEW s \in Mine(c)'
                 PROVE  \E y : y = Applied(x, command'[s]) /\ ExactFor(s, c, x, y)'
    OBVIOUS
  <2>2. s = r
    OBVIOUS
  <2> QED BY <2>2
<1>3. Mine(c)' = {} => Holds(c, x)'
  OBVIOUS
<1> QED BY <1>1, <1>2, <1>3, ExactAfter

LEMMA EndsAllExact ==
  ASSUME EndsAll, NEW c, AreExact(c), c \notin disturbed'
  PROVE  AreExact(c)'
<1>1. /\ carts' = carts /\ rows' = rows /\ expected' = expected
      /\ \A r \in Request : HalfWay(r) => Me(r) \in disturbed'
      /\ \A r \in Request : ~InProgress(r)'
  BY DEF EndsAll, InProgress
<1>2. Mine(c)' = {}
  BY <1>1 DEF Mine
<1>3. PICK x : x = expected[c]
  OBVIOUS
<1>4. Holds(c, x)
  <2>1. CASE Mine(c) = {}
    BY <1>3, <2>1, ExactParts
  <2>2. CASE Mine(c) # {}
    <3>1. PICK r \in Mine(c) : TRUE
      BY <2>2
    <3>2. ~HalfWay(r)
      BY <1>1, <3>1 DEF Mine
    <3>3. PICK after : after = Applied(expected[c], command[r])
      OBVIOUS
    <3>4. ExactFor(r, c, x, after)
      BY <1>3, <3>1, <3>3, ExactParts
    <3> QED BY <3>2, <3>4 DEF ExactFor
  <2> QED BY <2>1, <2>2
<1>5. CartRows(c)' = CartRows(c) /\ CartsOf(c)' = CartsOf(c)
  BY <1>1 DEF CartRows, CartsOf
<1>6. OneCart(c)' /\ Holds(c, x)' /\ x = expected'[c]
  BY <1>1, <1>3, <1>4, <1>5, ExactParts, HoldsStay DEF OneCart
<1> QED BY <1>2, <1>6, ExactWhenEnded

\* What a step leaves of the requests of one customer.
LEMMA MineIs ==
  ASSUME Follows, NEW r \in Request, Steps(r), NEW c
  PROVE  /\ \A s \in Request \ {r} : s \in Mine(c)' <=> s \in Mine(c)
         /\ \A s \in Request \ {r} :
              pc'[s] = pc[s] /\ command'[s] = command[s] /\ draft'[s] = draft[s]
         /\ r \in Mine(c)' /\ r \notin Mine(c) => Sends(r)
<1>1. \A s \in Request \ {r} : /\ pc'[s] = pc[s] /\ token'[s] = token[s]
                               /\ command'[s] = command[s] /\ draft'[s] = draft[s]
  BY DEF Steps, Sends, LooksUp, GivesUp, LoadsNew, LoadsFound, Loads, Creates, Reads,
     Removes, Prepares, Writes, IsAnswered, Acts
<1>2. \A s \in Request \ {r} : s \in Mine(c)' <=> s \in Mine(c)
  BY <1>1 DEF Mine, InProgress, Me
<1>3. r \in Mine(c)' /\ r \notin Mine(c) => Sends(r)
  <2>1. SUFFICES ASSUME r \in Mine(c)', ~Sends(r)
                 PROVE  r \in Mine(c)
    OBVIOUS
  <2>2. InProgress(r) /\ token' = token
    BY <2>1 DEF Steps, LooksUp, GivesUp, LoadsNew, LoadsFound, Loads, Creates, Reads, Removes,
       Prepares, Writes, IsAnswered, Acts, InProgress
  <2> QED BY <2>1, <2>2 DEF Mine, Me
<1> QED BY <1>1, <1>2, <1>3

\* A request of a customer who has none in progress.
LEMMA SendsExact ==
  ASSUME Follows, NEW r \in Request, Steps(r), Sends(r), NEW c \in Customer, AreExact(c),
         c \notin disturbed', r \in Mine(c)'
  PROVE  AreExact(c)'
<1>1. /\ carts' = carts /\ rows' = rows /\ expected' = expected
      /\ pc[r] = "idle" /\ command'[r] \in Command
      /\ Me(r)' = c /\ pc'[r] \in {"guarded", "responding"}
      /\ pc'[r] = "responding" <=> command'[r].op = "get"
      /\ ~\E s \in Request : InProgress(s) /\ Me(s) = c
  BY DEF Sends, Mine, InProgress
<1>2. Mine(c) = {}
  BY <1>1 DEF Mine
<1>3. Mine(c)' = {r}
  <2>1. Mine(c)' \subseteq Request
    BY DEF Mine
  <2> QED BY <1>2, <2>1, MineIs
<1>4. PICK x, after : x = expected[c] /\ after = Applied(x, command'[r])
  OBVIOUS
<1>5. Holds(c, x) /\ OneCart(c)
  BY <1>2, <1>4, ExactParts
<1>6. CartRows(c)' = CartRows(c) /\ CartsOf(c)' = CartsOf(c)
  BY <1>1 DEF CartRows, CartsOf
<1>7. Holds(c, x)' /\ OneCart(c)'
  BY <1>5, <1>6, HoldsStay DEF OneCart
<1>8. pc'[r] = "responding" => after = x
  <2>1. x \in [Product -> Nat]
    BY <1>4, BaseTyped DEF Follows
  <2> QED BY <1>1, <1>4, <2>1, AppliedIs
<1>9. ExactFor(r, c, x, after)'
  BY <1>1, <1>7, <1>8 DEF ExactFor, HalfWay, Holding
<1> QED BY <1>1, <1>3, <1>4, <1>7, <1>9, ExactWhenAlone

LEMMA OwnStepExact ==
  ASSUME Follows, NEW r \in Request, Steps(r), NEW c \in Customer, AreExact(c),
         c \notin disturbed', r \in Mine(c)
  PROVE  AreExact(c)'
<1>1. PICK before, after : before = expected[c] /\ after = Applied(before, command[r])
  OBVIOUS
<1>2. InProgress(r) /\ Me(r) = c /\ Mine(c) = {r}
  BY ExactParts DEF Mine
<1>3. Alone(r, c, before, after)
  <2>1. ExactFor(r, c, before, after)
    BY <1>1, ExactParts
  <2> QED BY <1>1, <1>2, <2>1, ExactParts DEF Alone
<1>4. Mine(c)' \subseteq {r}
  <2>1. Mine(c)' \subseteq Request
    BY DEF Mine
  <2> QED BY <1>2, <2>1, MineIs
<1>5. CASE GivesUp(r) \/ IsAnswered(r)
  <2>1. Mine(c)' = {}
    BY <1>4, <1>5 DEF GivesUp, IsAnswered, Mine, InProgress
  <2>2. PICK x : x = expected'[c] /\ Holds(c, x)'
    BY <1>3, <1>5, EndsExact
  <2>3. OneCart(c)'
    BY <1>3, <1>5, EndsExact
  <2> QED BY <2>1, <2>2, <2>3, ExactWhenEnded
<1>6. CASE ~GivesUp(r) /\ ~IsAnswered(r)
  <2>1. /\ ExactFor(r, c, before, after)' /\ OneCart(c)'
        /\ expected' = expected /\ command' = command
    BY <1>3, <1>6, GoesOnExact
  <2>2. ~Sends(r)
    BY <1>2 DEF Sends, InProgress
  <2>3. InProgress(r)' /\ token' = token
    BY <1>6, <2>2 DEF Steps, LooksUp, LoadsNew, LoadsFound, Loads, Creates, Reads, Removes,
       Prepares, Writes, Acts, InProgress
  <2>4. Mine(c)' = {r}
    BY <1>2, <1>4, <2>3 DEF Mine, Me
  <2>5. before = expected'[c] /\ after = Applied(before, command'[r])
    BY <1>1, <2>1
  <2> QED BY <2>1, <2>4, <2>5, ExactWhenAlone
<1> QED BY <1>5, <1>6

LEMMA ExactStep ==
  ASSUME Follows, EndsAll \/ \E r \in Request : Steps(r), UndisturbedAreExact
  PROVE  UndisturbedAreExact'
<1>1. SUFFICES ASSUME NEW c \in Customer, c \notin disturbed'
               PROVE  AreExact(c)'
  BY DEF UndisturbedAreExact
<1>2. AreExact(c)
  <2>1. disturbed \subseteq disturbed'
    BY DEF EndsAll, Steps, Sends, LooksUp, GivesUp, LoadsNew, LoadsFound, Loads, Creates, Reads,
       Removes, Prepares, Writes, IsAnswered
  <2> QED BY <1>1, <2>1 DEF UndisturbedAreExact
<1>3. CASE EndsAll
  BY <1>1, <1>2, <1>3, EndsAllExact
<1>4. CASE \E r \in Request : Steps(r)
  <2>1. PICK r \in Request : Steps(r)
    BY <1>4
  <2>2. CASE r \in Mine(c)
    BY <1>1, <1>2, <2>1, <2>2, OwnStepExact
  <2>3. CASE r \notin Mine(c) /\ r \in Mine(c)'
    <3>1. Sends(r)
      BY <2>1, <2>3, MineIs
    <3> QED BY <1>1, <1>2, <2>1, <2>3, <3>1, SendsExact
  <2>4. CASE r \notin Mine(c) /\ r \notin Mine(c)'
    <3>1. Mine(c)' = Mine(c)
      <4>1. Mine(c) \subseteq Request /\ Mine(c)' \subseteq Request
        BY DEF Mine
      <4> QED BY <2>1, <2>4, <4>1, MineIs
    <3>2. \A s \in Mine(c) : pc'[s] = pc[s] /\ draft'[s] = draft[s] /\ command'[s] = command[s]
      <4>1. \A s \in Mine(c) : s \in Request \ {r}
        BY <2>4 DEF Mine
      <4> QED BY <2>1, <4>1, MineIs
    <3>3. ~InProgress(r) \/ Me(r) # c
      BY <2>4 DEF Mine
    <3>4. CartsOf(c)' = CartsOf(c) /\ CartRows(c)' = CartRows(c) /\ expected'[c] = expected[c]
      BY <2>1, <3>3, OtherRows
    <3> QED BY <1>2, <3>1, <3>2, <3>4, Untouched
  <2> QED BY <2>2, <2>3, <2>4
<1> QED BY <1>3, <1>4

------------------------------------------------------------------------------
(* The theorems. *)

LEMMA InvariantInit == Init => CartInvariant
<1>1. SUFFICES ASSUME Init
               PROVE  CartInvariant
  OBVIOUS
<1>2. /\ carts = [k \in {} |-> NoCustomer] /\ rows = {} /\ disturbed = {} /\ crashes = 0
      /\ pc = [r \in Request |-> "idle"] /\ token = [r \in Request |-> NoToken]
      /\ command = [r \in Request |-> NoCommand] /\ draft = [r \in Request |-> NoDraft]
      /\ answer = [r \in Request |-> NoAnswer]
      /\ expected = [c \in Customer |-> [p \in Product |-> 0]]
  BY <1>1 DEF Init
<1>3. DOMAIN carts = {} /\ \A c : CartsOf(c) = {} /\ CartRows(c) = {}
  BY <1>2 DEF CartsOf, CartRows
<1>4. TypeOK
  <2>1. carts \in [DOMAIN carts -> Customer]
    BY <1>2
  <2>2. NoDraft \in Draft /\ NoAnswer \in Answer /\ "idle" \in Place
    BY EmptyDraft DEF NoAnswer, Answer, Place
  <2>3. crashes \in 0..MaxCrashes
    BY <1>2, BoundsAssumption
  <2>4. expected \in [Customer -> [Product -> Nat]]
    BY <1>2
  <2> QED BY <1>2, <1>3, <2>1, <2>2, <2>3, <2>4 DEF TypeOK
<1>5. RequestsAreGuarded
  <2>1. {r \in Request : pc[r] # "idle"} = {}
    BY <1>2
  <2>2. IsFiniteSet({r \in Request : pc[r] # "idle"})
    BY <2>1, FS_EmptySet
  <2>3. \A r \in Request : pc[r] = "idle" /\ token[r] = NoToken /\ command[r] = NoCommand
                           /\ draft[r] = NoDraft
    BY <1>2
  <2> QED BY <2>2, <2>3 DEF RequestsAreGuarded, InProgress, Holding
<1>6. RowsHaveOwners
  BY <1>2, <1>3, FS_EmptySet DEF RowsHaveOwners
<1>7. DraftsHaveOwners
  <2>1. \A r \in Request : draft[r] = NoDraft /\ pc[r] = "idle"
    BY <1>2
  <2> QED BY <2>1, EmptyDraft DEF DraftsHaveOwners, Holding
<1>8. ASSUME NEW c \in Customer
      PROVE  AreExact(c)
  <2>1. {r \in Request : InProgress(r) /\ Me(r) = c} = {}
    BY <1>2 DEF InProgress
  <2>2. \A p \in Product : expected[c][p] = 0 /\ Stored(c, p) = {}
    BY <1>2, <1>3 DEF Stored
  <2> QED BY <1>3, <2>1, <2>2 DEF AreExact, Holds
<1> QED BY <1>4, <1>5, <1>6, <1>7, <1>8 DEF CartInvariant, UndisturbedAreExact

LEMMA InvariantStep == CartInvariant /\ [Next]_vars => CartInvariant'
<1>1. CASE CartInvariant /\ Next
  <2>1. Guarded /\ IsFiniteSet(rows) /\ RowsHaveOwners /\ DraftsHaveOwners /\ UndisturbedAreExact
    BY <1>1 DEF CartInvariant, Guarded, RowsHaveOwners
  <2>2. TypeOK' /\ (EndsAll \/ \E r \in Request : Steps(r))
    BY <1>1, <2>1, StepKinds
  <2>3. \A s \in Request : Progresses(s)
    BY <2>1, <2>2, RequestsProgress DEF Guarded
  <2>4. RequestsAreGuarded'
    BY <2>1, <2>2, GuardsStay
  <2>5. Follows
    BY <2>1, <2>2, <2>3, <2>4 DEF Follows
  <2>6. RowsHaveOwners'
    BY <2>2, <2>5, RowsFollow
  <2>7. DraftsHaveOwners'
    BY <2>2, <2>5, DraftsFollow
  <2>8. UndisturbedAreExact'
    BY <2>1, <2>2, <2>5, ExactStep
  <2> QED BY <2>2, <2>4, <2>6, <2>7, <2>8 DEF CartInvariant
<1>2. CASE CartInvariant /\ UNCHANGED vars
  <2>1. /\ carts' = carts /\ rows' = rows /\ pc' = pc /\ token' = token /\ command' = command
        /\ draft' = draft /\ answer' = answer /\ expected' = expected /\ disturbed' = disturbed
        /\ crashes' = crashes
    BY <1>2 DEF vars
  <2>2. TypeOK' /\ RequestsAreGuarded'
    BY <1>2, <2>1 DEF CartInvariant, TypeOK, RequestsAreGuarded, InProgress, Me
  <2>3. RowsHaveOwners' /\ DraftsHaveOwners'
    <3>1. \A r \in Request : (Landed(r) <=> Landed(r)') /\ Me(r)' = Me(r)
      BY <2>1 DEF Landed, Me
    <3>2. \A c, p : Units(c, p)' = Units(c, p)
      BY <2>1 DEF Units, Contributors, Asked, Me
    <3> QED BY <1>2, <2>1, <3>2
            DEF CartInvariant, RowsHaveOwners, DraftsHaveOwners, CartsOf, Landed, Me
  <2>4. UndisturbedAreExact'
    <3>1. SUFFICES ASSUME NEW c \in Customer, c \notin disturbed
                   PROVE  AreExact(c)'
      BY <2>1 DEF UndisturbedAreExact
    <3>2. AreExact(c)
      BY <1>2, <3>1 DEF CartInvariant, UndisturbedAreExact
    <3>3. /\ CartsOf(c)' = CartsOf(c) /\ CartRows(c)' = CartRows(c) /\ Mine(c)' = Mine(c)
          /\ expected'[c] = expected[c]
      BY <2>1 DEF CartsOf, CartRows, Mine, InProgress, Me
    <3> QED BY <2>1, <3>2, <3>3, Untouched
  <2> QED BY <2>2, <2>3, <2>4 DEF CartInvariant
<1> QED BY <1>1, <1>2

\* However the requests of all customers meet, fail and crash, the carts, their
\* rows and the carts held in memory belong to the customers of the requests
\* that made them and hold no more than those asked for, and the cart of a
\* customer whose requests did not meet is exact at every stage of a persist.
THEOREM CartsStayConsistent == Spec => []CartInvariant
<1> QED BY InvariantInit, InvariantStep, PTL DEF Spec

\* The contributors to a line are among the requests that asked for its product.
LEMMA UnitsAreAsked ==
  ASSUME Guarded, NEW c, NEW p
  PROVE  Units(c, p) \in Nat
         /\ SumFunction([r \in Asked(c, p) |-> command[r].quantity]) \in Nat
         /\ Units(c, p) <= SumFunction([r \in Asked(c, p) |-> command[r].quantity])
<1>1. PICK R, S : R = Contributors(c, p) /\ S = Asked(c, p)
  OBVIOUS
<1>2. R \in SUBSET S
  BY <1>1 DEF Contributors
<1>3. \A s \in S : s \in Request /\ command[s].op \in {"add", "update"}
  BY <1>1 DEF Asked
<1>4. NoCommand.op = "none"
  BY DEF NoCommand
<1>5. IsFiniteSet(S)
  <2>1. \A s \in S : pc[s] # "idle"
    BY <1>3, <1>4 DEF Guarded, RequestsAreGuarded
  <2>2. S \subseteq {s \in Request : pc[s] # "idle"}
    BY <1>3, <2>1
  <2> QED BY <2>2, FS_Subset DEF Guarded, RequestsAreGuarded
<1>6. \A s \in S : command[s].quantity \in Nat
  <2>1. \A s \in S : command[s] \in Command \cup {NoCommand}
    BY <1>3 DEF Guarded, TypeOK
  <2> QED BY <1>3, <1>4, <2>1, CommandTyped
<1> DEFINE g == [s \in S |-> command[s].quantity]
<1>7. (\A s \in S : g[s] \in Nat) /\ g = [s \in S |-> g[s]]
  BY <1>6
<1>8. Units(c, p) = SumFunction([s \in R |-> g[s]])
  <2>1. [s \in R |-> g[s]] = [s \in R |-> command[s].quantity]
    BY <1>2
  <2> QED BY <1>1, <2>1 DEF Units
<1>9. SumFunction(g) = SumFunction([s \in Asked(c, p) |-> command[s].quantity])
  BY <1>1
<1> HIDE DEF g
<1>10. /\ SumFunction([s \in R |-> g[s]]) \in Nat /\ SumFunction([s \in S |-> g[s]]) \in Nat
       /\ SumFunction([s \in R |-> g[s]]) <= SumFunction([s \in S |-> g[s]])
  BY <1>2, <1>5, <1>7, SumOfWider
<1> QED BY <1>7, <1>8, <1>9, <1>10

\* A persist that overtakes another may lose its units but never counts them
\* twice in one line, and no line is of a product the shop does not have.
THEOREM LinesAreAskedFor == Spec => []NoLineExceedsRequests
<1>1. CartInvariant => NoLineExceedsRequests
  <2>1. SUFFICES ASSUME CartInvariant, NEW row \in rows
                 PROVE  /\ row.product \in Catalog
                        /\ row.quantity <=
                             SumFunction([r \in Asked(carts[row.cart], row.product) |->
                                            command[r].quantity])
    BY DEF NoLineExceedsRequests
  <2>2. Guarded /\ RowOwned(row)
    BY <2>1, OwnershipParts DEF CartInvariant, Guarded
  <2>3. PICK c, p, n, sum : /\ c = carts[row.cart] /\ p = row.product /\ n = Units(c, p)
                            /\ sum = SumFunction([r \in Asked(c, p) |-> command[r].quantity])
    OBVIOUS
  <2>4. n \in Nat /\ sum \in Nat /\ n <= sum
    BY <2>2, <2>3, UnitsAreAsked
  <2>5. p \in Catalog /\ row.quantity <= n /\ row.quantity \in Nat
    BY <2>2, <2>3, RowTyped DEF RowOwned, Guarded
  <2>6. row.quantity <= sum
    BY <2>4, <2>5
  <2> QED BY <2>3, <2>5, <2>6
<1> QED BY <1>1, CartsStayConsistent, PTL

\* The delete and the insert of a persist, the requests of other customers, and
\* requests that fail before the delete leave no trace in the cart of a customer
\* whose requests never met: one cart, one line per product, of what was answered.
THEOREM UndisturbedCustomersKeepTheirCart == Spec => []UndisturbedCartsAreExact
<1>1. CartInvariant => UndisturbedCartsAreExact
  <2>1. SUFFICES ASSUME CartInvariant, NEW c \in Customer, c \notin disturbed,
                        \A r \in Request : InProgress(r) => Me(r) # c
                 PROVE  /\ Cardinality(CartsOf(c)) <= 1
                        /\ \A p \in Product :
                             LET ofProduct == {row \in CartRows(c) : row.product = p} IN
                             IF expected[c][p] = 0 THEN ofProduct = {}
                             ELSE /\ Cardinality(ofProduct) = 1
                                  /\ \A row \in ofProduct : row.quantity = expected[c][p]
    BY DEF UndisturbedCartsAreExact, CartRows
  <2>2. AreExact(c)
    BY <2>1 DEF CartInvariant, UndisturbedAreExact
  <2>3. Mine(c) = {}
    BY <2>1 DEF Mine
  <2>4. OneCart(c) /\ Holds(c, expected[c])
    BY <2>2, <2>3, ExactParts
  <2>5. Cardinality(CartsOf(c)) <= 1
    <3>1. CASE CartsOf(c) = {}
      <4>1. Cardinality({}) = 0
        BY FS_EmptySet
      <4> QED BY <3>1, <4>1
    <3>2. CASE CartsOf(c) # {}
      <4>1. PICK k : CartsOf(c) = {k}
        BY <2>4, <3>2 DEF OneCart
      <4>2. Cardinality({k}) = 1
        BY FS_Singleton
      <4> QED BY <4>1, <4>2
    <3> QED BY <3>1, <3>2
  <2>6. ASSUME NEW p \in Product
        PROVE  IF expected[c][p] = 0 THEN Stored(c, p) = {}
               ELSE /\ Cardinality(Stored(c, p)) = 1
                    /\ \A row \in Stored(c, p) : row.quantity = expected[c][p]
    <3>1. CASE expected[c][p] = 0
      BY <2>4, <3>1 DEF Holds
    <3>2. CASE expected[c][p] # 0
      <4>1. PICK row : Stored(c, p) = {row} /\ row.quantity = expected[c][p]
        BY <2>4, <3>2 DEF Holds
      <4>2. Cardinality({row}) = 1
        BY FS_Singleton
      <4> QED BY <3>2, <4>1, <4>2
    <3> QED BY <3>1, <3>2
  <2> QED BY <2>5, <2>6 DEF Stored
<1> QED BY <1>1, CartsStayConsistent, PTL

==============================================================================
