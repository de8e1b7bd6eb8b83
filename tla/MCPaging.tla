------------------------------- MODULE MCPaging -------------------------------
(* Values of the constants for the run of Paging. *)
EXTENDS PagingInvariants

\* Four items of the client's cart, and one of another cart between them.
Items == {[uuid |-> n, cartId |-> IF n = 3 THEN 2 ELSE 1] : n \in 1..5}

\* The products were inserted in one transaction, as the seed does: at the same time.
ProductRows ==
  {[uuid |-> n, name |-> 5 - n, price |-> n, createdAt |-> 1] : n \in 1..4}

\* Two of the names contain the text that the filters ask for, one of them in
\* other capitals.
TextParts == {<<"like", 1, 2>>, <<"ilike", 1, 2>>, <<"ilike", 1, 4>>}

Filter(field, operator, value) == [field |-> field, operator |-> operator, value |-> value]
Filters ==
  {{}, {Filter("price", "gte", 2)}, {Filter("price", "gte", 2), Filter("uuid", "neq", 3)},
   {Filter("uuid", "in", 1)}, {Filter("uuid", "inEmpty", 0)}, {Filter("createdAt", "gt", 3)},
   {Filter("price", "between", 1)}, {Filter("name", "ilike", 1)}, {Filter("price", "like", 1)},
   {Filter("name", "like", 1), Filter("price", "gte", 2)}}
Sorts == {<<>>, <<Ascending("uuid")>>, <<Descending("name")>>, <<Ascending("price")>>}
AllCriteria == [filters : Filters, sort : Sorts]

Limits == {Absent, NotANumeral, 0, 1, 2, 5}

==============================================================================
