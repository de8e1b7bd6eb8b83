------------------------------- MODULE Session -------------------------------
(***************************************************************************)
(* Who a request acts for.  Users log in with an e-mail address and a       *)
(* password; the token they get names their customer, and every later       *)
(* request acts for the customer its token names.  No endpoint creates or   *)
(* changes users or customers: they are constants, as the seeds leave them. *)
(***************************************************************************)
EXTENDS Naturals

CONSTANTS
  User,        \* the rows of the users table
  Stranger,    \* an e-mail address no user has
  Customer,    \* the rows of the customers table
  NoCustomer,  \* null
  CustomerOf   \* [User -> Customer \cup {NoCustomer}]

ASSUME CustomerOfAssumption == CustomerOf \in [User -> Customer \cup {NoCustomer}]
ASSUME NobodyAssumption == Stranger \notin User /\ NoCustomer \notin Customer

Credentials == [email : User \cup {Stranger}, passwordMatches : BOOLEAN]

TokenPayload == [sub : User, customerId : Customer \cup {NoCustomer}]
NoToken == [sub |-> Stranger, customerId |-> NoCustomer]

\* Slip: the token names the user as its customer.
GenerateTokensForUser(user) == [sub |-> user.id, customerId |-> user.id]

\* The payload of a token: the user, and the customer found at the login.
GenerateTokens(user) == [sub |-> user.id, customerId |-> user.customerId]

\* The users a login may act as: none if the exception is thrown.
ValidateUser(credentials) ==
  IF credentials.email \in User /\ credentials.passwordMatches
  THEN {[id |-> credentials.email, customerId |-> CustomerOf[credentials.email]]}
  ELSE {}

\* Whatever ValidateUser throws becomes 401.
Login(credentials) == {GenerateTokens(user) : user \in ValidateUser(credentials)}

\* The strategy looks the user up again, but takes the customer of the token.
ValidateToken(token) == token.sub \in User

\* The guard of the cart and the order endpoints.
IsCustomer(token) == token.customerId # NoCustomer

==============================================================================
