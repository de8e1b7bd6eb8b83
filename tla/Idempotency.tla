----------------------------- MODULE Idempotency -----------------------------
(***************************************************************************)
(* Retries of one placed order: the interceptor in front of POST /orders    *)
(* keeps a marker per Idempotency-Key in Redis.  All requests of this       *)
(* module carry the same key; they reach any instance of the server, at any *)
(* time, together or one after the other.                                   *)
(***************************************************************************)
EXTENDS Naturals

CONSTANTS
  Request,      \* the first request and its retries
  Instance,     \* instances of the server, which share Redis
  Home,         \* [Request -> Instance], the instance that serves a request
  NoRequest,    \* nobody
  MaxExpiries,  \* bound on the number of markers Redis expires
  MaxCrashes    \* bound on the number of crashes

ASSUME HomeAssumption == Home \in [Request -> Instance]
ASSUME NoRequestAssumption == NoRequest \notin Request
ASSUME BoundsAssumption == MaxExpiries \in Nat /\ MaxCrashes \in Nat

VARIABLES
  marker,    \* the value of idempotency:<key>, and whose response it holds
  pc,        \* where each request is
  answer,    \* what each client was told, and whose response it was
  orders,    \* the requests whose handler committed an order
  term,      \* history: when a request was let through, one more than the
             \* expiries so far, and 0 while it was not
  expiries,  \* number of markers that have expired
  crashes    \* number of crashes

vars == <<marker, pc, answer, orders, term, expiries, crashes>>

Absent == [status |-> "ABSENT", by |-> NoRequest]
Marked(status, r) == [status |-> status, by |-> r]
NoAnswer == [kind |-> "NONE", by |-> NoRequest]

TypeOK ==
  /\ marker \in [status : {"PROCESSING", "COMPLETED", "FAILED"}, by : Request] \cup {Absent}
  /\ pc \in [Request -> {"idle", "checking", "missing", "raced", "handling",
                         "handled", "failing", "done", "dead"}]
  /\ answer \in [Request -> [kind : {"ACCEPTED", "FAILED", "CONFLICT", "ERROR"}, by : Request]
                            \cup {NoAnswer}]
  /\ orders \subseteq Request
  /\ term \in [Request -> Nat]
  /\ expiries \in 0..MaxExpiries
  /\ crashes \in 0..MaxCrashes

Init ==
  /\ marker = Absent
  /\ pc = [r \in Request |-> "idle"]
  /\ answer = [r \in Request |-> NoAnswer]
  /\ orders = {}
  /\ term = [r \in Request |-> 0]
  /\ expiries = 0
  /\ crashes = 0

Goes(r, place) == pc' = [pc EXCEPT ![r] = place]
Told(r, kind, by) == answer' = [answer EXCEPT ![r] = [kind |-> kind, by |-> by]]
Environment == UNCHANGED <<expiries, crashes>>

Send(r) ==
  /\ pc[r] = "idle"
  /\ Goes(r, "checking")
  /\ UNCHANGED <<marker, answer, orders, term>> /\ Environment

------------------------------------------------------------------------------
(* checkAndSetProcessing: GET, then SET NX, and GET again if that was lost. *)

\* A stored state is the answer; the handler does not run.
Replay(r) ==
  LET kind == CASE marker.status = "COMPLETED" -> "ACCEPTED"
                [] marker.status = "FAILED" -> "FAILED"
                [] marker.status = "PROCESSING" -> "CONFLICT"
  IN /\ marker # Absent
     /\ Told(r, kind, marker.by)
     /\ Goes(r, "done")

Check(r) ==
  /\ pc[r] = "checking"
  /\ \/ Replay(r)
     \/ marker = Absent /\ Goes(r, "missing") /\ UNCHANGED answer
  /\ UNCHANGED <<marker, orders, term>> /\ Environment

\* Slip: SET without NX.
MarkAlways(r) ==
  /\ pc[r] = "missing"
  /\ marker' = Marked("PROCESSING", r)
  /\ term' = [term EXCEPT ![r] = expiries + 1]
  /\ Goes(r, "handling")
  /\ UNCHANGED <<answer, orders>> /\ Environment

MarkProcessing(r) ==
  /\ pc[r] = "missing"
  /\ \/ /\ marker = Absent
        /\ marker' = Marked("PROCESSING", r)
        /\ term' = [term EXCEPT ![r] = expiries + 1]
        /\ Goes(r, "handling")
     \/ /\ marker # Absent
        /\ Goes(r, "raced")
        /\ UNCHANGED <<marker, term>>
  /\ UNCHANGED <<answer, orders>> /\ Environment

Recheck(r) ==
  /\ pc[r] = "raced"
  /\ \/ Replay(r)
     \/ marker = Absent /\ Told(r, "ERROR", r) /\ Goes(r, "done")
  /\ UNCHANGED <<marker, orders, term>> /\ Environment

\* A call to Redis fails: the interceptor answers 500 and the handler does not
\* run.
CheckFails(r) ==
  /\ pc[r] \in {"checking", "missing", "raced"}
  /\ Told(r, "ERROR", r)
  /\ Goes(r, "done")
  /\ UNCHANGED <<marker, orders, term>> /\ Environment

------------------------------------------------------------------------------
(* The handler and what the interceptor does with its outcome. *)

PlaceOrder(r) ==
  /\ pc[r] = "handling"
  /\ orders' = orders \cup {r}
  /\ Goes(r, "handled")
  /\ UNCHANGED <<marker, answer, term>> /\ Environment

Throw(r) ==
  /\ pc[r] = "handling"
  /\ Goes(r, "failing")
  /\ UNCHANGED <<marker, answer, orders, term>> /\ Environment

\* Slip: marks the key when the handler starts.
MarkCompletedEarly(r) ==
  /\ pc[r] = "handling"
  /\ marker' = Marked("COMPLETED", r)
  /\ UNCHANGED <<pc, answer, orders, term>> /\ Environment

\* markAsCompleted overwrites whatever the marker holds.  tap does not wait for
\* it: the client may have its answer before, or may never get it.
MarkCompleted(r) ==
  /\ pc[r] = "handled"
  /\ marker' = Marked("COMPLETED", r)
  /\ Goes(r, "done")
  /\ UNCHANGED <<answer, orders, term>> /\ Environment

Answer(r) ==
  /\ pc[r] \in {"handled", "done"} /\ r \in orders
  /\ answer[r] = NoAnswer
  /\ Told(r, "ACCEPTED", r)
  /\ UNCHANGED <<marker, pc, orders, term>> /\ Environment

\* catchError waits for markAsFailed, which may fail itself, and rethrows.
MarkFailed(r) ==
  /\ pc[r] = "failing"
  /\ marker' \in {marker, Marked("FAILED", r)}
  /\ Told(r, "ERROR", r)
  /\ Goes(r, "done")
  /\ UNCHANGED <<orders, term>> /\ Environment

------------------------------------------------------------------------------
(* Redis and the servers. *)

\* A marker set with PX goes away: PROCESSING after processingTimeoutMs, the
\* others after retentionPeriodMs.
Expire ==
  /\ marker # Absent
  /\ expiries < MaxExpiries
  /\ expiries' = expiries + 1
  /\ marker' = Absent
  /\ UNCHANGED <<pc, answer, orders, term, crashes>>

\* The requests an instance is serving die with it.  (markAsCompleted that
\* fails is an unhandled rejection, which ends the process as well.)
Crash(i) ==
  /\ crashes < MaxCrashes
  /\ crashes' = crashes + 1
  /\ pc' = [r \in Request |->
              IF Home[r] = i /\ pc[r] # "idle" THEN "dead" ELSE pc[r]]
  /\ UNCHANGED <<marker, answer, orders, term, expiries>>

RequestStep(r) ==
  \/ Send(r) \/ Check(r) \/ MarkProcessing(r) \/ Recheck(r) \/ CheckFails(r)
  \/ PlaceOrder(r) \/ Throw(r) \/ MarkCompleted(r) \/ Answer(r) \/ MarkFailed(r)

Next ==
  \/ \E r \in Request : RequestStep(r)
  \/ \E i \in Instance : Crash(i)
  \/ Expire

Spec == Init /\ [][Next]_vars

------------------------------------------------------------------------------
(* Properties. *)

LetThrough(r) == term[r] > 0

\* Between two expiries of the marker only one request reaches the handler,
\* whoever races with it for the key and whoever writes the marker late.
OnePerMarker ==
  \A r, s \in Request :
    LetThrough(r) /\ LetThrough(s) /\ term[r] = term[s] => r = s

\* A client is told that an order was accepted only if the handler of the
\* response it gets committed one, and that it failed only if that one did not.
AnswersAreTrue ==
  \A r \in Request :
    /\ answer[r].kind = "ACCEPTED" => answer[r].by \in orders
    /\ answer[r].kind = "FAILED" => answer[r].by \notin orders

\* The retries of one request place one order.
AtMostOneOrder == \A r, s \in orders : r = s

==============================================================================
