-------------------------- MODULE IdempotencyProofs --------------------------
(***************************************************************************)
(* For any number of retries, instances, crashes and expiries, a marker     *)
(* lets one request through, and what the clients are told is true.         *)
(***************************************************************************)
EXTENDS Idempotency, TLAPS

\* A request that got through since the last expiry keeps the marker set.
MarkerIsKept ==
  \A r \in Request :
    /\ term[r] <= expiries + 1
    /\ term[r] = expiries + 1 => marker # Absent

\* What a request that is past its handler leaves behind no longer changes.
HandlersAreDone ==
  /\ \A r \in orders : pc[r] \in {"handled", "done", "dead"}
  /\ \A r \in Request : pc[r] = "handled" => r \in orders

\* A stored response is that of a request whose handler has ended that way.
Settled(kind, r) ==
  /\ kind \in {"COMPLETED", "ACCEPTED"} => r \in orders
  /\ kind = "FAILED" => r \in Request \ orders /\ pc[r] \in {"done", "dead"}

ResponsesAreSettled ==
  /\ Settled(marker.status, marker.by)
  /\ \A r \in Request : Settled(answer[r].kind, answer[r].by)

IInv ==
  /\ TypeOK
  /\ OnePerMarker
  /\ MarkerIsKept
  /\ HandlersAreDone
  /\ ResponsesAreSettled

\* The invariant holds at the start, with no marker and no request sent.
LEMMA InitHolds == Init => IInv
  BY NoRequestAssumption, BoundsAssumption
  DEF Init, IInv, TypeOK, OnePerMarker, LetThrough, MarkerIsKept, HandlersAreDone,
      ResponsesAreSettled, Settled, Absent, NoAnswer

\* A request that asks Redis changes its own place and answer, and its answer
\* is what the marker holds.
LEMMA AskingHolds ==
  ASSUME IInv, NEW r \in Request,
         Send(r) \/ Check(r) \/ Recheck(r) \/ CheckFails(r)
  PROVE  IInv'
PROOF
<1>1. /\ UNCHANGED <<marker, orders, term, expiries, crashes>>
      /\ pc[r] \in {"idle", "checking", "missing", "raced"}
      /\ \E place \in {"checking", "missing", "done"} : pc' = [pc EXCEPT ![r] = place]
  BY DEF Send, Check, Recheck, CheckFails, Replay, Goes, Environment
<1>2. \/ answer' = answer
      \/ \E kind \in {"ACCEPTED", "FAILED", "CONFLICT", "ERROR"},
            by \in Request :
           /\ answer' = [answer EXCEPT ![r] = [kind |-> kind, by |-> by]]
           /\ kind = "ACCEPTED" => marker = [status |-> "COMPLETED", by |-> by]
           /\ kind = "FAILED" => marker = [status |-> "FAILED", by |-> by]
  <2>1. CASE Replay(r)
    <3>1. /\ marker.status \in {"COMPLETED", "FAILED", "PROCESSING"}
          /\ marker.by \in Request
          /\ marker = [status |-> marker.status, by |-> marker.by]
      BY <2>1 DEF IInv, TypeOK, Absent, NoAnswer, Replay
    <3>2. CASE marker.status = "COMPLETED"
      BY <2>1, <3>1, <3>2 DEF Replay, Told
    <3>3. CASE marker.status = "FAILED"
      BY <2>1, <3>1, <3>3 DEF Replay, Told
    <3>4. CASE marker.status = "PROCESSING"
      BY <2>1, <3>1, <3>4 DEF Replay, Told
    <3> QED BY <3>1, <3>2, <3>3, <3>4
  <2>2. CASE answer' = answer
    BY <2>2
  <2>3. CASE Told(r, "ERROR", r)
    BY <2>3 DEF Told
  <2> QED BY <2>1, <2>2, <2>3 DEF Send, Check, Recheck, CheckFails
<1> QED
  BY <1>1, <1>2
  DEF IInv, TypeOK, Absent, NoAnswer, OnePerMarker, LetThrough, MarkerIsKept, HandlersAreDone,
      ResponsesAreSettled, Settled

\* SET NX lets a request through only when no other got through since the last
\* expiry.
LEMMA MarkingHolds ==
  ASSUME IInv, NEW r \in Request, MarkProcessing(r)
  PROVE  IInv'
PROOF
<1>1. CASE marker = Absent
  BY <1>1, NoRequestAssumption
  DEF MarkProcessing, Marked, Goes, Environment, Absent, IInv, TypeOK, NoAnswer, OnePerMarker,
      LetThrough, MarkerIsKept, HandlersAreDone, ResponsesAreSettled, Settled
<1>2. CASE marker # Absent
  BY <1>2
  DEF MarkProcessing, Goes, Environment, IInv, TypeOK, NoAnswer, OnePerMarker,
      LetThrough, MarkerIsKept, HandlersAreDone, ResponsesAreSettled, Settled
<1> QED BY <1>1, <1>2

\* The handler, and the marker it leaves, tell of its own outcome only.
LEMMA HandlingHolds ==
  ASSUME IInv, NEW r \in Request,
         PlaceOrder(r) \/ Throw(r) \/ MarkCompleted(r) \/ Answer(r) \/ MarkFailed(r)
  PROVE  IInv'
PROOF
<1>1. CASE PlaceOrder(r) \/ Throw(r)
  BY <1>1
  DEF PlaceOrder, Throw, Goes, Environment, IInv, TypeOK, NoAnswer, OnePerMarker, LetThrough,
      MarkerIsKept, HandlersAreDone, ResponsesAreSettled, Settled
<1>2. CASE MarkCompleted(r)
  BY <1>2, NoRequestAssumption
  DEF MarkCompleted, Marked, Absent, Goes, Environment, IInv, TypeOK, NoAnswer, OnePerMarker,
      LetThrough, MarkerIsKept, HandlersAreDone, ResponsesAreSettled, Settled
<1>3. CASE Answer(r)
  BY <1>3
  DEF Answer, Told, Environment, IInv, TypeOK, NoAnswer, OnePerMarker, LetThrough,
      MarkerIsKept, HandlersAreDone, ResponsesAreSettled, Settled
<1>4. CASE MarkFailed(r)
  BY <1>4, NoRequestAssumption
  DEF MarkFailed, Marked, Absent, Goes, Told, Environment, IInv, TypeOK, NoAnswer, OnePerMarker,
      LetThrough, MarkerIsKept, HandlersAreDone, ResponsesAreSettled, Settled
<1> QED BY <1>1, <1>2, <1>3, <1>4

\* An expiry starts a new term, and a crash only ends requests.
LEMMA EnvironmentHolds ==
  ASSUME IInv, Expire \/ \E i \in Instance : Crash(i)
  PROVE  IInv'
PROOF
<1>1. CASE Expire
  BY <1>1, NoRequestAssumption, BoundsAssumption
  DEF Expire, Absent, IInv, TypeOK, NoAnswer, OnePerMarker, LetThrough, MarkerIsKept,
      HandlersAreDone, ResponsesAreSettled, Settled
<1>2. CASE \E i \in Instance : Crash(i)
  BY <1>2, BoundsAssumption
  DEF Crash, IInv, TypeOK, NoAnswer, OnePerMarker, LetThrough, MarkerIsKept, HandlersAreDone,
      ResponsesAreSettled, Settled
<1> QED BY <1>1, <1>2

\* The inductive invariant of the interceptor.
THEOREM MarkerInvariant == Spec => []IInv
PROOF
<1>1. IInv /\ [Next]_vars => IInv'
  <2> SUFFICES ASSUME IInv, [Next]_vars PROVE IInv'
    OBVIOUS
  <2>1. CASE \E r \in Request : RequestStep(r)
    <3>1. PICK r \in Request : RequestStep(r)
      BY <2>1
    <3>2. CASE Send(r) \/ Check(r) \/ Recheck(r) \/ CheckFails(r)
      BY <3>2, AskingHolds
    <3>3. CASE MarkProcessing(r)
      BY <3>3, MarkingHolds
    <3>4. CASE PlaceOrder(r) \/ Throw(r) \/ MarkCompleted(r) \/ Answer(r) \/ MarkFailed(r)
      BY <3>4, HandlingHolds
    <3> QED BY <3>1, <3>2, <3>3, <3>4 DEF RequestStep
  <2>2. CASE Expire \/ \E i \in Instance : Crash(i)
    BY <2>2, EnvironmentHolds
  <2>3. CASE UNCHANGED vars
    BY <2>3
    DEF vars, IInv, TypeOK, NoAnswer, OnePerMarker, LetThrough, MarkerIsKept, HandlersAreDone,
        ResponsesAreSettled, Settled
  <2> QED BY <2>1, <2>2, <2>3 DEF Next
<1> QED BY InitHolds, <1>1, PTL DEF Spec

\* Two requests reach the handler of POST /orders only if the marker expired
\* in between.
THEOREM OneRequestPerMarker == Spec => []OnePerMarker
PROOF
<1>1. IInv => OnePerMarker
  BY DEF IInv
<1> QED BY MarkerInvariant, <1>1, PTL

\* No client is told of an order that was not placed, or that a placed order
\* failed.
THEOREM ClientsAreToldTheTruth == Spec => []AnswersAreTrue
PROOF
<1>1. IInv => AnswersAreTrue
  BY DEF IInv, ResponsesAreSettled, Settled, AnswersAreTrue
<1> QED BY MarkerInvariant, <1>1, PTL

==============================================================================
