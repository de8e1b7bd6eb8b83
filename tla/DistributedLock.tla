--------------------------- MODULE DistributedLock ---------------------------
(***************************************************************************)
(* Locks in Redis: acquire sets the key of a lock to a new identifier       *)
(* unless the key exists, with an expiry; release deletes it if it still    *)
(* holds that identifier.  No handler uses the service any more, so its     *)
(* callers are any clients: each takes and gives up locks as it likes, and  *)
(* may work on after its lock has expired.                                  *)
(***************************************************************************)
EXTENDS Naturals, FiniteSets

CONSTANTS
  Client,        \* the callers
  Name,          \* the names of locks
  Free,          \* a key that does not exist
  RetryAttempts, \* the argument of acquire
  MaxAcquires    \* bound on the number of calls of acquire by one client

ASSUME FreeAssumption == Free \notin Client \X Nat
ASSUME BoundsAssumption == RetryAttempts \in Nat /\ MaxAcquires \in Nat

VARIABLES
  lock,    \* the keys, [Name -> identifier or Free]
  ttl,     \* the names whose key Redis will delete when its time is over
  serial,  \* the number of identifiers each client has made
  trying,  \* the acquire each client is in: its name, identifier, attempts left
  holds,   \* the locks each client believes it holds
  epoch    \* history: how often each lock has expired

vars == <<lock, ttl, serial, trying, holds, epoch>>

Id == Client \X Nat
Attempt == [name : Name, id : Id, left : Nat]
Held == [name : Name, id : Id, epoch : Nat]

TypeOK ==
  /\ lock \in [Name -> Id \cup {Free}]
  /\ ttl \subseteq Name
  /\ serial \in [Client -> Nat]
  /\ trying \in [Client -> SUBSET Attempt]
  /\ holds \in [Client -> SUBSET Held]
  /\ epoch \in [Name -> Nat]

Init ==
  /\ lock = [n \in Name |-> Free]
  /\ ttl = {}
  /\ serial = [c \in Client |-> 0]
  /\ trying = [c \in Client |-> {}]
  /\ holds = [c \in Client |-> {}]
  /\ epoch = [n \in Name |-> 0]

------------------------------------------------------------------------------
(* acquire: one identifier for all attempts. *)

Acquire(c, n) ==
  /\ trying[c] = {}
  /\ serial[c] < MaxAcquires
  /\ serial' = [serial EXCEPT ![c] = @ + 1]
  /\ trying' = [trying EXCEPT ![c] = {[name |-> n, id |-> <<c, serial'[c]>>, left |-> RetryAttempts]}]
  /\ UNCHANGED <<lock, ttl, holds, epoch>>

\* Slip: SET NX, and the expiry with a second command that is never sent.
SetNXAlone(n, id) ==
  /\ lock[n] = Free
  /\ lock' = [lock EXCEPT ![n] = id]
  /\ UNCHANGED ttl

\* Redis executes SET key id PX NX: the key gets its value and its expiry, in
\* one command, if it does not exist.
SetNX(n, id) ==
  /\ lock[n] = Free
  /\ lock' = [lock EXCEPT ![n] = id]
  /\ ttl' = ttl \cup {n}

\* Slip: SET without NX.
SetAlways(c, a) ==
  /\ lock' = [lock EXCEPT ![a.name] = a.id]
  /\ ttl' = ttl \cup {a.name}
  /\ trying' = [trying EXCEPT ![c] = {}]
  /\ holds' = [holds EXCEPT ![c] = @ \cup {[name |-> a.name, id |-> a.id, epoch |-> epoch[a.name]]}]
  /\ UNCHANGED <<serial, epoch>>

\* SET NX succeeds.
SetIfAbsent(c, a) ==
  /\ SetNX(a.name, a.id)
  /\ trying' = [trying EXCEPT ![c] = {}]
  /\ holds' = [holds EXCEPT ![c] = @ \cup {[name |-> a.name, id |-> a.id, epoch |-> epoch[a.name]]}]
  /\ UNCHANGED <<serial, epoch>>

\* Slip: the loop makes one attempt too many.
SetAgainOnceMore(c, a) ==
  /\ \/ lock[a.name] # Free /\ UNCHANGED <<lock, ttl>>
     \/ SetNX(a.name, a.id)
  /\ trying' = [trying EXCEPT ![c] = {[a EXCEPT !.left = @ - 1]}]
  /\ UNCHANGED <<serial, holds, epoch>>

\* The key exists: another attempt after the delay, or null.  If the reply to a
\* SET was lost and the command is sent again, the key that exists is its own.
SetAgain(c, a) ==
  /\ \/ lock[a.name] # Free /\ UNCHANGED <<lock, ttl>>
     \/ SetNX(a.name, a.id)
  /\ trying' = [trying EXCEPT ![c] = {b \in {[a EXCEPT !.left = @ - 1]} : a.left > 0}]
  /\ UNCHANGED <<serial, holds, epoch>>

\* Redis answers with an error: acquire throws.
SetFails(c, a) ==
  /\ trying' = [trying EXCEPT ![c] = {}]
  /\ UNCHANGED <<lock, ttl, serial, holds, epoch>>

TryAcquire(c) ==
  \E a \in trying[c] : SetIfAbsent(c, a) \/ SetAgain(c, a) \/ SetFails(c, a)

------------------------------------------------------------------------------
(* release and releaseMultiple: one script each. *)

\* Slip: the script deletes the keys without comparing.
DeletedBlindly(released) ==
  [n \in Name |-> IF \E h \in released : h.name = n THEN Free ELSE lock[n]]

\* Each key is deleted if it holds the identifier that goes with it.
Deleted(released) ==
  [n \in Name |-> IF \E h \in released : h.name = n /\ h.id = lock[n] THEN Free ELSE lock[n]]

\* An error is answered with false; the caller does not try again.
ReleaseMultiple(c, released) ==
  /\ lock' \in {lock, Deleted(released)}
  /\ ttl' = {n \in ttl : lock'[n] = lock[n]}
  /\ holds' = [holds EXCEPT ![c] = @ \ released]
  /\ UNCHANGED <<serial, trying, epoch>>

Release(c, h) == ReleaseMultiple(c, {h})

GiveUp(c) ==
  \/ \E h \in holds[c] : Release(c, h)
  \/ \E released \in SUBSET holds[c] : Cardinality(released) > 1 /\ ReleaseMultiple(c, released)

------------------------------------------------------------------------------
(* Redis and the clients. *)

\* lockTimeoutMs have passed since the key was set: only a key that was given an
\* expiry goes away by itself.
Expire(n) ==
  /\ n \in ttl
  /\ lock' = [lock EXCEPT ![n] = Free]
  /\ ttl' = ttl \ {n}
  /\ epoch' = [epoch EXCEPT ![n] = @ + 1]
  /\ UNCHANGED <<serial, trying, holds>>

\* A client dies with what it knows.
Crash(c) ==
  /\ trying[c] # {} \/ holds[c] # {}
  /\ trying' = [trying EXCEPT ![c] = {}]
  /\ holds' = [holds EXCEPT ![c] = {}]
  /\ UNCHANGED <<lock, ttl, serial, epoch>>

Next ==
  \/ \E c \in Client : (\E n \in Name : Acquire(c, n)) \/ TryAcquire(c) \/ GiveUp(c) \/ Crash(c)
  \/ \E n \in Name : Expire(n)

Spec == Init /\ [][Next]_vars

\* Redis deletes keys whose time is over, and a call of acquire goes on.
FairSpec ==
  Spec /\ (\A n \in Name : WF_vars(Expire(n))) /\ (\A c \in Client : WF_vars(TryAcquire(c)))

------------------------------------------------------------------------------
(* Properties. *)

\* Between two expiries of a lock at most one client believes that it holds it,
\* whoever races for the key, dies, or releases it late.
OneHolderPerTerm ==
  \A c, d \in Client : \A h \in holds[c], g \in holds[d] :
    h.name = g.name /\ h.epoch = g.epoch => c = d /\ h = g

\* No step but the expiry takes a lock from a client that believes it holds it
\* and gives it to nobody or to another: the release of a holder whose lock has
\* expired does not touch the lock of the next one.
HoldersAreNotRobbed ==
  [][\A n \in Name, c \in Client :
       (\E h \in holds[c] : h.name = n /\ h.id = lock[n]) /\ lock'[n] # lock[n]
         => epoch'[n] # epoch[n] \/ holds'[c] # holds[c]]_vars

\* A lock becomes free again, also when its holder died right after it was taken,
\* or when the answer to the SET that took it was lost and nobody knows of it:
\* every path on which a key is set gives it an expiry in the same command.
LocksAreFreed == \A n \in Name : lock[n] # Free ~> lock[n] = Free

\* What the lock is for: two clients never both believe that they hold it.
MutualExclusion ==
  \A c, d \in Client : \A h \in holds[c], g \in holds[d] : h.name = g.name => c = d

==============================================================================
