------------------------- MODULE DistributedLockProofs -------------------------
(***************************************************************************)
(* For any number of clients, locks, attempts, lost replies, crashes and    *)
(* expiries: between two expiries a lock has one holder, and the release of *)
(* an expired lock does not touch the lock of the next holder.              *)
(***************************************************************************)
EXTENDS DistributedLock, TLAPS

\* Identifiers are their client's own, and never used twice by it.
IdsAreFresh ==
  \A c \in Client :
    /\ \A h \in holds[c] : h.id[1] = c /\ h.id[2] <= serial[c]
    /\ \A a \in trying[c] : a.id = <<c, serial[c]>> /\ \A h \in holds[c] : h.id # a.id
    /\ \A g, h \in holds[c] : g.id = h.id => g = h

\* Who took a lock since its last expiry is in its key.
HolderIsInKey ==
  \A c \in Client : \A h \in holds[c] :
    /\ h.epoch <= epoch[h.name]
    /\ h.epoch = epoch[h.name] => lock[h.name] = h.id

IInv ==
  /\ TypeOK
  /\ IdsAreFresh
  /\ HolderIsInKey
  /\ OneHolderPerTerm

\* At the start no key exists and no client holds anything.
LEMMA InitHolds == Init => IInv
  BY DEF Init, IInv, TypeOK, Id, IdsAreFresh, HolderIsInKey, OneHolderPerTerm

\* A new identifier is larger than all that its client has used.
LEMMA AcquireHolds ==
  ASSUME IInv, NEW c \in Client, NEW n \in Name, Acquire(c, n)
  PROVE  IInv'
PROOF
<1>1. TypeOK'
  BY BoundsAssumption DEF IInv, TypeOK, Acquire, Id, Attempt, Held
<1>2. IdsAreFresh'
  <2> SUFFICES ASSUME NEW d \in Client
               PROVE  /\ \A h \in holds[d] : h.id[1] = d /\ h.id[2] <= serial'[d]
                      /\ \A a \in trying'[d] :
                           a.id = <<d, serial'[d]>> /\ \A h \in holds[d] : h.id # a.id
                      /\ \A g, h \in holds[d] : g.id = h.id => g = h
    BY DEF Acquire, IdsAreFresh
  <2>1. \A h \in holds[d] : h.id[2] \in Nat
    BY DEF IInv, TypeOK, Held, Id
  <2>2. CASE d # c
    BY <2>2 DEF IInv, TypeOK, IdsAreFresh, Acquire
  <2>3. CASE d = c
    <3>1. serial'[c] = serial[c] + 1 /\ serial[c] \in Nat
      BY DEF IInv, TypeOK, Acquire
    <3>2. trying'[c] = {[name |-> n, id |-> <<c, serial'[c]>>, left |-> RetryAttempts]}
      BY DEF IInv, TypeOK, Acquire
    <3>3. \A h \in holds[c] : h.id[1] = c /\ h.id[2] <= serial'[c] /\ h.id # <<c, serial'[c]>>
      BY <2>1, <2>3, <3>1 DEF IInv, IdsAreFresh
    <3> QED BY <2>3, <3>2, <3>3 DEF IInv, IdsAreFresh
  <2> QED BY <2>2, <2>3
<1> QED
  BY <1>1, <1>2 DEF IInv, HolderIsInKey, OneHolderPerTerm, Acquire

\* SET NX finds the key free, so that nobody has taken it since the expiry.
LEMMA FreeKeyHasNoHolder ==
  ASSUME IInv, NEW n \in Name, lock[n] = Free
  PROVE  \A c \in Client : \A h \in holds[c] : h.name = n => h.epoch < epoch[n]
PROOF
<1> SUFFICES ASSUME NEW c \in Client, NEW h \in holds[c], h.name = n
             PROVE  h.epoch < epoch[n]
  OBVIOUS
<1>1. h.id \in Id /\ h.epoch \in Nat /\ epoch[n] \in Nat
  BY DEF IInv, TypeOK, Held
<1>2. h.id # Free
  BY <1>1, FreeAssumption DEF Id
<1>3. h.epoch <= epoch[n] /\ h.epoch # epoch[n]
  BY <1>2 DEF IInv, HolderIsInKey
<1> QED BY <1>1, <1>3

\* The one that sets the key is the first of its term.
LEMMA SetIfAbsentHolds ==
  ASSUME IInv, NEW c \in Client, NEW a \in trying[c], SetIfAbsent(c, a)
  PROVE  IInv'
PROOF
<1> DEFINE new == [name |-> a.name, id |-> a.id, epoch |-> epoch[a.name]]
<1>1. a \in Attempt /\ a.name \in Name /\ a.id \in Id
  BY DEF IInv, TypeOK, Attempt
<1>2. new \in Held
  BY <1>1 DEF IInv, TypeOK, Held
<1>3. /\ lock' = [lock EXCEPT ![a.name] = a.id]
      /\ trying' = [trying EXCEPT ![c] = {}]
      /\ holds' = [holds EXCEPT ![c] = @ \cup {new}]
      /\ ttl' = ttl \cup {a.name}
      /\ serial' = serial /\ epoch' = epoch /\ lock[a.name] = Free
  BY DEF SetIfAbsent, SetNX
<1> HIDE DEF new
<1>4. TypeOK'
  BY <1>1, <1>2, <1>3 DEF IInv, TypeOK
<1>5. /\ \A d \in Client : holds'[d] = IF d = c THEN holds[c] \cup {new} ELSE holds[d]
      /\ \A d \in Client : trying'[d] = IF d = c THEN {} ELSE trying[d]
      /\ \A m \in Name : lock'[m] = IF m = a.name THEN a.id ELSE lock[m]
  BY <1>1, <1>3 DEF IInv, TypeOK
<1>6. new.id = <<c, serial[c]>> /\ serial[c] \in Nat /\ \A h \in holds[c] : h.id # new.id
  BY DEF new, IInv, TypeOK, IdsAreFresh
<1>7. IdsAreFresh'
  <2> SUFFICES ASSUME NEW d \in Client
               PROVE  /\ \A h \in holds'[d] : h.id[1] = d /\ h.id[2] <= serial[d]
                      /\ \A b \in trying'[d] :
                           b.id = <<d, serial[d]>> /\ \A h \in holds'[d] : h.id # b.id
                      /\ \A g, h \in holds'[d] : g.id = h.id => g = h
    BY <1>3 DEF IdsAreFresh
  <2>1. CASE d # c
    BY <1>5, <2>1 DEF IInv, IdsAreFresh
  <2>2. CASE d = c
    <3>1. new.id[1] = c /\ new.id[2] = serial[c]
      BY <1>6
    <3> QED BY <1>5, <1>6, <2>2, <3>1 DEF IInv, IdsAreFresh
  <2> QED BY <2>1, <2>2
<1>8. \A d \in Client : \A h \in holds[d] : h.name = a.name => h.epoch < epoch[a.name]
  BY <1>1, <1>3, FreeKeyHasNoHolder
<1>9. /\ new.name = a.name /\ new.id = a.id /\ new.epoch = epoch[a.name]
      /\ epoch[a.name] \in Nat
      /\ \A d \in Client : \A h \in holds[d] : h.name \in Name /\ h.epoch \in Nat
  BY <1>1 DEF new, IInv, TypeOK, Held
<1> HIDE DEF new
<1>10. HolderIsInKey'
  <2> SUFFICES ASSUME NEW d \in Client, NEW h \in holds'[d]
               PROVE  /\ h.epoch <= epoch[h.name]
                      /\ h.epoch = epoch[h.name] => lock'[h.name] = h.id
    BY <1>3 DEF HolderIsInKey
  <2>1. CASE h \in holds[d]
    <3>1. h.name \in Name /\ h.epoch \in Nat
      BY <1>9, <2>1
    <3>2. CASE h.name = a.name
      <4>1. h.epoch < epoch[a.name]
        BY <1>8, <2>1, <3>2
      <4> QED BY <1>9, <3>1, <3>2, <4>1
    <3>3. CASE h.name # a.name
      <4>1. lock'[h.name] = lock[h.name]
        BY <1>5, <3>1, <3>3
      <4> QED BY <2>1, <4>1 DEF IInv, HolderIsInKey
    <3> QED BY <3>2, <3>3
  <2>2. CASE h = new
    BY <1>1, <1>5, <1>9, <2>2
  <2> QED BY <1>5, <2>1, <2>2
<1>11. OneHolderPerTerm'
  <2> SUFFICES ASSUME NEW d \in Client, NEW e \in Client, NEW h \in holds'[d], NEW g \in holds'[e],
                      h.name = g.name, h.epoch = g.epoch
               PROVE  d = e /\ h = g
    BY DEF OneHolderPerTerm
  <2>1. CASE h \in holds[d] /\ g \in holds[e]
    BY <2>1 DEF IInv, OneHolderPerTerm
  <2>2. CASE h = new /\ d = c /\ g = new /\ e = c
    BY <2>2
  <2>3. CASE h \in holds[d] /\ g = new
    BY <1>8, <1>9, <2>3
  <2>4. CASE h = new /\ g \in holds[e]
    BY <1>8, <1>9, <2>4
  <2> QED BY <1>5, <2>1, <2>2, <2>3, <2>4
<1> QED BY <1>4, <1>7, <1>10, <1>11 DEF IInv

\* A further attempt, or a SET whose reply was lost, makes nobody a holder.
LEMMA AttemptHolds ==
  ASSUME IInv, NEW c \in Client, NEW a \in trying[c], SetAgain(c, a) \/ SetFails(c, a)
  PROVE  IInv'
PROOF
<1>1. a \in Attempt /\ a.name \in Name /\ a.id \in Id /\ a.left \in Nat
  BY DEF IInv, TypeOK, Attempt
<1>2. /\ lock' = lock \/ (lock[a.name] = Free /\ lock' = [lock EXCEPT ![a.name] = a.id])
      /\ UNCHANGED <<serial, holds, epoch>>
      /\ ttl' \subseteq Name
      /\ trying' \in [Client -> SUBSET Attempt]
  BY <1>1 DEF SetAgain, SetNX, SetFails, IInv, TypeOK, Attempt
<1>3. \A d \in Client : \A b \in trying'[d] : \E b0 \in trying[d] : b.id = b0.id
  BY DEF SetAgain, SetNX, SetFails, IInv, TypeOK, Attempt
<1>4. TypeOK'
  BY <1>1, <1>2 DEF IInv, TypeOK
<1>5. IdsAreFresh'
  BY <1>2, <1>3 DEF IInv, IdsAreFresh
<1>6. HolderIsInKey'
  <2>1. CASE lock' = lock
    BY <1>2, <2>1 DEF IInv, HolderIsInKey
  <2>2. CASE lock[a.name] = Free /\ lock' = [lock EXCEPT ![a.name] = a.id]
    <3> SUFFICES ASSUME NEW d \in Client, NEW h \in holds[d]
                 PROVE  /\ h.epoch <= epoch[h.name]
                        /\ h.epoch = epoch[h.name] => lock'[h.name] = h.id
      BY <1>2 DEF HolderIsInKey
    <3>1. h.name \in Name /\ h.epoch \in Nat /\ epoch[a.name] \in Nat
      BY <1>1 DEF IInv, TypeOK, Held
    <3>2. h.name = a.name => h.epoch < epoch[a.name]
      BY <1>1, <2>2, FreeKeyHasNoHolder
    <3>3. h.name # a.name => lock'[h.name] = lock[h.name]
      BY <2>2, <3>1 DEF IInv, TypeOK
    <3> QED BY <3>1, <3>2, <3>3 DEF IInv, HolderIsInKey
  <2> QED BY <1>2, <2>1, <2>2
<1> QED
  BY <1>2, <1>4, <1>5, <1>6 DEF IInv, OneHolderPerTerm

\* A key that the script deletes is that of the lock that is given up.
LEMMA ReleaseHolds ==
  ASSUME IInv, NEW c \in Client, NEW released \in SUBSET holds[c], ReleaseMultiple(c, released)
  PROVE  IInv'
PROOF
<1>1. /\ UNCHANGED <<serial, trying, epoch>>
      /\ \A d \in Client : holds'[d] \in SUBSET holds[d]
      /\ holds'[c] = holds[c] \ released
      /\ holds' \in [Client -> SUBSET Held]
  BY DEF ReleaseMultiple, IInv, TypeOK
<1>2. /\ lock' \in [Name -> Id \cup {Free}]
      /\ ttl' \subseteq Name
      /\ \A n \in Name : lock'[n] # lock[n] => \E h \in released : h.name = n /\ h.id = lock[n]
  BY DEF ReleaseMultiple, Deleted, IInv, TypeOK
<1>3. TypeOK'
  BY <1>1, <1>2 DEF IInv, TypeOK
<1>4. IdsAreFresh'
  BY <1>1 DEF IInv, IdsAreFresh
<1>5. HolderIsInKey'
  <2> SUFFICES ASSUME NEW d \in Client, NEW g \in holds'[d]
               PROVE  /\ g.epoch <= epoch[g.name]
                      /\ g.epoch = epoch[g.name] => lock'[g.name] = g.id
    BY <1>1 DEF HolderIsInKey
  <2>1. g \in holds[d] /\ g.name \in Name
    BY <1>1 DEF IInv, TypeOK, Held
  <2>2. ASSUME g.epoch = epoch[g.name], lock'[g.name] # lock[g.name]
        PROVE  FALSE
    <3>1. PICK h \in released : h.name = g.name /\ h.id = lock[g.name]
      BY <1>2, <2>1, <2>2
    <3>2. h \in holds[c] /\ h.id = g.id
      BY <2>1, <2>2, <3>1 DEF IInv, HolderIsInKey
    <3>3. c = d
      BY <2>1, <3>2 DEF IInv, IdsAreFresh
    <3>4. h = g
      BY <2>1, <3>2, <3>3 DEF IInv, IdsAreFresh
    <3> QED BY <1>1, <3>1, <3>3, <3>4
  <2> QED BY <2>1, <2>2 DEF IInv, HolderIsInKey
<1>6. OneHolderPerTerm'
  BY <1>1 DEF IInv, OneHolderPerTerm
<1> QED BY <1>3, <1>4, <1>5, <1>6 DEF IInv

\* An expiry starts a new term, to which no holder belongs yet.
LEMMA ExpireHolds ==
  ASSUME IInv, NEW n \in Name, Expire(n)
  PROVE  IInv'
PROOF
<1>1. /\ lock' = [lock EXCEPT ![n] = Free]
      /\ epoch' = [epoch EXCEPT ![n] = @ + 1]
      /\ ttl' = ttl \ {n}
      /\ UNCHANGED <<serial, trying, holds>>
  BY DEF Expire
<1>2. TypeOK'
  BY <1>1 DEF IInv, TypeOK
<1>3. HolderIsInKey'
  <2> SUFFICES ASSUME NEW d \in Client, NEW h \in holds[d]
               PROVE  /\ h.epoch <= epoch'[h.name]
                      /\ h.epoch = epoch'[h.name] => lock'[h.name] = h.id
    BY <1>1 DEF HolderIsInKey
  <2>1. h.name \in Name /\ h.epoch \in Nat /\ epoch[n] \in Nat /\ h.epoch <= epoch[h.name]
    BY DEF IInv, TypeOK, Held, HolderIsInKey
  <2>2. CASE h.name = n
    <3>1. epoch'[h.name] = epoch[n] + 1
      BY <1>1, <2>1, <2>2 DEF IInv, TypeOK
    <3> QED BY <2>1, <2>2, <3>1
  <2>3. CASE h.name # n
    <3>1. epoch'[h.name] = epoch[h.name] /\ lock'[h.name] = lock[h.name]
      BY <1>1, <2>1, <2>3 DEF IInv, TypeOK
    <3> QED BY <3>1 DEF IInv, HolderIsInKey
  <2> QED BY <2>2, <2>3
<1> QED
  BY <1>1, <1>2, <1>3 DEF IInv, IdsAreFresh, OneHolderPerTerm

\* A client that dies only forgets.
LEMMA CrashHolds ==
  ASSUME IInv, NEW c \in Client, Crash(c)
  PROVE  IInv'
  BY DEF Crash, IInv, TypeOK, IdsAreFresh, HolderIsInKey, OneHolderPerTerm

\* Every step keeps the invariant.
LEMMA NextHolds == IInv /\ [Next]_vars => IInv'
PROOF
<1> SUFFICES ASSUME IInv, [Next]_vars
             PROVE  IInv'
  OBVIOUS
<1>1. CASE \E c \in Client, n \in Name : Acquire(c, n)
  BY <1>1, AcquireHolds
<1>2. CASE \E c \in Client : TryAcquire(c)
  BY <1>2, SetIfAbsentHolds, AttemptHolds DEF TryAcquire
<1>3. CASE \E c \in Client : GiveUp(c)
  <2>1. PICK c \in Client : GiveUp(c)
    BY <1>3
  <2>2. \E released \in SUBSET holds[c] : ReleaseMultiple(c, released)
    BY <2>1 DEF GiveUp, Release
  <2> QED BY <2>2, ReleaseHolds
<1>4. CASE \E c \in Client : Crash(c)
  BY <1>4, CrashHolds
<1>5. CASE \E n \in Name : Expire(n)
  BY <1>5, ExpireHolds
<1>6. CASE UNCHANGED vars
  BY <1>6 DEF vars, IInv, TypeOK, IdsAreFresh, HolderIsInKey, OneHolderPerTerm
<1> QED BY <1>1, <1>2, <1>3, <1>4, <1>5, <1>6 DEF Next

LEMMA InvariantHolds == Spec => []IInv
  BY InitHolds, NextHolds, PTL DEF Spec

\* Keys, identifiers, attempts and holders stay of their types, whatever is lost.
THEOREM LocksAreTyped == Spec => []TypeOK
PROOF
<1>1. IInv => TypeOK
  BY DEF IInv
<1> QED BY <1>1, InvariantHolds, PTL

\* Between two expiries of a lock at most one client believes that it holds it
\* (acquire's SET NX and the comparing script of release).
THEOREM OneHolder == Spec => []OneHolderPerTerm
PROOF
<1>1. IInv => OneHolderPerTerm
  BY DEF IInv
<1> QED BY <1>1, InvariantHolds, PTL

\* A step that takes a key from a client that believes it holds it is the
\* expiry, or a step of that client itself.
LEMMA NobodyIsRobbed ==
  ASSUME IInv, [Next]_vars, NEW n \in Name, NEW c \in Client, NEW h \in holds[c],
         h.name = n, h.id = lock[n], lock'[n] # lock[n]
  PROVE  epoch'[n] # epoch[n] \/ holds'[c] # holds[c]
PROOF
<1>1. h.id \in Id /\ lock[n] # Free
  BY FreeAssumption DEF IInv, TypeOK, Held, Id
<1>2. CASE \E d \in Client, m \in Name : Acquire(d, m)
  BY <1>2 DEF Acquire
<1>3. CASE \E d \in Client : TryAcquire(d)
  <2>1. PICK d \in Client : \E a \in trying[d] : SetIfAbsent(d, a) \/ SetAgain(d, a) \/ SetFails(d, a)
    BY <1>3 DEF TryAcquire
  <2> QED BY <1>1, <2>1 DEF SetIfAbsent, SetAgain, SetNX, SetFails, IInv, TypeOK, Attempt
<1>4. CASE \E d \in Client : GiveUp(d)
  <2>1. PICK d \in Client : \E released \in SUBSET holds[d] : ReleaseMultiple(d, released)
    BY <1>4 DEF GiveUp, Release
  <2> PICK released \in SUBSET holds[d] : ReleaseMultiple(d, released)
    BY <2>1
  <2>2. PICK g \in released : g.name = n /\ g.id = lock[n]
    BY <2>1 DEF ReleaseMultiple, Deleted, IInv, TypeOK
  <2>3. d = c
    BY <2>1, <2>2 DEF IInv, IdsAreFresh
  <2>4. g \in holds[c] /\ g \notin holds'[c]
    BY <2>1, <2>2, <2>3 DEF ReleaseMultiple, IInv, TypeOK
  <2> QED BY <2>4
<1>5. CASE \E d \in Client : Crash(d)
  BY <1>5 DEF Crash
<1>6. CASE \E m \in Name : Expire(m)
  <2>1. PICK m \in Name : Expire(m)
    BY <1>6
  <2>2. m = n /\ epoch[n] \in Nat
    BY <2>1 DEF Expire, IInv, TypeOK
  <2>3. epoch'[n] = epoch[n] + 1
    BY <2>1, <2>2 DEF Expire, IInv, TypeOK
  <2> QED BY <2>2, <2>3
<1>7. CASE UNCHANGED vars
  BY <1>7 DEF vars
<1> QED BY <1>2, <1>3, <1>4, <1>5, <1>6, <1>7 DEF Next

\* The release of a holder whose lock has expired does not touch the lock of
\* the next one (the script of release compares before it deletes).
THEOREM ReleaseComparesFirst == Spec => HoldersAreNotRobbed
PROOF
<1>1. IInv /\ [Next]_vars
        => [\A n \in Name, c \in Client :
              (\E h \in holds[c] : h.name = n /\ h.id = lock[n]) /\ lock'[n] # lock[n]
                => epoch'[n] # epoch[n] \/ holds'[c] # holds[c]]_vars
  BY NobodyIsRobbed
<1> QED BY <1>1, InvariantHolds, PTL DEF Spec, HoldersAreNotRobbed

================================================================================
