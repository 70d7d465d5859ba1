----------------------------- MODULE LookupsProofs -----------------------------
(***************************************************************************)
(* Proofs about the lookups, for any users, limits and intervals and any   *)
(* finite number of lookups.                                               *)
(***************************************************************************)
EXTENDS Lookups, FiniteSetTheorems, TLAPS

-----------------------------------------------------------------------------
(* The inductive invariant.                                                *)

Pending(i) == rec[i] # None /\ rec[i].status = "pending"
Starting(i) == life # None /\ life.op = "start" /\ life.id = i
Removing(u) == life # None /\ life.op = "remove" /\ life.user = u

\* A worker fills the record of its own user; a pending record waits for its worker,
\* which is there, about to start, or given up with the whole user or server; only a
\* cancelled worker returns without publishing, and it is cancelled only when its
\* record is gone or given up.
Served(i) ==
    /\ worker[i] # None /\ rec[i] # None => worker[i].user = rec[i].user
    /\ Pending(i) => worker[i] # None \/ stopped \/ Starting(i) \/ Removing(rec[i].user)
    /\ worker[i] # None /\ worker[i].ctx = "cancelled" =>
          rec[i] = None \/ stopped \/ Removing(worker[i].user)
    /\ worker[i] # None /\ worker[i].pc = "return" => ~Pending(i) \/ worker[i].ctx = "cancelled"

\* A start that holds lookupLifecycleMu has inserted its record and no worker yet.
Inserted ==
    life # None /\ life.op = "start" =>
        /\ life.id \in Id /\ rec[life.id] # None /\ worker[life.id] = None
        /\ rec[life.id].user = life.user

IInv ==
    /\ TypeOK /\ SlotsAreWorkers /\ RetainedIsBounded
    /\ Inserted /\ \A i \in Id : Served(i)

-----------------------------------------------------------------------------
(* What the actions do to the workers and to the records.                  *)

\* The workers stay, with their users; only those in S may have been cancelled.
Stay(S) ==
    /\ worker' \in [Id -> Worker \cup {None}]
    /\ \A i \in Id : worker'[i] = None <=> worker[i] = None
    /\ \A i \in Id : worker[i] # None => worker'[i].user = worker[i].user
    /\ \A i \in Id : worker[i] # None => worker'[i].pc = worker[i].pc
    /\ \A i \in Id : worker[i] # None /\ worker'[i].ctx = "cancelled" =>
                      worker[i].ctx = "cancelled" \/ i \in S
    /\ \A i \in Id : worker[i] # None /\ worker[i].ctx = "cancelled" => worker'[i].ctx = "cancelled"

LEMMA CancelEffect ==
  ASSUME TypeOK, NEW S, worker' = Cancelled(S)
  PROVE  Stay(S)
<1>1. ASSUME NEW i \in Id, worker[i] # None
      PROVE  LET x == [worker[i] EXCEPT !.ctx = "cancelled"]
             IN  /\ x \in Worker /\ x # None /\ x.ctx = "cancelled"
                 /\ x.user = worker[i].user /\ x.pc = worker[i].pc
  BY <1>1, NoneAssumption DEF TypeOK, Worker
<1>2. worker' \in [Id -> Worker \cup {None}]
  BY <1>1 DEF TypeOK, Cancelled
<1>3. ASSUME NEW i \in Id
      PROVE  /\ worker'[i] = None <=> worker[i] = None
             /\ worker[i] # None => worker'[i].user = worker[i].user /\ worker'[i].pc = worker[i].pc
             /\ worker[i] # None /\ worker'[i].ctx = "cancelled" => worker[i].ctx = "cancelled" \/ i \in S
             /\ worker[i] # None /\ worker[i].ctx = "cancelled" => worker'[i].ctx = "cancelled"
  BY <1>1 DEF Cancelled
<1>4. QED
  BY <1>2, <1>3 DEF Stay

\* One worker goes on, and the others are left alone.
Goes(i, pc, ctx) ==
    /\ worker' \in [Id -> Worker \cup {None}]
    /\ \A j \in Id \ {i} : worker'[j] = worker[j]
    /\ worker'[i] # None /\ worker'[i].user = worker[i].user
    /\ worker'[i].pc = pc /\ worker'[i].ctx = ctx

LEMMA GoEffect ==
  ASSUME TypeOK, NEW i \in Id, worker[i] # None,
         NEW pc \in {"begin", "read", "success", "failed", "return"},
         worker' = [worker EXCEPT ![i].pc = pc]
  PROVE  Goes(i, pc, worker[i].ctx)
<1> DEFINE x == [worker[i] EXCEPT !.pc = pc]
<1>1. /\ x \in Worker /\ x # None /\ x.pc = pc
      /\ x.user = worker[i].user /\ x.ctx = worker[i].ctx
  BY NoneAssumption DEF TypeOK, Worker
<1>2. worker' = [worker EXCEPT ![i] = x]
  OBVIOUS
<1> HIDE DEF x
<1>3. QED
  BY <1>1, <1>2 DEF TypeOK, Goes

LEMMA ExpireEffect ==
  ASSUME TypeOK, NEW i \in Id, worker[i] # None, worker' = [worker EXCEPT ![i].ctx = "expired"]
  PROVE  Goes(i, worker[i].pc, "expired")
<1> DEFINE x == [worker[i] EXCEPT !.ctx = "expired"]
<1>1. /\ x \in Worker /\ x # None /\ x.ctx = "expired"
      /\ x.user = worker[i].user /\ x.pc = worker[i].pc
  BY NoneAssumption DEF TypeOK, Worker
<1>2. worker' = [worker EXCEPT ![i] = x]
  OBVIOUS
<1> HIDE DEF x
<1>3. QED
  BY <1>1, <1>2 DEF TypeOK, Goes

\* A record that is published stays that of its user and is no longer pending.
Published(i) ==
    /\ rec' \in [Id -> Record \cup {None}]
    /\ \A j \in Id \ {i} : rec'[j] = rec[j]
    /\ rec'[i] = None <=> rec[i] = None
    /\ rec[i] # None => rec'[i].user = rec[i].user /\ rec'[i].status # "pending"

LEMMA PublishEffect ==
  ASSUME TypeOK, NEW i \in Id, publish(i)
  PROVE  Published(i)
<1>1. CASE rec[i] = None
  BY <1>1 DEF publish, TypeOK, Published
<1>2. CASE rec[i] # None
  <2> DEFINE st == worker[i].pc
             x == [rec[i] EXCEPT !.status = st, !.updated = now]
  <2>1. st \in {"success", "failed"} /\ now \in 0..MaxTime /\ rec[i] \in Record
    BY <1>2 DEF publish, TypeOK
  <2>2. rec' = [rec EXCEPT ![i] = x]
    BY <1>2 DEF publish
  <2> HIDE DEF st
  <2>3. x \in Record /\ x.user = rec[i].user /\ x.status = st
    BY <2>1 DEF Record
  <2> HIDE DEF x
  <2>4. x # None
    BY <2>3, NoneAssumption
  <2>5. QED
    BY <1>2, <2>1, <2>2, <2>3, <2>4 DEF TypeOK, Published
<1>3. QED
  BY <1>1, <1>2

\* The record of a start, and of the others what the cleaning and the eviction leave.
Begun(u, i) ==
    \E S \in Evictions(Cleaned, u) :
        /\ rec' \in [Id -> Record \cup {None}]
        /\ rec'[i] # None /\ rec'[i].user = u /\ rec'[i].status = "pending"
        /\ \A j \in Id \ {i} : rec'[j] = IF j \in S \/ Expired(j) THEN None ELSE rec[j]

LEMMA StartEffect ==
  ASSUME TypeOK, NEW u \in User, NEW i \in Id, startLookup(u, i)
  PROVE  Begun(u, i)
<1> DEFINE x == [user |-> u, status |-> "pending", started |-> now, updated |-> now]
<1>1. x \in Record /\ x.user = u /\ x.status = "pending"
  BY DEF TypeOK, Record
<1>2. PICK S \in Evictions(Cleaned, u) :
        rec' = [j \in Id |-> IF j = i THEN x ELSE IF j \in S THEN None ELSE Cleaned[j]]
  BY DEF startLookup
<1> HIDE DEF x
<1>3. x # None
  BY <1>1, NoneAssumption
<1>4. rec' \in [Id -> Record \cup {None}]
  BY <1>1, <1>2 DEF Cleaned, TypeOK
<1>5. rec'[i] = x /\ \A j \in Id \ {i} : rec'[j] = IF j \in S \/ Expired(j) THEN None ELSE rec[j]
  BY <1>2 DEF Cleaned
<1>6. QED
  BY <1>1, <1>3, <1>4, <1>5 DEF Begun

-----------------------------------------------------------------------------
(* The steps keep the invariant.                                           *)

\* The types.
LEMMA TypeStep ==
  ASSUME TypeOK, Inserted, SlotsAreWorkers, [Next]_vars
  PROVE  TypeOK'
<1>1. CASE Tick
  BY <1>1, LimitAssumption DEF Tick, TypeOK
<1>2. CASE cleanupLookups
  <2>1. Stay({i \in Id : Expired(i)})
    BY <1>2, CancelEffect DEF cleanupLookups
  <2>2. rec' \in [Id -> Record \cup {None}]
    BY <1>2 DEF cleanupLookups, Cleaned, TypeOK
  <2>3. QED
    BY <1>2, <2>1, <2>2 DEF cleanupLookups, Stay, TypeOK
<1>3. ASSUME NEW u \in User, NEW i \in Id, startLookup(u, i)
      PROVE  TypeOK'
  <2>1. Stay({j \in Id : Expired(j)}) /\ Begun(u, i)
    BY <1>3, CancelEffect, StartEffect DEF startLookup
  <2>2. life' \in Holder
    BY <1>3 DEF startLookup, Holder
  <2>3. QED
    BY <1>3, <2>1, <2>2 DEF startLookup, Stay, Begun, TypeOK
<1>4. CASE startWorker
  <2>1. life.user \in User /\ life.id \in Id
    BY <1>4 DEF startWorker, TypeOK, Holder, Inserted
  <2>2. [user |-> life.user, ctx |-> "ok", pc |-> "begin"] \in Worker
    BY <2>1 DEF Worker
  <2>3. CASE canStart(life.user)
    <3>1. pending' \in [User -> 0..MaxPending]
      BY <1>4, <2>1, <2>3, LimitAssumption DEF startWorker, canStart, TypeOK
    <3>2. worker' \in [Id -> Worker \cup {None}]
      BY <1>4, <2>1, <2>2, <2>3 DEF startWorker, TypeOK
    <3>3. QED
      BY <1>4, <2>3, <3>1, <3>2 DEF startWorker, TypeOK
  <2>4. CASE ~canStart(life.user)
    BY <1>4, <2>1, <2>4 DEF startWorker, TypeOK
  <2>5. QED
    BY <2>3, <2>4
<1>5. ASSUME NEW u \in User, removeCancel(u)
      PROVE  TypeOK'
  <2>1. Stay(WorkersOf(u))
    BY <1>5, CancelEffect DEF removeCancel
  <2>2. life' \in Holder
    BY <1>5 DEF removeCancel, Holder
  <2>3. QED
    BY <1>5, <2>1, <2>2 DEF removeCancel, Stay, TypeOK
<1>6. CASE removeRecords
  BY <1>6, LimitAssumption DEF removeRecords, TypeOK
<1>7. CASE stopRuntime
  <2>1. Stay(Id)
    BY <1>7, CancelEffect DEF stopRuntime
  <2>2. QED
    BY <1>7, <2>1 DEF stopRuntime, Stay, TypeOK
<1>8. ASSUME NEW i \in Id, deadline(i)
      PROVE  TypeOK'
  <2>1. Goes(i, worker[i].pc, "expired")
    BY <1>8, ExpireEffect DEF deadline
  <2>2. QED
    BY <1>8, <2>1 DEF deadline, Goes, TypeOK
<1>9. ASSUME NEW i \in Id, begin(i)
      PROVE  TypeOK'
  <2>1. PICK pc \in {"read", "return"} : worker' = [worker EXCEPT ![i].pc = pc]
    BY <1>9 DEF begin
  <2>2. Goes(i, pc, worker[i].ctx)
    BY <1>9, <2>1, GoEffect DEF begin
  <2>3. QED
    BY <1>9, <2>2 DEF begin, Goes, TypeOK
<1>10. ASSUME NEW i \in Id, read(i)
      PROVE  TypeOK'
  <2>1. PICK pc \in {"success", "failed", "return"} : worker' = [worker EXCEPT ![i].pc = pc]
    BY <1>10 DEF read
  <2>2. Goes(i, pc, worker[i].ctx)
    BY <1>10, <2>1, GoEffect DEF read
  <2>3. QED
    BY <1>10, <2>2 DEF read, Goes, TypeOK
<1>11. ASSUME NEW i \in Id, publish(i)
      PROVE  TypeOK'
  <2>1. Goes(i, "return", worker[i].ctx) /\ Published(i)
    BY <1>11, GoEffect, PublishEffect DEF publish
  <2>2. QED
    BY <1>11, <2>1 DEF publish, Goes, Published, TypeOK
<1>12. ASSUME NEW i \in Id, return(i)
      PROVE  TypeOK'
  <2>1. worker[i].user \in User
    BY <1>12 DEF return, TypeOK, Worker
  <2>2. pending[worker[i].user] \in 1..MaxPending
    <3>1. i \in WorkersOf(worker[i].user)
      BY <1>12 DEF return, WorkersOf
    <3>2. IsFiniteSet(WorkersOf(worker[i].user))
      BY LimitAssumption, FS_Subset DEF WorkersOf
    <3>3. Cardinality(WorkersOf(worker[i].user)) # 0
      BY <3>1, <3>2, FS_EmptySet
    <3>4. QED
      BY <2>1, <3>3, LimitAssumption DEF SlotsAreWorkers, TypeOK
  <2>3. pending' \in [User -> 0..MaxPending]
    BY <1>12, <2>1, <2>2, LimitAssumption DEF return, TypeOK
  <2>4. QED
    BY <1>12, <2>3 DEF return, TypeOK
<1>13. CASE UNCHANGED vars
  BY <1>13 DEF vars, TypeOK
<1>14. QED
  BY <1>1, <1>2, <1>3, <1>4, <1>5, <1>6, <1>7, <1>8, <1>9, <1>10, <1>11, <1>12, <1>13 DEF Next, Work

\* There are finitely many workers,
LEMMA FiniteWorkers == \A u : IsFiniteSet(WorkersOf(u))
  BY LimitAssumption, FS_Subset DEF WorkersOf

\* and they are the same when all of them stay with their users.
LEMMA SameWorkers ==
  ASSUME \A i \in Id : worker'[i] = None <=> worker[i] = None,
         \A i \in Id : worker[i] # None => worker'[i].user = worker[i].user
  PROVE  \A u \in User : WorkersOf(u)' = WorkersOf(u)
  BY DEF WorkersOf

\* Every worker has one slot, from its start to its return.
LEMMA SlotsStep ==
  ASSUME TypeOK, Inserted, SlotsAreWorkers, [Next]_vars
  PROVE  SlotsAreWorkers'
<1>1. CASE Tick
  BY <1>1 DEF Tick, SlotsAreWorkers, WorkersOf
<1>2. CASE cleanupLookups
  <2>1. Stay({i \in Id : Expired(i)})
    BY <1>2, CancelEffect DEF cleanupLookups
  <2>2. QED
    BY <1>2, <2>1, SameWorkers DEF cleanupLookups, Stay, SlotsAreWorkers
<1>3. ASSUME NEW u \in User, NEW i \in Id, startLookup(u, i)
      PROVE  SlotsAreWorkers'
  <2>1. Stay({j \in Id : Expired(j)}) /\ Begun(u, i)
    BY <1>3, CancelEffect, StartEffect DEF startLookup
  <2>2. QED
    BY <1>3, <2>1, SameWorkers DEF startLookup, Stay, SlotsAreWorkers
<1>4. CASE startWorker
  <2>1. PICK v \in User, k \in Id : v = life.user /\ k = life.id /\ worker[k] = None
    BY <1>4 DEF startWorker, TypeOK, Holder, Inserted
  <2> DEFINE x == [user |-> v, ctx |-> "ok", pc |-> "begin"]
  <2>2. x \in Worker /\ x.user = v
    BY DEF Worker
  <2>3. CASE canStart(v)
    <3>1. worker' = [worker EXCEPT ![k] = x] /\ pending' = [pending EXCEPT ![v] = @ + 1]
      BY <1>4, <2>1, <2>3 DEF startWorker
    <3> HIDE DEF x
    <3>2. x # None
      BY <2>2, NoneAssumption
    <3>3. WorkersOf(v)' = WorkersOf(v) \cup {k} /\ k \notin WorkersOf(v)
      BY <2>1, <2>2, <3>1, <3>2 DEF WorkersOf, TypeOK
    <3>4. Cardinality(WorkersOf(v)') = Cardinality(WorkersOf(v)) + 1
      BY <3>3, FiniteWorkers, FS_AddElement
    <3>5. ASSUME NEW u \in User \ {v}
          PROVE  WorkersOf(u)' = WorkersOf(u) /\ pending'[u] = pending[u]
      BY <2>1, <2>2, <3>1, <3>2 DEF WorkersOf, TypeOK
    <3>6. pending'[v] = pending[v] + 1 /\ pending[v] + 1 <= MaxPending
      BY <2>3, <3>1, LimitAssumption DEF canStart, TypeOK
    <3>7. QED
      BY <3>4, <3>5, <3>6 DEF SlotsAreWorkers
  <2>4. CASE ~canStart(v)
    BY <1>4, <2>1, <2>4, SameWorkers DEF startWorker, SlotsAreWorkers
  <2>5. QED
    BY <2>3, <2>4
<1>5. ASSUME NEW u \in User, removeCancel(u)
      PROVE  SlotsAreWorkers'
  <2>1. Stay(WorkersOf(u))
    BY <1>5, CancelEffect DEF removeCancel
  <2>2. QED
    BY <1>5, <2>1, SameWorkers DEF removeCancel, Stay, SlotsAreWorkers
<1>6. CASE removeRecords
  BY <1>6 DEF removeRecords, SlotsAreWorkers, WorkersOf
<1>7. CASE stopRuntime
  <2>1. Stay(Id)
    BY <1>7, CancelEffect DEF stopRuntime
  <2>2. QED
    BY <1>7, <2>1, SameWorkers DEF stopRuntime, Stay, SlotsAreWorkers
<1>8. ASSUME NEW i \in Id, deadline(i)
      PROVE  SlotsAreWorkers'
  <2>1. Goes(i, worker[i].pc, "expired")
    BY <1>8, ExpireEffect DEF deadline
  <2>2. QED
    BY <1>8, <2>1, SameWorkers DEF deadline, Goes, SlotsAreWorkers
<1>9. ASSUME NEW i \in Id, begin(i)
      PROVE  SlotsAreWorkers'
  <2>1. \E pc \in {"read", "return"} : Goes(i, pc, worker[i].ctx)
    BY <1>9, GoEffect DEF begin
  <2>2. QED
    BY <1>9, <2>1, SameWorkers DEF begin, Goes, SlotsAreWorkers
<1>10. ASSUME NEW i \in Id, read(i)
      PROVE  SlotsAreWorkers'
  <2>1. \E pc \in {"success", "failed", "return"} : Goes(i, pc, worker[i].ctx)
    BY <1>10, GoEffect DEF read
  <2>2. QED
    BY <1>10, <2>1, SameWorkers DEF read, Goes, SlotsAreWorkers
<1>11. ASSUME NEW i \in Id, publish(i)
      PROVE  SlotsAreWorkers'
  <2>1. Goes(i, "return", worker[i].ctx) /\ Published(i)
    BY <1>11, GoEffect, PublishEffect DEF publish
  <2>2. QED
    BY <1>11, <2>1, SameWorkers DEF publish, Goes, SlotsAreWorkers
<1>12. ASSUME NEW i \in Id, return(i)
      PROVE  SlotsAreWorkers'
  <2>1. PICK v \in User : v = worker[i].user /\ worker[i] # None
    BY <1>12 DEF return, TypeOK, Worker
  <2>2. worker' = [worker EXCEPT ![i] = None] /\ pending' = [pending EXCEPT ![v] = @ - 1]
    BY <1>12, <2>1 DEF return
  <2>3. WorkersOf(v)' = WorkersOf(v) \ {i} /\ i \in WorkersOf(v)
    BY <2>1, <2>2 DEF WorkersOf, TypeOK
  <2>4. \A u \in User \ {v} : WorkersOf(u)' = WorkersOf(u)
    BY <2>1, <2>2 DEF WorkersOf, TypeOK
  <2>5. Cardinality(WorkersOf(v)') = Cardinality(WorkersOf(v)) - 1
    BY <2>3, FiniteWorkers, FS_RemoveElement
  <2>6. pending[v] \in 0..MaxPending /\ pending'[v] = pending[v] - 1
    BY <2>1, <2>2 DEF TypeOK
  <2>7. \A u \in User \ {v} : pending'[u] = pending[u]
    BY <2>1, <2>2 DEF TypeOK
  <2>8. QED
    BY <2>1, <2>4, <2>5, <2>6, <2>7, LimitAssumption DEF SlotsAreWorkers
<1>13. CASE UNCHANGED vars
  BY <1>13 DEF vars, SlotsAreWorkers, WorkersOf
<1>14. QED
  BY <1>1, <1>2, <1>3, <1>4, <1>5, <1>6, <1>7, <1>8, <1>9, <1>10, <1>11, <1>12, <1>13 DEF Next, Work

\* Fewer records are no more than before.
LEMMA FewerRecords ==
  ASSUME RetainedIsBounded,
         \A i \in Id : rec'[i] # None => rec[i] # None /\ rec'[i].user = rec[i].user
  PROVE  RetainedIsBounded'
<1>1. ASSUME NEW u \in User
      PROVE  Cardinality(RecordsOf(rec, u)') <= MaxRetained
  <2>1. RecordsOf(rec, u)' \subseteq RecordsOf(rec, u) /\ IsFiniteSet(RecordsOf(rec, u))
    BY LimitAssumption, FS_Subset DEF RecordsOf
  <2>2. /\ Cardinality(RecordsOf(rec, u)') <= Cardinality(RecordsOf(rec, u))
        /\ Cardinality(RecordsOf(rec, u)') \in Nat /\ Cardinality(RecordsOf(rec, u)) \in Nat
    BY <2>1, FS_Subset, FS_CardinalityType
  <2>3. QED
    BY <2>2, LimitAssumption DEF RetainedIsBounded
<1>2. QED
  BY <1>1 DEF RetainedIsBounded

\* Room is made before a record is inserted.
LEMMA RetainedStep ==
  ASSUME TypeOK, Inserted, RetainedIsBounded, [Next]_vars
  PROVE  RetainedIsBounded'
<1>1. CASE Tick
  BY <1>1 DEF Tick, RetainedIsBounded, RecordsOf
<1>2. CASE cleanupLookups
  BY <1>2, FewerRecords DEF cleanupLookups, Cleaned
<1>3. ASSUME NEW u \in User, NEW i \in Id, startLookup(u, i)
      PROVE  RetainedIsBounded'
  <2>1. PICK S \in Evictions(Cleaned, u) :
          /\ rec'[i] # None /\ rec'[i].user = u
          /\ \A j \in Id \ {i} : rec'[j] = IF j \in S \/ Expired(j) THEN None ELSE rec[j]
    BY <1>3, StartEffect DEF Begun
  <2> DEFINE own == RecordsOf(Cleaned, u)
  <2>2. /\ S \subseteq own
        /\ \/ Cardinality(own) - Cardinality(S) = MaxRetained - 1
           \/ Cardinality(own) < MaxRetained /\ S = {}
    BY DEF Evictions
  <2>3. i \notin own
    BY <1>3 DEF startLookup, RecordsOf, Cleaned
  <2>4. RecordsOf(rec, u)' = (own \ S) \cup {i}
    BY <2>1 DEF RecordsOf, Cleaned
  <2>5. IsFiniteSet(own)
    BY LimitAssumption, FS_Subset DEF RecordsOf
  <2> HIDE DEF own
  <2>6. IsFiniteSet(S) /\ IsFiniteSet(own \ S)
    BY <2>2, <2>5, FS_Subset
  <2>7. Cardinality(own \ S) = Cardinality(own) - Cardinality(S)
    <3>1. own \cap S = S
      BY <2>2
    <3>2. QED
      BY <2>5, <2>6, <3>1, FS_Difference
  <2>8. Cardinality((own \ S) \cup {i}) = Cardinality(own \ S) + 1
    BY <2>3, <2>6, FS_AddElement
  <2>9. /\ Cardinality(own) \in Nat /\ Cardinality(S) \in Nat
        /\ MaxRetained \in Nat /\ (S = {} => Cardinality(S) = 0)
    BY <2>5, <2>6, FS_CardinalityType, FS_EmptySet, LimitAssumption
  <2>10. Cardinality(RecordsOf(rec, u)') <= MaxRetained
    BY <2>2, <2>4, <2>7, <2>8, <2>9
  <2>11. ASSUME NEW v \in User \ {u}
         PROVE  Cardinality(RecordsOf(rec, v)') <= MaxRetained
    <3>1. RecordsOf(rec, v)' \subseteq RecordsOf(rec, v) /\ IsFiniteSet(RecordsOf(rec, v))
      BY <2>1, LimitAssumption, FS_Subset DEF RecordsOf
    <3>2. /\ Cardinality(RecordsOf(rec, v)') <= Cardinality(RecordsOf(rec, v))
          /\ Cardinality(RecordsOf(rec, v)') \in Nat /\ Cardinality(RecordsOf(rec, v)) \in Nat
      BY <3>1, FS_Subset, FS_CardinalityType
    <3>3. QED
      BY <3>2, LimitAssumption DEF RetainedIsBounded
  <2>12. QED
    BY <2>10, <2>11 DEF RetainedIsBounded
<1>4. CASE startWorker
  <2>1. life.id \in Id
    BY <1>4 DEF startWorker, Inserted
  <2>2. QED
    BY <1>4, <2>1, FewerRecords DEF startWorker, TypeOK
<1>5. ASSUME NEW u \in User, removeCancel(u)
      PROVE  RetainedIsBounded'
  BY <1>5 DEF removeCancel, RetainedIsBounded, RecordsOf
<1>6. CASE removeRecords
  BY <1>6, FewerRecords DEF removeRecords, Cleaned
<1>7. CASE stopRuntime
  BY <1>7 DEF stopRuntime, RetainedIsBounded, RecordsOf
<1>8. ASSUME NEW i \in Id, deadline(i)
      PROVE  RetainedIsBounded'
  BY <1>8 DEF deadline, RetainedIsBounded, RecordsOf
<1>9. ASSUME NEW i \in Id, begin(i)
      PROVE  RetainedIsBounded'
  BY <1>9 DEF begin, RetainedIsBounded, RecordsOf
<1>10. ASSUME NEW i \in Id, read(i)
      PROVE  RetainedIsBounded'
  BY <1>10 DEF read, RetainedIsBounded, RecordsOf
<1>11. ASSUME NEW i \in Id, publish(i)
      PROVE  RetainedIsBounded'
  <2>1. Goes(i, "return", worker[i].ctx) /\ Published(i)
    BY <1>11, GoEffect, PublishEffect DEF publish
  <2>2. QED
    BY <2>1, FewerRecords DEF Published
<1>12. ASSUME NEW i \in Id, return(i)
      PROVE  RetainedIsBounded'
  BY <1>12 DEF return, RetainedIsBounded, RecordsOf
<1>13. CASE UNCHANGED vars
  BY <1>13 DEF vars, RetainedIsBounded, RecordsOf
<1>14. QED
  BY <1>1, <1>2, <1>3, <1>4, <1>5, <1>6, <1>7, <1>8, <1>9, <1>10, <1>11, <1>12, <1>13 DEF Next, Work

\* Nobody else touches the record of a start that holds lookupLifecycleMu.
LEMMA InsertedStep ==
  ASSUME TypeOK, Inserted, [Next]_vars
  PROVE  Inserted'
<1>1. CASE Tick
  BY <1>1, LimitAssumption DEF Tick, Inserted
<1>2. CASE cleanupLookups
  BY <1>2, LimitAssumption DEF cleanupLookups, Inserted
<1>3. ASSUME NEW u \in User, NEW i \in Id, startLookup(u, i)
      PROVE  Inserted'
  <2>1. Stay({j \in Id : Expired(j)}) /\ Begun(u, i)
    BY <1>3, CancelEffect, StartEffect DEF startLookup
  <2>2. /\ life' = [op |-> "start", user |-> u, id |-> i] /\ worker[i] = None
    BY <1>3 DEF startLookup
  <2>3. QED
    BY <2>1, <2>2 DEF Stay, Begun, Inserted
<1>4. CASE startWorker
  BY <1>4, LimitAssumption DEF startWorker, Inserted
<1>5. ASSUME NEW u \in User, removeCancel(u)
      PROVE  Inserted'
  BY <1>5 DEF removeCancel, Inserted
<1>6. CASE removeRecords
  BY <1>6, LimitAssumption DEF removeRecords, Inserted
<1>7. CASE stopRuntime
  <2>1. Stay(Id)
    BY <1>7, CancelEffect DEF stopRuntime
  <2>2. QED
    BY <1>7, <2>1 DEF stopRuntime, Stay, Inserted
<1>8. ASSUME NEW i \in Id, deadline(i)
      PROVE  Inserted'
  <2>1. Goes(i, worker[i].pc, "expired")
    BY <1>8, ExpireEffect DEF deadline
  <2>2. worker[i] # None /\ life' = life /\ rec' = rec
    BY <1>8 DEF deadline
  <2>3. QED
    BY <2>1, <2>2 DEF Goes, Inserted
<1>9. ASSUME NEW i \in Id, begin(i)
      PROVE  Inserted'
  <2>1. \E pc \in {"read", "return"} : Goes(i, pc, worker[i].ctx)
    BY <1>9, GoEffect DEF begin
  <2>2. worker[i] # None /\ life' = life /\ rec' = rec
    BY <1>9 DEF begin
  <2>3. QED
    BY <2>1, <2>2 DEF Goes, Inserted
<1>10. ASSUME NEW i \in Id, read(i)
      PROVE  Inserted'
  <2>1. \E pc \in {"success", "failed", "return"} : Goes(i, pc, worker[i].ctx)
    BY <1>10, GoEffect DEF read
  <2>2. worker[i] # None /\ life' = life /\ rec' = rec
    BY <1>10 DEF read
  <2>3. QED
    BY <2>1, <2>2 DEF Goes, Inserted
<1>11. ASSUME NEW i \in Id, publish(i)
      PROVE  Inserted'
  <2>1. Goes(i, "return", worker[i].ctx) /\ Published(i)
    BY <1>11, GoEffect, PublishEffect DEF publish
  <2>2. worker[i] # None /\ life' = life
    BY <1>11 DEF publish
  <2>3. QED
    BY <2>1, <2>2 DEF Goes, Published, Inserted
<1>12. ASSUME NEW i \in Id, return(i)
      PROVE  Inserted'
  BY <1>12 DEF return, Inserted, TypeOK
<1>13. CASE UNCHANGED vars
  BY <1>13 DEF vars, Inserted
<1>14. QED
  BY <1>1, <1>2, <1>3, <1>4, <1>5, <1>6, <1>7, <1>8, <1>9, <1>10, <1>11, <1>12, <1>13 DEF Next, Work

\* A pending record keeps its worker until it is published or given up.
LEMMA ServedStep ==
  ASSUME TypeOK, Inserted, \A i \in Id : Served(i), [Next]_vars
  PROVE  \A j \in Id : Served(j)'
<1>1. CASE Tick
  BY <1>1 DEF Tick, Served, Pending, Starting, Removing
<1>2. CASE cleanupLookups
  <2>1. Stay({i \in Id : Expired(i)})
    BY <1>2, CancelEffect DEF cleanupLookups
  <2>2. ASSUME NEW j \in Id
        PROVE  Served(j)'
    <3>1. Served(j) /\ rec'[j] = (IF Expired(j) THEN None ELSE rec[j]) /\ life' = life /\ stopped' = stopped
      BY <1>2 DEF cleanupLookups, Cleaned
    <3>2. QED
      BY <2>1, <3>1 DEF Stay, Served, Pending, Starting, Removing
  <2>3. QED
    BY <2>2
<1>3. ASSUME NEW u \in User, NEW i \in Id, startLookup(u, i)
      PROVE  \A j \in Id : Served(j)'
  <2>1. Stay({j \in Id : Expired(j)}) /\ Begun(u, i)
    BY <1>3, CancelEffect, StartEffect DEF startLookup
  <2>2. /\ life = None /\ life' = [op |-> "start", user |-> u, id |-> i]
        /\ worker[i] = None /\ stopped' = stopped
    BY <1>3 DEF startLookup
  <2>3. life'.op = "start" /\ life'.id = i /\ life' # None
    BY <2>2, NoneAssumption DEF Holder
  <2>4. Served(i)'
    BY <2>1, <2>2, <2>3 DEF Stay, Served, Pending, Starting, Removing
  <2>5. ASSUME NEW j \in Id \ {i}
        PROVE  Served(j)'
    <3>1. Served(j) /\ rec'[j] \in {None, rec[j]} /\ (Expired(j) => rec'[j] = None)
      BY <2>1 DEF Begun
    <3>2. QED
      BY <2>1, <2>2, <3>1 DEF Stay, Served, Pending, Starting, Removing
  <2>6. QED
    BY <2>4, <2>5
<1>4. CASE startWorker
  <2>1. PICK v \in User, k \in Id :
          /\ v = life.user /\ k = life.id /\ rec[k] # None /\ worker[k] = None
          /\ rec[k].user = v /\ life.op = "start" /\ life' = None /\ stopped' = stopped
    BY <1>4 DEF startWorker, TypeOK, Holder, Inserted
  <2> DEFINE x == [user |-> v, ctx |-> "ok", pc |-> "begin"]
  <2>2. x \in Worker /\ x.user = v /\ x.ctx = "ok" /\ x.pc = "begin"
    BY DEF Worker
  <2>3. canStart(v) => worker' = [worker EXCEPT ![k] = x] /\ rec' = rec
    BY <1>4, <2>1 DEF startWorker
  <2>4. ~canStart(v) => worker' = worker /\ rec' = [rec EXCEPT ![k] = None]
    BY <1>4, <2>1 DEF startWorker
  <2> HIDE DEF x
  <2>5. ASSUME NEW j \in Id \ {k}
        PROVE  Served(j)'
    <3>1. Served(j) /\ rec'[j] = rec[j] /\ worker'[j] = worker[j]
      BY <2>3, <2>4 DEF TypeOK
    <3>2. QED
      BY <2>1, <3>1 DEF Served, Pending, Starting, Removing
  <2>6. Served(k)'
    <3>1. x # None
      BY <2>2, NoneAssumption
    <3>2. CASE canStart(v)
      <4>1. rec'[k] = rec[k] /\ worker'[k] = x
        BY <2>3, <3>2 DEF TypeOK
      <4>2. QED
        BY <2>1, <2>2, <3>1, <4>1 DEF Served
    <3>3. CASE ~canStart(v)
      BY <2>1, <2>4, <3>3 DEF TypeOK, Served, Pending
    <3>4. QED
      BY <3>2, <3>3
  <2>7. QED
    BY <2>5, <2>6
<1>5. ASSUME NEW u \in User, removeCancel(u)
      PROVE  \A j \in Id : Served(j)'
  <2>1. Stay(WorkersOf(u))
    BY <1>5, CancelEffect DEF removeCancel
  <2>2. /\ life = None /\ life' = [op |-> "remove", user |-> u, id |-> None]
        /\ rec' = rec /\ stopped' = stopped
    BY <1>5 DEF removeCancel
  <2>3. life'.op = "remove" /\ life'.user = u /\ life' # None
    BY <2>2, NoneAssumption DEF Holder
  <2>4. ASSUME NEW j \in Id
        PROVE  Served(j)'
    BY <2>1, <2>2, <2>3 DEF Stay, WorkersOf, Served, Pending, Starting, Removing
  <2>5. QED
    BY <2>4
<1>6. CASE removeRecords
  <2>1. /\ life.op = "remove" /\ life' = None /\ worker' = worker /\ stopped' = stopped
        /\ WorkersOf(life.user) = {}
    BY <1>6 DEF removeRecords
  <2>2. ASSUME NEW j \in Id
        PROVE  Served(j)'
    <3>1. /\ Served(j) /\ rec'[j] \in {None, rec[j]}
          /\ rec[j] # None /\ rec[j].user = life.user => rec'[j] = None
          /\ worker[j] = None \/ worker[j].user # life.user
      BY <1>6, <2>1 DEF removeRecords, RecordsOf, WorkersOf
    <3>2. QED
      BY <2>1, <3>1 DEF Served, Pending, Starting, Removing
  <2>3. QED
    BY <2>2
<1>7. CASE stopRuntime
  <2>1. Stay(Id)
    BY <1>7, CancelEffect DEF stopRuntime
  <2>2. stopped' = TRUE /\ rec' = rec /\ life' = life
    BY <1>7 DEF stopRuntime
  <2>3. ASSUME NEW j \in Id
        PROVE  Served(j)'
    BY <2>1, <2>2 DEF Stay, Served, Pending
  <2>4. QED
    BY <2>3
<1>8. ASSUME NEW i \in Id, deadline(i)
      PROVE  \A j \in Id : Served(j)'
  <2>1. Goes(i, worker[i].pc, "expired")
    BY <1>8, ExpireEffect DEF deadline
  <2>2. worker[i] # None /\ worker[i].ctx = "ok" /\ rec' = rec /\ life' = life /\ stopped' = stopped
    BY <1>8 DEF deadline
  <2>3. ASSUME NEW j \in Id
        PROVE  Served(j)'
    BY <2>1, <2>2 DEF Goes, Served, Pending, Starting, Removing
  <2>4. QED
    BY <2>3
<1>9. ASSUME NEW i \in Id, begin(i)
      PROVE  \A j \in Id : Served(j)'
  <2>1. \E pc \in {"read", "return"} : Goes(i, pc, worker[i].ctx) /\ (pc = "return" => rec[i] = None)
    BY <1>9, GoEffect DEF begin
  <2>2. worker[i] # None /\ rec' = rec /\ life' = life /\ stopped' = stopped
    BY <1>9 DEF begin
  <2>3. ASSUME NEW j \in Id
        PROVE  Served(j)'
    BY <2>1, <2>2 DEF Goes, Served, Pending, Starting, Removing
  <2>4. QED
    BY <2>3
<1>10. ASSUME NEW i \in Id, read(i)
      PROVE  \A j \in Id : Served(j)'
  <2>1. \E pc \in {"success", "failed", "return"} :
          Goes(i, pc, worker[i].ctx) /\ (pc = "return" => worker[i].ctx = "cancelled")
    BY <1>10, GoEffect DEF read
  <2>2. worker[i] # None /\ worker[i].pc = "read" /\ rec' = rec /\ life' = life /\ stopped' = stopped
    BY <1>10 DEF read
  <2>3. ASSUME NEW j \in Id
        PROVE  Served(j)'
    BY <2>1, <2>2 DEF Goes, Served, Pending, Starting, Removing
  <2>4. QED
    BY <2>3
<1>11. ASSUME NEW i \in Id, publish(i)
      PROVE  \A j \in Id : Served(j)'
  <2>1. Goes(i, "return", worker[i].ctx) /\ Published(i)
    BY <1>11, GoEffect, PublishEffect DEF publish
  <2>2. worker[i] # None /\ life' = life /\ stopped' = stopped
    BY <1>11 DEF publish
  <2>3. Served(i)'
    BY <2>1, <2>2 DEF Goes, Published, Served, Pending, Starting, Removing
  <2>4. ASSUME NEW j \in Id \ {i}
        PROVE  Served(j)'
    BY <2>1, <2>2 DEF Goes, Published, Served, Pending, Starting, Removing
  <2>5. QED
    BY <2>3, <2>4
<1>12. ASSUME NEW i \in Id, return(i)
      PROVE  \A j \in Id : Served(j)'
  <2>1. /\ worker[i] # None /\ worker[i].pc = "return" /\ rec' = rec /\ life' = life /\ stopped' = stopped
        /\ worker'[i] = None /\ \A j \in Id \ {i} : worker'[j] = worker[j]
    BY <1>12 DEF return, TypeOK
  <2>2. ASSUME NEW j \in Id
        PROVE  Served(j)'
    BY <2>1 DEF Served, Pending, Starting, Removing
  <2>3. QED
    BY <2>2
<1>13. CASE UNCHANGED vars
  BY <1>13 DEF vars, Served, Pending, Starting, Removing
<1>14. QED
  BY <1>1, <1>2, <1>3, <1>4, <1>5, <1>6, <1>7, <1>8, <1>9, <1>10, <1>11, <1>12, <1>13 DEF Next, Work

-----------------------------------------------------------------------------
(* The theorems.                                                           *)

LEMMA InitIInv == Init => IInv
<1> SUFFICES ASSUME Init
             PROVE  IInv
  OBVIOUS
<1>1. TypeOK
  <2>1. stopped \in BOOLEAN
    BY DEF Init
  <2>2. QED
    BY <2>1, LimitAssumption DEF Init, TypeOK
<1>2. \A u \in User : WorkersOf(u) = {} /\ RecordsOf(rec, u) = {}
  BY DEF Init, WorkersOf, RecordsOf
<1>3. SlotsAreWorkers /\ RetainedIsBounded
  BY <1>2, FS_EmptySet, LimitAssumption DEF Init, SlotsAreWorkers, RetainedIsBounded
<1>4. Inserted /\ \A i \in Id : Served(i)
  BY DEF Init, Inserted, Served, Pending
<1>5. QED
  BY <1>1, <1>3, <1>4 DEF IInv

LEMMA NextIInv == IInv /\ [Next]_vars => IInv'
<1> SUFFICES ASSUME IInv, [Next]_vars
             PROVE  IInv'
  OBVIOUS
<1>1. TypeOK' /\ SlotsAreWorkers' /\ RetainedIsBounded' /\ Inserted'
  BY TypeStep, SlotsStep, RetainedStep, InsertedStep DEF IInv
<1>2. \A i \in Id : Served(i)'
  BY ServedStep DEF IInv
<1>3. QED
  BY <1>1, <1>2 DEF IInv

LEMMA AlwaysIInv == Spec => []IInv
  BY InitIInv, NextIInv, PTL DEF Spec

\* For any limits: a slot is that of exactly one worker, whatever way it ends; nobody
\* keeps more lookups than allowed; and a client that polls a pending lookup polls one
\* somebody is working on (lookupRuntime.start, makeLookupRoomLocked).
THEOREM LookupsAreServed == Spec => []LookupInv
<1>1. IInv => LookupInv
  BY DEF IInv, LookupInv, PendingHasWorker, Inserted, Served, Pending, Starting, Removing
<1>2. QED
  BY <1>1, AlwaysIInv, PTL

\* For any limits: room is never made at the expense of a pending lookup, and when
\* removeLookupsForUser has returned neither a record nor a worker is left.
THEOREM LookupsAreKeptUntilRemoved == Spec => KeptUntilRemoved
<1>1. ASSUME IInv, Next
      PROVE  /\ \A i \in Id : rec[i] # None /\ rec[i].status = "pending" /\ rec'[i] = None =>
                   Expired(i) \/ (life # None /\ life.user = rec[i].user)
             /\ \A u \in User : life # None /\ life.op = "remove" /\ life.user = u /\ life' = None =>
                   RecordsOf(rec', u) = {} /\ WorkersOf(u)' = {}
  <2> DEFINE Keeps == \A j \in Id : Pending(j) /\ rec'[j] = None =>
                         Expired(j) \/ (life # None /\ life.user = rec[j].user)
             Removes == \A v \in User :
                 life # None /\ life.op = "remove" /\ life.user = v /\ life' = None =>
                    RecordsOf(rec', v) = {} /\ WorkersOf(v)' = {}
  <2>1. TypeOK /\ Inserted
    BY <1>1 DEF IInv
  <2>2. ASSUME Tick
        PROVE  Keeps /\ Removes
    BY <2>1, <2>2 DEF Tick, Pending
  <2>3. ASSUME cleanupLookups
        PROVE  Keeps /\ Removes
    BY <2>1, <2>3 DEF cleanupLookups, Cleaned, Pending
  <2>4. ASSUME NEW u \in User, NEW i \in Id, startLookup(u, i)
        PROVE  Keeps /\ Removes
    <3>1. Begun(u, i) /\ life = None /\ rec[i] = None
      BY <2>1, <2>4, StartEffect DEF startLookup
    <3>2. PICK S \in Evictions(Cleaned, u) :
            \A j \in Id \ {i} : rec'[j] = IF j \in S \/ Expired(j) THEN None ELSE rec[j]
      BY <3>1 DEF Begun
    <3>3. \A j \in S : Cleaned[j] # None /\ Cleaned[j].status # "pending" /\ j \in Id
      BY DEF Evictions, RecordsOf
    <3>4. Keeps
      BY <3>1, <3>2, <3>3 DEF Cleaned, Pending
    <3>5. QED
      BY <3>1, <3>4
  <2>5. ASSUME startWorker
        PROVE  Keeps /\ Removes
    BY <2>1, <2>5 DEF startWorker, Inserted, TypeOK, Pending
  <2>6. ASSUME NEW u \in User, removeCancel(u)
        PROVE  Keeps /\ Removes
    BY <2>1, <2>6 DEF removeCancel, Pending
  <2>7. ASSUME removeRecords
        PROVE  Keeps /\ Removes
    BY <2>1, <2>7 DEF removeRecords, RecordsOf, WorkersOf, Pending
  <2>8. ASSUME stopRuntime
        PROVE  Keeps /\ Removes
    BY <2>1, <2>8 DEF stopRuntime, Pending
  <2>9. ASSUME NEW i \in Id, deadline(i)
        PROVE  Keeps /\ Removes
    BY <2>1, <2>9 DEF deadline, Pending
  <2>10. ASSUME NEW i \in Id, begin(i)
        PROVE  Keeps /\ Removes
    BY <2>1, <2>10 DEF begin, Pending
  <2>11. ASSUME NEW i \in Id, read(i)
        PROVE  Keeps /\ Removes
    BY <2>1, <2>11 DEF read, Pending
  <2>12. ASSUME NEW i \in Id, publish(i)
        PROVE  Keeps /\ Removes
    <3>1. Published(i) /\ life' = life
      BY <2>1, <2>12, PublishEffect DEF publish
    <3>2. QED
      BY <3>1 DEF Published, Pending
  <2>13. ASSUME NEW i \in Id, return(i)
        PROVE  Keeps /\ Removes
    BY <2>1, <2>13 DEF return, Pending
  <2>14. Keeps /\ Removes
    BY <1>1, <2>2, <2>3, <2>4, <2>5, <2>6, <2>7, <2>8, <2>9, <2>10, <2>11, <2>12, <2>13 DEF Next, Work
  <2>15. QED
    BY <2>14 DEF Pending
<1>2. IInv /\ [Next]_vars =>
        /\ [\A i \in Id : rec[i] # None /\ rec[i].status = "pending" /\ rec'[i] = None =>
               Expired(i) \/ (life # None /\ life.user = rec[i].user)]_vars
        /\ [\A u \in User : life # None /\ life.op = "remove" /\ life.user = u /\ life' = None =>
               RecordsOf(rec', u) = {} /\ WorkersOf(u)' = {}]_vars
  BY <1>1
<1>3. QED
  BY <1>2, AlwaysIInv, PTL DEF Spec, KeptUntilRemoved, PendingIsKept, RemovalIsComplete

=============================================================================
