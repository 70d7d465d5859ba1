--------------------------- MODULE ScanQueueProofs ---------------------------
(***************************************************************************)
(* Proofs about ScanQueue: its type invariant, that at most one goroutine  *)
(* runs the queue, that no wake-up is lost, that the active batch and the  *)
(* queue agree with the map of batches, and that the queue implements the  *)
(* service of ScanService, for every set of batches, users and goroutines  *)
(* and every bound on the targets.                                         *)
(***************************************************************************)
EXTENDS QueueService, FiniteSetTheorems, SequenceTheorems, TLAPS

-----------------------------------------------------------------------------
(* The inductive invariant.                                                *)

Alive == {r \in Runner : pc[r] # "idle"}

\* The flag tells whether a goroutine is alive, and it is set whenever there
\* is something to do.
FlagTellsTruth ==
    /\ queueRunnerActive <=> Alive # {}
    /\ queuedBatchIDs # <<>> => queueRunnerActive

\* Where the goroutine is determines what is active.
PhaseOfRunner ==
    /\ \A r \in Runner :
          /\ pc[r] \in Scheduling => activeBatchID = None
          /\ pc[r] \in Running => activeBatchID = picked[r]
          /\ pc[r] \in {"check", "note", "activate"} \cup Running => picked[r] \in Batch
    /\ activeBatchID # None => \E r \in Runner : pc[r] \in Running

\* A batch that waits has counted nothing yet.
WaitingIsUntouched ==
    \A b \in Batch : batches[b] # None /\ b # activeBatchID =>
        /\ batches[b].status = "queued"
        /\ batches[b].completed = 0
        /\ batches[b].jobs = 0
        /\ batches[b].failed = 0
        /\ batches[b].threats = 0

\* What the active batch has counted, at every point of runBatch.
LoopCounts(r, b) ==
    /\ b.status # "queued"
    /\ b.message \notin {"Queued", "LockWait"}
    /\ b.failed <= b.completed
    /\ b.threats <= b.completed
    /\ pc[r] = "snapshot" => b.completed = 0 /\ b.jobs = 0
    /\ pc[r] \in {"snapshot", "target", "wait"} => b.status = "running"
    /\ pc[r] \in {"target", "wait"} => b.completed + left[r] = b.targets
    /\ pc[r] = "wait" => /\ left[r] > 0
                         /\ b.completed + (IF gotJob[r] THEN 1 ELSE 0) <= b.jobs + b.failed
                         /\ b.jobs <= b.completed + (IF gotJob[r] THEN 1 ELSE 0)
    /\ pc[r] # "wait" => /\ b.completed <= b.jobs + b.failed
                         /\ b.jobs <= b.completed
    /\ pc[r] = "finish" => /\ b.completed = b.targets
                           /\ b.status = IF b.failed > 0 THEN "failed" ELSE "finished"

ActiveCounts ==
    \A r \in Runner : pc[r] \in Running =>
        batches[picked[r]] # None /\ LoopCounts(r, batches[picked[r]])

IInv ==
    /\ TypeOK
    /\ OneRunner
    /\ FlagTellsTruth
    /\ PhaseOfRunner
    /\ QueueMatchesMap
    /\ WaitingIsUntouched
    /\ ActiveCounts

-----------------------------------------------------------------------------
(* The operations on the slice of queued ids.                              *)

\* Removing one position of a slice shifts the positions after it.
LEMMA RemoveAtIs ==
  ASSUME NEW S, NEW q \in Seq(S), NEW i \in DOMAIN q
  PROVE  /\ RemoveAt(q, i) \in Seq(S)
         /\ DOMAIN RemoveAt(q, i) = 1..(Len(q) - 1)
         /\ \A k \in 1..(Len(q) - 1) : RemoveAt(q, i)[k] = IF k < i THEN q[k] ELSE q[k + 1]
<1> DEFINE front == SubSeq(q, 1, i-1)
           back == SubSeq(q, i+1, Len(q))
<1>1. i \in 1..Len(q) /\ Len(q) \in Nat
  OBVIOUS
<1>2. /\ front \in Seq(S) /\ Len(front) = i - 1
      /\ \A k \in 1..(i-1) : front[k] = q[k]
  BY <1>1, SubSeqProperties
<1>3. /\ back \in Seq(S) /\ Len(back) = Len(q) - i
      /\ \A k \in 1..(Len(q) - i) : back[k] = q[i + k]
  BY <1>1, SubSeqProperties
<1>4. /\ front \o back \in Seq(S)
      /\ Len(front \o back) = Len(q) - 1
      /\ \A k \in 1..(Len(q) - 1) :
            (front \o back)[k] = IF k <= i - 1 THEN front[k] ELSE back[k - (i - 1)]
  <2>1. /\ front \o back \in Seq(S)
        /\ Len(front \o back) = Len(front) + Len(back)
        /\ \A k \in 1..(Len(front) + Len(back)) : (front \o back)[k] =
              IF k <= Len(front) THEN front[k] ELSE back[k - Len(front)]
    BY <1>2, <1>3, ConcatProperties, Zenon
  <2>2. Len(front) = i - 1 /\ Len(front) + Len(back) = Len(q) - 1
    <3> HIDE DEF front, back
    <3>1. QED
      BY <1>1, <1>2, <1>3
  <2>3. QED
    BY <2>1, <2>2, Zenon
<1>5. ASSUME NEW k \in 1..(Len(q) - 1)
      PROVE  (front \o back)[k] = IF k < i THEN q[k] ELSE q[k + 1]
  <2> HIDE DEF front, back
  <2>1. CASE k < i
    BY <1>1, <1>2, <1>4, <2>1
  <2>2. CASE ~(k < i)
    <3>1. k - (i - 1) \in 1..(Len(q) - i) /\ i + (k - (i - 1)) = k + 1
      BY <1>1, <2>2
    <3>2. QED
      <4>1. (front \o back)[k] = back[k - (i - 1)]
        BY <1>1, <1>4, <2>2
      <4>2. back[k - (i - 1)] = q[i + (k - (i - 1))]
        BY <1>3, <3>1
      <4>3. QED
        BY <2>2, <3>1, <4>1, <4>2
  <2>3. QED
    BY <2>1, <2>2
<1>6. RemoveAt(q, i) = front \o back
  BY DEF RemoveAt
<1> DEFINE r == RemoveAt(q, i)
<1>7. /\ r \in Seq(S)
      /\ DOMAIN r = 1..(Len(q) - 1)
      /\ \A k \in DOMAIN r : r[k] = IF k < i THEN q[k] ELSE q[k + 1]
  <2>1. r = front \o back
    BY <1>6
  <2> HIDE DEF front, back, r
  <2>2. r \in Seq(S) /\ Len(r) = Len(q) - 1
    BY <1>4, <2>1
  <2>3. DOMAIN r = 1..(Len(q) - 1)
    BY <2>2
  <2>4. QED
    BY <1>5, <2>1, <2>2, <2>3
<1>8. QED
  BY <1>7

\* Removing one position of a slice without duplicates removes its id.
LEMMA RemoveAtFacts ==
  ASSUME NEW S, NEW q \in Seq(S), NEW i \in DOMAIN q, IsInjective(q)
  PROVE  /\ RemoveAt(q, i) \in Seq(S)
         /\ IsInjective(RemoveAt(q, i))
         /\ Range(RemoveAt(q, i)) = Range(q) \ {q[i]}
<1> DEFINE r == RemoveAt(q, i)
<1>1. i \in 1..Len(q) /\ Len(q) \in Nat
  OBVIOUS
<1>7. /\ r \in Seq(S)
      /\ DOMAIN r = 1..(Len(q) - 1)
      /\ \A k \in DOMAIN r : r[k] = IF k < i THEN q[k] ELSE q[k + 1]
  BY RemoveAtIs
<1> HIDE DEF r
<1>8. IsInjective(r)
  BY <1>1, <1>7 DEF IsInjective
<1>9. ASSUME NEW x \in Range(r) PROVE x \in Range(q) \ {q[i]}
  <2>1. PICK k \in DOMAIN r : r[k] = x
    BY DEF Range
  <2>2. PICK j \in DOMAIN q : j # i /\ q[j] = x
    <3>1. CASE k < i
      BY <1>1, <1>7, <2>1, <3>1
    <3>2. CASE ~(k < i)
      <4>1. k + 1 \in DOMAIN q /\ k + 1 # i /\ r[k] = q[k + 1]
        BY <1>1, <1>7, <3>2
      <4>2. QED
        BY <2>1, <4>1
    <3>3. QED
      BY <3>1, <3>2
  <2>3. QED
    BY <2>2 DEF IsInjective, Range
<1>10. ASSUME NEW x \in Range(q) \ {q[i]} PROVE x \in Range(r)
  <2>1. PICK k \in DOMAIN q : q[k] = x
    BY DEF Range
  <2>2. k # i
    BY <2>1
  <2>3. CASE k < i
    BY <1>1, <1>7, <2>1, <2>3 DEF Range
  <2>4. CASE k > i
    <3>1. k - 1 \in DOMAIN r /\ r[k - 1] = q[k]
      BY <1>1, <1>7, <2>4
    <3>2. QED
      BY <2>1, <3>1 DEF Range
  <2>5. QED
    BY <1>1, <2>2, <2>3, <2>4
<1>11. QED
  BY <1>7, <1>8, <1>9, <1>10 DEF r

\* Appending a new id.
LEMMA AppendFacts ==
  ASSUME NEW S, NEW q \in Seq(S), NEW x \in S, x \notin Range(q), IsInjective(q)
  PROVE  /\ Append(q, x) \in Seq(S)
         /\ IsInjective(Append(q, x))
         /\ Range(Append(q, x)) = Range(q) \cup {x}
<1> DEFINE r == Append(q, x)
<1>1. /\ r \in Seq(S) /\ Len(q) \in Nat
      /\ DOMAIN q = 1..Len(q)
      /\ DOMAIN r = 1..(Len(q) + 1)
      /\ \A k \in 1..Len(q) : r[k] = q[k]
      /\ r[Len(q) + 1] = x
  BY AppendProperties
<1> HIDE DEF r
<1>2. Range(r) = Range(q) \cup {x}
  BY <1>1 DEF Range
<1>3. IsInjective(r)
  BY <1>1 DEF Range, IsInjective
<1>4. QED
  BY <1>1, <1>2, <1>3 DEF r

\* An ascending enumeration of a set of positions enumerates all of it.
LEMMA AscendingFacts ==
  ASSUME NEW B, NEW q \in Seq(B), NEW S \in SUBSET DOMAIN q, NEW f \in Ascending(S)
  PROVE  /\ Cardinality(S) \in Nat
         /\ f \in [1..Cardinality(S) -> S]
         /\ \A j, k \in 1..Cardinality(S) : f[j] = f[k] => j = k
         /\ \A i \in S : \E k \in 1..Cardinality(S) : f[k] = i
<1>1. IsFiniteSet(S) /\ Cardinality(S) \in Nat
  <2>1. IsFiniteSet(1..Len(q)) /\ DOMAIN q = 1..Len(q)
    BY FS_Interval
  <2>2. IsFiniteSet(S)
    BY <2>1, FS_Subset
  <2>3. QED
    BY <2>2, FS_CardinalityType
<1>2. f \in [1..Cardinality(S) -> S]
  BY DEF Ascending
<1>3. ASSUME NEW j \in 1..Cardinality(S), NEW k \in 1..Cardinality(S), f[j] = f[k]
      PROVE  j = k
  <2>1. f[j] \in Int /\ f[k] \in Int
    <3>1. S \subseteq Int
      OBVIOUS
    <3>2. QED
      BY <1>2, <3>1
  <2>2. (j < k => f[j] < f[k]) /\ (k < j => f[k] < f[j])
    BY DEF Ascending
  <2>3. j \in Int /\ k \in Int
    BY <1>1
  <2>4. QED
    BY <1>3, <2>1, <2>2, <2>3
<1>4. f \in Injection(1..Cardinality(S), S)
  BY <1>2, <1>3 DEF Injection, IsInjective
<1>5. Cardinality(1..Cardinality(S)) = Cardinality(S)
  BY <1>1, FS_Interval
<1>6. f \in Surjection(1..Cardinality(S), S)
  BY <1>1, <1>4, <1>5, FS_Injection
<1>7. QED
  BY <1>1, <1>2, <1>3, <1>6 DEF Surjection

\* The kept slice holds the ids at the kept positions, and no id twice if the
\* original does not.
LEMMA KeepsFacts ==
  ASSUME NEW B, NEW q \in Seq(B), NEW S \in SUBSET DOMAIN q, NEW kept,
         Keeps(q, S, kept)
  PROVE  /\ kept \in Seq(B)
         /\ Range(kept) = {q[i] : i \in S}
         /\ IsInjective(q) => IsInjective(kept)
<1>1. PICK f \in Ascending(S) : kept = sliceAt(q, f)
  BY DEF Keeps
<1>2. Len(q) \in Nat /\ S \in SUBSET (1..Len(q))
  OBVIOUS
<1>3. /\ Cardinality(S) \in Nat
      /\ f \in [1..Cardinality(S) -> S]
      /\ \A j, k \in 1..Cardinality(S) : f[j] = f[k] => j = k
      /\ \A i \in S : \E k \in 1..Cardinality(S) : f[k] = i
  BY <1>1, <1>2, AscendingFacts
<1>4. \A k \in 1..Cardinality(S) : f[k] \in S /\ q[f[k]] \in B
  BY <1>2, <1>3
<1>6. kept = [k \in 1..Cardinality(S) |-> q[f[k]]]
  BY <1>1, <1>3 DEF sliceAt
<1>5. kept \in Seq(B)
  BY <1>3, <1>4, <1>6
<1> HIDE DEF Keeps
<1>7. Range(kept) = {q[i] : i \in S}
  <2>1. DOMAIN kept = 1..Cardinality(S) /\ \A k \in 1..Cardinality(S) : kept[k] = q[f[k]]
    BY <1>6
  <2>2. ASSUME NEW x \in Range(kept) PROVE x \in {q[i] : i \in S}
    <3>1. PICK k \in 1..Cardinality(S) : x = kept[k]
      BY <2>1, <2>2 DEF Range
    <3>2. f[k] \in S /\ x = q[f[k]]
      BY <1>4, <2>1, <3>1
    <3>3. QED
      BY <3>2
  <2>3. ASSUME NEW i \in S PROVE q[i] \in Range(kept)
    <3>1. PICK k \in 1..Cardinality(S) : f[k] = i
      BY <1>3
    <3>2. kept[k] = q[i]
      BY <2>1, <3>1
    <3>3. QED
      BY <2>1, <3>2 DEF Range
  <2>4. QED
    BY <2>2, <2>3
<1>8. IsInjective(q) => IsInjective(kept)
  BY <1>2, <1>3, <1>4, <1>6 DEF IsInjective
<1>9. QED
  BY <1>5, <1>7, <1>8

\* The position whose element Moved puts at position k.
MovedFrom(k, from, to) ==
    IF k = to THEN from
    ELSE IF from <= k /\ k < to THEN k + 1
    ELSE IF to < k /\ k <= from THEN k - 1
    ELSE k

\* Moving one element of a list is a permutation of its positions.
LEMMA MovedFacts ==
  ASSUME NEW n \in Nat, NEW from \in 1..n, NEW to \in 1..n
  PROVE  /\ \A k \in 1..n : MovedFrom(k, from, to) \in 1..n
         /\ \A j, k \in 1..n : MovedFrom(j, from, to) = MovedFrom(k, from, to) => j = k
         /\ \A m \in 1..n : \E k \in 1..n : MovedFrom(k, from, to) = m
<1>1. \A k \in 1..n : MovedFrom(k, from, to) \in 1..n
  BY DEF MovedFrom
<1>3. \A j, k \in 1..n : MovedFrom(j, from, to) = MovedFrom(k, from, to) => j = k
  BY DEF MovedFrom
<1>4. ASSUME NEW m \in 1..n PROVE \E k \in 1..n : MovedFrom(k, from, to) = m
  <2> DEFINE k == IF m = from THEN to
                  ELSE IF from < m /\ m <= to THEN m - 1
                  ELSE IF to <= m /\ m < from THEN m + 1
                  ELSE m
  <2>1. k \in 1..n /\ MovedFrom(k, from, to) = m
    BY DEF MovedFrom
  <2>2. QED
    BY <2>1
<1>5. QED
  BY <1>1, <1>3, <1>4

\* r is q with the elements at the positions S permuted among themselves.
PermutesWithin(q, S, r) ==
    \E h \in [DOMAIN q -> DOMAIN q] :
        /\ DOMAIN r = DOMAIN q
        /\ \A i \in DOMAIN q : r[i] = q[h[i]]
        /\ \A i, j \in DOMAIN q : h[i] = h[j] => i = j
        /\ \A j \in DOMAIN q : \E i \in DOMAIN q : h[i] = j
        /\ \A i \in DOMAIN q : IF i \in S THEN h[i] \in S ELSE h[i] = i

\* Moving an element of the sub-list at the positions S, and writing the
\* sub-list back, permutes the slice within S.
LEMMA WriteBackFacts ==
  ASSUME NEW B, NEW q \in Seq(B), NEW S \in SUBSET DOMAIN q,
         NEW f \in Ascending(S), NEW from \in DOMAIN f, NEW to \in DOMAIN f
  PROVE  PermutesWithin(q, S, writeBack(q, f, Moved(sliceAt(q, f), from, to)))
<1> DEFINE r == writeBack(q, f, Moved(sliceAt(q, f), from, to))
<1> DEFINE m == Cardinality(S)
           owned == sliceAt(q, f)
           g(k) == MovedFrom(k, from, to)
           pos(i) == CHOOSE k \in DOMAIN f : f[k] = i
           h == [i \in DOMAIN q |-> IF i \in S THEN f[g(pos(i))] ELSE i]
<1>1. /\ m \in Nat /\ DOMAIN f = 1..m
      /\ \A k \in 1..m : f[k] \in S
      /\ \A j, k \in 1..m : f[j] = f[k] => j = k
      /\ \A i \in S : \E k \in 1..m : f[k] = i
  BY AscendingFacts
<1>2. DOMAIN owned = 1..m /\ \A k \in 1..m : owned[k] = q[f[k]]
  BY <1>1 DEF sliceAt
<1> HIDE DEF m, owned, r
<1>3. /\ \A k \in 1..m : g(k) \in 1..m
      /\ \A k \in 1..m : Moved(owned, from, to)[k] = owned[g(k)]
      /\ \A j, k \in 1..m : g(j) = g(k) => j = k
      /\ \A l \in 1..m : \E k \in 1..m : g(k) = l
  <2>1. from \in 1..m /\ to \in 1..m
    BY <1>1
  <2>2. \A k \in 1..m : Moved(owned, from, to)[k] = owned[g(k)]
    BY <1>1, <1>2, <2>1 DEF Moved, MovedFrom
  <2>3. /\ \A k \in 1..m : g(k) \in 1..m
        /\ \A j, k \in 1..m : g(j) = g(k) => j = k
        /\ \A l \in 1..m : \E k \in 1..m : g(k) = l
    BY <1>1, <2>1, MovedFacts, Zenon
  <2>4. QED
    BY <2>2, <2>3
<1> HIDE DEF g
<1>4. \A i \in S : pos(i) \in 1..m /\ f[pos(i)] = i
  BY <1>1
<1> HIDE DEF pos
<1>5. \A k \in 1..m : pos(f[k]) = k
  BY <1>1, <1>4
<1>6. /\ \A i \in S : h[i] = f[g(pos(i))] /\ h[i] \in S
      /\ \A i \in DOMAIN q \ S : h[i] = i
      /\ h \in [DOMAIN q -> DOMAIN q]
  BY <1>1, <1>3, <1>4
<1> HIDE DEF h
<1>7. DOMAIN r = DOMAIN q
  BY DEF writeBack, r
<1>8. ASSUME NEW i \in DOMAIN q PROVE r[i] = q[h[i]]
  <2>1. CASE i \in S
    <3>1. \E k \in DOMAIN f : f[k] = i
      BY <1>1, <2>1
    <3>2. r[i] = Moved(owned, from, to)[pos(i)]
      BY <3>1 DEF writeBack, owned, pos, r
    <3>3. pos(i) \in 1..m /\ g(pos(i)) \in 1..m
      BY <1>3, <1>4, <2>1
    <3>4. Moved(owned, from, to)[pos(i)] = q[f[g(pos(i))]]
      BY <1>2, <1>3, <3>3
    <3>5. QED
      BY <1>6, <2>1, <3>2, <3>4
  <2>2. CASE i \notin S
    <3>1. ~ \E k \in DOMAIN f : f[k] = i
      BY <1>1, <2>2
    <3>2. r[i] = q[i]
      BY <3>1 DEF writeBack, r
    <3>3. QED
      BY <1>6, <2>2, <3>2
  <2>3. QED
    BY <2>1, <2>2
<1>9. ASSUME NEW i \in DOMAIN q, NEW j \in DOMAIN q, h[i] = h[j] PROVE i = j
  <2>1. CASE i \in S /\ j \in S
    <3>1. f[g(pos(i))] = f[g(pos(j))]
      BY <1>6, <1>9, <2>1
    <3>2. pos(i) \in 1..m /\ pos(j) \in 1..m
      BY <1>4, <2>1
    <3>3. pos(i) = pos(j)
      BY <1>1, <1>3, <3>1, <3>2
    <3>4. QED
      BY <1>4, <2>1, <3>3
  <2>2. CASE ~(i \in S /\ j \in S)
    BY <1>6, <1>9, <2>2
  <2>3. QED
    BY <2>1, <2>2
<1>10. ASSUME NEW j \in DOMAIN q PROVE \E i \in DOMAIN q : h[i] = j
  <2>1. CASE j \notin S
    BY <1>6, <2>1
  <2>2. CASE j \in S
    <3>1. PICK k \in 1..m : g(k) = pos(j)
      BY <1>3, <1>4, <2>2
    <3>2. f[k] \in S /\ pos(f[k]) = k
      BY <1>1, <1>5
    <3>3. h[f[k]] = j
      BY <1>4, <1>6, <2>2, <3>1, <3>2
    <3>4. QED
      BY <3>2, <3>3
  <2>3. QED
    BY <2>1, <2>2
<1>11. QED
  BY <1>6, <1>7, <1>8, <1>9, <1>10 DEF PermutesWithin, r

\* A permutation of a slice holds the same ids.
LEMMA PermutesFacts ==
  ASSUME NEW B, NEW q \in Seq(B), NEW S, NEW r, PermutesWithin(q, S, r),
         \E s : r = [i \in DOMAIN q |-> s[i]]
  PROVE  /\ r \in Seq(B)
         /\ DOMAIN r = DOMAIN q
         /\ Range(r) = Range(q)
         /\ IsInjective(q) => IsInjective(r)
<1>1. PICK h \in [DOMAIN q -> DOMAIN q] :
         /\ \A i \in DOMAIN q : r[i] = q[h[i]]
         /\ \A i, j \in DOMAIN q : h[i] = h[j] => i = j
         /\ \A j \in DOMAIN q : \E i \in DOMAIN q : h[i] = j
  BY DEF PermutesWithin
<1>2. DOMAIN r = DOMAIN q /\ r = [i \in DOMAIN q |-> r[i]]
  OBVIOUS
<1>3. \A i \in DOMAIN q : r[i] \in B
  BY <1>1
<1>4. r \in Seq(B)
  BY <1>2, <1>3
<1>5. Range(r) = Range(q)
  BY <1>1, <1>2 DEF Range
<1>6. IsInjective(q) => IsInjective(r)
  BY <1>1, <1>2 DEF IsInjective
<1>7. QED
  BY <1>2, <1>4, <1>5, <1>6

\* A reorder permutes the queue, and only within the slots of its owner.
LEMMA ReorderFacts ==
  ASSUME TypeOK, NEW u, NEW b, NEW n \in Nat \ {0}, reorderQueuedBatch(u, b, n)
  PROVE  PermutesWithin(queuedBatchIDs, slotsOf(u), queuedBatchIDs')
<1> DEFINE m == Cardinality(slotsOf(u))
           to == IF n > m THEN m ELSE n
<1>1. queuedBatchIDs \in Seq(Batch) /\ slotsOf(u) \in SUBSET DOMAIN queuedBatchIDs
  BY DEF TypeOK, slotsOf
<1>2. PICK f \in Ascending(slotsOf(u)) : \E from \in DOMAIN f :
         queuedBatchIDs' = writeBack(queuedBatchIDs, f,
                                     Moved(sliceAt(queuedBatchIDs, f), from, to))
  BY DEF reorderQueuedBatch
<1>3. PICK from \in DOMAIN f :
         queuedBatchIDs' = writeBack(queuedBatchIDs, f,
                                     Moved(sliceAt(queuedBatchIDs, f), from, to))
  BY <1>2
<1>4. f \in Ascending(slotsOf(u))
  BY <1>2
<1>5. m \in Nat /\ DOMAIN f = 1..m
  BY <1>1, <1>4, AscendingFacts
<1>6. to \in DOMAIN f
  BY <1>3, <1>5
<1> HIDE DEF to
<1>7. PermutesWithin(queuedBatchIDs, slotsOf(u),
         writeBack(queuedBatchIDs, f, Moved(sliceAt(queuedBatchIDs, f), from, to)))
  BY <1>1, <1>4, <1>6, WriteBackFacts
<1>8. QED
  BY <1>3, <1>7

-----------------------------------------------------------------------------
(* Preservation of the invariant, action by action.                     *)

\* A request adds a new batch at the end of the queue and starts a goroutine
\* only if none runs.
LEMMA enqueueKeeps ==
  ASSUME IInv, NEW u \in User, NEW b \in Batch, NEW n \in 1..MaxTargets, enqueueBatch(u, b, n)
  PROVE  IInv'
<1> USE NoneAssumption, MaxTargetsAssumption DEF IInv
<1>1. TypeOK'
  <2>1. NewBatch(u, n) \in BatchRecord
    BY DEF NewBatch, BatchRecord, Message
  <2>2. batches' \in [Batch -> BatchRecord \cup {None}]
    BY <2>1 DEF TypeOK, enqueueBatch
  <2>3. queuedBatchIDs' \in Seq(Batch)
    BY DEF TypeOK, enqueueBatch
  <2>4. pc' \in [Runner -> PC] /\ queueRunnerActive' \in BOOLEAN
    BY DEF TypeOK, enqueueBatch, startQueueRunnerLocked, Goto, PC
  <2>5. QED
    BY <2>2, <2>3, <2>4 DEF TypeOK, enqueueBatch
<1>2. OneRunner'
  BY DEF enqueueBatch, startQueueRunnerLocked, Fresh, NewBatch, Goto, TypeOK, OneRunner, FlagTellsTruth, Alive
<1>3. FlagTellsTruth'
  BY DEF enqueueBatch, startQueueRunnerLocked, Fresh, NewBatch, Goto, TypeOK, OneRunner, FlagTellsTruth, Alive
<1>4. PhaseOfRunner'
  BY DEF enqueueBatch, startQueueRunnerLocked, Fresh, NewBatch, Goto, TypeOK, OneRunner, FlagTellsTruth, Alive, PhaseOfRunner, Scheduling, Running
<1>5. QueueMatchesMap'
  <2>1. b \notin Range(queuedBatchIDs) /\ batches[b] = None
    BY DEF enqueueBatch, Fresh, QueueMatchesMap
  <2>2. b # activeBatchID /\ activeBatchID' = activeBatchID
    BY DEF enqueueBatch, Fresh, PhaseOfRunner, Running
  <2>3. queuedBatchIDs \in Seq(Batch) /\ IsInjective(queuedBatchIDs)
    BY DEF TypeOK, QueueMatchesMap
  <2>4. queuedBatchIDs' = Append(queuedBatchIDs, b)
    BY DEF enqueueBatch
  <2>5. /\ IsInjective(queuedBatchIDs')
        /\ Range(queuedBatchIDs') = Range(queuedBatchIDs) \cup {b}
    BY <2>1, <2>3, <2>4, AppendFacts
  <2>6. NewBatch(u, n) # None /\ NewBatch(u, n).status = "queued"
    BY DEF NewBatch, BatchRecord, Message
  <2>7. /\ batches'[b] = NewBatch(u, n)
        /\ \A c \in Batch \ {b} : batches'[c] = batches[c]
    BY DEF TypeOK, enqueueBatch
  <2>8. Range(queuedBatchIDs) \subseteq Batch
    BY <2>3 DEF Range
  <2>9. QED
    BY <2>1, <2>2, <2>5, <2>6, <2>7, <2>8 DEF QueueMatchesMap
<1>6. WaitingIsUntouched'
  BY DEF enqueueBatch, startQueueRunnerLocked, Fresh, NewBatch, Goto, TypeOK, BatchRecord, WaitingIsUntouched, PhaseOfRunner, Running, Scheduling
<1>7. ActiveCounts'
  BY DEF enqueueBatch, startQueueRunnerLocked, Fresh, NewBatch, Goto, TypeOK, BatchRecord, OneRunner, ActiveCounts, LoopCounts, PhaseOfRunner, Running, Scheduling
<1>8. QED
  BY <1>1, <1>2, <1>3, <1>4, <1>5, <1>6, <1>7

\* A reorder permutes the queue and touches nothing else.
LEMMA reorderKeeps ==
  ASSUME IInv, NEW u \in User, NEW b \in Batch, NEW n \in Nat \ {0}, reorderQueuedBatch(u, b, n)
  PROVE  IInv'
<1> USE NoneAssumption, MaxTargetsAssumption DEF IInv
<1>0. /\ queuedBatchIDs' \in Seq(Batch)
      /\ DOMAIN queuedBatchIDs' = DOMAIN queuedBatchIDs
      /\ Range(queuedBatchIDs') = Range(queuedBatchIDs)
      /\ IsInjective(queuedBatchIDs')
  <2>1. queuedBatchIDs \in Seq(Batch) /\ IsInjective(queuedBatchIDs)
    BY DEF TypeOK, QueueMatchesMap
  <2>2. PermutesWithin(queuedBatchIDs, slotsOf(u), queuedBatchIDs')
    BY ReorderFacts
  <2>3. \E s : queuedBatchIDs' = [i \in DOMAIN queuedBatchIDs |-> s[i]]
    BY DEF reorderQueuedBatch, writeBack
  <2>4. QED
    BY <2>1, <2>2, <2>3, PermutesFacts
<1>1. TypeOK'
  BY <1>0 DEF TypeOK, reorderQueuedBatch, runnerVars
<1>2. OneRunner'
  BY DEF reorderQueuedBatch, runnerVars, TypeOK, OneRunner, FlagTellsTruth, Alive
<1>3. FlagTellsTruth'
  <2>1. queuedBatchIDs' # <<>> => queuedBatchIDs # <<>>
    BY <1>0 DEF TypeOK
  <2>2. QED
    BY <2>1 DEF FlagTellsTruth, Alive, reorderQueuedBatch, runnerVars
<1>4. PhaseOfRunner'
  BY DEF reorderQueuedBatch, runnerVars, TypeOK, OneRunner, FlagTellsTruth, Alive, PhaseOfRunner, Scheduling, Running
<1>5. QueueMatchesMap'
  BY <1>0 DEF QueueMatchesMap, reorderQueuedBatch
<1>6. WaitingIsUntouched'
  BY DEF reorderQueuedBatch, runnerVars, TypeOK, BatchRecord, WaitingIsUntouched, PhaseOfRunner, Running, Scheduling
<1>7. ActiveCounts'
  BY DEF reorderQueuedBatch, runnerVars, TypeOK, BatchRecord, OneRunner, ActiveCounts, LoopCounts, PhaseOfRunner, Running, Scheduling
<1>8. QED
  BY <1>1, <1>2, <1>3, <1>4, <1>5, <1>6, <1>7

\* A cancellation takes a waiting batch out of the queue and the map together.
LEMMA cancelKeeps ==
  ASSUME IInv, NEW u \in User, NEW b \in Batch, cancelQueuedBatch(u, b)
  PROVE  IInv'
<1> USE NoneAssumption, MaxTargetsAssumption DEF IInv
<1>0. /\ queuedBatchIDs' \in Seq(Batch)
      /\ IsInjective(queuedBatchIDs')
      /\ Range(queuedBatchIDs') = Range(queuedBatchIDs) \ {b}
      /\ queuedBatchIDs # <<>>
  <2>1. queuedBatchIDs \in Seq(Batch) /\ IsInjective(queuedBatchIDs)
    BY DEF TypeOK, QueueMatchesMap
  <2>2. PICK i \in DOMAIN queuedBatchIDs :
           queuedBatchIDs[i] = b /\ queuedBatchIDs' = RemoveAt(queuedBatchIDs, i)
    BY DEF cancelQueuedBatch
  <2>3. QED
    BY <2>1, <2>2, RemoveAtFacts
<1>1. TypeOK'
  <2>1. batches' \in [Batch -> BatchRecord \cup {None}]
    BY DEF TypeOK, cancelQueuedBatch
  <2>2. QED
    BY <1>0, <2>1 DEF TypeOK, cancelQueuedBatch, runnerVars
<1>2. OneRunner'
  BY DEF cancelQueuedBatch, runnerVars, Owns, TypeOK, OneRunner, FlagTellsTruth, Alive
<1>3. FlagTellsTruth'
  <2>1. queuedBatchIDs # <<>>
    BY <1>0
  <2>2. QED
    BY <2>1 DEF FlagTellsTruth, Alive, cancelQueuedBatch, runnerVars
<1>4. PhaseOfRunner'
  BY DEF cancelQueuedBatch, runnerVars, Owns, TypeOK, OneRunner, FlagTellsTruth, Alive, PhaseOfRunner, Scheduling, Running
<1>5. QueueMatchesMap'
  <2>1. /\ batches'[b] = None /\ b # activeBatchID
        /\ activeBatchID' = activeBatchID
        /\ \A c \in Batch \ {b} : batches'[c] = batches[c]
    BY DEF TypeOK, cancelQueuedBatch
  <2>2. Range(queuedBatchIDs) \subseteq Batch
    BY DEF TypeOK, Range
  <2>3. QED
    BY <1>0, <2>1, <2>2 DEF QueueMatchesMap
<1>6. WaitingIsUntouched'
  BY DEF cancelQueuedBatch, runnerVars, Owns, TypeOK, BatchRecord, WaitingIsUntouched, PhaseOfRunner, Running, Scheduling
<1>7. ActiveCounts'
  BY DEF cancelQueuedBatch, runnerVars, Owns, TypeOK, BatchRecord, OneRunner, ActiveCounts, LoopCounts, PhaseOfRunner, Running, Scheduling
<1>8. QED
  BY <1>1, <1>2, <1>3, <1>4, <1>5, <1>6, <1>7

\* The deletion of a user takes its waiting batches out of the queue and the
\* map, never the active one.
LEMMA dropKeeps ==
  ASSUME IInv, NEW u \in User, dropUserBatches(u)
  PROVE  IInv'
<1> USE NoneAssumption, MaxTargetsAssumption DEF IInv
<1>0. /\ queuedBatchIDs' \in Seq(Batch)
      /\ IsInjective(queuedBatchIDs')
      /\ \A c \in Batch : c \in Range(queuedBatchIDs') <=>
            c \in Range(queuedBatchIDs) /\ ~Owns(u, c)
      /\ \A c \in Batch : batches'[c] =
            IF c \in Range(queuedBatchIDs) /\ Owns(u, c) THEN None ELSE batches[c]
  <2> DEFINE S == DOMAIN queuedBatchIDs \ slotsOf(u)
  <2>1. queuedBatchIDs \in Seq(Batch) /\ IsInjective(queuedBatchIDs)
    BY DEF TypeOK, QueueMatchesMap
  <2>2. Keeps(queuedBatchIDs, S, queuedBatchIDs') /\ S \in SUBSET DOMAIN queuedBatchIDs
    BY DEF dropUserBatches
  <2>3. /\ queuedBatchIDs' \in Seq(Batch) /\ IsInjective(queuedBatchIDs')
        /\ Range(queuedBatchIDs') = {queuedBatchIDs[i] : i \in S}
    BY <2>1, <2>2, KeepsFacts, Zenon
  <2>4. \A c \in Batch : c \in {queuedBatchIDs[i] : i \in S} <=>
           c \in Range(queuedBatchIDs) /\ ~Owns(u, c)
    BY DEF Range, slotsOf
  <2>5. \A c \in Batch : c \in {queuedBatchIDs[i] : i \in slotsOf(u)} <=>
           c \in Range(queuedBatchIDs) /\ Owns(u, c)
    BY DEF Range, slotsOf
  <2>6. \A c \in Batch : batches'[c] =
           IF c \in Range(queuedBatchIDs) /\ Owns(u, c) THEN None ELSE batches[c]
    BY <2>5 DEF dropUserBatches
  <2>7. QED
    BY <2>3, <2>4, <2>6
<1>1. TypeOK'
  <2>1. batches' \in [Batch -> BatchRecord \cup {None}]
    BY DEF TypeOK, dropUserBatches
  <2>2. QED
    BY <1>0, <2>1 DEF TypeOK, dropUserBatches, runnerVars
<1>2. OneRunner'
  BY DEF dropUserBatches, runnerVars, TypeOK, OneRunner, FlagTellsTruth, Alive
<1>3. FlagTellsTruth'
  <2>1. queuedBatchIDs # <<>>
    BY DEF dropUserBatches, slotsOf
  <2>2. QED
    BY <2>1 DEF FlagTellsTruth, Alive, dropUserBatches, runnerVars
<1>4. PhaseOfRunner'
  BY DEF dropUserBatches, runnerVars, TypeOK, OneRunner, FlagTellsTruth, Alive, PhaseOfRunner, Scheduling, Running
<1>5. QueueMatchesMap'
  <2>1. \A c \in Batch : c \in Range(queuedBatchIDs') =>
           c \in Range(queuedBatchIDs) /\ batches'[c] = batches[c]
    BY <1>0
  <2>2. Range(queuedBatchIDs') \subseteq Batch
    BY <1>0 DEF Range
  <2>3. \A c \in Batch : batches'[c] # None =>
           batches[c] # None /\ (c \in Range(queuedBatchIDs) => c \in Range(queuedBatchIDs'))
    BY <1>0
  <2>4. activeBatchID' = activeBatchID
    BY DEF dropUserBatches
  <2>5. QED
    BY <1>0, <2>1, <2>2, <2>3, <2>4 DEF QueueMatchesMap
<1>6. WaitingIsUntouched'
  BY DEF dropUserBatches, runnerVars, TypeOK, BatchRecord, WaitingIsUntouched, PhaseOfRunner, Running, Scheduling
<1>7. ActiveCounts'
  <2>1. UNCHANGED <<pc, picked, left, gotJob>>
    BY DEF dropUserBatches, runnerVars
  <2>2. ASSUME NEW r \in Runner, pc[r] \in Running PROVE batches'[picked[r]] = batches[picked[r]]
    <3>1. picked[r] \in Batch /\ picked[r] = activeBatchID
      BY <2>2 DEF PhaseOfRunner
    <3>2. picked[r] \notin Range(queuedBatchIDs)
      BY <3>1 DEF QueueMatchesMap
    <3>3. QED
      BY <1>0, <3>1, <3>2
  <2>3. QED
    BY <2>1, <2>2 DEF ActiveCounts, LoopCounts
<1>8. QED
  BY <1>1, <1>2, <1>3, <1>4, <1>5, <1>6, <1>7

\* A pick drops no id, since every queued id has a batch.
LEMMA pickKeeps ==
  ASSUME IInv, NEW r \in Runner, NEW u \in User, pickBatch(r, u)
  PROVE  IInv'
<1> USE NoneAssumption, MaxTargetsAssumption DEF IInv
<1>0. /\ queuedBatchIDs' \in Seq(Batch)
      /\ IsInjective(queuedBatchIDs')
      /\ Range(queuedBatchIDs') = Range(queuedBatchIDs)
      /\ queuedBatchIDs # <<>>
      /\ \E b \in Batch : picked' = [picked EXCEPT ![r] = b]
  <2>1. queuedBatchIDs \in Seq(Batch) /\ IsInjective(queuedBatchIDs)
    BY DEF TypeOK, QueueMatchesMap
  <2>2. Keeps(queuedBatchIDs, validSlots, queuedBatchIDs')
    BY DEF pickBatch
  <2>3. validSlots = DOMAIN queuedBatchIDs
    BY DEF validSlots, QueueMatchesMap, Range
  <2>4. /\ queuedBatchIDs' \in Seq(Batch) /\ IsInjective(queuedBatchIDs')
        /\ Range(queuedBatchIDs') = {queuedBatchIDs[i] : i \in DOMAIN queuedBatchIDs}
    BY <2>1, <2>2, <2>3, KeepsFacts, Zenon
  <2>5. Range(queuedBatchIDs') = Range(queuedBatchIDs)
    BY <2>4 DEF Range
  <2>6. PICK i \in slotsOf(u) : picked' = [picked EXCEPT ![r] = queuedBatchIDs[i]]
    BY DEF pickBatch
  <2>7. i \in DOMAIN queuedBatchIDs
    BY <2>6 DEF slotsOf
  <2>8. queuedBatchIDs[i] \in Batch /\ queuedBatchIDs # <<>>
    BY <2>1, <2>7
  <2>9. QED
    BY <2>4, <2>5, <2>6, <2>8
<1>1. TypeOK'
  BY <1>0 DEF TypeOK, pickBatch, Goto, PC
<1>2. OneRunner'
  BY DEF pickBatch, Goto, TypeOK, OneRunner, FlagTellsTruth, Alive
<1>3. FlagTellsTruth'
  <2>1. queuedBatchIDs # <<>>
    BY <1>0
  <2>2. QED
    BY <2>1 DEF TypeOK, FlagTellsTruth, Alive, pickBatch, Goto
<1>4. PhaseOfRunner'
  <2>1. picked'[r] \in Batch /\ pc'[r] = "check" /\ activeBatchID' = activeBatchID
    BY <1>0 DEF TypeOK, pickBatch, Goto
  <2>2. \A s \in Runner \ {r} : pc[s] = "idle" /\ pc'[s] = "idle"
    BY DEF TypeOK, OneRunner, pickBatch, Goto
  <2>3. activeBatchID = None
    BY DEF pickBatch, PhaseOfRunner, Scheduling
  <2>4. QED
    BY <2>1, <2>2, <2>3 DEF PhaseOfRunner, Scheduling, Running
<1>5. QueueMatchesMap'
  BY <1>0 DEF QueueMatchesMap, pickBatch
<1>6. WaitingIsUntouched'
  BY DEF pickBatch, Goto, TypeOK, BatchRecord, WaitingIsUntouched, PhaseOfRunner, Running, Scheduling
<1>7. ActiveCounts'
  BY DEF pickBatch, Goto, TypeOK, BatchRecord, OneRunner, ActiveCounts, LoopCounts, PhaseOfRunner, Running, Scheduling
<1>8. QED
  BY <1>1, <1>2, <1>3, <1>4, <1>5, <1>6, <1>7

\* The last goroutine ends only with an empty queue and clears the flag.
LEMMA exitKeeps ==
  ASSUME IInv, NEW r \in Runner, runnerExits(r)
  PROVE  IInv'
<1> USE NoneAssumption, MaxTargetsAssumption DEF IInv
<1>1. TypeOK'
  BY DEF runnerExits, Goto, TypeOK, PC, BatchRecord, Message
<1>2. OneRunner'
  BY DEF runnerExits, Goto, TypeOK, OneRunner, FlagTellsTruth, Alive
<1>3. FlagTellsTruth'
  <2>1. activeBatchID = None
    BY DEF runnerExits, PhaseOfRunner, Scheduling
  <2>2. queueRunnerActive' = FALSE
    BY <2>1 DEF runnerExits
  <2>3. \A s \in Runner : pc'[s] = "idle"
    BY DEF TypeOK, OneRunner, runnerExits, Goto
  <2>4. QED
    BY <2>2, <2>3 DEF runnerExits, FlagTellsTruth, Alive
<1>4. PhaseOfRunner'
  BY DEF runnerExits, Goto, TypeOK, OneRunner, FlagTellsTruth, Alive, PhaseOfRunner, Scheduling, Running
<1>5. QueueMatchesMap'
  <2>1. Range(queuedBatchIDs) = {}
    BY DEF QueueMatchesMap, Range, runnerExits, validSlots
  <2>2. Range(queuedBatchIDs') = {} /\ IsInjective(queuedBatchIDs')
    BY DEF Range, IsInjective, runnerExits
  <2>3. QED
    BY <2>1, <2>2 DEF QueueMatchesMap, runnerExits
<1>6. WaitingIsUntouched'
  BY DEF runnerExits, Goto, TypeOK, BatchRecord, WaitingIsUntouched, PhaseOfRunner, Running, Scheduling
<1>7. ActiveCounts'
  BY DEF runnerExits, Goto, TypeOK, BatchRecord, OneRunner, ActiveCounts, LoopCounts, PhaseOfRunner, Running, Scheduling
<1>8. QED
  BY <1>1, <1>2, <1>3, <1>4, <1>5, <1>6, <1>7

\* Finding the scan lock free changes only the program point.
LEMMA freeKeeps ==
  ASSUME IInv, NEW r \in Runner, lockFree(r)
  PROVE  IInv'
<1> USE NoneAssumption, MaxTargetsAssumption DEF IInv
<1>1. TypeOK'
  BY DEF lockFree, queueVars, Goto, TypeOK, PC, BatchRecord, Message
<1>2. OneRunner'
  BY DEF lockFree, queueVars, Goto, TypeOK, OneRunner, FlagTellsTruth, Alive
<1>3. FlagTellsTruth'
  BY DEF lockFree, queueVars, Goto, TypeOK, OneRunner, FlagTellsTruth, Alive
<1>4. PhaseOfRunner'
  BY DEF lockFree, queueVars, Goto, TypeOK, OneRunner, FlagTellsTruth, Alive, PhaseOfRunner, Scheduling, Running
<1>5. QueueMatchesMap'
  BY DEF lockFree, queueVars, Goto, TypeOK, QueueMatchesMap, BatchRecord, PhaseOfRunner, Running, Scheduling
<1>6. WaitingIsUntouched'
  BY DEF lockFree, queueVars, Goto, TypeOK, BatchRecord, WaitingIsUntouched, PhaseOfRunner, Running, Scheduling
<1>7. ActiveCounts'
  BY DEF lockFree, queueVars, Goto, TypeOK, BatchRecord, OneRunner, ActiveCounts, LoopCounts, PhaseOfRunner, Running, Scheduling
<1>8. QED
  BY <1>1, <1>2, <1>3, <1>4, <1>5, <1>6, <1>7

\* Finding the scan lock busy changes only the program point.
LEMMA blocksKeeps ==
  ASSUME IInv, NEW r \in Runner, lockBlocks(r)
  PROVE  IInv'
<1> USE NoneAssumption, MaxTargetsAssumption DEF IInv
<1>1. TypeOK'
  BY DEF lockBlocks, queueVars, Goto, TypeOK, PC, BatchRecord, Message
<1>2. OneRunner'
  BY DEF lockBlocks, queueVars, Goto, TypeOK, OneRunner, FlagTellsTruth, Alive
<1>3. FlagTellsTruth'
  BY DEF lockBlocks, queueVars, Goto, TypeOK, OneRunner, FlagTellsTruth, Alive
<1>4. PhaseOfRunner'
  BY DEF lockBlocks, queueVars, Goto, TypeOK, OneRunner, FlagTellsTruth, Alive, PhaseOfRunner, Scheduling, Running
<1>5. QueueMatchesMap'
  BY DEF lockBlocks, queueVars, Goto, TypeOK, QueueMatchesMap, BatchRecord, PhaseOfRunner, Running, Scheduling
<1>6. WaitingIsUntouched'
  BY DEF lockBlocks, queueVars, Goto, TypeOK, BatchRecord, WaitingIsUntouched, PhaseOfRunner, Running, Scheduling
<1>7. ActiveCounts'
  BY DEF lockBlocks, queueVars, Goto, TypeOK, BatchRecord, OneRunner, ActiveCounts, LoopCounts, PhaseOfRunner, Running, Scheduling
<1>8. QED
  BY <1>1, <1>2, <1>3, <1>4, <1>5, <1>6, <1>7

\* The message of a batch that waits for the lock changes no count and no
\* status.
LEMMA messageKeeps ==
  ASSUME IInv, NEW r \in Runner, updateQueuedBatchMessage(r)
  PROVE  IInv'
<1> USE NoneAssumption, MaxTargetsAssumption DEF IInv
<1>0. /\ batches' \in [Batch -> BatchRecord \cup {None}]
      /\ \A c \in Batch :
            /\ batches'[c] = None <=> batches[c] = None
            /\ batches[c] # None =>
                  /\ batches'[c].status = batches[c].status
                  /\ batches'[c].completed = batches[c].completed
                  /\ batches'[c].jobs = batches[c].jobs
                  /\ batches'[c].failed = batches[c].failed
                  /\ batches'[c].threats = batches[c].threats
  <2> DEFINE id == picked[r]
             rec == [batches[id] EXCEPT !.message = "LockWait"]
  <2>1. id \in Batch /\ batches \in [Batch -> BatchRecord \cup {None}]
    BY DEF TypeOK, PhaseOfRunner, updateQueuedBatchMessage
  <2>2. CASE batches' = batches
    BY <2>1, <2>2
  <2>3. CASE batches' # batches
    <3>1. batches[id] # None /\ batches' = [batches EXCEPT ![id] = rec]
      BY <2>3 DEF updateQueuedBatchMessage
    <3>2. /\ rec \in BatchRecord /\ rec.status = batches[id].status
          /\ rec.completed = batches[id].completed /\ rec.jobs = batches[id].jobs
          /\ rec.failed = batches[id].failed /\ rec.threats = batches[id].threats
      BY <2>1, <3>1 DEF BatchRecord, Message
    <3> HIDE DEF rec, id
    <3>3. QED
      BY <2>1, <3>1, <3>2
  <2>4. QED
    BY <2>2, <2>3
<1>1. TypeOK'
  BY <1>0 DEF TypeOK, updateQueuedBatchMessage, Goto, PC
<1>2. OneRunner'
  BY DEF updateQueuedBatchMessage, Goto, TypeOK, OneRunner, FlagTellsTruth, Alive
<1>3. FlagTellsTruth'
  BY DEF updateQueuedBatchMessage, Goto, TypeOK, OneRunner, FlagTellsTruth, Alive
<1>4. PhaseOfRunner'
  BY DEF updateQueuedBatchMessage, Goto, TypeOK, OneRunner, FlagTellsTruth, Alive, PhaseOfRunner, Scheduling, Running
<1>5. QueueMatchesMap'
  <2>1. Range(queuedBatchIDs) \subseteq Batch
    BY DEF TypeOK, Range
  <2>2. QED
    BY <1>0, <2>1 DEF QueueMatchesMap, updateQueuedBatchMessage
<1>6. WaitingIsUntouched'
  BY <1>0 DEF WaitingIsUntouched, updateQueuedBatchMessage
<1>7. ActiveCounts'
  <2>1. \A s \in Runner : pc'[s] \notin Running
    BY DEF TypeOK, OneRunner, updateQueuedBatchMessage, Goto, Running
  <2>2. QED
    BY <2>1 DEF ActiveCounts
<1>8. QED
  BY <1>1, <1>2, <1>3, <1>4, <1>5, <1>6, <1>7

\* Activation moves the picked batch from the queue to activeBatchID, or goes
\* back to the pick.
LEMMA activateKeeps ==
  ASSUME IInv, NEW r \in Runner, activateQueuedBatch(r)
  PROVE  IInv'
<1> USE NoneAssumption, MaxTargetsAssumption DEF IInv
<1> DEFINE id == picked[r]
<1> DEFINE rec == [batches[id] EXCEPT !.status = "running", !.message = "Running"]
<1>0. /\ id \in Batch /\ batches \in [Batch -> BatchRecord \cup {None}]
      /\ activeBatchID = None
      /\ \/ UNCHANGED <<batches, queuedBatchIDs, activeBatchID>> /\ pc' = [pc EXCEPT ![r] = "pick"]
         \/ /\ batches[id] # None
            /\ batches' = [batches EXCEPT ![id] = rec]
            /\ rec \in BatchRecord
            /\ rec.status = "running" /\ rec.message = "Running"
            /\ rec.completed = batches[id].completed /\ rec.jobs = batches[id].jobs
            /\ rec.failed = batches[id].failed /\ rec.threats = batches[id].threats
            /\ activeBatchID' = id
            /\ pc' = [pc EXCEPT ![r] = "snapshot"]
            /\ queuedBatchIDs' \in Seq(Batch)
            /\ queuedBatchIDs # <<>>
            /\ IsInjective(queuedBatchIDs')
            /\ Range(queuedBatchIDs') = Range(queuedBatchIDs) \ {id}
  <2>1. id \in Batch /\ batches \in [Batch -> BatchRecord \cup {None}] /\ activeBatchID = None
    BY DEF TypeOK, PhaseOfRunner, activateQueuedBatch, Scheduling
  <2>2. CASE pc' = [pc EXCEPT ![r] = "pick"] /\ UNCHANGED <<batches, queuedBatchIDs, activeBatchID>>
    BY <2>1, <2>2
  <2>3. CASE /\ activeBatchID = None
             /\ batches[id] # None
             /\ \E i \in DOMAIN queuedBatchIDs :
                   /\ queuedBatchIDs[i] = id
                   /\ queuedBatchIDs' = RemoveAt(queuedBatchIDs, i)
             /\ batches' = [batches EXCEPT ![id].status = "running",
                                           ![id].message = "Running"]
             /\ activeBatchID' = id
             /\ Goto(r, "snapshot")
    <3>1. queuedBatchIDs \in Seq(Batch) /\ IsInjective(queuedBatchIDs)
      BY DEF TypeOK, QueueMatchesMap
    <3>2. PICK i \in DOMAIN queuedBatchIDs :
             queuedBatchIDs[i] = id /\ queuedBatchIDs' = RemoveAt(queuedBatchIDs, i)
      BY <2>3
    <3>3. /\ queuedBatchIDs' \in Seq(Batch) /\ IsInjective(queuedBatchIDs')
          /\ Range(queuedBatchIDs') = Range(queuedBatchIDs) \ {id}
          /\ queuedBatchIDs # <<>>
      BY <3>1, <3>2, RemoveAtFacts
    <3>4. batches' = [batches EXCEPT ![id] = rec]
      BY <2>1, <2>3
    <3>5. /\ rec \in BatchRecord /\ rec.status = "running" /\ rec.message = "Running"
          /\ rec.completed = batches[id].completed /\ rec.jobs = batches[id].jobs
          /\ rec.failed = batches[id].failed /\ rec.threats = batches[id].threats
      BY <2>1, <2>3 DEF BatchRecord, Message
    <3>6. QED
      BY <2>1, <2>3, <3>3, <3>4, <3>5 DEF Goto
  <2>4. QED
    BY <2>1, <2>2, <2>3 DEF activateQueuedBatch, Goto
<1> HIDE DEF rec
<1>1. TypeOK'
  <2>1. batches' \in [Batch -> BatchRecord \cup {None}] /\ queuedBatchIDs' \in Seq(Batch)
    BY <1>0 DEF TypeOK
  <2>2. pc' \in [Runner -> PC] /\ activeBatchID' \in Batch \cup {None}
    BY <1>0 DEF TypeOK, PC
  <2>3. QED
    BY <2>1, <2>2 DEF TypeOK, activateQueuedBatch
<1>2. OneRunner'
  BY <1>0 DEF TypeOK, OneRunner, activateQueuedBatch
<1>3. FlagTellsTruth'
  <2>1. queuedBatchIDs' # <<>> => queuedBatchIDs # <<>>
    BY <1>0
  <2>2. \A s \in Runner : pc'[s] = "idle" <=> pc[s] = "idle"
    BY <1>0 DEF TypeOK, activateQueuedBatch
  <2>3. QED
    BY <2>1, <2>2 DEF FlagTellsTruth, Alive, activateQueuedBatch
<1>4. PhaseOfRunner'
  <2>1. \A s \in Runner \ {r} : pc[s] = "idle" /\ pc'[s] = "idle"
    BY <1>0 DEF TypeOK, OneRunner, activateQueuedBatch
  <2>2. picked' = picked
    BY DEF activateQueuedBatch
  <2>3. \/ pc'[r] = "pick" /\ activeBatchID' = None
        \/ pc'[r] = "snapshot" /\ activeBatchID' = picked[r]
    BY <1>0 DEF TypeOK
  <2>4. QED
    BY <1>0, <2>1, <2>2, <2>3 DEF PhaseOfRunner, Scheduling, Running
<1>5. QueueMatchesMap'
  <2>1. CASE UNCHANGED <<batches, queuedBatchIDs, activeBatchID>>
    BY <2>1 DEF QueueMatchesMap
  <2>2. CASE /\ batches' = [batches EXCEPT ![id] = rec] /\ activeBatchID' = id
             /\ IsInjective(queuedBatchIDs')
             /\ Range(queuedBatchIDs') = Range(queuedBatchIDs) \ {id}
    <3>1. Range(queuedBatchIDs) \subseteq Batch
      BY DEF TypeOK, Range
    <3>2. \A c \in Batch \ {id} : batches'[c] = batches[c]
      BY <1>0, <2>2
    <3> HIDE DEF id
    <3>3. QED
      BY <1>0, <2>2, <3>1, <3>2 DEF QueueMatchesMap
  <2>3. QED
    BY <1>0, <2>1, <2>2
<1>6. WaitingIsUntouched'
  <2> HIDE DEF id
  <2>1. QED
    BY <1>0 DEF WaitingIsUntouched
<1>7. ActiveCounts'
  <2>1. \A s \in Runner \ {r} : pc'[s] = "idle"
    BY <1>0 DEF TypeOK, OneRunner, activateQueuedBatch
  <2>2. CASE pc'[r] = "pick"
    BY <2>1, <2>2 DEF ActiveCounts, Running
  <2>3. CASE pc'[r] # "pick"
    <3>1. /\ pc'[r] = "snapshot" /\ picked'[r] = id /\ batches'[id] = rec
          /\ batches[id] # None /\ rec \in BatchRecord
          /\ rec.status = "running" /\ rec.message = "Running"
          /\ rec.completed = batches[id].completed /\ rec.jobs = batches[id].jobs
          /\ rec.failed = batches[id].failed /\ rec.threats = batches[id].threats
      BY <1>0, <2>3 DEF TypeOK, activateQueuedBatch
    <3>2. rec.completed = 0 /\ rec.jobs = 0 /\ rec.failed = 0 /\ rec.threats = 0
      BY <1>0, <3>1 DEF WaitingIsUntouched
    <3> HIDE DEF id
    <3>3. LoopCounts(r, batches[picked[r]])' /\ batches'[picked'[r]] # None
      <4>1. batches'[picked'[r]] = rec
        BY <3>1
      <4>2. QED
        BY <3>1, <3>2, <4>1 DEF LoopCounts
    <3>4. QED
      BY <2>1, <3>3 DEF ActiveCounts, Running
  <2>4. QED
    BY <2>2, <2>3
<1>8. QED
  BY <1>1, <1>2, <1>3, <1>4, <1>5, <1>6, <1>7

\* The snapshot is always found and fixes the number of targets.
LEMMA snapshotKeeps ==
  ASSUME IInv, NEW r \in Runner, takeSnapshot(r)
  PROVE  IInv'
<1> USE NoneAssumption, MaxTargetsAssumption DEF IInv
<1>0. /\ picked[r] \in Batch
      /\ batches[picked[r]] \in BatchRecord
      /\ batches[picked[r]].targets \in 1..MaxTargets
      /\ pc' = [pc EXCEPT ![r] = "target"]
      /\ left' = [left EXCEPT ![r] = batches[picked[r]].targets]
  <2>1. picked[r] \in Batch /\ batches[picked[r]] # None
    BY DEF takeSnapshot, ActiveCounts, PhaseOfRunner, Running
  <2>2. batches[picked[r]] \in BatchRecord
    BY <2>1 DEF TypeOK
  <2>3. QED
    BY <2>1, <2>2 DEF takeSnapshot, Goto, BatchRecord
<1>1. TypeOK'
  <2>1. left' \in [Runner -> 0..MaxTargets] /\ pc' \in [Runner -> PC]
    BY <1>0 DEF TypeOK, PC
  <2>2. QED
    BY <2>1 DEF TypeOK, takeSnapshot, queueVars
<1>2. OneRunner'
  BY DEF takeSnapshot, queueVars, Goto, TypeOK, OneRunner, FlagTellsTruth, Alive
<1>3. FlagTellsTruth'
  BY DEF takeSnapshot, queueVars, Goto, TypeOK, OneRunner, FlagTellsTruth, Alive
<1>4. PhaseOfRunner'
  <2>1. \A s \in Runner \ {r} : pc[s] = "idle" /\ pc'[s] = "idle"
    BY <1>0 DEF TypeOK, OneRunner, takeSnapshot
  <2>2. pc'[r] = "target" /\ UNCHANGED <<picked, activeBatchID>>
    BY <1>0 DEF TypeOK, takeSnapshot, queueVars
  <2>3. activeBatchID = picked[r]
    BY DEF PhaseOfRunner, Running, takeSnapshot
  <2>4. QED
    BY <1>0, <2>1, <2>2, <2>3 DEF PhaseOfRunner, Scheduling, Running
<1>5. QueueMatchesMap'
  BY DEF takeSnapshot, queueVars, Goto, TypeOK, QueueMatchesMap, BatchRecord, PhaseOfRunner, Running, Scheduling
<1>6. WaitingIsUntouched'
  BY DEF takeSnapshot, queueVars, Goto, TypeOK, BatchRecord, WaitingIsUntouched, PhaseOfRunner, Running, Scheduling
<1>7. ActiveCounts'
  BY DEF takeSnapshot, queueVars, Goto, TypeOK, BatchRecord, OneRunner, ActiveCounts, LoopCounts, PhaseOfRunner, Running, Scheduling
<1>8. QED
  BY <1>1, <1>2, <1>3, <1>4, <1>5, <1>6, <1>7

\* Starting a target adds at most one job, which the loop still has room for.
LEMMA startKeeps ==
  ASSUME IInv, NEW r \in Runner, NEW job \in BOOLEAN, startTarget(r, job)
  PROVE  IInv'
<1> USE NoneAssumption, MaxTargetsAssumption DEF IInv
<1> DEFINE id == picked[r]
<1> DEFINE rec == [batches[id] EXCEPT !.message = "Scanning",
                                        !.jobs = IF job THEN @ + 1 ELSE @]
<1>0. /\ id \in Batch /\ batches \in [Batch -> BatchRecord \cup {None}]
      /\ id = activeBatchID /\ batches[id] # None
      /\ LoopCounts(r, batches[id]) /\ batches[id] \in BatchRecord
      /\ \A s \in Runner \ {r} : pc[s] = "idle" /\ pc'[s] = "idle"
  BY DEF TypeOK, OneRunner, ActiveCounts, PhaseOfRunner, Running, startTarget, Goto
<1>a. batches' = [batches EXCEPT ![id] = rec]
  BY <1>0 DEF startTarget, updateBatch
<1>b. /\ rec \in BatchRecord
      /\ rec.status = batches[id].status
      /\ rec.message = "Scanning"
      /\ rec.targets = batches[id].targets
      /\ rec.completed = batches[id].completed
      /\ rec.failed = batches[id].failed
      /\ rec.threats = batches[id].threats
      /\ rec.jobs = batches[id].jobs + (IF job THEN 1 ELSE 0)
  <2>1. left[r] \in Nat /\ pc[r] = "target" /\ left[r] > 0
    BY DEF TypeOK, startTarget
  <2> HIDE DEF id
  <2>2. /\ batches[id] \in BatchRecord
        /\ batches[id].jobs < MaxTargets
    BY <1>0, <2>1 DEF LoopCounts, BatchRecord
  <2> DEFINE j == IF job THEN batches[id].jobs + 1 ELSE batches[id].jobs
  <2>3. j \in 0..MaxTargets /\ j = batches[id].jobs + (IF job THEN 1 ELSE 0)
    BY <2>2 DEF BatchRecord
  <2>4. rec = [batches[id] EXCEPT !.message = "Scanning", !.jobs = j]
    BY DEF rec
  <2> HIDE DEF j
  <2>5. QED
    BY <2>2, <2>3, <2>4 DEF BatchRecord, Message
<1> HIDE DEF rec
<1>1. TypeOK'
  <2>1. batches' \in [Batch -> BatchRecord \cup {None}]
    BY <1>0, <1>a, <1>b
  <2>2. left' \in [Runner -> 0..MaxTargets] /\ gotJob' \in [Runner -> BOOLEAN]
    BY <1>0 DEF TypeOK, LoopCounts, startTarget
  <2>3. pc' \in [Runner -> PC]
    BY DEF TypeOK, PC, startTarget, Goto
  <2>4. QED
    BY <2>1, <2>2, <2>3 DEF TypeOK, startTarget
<1>2. OneRunner'
  BY DEF startTarget, updateBatch, Goto, TypeOK, OneRunner, FlagTellsTruth, Alive
<1>3. FlagTellsTruth'
  BY DEF startTarget, updateBatch, Goto, TypeOK, OneRunner, FlagTellsTruth, Alive
<1>4. PhaseOfRunner'
  BY DEF startTarget, updateBatch, Goto, TypeOK, OneRunner, FlagTellsTruth, Alive, PhaseOfRunner, Scheduling, Running
<1>5. QueueMatchesMap'
  <2>1. \A c \in Batch \ {id} : batches'[c] = batches[c]
    BY <1>0, <1>a
  <2>2. batches'[id] # None
    BY <1>0, <1>a, <1>b
  <2>3. Range(queuedBatchIDs) \subseteq Batch
    BY DEF TypeOK, Range
  <2>4. UNCHANGED <<queuedBatchIDs, activeBatchID>>
    BY DEF startTarget
  <2> HIDE DEF id
  <2>5. QED
    BY <1>0, <2>1, <2>2, <2>3, <2>4 DEF QueueMatchesMap
<1>6. WaitingIsUntouched'
  <2>1. \A c \in Batch \ {id} : batches'[c] = batches[c]
    BY <1>0, <1>a
  <2>2. activeBatchID' = id
    BY <1>0 DEF startTarget
  <2> HIDE DEF id
  <2>3. QED
    BY <1>0, <2>1, <2>2 DEF WaitingIsUntouched
<1>7. ActiveCounts'
  <2>1. pc'[r] = "wait" /\ picked'[r] = id /\ batches'[id] = rec
    BY <1>0, <1>a DEF TypeOK, startTarget, Goto
  <2>2. LoopCounts(r, batches[picked[r]])' /\ batches'[picked'[r]] # None
    <3>1. batches'[picked'[r]] = rec
      BY <2>1
    <3>2. left[r] \in Nat /\ left'[r] = left[r] /\ gotJob'[r] = job
      BY DEF TypeOK, startTarget
    <3>3. batches[id] \in BatchRecord
      BY <1>0
    <3> HIDE DEF id
    <3>4. QED
      BY <1>0, <1>b, <2>1, <3>1, <3>2, <3>3 DEF LoopCounts, startTarget, BatchRecord
  <2>3. QED
    BY <1>0, <2>2 DEF ActiveCounts, Running
<1>8. QED
  BY <1>1, <1>2, <1>3, <1>4, <1>5, <1>6, <1>7

\* Finishing a target counts it once, and as failed when it has no job.
LEMMA finishTargetKeeps ==
  ASSUME IInv, NEW r \in Runner, NEW err \in BOOLEAN, NEW result \in Result, finishTarget(r, err, result)
  PROVE  IInv'
<1> USE NoneAssumption, MaxTargetsAssumption DEF IInv
<1> DEFINE id == picked[r]
<1> DEFINE rec == [batches[id] EXCEPT
                 !.completed = @ + 1,
                 !.threats = IF result = "found" THEN @ + 1 ELSE @,
                 !.failed = IF err \/ result = "error" THEN @ + 1 ELSE @]
<1>0. /\ id \in Batch /\ batches \in [Batch -> BatchRecord \cup {None}]
      /\ id = activeBatchID /\ batches[id] # None
      /\ LoopCounts(r, batches[id]) /\ batches[id] \in BatchRecord
      /\ \A s \in Runner \ {r} : pc[s] = "idle" /\ pc'[s] = "idle"
  BY DEF TypeOK, OneRunner, ActiveCounts, PhaseOfRunner, Running, finishTarget, Goto
<1>a. batches' = [batches EXCEPT ![id] = rec]
  BY <1>0 DEF finishTarget, updateBatch
<1>b. /\ rec \in BatchRecord
      /\ rec.status = batches[id].status
      /\ rec.message = batches[id].message
      /\ rec.targets = batches[id].targets
      /\ rec.completed = batches[id].completed + 1
      /\ rec.failed = batches[id].failed + (IF err \/ result = "error" THEN 1 ELSE 0)
      /\ rec.threats = batches[id].threats + (IF result = "found" THEN 1 ELSE 0)
      /\ rec.jobs = batches[id].jobs
  <2>1. left[r] \in Nat /\ pc[r] = "wait"
    BY DEF TypeOK, finishTarget
  <2> HIDE DEF id
  <2>2. /\ batches[id] \in BatchRecord
        /\ batches[id].completed < MaxTargets
        /\ batches[id].failed < MaxTargets /\ batches[id].threats < MaxTargets
    BY <1>0, <2>1 DEF LoopCounts, BatchRecord
  <2> DEFINE t == IF result = "found" THEN batches[id].threats + 1 ELSE batches[id].threats
             f == IF err \/ result = "error" THEN batches[id].failed + 1 ELSE batches[id].failed
  <2>3. t \in 0..MaxTargets /\ t = batches[id].threats + (IF result = "found" THEN 1 ELSE 0)
    BY <2>2 DEF BatchRecord
  <2>4. /\ f \in 0..MaxTargets
        /\ f = batches[id].failed + (IF err \/ result = "error" THEN 1 ELSE 0)
    BY <2>2 DEF BatchRecord
  <2>5. rec = [batches[id] EXCEPT !.completed = @ + 1, !.threats = t, !.failed = f]
    BY DEF rec
  <2> HIDE DEF t, f, rec
  <2> DEFINE c == batches[id].completed + 1
  <2>6. c \in 0..MaxTargets
    BY <2>2 DEF BatchRecord
  <2>7. rec = [batches[id] EXCEPT !.completed = c, !.threats = t, !.failed = f]
    BY <2>5
  <2>8. c = batches[id].completed + 1
    OBVIOUS
  <2> HIDE DEF c
  <2>9. /\ rec \in BatchRecord /\ rec.completed = c /\ rec.threats = t /\ rec.failed = f
        /\ rec.status = batches[id].status /\ rec.message = batches[id].message
        /\ rec.targets = batches[id].targets /\ rec.jobs = batches[id].jobs
    BY <2>2, <2>3, <2>4, <2>6, <2>7 DEF BatchRecord
  <2>10. QED
    BY <2>3, <2>4, <2>8, <2>9
<1> HIDE DEF rec
<1>1. TypeOK'
  <2>1. batches' \in [Batch -> BatchRecord \cup {None}]
    BY <1>0, <1>a, <1>b
  <2>2. left' \in [Runner -> 0..MaxTargets] /\ gotJob' \in [Runner -> BOOLEAN]
    BY <1>0 DEF TypeOK, LoopCounts, finishTarget
  <2>3. pc' \in [Runner -> PC]
    BY DEF TypeOK, PC, finishTarget, Goto
  <2>4. QED
    BY <2>1, <2>2, <2>3 DEF TypeOK, finishTarget
<1>2. OneRunner'
  BY DEF finishTarget, updateBatch, Goto, TypeOK, OneRunner, FlagTellsTruth, Alive
<1>3. FlagTellsTruth'
  BY DEF finishTarget, updateBatch, Goto, TypeOK, OneRunner, FlagTellsTruth, Alive
<1>4. PhaseOfRunner'
  BY DEF finishTarget, updateBatch, Goto, TypeOK, OneRunner, FlagTellsTruth, Alive, PhaseOfRunner, Scheduling, Running
<1>5. QueueMatchesMap'
  <2>1. \A c \in Batch \ {id} : batches'[c] = batches[c]
    BY <1>0, <1>a
  <2>2. batches'[id] # None
    BY <1>0, <1>a, <1>b
  <2>3. Range(queuedBatchIDs) \subseteq Batch
    BY DEF TypeOK, Range
  <2>4. UNCHANGED <<queuedBatchIDs, activeBatchID>>
    BY DEF finishTarget
  <2> HIDE DEF id
  <2>5. QED
    BY <1>0, <2>1, <2>2, <2>3, <2>4 DEF QueueMatchesMap
<1>6. WaitingIsUntouched'
  <2>1. \A c \in Batch \ {id} : batches'[c] = batches[c]
    BY <1>0, <1>a
  <2>2. activeBatchID' = id
    BY <1>0 DEF finishTarget
  <2> HIDE DEF id
  <2>3. QED
    BY <1>0, <2>1, <2>2 DEF WaitingIsUntouched
<1>7. ActiveCounts'
  <2>1. pc'[r] = "target" /\ picked'[r] = id /\ batches'[id] = rec
    BY <1>0, <1>a DEF TypeOK, finishTarget, Goto
  <2>2. LoopCounts(r, batches[picked[r]])' /\ batches'[picked'[r]] # None
    <3>1. batches'[picked'[r]] = rec
      BY <2>1
    <3>2. left[r] \in Nat /\ left'[r] = left[r] - 1 /\ gotJob'[r] = gotJob[r]
      BY DEF TypeOK, finishTarget
    <3>3. batches[id] \in BatchRecord
      BY <1>0
    <3> HIDE DEF id
    <3>4. QED
      BY <1>0, <1>b, <2>1, <3>1, <3>2, <3>3 DEF LoopCounts, finishTarget, BatchRecord
  <2>3. QED
    BY <1>0, <2>2 DEF ActiveCounts, Running
<1>8. QED
  BY <1>1, <1>2, <1>3, <1>4, <1>5, <1>6, <1>7

\* The verdict is given when every target is completed.
LEMMA closeKeeps ==
  ASSUME IInv, NEW r \in Runner, closeBatch(r)
  PROVE  IInv'
<1> USE NoneAssumption, MaxTargetsAssumption DEF IInv
<1> DEFINE id == picked[r]
<1> DEFINE rec == [batches[id] EXCEPT
                 !.status = IF batches[id].failed > 0 THEN "failed" ELSE "finished",
                 !.message = CASE batches[id].failed > 0 -> "Errors"
                               [] batches[id].failed = 0 /\ batches[id].threats > 0 -> "Threats"
                               [] OTHER -> "Clean"]
<1>0. /\ id \in Batch /\ batches \in [Batch -> BatchRecord \cup {None}]
      /\ id = activeBatchID /\ batches[id] # None
      /\ LoopCounts(r, batches[id]) /\ batches[id] \in BatchRecord
      /\ \A s \in Runner \ {r} : pc[s] = "idle" /\ pc'[s] = "idle"
  BY DEF TypeOK, OneRunner, ActiveCounts, PhaseOfRunner, Running, closeBatch, Goto
<1>a. batches' = [batches EXCEPT ![id] = rec]
  BY <1>0 DEF closeBatch, updateBatch
<1>b. /\ rec \in BatchRecord
      /\ rec.status = IF batches[id].failed > 0 THEN "failed" ELSE "finished"
      /\ rec.message \in {"Errors", "Threats", "Clean"}
      /\ rec.targets = batches[id].targets
      /\ rec.completed = batches[id].completed
      /\ rec.failed = batches[id].failed
      /\ rec.threats = batches[id].threats
      /\ rec.jobs = batches[id].jobs
  <2>1. left[r] \in Nat /\ pc[r] = "target"
    BY DEF TypeOK, closeBatch
  <2> HIDE DEF id
  <2>2. /\ batches[id] \in BatchRecord
        /\ batches[id].failed \in Nat
    BY <1>0, <2>1 DEF LoopCounts, BatchRecord
  <2>3. QED
    BY <2>2 DEF rec, BatchRecord, Message
<1> HIDE DEF rec
<1>1. TypeOK'
  <2>1. batches' \in [Batch -> BatchRecord \cup {None}]
    BY <1>0, <1>a, <1>b
  <2>2. left' \in [Runner -> 0..MaxTargets] /\ gotJob' \in [Runner -> BOOLEAN]
    BY <1>0 DEF TypeOK, LoopCounts, closeBatch
  <2>3. pc' \in [Runner -> PC]
    BY DEF TypeOK, PC, closeBatch, Goto
  <2>4. QED
    BY <2>1, <2>2, <2>3 DEF TypeOK, closeBatch
<1>2. OneRunner'
  BY DEF closeBatch, updateBatch, Goto, TypeOK, OneRunner, FlagTellsTruth, Alive
<1>3. FlagTellsTruth'
  BY DEF closeBatch, updateBatch, Goto, TypeOK, OneRunner, FlagTellsTruth, Alive
<1>4. PhaseOfRunner'
  BY DEF closeBatch, updateBatch, Goto, TypeOK, OneRunner, FlagTellsTruth, Alive, PhaseOfRunner, Scheduling, Running
<1>5. QueueMatchesMap'
  <2>1. \A c \in Batch \ {id} : batches'[c] = batches[c]
    BY <1>0, <1>a
  <2>2. batches'[id] # None
    BY <1>0, <1>a, <1>b
  <2>3. Range(queuedBatchIDs) \subseteq Batch
    BY DEF TypeOK, Range
  <2>4. UNCHANGED <<queuedBatchIDs, activeBatchID>>
    BY DEF closeBatch
  <2> HIDE DEF id
  <2>5. QED
    BY <1>0, <2>1, <2>2, <2>3, <2>4 DEF QueueMatchesMap
<1>6. WaitingIsUntouched'
  <2>1. \A c \in Batch \ {id} : batches'[c] = batches[c]
    BY <1>0, <1>a
  <2>2. activeBatchID' = id
    BY <1>0 DEF closeBatch
  <2> HIDE DEF id
  <2>3. QED
    BY <1>0, <2>1, <2>2 DEF WaitingIsUntouched
<1>7. ActiveCounts'
  <2>1. pc'[r] = "finish" /\ picked'[r] = id /\ batches'[id] = rec
    BY <1>0, <1>a DEF TypeOK, closeBatch, Goto
  <2>2. LoopCounts(r, batches[picked[r]])' /\ batches'[picked'[r]] # None
    <3>1. batches'[picked'[r]] = rec
      BY <2>1
    <3>2. left[r] \in Nat /\ left'[r] = left[r] /\ gotJob'[r] = gotJob[r]
      BY DEF TypeOK, closeBatch
    <3>3. batches[id] \in BatchRecord
      BY <1>0
    <3> HIDE DEF id
    <3>4. QED
      BY <1>0, <1>b, <2>1, <3>1, <3>2, <3>3 DEF LoopCounts, closeBatch, BatchRecord
  <2>3. QED
    BY <1>0, <2>2 DEF ActiveCounts, Running
<1>8. QED
  BY <1>1, <1>2, <1>3, <1>4, <1>5, <1>6, <1>7

\* finishBatch removes the active batch from the map and clears activeBatchID.
LEMMA finishKeeps ==
  ASSUME IInv, NEW r \in Runner, finishBatch(r)
  PROVE  IInv'
<1> USE NoneAssumption, MaxTargetsAssumption DEF IInv
<1>1. TypeOK'
  BY DEF finishBatch, Goto, TypeOK, PC, BatchRecord, Message
<1>2. OneRunner'
  BY DEF finishBatch, Goto, TypeOK, OneRunner, FlagTellsTruth, Alive
<1>3. FlagTellsTruth'
  BY DEF finishBatch, Goto, TypeOK, OneRunner, FlagTellsTruth, Alive
<1>4. PhaseOfRunner'
  BY DEF finishBatch, Goto, TypeOK, OneRunner, FlagTellsTruth, Alive, PhaseOfRunner, Scheduling, Running
<1>5. QueueMatchesMap'
  <2>1. picked[r] \in Batch /\ activeBatchID = picked[r]
    BY DEF finishBatch, PhaseOfRunner, Running
  <2>2. batches'[picked[r]] = None /\ activeBatchID' = None
    BY <2>1 DEF TypeOK, finishBatch
  <2>3. \A c \in Batch \ {picked[r]} : batches'[c] = batches[c]
    BY DEF TypeOK, finishBatch
  <2>4. Range(queuedBatchIDs) \subseteq Batch
    BY DEF TypeOK, Range
  <2>5. queuedBatchIDs' = queuedBatchIDs
    BY DEF finishBatch
  <2>6. QED
    BY <2>1, <2>2, <2>3, <2>4, <2>5 DEF QueueMatchesMap
<1>6. WaitingIsUntouched'
  BY DEF finishBatch, Goto, TypeOK, BatchRecord, WaitingIsUntouched, PhaseOfRunner, Running, Scheduling
<1>7. ActiveCounts'
  BY DEF finishBatch, Goto, TypeOK, BatchRecord, OneRunner, ActiveCounts, LoopCounts, PhaseOfRunner, Running, Scheduling
<1>8. QED
  BY <1>1, <1>2, <1>3, <1>4, <1>5, <1>6, <1>7

\* Other processes only change the scan lock.
LEMMA otherKeeps ==
  ASSUME IInv, otherScan
  PROVE  IInv'
<1> USE NoneAssumption, MaxTargetsAssumption DEF IInv
<1>1. TypeOK'
  BY DEF otherScan, queueVars, runnerVars, TypeOK, PC, BatchRecord, Message
<1>2. OneRunner'
  BY DEF otherScan, queueVars, runnerVars, TypeOK, OneRunner, FlagTellsTruth, Alive
<1>3. FlagTellsTruth'
  BY DEF otherScan, queueVars, runnerVars, TypeOK, OneRunner, FlagTellsTruth, Alive
<1>4. PhaseOfRunner'
  BY DEF otherScan, queueVars, runnerVars, TypeOK, OneRunner, FlagTellsTruth, Alive, PhaseOfRunner, Scheduling, Running
<1>5. QueueMatchesMap'
  BY DEF otherScan, queueVars, runnerVars, TypeOK, QueueMatchesMap, BatchRecord, PhaseOfRunner, Running, Scheduling
<1>6. WaitingIsUntouched'
  BY DEF otherScan, queueVars, runnerVars, TypeOK, BatchRecord, WaitingIsUntouched, PhaseOfRunner, Running, Scheduling
<1>7. ActiveCounts'
  BY DEF otherScan, queueVars, runnerVars, TypeOK, BatchRecord, OneRunner, ActiveCounts, LoopCounts, PhaseOfRunner, Running, Scheduling
<1>8. QED
  BY <1>1, <1>2, <1>3, <1>4, <1>5, <1>6, <1>7

-----------------------------------------------------------------------------
(* The invariant and its consequences.                                     *)

\* Every initial state satisfies the invariant.
LEMMA InitInv == Init => IInv
<1> SUFFICES ASSUME Init PROVE IInv
  OBVIOUS
<1> USE NoneAssumption, MaxTargetsAssumption
<1>1. TypeOK
  <2>1. left \in [Runner -> 0..MaxTargets] /\ pc \in [Runner -> PC]
    BY DEF Init, PC
  <2>2. queuedBatchIDs \in Seq(Batch)
    BY DEF Init
  <2>3. gotJob \in [Runner -> BOOLEAN] /\ queueRunnerActive \in BOOLEAN
    BY Zenon DEF Init
  <2>4. /\ batches \in [Batch -> BatchRecord \cup {None}]
        /\ picked \in [Runner -> Batch \cup {None}]
        /\ activeBatchID \in Batch \cup {None}
    BY DEF Init
  <2>5. QED
    BY <2>1, <2>2, <2>3, <2>4 DEF Init, TypeOK
<1>2. OneRunner /\ FlagTellsTruth
  BY DEF Init, OneRunner, FlagTellsTruth, Alive
<1>3. PhaseOfRunner /\ WaitingIsUntouched /\ ActiveCounts
  BY DEF Init, PhaseOfRunner, WaitingIsUntouched, ActiveCounts, Running
<1>4. QueueMatchesMap
  BY DEF Init, QueueMatchesMap, Range, IsInjective
<1>5. QED
  BY <1>1, <1>2, <1>3, <1>4 DEF IInv

\* Every step preserves the invariant.
LEMMA NextInv == IInv /\ [Next]_vars => IInv'
<1> SUFFICES ASSUME IInv, [Next]_vars PROVE IInv'
  OBVIOUS
<1>1. CASE \E u \in User, b \in Batch, n \in 1..MaxTargets : enqueueBatch(u, b, n)
  BY <1>1, enqueueKeeps
<1>2. CASE \E u \in User, b \in Batch, n \in 1..(Len(queuedBatchIDs) + 1) :
            reorderQueuedBatch(u, b, n)
  <2>1. Len(queuedBatchIDs) \in Nat
    BY DEF IInv, TypeOK
  <2>2. QED
    BY <1>2, <2>1, reorderKeeps
<1>3. CASE \E u \in User, b \in Batch : cancelQueuedBatch(u, b)
  BY <1>3, cancelKeeps
<1>4. CASE \E u \in User : dropUserBatches(u)
  BY <1>4, dropKeeps
<1>5. CASE otherScan
  BY <1>5, otherKeeps
<1>6. CASE \E r \in Runner, u \in User : pickBatch(r, u)
  BY <1>6, pickKeeps
<1>7. CASE \E r \in Runner : runnerExits(r)
  BY <1>7, exitKeeps
<1>8. CASE \E r \in Runner : lockFree(r)
  BY <1>8, freeKeeps
<1>9. CASE \E r \in Runner : lockBlocks(r)
  BY <1>9, blocksKeeps
<1>10. CASE \E r \in Runner : updateQueuedBatchMessage(r)
  BY <1>10, messageKeeps
<1>11. CASE \E r \in Runner : activateQueuedBatch(r)
  BY <1>11, activateKeeps
<1>12. CASE \E r \in Runner : takeSnapshot(r)
  BY <1>12, snapshotKeeps
<1>13. CASE \E r \in Runner, job \in BOOLEAN : startTarget(r, job)
  BY <1>13, startKeeps
<1>14. CASE \E r \in Runner, err \in BOOLEAN, result \in Result :
            finishTarget(r, err, result)
  BY <1>14, finishTargetKeeps
<1>15. CASE \E r \in Runner : closeBatch(r)
  BY <1>15, closeKeeps
<1>16. CASE \E r \in Runner : finishBatch(r)
  BY <1>16, finishKeeps
<1>17. CASE UNCHANGED vars
  <2>1. UNCHANGED <<batches, queuedBatchIDs, activeBatchID, queueRunnerActive>>
    BY <1>17 DEF vars
  <2>2. UNCHANGED <<pc, picked, left, gotJob, lockBusy>>
    BY <1>17 DEF vars
  <2>3. TypeOK' /\ QueueMatchesMap'
    BY <2>1, <2>2 DEF IInv, TypeOK, QueueMatchesMap
  <2>4. OneRunner' /\ FlagTellsTruth' /\ PhaseOfRunner'
    BY <2>1, <2>2 DEF IInv, OneRunner, FlagTellsTruth, Alive, PhaseOfRunner
  <2>5. WaitingIsUntouched' /\ ActiveCounts'
    BY <2>1, <2>2 DEF IInv, WaitingIsUntouched, ActiveCounts, LoopCounts
  <2>6. QED
    BY <2>3, <2>4, <2>5 DEF IInv
<1>18. QED
  BY <1>1, <1>2, <1>3, <1>4, <1>5, <1>6, <1>7, <1>8, <1>9, <1>10, <1>11, <1>12, <1>13, <1>14, <1>15, <1>16, <1>17
     DEF Next, Handler, RunnerStep

\* The invariant holds in every reachable state.
THEOREM Invariance == Spec => []IInv
<1>1. QED
  BY InitInv, NextInv, PTL DEF Spec

\* Every variable keeps its type, whatever the handlers and the runner do; the
\* counters of a batch never pass its number of targets.
THEOREM TypeCorrect == Spec => []TypeOK
<1>1. IInv => TypeOK
  BY DEF IInv
<1>2. QED
  BY <1>1, Invariance, PTL

\* At most one goroutine executes runQueue.
THEOREM OneRunnerHolds == Spec => []OneRunner
<1>1. IInv => OneRunner
  BY DEF IInv
<1>2. QED
  BY <1>1, Invariance, PTL

\* A queued batch always finds a live runner.
THEOREM NoLostWakeupHolds == Spec => []NoLostWakeup
<1>1. IInv => NoLostWakeup
  BY DEF IInv, FlagTellsTruth, Alive, NoLostWakeup
<1>2. QED
  BY <1>1, Invariance, PTL

\* Nothing takes the active batch away from the runner that scans it.
THEOREM ActiveBelongsToRunnerHolds == Spec => []ActiveBelongsToRunner
<1>1. ASSUME IInv PROVE ActiveBelongsToRunner
  <2>1. \A r \in Runner : pc[r] \in Running => activeBatchID = picked[r]
    BY <1>1 DEF IInv, PhaseOfRunner
  <2>2. ASSUME activeBatchID # None
        PROVE  /\ \E r \in Runner : pc[r] \in Running /\ picked[r] = activeBatchID
               /\ batches[activeBatchID] # None
               /\ batches[activeBatchID].status # "queued"
               /\ batches[activeBatchID].message \notin {"Queued", "LockWait"}
    <3>1. PICK r \in Runner : pc[r] \in Running
      BY <1>1, <2>2 DEF IInv, PhaseOfRunner
    <3>2. activeBatchID = picked[r]
      BY <2>1, <3>1
    <3>3. batches[picked[r]] # None /\ LoopCounts(r, batches[picked[r]])
      BY <1>1, <3>1 DEF IInv, ActiveCounts
    <3>4. QED
      BY <3>1, <3>2, <3>3 DEF LoopCounts
  <2>3. QED
    BY <2>1, <2>2 DEF ActiveBelongsToRunner
<1>2. QED
  BY <1>1, Invariance, PTL

\* The queue lists each waiting batch of the map once, and the map holds no
\* other batch but the active one.
THEOREM QueueMatchesMapHolds == Spec => []QueueMatchesMap
<1>1. IInv => QueueMatchesMap
  BY DEF IInv
<1>2. QED
  BY <1>1, Invariance, PTL

\* A target without a job id is counted as failed, and a batch closed as
\* finished has a job for every target.
THEOREM FailuresAreCountedHolds == Spec => []FailuresAreCounted
<1>1. ASSUME IInv PROVE FailuresAreCounted
  <2> SUFFICES ASSUME NEW b \in Batch, batches[b] # None
               PROVE  /\ batches[b].completed <= batches[b].jobs + batches[b].failed
                      /\ batches[b].status = "finished" =>
                            batches[b].completed = batches[b].jobs
    BY DEF FailuresAreCounted
  <2>1. batches[b] \in BatchRecord
    BY <1>1 DEF IInv, TypeOK
  <2>2. CASE b # activeBatchID
    BY <1>1, <2>2 DEF IInv, WaitingIsUntouched
  <2>3. CASE b = activeBatchID
    <3>1. PICK r \in Runner : pc[r] \in Running
      BY <1>1, <2>3, NoneAssumption DEF IInv, PhaseOfRunner
    <3>2. LoopCounts(r, batches[b])
      BY <1>1, <2>3, <3>1 DEF IInv, ActiveCounts, PhaseOfRunner
    <3>3. pc[r] \in {"snapshot", "target", "wait", "finish"}
      BY <3>1 DEF Running
    <3>4. QED
      BY <2>1, <3>2, <3>3 DEF LoopCounts, BatchRecord
  <2>4. QED
    BY <2>2, <2>3
<1>2. QED
  BY <1>1, Invariance, PTL


\* Only finishBatch takes activeBatchID away from a batch.
LEMMA OnlyFinishBatchClears ==
  ASSUME IInv, [Next]_vars, activeBatchID # None, activeBatchID' # activeBatchID
  PROVE  \E r \in Runner : finishBatch(r)
<1>1. \A r \in Runner : pc[r] # "activate"
  BY DEF IInv, PhaseOfRunner, Scheduling
<1>2. ASSUME NEW r \in Runner PROVE RunnerStep(r) => finishBatch(r)
  BY <1>1 DEF RunnerStep, pickBatch, runnerExits, lockFree, lockBlocks, queueVars,
              updateQueuedBatchMessage, activateQueuedBatch, takeSnapshot,
              startTarget, finishTarget, closeBatch
<1>3. ~Handler /\ ~otherScan /\ ~UNCHANGED vars
  BY DEF Handler, enqueueBatch, reorderQueuedBatch, cancelQueuedBatch, dropUserBatches,
         otherScan, queueVars, vars
<1>4. QED
  BY <1>2, <1>3 DEF Next

\* An active batch is left only after all its targets, with its verdict.
THEOREM ActiveRunsToVerdictHolds == Spec => ActiveRunsToVerdict
<1> DEFINE A == activeBatchID # None /\ activeBatchID' # activeBatchID =>
                  /\ activeBatchID' = None
                  /\ batches[activeBatchID].completed = batches[activeBatchID].targets
                  /\ batches[activeBatchID].status \in {"failed", "finished"}
<1>1. ASSUME IInv, [Next]_vars PROVE A
  <2> SUFFICES ASSUME activeBatchID # None, activeBatchID' # activeBatchID
               PROVE  /\ activeBatchID' = None
                      /\ batches[activeBatchID].completed = batches[activeBatchID].targets
                      /\ batches[activeBatchID].status \in {"failed", "finished"}
    OBVIOUS
  <2>1. PICK r \in Runner : finishBatch(r)
    BY <1>1, OnlyFinishBatchClears
  <2>2. pc[r] = "finish" /\ activeBatchID = picked[r]
    BY <1>1, <2>1 DEF finishBatch, IInv, PhaseOfRunner, Running
  <2>3. LoopCounts(r, batches[activeBatchID])
    BY <1>1, <2>2 DEF IInv, ActiveCounts, Running
  <2>4. activeBatchID' = None
    BY <2>1, <2>2 DEF finishBatch
  <2>5. QED
    BY <2>2, <2>3, <2>4 DEF LoopCounts
<1>2. IInv /\ [Next]_vars => [A]_vars
  BY <1>1
<1>3. QED
  BY <1>2, Invariance, PTL DEF Spec, ActiveRunsToVerdict

-----------------------------------------------------------------------------
(* The lists of the users.                                                 *)

\* The ids at the positions S of q by their numbers, as listQueueItems shows them.
Numbered(q, S) ==
    [k \in 1..Cardinality(S) |-> q[CHOOSE i \in S : queueNumber(S, i) = k]]

\* f visits the positions S in increasing order.
Visits(f, n, S) ==
    /\ f \in [1..n -> S]
    /\ \A j, k \in 1..n : j < k => f[j] < f[k]
    /\ \A i \in S : \E k \in 1..n : f[k] = i

\* The numbers of the positions are 1 to their count, in their order.
LEMMA NumberFacts ==
  ASSUME NEW S \in SUBSET Int, IsFiniteSet(S)
  PROVE  /\ Cardinality(S) \in Nat
         /\ \A i \in S : queueNumber(S, i) \in 1..Cardinality(S)
         /\ \A i, j \in S : i < j => queueNumber(S, i) < queueNumber(S, j)
         /\ \A k \in 1..Cardinality(S) : \E i \in S : queueNumber(S, i) = k
<1> DEFINE upTo(i) == {j \in S : j <= i}
           n == Cardinality(S)
           h == [i \in S |-> queueNumber(S, i)]
<1>1. n \in Nat
  BY FS_CardinalityType
<1>2. ASSUME NEW i \in S PROVE queueNumber(S, i) \in 1..n
  <2>1. upTo(i) \in SUBSET S /\ i \in upTo(i)
    OBVIOUS
  <2>2. IsFiniteSet(upTo(i)) /\ Cardinality(upTo(i)) <= n
    BY <2>1, FS_Subset
  <2>3. Cardinality(upTo(i)) \in Nat /\ Cardinality(upTo(i)) # 0
    BY <2>1, <2>2, FS_CardinalityType, FS_EmptySet
  <2>4. QED
    BY <1>1, <2>2, <2>3 DEF queueNumber
<1>3. ASSUME NEW i \in S, NEW j \in S, i < j
      PROVE  queueNumber(S, i) < queueNumber(S, j)
  <2>1. upTo(i) \in SUBSET upTo(j) /\ j \in upTo(j) /\ j \notin upTo(i)
    <3>1. \A k \in S : k \in Int
      OBVIOUS
    <3>2. i \in Int /\ j \in Int /\ j <= j /\ ~(j <= i) /\ \A k \in S : k <= i => k <= j
      BY <1>3, <3>1
    <3>3. QED
      BY <3>2
  <2>2. IsFiniteSet(upTo(j))
    BY FS_Subset
  <2>3. /\ Cardinality(upTo(i)) <= Cardinality(upTo(j))
        /\ Cardinality(upTo(j)) # Cardinality(upTo(i))
    BY <2>1, <2>2, FS_Subset
  <2>4. queueNumber(S, i) \in Nat /\ queueNumber(S, j) \in Nat
    BY <1>2
  <2>5. QED
    BY <2>3, <2>4 DEF queueNumber
<1>4. h \in Injection(S, 1..n)
  <2>1. h \in [S -> 1..n]
    BY <1>2
  <2>2. \A i, j \in S : h[i] = h[j] => i = j
    BY <1>2, <1>3
  <2>3. QED
    BY <2>1, <2>2 DEF Injection, IsInjective
<1>5. IsFiniteSet(1..n) /\ Cardinality(1..n) = n
  BY <1>1, FS_Interval
<1>6. h \in Surjection(S, 1..n)
  BY <1>4, <1>5, FS_Injection
<1>7. \A k \in 1..n : \E i \in S : h[i] = k
  BY <1>6 DEF Surjection
<1>8. QED
  BY <1>1, <1>2, <1>3, <1>7

\* The k-th position visited has number k.
LEMMA VisitsFacts ==
  ASSUME NEW S \in SUBSET Int, NEW n \in Nat, NEW f, Visits(f, n, S)
  PROVE  /\ IsFiniteSet(S) /\ Cardinality(S) = n
         /\ \A k \in 1..n : queueNumber(S, f[k]) = k
<1>1. /\ f \in [1..n -> S]
      /\ \A j, k \in 1..n : j < k => f[j] < f[k]
      /\ \A i \in S : \E k \in 1..n : f[k] = i
  BY DEF Visits
<1>2. \A k \in 1..n : f[k] \in S /\ f[k] \in Int
  BY <1>1
<1>3. \A j, k \in 1..n : f[j] = f[k] => j = k
  BY <1>1, <1>2
<1>4. ASSUME NEW T \in SUBSET S, NEW m \in 0..n, \A k \in 1..n : f[k] \in T <=> k <= m
      PROVE  IsFiniteSet(T) /\ Cardinality(T) = m
  <2> DEFINE g == [k \in 1..m |-> f[k]]
  <2>1. \A k \in 1..m : k \in 1..n /\ f[k] \in T
    BY <1>4
  <2>2. g \in [1..m -> T]
    BY <2>1
  <2>3. \A j, k \in 1..m : g[j] = g[k] => j = k
    BY <1>3, <2>1
  <2>4. \A i \in T : \E k \in 1..m : g[k] = i
    <3> SUFFICES ASSUME NEW i \in T PROVE \E k \in 1..m : g[k] = i
      OBVIOUS
    <3>1. PICK k \in 1..n : f[k] = i
      BY <1>1
    <3>2. k \in 1..m
      BY <1>4, <3>1
    <3>3. QED
      BY <3>1, <3>2
  <2>5. g \in Bijection(1..m, T)
    BY <2>2, <2>3, <2>4 DEF Bijection, Injection, Surjection, IsInjective
  <2>6. ExistsBijection(1..m, T)
    BY <2>5 DEF ExistsBijection
  <2>7. IsFiniteSet(1..m) /\ Cardinality(1..m) = m
    BY FS_Interval
  <2>8. QED
    BY <2>6, <2>7, FS_Bijection
<1>5. IsFiniteSet(S) /\ Cardinality(S) = n
  BY <1>2, <1>4
<1>6. ASSUME NEW k \in 1..n PROVE queueNumber(S, f[k]) = k
  <2>1. \A j \in 1..n : f[j] \in {i \in S : i <= f[k]} <=> j <= k
    BY <1>1, <1>2
  <2>2. Cardinality({i \in S : i <= f[k]}) = k
    BY <1>4, <2>1
  <2>3. QED
    BY <2>2 DEF queueNumber
<1>7. QED
  BY <1>5, <1>6

\* What is numbered is what a loop finds.
LEMMA NumberedIs ==
  ASSUME NEW q, NEW S \in SUBSET Int, NEW n \in Nat, NEW f, Visits(f, n, S)
  PROVE  Numbered(q, S) = [k \in 1..n |-> q[f[k]]]
<1>1. /\ IsFiniteSet(S) /\ Cardinality(S) = n
      /\ \A k \in 1..n : queueNumber(S, f[k]) = k
  BY VisitsFacts
<1>2. /\ \A i \in S : queueNumber(S, i) \in 1..n
      /\ \A i, j \in S : i < j => queueNumber(S, i) < queueNumber(S, j)
  BY <1>1, NumberFacts
<1>3. \A k \in 1..n : f[k] \in S
  BY DEF Visits
<1>4. \A i, j \in S : queueNumber(S, i) = queueNumber(S, j) => i = j
  BY <1>2
<1>5. ASSUME NEW k \in 1..n PROVE (CHOOSE i \in S : queueNumber(S, i) = k) = f[k]
  <2>1. f[k] \in S /\ queueNumber(S, f[k]) = k
    BY <1>1, <1>3
  <2>2. QED
    BY <1>4, <2>1
<1>6. QED
  <2> DEFINE c(k) == CHOOSE i \in S : queueNumber(S, i) = k
  <2>1. Numbered(q, S) = [k \in 1..n |-> q[c(k)]]
    BY <1>1 DEF Numbered
  <2>2. \A k \in 1..n : c(k) = f[k]
    BY <1>5
  <2> HIDE DEF c
  <2>3. QED
    BY <2>1, <2>2

\* There is such a loop.
LEMMA NumberedVisits ==
  ASSUME NEW S \in SUBSET Int, IsFiniteSet(S)
  PROVE  \E f : Visits(f, Cardinality(S), S)
<1> DEFINE n == Cardinality(S)
           f == [k \in 1..n |-> CHOOSE i \in S : queueNumber(S, i) = k]
<1>1. /\ n \in Nat
      /\ \A i \in S : queueNumber(S, i) \in 1..n
      /\ \A i, j \in S : i < j => queueNumber(S, i) < queueNumber(S, j)
      /\ \A k \in 1..n : \E i \in S : queueNumber(S, i) = k
  BY NumberFacts
<1>2. \A k \in 1..n : f[k] \in S /\ queueNumber(S, f[k]) = k
  BY <1>1
<1>3. \A i \in S : f[queueNumber(S, i)] = i
  <2> SUFFICES ASSUME NEW i \in S PROVE f[queueNumber(S, i)] = i
    OBVIOUS
  <2>1. queueNumber(S, i) \in 1..n
    BY <1>1
  <2>2. f[queueNumber(S, i)] \in S /\ queueNumber(S, f[queueNumber(S, i)]) = queueNumber(S, i)
    BY <1>2, <2>1
  <2>3. \A j \in S : j \in Int /\ queueNumber(S, j) \in Int
    BY <1>1
  <2>4. \A j \in S : queueNumber(S, j) = queueNumber(S, i) => j = i
    BY <1>1, <2>3
  <2> HIDE DEF f, n
  <2>5. QED
    BY <2>2, <2>4
<1>4. \A j, k \in 1..n : j < k => f[j] < f[k]
  <2> SUFFICES ASSUME NEW j \in 1..n, NEW k \in 1..n, j < k PROVE f[j] < f[k]
    OBVIOUS
  <2>1. /\ f[j] \in S /\ queueNumber(S, f[j]) = j
        /\ f[k] \in S /\ queueNumber(S, f[k]) = k
    BY <1>2
  <2> HIDE DEF f, n
  <2>2. f[j] \in Int /\ f[k] \in Int
    BY <2>1
  <2>3. f[j] # f[k]
    BY <2>1
  <2>4. ~(f[k] < f[j])
    <3> SUFFICES ASSUME f[k] < f[j] PROVE FALSE
      OBVIOUS
    <3>1. queueNumber(S, f[k]) < queueNumber(S, f[j])
      BY <1>1, <2>1
    <3>2. QED
      BY <2>1, <3>1
  <2>5. QED
    BY <2>2, <2>3, <2>4
<1>5. f \in [1..n -> S]
  BY <1>2
<1>6. Visits(f, n, S)
  <2>1. \A i \in S : \E k \in 1..n : f[k] = i
    BY <1>1, <1>3
  <2> HIDE DEF f, n
  <2>2. QED
    BY <1>4, <1>5, <2>1 DEF Visits
<1>7. QED
  BY <1>6

\* Positions of a slice.
LEMMA PositionFacts ==
  ASSUME NEW B, NEW q \in Seq(B), NEW S \in SUBSET DOMAIN q
  PROVE  /\ Len(q) \in Nat /\ DOMAIN q = 1..Len(q)
         /\ S \in SUBSET Int /\ IsFiniteSet(S) /\ Cardinality(S) \in Nat
<1>1. Len(q) \in Nat /\ DOMAIN q = 1..Len(q)
  OBVIOUS
<1>2. IsFiniteSet(1..Len(q))
  BY <1>1, FS_Interval
<1>3. IsFiniteSet(S)
  BY <1>1, <1>2, FS_Subset
<1>4. QED
  BY <1>1, <1>3, FS_CardinalityType

\* An enumeration in increasing order visits each position once, in order.
LEMMA AscendingVisits ==
  ASSUME NEW B, NEW q \in Seq(B), NEW S \in SUBSET DOMAIN q, NEW f \in Ascending(S)
  PROVE  Visits(f, Cardinality(S), S)
BY AscendingFacts DEF Ascending, Visits

\* A list depends on the ids at its positions only.
LEMMA SameNumbered ==
  ASSUME NEW q, NEW r, NEW S \in SUBSET Int, IsFiniteSet(S), \A i \in S : q[i] = r[i]
  PROVE  Numbered(q, S) = Numbered(r, S)
<1>1. PICK f : Visits(f, Cardinality(S), S)
  BY NumberedVisits
<1>2. Cardinality(S) \in Nat
  BY FS_CardinalityType
<1>3. /\ Numbered(q, S) = [k \in 1..Cardinality(S) |-> q[f[k]]]
      /\ Numbered(r, S) = [k \in 1..Cardinality(S) |-> r[f[k]]]
  BY <1>1, <1>2, NumberedIs
<1>4. \A k \in 1..Cardinality(S) : q[f[k]] = r[f[k]]
  BY <1>1 DEF Visits
<1>5. QED
  BY <1>3, <1>4

\* An id put at the end of the slice is put at the end of the list.
LEMMA AppendedNumbered ==
  ASSUME NEW B, NEW q \in Seq(B), NEW x \in B, NEW S \in SUBSET DOMAIN q
  PROVE  Numbered(Append(q, x), S \cup {Len(q) + 1}) = Append(Numbered(q, S), x)
<1> DEFINE n == Cardinality(S)
           l == Len(q) + 1
           r == Append(q, x)
<1>1. /\ Len(q) \in Nat /\ DOMAIN q = 1..Len(q) /\ n \in Nat
      /\ S \in SUBSET Int /\ IsFiniteSet(S)
  BY PositionFacts
<1>2. PICK f : Visits(f, n, S)
  BY <1>1, NumberedVisits
<1> DEFINE g == [k \in 1..(n + 1) |-> IF k <= n THEN f[k] ELSE l]
<1>3. /\ f \in [1..n -> S]
      /\ \A j, k \in 1..n : j < k => f[j] < f[k]
      /\ \A i \in S : \E k \in 1..n : f[k] = i
  BY <1>2 DEF Visits
<1>4. \A k \in 1..n : f[k] \in S /\ f[k] \in 1..Len(q)
  BY <1>1, <1>3
<1>5. /\ \A k \in 1..Len(q) : r[k] = q[k]
      /\ r[l] = x
  BY AppendProperties
<1> HIDE DEF n, r
<1>6. Visits(g, n + 1, S \cup {l})
  <2>1. g \in [1..(n + 1) -> S \cup {l}]
    BY <1>1, <1>4
  <2>2. \A j, k \in 1..(n + 1) : j < k => g[j] < g[k]
    <3> SUFFICES ASSUME NEW j \in 1..(n + 1), NEW k \in 1..(n + 1), j < k PROVE g[j] < g[k]
      OBVIOUS
    <3>1. j \in 1..n /\ g[j] = f[j]
      BY <1>1
    <3>2. CASE k <= n
      BY <1>1, <1>3, <3>1, <3>2
    <3>3. CASE ~(k <= n)
      BY <1>1, <1>4, <3>1, <3>3
    <3>4. QED
      BY <3>2, <3>3
  <2>3. \A i \in S : \E k \in 1..(n + 1) : g[k] = i
    <3> SUFFICES ASSUME NEW i \in S PROVE \E k \in 1..(n + 1) : g[k] = i
      OBVIOUS
    <3>1. PICK k \in 1..n : f[k] = i
      BY <1>3
    <3>2. k \in 1..(n + 1) /\ g[k] = i
      BY <1>1, <3>1
    <3>3. QED
      BY <3>2
  <2>4. n + 1 \in 1..(n + 1) /\ g[n + 1] = l
    BY <1>1
  <2> HIDE DEF g
  <2>5. QED
    BY <2>1, <2>2, <2>3, <2>4 DEF Visits
<1>7. S \cup {l} \in SUBSET Int /\ n + 1 \in Nat
  BY <1>1
<1>8. Numbered(r, S \cup {l}) = [k \in 1..(n + 1) |-> r[g[k]]]
  <2> HIDE DEF g, l
  <2>1. QED
    BY <1>6, <1>7, NumberedIs
<1>9. \A k \in 1..(n + 1) : r[g[k]] = IF k <= n THEN q[f[k]] ELSE x
  BY <1>1, <1>4, <1>5
<1>10. Numbered(q, S) = [k \in 1..n |-> q[f[k]]]
  BY <1>1, <1>2, NumberedIs
<1> DEFINE s == [k \in 1..n |-> q[f[k]]]
<1>11. s \in Seq(B) /\ Len(s) = n /\ \A k \in 1..n : s[k] = q[f[k]]
  BY <1>1, <1>4
<1>12. Append(s, x) = [k \in 1..(n + 1) |-> IF k <= n THEN q[f[k]] ELSE x]
  <2> HIDE DEF s
  <2> DEFINE a == Append(s, x)
  <2>1. /\ a \in Seq(B) /\ Len(a) = n + 1
        /\ \A k \in 1..n : a[k] = s[k]
        /\ a[n + 1] = x
    BY <1>11, AppendProperties
  <2> HIDE DEF a
  <2>2. a = [k \in 1..(n + 1) |-> a[k]]
    BY <2>1
  <2>3. \A k \in 1..(n + 1) : a[k] = IF k <= n THEN q[f[k]] ELSE x
    BY <1>1, <1>11, <2>1
  <2>4. a = [k \in 1..(n + 1) |-> IF k <= n THEN q[f[k]] ELSE x]
    BY <2>2, <2>3
  <2>5. QED
    BY <2>4 DEF a
<1> HIDE DEF g, s, l
<1>13. QED
  BY <1>8, <1>9, <1>10, <1>12 DEF r, l, s

\* Inserting an element shifts the positions from there on.
LEMMA InsertAtIs ==
  ASSUME NEW B, NEW s \in Seq(B), NEW i \in 1..(Len(s) + 1), NEW x \in B
  PROVE  /\ InsertAt(s, i, x) \in Seq(B)
         /\ DOMAIN InsertAt(s, i, x) = 1..(Len(s) + 1)
         /\ \A k \in 1..(Len(s) + 1) :
               InsertAt(s, i, x)[k] = IF k < i THEN s[k] ELSE IF k = i THEN x ELSE s[k - 1]
<1> DEFINE n == Len(s)
           front == SubSeq(s, 1, i - 1)
           mid == <<x>>
           back == SubSeq(s, i, n)
           head == front \o mid
           r == head \o back
<1>1. n \in Nat /\ i \in 1..(n + 1)
  OBVIOUS
<1>2. /\ front \in Seq(B) /\ Len(front) = i - 1
      /\ \A k \in 1..(i - 1) : front[k] = s[k]
  <2>1. \A k \in 1..(i - 1) : s[k] \in B
    BY <1>1
  <2>2. QED
    BY <1>1, <2>1, SubSeqProperties
<1>3. /\ back \in Seq(B) /\ Len(back) = n - i + 1
      /\ \A k \in 1..(n - i + 1) : back[k] = s[i + k - 1]
  BY <1>1, SubSeqProperties
<1>4. mid \in Seq(B) /\ Len(mid) = 1 /\ mid[1] = x
  OBVIOUS
<1> HIDE DEF front, back, mid, n
<1>5. /\ head \in Seq(B) /\ Len(head) = i
      /\ \A k \in 1..i : head[k] = IF k < i THEN s[k] ELSE x
  <2>1. /\ head \in Seq(B) /\ Len(head) = Len(front) + Len(mid)
        /\ \A k \in 1..(Len(front) + Len(mid)) :
              head[k] = IF k <= Len(front) THEN front[k] ELSE mid[k - Len(front)]
    BY <1>2, <1>4, ConcatProperties, Zenon
  <2> HIDE DEF head
  <2>2. QED
    BY <1>1, <1>2, <1>4, <2>1
<1> HIDE DEF head
<1>6. /\ r \in Seq(B) /\ Len(r) = n + 1
      /\ \A k \in 1..(n + 1) : r[k] = IF k < i THEN s[k] ELSE IF k = i THEN x ELSE s[k - 1]
  <2>1. /\ r \in Seq(B) /\ Len(r) = Len(head) + Len(back)
        /\ \A k \in 1..(Len(head) + Len(back)) :
              r[k] = IF k <= Len(head) THEN head[k] ELSE back[k - Len(head)]
    BY <1>3, <1>5, ConcatProperties, Zenon
  <2> HIDE DEF r
  <2>2. Len(head) + Len(back) = n + 1
    BY <1>1, <1>3, <1>5
  <2>3. ASSUME NEW k \in 1..(n + 1)
        PROVE  r[k] = IF k < i THEN s[k] ELSE IF k = i THEN x ELSE s[k - 1]
    <3>1. CASE k <= i
      BY <1>1, <1>5, <2>1, <2>2, <3>1
    <3>2. CASE ~(k <= i)
      <4>1. k - i \in 1..(n - i + 1) /\ i + (k - i) - 1 = k - 1
        BY <1>1, <3>2
      <4>2. r[k] = back[k - i]
        BY <1>1, <1>5, <2>1, <2>2, <3>2
      <4>3. back[k - i] = s[i + (k - i) - 1]
        BY <1>3, <4>1
      <4>4. QED
        BY <1>1, <3>2, <4>1, <4>2, <4>3
    <3>3. QED
      BY <3>1, <3>2
  <2>4. QED
    BY <2>1, <2>2, <2>3
<1>7. InsertAt(s, i, x) = r
  BY DEF InsertAt, r, head, front, mid, back, n
<1> HIDE DEF r
<1>8. DOMAIN r = 1..(n + 1)
  BY <1>6
<1>9. QED
  BY <1>6, <1>7, <1>8 DEF n

\* Moving an element is taking it out and putting it in again.
LEMMA PutBackIs ==
  ASSUME NEW B, NEW s \in Seq(B), NEW t \in Seq(B), NEW n \in Nat, Len(s) = n, Len(t) + 1 = n,
         NEW from \in 1..n, NEW to \in 1..n,
         \A k \in 1..(n - 1) : t[k] = IF k < from THEN s[k] ELSE s[k + 1]
  PROVE  Moved(s, from, to) = InsertAt(t, to, s[from])
<1> DEFINE r == InsertAt(t, to, s[from])
<1>1. DOMAIN s = 1..n /\ s[from] \in B /\ to \in 1..(Len(t) + 1)
  OBVIOUS
<1>2. \A k \in 1..(n - 1) : t[k] = IF k < from THEN s[k] ELSE s[k + 1]
  OBVIOUS
<1>3. r \in Seq(B) /\ DOMAIN r = 1..(Len(t) + 1)
  BY <1>1, InsertAtIs
<1>4. \A k \in 1..(Len(t) + 1) :
         r[k] = IF k < to THEN t[k] ELSE IF k = to THEN s[from] ELSE t[k - 1]
  BY <1>1, InsertAtIs
<1> HIDE DEF r
<1>5. /\ r \in Seq(B) /\ DOMAIN r = 1..n
      /\ \A k \in 1..n : r[k] = IF k < to THEN t[k] ELSE IF k = to THEN s[from] ELSE t[k - 1]
  BY <1>3, <1>4
<1>6. ASSUME NEW k \in 1..n PROVE Moved(s, from, to)[k] = r[k]
  <2>1. CASE k < to
    <3>1. k \in 1..(n - 1) /\ r[k] = t[k]
      BY <1>1, <1>5, <2>1
    <3>2. r[k] = IF k < from THEN s[k] ELSE s[k + 1]
      BY <1>2, <3>1
    <3>3. Moved(s, from, to)[k] = IF from <= k THEN s[k + 1] ELSE s[k]
      BY <1>1, <2>1 DEF Moved
    <3>4. QED
      BY <1>1, <3>2, <3>3
  <2>2. CASE k = to
    BY <1>1, <1>5, <2>2 DEF Moved
  <2>3. CASE k > to
    <3>1. k - 1 \in 1..(n - 1) /\ r[k] = t[k - 1]
      BY <1>1, <1>5, <2>3
    <3>2. t[k - 1] = IF k - 1 < from THEN s[k - 1] ELSE s[k]
      BY <1>1, <1>2, <3>1
    <3>3. QED
      BY <1>1, <2>3, <3>1, <3>2 DEF Moved
  <2>4. QED
    BY <1>1, <2>1, <2>2, <2>3
<1>7. DOMAIN Moved(s, from, to) = 1..n /\ Moved(s, from, to) = [k \in 1..n |-> Moved(s, from, to)[k]]
  BY <1>1 DEF Moved
<1>8. r = [k \in 1..n |-> r[k]]
  BY <1>5
<1>9. Moved(s, from, to) = r
  BY <1>6, <1>7, <1>8
<1>10. QED
  BY <1>9 DEF r

\* Moved takes the element out and puts it back at its new place.
LEMMA MovedIs ==
  ASSUME NEW B, NEW s \in Seq(B), NEW from \in DOMAIN s, NEW to \in DOMAIN s
  PROVE  Moved(s, from, to) = InsertAt(RemoveAt(s, from), to, s[from])
<1> DEFINE n == Len(s)
           t == RemoveAt(s, from)
<1>1. n \in Nat /\ from \in 1..n /\ to \in 1..n
  OBVIOUS
<1>2. /\ t \in Seq(B) /\ DOMAIN t = 1..(n - 1)
      /\ \A k \in 1..(n - 1) : t[k] = IF k < from THEN s[k] ELSE s[k + 1]
  BY RemoveAtIs
<1> HIDE DEF t
<1>3. Len(t) + 1 = n
  <2>1. DOMAIN t = 1..Len(t) /\ Len(t) \in Nat
    BY <1>2
  <2>2. QED
    BY <1>1, <1>2, <2>1
<1>4. Moved(s, from, to) = InsertAt(t, to, s[from])
  BY <1>1, <1>2, <1>3, PutBackIs
<1>5. QED
  BY <1>4 DEF t

\* The positions of r = RemoveAt(q, i) that hold what the positions S of q held.
Shifted(S, i, n) == {k \in 1..(n - 1) : IF k < i THEN k \in S ELSE k + 1 \in S}

\* An id taken out of the slice is taken out of its list, and of no other.
LEMMA RemovedNumbered ==
  ASSUME NEW B, NEW q \in Seq(B), NEW i \in DOMAIN q, NEW S \in SUBSET DOMAIN q
  PROVE  LET r == RemoveAt(q, i)
             T == Shifted(S, i, Len(q))
             s == Numbered(q, S)
         IN  /\ i \notin S => Numbered(r, T) = s
             /\ i \in S => \E m \in DOMAIN s : s[m] = q[i] /\ Numbered(r, T) = RemoveAt(s, m)
<1> DEFINE n == Cardinality(S)
           l == Len(q)
           r == RemoveAt(q, i)
           T == Shifted(S, i, l)
           s == Numbered(q, S)
<1>1. /\ l \in Nat /\ DOMAIN q = 1..l /\ n \in Nat /\ i \in 1..l
      /\ S \in SUBSET Int /\ IsFiniteSet(S)
  BY PositionFacts
<1>2. PICK f : Visits(f, n, S)
  BY <1>1, NumberedVisits
<1>3. /\ f \in [1..n -> S]
      /\ \A j, k \in 1..n : j < k => f[j] < f[k]
      /\ \A p \in S : \E k \in 1..n : f[k] = p
  BY <1>2 DEF Visits
<1>4. \A k \in 1..n : f[k] \in S /\ f[k] \in 1..l
  BY <1>1, <1>3
<1>5. s = [k \in 1..n |-> q[f[k]]]
  BY <1>1, <1>2, NumberedIs
<1>6. \A k \in 1..(l - 1) : r[k] = IF k < i THEN q[k] ELSE q[k + 1]
  BY RemoveAtIs
<1>7. T \in SUBSET Int
  BY DEF Shifted
<1>8. \A p \in 1..l : p # i /\ p \in S =>
         LET t == IF p < i THEN p ELSE p - 1 IN t \in T /\ r[t] = q[p]
  <2> SUFFICES ASSUME NEW p \in 1..l, p # i, p \in S
               PROVE  LET t == IF p < i THEN p ELSE p - 1 IN t \in T /\ r[t] = q[p]
    OBVIOUS
  <2> HIDE DEF r
  <2>1. CASE p < i
    BY <1>1, <1>6, <2>1 DEF Shifted
  <2>2. CASE p > i
    <3>1. p - 1 \in 1..(l - 1) /\ ~(p - 1 < i) /\ ~(p < i) /\ (p - 1) + 1 = p
      BY <1>1, <2>2
    <3>2. QED
      BY <1>6, <3>1 DEF Shifted
  <2>3. QED
    BY <1>1, <2>1, <2>2
<1>9. \A t \in T : LET p == IF t < i THEN t ELSE t + 1 IN p \in S /\ p # i
  BY <1>1 DEF Shifted
<1> HIDE DEF n, l, r, T
<1>10. ASSUME i \notin S PROVE Numbered(r, T) = s
  <2> DEFINE g == [k \in 1..n |-> IF f[k] < i THEN f[k] ELSE f[k] - 1]
  <2>1. \A k \in 1..n : f[k] # i /\ g[k] \in T /\ r[g[k]] = q[f[k]]
    BY <1>4, <1>8, <1>10
  <2>2. \A j, k \in 1..n : j < k => g[j] < g[k]
    BY <1>1, <1>3, <1>4, <2>1
  <2>3. ASSUME NEW t \in T PROVE \E k \in 1..n : g[k] = t
    <3> DEFINE p == IF t < i THEN t ELSE t + 1
    <3>1. t \in Int /\ p \in S
      BY <1>7, <1>9
    <3>2. PICK k \in 1..n : f[k] = p
      BY <1>3, <3>1
    <3>3. g[k] = t
      BY <1>1, <3>1, <3>2
    <3>4. QED
      BY <3>3
  <2>4. g \in [1..n -> T]
    BY <2>1
  <2> HIDE DEF g
  <2>5. Visits(g, n, T)
    BY <2>2, <2>3, <2>4 DEF Visits
  <2>6. Numbered(r, T) = [k \in 1..n |-> r[g[k]]]
    BY <1>1, <1>7, <2>5, NumberedIs
  <2>7. QED
    BY <1>5, <2>1, <2>6
<1>11. ASSUME i \in S
       PROVE  \E m \in DOMAIN s : s[m] = q[i] /\ Numbered(r, T) = RemoveAt(s, m)
  <2>1. PICK m \in 1..n : f[m] = i
    BY <1>3, <1>11
  <2> DEFINE g == [k \in 1..(n - 1) |-> IF k < m THEN f[k] ELSE f[k + 1] - 1]
             h(k) == IF k < m THEN f[k] ELSE f[k + 1]
  <2>2. \A k \in 1..(n - 1) :
           /\ (IF k < m THEN k ELSE k + 1) \in 1..n
           /\ k < m => f[k] < i
           /\ ~(k < m) => i < f[k + 1]
    BY <1>1, <1>3, <2>1
  <2>3. \A k \in 1..(n - 1) : g[k] \in T /\ r[g[k]] = q[h(k)]
    <3> SUFFICES ASSUME NEW k \in 1..(n - 1) PROVE g[k] \in T /\ r[g[k]] = q[h(k)]
      OBVIOUS
    <3>1. h(k) \in 1..l /\ h(k) \in S /\ h(k) # i /\ (h(k) < i <=> k < m)
      <4>1. CASE k < m
        BY <1>1, <1>4, <2>2, <4>1
      <4>2. CASE ~(k < m)
        <5>1. k + 1 \in 1..n /\ h(k) = f[k + 1] /\ i < f[k + 1]
          BY <2>2, <4>2
        <5>2. f[k + 1] \in S /\ f[k + 1] \in 1..l
          BY <1>4, <5>1
        <5>3. QED
          BY <1>1, <4>2, <5>1, <5>2
      <4>3. QED
        BY <4>1, <4>2
    <3>2. g[k] = IF h(k) < i THEN h(k) ELSE h(k) - 1
      BY <3>1
    <3> HIDE DEF g, h
    <3>3. QED
      BY <1>8, <3>1, <3>2
  <2>4. \A j, k \in 1..(n - 1) : j < k => g[j] < g[k]
    <3> SUFFICES ASSUME NEW j \in 1..(n - 1), NEW k \in 1..(n - 1), j < k PROVE g[j] < g[k]
      OBVIOUS
    <3>1. j \in 1..n /\ k \in 1..n /\ j + 1 \in 1..n /\ k + 1 \in 1..n
      BY <1>1
    <3>2. /\ f[j] \in Int /\ f[k] \in Int /\ f[j + 1] \in Int /\ f[k + 1] \in Int /\ i \in Int
          /\ f[j] < f[k] /\ f[j + 1] < f[k + 1]
      BY <1>1, <1>3, <1>4, <3>1
    <3>3. QED
      BY <2>2, <3>1, <3>2
  <2>5. ASSUME NEW t \in T PROVE \E k \in 1..(n - 1) : g[k] = t
    <3> DEFINE p == IF t < i THEN t ELSE t + 1
    <3>1. t \in Int /\ p \in S /\ p # i
      BY <1>7, <1>9
    <3>2. PICK k \in 1..n : f[k] = p
      BY <1>3, <3>1
    <3>3. CASE t < i
      <4>1. k < m
        BY <1>1, <1>3, <2>1, <3>1, <3>2, <3>3
      <4>2. k \in 1..(n - 1) /\ g[k] = t
        BY <1>1, <2>1, <3>2, <3>3, <4>1
      <4>3. QED
        BY <4>2
    <3>4. CASE ~(t < i)
      <4>1. k > m
        BY <1>1, <1>3, <2>1, <3>1, <3>2, <3>4
      <4>2. k - 1 \in 1..(n - 1) /\ ~(k - 1 < m) /\ (k - 1) + 1 = k
        BY <1>1, <2>1, <4>1
      <4>3. g[k - 1] = t
        BY <1>1, <3>1, <3>2, <3>4, <4>2
      <4>4. QED
        BY <4>2, <4>3
    <3>5. QED
      BY <3>3, <3>4
  <2>6. g \in [1..(n - 1) -> T] /\ n - 1 \in Nat
    BY <1>1, <2>1, <2>3
  <2> HIDE DEF g
  <2>7. Visits(g, n - 1, T)
    BY <2>4, <2>5, <2>6 DEF Visits
  <2>8. Numbered(r, T) = [k \in 1..(n - 1) |-> r[g[k]]]
    BY <1>7, <2>6, <2>7, NumberedIs
  <2>9. s \in Seq(B) /\ DOMAIN s = 1..n /\ Len(s) = n
    BY <1>1, <1>4, <1>5
  <2> HIDE DEF s
  <2>10. /\ RemoveAt(s, m) \in Seq(B) /\ DOMAIN RemoveAt(s, m) = 1..(n - 1)
         /\ \A k \in 1..(n - 1) : RemoveAt(s, m)[k] = IF k < m THEN s[k] ELSE s[k + 1]
    BY <2>1, <2>9, RemoveAtIs
  <2>11. \A k \in 1..(n - 1) : RemoveAt(s, m)[k] = r[g[k]]
    BY <1>1, <1>5, <2>1, <2>2, <2>3, <2>10
  <2>12. RemoveAt(s, m) = [k \in 1..(n - 1) |-> RemoveAt(s, m)[k]]
    BY <2>10
  <2>13. Numbered(r, T) = RemoveAt(s, m)
    BY <2>8, <2>11, <2>12
  <2>14. s[m] = q[i]
    BY <1>5, <2>1
  <2>15. QED
    BY <2>1, <2>9, <2>13, <2>14
<1>12. QED
  BY <1>10, <1>11 DEF r, T, l, s

\* Dropping positions of others leaves a list as it is.
LEMMA KeptNumbered ==
  ASSUME NEW B, NEW q \in Seq(B), NEW G \in SUBSET DOMAIN q, NEW g \in Ascending(G),
         NEW S \in SUBSET G
  PROVE  Numbered(sliceAt(q, g), {k \in 1..Cardinality(G) : g[k] \in S}) = Numbered(q, S)
<1> DEFINE n == Cardinality(S)
           m == Cardinality(G)
           T == {k \in 1..m : g[k] \in S}
           r == sliceAt(q, g)
<1>1. /\ DOMAIN q = 1..Len(q) /\ n \in Nat
      /\ S \in SUBSET Int /\ IsFiniteSet(S)
  BY PositionFacts
<1>2. /\ m \in Nat /\ g \in [1..m -> G]
      /\ \A i \in G : \E k \in 1..m : g[k] = i
  BY AscendingFacts
<1>3. \A j, k \in 1..m : j < k => g[j] < g[k]
  BY DEF Ascending
<1>4. PICK f : Visits(f, n, S)
  BY <1>1, NumberedVisits
<1>5. /\ f \in [1..n -> S]
      /\ \A j, k \in 1..n : j < k => f[j] < f[k]
      /\ \A i \in S : \E k \in 1..n : f[k] = i
  BY <1>4 DEF Visits
<1>6. \A k \in 1..n : f[k] \in S /\ f[k] \in G /\ f[k] \in Int
  BY <1>1, <1>5
<1>7. \A k \in 1..m : g[k] \in Int /\ r[k] = q[g[k]]
  BY <1>1, <1>2 DEF sliceAt
<1> HIDE DEF n, m, r
<1> DEFINE e == [k \in 1..n |-> CHOOSE j \in 1..m : g[j] = f[k]]
<1>8. \A k \in 1..n : e[k] \in 1..m /\ g[e[k]] = f[k]
  BY <1>2, <1>6
<1>9. \A k \in 1..n : e[k] \in T /\ r[e[k]] = q[f[k]]
  BY <1>6, <1>7, <1>8
<1> HIDE DEF e
<1>10. e \in [1..n -> T]
  <2>1. e = [k \in 1..n |-> e[k]]
    BY DEF e
  <2>2. QED
    BY <1>9, <2>1
<1>11. \A j, k \in 1..n : j < k => e[j] < e[k]
  <2> SUFFICES ASSUME NEW j \in 1..n, NEW k \in 1..n, j < k PROVE e[j] < e[k]
    OBVIOUS
  <2>1. /\ e[j] \in 1..m /\ e[k] \in 1..m /\ g[e[j]] = f[j] /\ g[e[k]] = f[k] /\ f[j] < f[k]
        /\ f[j] \in Int /\ f[k] \in Int
    BY <1>5, <1>6, <1>8
  <2>2. e[j] # e[k] /\ ~(e[k] < e[j])
    BY <1>3, <2>1
  <2>3. QED
    BY <1>2, <2>1, <2>2
<1>12. ASSUME NEW t \in T PROVE \E k \in 1..n : e[k] = t
  <2>1. PICK k \in 1..n : f[k] = g[t]
    BY <1>5
  <2>2. e[k] \in 1..m /\ g[e[k]] = g[t] /\ t \in 1..m /\ g[t] \in Int
    BY <1>7, <1>8, <2>1
  <2>3. ~(e[k] < t) /\ ~(t < e[k])
    BY <1>3, <2>2
  <2>4. QED
    BY <1>2, <2>2, <2>3
<1>13. Visits(e, n, T)
  BY <1>10, <1>11, <1>12 DEF Visits
<1>14. T \in SUBSET Int
  BY <1>2
<1> HIDE DEF T
<1>15. Numbered(r, T) = [k \in 1..n |-> r[e[k]]]
  BY <1>1, <1>13, <1>14, NumberedIs
<1>16. Numbered(q, S) = [k \in 1..n |-> q[f[k]]]
  BY <1>1, <1>4, NumberedIs
<1>17. Numbered(r, T) = Numbered(q, S)
  BY <1>9, <1>15, <1>16
<1>18. QED
  BY <1>17 DEF r, T, m

\* A loop that keeps every position copies the slice.
LEMMA KeepsAll ==
  ASSUME NEW B, NEW q \in Seq(B), NEW r, Keeps(q, DOMAIN q, r)
  PROVE  r = q
<1> DEFINE S == DOMAIN q
           n == Len(q)
           id == [k \in 1..n |-> k]
<1>1. n \in Nat /\ S = 1..n /\ S \in SUBSET Int /\ Cardinality(S) \in Nat
  BY PositionFacts
<1>2. PICK f \in Ascending(S) : r = sliceAt(q, f)
  BY DEF Keeps
<1>3. Visits(f, Cardinality(S), S) /\ f \in [1..Cardinality(S) -> S]
  BY AscendingVisits, AscendingFacts
<1>4. Visits(id, n, S)
  BY <1>1 DEF Visits
<1> HIDE DEF S, n, id
<1>5. Cardinality(S) = n
  BY <1>1, <1>4, VisitsFacts
<1>6. Numbered(q, S) = [k \in 1..n |-> q[f[k]]]
  BY <1>1, <1>3, <1>5, NumberedIs
<1>7. Numbered(q, S) = [k \in 1..n |-> q[id[k]]]
  BY <1>1, <1>4, NumberedIs
<1>8. r = [k \in 1..n |-> q[f[k]]]
  BY <1>2, <1>3, <1>5 DEF sliceAt
<1>9. q = [k \in 1..n |-> q[id[k]]]
  <2>1. q = [k \in 1..n |-> q[k]]
    BY <1>1 DEF S
  <2>2. \A k \in 1..n : id[k] = k
    BY DEF id
  <2>3. QED
    BY <2>1, <2>2
<1>10. QED
  BY <1>6, <1>7, <1>8, <1>9

\* What is written to the positions of a list is the list then.
LEMMA WrittenNumbered ==
  ASSUME NEW B, NEW q \in Seq(B), NEW S \in SUBSET DOMAIN q, NEW f \in Ascending(S),
         NEW s \in [1..Cardinality(S) -> B]
  PROVE  /\ Numbered(q, S) = sliceAt(q, f)
         /\ Numbered(writeBack(q, f, s), S) = s
         /\ \A i \in DOMAIN q \ S : writeBack(q, f, s)[i] = q[i]
<1> DEFINE n == Cardinality(S)
           r == writeBack(q, f, s)
<1>1. n \in Nat /\ S \in SUBSET Int /\ Visits(f, n, S)
  BY PositionFacts, AscendingVisits
<1>2. /\ f \in [1..n -> S] /\ DOMAIN f = 1..n
      /\ \A j, k \in 1..n : f[j] = f[k] => j = k
  BY AscendingFacts
<1>3. ASSUME NEW k \in 1..n PROVE r[f[k]] = s[k]
  <2>1. f[k] \in DOMAIN q /\ k \in DOMAIN f
    BY <1>2
  <2>2. (CHOOSE j \in DOMAIN f : f[j] = f[k]) = k
    BY <1>2
  <2>3. QED
    BY <2>1, <2>2 DEF writeBack
<1>4. \A i \in DOMAIN q \ S : r[i] = q[i]
  BY <1>2 DEF writeBack
<1>5. Numbered(q, S) = [k \in 1..n |-> q[f[k]]]
  BY <1>1, NumberedIs
<1>6. sliceAt(q, f) = [k \in 1..n |-> q[f[k]]]
  BY <1>2 DEF sliceAt
<1> HIDE DEF r
<1>7. Numbered(r, S) = [k \in 1..n |-> r[f[k]]]
  BY <1>1, NumberedIs
<1>8. Numbered(r, S) = s
  <2> HIDE DEF n
  <2>1. s = [k \in 1..n |-> s[k]]
    BY DEF n
  <2>2. QED
    BY <1>3, <1>7, <2>1
<1>9. QED
  BY <1>4, <1>5, <1>6, <1>8 DEF r

-----------------------------------------------------------------------------
(* The queue as its users see it.                                          *)

Choosing == {"check", "note", "activate"}

\* Each user's list numbers the positions of the queue that are its own.
LEMMA ListsAre ==
  /\ WaitingLists = [u \in User |-> Numbered(queuedBatchIDs, slotsOf(u))]
  /\ WaitingLists' = [u \in User |-> Numbered(queuedBatchIDs', slotsOf(u)')]
BY DEF WaitingLists, listQueueItems, Numbered

\* A position of the queue belongs to the owner of its batch.
LEMMA SlotsAre ==
  IInv => \A u \in User :
             slotsOf(u) = {i \in DOMAIN queuedBatchIDs : batches[queuedBatchIDs[i]].user = u}
<1> SUFFICES ASSUME IInv, NEW u \in User
             PROVE  slotsOf(u) = {i \in DOMAIN queuedBatchIDs : batches[queuedBatchIDs[i]].user = u}
  OBVIOUS
<1>1. \A i \in DOMAIN queuedBatchIDs : queuedBatchIDs[i] \in Range(queuedBatchIDs)
  BY DEF Range
<1>2. \A i \in DOMAIN queuedBatchIDs : queuedBatchIDs[i] # None /\ batches[queuedBatchIDs[i]] # None
  BY <1>1, NoneAssumption DEF IInv, TypeOK, QueueMatchesMap
<1>3. QED
  BY <1>2 DEF slotsOf, Owns

\* The batch some user sees with number 0 is the active one.
LEMMA RunningIs == IInv => RunningBatch = activeBatchID
<1> SUFFICES ASSUME IInv PROVE RunningBatch = activeBatchID
  OBVIOUS
<1> DEFINE shown == {u \in User : listQueueItems(u).active # None}
<1>1. \A u : listQueueItems(u).active = IF Owns(u, activeBatchID) THEN activeBatchID ELSE None
  BY DEF listQueueItems
<1>2. CASE activeBatchID = None
  <2>1. shown = {}
    BY <1>1, <1>2
  <2>2. QED
    BY <1>2, <2>1 DEF RunningBatch
<1>3. CASE activeBatchID # None
  <2>1. PICK r \in Runner : pc[r] \in Running
    BY <1>3 DEF IInv, PhaseOfRunner
  <2>2. activeBatchID = picked[r] /\ picked[r] \in Batch /\ batches[picked[r]] # None
    BY <2>1 DEF IInv, PhaseOfRunner, ActiveCounts
  <2>3. batches[activeBatchID] \in BatchRecord
    BY <2>2 DEF IInv, TypeOK
  <2>4. batches[activeBatchID].user \in User
    BY <2>3 DEF BatchRecord
  <2>5. Owns(batches[activeBatchID].user, activeBatchID)
    BY <1>3, <2>2 DEF Owns
  <2>6. shown # {} /\ \A u \in shown : listQueueItems(u).active = activeBatchID
    BY <1>1, <1>3, <2>4, <2>5
  <2>7. (CHOOSE u \in shown : TRUE) \in shown
    BY <2>6
  <2>8. QED
    BY <2>6, <2>7 DEF RunningBatch
<1>4. QED
  BY <1>2, <1>3

\* The chosen batch is what the one live goroutine has picked and not started.
LEMMA ChosenIs ==
  IInv => /\ \A r \in Runner : pc[r] \in Choosing => ChosenBatch = picked[r]
          /\ (\A r \in Runner : pc[r] \notin Choosing) => ChosenBatch = None
<1> SUFFICES ASSUME IInv
             PROVE  /\ \A r \in Runner : pc[r] \in Choosing => ChosenBatch = picked[r]
                    /\ (\A r \in Runner : pc[r] \notin Choosing) => ChosenBatch = None
  OBVIOUS
<1> DEFINE busy == {r \in Runner : pc[r] \in {"check", "note", "activate"}}
<1>1. ChosenBatch = IF busy = {} THEN None ELSE picked[CHOOSE r \in busy : TRUE]
  BY DEF ChosenBatch
<1>2. ASSUME NEW r \in Runner, pc[r] \in Choosing PROVE ChosenBatch = picked[r]
  <2>1. r \in busy
    BY <1>2 DEF Choosing
  <2>2. \A s \in busy : s = r
    BY <1>2 DEF IInv, OneRunner, Choosing
  <2>3. (CHOOSE s \in busy : TRUE) = r
    BY <2>1, <2>2
  <2>4. QED
    BY <1>1, <2>1, <2>3
<1>3. ASSUME \A r \in Runner : pc[r] \notin Choosing PROVE ChosenBatch = None
  <2>1. busy = {}
    BY <1>3 DEF Choosing
  <2>2. QED
    BY <1>1, <2>1
<1>4. QED
  BY <1>2, <1>3

\* The same facts of the next state.
LEMMA ViewsThen ==
  IInv' =>
    /\ \A u \in User :
          slotsOf(u)' = {i \in DOMAIN queuedBatchIDs' : batches'[queuedBatchIDs'[i]].user = u}
    /\ RunningBatch' = activeBatchID'
    /\ \A r \in Runner : pc'[r] \in Choosing => ChosenBatch' = picked'[r]
    /\ (\A r \in Runner : pc'[r] \notin Choosing) => ChosenBatch' = None
<1>1. IInv' => (\A u \in User :
         slotsOf(u) = {i \in DOMAIN queuedBatchIDs : batches[queuedBatchIDs[i]].user = u})'
  BY SlotsAre, PTL
<1>2. IInv' => (RunningBatch = activeBatchID)'
  BY RunningIs, PTL
<1>3. IInv' => (/\ \A r \in Runner : pc[r] \in Choosing => ChosenBatch = picked[r]
                /\ (\A r \in Runner : pc[r] \notin Choosing) => ChosenBatch = None)'
  BY ChosenIs, PTL
<1>4. QED
  BY <1>1, <1>2, <1>3 DEF Choosing

\* A list holds ids of the queue.
LEMMA ListedIsQueued ==
  ASSUME IInv, NEW u \in User
  PROVE  /\ slotsOf(u) \in SUBSET DOMAIN queuedBatchIDs
         /\ WaitingLists[u] \in Seq(Batch)
         /\ \A k \in DOMAIN WaitingLists[u] : WaitingLists[u][k] \in Range(queuedBatchIDs)
<1> DEFINE S == slotsOf(u)
           q == queuedBatchIDs
<1>1. q \in Seq(Batch) /\ S \in SUBSET DOMAIN q
  BY DEF IInv, TypeOK, slotsOf
<1>2. S \in SUBSET Int /\ IsFiniteSet(S) /\ Cardinality(S) \in Nat
  BY <1>1, PositionFacts
<1>3. PICK f : Visits(f, Cardinality(S), S)
  BY <1>2, NumberedVisits
<1>4. Numbered(q, S) = [k \in 1..Cardinality(S) |-> q[f[k]]]
  BY <1>2, <1>3, NumberedIs
<1>5. \A k \in 1..Cardinality(S) : f[k] \in DOMAIN q
  BY <1>1, <1>3 DEF Visits
<1>6. \A k \in 1..Cardinality(S) : q[f[k]] \in Batch /\ q[f[k]] \in Range(q)
  BY <1>1, <1>5 DEF Range
<1>7. WaitingLists[u] = Numbered(q, S)
  BY ListsAre
<1> HIDE DEF S, q
<1>8. Numbered(q, S) \in Seq(Batch) /\ \A k \in DOMAIN Numbered(q, S) : Numbered(q, S)[k] \in Range(q)
  BY <1>2, <1>4, <1>6
<1>9. QED
  BY <1>1, <1>7, <1>8 DEF S, q

\* The lists stay when the queue and the owners do.
LEMMA ListsStay ==
  ASSUME IInv, IInv', queuedBatchIDs' = queuedBatchIDs,
         \A b \in Range(queuedBatchIDs) : batches'[b].user = batches[b].user
  PROVE  WaitingLists' = WaitingLists
<1>1. \A i \in DOMAIN queuedBatchIDs : queuedBatchIDs[i] \in Range(queuedBatchIDs)
  BY DEF Range
<1>2. ASSUME NEW u \in User PROVE slotsOf(u)' = slotsOf(u)
  <2>1. slotsOf(u) = {i \in DOMAIN queuedBatchIDs : batches[queuedBatchIDs[i]].user = u}
    BY SlotsAre
  <2>2. slotsOf(u)' = {i \in DOMAIN queuedBatchIDs : batches'[queuedBatchIDs[i]].user = u}
    BY ViewsThen
  <2>3. QED
    BY <1>1, <2>1, <2>2
<1>3. \A u \in User : Numbered(queuedBatchIDs', slotsOf(u)') = Numbered(queuedBatchIDs, slotsOf(u))
  BY <1>2
<1>4. QED
  BY <1>3, ListsAre

\* Nothing but the list of u changes.
LEMMA OneListChanges ==
  ASSUME NEW u \in User, NEW x,
         Numbered(queuedBatchIDs', slotsOf(u)') = x,
         \A v \in User \ {u} :
            Numbered(queuedBatchIDs', slotsOf(v)') = Numbered(queuedBatchIDs, slotsOf(v))
  PROVE  WaitingLists' = [WaitingLists EXCEPT ![u] = x]
<1> DEFINE l(v) == Numbered(queuedBatchIDs, slotsOf(v))
           m(v) == Numbered(queuedBatchIDs', slotsOf(v)')
<1>1. WaitingLists = [v \in User |-> l(v)] /\ WaitingLists' = [v \in User |-> m(v)]
  BY ListsAre
<1>2. \A v \in User : m(v) = IF v = u THEN x ELSE l(v)
  OBVIOUS
<1> HIDE DEF l, m
<1>3. QED
  BY <1>1, <1>2

-----------------------------------------------------------------------------
(* The steps of the queue are steps of the service.                        *)

\* A request submits a batch that nobody waits for.
LEMMA enqueueStep ==
  ASSUME IInv, IInv', NEW u \in User, NEW b \in Batch, NEW n \in 1..MaxTargets, enqueueBatch(u, b, n)
  PROVE  Service!Submit(u, b)
<1> DEFINE q == queuedBatchIDs
<1>1. /\ batches[b] = None /\ \A r \in Runner : picked[r] # b
      /\ batches' = [batches EXCEPT ![b] = NewBatch(u, n)]
      /\ q' = Append(q, b)
      /\ UNCHANGED <<activeBatchID, picked>>
  BY DEF enqueueBatch, Fresh
<1>2. q \in Seq(Batch) /\ batches \in [Batch -> BatchRecord \cup {None}] /\ Range(q) \subseteq Batch
  BY DEF IInv, TypeOK, Range
<1>3. b \notin Range(q)
  BY <1>1 DEF IInv, QueueMatchesMap
<1>4. b # RunningBatch
  <2>1. activeBatchID # None => activeBatchID \in Batch /\ batches[activeBatchID] # None
    BY DEF IInv, PhaseOfRunner, ActiveCounts
  <2>2. QED
    BY <1>1, <2>1, RunningIs, NoneAssumption
<1>5. b # ChosenBatch
  BY <1>1, ChosenIs, NoneAssumption
<1>6. \A v \in User : b \notin Service!Waiting(v)
  BY <1>3, ListedIsQueued DEF Service!Waiting
<1>7. UNCHANGED ChosenBatch
  <2>1. \A r \in Runner : pc'[r] \in Choosing <=> pc[r] \in Choosing
    BY DEF enqueueBatch, startQueueRunnerLocked, Goto, Choosing, IInv, TypeOK
  <2>2. QED
    BY <1>1, <2>1, ChosenIs, ViewsThen
<1>8. UNCHANGED RunningBatch
  BY <1>1, RunningIs, ViewsThen
<1>9. WaitingLists' = [WaitingLists EXCEPT ![u] = Append(@, b)]
  <2> DEFINE l == Len(q)
  <2>1. /\ l \in Nat /\ DOMAIN q = 1..l /\ DOMAIN q' = 1..(l + 1)
        /\ \A i \in 1..l : q'[i] = q[i]
        /\ q'[l + 1] = b
    BY <1>1, <1>2, AppendProperties
  <2>2. \A i \in DOMAIN q : q[i] \in Batch /\ q[i] # b /\ q[i] \in Range(q)
    BY <1>2, <1>3 DEF Range
  <2>3. batches'[b].user = u /\ \A i \in DOMAIN q : batches'[q[i]].user = batches[q[i]].user
    BY <1>1, <1>2, <2>2 DEF NewBatch
  <2> HIDE DEF q, l
  <2>4. ASSUME NEW v \in User
        PROVE  /\ slotsOf(v) \in SUBSET DOMAIN q
               /\ slotsOf(v)' = IF v = u THEN slotsOf(v) \cup {l + 1} ELSE slotsOf(v)
    <3>1. slotsOf(v) = {i \in DOMAIN q : batches[q[i]].user = v}
      BY SlotsAre DEF q
    <3>2. slotsOf(v)' = {i \in DOMAIN q' : batches'[q'[i]].user = v}
      BY ViewsThen DEF q
    <3>3. QED
      BY <2>1, <2>3, <3>1, <3>2
  <2>5. Numbered(q', slotsOf(u)') = Append(Numbered(q, slotsOf(u)), b)
    BY <1>1, <1>2, <2>4, AppendedNumbered DEF q, l
  <2>6. ASSUME NEW v \in User \ {u}
        PROVE  Numbered(q', slotsOf(v)') = Numbered(q, slotsOf(v))
    <3>1. slotsOf(v)' = slotsOf(v) /\ slotsOf(v) \in SUBSET DOMAIN q
      BY <2>4
    <3>2. slotsOf(v) \in SUBSET Int /\ IsFiniteSet(slotsOf(v))
      BY <1>2, <3>1, PositionFacts DEF q
    <3>3. \A i \in slotsOf(v) : q'[i] = q[i]
      BY <2>1, <3>1
    <3>4. QED
      BY <3>1, <3>2, <3>3, SameNumbered
  <2>7. WaitingLists[u] = Numbered(q, slotsOf(u))
    BY ListsAre DEF q
  <2>8. QED
    BY <2>5, <2>6, <2>7, OneListChanges DEF q
<1>10. QED
  BY <1>4, <1>5, <1>6, <1>7, <1>8, <1>9 DEF Service!Submit

\* The instance of ScanService works on sequences as ScanQueue does.
LEMMA ServiceOperators ==
  /\ \A s, i : Service!RemoveAt(s, i) = RemoveAt(s, i)
  /\ \A s, i, x : Service!InsertAt(s, i, x) = InsertAt(s, i, x)
BY DEF Service!RemoveAt, RemoveAt, Service!InsertAt, InsertAt

\* A reorder moves the batch in the list of its owner.
LEMMA reorderStep ==
  ASSUME IInv, IInv', NEW u \in User, NEW b \in Batch, NEW n \in Nat \ {0}, reorderQueuedBatch(u, b, n)
  PROVE  \E i, to \in DOMAIN WaitingLists[u] : Service!Reorder(u, i, to)
<1> DEFINE q == queuedBatchIDs
           S == slotsOf(u)
           m == Cardinality(S)
           to == IF n > m THEN m ELSE n
<1>1. q \in Seq(Batch) /\ S \in SUBSET DOMAIN q
  BY DEF IInv, TypeOK, slotsOf
<1>2. UNCHANGED <<batches, activeBatchID, pc, picked>>
  BY DEF reorderQueuedBatch, runnerVars
<1>0. PICK f \in Ascending(S) : \E from \in DOMAIN f :
         q' = writeBack(q, f, Moved(sliceAt(q, f), from, to))
  BY DEF reorderQueuedBatch
<1>3. PICK from \in DOMAIN f : q' = writeBack(q, f, Moved(sliceAt(q, f), from, to))
  BY <1>0
<1>4. m \in Nat /\ DOMAIN f = 1..m /\ f \in [1..m -> S]
  BY <1>0, <1>1, AscendingFacts
<1>5. from \in 1..m /\ to \in 1..m
  BY <1>3, <1>4
<1> DEFINE owned == sliceAt(q, f)
           s == Moved(owned, from, to)
<1>6. owned \in Seq(Batch) /\ DOMAIN owned = 1..m /\ \A k \in 1..m : owned[k] \in Batch
  <2>1. \A k \in 1..m : q[f[k]] \in Batch
    BY <1>1, <1>4
  <2>2. owned = [k \in 1..m |-> q[f[k]]]
    BY <1>4 DEF sliceAt
  <2> HIDE DEF owned
  <2>3. QED
    BY <1>4, <2>1, <2>2
<1>7. \A v \in User : slotsOf(v)' = slotsOf(v) /\ slotsOf(v) \in SUBSET DOMAIN q
  <2>1. PICK h \in [DOMAIN q -> DOMAIN q] :
           /\ DOMAIN q' = DOMAIN q
           /\ \A i \in DOMAIN q : q'[i] = q[h[i]]
           /\ \A i \in DOMAIN q : IF i \in S THEN h[i] \in S ELSE h[i] = i
    BY ReorderFacts DEF PermutesWithin, IInv
  <2>2. S = {i \in DOMAIN q : batches[q[i]].user = u}
    BY SlotsAre
  <2>3. \A i \in DOMAIN q : batches[q'[i]].user = batches[q[i]].user
    BY <2>1, <2>2
  <2> SUFFICES ASSUME NEW v \in User
               PROVE  slotsOf(v)' = slotsOf(v) /\ slotsOf(v) \in SUBSET DOMAIN q
    OBVIOUS
  <2>4. slotsOf(v) = {i \in DOMAIN q : batches[q[i]].user = v}
    BY SlotsAre
  <2>5. slotsOf(v)' = {i \in DOMAIN q' : batches'[q'[i]].user = v}
    BY ViewsThen
  <2> HIDE DEF q
  <2>6. QED
    BY <1>2, <2>1, <2>3, <2>4, <2>5
<1>8. s \in [1..m -> Batch]
  <2> HIDE DEF owned, to
  <2>1. \A k \in 1..m : owned[k] \in Batch
    BY <1>6
  <2>2. \A k \in 1..m : s[k] = owned[MovedFrom(k, from, to)]
    <3>1. from \in 1..m /\ to \in 1..m /\ DOMAIN owned = 1..m /\ m \in Nat
      BY <1>4, <1>5, <1>6
    <3> HIDE DEF m
    <3>2. QED
      BY <3>1 DEF Moved, MovedFrom
  <2>3. \A k \in 1..m : MovedFrom(k, from, to) \in 1..m
    BY <1>4, <1>5, MovedFacts
  <2>4. s = [k \in 1..m |-> s[k]]
    BY <1>6 DEF Moved
  <2> HIDE DEF s
  <2>5. QED
    BY <2>1, <2>2, <2>3, <2>4
<1>9. /\ Numbered(q, S) = owned
      /\ Numbered(writeBack(q, f, s), S) = s
      /\ \A i \in DOMAIN q \ S : writeBack(q, f, s)[i] = q[i]
  <2> HIDE DEF s, S, q, owned
  <2>1. f \in Ascending(S) /\ s \in [1..Cardinality(S) -> Batch]
    BY <1>8 DEF m
  <2>2. Numbered(q, S) = sliceAt(q, f)
    BY <1>1, <2>1, WrittenNumbered
  <2>3. Numbered(writeBack(q, f, s), S) = s
    BY <1>1, <2>1, WrittenNumbered
  <2>4. \A i \in DOMAIN q \ S : writeBack(q, f, s)[i] = q[i]
    BY <1>1, <2>1, WrittenNumbered
  <2>5. QED
    BY <2>2, <2>3, <2>4 DEF owned
<1>10. s = InsertAt(RemoveAt(owned, from), to, owned[from])
  <2> HIDE DEF owned, to
  <2>1. QED
    BY <1>5, <1>6, MovedIs
<1>11. Numbered(q', slotsOf(u)') = s
  BY <1>3, <1>7, <1>9
<1>12. ASSUME NEW v \in User \ {u}
       PROVE  Numbered(q', slotsOf(v)') = Numbered(q, slotsOf(v))
  <2>1. slotsOf(v)' = slotsOf(v) /\ slotsOf(v) \in SUBSET DOMAIN q
    BY <1>7
  <2>2. slotsOf(v) \in SUBSET Int /\ IsFiniteSet(slotsOf(v))
    BY <1>1, <2>1, PositionFacts
  <2>3. \A i \in slotsOf(v) : i \notin S
    BY SlotsAre
  <2>4. \A i \in slotsOf(v) : q'[i] = q[i]
    BY <1>3, <1>9, <2>1, <2>3
  <2>5. QED
    BY <2>1, <2>2, <2>4, SameNumbered
<1>13. WaitingLists[u] = owned
  BY <1>9, ListsAre
<1>14. WaitingLists' = [WaitingLists EXCEPT ![u] = s]
  <2> HIDE DEF s
  <2>1. QED
    BY <1>11, <1>12, OneListChanges
<1>15. UNCHANGED <<ChosenBatch, RunningBatch>>
  <2>1. UNCHANGED RunningBatch
    BY <1>2, RunningIs, ViewsThen
  <2>2. UNCHANGED ChosenBatch
    BY <1>2, ChosenIs, ViewsThen
  <2>3. QED
    BY <2>1, <2>2
<1>16. Service!Reorder(u, from, to)
  <2> HIDE DEF s, owned, to
  <2>1. QED
    BY <1>10, <1>13, <1>14, <1>15, ServiceOperators DEF Service!Reorder
<1>17. QED
  <2> HIDE DEF owned, to
  <2>1. QED
    BY <1>5, <1>6, <1>13, <1>16

\* One batch leaves the queue, and the list of its owner.
LEMMA OneLeaves ==
  ASSUME IInv, IInv', NEW u \in User, NEW i \in DOMAIN queuedBatchIDs,
         batches[queuedBatchIDs[i]].user = u,
         queuedBatchIDs' = RemoveAt(queuedBatchIDs, i),
         \A c \in Range(queuedBatchIDs) \ {queuedBatchIDs[i]} : batches'[c].user = batches[c].user
  PROVE  \E m \in DOMAIN WaitingLists[u] :
            /\ WaitingLists[u][m] = queuedBatchIDs[i]
            /\ WaitingLists' = [WaitingLists EXCEPT ![u] = RemoveAt(@, m)]
<1> DEFINE q == queuedBatchIDs
           l == Len(q)
<1>1. q \in Seq(Batch) /\ l \in Nat /\ DOMAIN q = 1..l /\ IsInjective(q) /\ i \in 1..l
  BY DEF IInv, TypeOK, QueueMatchesMap
<1>2. /\ DOMAIN q' = 1..(l - 1)
      /\ \A k \in 1..(l - 1) : q'[k] = IF k < i THEN q[k] ELSE q[k + 1]
  BY RemoveAtIs DEF IInv, TypeOK
<1>3. \A k \in 1..l : k # i => batches'[q[k]].user = batches[q[k]].user
  BY <1>1 DEF Range, IsInjective
<1>4. \A k \in 1..(l - 1) : LET p == IF k < i THEN k ELSE k + 1
                            IN  batches'[q'[k]].user = batches[q[p]].user /\ p \in 1..l
  BY <1>1, <1>2, <1>3
<1> HIDE DEF q, l
<1>5. ASSUME NEW v \in User
      PROVE  slotsOf(v) \in SUBSET DOMAIN q /\ slotsOf(v)' = Shifted(slotsOf(v), i, l)
  <2>1. slotsOf(v) = {k \in DOMAIN q : batches[q[k]].user = v}
    BY SlotsAre DEF q
  <2>2. slotsOf(v)' = {k \in DOMAIN q' : batches'[q'[k]].user = v}
    BY ViewsThen DEF q
  <2>3. \A k \in 1..(l - 1) :
           batches'[q'[k]].user = v <=> IF k < i THEN k \in slotsOf(v) ELSE k + 1 \in slotsOf(v)
    BY <1>1, <1>4, <2>1
  <2>4. QED
    BY <1>2, <2>1, <2>2, <2>3 DEF Shifted
<1>6. ASSUME NEW v \in User \ {u}
      PROVE  Numbered(q', slotsOf(v)') = Numbered(q, slotsOf(v))
  <2>1. i \notin slotsOf(v)
    BY SlotsAre
  <2>2. QED
    BY <1>1, <1>5, <2>1, RemovedNumbered DEF q, l
<1>7. i \in slotsOf(u)
  BY SlotsAre
<1>8. PICK m \in DOMAIN Numbered(q, slotsOf(u)) :
         /\ Numbered(q, slotsOf(u))[m] = q[i]
         /\ Numbered(q', slotsOf(u)') = RemoveAt(Numbered(q, slotsOf(u)), m)
  BY <1>1, <1>5, <1>7, RemovedNumbered DEF q, l
<1>9. WaitingLists[u] = Numbered(q, slotsOf(u))
  BY ListsAre DEF q
<1>10. WaitingLists' = [WaitingLists EXCEPT ![u] = RemoveAt(@, m)]
  BY <1>6, <1>8, <1>9, OneListChanges DEF q
<1>11. QED
  BY <1>8, <1>9, <1>10 DEF q

\* The runner and the active batch as they were.
LEMMA RunnerStays ==
  ASSUME IInv, IInv', UNCHANGED <<activeBatchID, pc, picked>>
  PROVE  UNCHANGED <<ChosenBatch, RunningBatch>>
<1>1. UNCHANGED RunningBatch
  BY RunningIs, ViewsThen
<1>2. UNCHANGED ChosenBatch
  BY ChosenIs, ViewsThen
<1>3. QED
  BY <1>1, <1>2

\* A cancelled batch is withdrawn from the list of its owner.
LEMMA cancelStep ==
  ASSUME IInv, IInv', NEW u \in User, NEW b \in Batch, cancelQueuedBatch(u, b)
  PROVE  \E m \in DOMAIN WaitingLists[u] : Service!Withdraw(u, m)
<1>1. PICK i \in DOMAIN queuedBatchIDs :
         queuedBatchIDs[i] = b /\ queuedBatchIDs' = RemoveAt(queuedBatchIDs, i)
  BY DEF cancelQueuedBatch
<1>2. /\ batches[b].user = u /\ batches' = [batches EXCEPT ![b] = None]
      /\ UNCHANGED <<activeBatchID, pc, picked>>
  BY DEF cancelQueuedBatch, Owns, runnerVars
<1>3. \A c \in Range(queuedBatchIDs) \ {b} : batches'[c].user = batches[c].user
  BY <1>2 DEF IInv, TypeOK, Range
<1>4. PICK m \in DOMAIN WaitingLists[u] :
         WaitingLists' = [WaitingLists EXCEPT ![u] = RemoveAt(@, m)]
  BY <1>1, <1>2, <1>3, OneLeaves
<1>5. UNCHANGED <<ChosenBatch, RunningBatch>>
  BY <1>2, RunnerStays
<1>6. Service!Withdraw(u, m)
  BY <1>4, <1>5, ServiceOperators DEF Service!Withdraw
<1>7. QED
  BY <1>6

\* The deletion of an account empties its list and leaves the others.
LEMMA dropStep ==
  ASSUME IInv, IInv', NEW u \in User, dropUserBatches(u)
  PROVE  Service!Leave(u)
<1> DEFINE q == queuedBatchIDs
           S == slotsOf(u)
           G == DOMAIN q \ S
<1>1. /\ Keeps(q, G, q')
      /\ batches' = [b \in Batch |-> IF b \in {q[i] : i \in S} THEN None ELSE batches[b]]
      /\ UNCHANGED <<activeBatchID, pc, picked>>
  BY DEF dropUserBatches, runnerVars
<1>2. q \in Seq(Batch) /\ IsInjective(q) /\ G \in SUBSET DOMAIN q /\ S \in SUBSET DOMAIN q
  BY DEF IInv, TypeOK, QueueMatchesMap, slotsOf
<1>3. PICK g \in Ascending(G) : q' = sliceAt(q, g)
  BY <1>1 DEF Keeps
<1>4. g \in [1..Cardinality(G) -> G] /\ Cardinality(G) \in Nat
  BY <1>2, AscendingFacts
<1>5. DOMAIN q' = 1..Cardinality(G) /\ \A k \in 1..Cardinality(G) : g[k] \in G /\ q'[k] = q[g[k]]
  BY <1>3, <1>4 DEF sliceAt
<1>6. \A i \in G : q[i] \in Batch /\ batches'[q[i]] = batches[q[i]]
  <2>1. \A i \in G : q[i] \notin {q[j] : j \in S}
    BY <1>2 DEF IsInjective
  <2>2. \A i \in G : q[i] \in Batch
    BY <1>2
  <2>3. QED
    BY <1>1, <2>1, <2>2
<1>7. S = {i \in DOMAIN q : batches[q[i]].user = u}
  BY SlotsAre
<1> HIDE DEF q, S, G
<1>8. ASSUME NEW v \in User
      PROVE  /\ slotsOf(v) = {i \in DOMAIN q : batches[q[i]].user = v}
             /\ slotsOf(v)' = {k \in 1..Cardinality(G) : batches[q[g[k]]].user = v}
  <2>1. slotsOf(v) = {i \in DOMAIN q : batches[q[i]].user = v}
    BY SlotsAre DEF q
  <2>2. slotsOf(v)' = {k \in DOMAIN q' : batches'[q'[k]].user = v}
    BY ViewsThen DEF q
  <2>3. QED
    BY <1>5, <1>6, <2>1, <2>2
<1>9. ASSUME NEW v \in User \ {u}
      PROVE  Numbered(q', slotsOf(v)') = Numbered(q, slotsOf(v))
  <2>1. slotsOf(v) \in SUBSET G
    BY <1>7, <1>8 DEF G
  <2>2. slotsOf(v)' = {k \in 1..Cardinality(G) : g[k] \in slotsOf(v)}
    BY <1>2, <1>5, <1>8
  <2>3. QED
    BY <1>2, <1>3, <2>1, <2>2, KeptNumbered
<1>10. Numbered(q', slotsOf(u)') = <<>>
  <2>1. slotsOf(u)' = {}
    <3>1. \A i \in G : batches[q[i]].user # u
      BY <1>7 DEF G
    <3>2. slotsOf(u)' = {k \in 1..Cardinality(G) : batches[q[g[k]]].user = u}
      BY <1>8
    <3>3. QED
      BY <1>5, <3>1, <3>2
  <2>2. Cardinality({}) = 0
    BY FS_EmptySet
  <2>3. QED
    BY <2>1, <2>2 DEF Numbered
<1>11. WaitingLists' = [WaitingLists EXCEPT ![u] = <<>>]
  BY <1>9, <1>10, OneListChanges DEF q
<1>12. UNCHANGED <<ChosenBatch, RunningBatch>>
  BY <1>1, RunnerStays
<1>13. QED
  BY <1>11, <1>12 DEF Service!Leave

\* The runner chooses the head of the list of u.
LEMMA pickStep ==
  ASSUME IInv, IInv', NEW r \in Runner, NEW u \in User, pickBatch(r, u)
  PROVE  Service!Choose(u)
<1> DEFINE q == queuedBatchIDs
           S == slotsOf(u)
           l == WaitingLists[u]
<1>1. /\ pc[r] = "pick" /\ pc' = [pc EXCEPT ![r] = "check"]
      /\ Keeps(q, validSlots, q')
      /\ UNCHANGED <<batches, activeBatchID>>
  BY DEF pickBatch, Goto
<1>2. PICK i \in S : (\A j \in S : i <= j) /\ picked' = [picked EXCEPT ![r] = q[i]]
  BY DEF pickBatch
<1>3. q \in Seq(Batch) /\ S \in SUBSET DOMAIN q
  BY DEF IInv, TypeOK, slotsOf
<1>4. validSlots = DOMAIN q
  BY DEF validSlots, IInv, QueueMatchesMap, Range
<1>5. q' = q
  BY <1>1, <1>3, <1>4, KeepsAll
<1>6. UNCHANGED WaitingLists
  BY <1>1, <1>5, ListsStay
<1>7. RunningBatch = None /\ RunningBatch' = None
  <2>1. activeBatchID = None
    BY <1>1 DEF IInv, PhaseOfRunner, Scheduling
  <2>2. QED
    BY <1>1, <2>1, RunningIs, ViewsThen
<1>8. ChosenBatch' = q[i]
  <2>1. pc'[r] = "check" /\ picked'[r] = q[i]
    BY <1>1, <1>2 DEF IInv, TypeOK
  <2>2. QED
    BY <2>1, ViewsThen DEF Choosing
<1>9. l # <<>> /\ Head(l) = q[i]
  <2>1. S \in SUBSET Int /\ IsFiniteSet(S) /\ Cardinality(S) \in Nat
    BY <1>3, PositionFacts
  <2>2. PICK f : Visits(f, Cardinality(S), S)
    BY <2>1, NumberedVisits
  <2>3. Numbered(q, S) = [k \in 1..Cardinality(S) |-> q[f[k]]]
    BY <2>1, <2>2, NumberedIs
  <2>4. l = [k \in 1..Cardinality(S) |-> q[f[k]]]
    BY <2>3, ListsAre
  <2>5. PICK k \in 1..Cardinality(S) : f[k] = i
    BY <1>2, <2>2 DEF Visits
  <2>6. 1 \in 1..Cardinality(S) /\ f[1] \in S /\ (1 < k => f[1] < i)
    BY <2>1, <2>2, <2>5 DEF Visits
  <2>7. f[1] = i
    BY <1>2, <2>1, <2>5, <2>6
  <2>8. l \in Seq(Batch) /\ l[1] = q[i] /\ 1 \in DOMAIN l
    BY <2>4, <2>6, <2>7, ListedIsQueued
  <2> HIDE DEF l
  <2>9. QED
    BY <2>8
<1>10. QED
  BY <1>6, <1>7, <1>8, <1>9 DEF Service!Choose

\* The test of the lock lets the choice stand.
LEMMA checkStep ==
  ASSUME IInv, IInv', NEW r \in Runner, lockFree(r) \/ lockBlocks(r)
  PROVE  UNCHANGED <<WaitingLists, ChosenBatch, RunningBatch>>
<1>1. /\ pc[r] \in Choosing /\ pc'[r] \in Choosing
      /\ UNCHANGED <<batches, queuedBatchIDs, activeBatchID, picked>>
  BY DEF lockFree, lockBlocks, Goto, Choosing, queueVars, IInv, TypeOK
<1>2. UNCHANGED WaitingLists
  BY <1>1, ListsStay
<1>3. UNCHANGED ChosenBatch
  BY <1>1, ChosenIs, ViewsThen
<1>4. UNCHANGED RunningBatch
  BY <1>1, RunningIs, ViewsThen
<1>5. QED
  BY <1>2, <1>3, <1>4

\* The choice of r, and that nothing is chosen once r is back at its next pick.
LEMMA ChoiceEnds ==
  ASSUME IInv, IInv', NEW r \in Runner, pc[r] \in Choosing, NEW l \in PC \ Choosing,
         pc' = [pc EXCEPT ![r] = l]
  PROVE  ChosenBatch = picked[r] /\ ChosenBatch # None /\ ChosenBatch' = None
<1>1. ChosenBatch = picked[r] /\ picked[r] \in Batch
  BY ChosenIs DEF IInv, PhaseOfRunner, Choosing
<1>2. \A s \in Runner : pc'[s] \notin Choosing
  BY DEF IInv, TypeOK, OneRunner, Choosing
<1>3. ChosenBatch' = None
  BY <1>2, ViewsThen
<1>4. QED
  BY <1>1, <1>3, NoneAssumption

\* A blocked runner gives its choice up.
LEMMA noteStep ==
  ASSUME IInv, IInv', NEW r \in Runner, updateQueuedBatchMessage(r)
  PROVE  Service!GiveUp
<1>1. /\ pc[r] = "note" /\ pc' = [pc EXCEPT ![r] = "pick"]
      /\ UNCHANGED <<queuedBatchIDs, activeBatchID>>
      /\ \/ batches' = batches
         \/ batches' = [batches EXCEPT ![picked[r]].message = "LockWait"]
  BY DEF updateQueuedBatchMessage, Goto
<1>2. \A b \in Batch : batches'[b].user = batches[b].user
  <2>1. \A b \in Batch : batches'[b] = batches[b] \/ batches'[b] = [batches[b] EXCEPT !.message = "LockWait"]
    BY <1>1 DEF IInv, TypeOK
  <2>2. picked[r] \in Batch
    BY <1>1 DEF IInv, PhaseOfRunner
  <2>3. QED
    BY <1>1, <2>1 DEF IInv, TypeOK, BatchRecord
<1>3. UNCHANGED WaitingLists
  <2>1. Range(queuedBatchIDs) \subseteq Batch
    BY DEF IInv, TypeOK, Range
  <2>2. QED
    BY <1>1, <1>2, <2>1, ListsStay
<1>4. UNCHANGED RunningBatch
  BY <1>1, RunningIs, ViewsThen
<1>5. ChosenBatch # None /\ ChosenBatch' = None
  BY <1>1, ChoiceEnds DEF Choosing, PC
<1>6. QED
  BY <1>3, <1>4, <1>5 DEF Service!GiveUp

\* The chosen batch is started if it still waits, or the choice is given up.
LEMMA activateStep ==
  ASSUME IInv, IInv', NEW r \in Runner, activateQueuedBatch(r)
  PROVE  \/ \E u \in User : \E m \in DOMAIN WaitingLists[u] : Service!Start(u, m)
         \/ Service!GiveUp
<1> DEFINE id == picked[r]
           q == queuedBatchIDs
<1>1. pc[r] = "activate" /\ UNCHANGED picked
  BY DEF activateQueuedBatch
<1>2. activeBatchID = None /\ id \in Batch
  BY <1>1 DEF IInv, PhaseOfRunner, Scheduling
<1>3. CASE pc' = [pc EXCEPT ![r] = "pick"] /\ UNCHANGED <<batches, queuedBatchIDs, activeBatchID>>
  <2>1. UNCHANGED WaitingLists
    BY <1>3, ListsStay
  <2>2. UNCHANGED RunningBatch
    BY <1>3, RunningIs, ViewsThen
  <2>3. ChosenBatch # None /\ ChosenBatch' = None
    BY <1>1, <1>3, ChoiceEnds DEF Choosing, PC
  <2>4. QED
    BY <2>1, <2>2, <2>3 DEF Service!GiveUp
<1>4. CASE /\ batches[id] # None
           /\ \E i \in DOMAIN q : q[i] = id /\ q' = RemoveAt(q, i)
           /\ batches' = [batches EXCEPT ![id].status = "running", ![id].message = "Running"]
           /\ activeBatchID' = id
           /\ pc' = [pc EXCEPT ![r] = "snapshot"]
  <2>1. PICK i \in DOMAIN q : q[i] = id /\ q' = RemoveAt(q, i)
    BY <1>4
  <2>2. batches[id] \in BatchRecord
    BY <1>2, <1>4 DEF IInv, TypeOK
  <2>3. batches[id].user \in User
    BY <2>2 DEF BatchRecord
  <2>4. \A c \in Range(q) \ {q[i]} : batches'[c].user = batches[c].user
    BY <1>4, <2>1 DEF IInv, TypeOK, Range
  <2>5. PICK m \in DOMAIN WaitingLists[batches[id].user] :
           /\ WaitingLists[batches[id].user][m] = id
           /\ WaitingLists' = [WaitingLists EXCEPT ![batches[id].user] = RemoveAt(@, m)]
    BY <2>1, <2>3, <2>4, OneLeaves
  <2>6. RunningBatch = None /\ RunningBatch' = id
    BY <1>2, <1>4, RunningIs, ViewsThen
  <2>7. ChosenBatch = id /\ ChosenBatch' = None
    BY <1>1, <1>4, ChoiceEnds DEF Choosing, PC
  <2>8. Service!Start(batches[id].user, m)
    BY <2>5, <2>6, <2>7, ServiceOperators DEF Service!Start
  <2>9. QED
    BY <2>3, <2>8
<1>5. QED
  BY <1>3, <1>4 DEF activateQueuedBatch, Goto
\* A goroutine that has chosen nothing and moves on without choosing.
LEMMA NeverChosen ==
  ASSUME IInv, IInv', NEW r \in Runner, pc[r] \in PC \ (Choosing \cup {"idle"}),
         NEW l \in PC \ Choosing, pc' = [pc EXCEPT ![r] = l]
  PROVE  ChosenBatch = None /\ ChosenBatch' = None
<1>1. \A s \in Runner : pc[s] \notin Choosing /\ pc'[s] \notin Choosing
  BY DEF IInv, TypeOK, OneRunner, Choosing
<1>2. QED
  BY <1>1, ChosenIs, ViewsThen

\* A runner ends only when every list is empty; nobody notices.
LEMMA exitStep ==
  ASSUME IInv, IInv', NEW r \in Runner, runnerExits(r)
  PROVE  UNCHANGED <<WaitingLists, ChosenBatch, RunningBatch>>
<1>1. /\ pc[r] = "pick" /\ pc' = [pc EXCEPT ![r] = "idle"]
      /\ validSlots = {} /\ queuedBatchIDs' = <<>>
      /\ UNCHANGED <<batches, activeBatchID>>
  BY DEF runnerExits, Goto
<1>2. queuedBatchIDs = <<>>
  <2>1. validSlots = DOMAIN queuedBatchIDs
    BY DEF validSlots, IInv, QueueMatchesMap, Range
  <2>2. queuedBatchIDs \in Seq(Batch)
    BY DEF IInv, TypeOK
  <2>3. Len(queuedBatchIDs) \in Nat /\ DOMAIN queuedBatchIDs = 1..Len(queuedBatchIDs)
    BY <2>2
  <2>4. Len(queuedBatchIDs) = 0
    <3>1. 1 \notin 1..Len(queuedBatchIDs)
      BY <1>1, <2>1, <2>3
    <3>2. QED
      BY <2>3, <3>1
  <2>5. QED
    BY <2>2, <2>4, EmptySeq
<1>3. UNCHANGED WaitingLists
  BY <1>1, <1>2, ListsStay
<1>4. UNCHANGED ChosenBatch
  BY <1>1, NeverChosen DEF Choosing, PC
<1>5. UNCHANGED RunningBatch
  BY <1>1, RunningIs, ViewsThen
<1>6. QED
  BY <1>3, <1>4, <1>5

\* The runner may write to its batch: that one waits in no list.
LEMMA WritesUnseen ==
  ASSUME IInv, IInv', NEW r \in Runner, pc[r] \in Running, UNCHANGED queuedBatchIDs,
         \A c \in Batch \ {picked[r]} : batches'[c] = batches[c]
  PROVE  UNCHANGED WaitingLists
<1>1. picked[r] = activeBatchID
  BY DEF IInv, PhaseOfRunner
<1>2. \A c \in Range(queuedBatchIDs) : c \in Batch /\ c # picked[r]
  BY <1>1 DEF IInv, TypeOK, QueueMatchesMap, Range
<1>3. QED
  BY <1>2, ListsStay

\* Until its end, runBatch changes nothing the users see of their lists.
LEMMA runStep ==
  ASSUME IInv, IInv', NEW r \in Runner,
         \/ takeSnapshot(r)
         \/ \E job \in BOOLEAN : startTarget(r, job)
         \/ \E err \in BOOLEAN, result \in Result : finishTarget(r, err, result)
         \/ closeBatch(r)
  PROVE  UNCHANGED <<WaitingLists, ChosenBatch, RunningBatch>>
<1>1. /\ pc[r] \in Running
      /\ \E l \in {"pick", "target", "wait", "finish"} : pc' = [pc EXCEPT ![r] = l]
      /\ UNCHANGED <<queuedBatchIDs, activeBatchID>>
  BY DEF takeSnapshot, startTarget, finishTarget, closeBatch, Goto, Running, queueVars
<1>2. \A c \in Batch \ {picked[r]} : batches'[c] = batches[c]
  <2>1. batches' = batches \/ \E x : batches' = [batches EXCEPT ![picked[r]] = x]
    BY DEF takeSnapshot, startTarget, finishTarget, closeBatch, updateBatch, queueVars
  <2>2. QED
    BY <2>1 DEF IInv, TypeOK
<1>3. UNCHANGED WaitingLists
  BY <1>1, <1>2, WritesUnseen
<1>4. UNCHANGED ChosenBatch
  BY <1>1, NeverChosen DEF Choosing, PC, Running
<1>5. UNCHANGED RunningBatch
  BY <1>1, RunningIs, ViewsThen
<1>6. QED
  BY <1>3, <1>4, <1>5

\* finishBatch ends the running batch.
LEMMA finishStep ==
  ASSUME IInv, IInv', NEW r \in Runner, finishBatch(r)
  PROVE  Service!Finish
<1>1. /\ pc[r] = "finish" /\ pc' = [pc EXCEPT ![r] = "pick"]
      /\ activeBatchID' = IF activeBatchID = picked[r] THEN None ELSE activeBatchID
      /\ batches' = [batches EXCEPT ![picked[r]] = None]
      /\ UNCHANGED queuedBatchIDs
  BY DEF finishBatch, Goto
<1>2. activeBatchID = picked[r] /\ picked[r] \in Batch
  BY <1>1 DEF IInv, PhaseOfRunner, Running
<1>3. RunningBatch # None /\ RunningBatch' = None
  BY <1>1, <1>2, RunningIs, ViewsThen, NoneAssumption
<1>4. UNCHANGED WaitingLists
  BY <1>1, WritesUnseen DEF IInv, TypeOK, Running
<1>5. UNCHANGED ChosenBatch
  BY <1>1, NeverChosen DEF Choosing, PC
<1>6. QED
  BY <1>3, <1>4, <1>5 DEF Service!Finish

\* Nobody sees the lock change hands.
LEMMA otherStep ==
  ASSUME IInv, IInv', otherScan \/ UNCHANGED vars
  PROVE  UNCHANGED <<WaitingLists, ChosenBatch, RunningBatch>>
<1>1. UNCHANGED <<batches, queuedBatchIDs, activeBatchID, pc, picked>>
  BY DEF otherScan, queueVars, runnerVars, vars
<1>2. QED
  BY <1>1, ListsStay, RunnerStays

\* The server starts with empty lists and an idle service.
LEMMA InitService == Init => Service!Init
<1> SUFFICES ASSUME Init PROVE Service!Init
  OBVIOUS
<1>1. IInv
  BY InitInv
<1>2. RunningBatch = None
  BY <1>1, RunningIs DEF Init
<1>3. ChosenBatch = None
  BY <1>1, ChosenIs DEF Init, Choosing
<1>4. ASSUME NEW u \in User PROVE Numbered(queuedBatchIDs, slotsOf(u)) = <<>>
  <2>1. slotsOf(u) = {}
    BY DEF Init, slotsOf
  <2>2. Cardinality({}) = 0
    BY FS_EmptySet
  <2>3. QED
    BY <2>1, <2>2 DEF Numbered
<1>5. WaitingLists = [u \in User |-> <<>>]
  BY <1>4, ListsAre
<1>6. QED
  BY <1>2, <1>3, <1>5 DEF Service!Init

\* Every step of the queue is a step of the service, or one nobody sees.
LEMMA NextService == IInv /\ IInv' /\ [Next]_vars => [Service!Next]_(Service!vars)
<1> SUFFICES ASSUME IInv, IInv', [Next]_vars PROVE [Service!Next]_(Service!vars)
  OBVIOUS
<1> DEFINE seen == <<WaitingLists, ChosenBatch, RunningBatch>>
<1>1. CASE \E u \in User, b \in Batch, n \in 1..MaxTargets : enqueueBatch(u, b, n)
  <2>1. \E u \in User, b \in Batch : Service!Submit(u, b)
    BY <1>1, enqueueStep
  <2>2. QED
    BY <2>1 DEF Service!Next
<1>2. CASE \E u \in User, b \in Batch, n \in 1..(Len(queuedBatchIDs) + 1) :
            reorderQueuedBatch(u, b, n)
  <2>1. Len(queuedBatchIDs) \in Nat
    BY DEF IInv, TypeOK
  <2>2. \E u \in User : \E i, n \in DOMAIN WaitingLists[u] : Service!Reorder(u, i, n)
    BY <1>2, <2>1, reorderStep
  <2>3. QED
    BY <2>2 DEF Service!Next
<1>3. CASE \E u \in User, b \in Batch : cancelQueuedBatch(u, b)
  <2>1. \E u \in User : \E i \in DOMAIN WaitingLists[u] : Service!Withdraw(u, i)
    BY <1>3, cancelStep
  <2>2. QED
    BY <2>1 DEF Service!Next
<1>4. CASE \E u \in User : dropUserBatches(u)
  <2>1. \E u \in User : Service!Leave(u)
    BY <1>4, dropStep
  <2>2. QED
    BY <2>1 DEF Service!Next
<1>5. CASE \E r \in Runner, u \in User : pickBatch(r, u)
  <2>1. \E u \in User : Service!Choose(u)
    BY <1>5, pickStep
  <2>2. QED
    BY <2>1 DEF Service!Next
<1>6. CASE \E r \in Runner : updateQueuedBatchMessage(r)
  BY <1>6, noteStep DEF Service!Next
<1>7. CASE \E r \in Runner : activateQueuedBatch(r)
  <2>1. \/ \E u \in User : \E i \in DOMAIN WaitingLists[u] : Service!Start(u, i)
        \/ Service!GiveUp
    BY <1>7, activateStep
  <2>2. QED
    BY <2>1 DEF Service!Next
<1>8. CASE \E r \in Runner : finishBatch(r)
  BY <1>8, finishStep DEF Service!Next
<1>9. CASE UNCHANGED seen
  BY <1>9 DEF Service!vars
<1>10. (\/ otherScan \/ UNCHANGED vars
        \/ \E r \in Runner :
              \/ runnerExits(r) \/ lockFree(r) \/ lockBlocks(r)
              \/ takeSnapshot(r) \/ closeBatch(r)
              \/ \E job \in BOOLEAN : startTarget(r, job)
              \/ \E err \in BOOLEAN, result \in Result : finishTarget(r, err, result))
       => UNCHANGED seen
  <2>1. otherScan \/ UNCHANGED vars => UNCHANGED seen
    BY otherStep
  <2>2. ASSUME NEW r \in Runner, runnerExits(r) PROVE UNCHANGED seen
    BY <2>2, exitStep
  <2>3. ASSUME NEW r \in Runner, lockFree(r) \/ lockBlocks(r) PROVE UNCHANGED seen
    BY <2>3, checkStep
  <2>4. ASSUME NEW r \in Runner,
               \/ takeSnapshot(r) \/ closeBatch(r)
               \/ \E job \in BOOLEAN : startTarget(r, job)
               \/ \E err \in BOOLEAN, result \in Result : finishTarget(r, err, result)
        PROVE  UNCHANGED seen
    BY <2>4, runStep
  <2>5. QED
    BY <2>1, <2>2, <2>3, <2>4
<1>11. QED
  BY <1>1, <1>2, <1>3, <1>4, <1>5, <1>6, <1>7, <1>8, <1>9, <1>10 DEF Next, Handler, RunnerStep

\* The queue implements the service its users are promised: one list per user,
\* which only that user's requests and the start of a batch change, with every
\* reorder putting the batch where its owner asked, and one running batch at a
\* time, which was the head of its owner's list when it was chosen.
THEOREM QueueImplementsService == Spec => ImplementsService
<1>1. QED
  BY InitService, Invariance, NextService, PTL DEF Spec, ImplementsService, Service!Spec

=============================================================================
