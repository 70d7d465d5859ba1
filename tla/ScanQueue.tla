------------------------------ MODULE ScanQueue ------------------------------
(***************************************************************************)
(* The in-memory queue of manual scan batches (server/scans.go).           *)
(*                                                                         *)
(* HTTP handlers enqueue, reorder and cancel batches; the deletion of an   *)
(* account drops the batches of its user; one background goroutine, the    *)
(* queue runner, picks a batch, polls the cross-process scan lock,         *)
(* activates the batch and scans its targets one after another.  Every     *)
(* action below is one critical section of server.mu, or one step a        *)
(* goroutine takes between two of them.                                    *)
(***************************************************************************)
EXTENDS Integers, Sequences, FiniteSets, SequencesExt

CONSTANTS
    Batch,       \* batch ids ("web-" followed by random hex digits)
    User,        \* user ids
    Runner,      \* goroutines that may execute runQueue
    MaxTargets,  \* bound on the targets of one batch
    None         \* the empty id, and the absence of a batch

Message == {"Queued", "LockWait", "Running", "Scanning",
            "Errors", "Threats", "Clean"}

BatchRecord ==
    [user : User, targets : 1..MaxTargets,
     status : {"queued", "running", "failed", "finished"},
     message : Message,
     jobs : 0..MaxTargets, completed : 0..MaxTargets,
     failed : 0..MaxTargets, threats : 0..MaxTargets]

ASSUME MaxTargetsAssumption == MaxTargets \in Nat \ {0}
ASSUME NoneAssumption == None \notin Batch /\ None \notin BatchRecord
ASSUME RunnerAssumption == Runner # {}

VARIABLES
    batches,            \* server.batches
    queuedBatchIDs,     \* server.queuedBatchIDs
    activeBatchID,      \* server.activeBatchID
    queueRunnerActive,  \* server.queueRunnerActive
    pc,                 \* where each goroutine is in runQueue ("idle": not started)
    picked,             \* its local variable id
    left,               \* targets its runBatch loop has still to scan
    gotJob,             \* whether the current script printed a job id
    lockBusy            \* a live process outside the queue owns the scan lock

queueVars == <<batches, queuedBatchIDs, activeBatchID, queueRunnerActive>>
runnerVars == <<pc, picked, left, gotJob>>
vars == <<batches, queuedBatchIDs, activeBatchID, queueRunnerActive,
          pc, picked, left, gotJob, lockBusy>>

PC == {"idle", "pick", "check", "note", "activate", "snapshot",
       "target", "wait", "finish"}

Scheduling == {"pick", "check", "note", "activate"}
Running == {"snapshot", "target", "wait", "finish"}

Init ==
    /\ batches = [b \in Batch |-> None]
    /\ queuedBatchIDs = <<>>
    /\ activeBatchID = None
    /\ queueRunnerActive = FALSE
    /\ pc = [r \in Runner |-> "idle"]
    /\ picked = [r \in Runner |-> None]
    /\ left = [r \in Runner |-> 0]
    /\ gotJob = [r \in Runner |-> FALSE]
    /\ lockBusy \in BOOLEAN

-----------------------------------------------------------------------------
(* Helpers over the queue.                                                 *)

\* The goroutine r moves to the program point l.
Goto(r, l) == pc' = [pc EXCEPT ![r] = l]

Owns(u, b) == b # None /\ batches[b] # None /\ batches[b].user = u

\* The positions of the queue whose batch belongs to u.
slotsOf(u) == {i \in DOMAIN queuedBatchIDs : Owns(u, queuedBatchIDs[i])}

\* The (one) enumeration of the set S of positions in increasing order: what
\* a loop over the slice visits.
Ascending(S) ==
    {f \in [1..Cardinality(S) -> S] :
        \A j, k \in 1..Cardinality(S) : j < k => f[j] < f[k]}

\* The elements of q at the positions f enumerates.
sliceAt(q, f) == [k \in DOMAIN f |-> q[f[k]]]

\* q with the elements of s written to the positions f enumerates.
writeBack(q, f, s) ==
    [i \in DOMAIN q |->
        IF \E k \in DOMAIN f : f[k] = i
        THEN s[CHOOSE k \in DOMAIN f : f[k] = i]
        ELSE q[i]]

\* The slice that keeps the positions S of q, in their order.
Keeps(q, S, kept) == \E f \in Ascending(S) : kept = sliceAt(q, f)

\* Mutation: the element is written at its new position, the others stay.
MovedWithoutShift(s, from, to) == [s EXCEPT ![to] = s[from], ![from] = s[to]]

\* s with the element at position from taken out and put back at position to.
Moved(s, from, to) ==
    [k \in DOMAIN s |->
        CASE k = to -> s[from]
          [] from <= k /\ k < to -> s[k + 1]
          [] to < k /\ k <= from -> s[k - 1]
          [] OTHER -> s[k]]

-----------------------------------------------------------------------------
(* HTTP handlers.                                                          *)

\* Mutation: the flag is not tested before a goroutine is started.
AlwaysStartRunner ==
    /\ queueRunnerActive' = TRUE
    /\ IF \E r \in Runner : pc[r] = "idle"
       THEN \E r \in Runner : pc[r] = "idle" /\ Goto(r, "pick")
       ELSE UNCHANGED pc

\* startQueueRunnerLocked: at most one goroutine is started, and only when
\* the flag says that none runs.
startQueueRunnerLocked ==
    IF queueRunnerActive
    THEN UNCHANGED <<queueRunnerActive, pc>>
    ELSE /\ queueRunnerActive' = TRUE
         /\ \E r \in Runner : pc[r] = "idle" /\ Goto(r, "pick")

\* A random id that nothing refers to.  The same model value may stand for
\* a new id once the old batch is forgotten.
Fresh(b) == batches[b] = None /\ \A r \in Runner : picked[r] # b

NewBatch(u, n) ==
    [user |-> u, targets |-> n, status |-> "queued", message |-> "Queued",
     jobs |-> 0, completed |-> 0, failed |-> 0, threats |-> 0]

\* startScan after its checks: a request of u with n distinct targets.  The
\* test of the sleep lock happens before, outside server.mu (see ClamAVPower).
enqueueBatch(u, b, n) ==
    /\ Fresh(b)
    /\ batches' = [batches EXCEPT ![b] = NewBatch(u, n)]
    /\ queuedBatchIDs' = Append(queuedBatchIDs, b)
    /\ startQueueRunnerLocked
    /\ UNCHANGED <<activeBatchID, picked, left, gotJob, lockBusy>>

\* reorderQueuedBatch: u moves its queued batch b to its own queue number n.
\* Only the slots of u are written.
reorderQueuedBatch(u, b, n) ==
    /\ Owns(u, b)
    /\ b # activeBatchID
    /\ \E f \in Ascending(slotsOf(u)) :
          \E from \in DOMAIN f :
             LET owned == sliceAt(queuedBatchIDs, f)
                 last == Cardinality(slotsOf(u))
                 target == IF n > last THEN last ELSE n
             IN /\ owned[from] = b
                /\ queuedBatchIDs' =
                      writeBack(queuedBatchIDs, f, Moved(owned, from, target))
    /\ UNCHANGED <<batches, activeBatchID, queueRunnerActive, runnerVars, lockBusy>>

\* Mutation: the cancelled batch leaves the queue but not the map.
CancelKeepsRecord(u, b) ==
    /\ Owns(u, b)
    /\ b # activeBatchID
    /\ \E i \in DOMAIN queuedBatchIDs :
          /\ queuedBatchIDs[i] = b
          /\ queuedBatchIDs' = RemoveAt(queuedBatchIDs, i)
    /\ UNCHANGED <<batches, activeBatchID, queueRunnerActive, runnerVars, lockBusy>>

\* Mutation: the active batch is not excluded.
CancelActive(u, b) ==
    /\ Owns(u, b)
    /\ queuedBatchIDs' = Remove(queuedBatchIDs, b)
    /\ batches' = [batches EXCEPT ![b] = None]
    /\ UNCHANGED <<activeBatchID, queueRunnerActive, runnerVars, lockBusy>>

\* cancelQueuedBatch: only the owner, only while the batch is still queued.
cancelQueuedBatch(u, b) ==
    /\ Owns(u, b)
    /\ b # activeBatchID
    /\ \E i \in DOMAIN queuedBatchIDs :
          /\ queuedBatchIDs[i] = b
          /\ queuedBatchIDs' = RemoveAt(queuedBatchIDs, i)
    /\ batches' = [batches EXCEPT ![b] = None]
    /\ UNCHANGED <<activeBatchID, queueRunnerActive, runnerVars, lockBusy>>

\* cleanDeleteUser, the critical section of server.mu: refused while the
\* active batch is u's, otherwise every queued batch of u is dropped.
dropUserBatches(u) ==
    /\ ~Owns(u, activeBatchID)
    /\ slotsOf(u) # {}
    /\ batches' = [b \in Batch |->
                     IF b \in {queuedBatchIDs[i] : i \in slotsOf(u)}
                     THEN None ELSE batches[b]]
    /\ Keeps(queuedBatchIDs, DOMAIN queuedBatchIDs \ slotsOf(u), queuedBatchIDs')
    /\ UNCHANGED <<activeBatchID, queueRunnerActive, runnerVars, lockBusy>>

-----------------------------------------------------------------------------
(* The queue runner.                                                       *)

validSlots == {i \in DOMAIN queuedBatchIDs : batches[queuedBatchIDs[i]] # None}

\* nextQueuedBatchID with at least one valid id: a random user u among the
\* owners, then the first id of that user.  Ids without a batch are dropped.
pickBatch(r, u) ==
    /\ pc[r] = "pick"
    /\ \E i \in slotsOf(u) :
          /\ \A j \in slotsOf(u) : i <= j
          /\ picked' = [picked EXCEPT ![r] = queuedBatchIDs[i]]
    /\ Keeps(queuedBatchIDs, validSlots, queuedBatchIDs')
    /\ Goto(r, "check")
    /\ UNCHANGED <<batches, activeBatchID, queueRunnerActive, left, gotJob, lockBusy>>

\* Mutation: the goroutine ends without clearing the flag.
ExitKeepsFlag(r) ==
    /\ pc[r] = "pick"
    /\ validSlots = {}
    /\ queuedBatchIDs' = <<>>
    /\ Goto(r, "idle")
    /\ picked' = [picked EXCEPT ![r] = None]
    /\ UNCHANGED <<batches, activeBatchID, queueRunnerActive, left, gotJob, lockBusy>>

\* nextQueuedBatchID with none: the goroutine ends, and clears the flag only
\* if no batch is active.
runnerExits(r) ==
    /\ pc[r] = "pick"
    /\ validSlots = {}
    /\ queuedBatchIDs' = <<>>
    /\ queueRunnerActive' = (queueRunnerActive /\ activeBatchID # None)
    /\ Goto(r, "idle")
    /\ picked' = [picked EXCEPT ![r] = None]
    /\ UNCHANGED <<batches, activeBatchID, left, gotJob, lockBusy>>

\* scanLockBlocksManualStart, with its two answers.
lockFree(r) ==
    /\ pc[r] = "check"
    /\ ~lockBusy
    /\ Goto(r, "activate")
    /\ UNCHANGED <<queueVars, picked, left, gotJob, lockBusy>>

lockBlocks(r) ==
    /\ pc[r] = "check"
    /\ lockBusy
    /\ Goto(r, "note")
    /\ UNCHANGED <<queueVars, picked, left, gotJob, lockBusy>>

\* Mutation: a blocked runner gives up instead of polling again.
GiveUpWhenBlocked(r) ==
    /\ pc[r] = "note"
    /\ Goto(r, "idle")
    /\ UNCHANGED <<queueVars, picked, left, gotJob, lockBusy>>

\* updateQueuedBatchMessage, then the poll interval passes.
updateQueuedBatchMessage(r) ==
    /\ pc[r] = "note"
    /\ LET id == picked[r] IN
       batches' =
          IF /\ activeBatchID = None
             /\ id \in Range(queuedBatchIDs)
             /\ batches[id] # None
             /\ batches[id].status = "queued"
          THEN [batches EXCEPT ![id].message = "LockWait"]
          ELSE batches
    /\ Goto(r, "pick")
    /\ UNCHANGED <<queuedBatchIDs, activeBatchID, queueRunnerActive,
                   picked, left, gotJob, lockBusy>>

\* activateQueuedBatch: the batch may have been cancelled since it was picked.
activateQueuedBatch(r) ==
    LET id == picked[r] IN
    /\ pc[r] = "activate"
    /\ \/ /\ activeBatchID = None
          /\ batches[id] # None
          /\ \E i \in DOMAIN queuedBatchIDs :
                /\ queuedBatchIDs[i] = id
                /\ queuedBatchIDs' = RemoveAt(queuedBatchIDs, i)
          /\ batches' = [batches EXCEPT ![id].status = "running",
                                        ![id].message = "Running"]
          /\ activeBatchID' = id
          /\ Goto(r, "snapshot")
       \/ /\ \/ activeBatchID # None
             \/ batches[id] = None
             \/ id \notin Range(queuedBatchIDs)
          /\ Goto(r, "pick")
          /\ UNCHANGED <<batches, queuedBatchIDs, activeBatchID>>
    /\ UNCHANGED <<queueRunnerActive, picked, left, gotJob, lockBusy>>

-----------------------------------------------------------------------------
(* runBatch.                                                               *)

\* updateBatch: a batch that is gone is left alone.
updateBatch(id, record) ==
    batches' = IF batches[id] = None THEN batches
               ELSE [batches EXCEPT ![id] = record]

\* batchSnapshot; a missing batch ends runBatch without finishBatch.
takeSnapshot(r) ==
    /\ pc[r] = "snapshot"
    /\ IF batches[picked[r]] = None
       THEN Goto(r, "pick") /\ UNCHANGED left
       ELSE /\ left' = [left EXCEPT ![r] = batches[picked[r]].targets]
            /\ Goto(r, "target")
    /\ UNCHANGED <<queueVars, picked, gotJob, lockBusy>>

\* One turn of the loop up to the wait: announce the target, start the script
\* and append the job id when its first line is one.
startTarget(r, job) ==
    LET b == batches[picked[r]] IN
    /\ pc[r] = "target"
    /\ left[r] > 0
    /\ updateBatch(picked[r], [b EXCEPT !.message = "Scanning",
                                        !.jobs = IF job THEN @ + 1 ELSE @])
    /\ gotJob' = [gotJob EXCEPT ![r] = job]
    /\ Goto(r, "wait")
    /\ UNCHANGED <<queuedBatchIDs, activeBatchID, queueRunnerActive,
                   picked, left, lockBusy>>

\* Mutation: only the job file is consulted, not the exit of the script.
TrustJobFile(r, err, result) ==
    LET b == batches[picked[r]] IN
    /\ pc[r] = "wait"
    /\ ~gotJob[r] => err /\ result = "unknown"
    /\ updateBatch(picked[r],
          [b EXCEPT !.completed = @ + 1,
                    !.threats = IF result = "found" THEN @ + 1 ELSE @,
                    !.failed = IF result = "error" THEN @ + 1 ELSE @])
    /\ left' = [left EXCEPT ![r] = @ - 1]
    /\ Goto(r, "target")
    /\ UNCHANGED <<queuedBatchIDs, activeBatchID, queueRunnerActive,
                   picked, gotJob, lockBusy>>

\* Mutation: the exit of the script and the job file each count a failure.
CountTwice(r, err, result) ==
    LET b == batches[picked[r]]
        failures == (IF err THEN 1 ELSE 0) + (IF result = "error" THEN 1 ELSE 0)
    IN
    /\ pc[r] = "wait"
    /\ ~gotJob[r] => err /\ result = "unknown"
    /\ updateBatch(picked[r], [b EXCEPT !.completed = @ + 1, !.failed = @ + failures])
    /\ left' = [left EXCEPT ![r] = @ - 1]
    /\ Goto(r, "target")
    /\ UNCHANGED <<queuedBatchIDs, activeBatchID, queueRunnerActive,
                   picked, gotJob, lockBusy>>

\* The rest of the turn: the script ended (err: it could not be started, gave
\* no job id or exited non-zero), its job file holds the result.
finishTarget(r, err, result) ==
    LET b == batches[picked[r]] IN
    /\ pc[r] = "wait"
    /\ ~gotJob[r] => err /\ result = "unknown"
    /\ updateBatch(picked[r],
          [b EXCEPT !.completed = @ + 1,
                    !.threats = IF result = "found" THEN @ + 1 ELSE @,
                    !.failed = IF err \/ result = "error" THEN @ + 1 ELSE @])
    /\ left' = [left EXCEPT ![r] = @ - 1]
    /\ Goto(r, "target")
    /\ UNCHANGED <<queuedBatchIDs, activeBatchID, queueRunnerActive,
                   picked, gotJob, lockBusy>>

\* Mutation: the loop is left after the first target.
CloseEarly(r) ==
    LET b == batches[picked[r]] IN
    /\ pc[r] = "target"
    /\ updateBatch(picked[r], [b EXCEPT !.status = "finished", !.message = "Clean"])
    /\ Goto(r, "finish")
    /\ UNCHANGED <<queuedBatchIDs, activeBatchID, queueRunnerActive,
                   picked, left, gotJob, lockBusy>>

\* After the loop: the verdict of the batch.
closeBatch(r) ==
    LET b == batches[picked[r]] IN
    /\ pc[r] = "target"
    /\ left[r] = 0
    /\ updateBatch(picked[r],
          [b EXCEPT !.status = IF b.failed > 0 THEN "failed" ELSE "finished",
                    !.message = CASE b.failed > 0 -> "Errors"
                                  [] b.failed = 0 /\ b.threats > 0 -> "Threats"
                                  [] OTHER -> "Clean"])
    /\ Goto(r, "finish")
    /\ UNCHANGED <<queuedBatchIDs, activeBatchID, queueRunnerActive,
                   picked, left, gotJob, lockBusy>>

\* finishBatch.
finishBatch(r) ==
    LET id == picked[r] IN
    /\ pc[r] = "finish"
    /\ activeBatchID' = IF activeBatchID = id THEN None ELSE activeBatchID
    /\ batches' = [batches EXCEPT ![id] = None]
    /\ Goto(r, "pick")
    /\ UNCHANGED <<queuedBatchIDs, queueRunnerActive, picked, left, gotJob, lockBusy>>

-----------------------------------------------------------------------------
(* A process outside the queue, such as a cron scan, takes or frees the    *)
(* scan lock (modelled in full by ScanLock).                               *)
otherScan ==
    /\ lockBusy' = ~lockBusy
    /\ UNCHANGED <<queueVars, runnerVars>>

Result == {"clean", "found", "error", "unknown"}

Handler ==
    \/ \E u \in User, b \in Batch, n \in 1..MaxTargets : enqueueBatch(u, b, n)
    \/ \E u \in User, b \in Batch, n \in 1..(Len(queuedBatchIDs) + 1) :
          reorderQueuedBatch(u, b, n)
    \/ \E u \in User, b \in Batch : cancelQueuedBatch(u, b)
    \/ \E u \in User : dropUserBatches(u)

RunnerStep(r) ==
    \/ \E u \in User : pickBatch(r, u)
    \/ runnerExits(r)
    \/ lockFree(r)
    \/ lockBlocks(r)
    \/ updateQueuedBatchMessage(r)
    \/ activateQueuedBatch(r)
    \/ takeSnapshot(r)
    \/ \E job \in BOOLEAN : startTarget(r, job)
    \/ \E err \in BOOLEAN, result \in Result : finishTarget(r, err, result)
    \/ closeBatch(r)
    \/ finishBatch(r)

Next == Handler \/ otherScan \/ \E r \in Runner : RunnerStep(r)

Spec == Init /\ [][Next]_vars

\* A started goroutine is scheduled and a started script ends (RunnerStep);
\* randomIndex chooses every user again and again (pickBatch).
Fairness ==
    /\ \A r \in Runner : WF_vars(RunnerStep(r))
    /\ \A r \in Runner, u \in User : SF_vars(pickBatch(r, u))

LiveSpec == Spec /\ Fairness

-----------------------------------------------------------------------------
(* What GET /api/scans shows to a user, and the derived views.             *)

\* The number a loop counts up to at position i, when it counts the positions S.
queueNumber(S, i) == Cardinality({j \in S : j <= i})

\* listQueueItems: the active batch, which has number 0, if it is u's, and the
\* queued batches of u by their numbers, from 1.
listQueueItems(u) ==
    LET own == slotsOf(u)
    IN [active |-> IF Owns(u, activeBatchID) THEN activeBatchID ELSE None,
        queued |-> [k \in 1..Cardinality(own) |->
                       queuedBatchIDs[CHOOSE i \in own : queueNumber(own, i) = k]]]

\* b is what the next selection of its user's queue returns.
FirstOfUser(b) ==
    \E i \in DOMAIN queuedBatchIDs :
        /\ queuedBatchIDs[i] = b
        /\ \A j \in 1..(i - 1) : ~Owns(batches[b].user, queuedBatchIDs[j])

-----------------------------------------------------------------------------
(* Properties.                                                             *)

\* Every variable holds a value of its type; in particular the counters of a
\* batch never pass the bound on its targets.
TypeOK ==
    /\ batches \in [Batch -> BatchRecord \cup {None}]
    /\ queuedBatchIDs \in Seq(Batch)
    /\ activeBatchID \in Batch \cup {None}
    /\ queueRunnerActive \in BOOLEAN
    /\ pc \in [Runner -> PC]
    /\ picked \in [Runner -> Batch \cup {None}]
    /\ left \in [Runner -> 0..MaxTargets]
    /\ gotJob \in [Runner -> BOOLEAN]
    /\ lockBusy \in BOOLEAN

\* startQueueRunnerLocked and nextQueuedBatchID together never let two
\* goroutines execute runQueue, whatever handlers run between their steps:
\* manual scans are started by one goroutine only.
OneRunner ==
    \A r, s \in Runner : pc[r] # "idle" /\ pc[s] # "idle" => r = s

\* No lost wake-up: a batch accepted into the queue always finds a runner
\* that is alive, also when it arrives while the last one is about to end.
NoLostWakeup ==
    queuedBatchIDs # <<>> => \E r \in Runner : pc[r] # "idle"

\* The batch the runner works on is the active one, is still in the map and
\* is not in a state only a queued batch may have: nothing a handler does can
\* take it away, so runBatch never returns early and leaves activeBatchID set,
\* which would end the runner for good.
ActiveBelongsToRunner ==
    /\ activeBatchID # None =>
          /\ \E r \in Runner : pc[r] \in Running /\ picked[r] = activeBatchID
          /\ batches[activeBatchID] # None
          /\ batches[activeBatchID].status # "queued"
          /\ batches[activeBatchID].message \notin {"Queued", "LockWait"}
    /\ \A r \in Runner : pc[r] \in Running => activeBatchID = picked[r]

\* The queue lists every batch once, lists only batches of the map that wait,
\* and the map holds no batch that is neither listed nor active (none leaks).
QueueMatchesMap ==
    /\ IsInjective(queuedBatchIDs)
    /\ \A b \in Range(queuedBatchIDs) :
          /\ batches[b] # None
          /\ batches[b].status = "queued"
          /\ b # activeBatchID
    /\ \A b \in Batch :
          batches[b] # None => b \in Range(queuedBatchIDs) \/ b = activeBatchID

\* A target for which no job id came back is counted as failed, so a batch
\* is closed as finished only when every one of its targets has a job.
FailuresAreCounted ==
    \A b \in Batch : batches[b] # None =>
        /\ batches[b].completed <= batches[b].jobs + batches[b].failed
        /\ batches[b].status = "finished" => batches[b].completed = batches[b].jobs

\* A batch that has become active stays so until all its targets are
\* completed and it has its verdict.
ActiveRunsToVerdict ==
    [][activeBatchID # None /\ activeBatchID' # activeBatchID =>
          /\ activeBatchID' = None
          /\ batches[activeBatchID].completed = batches[activeBatchID].targets
          /\ batches[activeBatchID].status \in {"failed", "finished"}]_vars

\* Once no other process keeps the scan lock busy, the first batch of every
\* user's queue is started, or its owner withdraws it or moves another one in
\* front: no user is starved by the batches the others keep submitting.
HeadIsServed ==
    <>[](~lockBusy) =>
       \A b \in Batch : FirstOfUser(b) ~> ~FirstOfUser(b)

\* The runner always comes back to an idle queue or to its next pick: no
\* batch stays active for ever.
ActiveBatchEnds ==
    \A b \in Batch : activeBatchID = b ~> activeBatchID # b

\* The queue is served: its heads are started and what is started ends.
QueueIsServed == HeadIsServed /\ ActiveBatchEnds

=============================================================================
