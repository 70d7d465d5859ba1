---------------------------- MODULE QueueService ----------------------------
(***************************************************************************)
(* The queue as its users see it: each user's list is what listQueueItems  *)
(* numbers from 1, the running batch what it numbers 0.  In this view      *)
(* ScanQueue implements ScanService.                                       *)
(***************************************************************************)
EXTENDS ScanQueue

WaitingLists == [u \in User |-> listQueueItems(u).queued]

\* The goroutine has picked a batch and has not started it yet.
ChosenBatch ==
    LET busy == {r \in Runner : pc[r] \in {"check", "note", "activate"}}
    IN IF busy = {} THEN None ELSE picked[CHOOSE r \in busy : TRUE]

RunningBatch ==
    LET shown == {u \in User : listQueueItems(u).active # None}
    IN IF shown = {} THEN None ELSE listQueueItems(CHOOSE u \in shown : TRUE).active

Service == INSTANCE ScanService WITH
    lists <- WaitingLists, chosen <- ChosenBatch, running <- RunningBatch

\* The shared slice, the runner goroutine and the handlers together implement
\* one list per user with a single running batch: a reorder puts the batch
\* exactly where its owner asked and touches no other list, and only a batch
\* that was the head of its owner's list is ever started.
ImplementsService == Service!Spec

=============================================================================
