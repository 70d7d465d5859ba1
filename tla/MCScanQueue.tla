---------------------------- MODULE MCScanQueue -----------------------------
(* Model checking of ScanQueue on small instances.                         *)
EXTENDS QueueService

\* Batches, users and goroutines are interchangeable (safety runs only).
Symmetry == Permutations(Batch) \cup Permutations(User) \cup Permutations(Runner)

=============================================================================
