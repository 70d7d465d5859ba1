----------------------------- MODULE ScanService -----------------------------
(***************************************************************************)
(* What the manual scan queue promises to its users (server/api.md,        *)
(* "Scheduling rules of the queue"), without goroutines, locks or a shared *)
(* slice: every user has a list of its own, the service chooses the head   *)
(* of some user's list, and at most one batch runs.                        *)
(***************************************************************************)
EXTENDS Integers, Sequences, SequencesExt

CONSTANTS Batch, User, None

VARIABLES
    lists,     \* the batches each user has waiting, in the order shown to it
    chosen,    \* the batch the service is about to start, if any
    running    \* the batch that runs, if any

vars == <<lists, chosen, running>>

Waiting(u) == {lists[u][i] : i \in DOMAIN lists[u]}

Init ==
    /\ lists = [u \in User |-> <<>>]
    /\ chosen = None
    /\ running = None

\* A user appends a batch to its own list.
Submit(u, b) ==
    /\ b \notin {chosen, running} /\ \A v \in User : b \notin Waiting(v)
    /\ lists' = [lists EXCEPT ![u] = Append(@, b)]
    /\ UNCHANGED <<chosen, running>>

\* A user moves the i-th of its batches to the n-th place of its list.
Reorder(u, i, n) ==
    /\ lists' = [lists EXCEPT ![u] = InsertAt(RemoveAt(@, i), n, @[i])]
    /\ UNCHANGED <<chosen, running>>

\* A user withdraws a batch that has not started.
Withdraw(u, i) ==
    /\ lists' = [lists EXCEPT ![u] = RemoveAt(@, i)]
    /\ UNCHANGED <<chosen, running>>

\* A user's account goes away with everything it has waiting.
Leave(u) ==
    /\ lists' = [lists EXCEPT ![u] = <<>>]
    /\ UNCHANGED <<chosen, running>>

\* The service chooses the head of a user's list ...
Choose(u) ==
    /\ running = None
    /\ lists[u] # <<>>
    /\ chosen' = Head(lists[u])
    /\ UNCHANGED <<lists, running>>

\* ... and starts it if it still waits, wherever it stands by then, or gives
\* the choice up.
Start(u, i) ==
    /\ running = None
    /\ lists[u][i] = chosen
    /\ lists' = [lists EXCEPT ![u] = RemoveAt(@, i)]
    /\ running' = chosen
    /\ chosen' = None

GiveUp ==
    /\ chosen # None
    /\ chosen' = None
    /\ UNCHANGED <<lists, running>>

Finish ==
    /\ running # None
    /\ running' = None
    /\ UNCHANGED <<lists, chosen>>

Next ==
    \/ \E u \in User, b \in Batch : Submit(u, b)
    \/ \E u \in User : \E i, n \in DOMAIN lists[u] : Reorder(u, i, n)
    \/ \E u \in User : \E i \in DOMAIN lists[u] : Withdraw(u, i) \/ Start(u, i)
    \/ \E u \in User : Leave(u) \/ Choose(u)
    \/ GiveUp
    \/ Finish

Spec == Init /\ [][Next]_vars

=============================================================================
