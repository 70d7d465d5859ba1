-------------------------------- MODULE Lookups --------------------------------
(***************************************************************************)
(* Asynchronous lookups (server/lookups.go): the records a client polls,   *)
(* the workers that fill them, their limits, cancellation and cleanup.     *)
(* Results, statistics and quarantine lists are looked up by the same      *)
(* protocol (result_lookup.go, history_statistics.go, quarantine.go).      *)
(*                                                                         *)
(* lookupLifecycleMu covers starting, cleaning and removing; a worker      *)
(* takes only the mutex of its kind and the runtime's own.  So while a     *)
(* removal holds lookupLifecycleMu and waits, workers must be able to end. *)
(***************************************************************************)
EXTENDS Naturals, FiniteSets

CONSTANTS
    Id,             \* lookup ids; random, so one nobody refers to is fresh
    User,
    MaxPending,     \* maxPendingLookupsPerUser
    MaxRetained,    \* maxRetainedLookupsPerUser
    Timeout,        \* lookupExecutionTimeout
    Interval,       \* lookupCleanupInterval
    Retention,      \* lookupRetention
    MaxTime,        \* bound: the clock
    None

ASSUME LimitAssumption ==
    /\ {MaxPending, MaxRetained, Timeout, Interval, Retention} \subseteq Nat \ {0}
    /\ MaxTime \in Nat /\ IsFiniteSet(Id)

\* A lookup a client polls, the goroutine that works on it and what holds
\* lookupLifecycleMu.
Record == [user : User, status : {"pending", "success", "failed"},
           started : 0..MaxTime, updated : 0..MaxTime]
Worker == [user : User, ctx : {"ok", "cancelled", "expired"},
           pc : {"begin", "read", "success", "failed", "return"}]
Holder == [op : {"start", "remove"}, user : User, id : Id \cup {None}]

ASSUME NoneAssumption == None \notin (Id \cup User \cup Record \cup Worker \cup Holder)

VARIABLES
    now,
    rec,        \* the lookups by id: [user, status, started, updated] or None
    worker,     \* runtime.workers: [user, ctx, pc] or None
    pending,    \* runtime.pendingByUser (absent is 0)
    stopped,    \* runtime.stopped, and the runtime's context cancelled
    life        \* what holds lookupLifecycleMu: a start between its insert and
                \* the start of its worker, a removal that waits, or None

vars == <<now, rec, worker, pending, stopped, life>>

Init ==
    /\ now = 0 /\ stopped = FALSE /\ life = None
    /\ rec = [i \in Id |-> None]
    /\ worker = [i \in Id |-> None]
    /\ pending = [u \in User |-> 0]

RecordsOf(r, u) == {i \in Id : r[i] # None /\ r[i].user = u}
WorkersOf(u) == {i \in Id : worker[i] # None /\ worker[i].user = u}

Tick == now < MaxTime /\ now' = now + 1 /\ UNCHANGED <<rec, worker, pending, stopped, life>>

-----------------------------------------------------------------------------
(* Under lookupLifecycleMu.                                                *)

\* A pending record gets one interval more than its worker's timeout.
Expired(i) ==
    /\ rec[i] # None
    /\ IF rec[i].status = "pending"
       THEN rec[i].started + Timeout + Interval <= now
       ELSE rec[i].updated + Retention <= now

Cleaned == [i \in Id |-> IF Expired(i) THEN None ELSE rec[i]]

\* context.CancelFunc: a context that is over already keeps its error.
Cancelled(S) == [i \in Id |-> IF i \in S /\ worker[i] # None /\ worker[i].ctx = "ok"
                              THEN [worker[i] EXCEPT !.ctx = "cancelled"] ELSE worker[i]]

cleanupLookups ==
    /\ ~stopped
    /\ life = None
    /\ rec' = Cleaned
    /\ worker' = Cancelled({i \in Id : Expired(i)})
    /\ UNCHANGED <<now, pending, stopped, life>>

\* Records r without those makeLookupRoomLocked evicts for u: as many as needed,
\* terminal ones only, the longest unchanged first.
Evictions(r, u) ==
    LET own == RecordsOf(r, u)
        done == {i \in own : r[i].status # "pending"}
    IN  {S \in SUBSET done :
            /\ \A i \in S, j \in done \ S : r[i].updated <= r[j].updated
            /\ \/ Cardinality(own) - Cardinality(S) = MaxRetained - 1
               \/ Cardinality(own) < MaxRetained /\ S = {}}

canStart(u) == ~stopped /\ pending[u] < MaxPending

\* startLookup up to insert().  When it is refused (429) only the cleanup that
\* comes first has happened, which is cleanupLookups.
startLookup(u, i) ==
    /\ life = None /\ canStart(u)
    /\ rec[i] = None /\ worker[i] = None
    /\ \E S \in Evictions(Cleaned, u) :
          rec' = [j \in Id |-> IF j = i
                    THEN [user |-> u, status |-> "pending", started |-> now, updated |-> now]
                    ELSE IF j \in S THEN None ELSE Cleaned[j]]
    /\ worker' = Cancelled({j \in Id : Expired(j)})
    /\ life' = [op |-> "start", user |-> u, id |-> i]
    /\ UNCHANGED <<now, pending, stopped>>

\* runtime.start, which looks again: the server may have been stopped meanwhile.
startWorker ==
    /\ life # None /\ life.op = "start"
    /\ IF canStart(life.user)
       THEN /\ worker' = [worker EXCEPT ![life.id] = [user |-> life.user, ctx |-> "ok", pc |-> "begin"]]
            /\ pending' = [pending EXCEPT ![life.user] = @ + 1]
            /\ UNCHANGED rec
       ELSE rec' = [rec EXCEPT ![life.id] = None] /\ UNCHANGED <<worker, pending>>
    /\ life' = None
    /\ UNCHANGED <<now, stopped>>

\* removeLookupsForUser: cancel the user's workers ...
removeCancel(u) ==
    /\ life = None
    /\ worker' = Cancelled(WorkersOf(u))
    /\ life' = [op |-> "remove", user |-> u, id |-> None]
    /\ UNCHANGED <<now, rec, pending, stopped>>

\* Mutation: the workers are cancelled but not waited for.
RemoveWithoutWaiting ==
    /\ life # None /\ life.op = "remove"
    /\ rec' = [i \in Id |-> IF i \in RecordsOf(rec, life.user) THEN None ELSE rec[i]]
    /\ life' = None
    /\ UNCHANGED <<now, worker, pending, stopped>>

\* ... wait for them, and delete the records.
removeRecords ==
    /\ life # None /\ life.op = "remove"
    /\ WorkersOf(life.user) = {}
    /\ rec' = [i \in Id |-> IF i \in RecordsOf(rec, life.user) THEN None ELSE rec[i]]
    /\ life' = None
    /\ UNCHANGED <<now, worker, pending, stopped>>

\* stopAndWait: nothing starts any more, and the context of all workers ends.
stopRuntime ==
    /\ ~stopped
    /\ stopped' = TRUE
    /\ worker' = Cancelled(Id)
    /\ UNCHANGED <<now, rec, pending, life>>

-----------------------------------------------------------------------------
(* A worker.                                                               *)

deadline(i) ==
    /\ worker[i] # None /\ worker[i].ctx = "ok"
    /\ rec[i] # None => rec[i].started + Timeout <= now
    /\ worker' = [worker EXCEPT ![i].ctx = "expired"]
    /\ UNCHANGED <<now, rec, pending, stopped, life>>

\* The record is looked up; if it has gone there is nothing to do.
begin(i) ==
    /\ worker[i] # None /\ worker[i].pc = "begin"
    /\ worker' = [worker EXCEPT ![i].pc = IF rec[i] = None THEN "return" ELSE "read"]
    /\ UNCHANGED <<now, rec, pending, stopped, life>>

\* Mutation: a deadline is taken for a cancellation.
DeadlineIsCancellation(i) ==
    /\ worker[i] # None /\ worker[i].pc = "read"
    /\ \/ worker' = [worker EXCEPT ![i].pc = "success"]
       \/ worker[i].ctx # "ok" /\ worker' = [worker EXCEPT ![i].pc = "return"]
    /\ UNCHANGED <<now, rec, pending, stopped, life>>

\* The read ends with a result or an error, or notices that its context is over:
\* a cancelled one publishes nothing, one past its deadline fails.
read(i) ==
    /\ worker[i] # None /\ worker[i].pc = "read"
    /\ \/ \E pc \in {"success", "failed"} : worker' = [worker EXCEPT ![i].pc = pc]
       \/ worker[i].ctx = "cancelled" /\ worker' = [worker EXCEPT ![i].pc = "return"]
    /\ UNCHANGED <<now, rec, pending, stopped, life>>

\* Mutation: publishing waits for lookupLifecycleMu.
PublishUnderLifecycleMu(i) ==
    /\ worker[i] # None /\ worker[i].pc \in {"success", "failed"}
    /\ life = None
    /\ rec' = [rec EXCEPT ![i] = IF @ = None THEN None
                                 ELSE [@ EXCEPT !.status = worker[i].pc, !.updated = now]]
    /\ worker' = [worker EXCEPT ![i].pc = "return"]
    /\ UNCHANGED <<now, pending, stopped, life>>

\* The record may have been removed during the read.
publish(i) ==
    /\ worker[i] # None /\ worker[i].pc \in {"success", "failed"}
    /\ rec' = [rec EXCEPT ![i] = IF @ = None THEN None
                                 ELSE [@ EXCEPT !.status = worker[i].pc, !.updated = now]]
    /\ worker' = [worker EXCEPT ![i].pc = "return"]
    /\ UNCHANGED <<now, pending, stopped, life>>

\* The deferred function.
return(i) ==
    /\ worker[i] # None /\ worker[i].pc = "return"
    /\ worker' = [worker EXCEPT ![i] = None]
    /\ pending' = [pending EXCEPT ![worker[i].user] = @ - 1]
    /\ UNCHANGED <<now, rec, stopped, life>>

Work(i) == begin(i) \/ read(i) \/ publish(i) \/ return(i)

Next ==
    \/ Tick \/ cleanupLookups \/ startWorker \/ removeRecords \/ stopRuntime
    \/ \E u \in User : removeCancel(u) \/ \E i \in Id : startLookup(u, i)
    \/ \E i \in Id : deadline(i) \/ Work(i)

Spec == Init /\ [][Next]_vars

\* Goroutines run, and the reads of a worker end.
Fairness ==
    /\ WF_vars(startWorker) /\ WF_vars(removeRecords)
    /\ \A i \in Id : WF_vars(Work(i))

-----------------------------------------------------------------------------
TypeOK ==
    /\ now \in 0..MaxTime /\ stopped \in BOOLEAN
    /\ rec \in [Id -> Record \cup {None}]
    /\ worker \in [Id -> Worker \cup {None}]
    /\ pending \in [User -> 0..MaxPending]
    /\ life \in Holder \cup {None}

\* The slots in use are the workers alive: every way a worker can end returns its
\* slot exactly once, and no user has more than MaxPending workers.
SlotsAreWorkers ==
    \A u \in User : pending[u] = Cardinality(WorkersOf(u)) /\ pending[u] <= MaxPending

\* No user keeps more than MaxRetained lookups.
RetainedIsBounded == \A u \in User : Cardinality(RecordsOf(rec, u)) <= MaxRetained

\* A lookup that says pending is being worked on: a client never polls a record
\* nobody will finish, except after shutdown or while its owner is being removed.
PendingHasWorker ==
    \A i \in Id : rec[i] # None /\ rec[i].status = "pending" =>
        \/ worker[i] # None /\ worker[i].user = rec[i].user
        \/ stopped
        \/ life # None /\ life.user = rec[i].user

\* The records and the workers have their types; every slot is that of a worker
\* that runs, no user has more records than are retained, and a record that is
\* pending has a worker that will publish it (lookupRuntime).
LookupInv == TypeOK /\ SlotsAreWorkers /\ RetainedIsBounded /\ PendingHasWorker

\* Making room never drops a lookup that is still pending; it goes only when it
\* is abandoned, when its user is removed or when its worker cannot start.
PendingIsKept ==
    [][\A i \in Id : rec[i] # None /\ rec[i].status = "pending" /\ rec'[i] = None =>
          Expired(i) \/ (life # None /\ life.user = rec[i].user)]_vars

\* When the removal of a user's lookups returns, none of them is left and no
\* worker reads the user's files any more (cleanDeleteUser relies on it).
RemovalIsComplete ==
    [][\A u \in User : life # None /\ life.op = "remove" /\ life.user = u /\ life' = None =>
          RecordsOf(rec', u) = {} /\ WorkersOf(u)' = {}]_vars

\* Making room drops no lookup that is pending, and when the removal of a user's
\* lookups has returned neither a record nor a worker of his is left
\* (makeLookupRoomLocked, removeLookupsForUser).
KeptUntilRemoved == PendingIsKept /\ RemovalIsComplete

\* A removal always returns although it waits with the mutex held, and after
\* stopAndWait the workers end.
RemovalEnds == (life # None /\ life.op = "remove") ~> life = None
WorkersEnd == stopped ~> \A i \in Id : worker[i] = None
=============================================================================
