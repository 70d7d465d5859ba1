---------------------------- MODULE HistoryIndex ----------------------------
(***************************************************************************)
(* The history index: rows of history.db kept in step with the job files   *)
(* scan_once.sh replaces in the jobs directory (server/history_index.go),  *)
(* and the removal of a user's results (server/cleanup.go).                *)
(*                                                                         *)
(* Two goroutines read files and write rows under historyIndexer.mu: the   *)
(* indexer, driven by file events, watcher errors and a periodic timer,    *)
(* and a clean, which afterwards deletes files and rows without the mutex. *)
(* Events may be lost; a full refresh skips files with an unchanged mtime. *)
(***************************************************************************)
EXTENDS Naturals, FiniteSets

CONSTANTS
    File,       \* job files
    Mine,       \* the jobs of the user who cleans his results
    MaxV,       \* bound: versions of each file
    SameTick,   \* when two versions may have the same mtime: "never",
                \* "watched" (only while events are delivered) or "always"
    MaxRetry,   \* historyWatchMaxConsecutiveRetryCount
    Faults,     \* what may go wrong, a subset of AllFaults
    MaxClean, MaxRestart,   \* bounds
    None

AllFaults == {"overflow", "down", "fail", "corrupt"}

Thread == {"indexer", "cleaner"}

\* A job file, and its row in history_jobs; det: the row's detections are in
\* history_detections.
Version == [v : 1..MaxV, mt : 1..MaxV, ok : BOOLEAN]
Row == [v : 1..MaxV, mt : 1..MaxV, det : BOOLEAN]

\* What the constants are, for every instance.
HistoryAssumption ==
    /\ Mine \subseteq File /\ Faults \subseteq AllFaults
    /\ SameTick \in {"never", "watched", "always"}
    /\ MaxV \in Nat \ {0} /\ MaxRetry \in Nat \ {0}
    /\ MaxClean \in Nat /\ MaxRestart \in Nat
    /\ None \notin (File \cup Thread \cup Version \cup Row)

VARIABLES
    disk,       \* job file -> Version or None
    wrote,      \* versions written so far
    db,         \* job file -> Row or None
    schema,     \* 2, or 3 once schema_migrations says so
    events,     \* files with an event in the watcher or in the requests channel
    errs,       \* a full request is in the channel
    watcher,    \* "down", "on" or "disabled"
    failures,   \* consecutiveFailures
    pending,    \* pendingPaths
    errPending, errTimer,   \* watcherErrorRefreshPending, watcherErrorTimer # nil
    recent,     \* lastFullRefresh is less than the cooldown ago
    mu,         \* holder of historyIndexer.mu
    t,          \* threads
    jobs,       \* what the clean has selected
    before,     \* history: the user's files (with version) when the clean began,
                \* as long as its refresh has not failed
    cleans, restarts

ctl == <<events, errs, watcher, failures, pending, errPending, errTimer, recent>>
cln == <<jobs, before, cleans>>
vars == <<disk, wrote, db, schema, ctl, mu, t, cln, restarts>>

\* pc; why the refresh runs; indexedMtimes; entries to visit; the entry in hand
\* with the mtime that was found and the version that was read.
Idle == [pc |-> "idle", why |-> "", old |-> [f \in File |-> 0], todo |-> {},
         f |-> None, info |-> 0, v |-> 0]
Boot == [Idle EXCEPT !.pc = "boot"]

\* A new database; or one left by schema 2, some of whose files have gone.
Init ==
    /\ \/ schema = 3 /\ disk = [f \in File |-> None] /\ wrote = [f \in File |-> 0]
          /\ db = [f \in File |-> None]
       \/ /\ schema = 2 /\ wrote = [f \in File |-> 1]
          /\ \E here \in SUBSET File :
                disk = [f \in File |-> IF f \in here THEN [v |-> 1, mt |-> 1, ok |-> TRUE] ELSE None]
          /\ db = [f \in File |-> [v |-> 1, mt |-> 1, det |-> FALSE]]
    /\ events = {} /\ errs = FALSE /\ watcher = "down" /\ failures = 0 /\ pending = {}
    /\ errPending = FALSE /\ errTimer = FALSE /\ recent = FALSE
    /\ mu = None
    /\ t = [x \in Thread |-> IF x = "indexer" THEN Boot ELSE Idle]
    /\ jobs = {} /\ before = {} /\ cleans = 0 /\ restarts = 0

-----------------------------------------------------------------------------
(* scan_once.sh, the file system and fsnotify.                             *)

\* A change of f is reported while the directory is watched, unless the queue
\* of the watcher overflows.
Notify(f) ==
    \/ watcher = "on" /\ events' = events \cup {f} /\ UNCHANGED errs
    \/ watcher = "on" /\ "overflow" \in Faults /\ errs' = TRUE /\ UNCHANGED events
    \/ watcher # "on" /\ UNCHANGED <<events, errs>>

quiet == <<watcher, failures, pending, errPending, errTimer, recent>>

\* write_job_state: a new version is renamed into place.
writeJob(f) ==
    /\ wrote[f] < MaxV
    /\ wrote' = [wrote EXCEPT ![f] = @ + 1]
    /\ \E ok \in {TRUE} \cup (IF "corrupt" \in Faults THEN {FALSE} ELSE {}),
          same \in BOOLEAN :
          /\ same => /\ disk[f] # None
                     /\ \/ SameTick = "always"
                        \/ SameTick = "watched" /\ watcher = "on"
          /\ disk' = [disk EXCEPT ![f] = [v |-> wrote[f] + 1, ok |-> ok,
                         mt |-> IF same THEN disk[f].mt ELSE wrote[f] + 1]]
    /\ Notify(f)
    /\ UNCHANGED <<db, schema, quiet, mu, t, cln, restarts>>

\* watchHistoryJobFiles: a watcher is set up, fails to, or closes.  Nothing is
\* refreshed when it works again.
watch ==
    /\ t["indexer"].pc # "boot" /\ watcher = "down"
    /\ \/ watcher' = "on" /\ failures' = 0
       \/ /\ "down" \in Faults
          /\ failures' = failures + 1
          /\ watcher' = IF failures + 1 >= MaxRetry THEN "disabled" ELSE "down"
    /\ UNCHANGED <<disk, wrote, db, schema, events, errs, pending, errPending,
                   errTimer, recent, mu, t, cln, restarts>>

watchClosed ==
    /\ "down" \in Faults /\ watcher = "on"
    /\ watcher' = "down"
    /\ \E lost \in SUBSET events : events' = events \ lost
    /\ UNCHANGED <<disk, wrote, db, schema, errs, failures, pending, errPending,
                   errTimer, recent, mu, t, cln, restarts>>

-----------------------------------------------------------------------------
(* historyIndexer: refresh, refreshFile and upgradeSchema, for thread x.   *)

Readable(f) == disk[f] # None /\ disk[f].ok    \* a valid version 3 job

\* Mutation: the upgrade skips files with an unchanged mtime.
ForceEvents(x) == t[x].why = "file"

\* historyRefreshOptions: force, and reconcileDeleted with removeInvalid.
Force(x) == t[x].why \in {"file", "upgrade"}
RemoveInvalid(x) == t[x].why # "upgrade"
Full(x) == t[x].why # "file"
Data == UNCHANGED <<disk, wrote, schema, restarts>>

\* loadIndexedMtimesLocked, under the mutex; upgradeSchema has no use for it.
loadIndexedMtimes(x) ==
    /\ t[x].pc = "load" /\ mu = None
    /\ mu' = x
    /\ t' = [t EXCEPT ![x].pc = "readDir",
                      ![x].old = [f \in File |-> IF db[f] = None \/ Force(x) THEN 0 ELSE db[f].mt]]
    /\ Data /\ UNCHANGED <<db, ctl, cln>>

readDir(x) ==
    /\ t[x].pc = "readDir"
    /\ \/ t' = [t EXCEPT ![x].pc = "entry", ![x].todo = {f \in File : disk[f] # None}]
       \/ "fail" \in Faults /\ t' = [t EXCEPT ![x].pc = "failed"]
    /\ Data /\ UNCHANGED <<db, ctl, mu, cln>>

\* The mutex is held for a whole refresh, or for one file.
Next1(x, pc) == [t EXCEPT ![x].pc = pc, ![x].f = None]
Free(x) == IF Full(x) THEN mu ELSE None

Unchanged(x, f) == ~Force(x) /\ t[x].old[f] = disk[f].mt

\* Mutation: refreshFile does not take the mutex.
StatUnlocked(x, f) ==
    /\ t[x].pc = "entry" /\ f \in t[x].todo
    /\ LET rest == [t[x] EXCEPT !.todo = @ \ {f}, !.old[f] = 0]
       IN  IF disk[f] = None \/ Unchanged(x, f)
           THEN /\ t' = [t EXCEPT ![x] = rest]
                /\ db' = IF Full(x) \/ disk[f] # None THEN db ELSE [db EXCEPT ![f] = None]
           ELSE /\ t' = [t EXCEPT ![x] = [rest EXCEPT !.pc = "read", !.f = f, !.info = disk[f].mt]]
                /\ UNCHANGED db
    /\ Data /\ UNCHANGED <<mu, ctl, cln>>

\* entry.Info or os.Stat, and whether there is anything to do for the entry.
\* refreshFile drops the row of a missing file at once.
stat(x, f) ==
    /\ t[x].pc = "entry" /\ f \in t[x].todo
    /\ Full(x) \/ mu = None
    /\ LET rest == [t[x] EXCEPT !.todo = @ \ {f}, !.old[f] = 0]
       IN  IF disk[f] = None \/ Unchanged(x, f)
           THEN /\ t' = [t EXCEPT ![x] = rest]
                /\ db' = IF Full(x) \/ disk[f] # None THEN db ELSE [db EXCEPT ![f] = None]
                /\ UNCHANGED mu
           ELSE /\ t' = [t EXCEPT ![x] = [rest EXCEPT !.pc = "read", !.f = f, !.info = disk[f].mt]]
                /\ mu' = x /\ UNCHANGED db
    /\ Data /\ UNCHANGED <<ctl, cln>>

\* Mutation: the mtime is taken after the file has been read.
ReadThenStat(x) ==
    LET f == t[x].f
    IN  /\ t[x].pc = "read"
        /\ \/ /\ Readable(f)
              /\ t' = [t EXCEPT ![x].pc = "commit", ![x].v = disk[f].v]
              /\ UNCHANGED <<db, mu>>
           \/ /\ Readable(f) /\ t[x].info # disk[f].mt
              /\ t' = [t EXCEPT ![x].pc = "commit", ![x].v = disk[f].v - 1, ![x].info = disk[f].mt]
              /\ UNCHANGED <<db, mu>>
           \/ /\ ~Readable(f)
              /\ db' = IF RemoveInvalid(x) THEN [db EXCEPT ![f] = None] ELSE db
              /\ t' = Next1(x, "entry") /\ mu' = Free(x)
        /\ Data /\ UNCHANGED <<ctl, cln>>

\* indexFile reads the job and its detections; a file that is gone or invalid
\* loses its row, except during the upgrade.
readFile(x) ==
    LET f == t[x].f
    IN  /\ t[x].pc = "read"
        /\ \/ /\ Readable(f)
              /\ t' = [t EXCEPT ![x].pc = "commit", ![x].v = disk[f].v]
              /\ UNCHANGED <<db, mu>>
           \/ /\ ~Readable(f)
              /\ db' = IF RemoveInvalid(x) THEN [db EXCEPT ![f] = None] ELSE db
              /\ t' = Next1(x, "entry") /\ mu' = Free(x)
        /\ Data /\ UNCHANGED <<ctl, cln>>

\* The transaction: the row and its detections.
commit(x) ==
    /\ t[x].pc = "commit"
    /\ db' = [db EXCEPT ![t[x].f] = [v |-> t[x].v, mt |-> t[x].info, det |-> TRUE]]
    /\ t' = Next1(x, "entry") /\ mu' = Free(x)
    /\ Data /\ UNCHANGED <<ctl, cln>>

\* The rows of files that were not met go; then whoever called goes on.
endRefresh(x) ==
    /\ Full(x)
    /\ t[x].pc = "entry" /\ t[x].todo = {}
    /\ db' = [f \in File |-> IF t[x].old[f] = 0 \/ ~RemoveInvalid(x) THEN db[f] ELSE None]
    /\ mu' = None
    /\ t' = [t EXCEPT ![x] = IF x = "cleaner" THEN [Idle EXCEPT !.pc = "select"] ELSE Idle]
    /\ schema' = IF t[x].why = "upgrade" THEN 3 ELSE schema
    /\ IF t[x].why = "periodic"
       THEN recent' = TRUE /\ errPending' = FALSE /\ errTimer' = FALSE
       ELSE UNCHANGED <<recent, errPending, errTimer>>
    /\ UNCHANGED <<disk, wrote, events, errs, watcher, failures, pending, cln, restarts>>

\* A refresh fails: main stops after a failed upgrade, the others go on.
refreshFails(x) ==
    /\ t[x].pc = "failed"
    /\ mu' = None
    /\ t' = [t EXCEPT ![x] = IF x = "cleaner" THEN [Idle EXCEPT !.pc = "select"]
                             ELSE IF t[x].why = "upgrade" THEN Boot ELSE Idle]
    /\ before' = IF x = "cleaner" THEN {} ELSE before
    /\ Data /\ UNCHANGED <<db, ctl, jobs, cleans>>

-----------------------------------------------------------------------------
(* runHistoryIndexer, and what main does before it.                        *)

Start(why) == t' = [t EXCEPT !["indexer"] = [Idle EXCEPT !.pc = "load", !.why = why]]
Ready == t["indexer"].pc = "idle"

boot ==
    /\ t["indexer"].pc = "boot"
    /\ Start(IF schema = 2 THEN "upgrade" ELSE "start")
    /\ Data /\ UNCHANGED <<db, ctl, mu, cln>>

\* request := <-requests with a path.
takeEvent ==
    /\ Ready
    /\ \E f \in events : events' = events \ {f} /\ pending' = pending \cup {f}
    /\ Data /\ UNCHANGED <<db, errs, watcher, failures, errPending, errTimer, recent, mu, t, cln>>

\* The debounce timer: refreshFile for every pending path.
debounce ==
    /\ Ready /\ pending # {}
    /\ t' = [t EXCEPT !["indexer"] = [Idle EXCEPT !.pc = "entry", !.why = "file", !.todo = pending]]
    /\ pending' = {}
    /\ Data /\ UNCHANGED <<db, events, errs, watcher, failures, errPending, errTimer, recent, mu, cln>>

debounceDone ==
    /\ t["indexer"].pc = "entry" /\ t["indexer"].why = "file" /\ t["indexer"].todo = {}
    /\ t' = [t EXCEPT !["indexer"] = Idle]
    /\ Data /\ UNCHANGED <<db, ctl, mu, cln>>

runWatcherErrorRefresh ==
    /\ recent' = TRUE /\ errPending' = FALSE /\ errTimer' = FALSE
    /\ Start("error")

\* scheduleWatcherErrorRefresh: at once, or when the cooldown is over.
takeError ==
    /\ Ready /\ errs
    /\ errs' = FALSE
    /\ IF ~recent THEN runWatcherErrorRefresh
       ELSE errPending' = TRUE /\ errTimer' = TRUE /\ UNCHANGED <<recent, t>>
    /\ Data /\ UNCHANGED <<db, events, watcher, failures, pending, mu, cln>>

periodic ==
    /\ Ready
    /\ Start("periodic")
    /\ Data /\ UNCHANGED <<db, ctl, mu, cln>>

errorTimer ==
    /\ Ready /\ errTimer /\ ~recent
    /\ IF errPending THEN runWatcherErrorRefresh
       ELSE errTimer' = FALSE /\ UNCHANGED <<recent, errPending, t>>
    /\ Data /\ UNCHANGED <<db, events, errs, watcher, failures, pending, mu, cln>>

\* The cooldown since lastFullRefresh has passed.
cooldown ==
    /\ recent /\ recent' = FALSE
    /\ Data /\ UNCHANGED <<db, events, errs, watcher, failures, pending, errPending, errTimer, mu, t, cln>>

\* The server is killed and starts again.
restart ==
    /\ restarts < MaxRestart /\ restarts' = restarts + 1
    /\ events' = {} /\ errs' = FALSE /\ watcher' = "down" /\ failures' = 0 /\ pending' = {}
    /\ errPending' = FALSE /\ errTimer' = FALSE /\ recent' = FALSE
    /\ mu' = None
    /\ t' = [x \in Thread |-> IF x = "indexer" THEN Boot ELSE Idle]
    /\ jobs' = {} /\ before' = {}
    /\ UNCHANGED <<disk, wrote, db, schema, cleans>>

-----------------------------------------------------------------------------
(* cleanUserResults: the refresh, then the user's files and rows.          *)

Served == t["indexer"].pc # "boot" /\ t["indexer"].why \notin {"start", "upgrade"}

\* Mutation: the index is trusted as it is.
CleanWithoutRefresh ==
    /\ Served /\ t["cleaner"].pc = "idle" /\ cleans < MaxClean
    /\ cleans' = cleans + 1
    /\ before' = {<<f, disk[f].v>> : f \in {g \in Mine : Readable(g)}}
    /\ t' = [t EXCEPT !["cleaner"] = [Idle EXCEPT !.pc = "select"]]
    /\ Data /\ UNCHANGED <<db, ctl, mu, jobs>>

cleanUserResults ==
    /\ Served /\ t["cleaner"].pc = "idle" /\ cleans < MaxClean
    /\ cleans' = cleans + 1
    /\ before' = {<<f, disk[f].v>> : f \in {g \in Mine : Readable(g)}}
    /\ t' = [t EXCEPT !["cleaner"] = [Idle EXCEPT !.pc = "load", !.why = "clean"]]
    /\ Data /\ UNCHANGED <<db, ctl, mu, jobs>>

cleanSelect ==
    /\ t["cleaner"].pc = "select"
    /\ jobs' = {f \in Mine : db[f] # None}
    /\ t' = [t EXCEPT !["cleaner"].pc = "remove"]
    /\ Data /\ UNCHANGED <<db, ctl, mu, before, cleans>>

cleanRemove(f) ==
    /\ t["cleaner"].pc = "remove" /\ f \in jobs
    /\ jobs' = jobs \ {f}
    /\ disk' = [disk EXCEPT ![f] = None]
    /\ IF disk[f] = None THEN UNCHANGED <<events, errs>> ELSE Notify(f)
    /\ UNCHANGED <<wrote, db, schema, quiet, mu, t, before, cleans, restarts>>

cleanRows ==
    /\ t["cleaner"].pc = "remove" /\ jobs = {}
    /\ db' = [f \in File |-> IF f \in Mine THEN None ELSE db[f]]
    /\ t' = [t EXCEPT !["cleaner"] = Idle]
    /\ before' = {}
    /\ Data /\ UNCHANGED <<ctl, mu, jobs, cleans>>

-----------------------------------------------------------------------------
Refresh(x) ==
    \/ loadIndexedMtimes(x) \/ readDir(x) \/ (\E f \in File : stat(x, f))
    \/ readFile(x) \/ commit(x) \/ endRefresh(x) \/ refreshFails(x)

Indexer == Refresh("indexer") \/ boot \/ debounceDone
Cleaner == Refresh("cleaner") \/ cleanSelect \/ (\E f \in File : cleanRemove(f)) \/ cleanRows

Next ==
    \/ Indexer \/ Cleaner \/ cleanUserResults
    \/ takeEvent \/ debounce \/ takeError \/ periodic \/ errorTimer
    \/ cooldown \/ watch \/ watchClosed \/ restart
    \/ \E f \in File : writeJob(f)

Spec == Init /\ [][Next]_vars

\* The goroutines run, time passes, and a select with several ready cases picks
\* any of them.
Fairness ==
    /\ WF_vars(Indexer) /\ WF_vars(Cleaner) /\ WF_vars(cooldown)
    /\ SF_vars(takeEvent) /\ SF_vars(debounce) /\ SF_vars(takeError)
    /\ SF_vars(errorTimer) /\ SF_vars(periodic)

-----------------------------------------------------------------------------
TypeOK ==
    /\ disk \in [File -> Version \cup {None}]
    /\ db \in [File -> Row \cup {None}]
    /\ events \subseteq File /\ pending \subseteq File
    /\ failures \in 0..MaxRetry
    /\ mu \in Thread \cup {None}
    /\ \A x \in Thread : t[x].pc \in {"read", "commit"} => mu = x

\* A watcher error that has to wait for the cooldown is not forgotten: whenever
\* a refresh is owed the timer that will run it is set.
OwedRefreshIsTimed == errPending => errTimer

\* A row never goes back to an older version of its job, although two goroutines
\* read files and write rows: what the mutex of historyIndexer is for.
NeverBackwards ==
    [][\A f \in DOMAIN db : db[f] # None /\ db'[f] # None => db'[f].v >= db[f].v]_vars

\* The upgrade to schema 3 drops no row, also when it is interrupted and started
\* again, and also of files that have gone (the comment of upgradeSchema).
UpgradeKeepsRows ==
    [][schema = 2 => \A f \in DOMAIN db : db[f] # None => db'[f] # None]_vars

\* Once the database says schema 3, every row with a valid file of that version
\* has its detections, although its mtime has not changed.
Backfilled ==
    schema = 3 => \A f \in File :
        db[f] # None /\ Readable(f) /\ disk[f].v = db[f].v => db[f].det

\* A clean that reports success has removed every valid result the user had when
\* he asked, also those the index had not seen by then, unless its refresh failed.
CleanIsComplete ==
    [][t["cleaner"].pc = "remove" /\ t'["cleaner"].pc = "idle" /\ restarts' = restarts =>
          \A b \in before : disk[b[1]] = None \/ disk[b[1]].v # b[2]]_vars

Matches(f) ==
    IF Readable(f) THEN db[f] # None /\ db[f].v = disk[f].v ELSE db[f] = None

\* When the files stop changing the index comes to agree with them, for ever,
\* whatever events were lost, the watcher disabled, the clean's DELETE racing
\* with a new job, or the server killed half-way (api.md:629).
Converges == <>[](\A f \in File : Matches(f))
=============================================================================
