------------------------------- MODULE Results -------------------------------
(***************************************************************************)
(* What users see of their scans: the lookups, the quarantine and the      *)
(* history index.  The lookups only read the files of the other two, and   *)
(* the index never looks into the quarantine, so they stand side by side   *)
(* with constants and variables of their own.                              *)
(***************************************************************************)
EXTENDS Lookups

CONSTANTS
    File, Owner, MaxName, Req, Ops, MaxNew,                                 \* the quarantine
    Job, Mine, MaxV, SameTick, MaxRetry, Faults, MaxClean, MaxRestart       \* the history index

VARIABLES
    src, q, record, run, h, born, gone, crossed,
    disk, wrote, db, schema, events, errs, watcher, failures, pendingPaths, errPending, errTimer,
    recent, mu, t, jobs, before, cleans, restarts

Store == INSTANCE Quarantine WITH rec <- record

Index == INSTANCE HistoryIndex WITH File <- Job, pending <- pendingPaths

ASSUME StoreConstants == Store!QuarantineAssumption /\ IsFiniteSet(Req)
ASSUME IndexConstants == Index!HistoryAssumption

-----------------------------------------------------------------------------
(* Properties.                                                             *)

\* No file is ever lost: through every fallback of the move, every failure, a kill
\* at any point and any overlap with recoveries, each file exists complete at its
\* path or in the quarantine until it is deleted on purpose, unless somebody has
\* acted on a name that was used again (quarantine_detected_file,
\* restoreQuarantinedFile).
DataKept == Store!TypeOK /\ Store!DataKept

\* A file a user is shown in the quarantine is there, complete, and from the path
\* its record names, unless somebody has acted on a name that was used again
\* (readQuarantineRecord, deleteQuarantineSubject).
ListedIsRestorable == Store!ListedIsRestorable

\* The job files, the index and its threads have their types; a watcher error that
\* has to wait for the cooldown is not forgotten; and once the database says schema
\* 3, every row of a valid file has its detections (scheduleWatcherErrorRefresh,
\* upgradeSchema).
HistoryInv == Index!TypeOK /\ Index!OwedRefreshIsTimed /\ Index!Backfilled

\* A row never goes back to an older version of its job, although two goroutines
\* read files and write rows, and the upgrade to schema 3 drops no row, also when
\* it is interrupted and started again (indexFile, upgradeSchema).
RowsAreKept == Index!NeverBackwards /\ Index!UpgradeKeepsRows

\* A clean that reports success has removed every valid result the user had when
\* he asked, as long as the refresh it begins with has not failed
\* (cleanUserResults).
CleanIsComplete == Index!CleanIsComplete
=============================================================================
