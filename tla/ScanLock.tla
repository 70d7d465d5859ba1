------------------------------- MODULE ScanLock -------------------------------
(***************************************************************************)
(* The cross-process scan lock: every run of scan_once.sh, started by the  *)
(* web server (manual) or by cron, serialises itself with the others       *)
(* through the directory /state/scan.lock, its files pid and job_id, and   *)
(* publishes its progress in /state/jobs/<job id>.json.                    *)
(*                                                                         *)
(* One action is one system call, or a few that no other process can tell  *)
(* apart.  A process may be killed at any point; the kernel does not give  *)
(* its pid to another process.  The sleep state of ClamAV is left open: a  *)
(* cron run may find it asleep whenever it looks (see ClamAVPower).        *)
(***************************************************************************)
EXTENDS Integers, FiniteSets

CONSTANTS
    Proc,       \* runs of scan_once.sh
    kind,       \* kind[p]: "manual" (started by the server) or "cron" (--wait)
    second,     \* second[p]: the Unix second in which p makes its job id
    WaitLimit,  \* whether SCAN_WAIT_MAX_SECONDS bounds the waiting
    MaxKills,   \* bound on the processes that are killed
    None,       \* no file, no value
    Empty       \* a pid file without content

Kind == {"manual", "cron"}

\* The candidates of make_job_id: type, second and suffix (0: no suffix).
JobId == Kind \X {second[p] : p \in Proc} \X (0..Cardinality(Proc))

\* What a job file says: a verdict, or a state on the way to it.
Terminal == {"failed", "finished"}
Status == {"waiting", "running"} \cup Terminal

\* The pids that may be in the lock: the shell of a run and its clamdscan.
Pid == Proc \X {"shell", "clamdscan"}

ASSUME KindAssumption == kind \in [Proc -> Kind]
ASSUME SecondAssumption == DOMAIN second = Proc
ASSUME LimitAssumption == WaitLimit \in BOOLEAN /\ MaxKills \in Nat
ASSUME NoneAssumption ==
    /\ None \notin JobId \cup Pid \cup Status /\ Empty \notin Pid /\ None # Empty

VARIABLES
    lockDir,    \* whether scan.lock exists
    lockPid,    \* scan.lock/pid: None, Empty or a pid
    lockJob,    \* scan.lock/job_id: None or a job id
    jobs,       \* status in the file of each job id, None if there is no file
    pc,         \* where each run is
    jobId,      \* JOB_ID
    held,       \* LOCK_HELD
    fd,         \* the pid file the run has open for writing is still linked
    scanUp,     \* the clamdscan child exists (a zombie until it is waited for)
    stalePid,   \* stale_pid
    staleJob,   \* stale_job_id
    kills,      \* processes killed so far
    misjudged   \* history: the lock of a live run was taken for stale

lockVars == <<lockDir, lockPid, lockJob>>
localVars == <<jobId, held, scanUp, stalePid, staleJob>>
vars == <<lockDir, lockPid, lockJob, jobs, pc, jobId, held, fd, scanUp,
          stalePid, staleJob, kills, misjudged>>

\* From mkdir to the exit trap, and the part of it that scans and stores results.
Scanning == {"openScanPid", "writeScanPid", "writeScanJob", "running", "wait", "results"}
Holding == {"openPid", "writePid", "writeJob", "prescan"} \cup Scanning
Cleaning == {"inspect", "readPid", "testPid", "readJob", "testJob", "dropJob",
             "unlinkJob", "unlink", "rmdir"}
Ended == {"done", "aborted", "killed"}
PC == {"poll", "new", "named", "mkdir", "busy", "exit", "exitAborted",
       "exitRmdir", "exitRmdirAborted"}
      \cup Holding \cup Cleaning \cup Ended

\* The first target of a batch is started after Go's own test of the lock, the
\* later ones without it.
Init ==
    /\ lockDir = FALSE /\ lockPid = None /\ lockJob = None
    /\ jobs = [j \in JobId |-> None]
    /\ pc \in [Proc -> {"poll", "new"}]
    /\ \A p \in Proc : kind[p] = "cron" => pc[p] = "new"
    /\ jobId = [p \in Proc |-> None]
    /\ held = [p \in Proc |-> FALSE]
    /\ fd = [p \in Proc |-> FALSE]
    /\ scanUp = [p \in Proc |-> FALSE]
    /\ stalePid = [p \in Proc |-> None]
    /\ staleJob = [p \in Proc |-> None]
    /\ kills = 0
    /\ misjudged = FALSE

-----------------------------------------------------------------------------

Goto(p, l) == pc' = [pc EXCEPT ![p] = l]

\* kill -0: the shell runs, or clamdscan has not been waited for.
Alive(pid) ==
    IF pid[2] = "shell" THEN pc[pid[1]] \notin {"poll", "new"} \cup Ended
                        ELSE scanUp[pid[1]]

\* write_job_state: the file is replaced by a rename.
write_job_state(p, status) == jobs' = [jobs EXCEPT ![jobId[p]] = status]

\* rm of the pid file: open descriptors refer to an unlinked file from now on.
UnlinkPid ==
    /\ lockPid' = None
    /\ fd' = [q \in Proc |-> FALSE]

Rmdir ==
    lockDir' = (lockDir /\ ~(lockPid = None /\ lockJob = None))

-----------------------------------------------------------------------------
(* The server's test, and the run up to the lock.                          *)

\* scanLockBlocksManualStart, polled until it answers no.
scanLockBlocksManualStart == lockDir /\ lockPid \in Pid /\ Alive(lockPid)

startManual(p) ==
    /\ pc[p] = "poll"
    /\ ~scanLockBlocksManualStart
    /\ Goto(p, "new")
    /\ UNCHANGED <<lockVars, jobs, localVars, fd, kills>>

\* make_job_id: the first candidate that has no file.
make_job_id(p) ==
    /\ pc[p] = "new"
    /\ \E i \in 0..Cardinality(Proc) :
          /\ jobs[<<kind[p], second[p], i>>] = None
          /\ \A k \in 0..(i - 1) : jobs[<<kind[p], second[p], k>>] # None
          /\ jobId' = [jobId EXCEPT ![p] = <<kind[p], second[p], i>>]
    /\ Goto(p, "named")
    /\ UNCHANGED <<lockVars, jobs, held, scanUp, stalePid, staleJob, fd, kills>>

\* A cron run without --wake finds ClamAV asleep.
failAsleep(p) ==
    /\ pc[p] = "named"
    /\ kind[p] = "cron"
    /\ write_job_state(p, "failed")
    /\ Goto(p, "exit")
    /\ UNCHANGED <<lockVars, localVars, fd, kills>>

publishWaiting(p) ==
    /\ pc[p] = "named"
    /\ write_job_state(p, "waiting")
    /\ Goto(p, "mkdir")
    /\ UNCHANGED <<lockVars, localVars, fd, kills>>

-----------------------------------------------------------------------------
(* acquire_scan_lock and cleanup_stale_lock_if_needed.                     *)

\* mkdir: the atomic step of the lock.
mkdirLock(p) ==
    /\ pc[p] = "mkdir"
    /\ IF lockDir
       THEN Goto(p, "inspect") /\ UNCHANGED <<lockDir, held>>
       ELSE /\ lockDir' = TRUE
            /\ held' = [held EXCEPT ![p] = TRUE]
            /\ Goto(p, "openPid")
    /\ UNCHANGED <<lockPid, lockJob, jobs, jobId, scanUp, stalePid, staleJob, fd, kills>>

\* Mutation: a directory without a pid file counts as a live lock.
TrustMissingPid(p) ==
    /\ pc[p] = "inspect"
    /\ Goto(p, IF ~lockDir THEN "mkdir" ELSE IF lockPid = None THEN "busy" ELSE "readPid")
    /\ UNCHANGED <<lockVars, jobs, localVars, fd, kills>>

\* [ -d scan.lock ], [ -f scan.lock/pid ].
inspectLock(p) ==
    /\ pc[p] = "inspect"
    /\ Goto(p, IF ~lockDir THEN "mkdir" ELSE IF lockPid = None THEN "unlinkJob" ELSE "readPid")
    /\ UNCHANGED <<lockVars, jobs, localVars, fd, kills>>

\* cat scan.lock/pid: the file may be empty, or gone by now.
readPid(p) ==
    /\ pc[p] = "readPid"
    /\ stalePid' = [stalePid EXCEPT ![p] = IF lockPid \in Pid THEN lockPid ELSE None]
    /\ Goto(p, IF lockPid \in Pid THEN "testPid" ELSE "unlink")
    /\ UNCHANGED <<lockVars, jobs, jobId, held, scanUp, staleJob, fd, kills>>

\* kill -0.
testPid(p) ==
    /\ pc[p] = "testPid"
    /\ Goto(p, IF Alive(stalePid[p]) THEN "busy" ELSE "readJob")
    /\ UNCHANGED <<lockVars, jobs, localVars, fd, kills>>

readJob(p) ==
    /\ pc[p] = "readJob"
    /\ staleJob' = [staleJob EXCEPT ![p] = lockJob]
    /\ Goto(p, IF lockJob = None THEN "unlink" ELSE "testJob")
    /\ UNCHANGED <<lockVars, jobs, jobId, held, scanUp, stalePid, fd, kills>>

\* Mutation: the file of the dead job is kept.
KeepStaleJob(p) ==
    /\ pc[p] = "testJob"
    /\ Goto(p, "unlink")
    /\ UNCHANGED <<lockVars, jobs, localVars, fd, kills>>

\* grep: only a job that says it is running is removed.
testJob(p) ==
    /\ pc[p] = "testJob"
    /\ Goto(p, IF jobs[staleJob[p]] = "running" THEN "dropJob" ELSE "unlink")
    /\ UNCHANGED <<lockVars, jobs, localVars, fd, kills>>

dropStaleJob(p) ==
    /\ pc[p] = "dropJob"
    /\ jobs' = [jobs EXCEPT ![staleJob[p]] = None]
    /\ Goto(p, "unlink")
    /\ UNCHANGED <<lockVars, localVars, fd, kills>>

\* rm -f of both files, or of job_id alone when there was no pid file.  The two
\* local variables are dead from here on.
unlinkStale(p) ==
    /\ pc[p] \in {"unlink", "unlinkJob"}
    /\ lockJob' = None
    /\ IF pc[p] = "unlink" THEN UnlinkPid ELSE UNCHANGED <<lockPid, fd>>
    /\ Goto(p, "rmdir")
    /\ stalePid' = [stalePid EXCEPT ![p] = None]
    /\ staleJob' = [staleJob EXCEPT ![p] = None]
    /\ UNCHANGED <<lockDir, jobs, jobId, held, scanUp, kills>>

\* rmdir fails on a directory that is not empty; then mkdir is tried again.
rmdirStale(p) ==
    /\ pc[p] = "rmdir"
    /\ Rmdir
    /\ Goto(p, "mkdir")
    /\ UNCHANGED <<lockPid, lockJob, jobs, localVars, fd, kills>>

\* A cron run sleeps and tries again.
waitForLock(p) ==
    /\ pc[p] = "busy"
    /\ kind[p] = "cron"
    /\ Goto(p, "mkdir")
    /\ UNCHANGED <<lockVars, jobs, localVars, fd, kills>>

\* A manual run, or one that waited too long, is rejected with exit 75.
rejectBusy(p) ==
    /\ pc[p] = "busy"
    /\ kind[p] = "manual" \/ WaitLimit
    /\ write_job_state(p, "failed")
    /\ Goto(p, "exit")
    /\ UNCHANGED <<lockVars, localVars, fd, kills>>

\* printf > scan.lock/pid opens (and truncates) the file.  Without the
\* directory the redirection fails: set -e ends the run before the scan, set +e
\* ignores it afterwards.
openPid(p) ==
    /\ pc[p] \in {"openPid", "openScanPid"}
    /\ lockPid' = IF lockDir THEN Empty ELSE lockPid
    /\ fd' = [fd EXCEPT ![p] = lockDir]
    /\ Goto(p, CASE pc[p] = "openScanPid" -> "writeScanPid"
                 [] pc[p] = "openPid" /\ lockDir -> "writePid"
                 [] OTHER -> "exitAborted")
    /\ UNCHANGED <<lockDir, lockJob, jobs, localVars, kills>>

\* ... and then writes the pid, which is lost if the file was unlinked.
writePid(p) ==
    /\ pc[p] \in {"writePid", "writeScanPid"}
    /\ lockPid' = IF fd[p] THEN <<p, IF scanUp[p] THEN "clamdscan" ELSE "shell">>
                           ELSE lockPid
    /\ fd' = [fd EXCEPT ![p] = FALSE]
    /\ Goto(p, IF pc[p] = "writePid" THEN "writeJob" ELSE "writeScanJob")
    /\ UNCHANGED <<lockDir, lockJob, jobs, localVars, kills>>

\* printf > scan.lock/job_id.
writeJob(p) ==
    /\ pc[p] \in {"writeJob", "writeScanJob"}
    /\ lockJob' = IF lockDir THEN jobId[p] ELSE lockJob
    /\ Goto(p, CASE pc[p] = "writeScanJob" -> "running"
                 [] pc[p] = "writeJob" /\ lockDir -> "prescan"
                 [] OTHER -> "exitAborted")
    /\ UNCHANGED <<lockDir, lockPid, jobs, localVars, fd, kills>>

-----------------------------------------------------------------------------
(* The scan, under the lock.                                               *)

\* Asleep after all, no such target, or no quarantine directory: the run ends
\* with a verdict and without a scan.
skipScan(p, verdict) ==
    /\ pc[p] = "prescan"
    /\ write_job_state(p, verdict)
    /\ Goto(p, "exit")
    /\ UNCHANGED <<lockVars, localVars, fd, kills>>

startClamdscan(p) ==
    /\ pc[p] = "prescan"
    /\ scanUp' = [scanUp EXCEPT ![p] = TRUE]
    /\ Goto(p, "openScanPid")
    /\ UNCHANGED <<lockVars, jobs, jobId, held, stalePid, staleJob, fd, kills>>

publishRunning(p) ==
    /\ pc[p] = "running"
    /\ write_job_state(p, "running")
    /\ Goto(p, "wait")
    /\ UNCHANGED <<lockVars, localVars, fd, kills>>

\* wait: clamdscan has ended.  Its pid, the one in the lock, is dead from now
\* on although the run goes on.
reapClamdscan(p) ==
    /\ pc[p] = "wait"
    /\ scanUp' = [scanUp EXCEPT ![p] = FALSE]
    /\ Goto(p, "results")
    /\ UNCHANGED <<lockVars, jobs, jobId, held, stalePid, staleJob, fd, kills>>

\* Detections are quarantined, then the verdict is written.
writeVerdict(p, verdict) ==
    /\ pc[p] = "results"
    /\ write_job_state(p, verdict)
    /\ Goto(p, "exit")
    /\ UNCHANGED <<lockVars, localVars, fd, kills>>

\* Mutation: the trap removes the lock of whoever holds it.
CleanupUnheld(p) ==
    /\ pc[p] \in {"exit", "exitAborted"}
    /\ UnlinkPid
    /\ lockJob' = None
    /\ Goto(p, IF pc[p] = "exit" THEN "exitRmdir" ELSE "exitRmdirAborted")
    /\ UNCHANGED <<lockDir, jobs, localVars, kills>>

\* The exit trap, cleanup_lock: nothing unless LOCK_HELD, else rm -f of the
\* two files ...
cleanup_lock(p) ==
    /\ pc[p] \in {"exit", "exitAborted"}
    /\ IF held[p]
       THEN /\ UnlinkPid
            /\ lockJob' = None
            /\ Goto(p, IF pc[p] = "exit" THEN "exitRmdir" ELSE "exitRmdirAborted")
       ELSE /\ UNCHANGED <<lockPid, lockJob, fd>>
            /\ Goto(p, "done")
    /\ UNCHANGED <<lockDir, jobs, localVars, kills>>

\* ... and rmdir.
cleanupRmdir(p) ==
    /\ pc[p] \in {"exitRmdir", "exitRmdirAborted"}
    /\ Rmdir
    /\ Goto(p, IF pc[p] = "exitRmdir" THEN "done" ELSE "aborted")
    /\ UNCHANGED <<lockPid, lockJob, jobs, localVars, fd, kills>>

-----------------------------------------------------------------------------
(* Failures.                                                               *)

\* SIGKILL: no trap runs, and a clamdscan child is orphaned.
kill(p) ==
    /\ pc[p] \notin {"poll", "new"} \cup Ended
    /\ kills < MaxKills
    /\ kills' = kills + 1
    /\ fd' = [fd EXCEPT ![p] = FALSE]
    /\ Goto(p, "killed")
    /\ UNCHANGED <<lockVars, jobs, localVars>>

\* The orphan ends.
orphanEnds(p) ==
    /\ pc[p] = "killed"
    /\ scanUp[p]
    /\ scanUp' = [scanUp EXCEPT ![p] = FALSE]
    /\ UNCHANGED <<lockVars, jobs, pc, jobId, held, stalePid, staleJob, fd, kills>>

Acquire(p) ==
    \/ mkdirLock(p) \/ inspectLock(p) \/ readPid(p) \/ testPid(p) \/ readJob(p)
    \/ testJob(p) \/ dropStaleJob(p) \/ unlinkStale(p) \/ rmdirStale(p)
    \/ waitForLock(p) \/ rejectBusy(p)

Step(p) ==
    \/ startManual(p) \/ make_job_id(p) \/ failAsleep(p) \/ publishWaiting(p)
    \/ Acquire(p)
    \/ openPid(p) \/ writePid(p) \/ writeJob(p)
    \/ \E verdict \in Terminal : skipScan(p, verdict) \/ writeVerdict(p, verdict)
    \/ startClamdscan(p) \/ publishRunning(p) \/ reapClamdscan(p)
    \/ cleanup_lock(p) \/ cleanupRmdir(p)
    \/ orphanEnds(p)

AllEnded == \A p \in Proc : pc[p] \in Ended /\ ~scanUp[p]

\* p has concluded that the lock is stale, and is about to remove what is
\* there, while another run that took the lock is alive.
Misjudging ==
    \E p, q \in Proc :
        /\ p # q
        /\ pc[p] \in {"readJob", "testJob", "dropJob", "unlinkJob", "unlink", "rmdir"}
        /\ held[q] /\ pc[q] \notin Ended

Remember == misjudged' = (misjudged \/ Misjudging')

Next ==
    \/ \E p \in Proc : Step(p) /\ Remember
    \/ \E p \in Proc : kill(p) /\ Remember
    \/ AllEnded /\ UNCHANGED vars

Spec == Init /\ [][Next]_vars

\* Every process is scheduled, and clamdscan ends.
Fairness == \A p \in Proc : WF_vars(Step(p) /\ Remember)

-----------------------------------------------------------------------------
(* Properties.                                                             *)

\* Every variable holds a value of its type.
TypeOK ==
    /\ lockDir \in BOOLEAN
    /\ lockPid \in Pid \cup {None, Empty}
    /\ lockJob \in JobId \cup {None}
    /\ jobs \in [JobId -> Status \cup {None}]
    /\ pc \in [Proc -> PC]
    /\ jobId \in [Proc -> JobId \cup {None}]
    /\ held \in [Proc -> BOOLEAN]
    /\ fd \in [Proc -> BOOLEAN]
    /\ scanUp \in [Proc -> BOOLEAN]
    /\ stalePid \in [Proc -> Pid \cup {None}]
    /\ staleJob \in [Proc -> JobId \cup {None}]
    /\ kills \in 0..MaxKills
    /\ misjudged \in BOOLEAN

\* Scans are globally serial: no two runs are between the start of clamdscan
\* and their verdict.
ScansAreSerial ==
    \A p, q \in Proc : pc[p] \in Scanning /\ pc[q] \in Scanning => p = q

\* As long as no live lock is taken for stale, one run at most is
\* inside the lock and the directory is there: neither the trap of a rejected
\* run nor the recovery from a crash opens it.
SerialUnlessMisjudged ==
    ~misjudged =>
        \A p \in Proc : pc[p] \in Holding =>
            /\ lockDir
            /\ \A q \in Proc \ {p} : pc[q] \notin Holding

\* No two runs have chosen the same job id.  Runs of one type and second may:
\* make_job_id looks for a file, which is only written later.
IdsDiffer == \A p, q \in Proc : p # q /\ jobId[p] = jobId[q] => jobId[p] = None

\* As long as no live lock is taken for stale, no run is cut short by set -e, and
\* every run that ends by itself leaves the verdict in its job file, unless two
\* share that file.
VerdictUnlessMisjudged ==
    ~misjudged => \A p \in Proc :
        /\ pc[p] # "aborted"
        /\ pc[p] = "done" /\ IdsDiffer => jobs[jobId[p]] \in Terminal

\* As long as no live lock is taken for stale, the file of a killed run that still says
\* "running" is named by the lock that run left behind, so that the next run
\* to take the lock removes it.
CrashIsRecoverable ==
    ~misjudged /\ IdsDiffer => \A p \in Proc :
        pc[p] = "killed" /\ jobs[jobId[p]] = "running" =>
            lockDir /\ lockJob = jobId[p]

\* Whatever the runs do to each other's lock, once all of them have ended by
\* themselves no directory is left that would keep ClamAV awake and the
\* whitelist read-only (scanLockActive).
NoLockLeft ==
    (\A p \in Proc : pc[p] \in {"done", "aborted"}) => ~lockDir

\* The lock and the runs have their types; and until a live lock has been taken
\* for stale, no two runs scan at a time and every run that has ended by itself
\* has left its verdict (acquire_scan_lock, cleanup_lock).
LockInv == TypeOK /\ SerialUnlessMisjudged /\ VerdictUnlessMisjudged

\* No lock stays behind for good: what a killed run leaves is recognised as stale
\* by the next one, and runs that end by themselves leave no directory
\* (cleanup_stale_lock_if_needed, cleanup_lock).
NoLockIsStuck == CrashIsRecoverable /\ NoLockLeft

\* Every run ends: a lock left by a killed run never blocks the others for
\* ever, and no two runs wait for each other.
EveryRunEnds == <>(\A p \in Proc : pc[p] \in Ended)

=============================================================================
