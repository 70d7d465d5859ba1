---------------------------- MODULE ScanLockProofs ----------------------------
(***************************************************************************)
(* Proofs about the scan lock, for any number of runs, any distribution of *)
(* manual and cron runs over seconds and any number of killed runs.        *)
(*                                                                         *)
(* The lock is known to be unsafe in one respect:                          *)
(* cleanup_stale_lock_if_needed may take the lock of a live run for stale, *)
(* because that run has not written its pid yet or its clamdscan has ended *)
(* (Misjudging).  What is proved is that this is the only way: until it    *)
(* has happened, the runs are serial, each leaves its verdict and what a   *)
(* killed run leaves is found; and whatever happens, no lock is left when  *)
(* all runs have ended by themselves.                                      *)
(***************************************************************************)
EXTENDS ScanLock, TLAPS

-----------------------------------------------------------------------------
(* The inductive invariant.                                                *)

Exiting == {"exit", "exitAborted", "exitRmdir", "exitRmdirAborted"}

\* Where a run is determines what its variables hold.
Shape ==
    \A p \in Proc :
        /\ pc[p] \in {"poll", "new"} => jobId[p] = None
        /\ pc[p] \notin {"poll", "new"} => jobId[p] \in JobId
        /\ pc[p] \in Holding \cup {"exitRmdir", "exitRmdirAborted"} => held[p]
        /\ held[p] => pc[p] \in Holding \cup Exiting \cup Ended
        /\ pc[p] = "testPid" => stalePid[p] \in Pid
        /\ pc[p] \in {"testJob", "dropJob"} => staleJob[p] \in JobId
        /\ pc[p] \in Scanning \ {"results"} => scanUp[p]

\* A job named in the lock, now or when it was read, is one of a run that took it.
Named ==
    /\ lockJob # None => \E r \in Proc : held[r] /\ jobId[r] = lockJob
    /\ \A q \in Proc : staleJob[q] # None => \E r \in Proc : held[r] /\ jobId[r] = staleJob[q]

\* The files in the lock, and the directory, belong to a run that will remove them
\* or has been killed, whoever else has taken the lock meanwhile.
Answerable ==
    /\ lockPid # None \/ lockJob # None =>
          \E p \in Proc : held[p] /\ pc[p] \in Holding \cup {"exit", "exitAborted", "killed"}
    /\ lockDir =>
          \E p \in Proc : held[p] /\ pc[p] \in Holding \cup Exiting \cup {"killed"}

Live(p) == held[p] /\ pc[p] \notin Ended

\* Until a live lock is taken for stale, it has one owner and the directory is there.
OneOwner ==
    /\ Misjudging => misjudged
    /\ ~misjudged => \A p \in Proc :
          /\ Live(p) => lockDir /\ \A q \in Proc : Live(q) => q = p
          /\ pc[p] \notin {"exitAborted", "exitRmdirAborted", "aborted"}

\* ... and the files are those of the owner.
OwnFiles ==
    ~misjudged => \A p \in Proc :
        /\ pc[p] = "writeScanPid" => fd[p]
        /\ pc[p] \in {"writeScanJob", "running", "wait", "results"} => lockPid = <<p, "clamdscan">>
        /\ pc[p] \in {"prescan"} \cup Scanning => lockJob = jobId[p]

\* What the job files say.
JobFiles ==
    ~misjudged /\ IdsDiffer => \A p \in Proc :
        /\ jobId[p] # None /\ jobs[jobId[p]] = "running" => pc[p] \in {"wait", "results", "killed"}
        /\ pc[p] \in {"exit", "exitRmdir", "done"} => jobs[jobId[p]] \in Terminal
        /\ pc[p] = "dropJob" => jobs[staleJob[p]] \in {"running", None}

\* The lock left by a run that was killed while it scanned is whole until its job
\* has been dropped, and whoever is past the test of the job has found that one.
CrashedLock(p) ==
    /\ lockDir /\ lockPid = <<p, "clamdscan">> /\ lockJob = jobId[p]
    /\ \A q \in Proc :
          /\ ~Live(q)
          /\ pc[q] \notin {"unlink", "unlinkJob", "rmdir"}
          /\ pc[q] \in {"testJob", "dropJob"} => staleJob[q] = jobId[p]

CrashesAreWhole ==
    ~misjudged /\ IdsDiffer => \A p \in Proc :
        pc[p] = "killed" /\ jobs[jobId[p]] = "running" => CrashedLock(p)

IInv ==
    /\ TypeOK /\ Shape /\ Named /\ Answerable
    /\ OneOwner /\ OwnFiles /\ JobFiles /\ CrashesAreWhole

-----------------------------------------------------------------------------

\* The pid of a clamdscan is a pid, and so neither "no file" nor an empty one.
LEMMA ScanPid ==
  ASSUME NEW p \in Proc
  PROVE  /\ <<p, "clamdscan">> \in Pid /\ <<p, "shell">> \in Pid
         /\ <<p, "clamdscan">> # None /\ <<p, "clamdscan">> # Empty
  BY NoneAssumption DEF Pid

\* Every step of a run, and a kill, keeps the types: the files in the lock are None,
\* Empty or what a run wrote, and job files are written for chosen ids only.
LEMMA TypeStep ==
  ASSUME TypeOK, Shape, [Next]_vars
  PROVE  TypeOK'
<1> USE DEF TypeOK, Shape, PC, Holding, Scanning, Cleaning, Ended, Terminal, Status, Goto, lockVars, localVars, Remember
<1>1. ASSUME NEW p \in Proc, startManual(p), Remember
      PROVE  TypeOK'
  BY <1>1, KindAssumption, LimitAssumption DEF startManual
<1>2. ASSUME NEW p \in Proc, make_job_id(p), Remember
      PROVE  TypeOK'
  <2>1. PICK i \in 0..Cardinality(Proc) : jobId' = [jobId EXCEPT ![p] = <<kind[p], second[p], i>>]
    BY <1>2 DEF make_job_id
  <2>2. <<kind[p], second[p], i>> \in JobId
    BY KindAssumption DEF JobId
  <2>3. QED
    BY <1>2, <2>1, <2>2 DEF make_job_id
<1>3. ASSUME NEW p \in Proc, failAsleep(p), Remember
      PROVE  TypeOK'
  BY <1>3, KindAssumption, LimitAssumption DEF failAsleep, write_job_state
<1>4. ASSUME NEW p \in Proc, publishWaiting(p), Remember
      PROVE  TypeOK'
  BY <1>4, KindAssumption, LimitAssumption DEF publishWaiting, write_job_state
<1>5. ASSUME NEW p \in Proc, mkdirLock(p), Remember
      PROVE  TypeOK'
  BY <1>5, KindAssumption, LimitAssumption DEF mkdirLock
<1>6. ASSUME NEW p \in Proc, inspectLock(p), Remember
      PROVE  TypeOK'
  BY <1>6, KindAssumption, LimitAssumption DEF inspectLock
<1>7. ASSUME NEW p \in Proc, readPid(p), Remember
      PROVE  TypeOK'
  BY <1>7, KindAssumption, LimitAssumption DEF readPid
<1>8. ASSUME NEW p \in Proc, testPid(p), Remember
      PROVE  TypeOK'
  BY <1>8, KindAssumption, LimitAssumption DEF testPid
<1>9. ASSUME NEW p \in Proc, readJob(p), Remember
      PROVE  TypeOK'
  BY <1>9, KindAssumption, LimitAssumption DEF readJob
<1>10. ASSUME NEW p \in Proc, testJob(p), Remember
      PROVE  TypeOK'
  BY <1>10, KindAssumption, LimitAssumption DEF testJob
<1>11. ASSUME NEW p \in Proc, dropStaleJob(p), Remember
      PROVE  TypeOK'
  BY <1>11, KindAssumption, LimitAssumption DEF dropStaleJob
<1>12. ASSUME NEW p \in Proc, unlinkStale(p), Remember
      PROVE  TypeOK'
  <2>0. [q \in Proc |-> FALSE] \in [Proc -> BOOLEAN]
    OBVIOUS
  <2>1. fd' \in [Proc -> BOOLEAN] /\ lockPid' \in Pid \cup {None, Empty}
    BY <1>12, <2>0 DEF unlinkStale, UnlinkPid
  <2>2. QED
    BY <1>12, <2>1 DEF unlinkStale
<1>13. ASSUME NEW p \in Proc, rmdirStale(p), Remember
      PROVE  TypeOK'
  BY <1>13, KindAssumption, LimitAssumption DEF rmdirStale, Rmdir
<1>14. ASSUME NEW p \in Proc, waitForLock(p), Remember
      PROVE  TypeOK'
  BY <1>14, KindAssumption, LimitAssumption DEF waitForLock
<1>15. ASSUME NEW p \in Proc, rejectBusy(p), Remember
      PROVE  TypeOK'
  BY <1>15, KindAssumption, LimitAssumption DEF rejectBusy, write_job_state
<1>16. ASSUME NEW p \in Proc, openPid(p), Remember
      PROVE  TypeOK'
  BY <1>16, KindAssumption, LimitAssumption DEF openPid
<1>17. ASSUME NEW p \in Proc, writePid(p), Remember
      PROVE  TypeOK'
  BY <1>17, ScanPid DEF writePid
<1>18. ASSUME NEW p \in Proc, writeJob(p), Remember
      PROVE  TypeOK'
  BY <1>18, KindAssumption, LimitAssumption DEF writeJob
<1>19. ASSUME NEW p \in Proc, NEW v \in Terminal, skipScan(p, v), Remember
      PROVE  TypeOK'
  BY <1>19, KindAssumption, LimitAssumption DEF skipScan, write_job_state
<1>20. ASSUME NEW p \in Proc, NEW v \in Terminal, writeVerdict(p, v), Remember
      PROVE  TypeOK'
  BY <1>20, KindAssumption, LimitAssumption DEF writeVerdict, write_job_state
<1>21. ASSUME NEW p \in Proc, startClamdscan(p), Remember
      PROVE  TypeOK'
  BY <1>21, KindAssumption, LimitAssumption DEF startClamdscan
<1>22. ASSUME NEW p \in Proc, publishRunning(p), Remember
      PROVE  TypeOK'
  BY <1>22, KindAssumption, LimitAssumption DEF publishRunning, write_job_state
<1>23. ASSUME NEW p \in Proc, reapClamdscan(p), Remember
      PROVE  TypeOK'
  BY <1>23, KindAssumption, LimitAssumption DEF reapClamdscan
<1>24. ASSUME NEW p \in Proc, cleanup_lock(p), Remember
      PROVE  TypeOK'
  <2>0. [q \in Proc |-> FALSE] \in [Proc -> BOOLEAN]
    OBVIOUS
  <2>1. fd' \in [Proc -> BOOLEAN] /\ lockPid' \in Pid \cup {None, Empty}
    BY <1>24, <2>0 DEF cleanup_lock, UnlinkPid
  <2>2. lockJob' \in JobId \cup {None} /\ pc' \in [Proc -> PC]
    BY <1>24 DEF cleanup_lock
  <2>3. QED
    BY <1>24, <2>1, <2>2 DEF cleanup_lock
<1>25. ASSUME NEW p \in Proc, cleanupRmdir(p), Remember
      PROVE  TypeOK'
  BY <1>25, KindAssumption, LimitAssumption DEF cleanupRmdir, Rmdir
<1>26. ASSUME NEW p \in Proc, orphanEnds(p), Remember
      PROVE  TypeOK'
  BY <1>26, KindAssumption, LimitAssumption DEF orphanEnds
<1>27. ASSUME NEW p \in Proc, kill(p), Remember
      PROVE  TypeOK'
  BY <1>27, KindAssumption, LimitAssumption DEF kill
<1>28. CASE UNCHANGED vars
  BY <1>28, KindAssumption, LimitAssumption DEF vars
<1>29. QED
  BY <1>1, <1>2, <1>3, <1>4, <1>5, <1>6, <1>7, <1>8, <1>9, <1>10, <1>11, <1>12, <1>13, <1>14, <1>15, <1>16, <1>17, <1>18, <1>19, <1>20, <1>21, <1>22, <1>23, <1>24, <1>25, <1>26, <1>27, <1>28 DEF Next, Step, Acquire

\* What a run's variables hold follows from where it is: JOB_ID once it is named,
\* LOCK_HELD from mkdir on, the stale pid and job only while they are judged.
LEMMA ShapeStep ==
  ASSUME TypeOK, Shape, [Next]_vars
  PROVE  Shape'
<1> USE DEF TypeOK, Shape, PC, Holding, Scanning, Cleaning, Ended, Terminal, Status, Goto, lockVars, localVars, Remember, Exiting
<1>1. ASSUME NEW p \in Proc, startManual(p), Remember
      PROVE  Shape'
  BY <1>1 DEF startManual
<1>2. ASSUME NEW p \in Proc, make_job_id(p), Remember
      PROVE  Shape'
  <2>1. PICK i \in 0..Cardinality(Proc) : jobId' = [jobId EXCEPT ![p] = <<kind[p], second[p], i>>]
    BY <1>2 DEF make_job_id
  <2>2. <<kind[p], second[p], i>> \in JobId
    BY KindAssumption DEF JobId
  <2>3. QED
    BY <1>2, <2>1, <2>2 DEF make_job_id
<1>3. ASSUME NEW p \in Proc, failAsleep(p), Remember
      PROVE  Shape'
  BY <1>3 DEF failAsleep, write_job_state
<1>4. ASSUME NEW p \in Proc, publishWaiting(p), Remember
      PROVE  Shape'
  BY <1>4 DEF publishWaiting, write_job_state
<1>5. ASSUME NEW p \in Proc, mkdirLock(p), Remember
      PROVE  Shape'
  BY <1>5 DEF mkdirLock
<1>6. ASSUME NEW p \in Proc, inspectLock(p), Remember
      PROVE  Shape'
  BY <1>6 DEF inspectLock
<1>7. ASSUME NEW p \in Proc, readPid(p), Remember
      PROVE  Shape'
  BY <1>7 DEF readPid
<1>8. ASSUME NEW p \in Proc, testPid(p), Remember
      PROVE  Shape'
  BY <1>8 DEF testPid
<1>9. ASSUME NEW p \in Proc, readJob(p), Remember
      PROVE  Shape'
  BY <1>9 DEF readJob
<1>10. ASSUME NEW p \in Proc, testJob(p), Remember
      PROVE  Shape'
  BY <1>10 DEF testJob
<1>11. ASSUME NEW p \in Proc, dropStaleJob(p), Remember
      PROVE  Shape'
  BY <1>11 DEF dropStaleJob
<1>12. ASSUME NEW p \in Proc, unlinkStale(p), Remember
      PROVE  Shape'
  BY <1>12 DEF unlinkStale, UnlinkPid
<1>13. ASSUME NEW p \in Proc, rmdirStale(p), Remember
      PROVE  Shape'
  BY <1>13 DEF rmdirStale, Rmdir
<1>14. ASSUME NEW p \in Proc, waitForLock(p), Remember
      PROVE  Shape'
  BY <1>14 DEF waitForLock
<1>15. ASSUME NEW p \in Proc, rejectBusy(p), Remember
      PROVE  Shape'
  BY <1>15 DEF rejectBusy, write_job_state
<1>16. ASSUME NEW p \in Proc, openPid(p), Remember
      PROVE  Shape'
  BY <1>16 DEF openPid
<1>17. ASSUME NEW p \in Proc, writePid(p), Remember
      PROVE  Shape'
  BY <1>17 DEF writePid
<1>18. ASSUME NEW p \in Proc, writeJob(p), Remember
      PROVE  Shape'
  BY <1>18 DEF writeJob
<1>19. ASSUME NEW p \in Proc, NEW v \in Terminal, skipScan(p, v), Remember
      PROVE  Shape'
  BY <1>19 DEF skipScan, write_job_state
<1>20. ASSUME NEW p \in Proc, NEW v \in Terminal, writeVerdict(p, v), Remember
      PROVE  Shape'
  BY <1>20 DEF writeVerdict, write_job_state
<1>21. ASSUME NEW p \in Proc, startClamdscan(p), Remember
      PROVE  Shape'
  BY <1>21 DEF startClamdscan
<1>22. ASSUME NEW p \in Proc, publishRunning(p), Remember
      PROVE  Shape'
  BY <1>22 DEF publishRunning, write_job_state
<1>23. ASSUME NEW p \in Proc, reapClamdscan(p), Remember
      PROVE  Shape'
  BY <1>23 DEF reapClamdscan
<1>24. ASSUME NEW p \in Proc, cleanup_lock(p), Remember
      PROVE  Shape'
  BY <1>24 DEF cleanup_lock, UnlinkPid
<1>25. ASSUME NEW p \in Proc, cleanupRmdir(p), Remember
      PROVE  Shape'
  BY <1>25 DEF cleanupRmdir, Rmdir
<1>26. ASSUME NEW p \in Proc, orphanEnds(p), Remember
      PROVE  Shape'
  BY <1>26 DEF orphanEnds
<1>27. ASSUME NEW p \in Proc, kill(p), Remember
      PROVE  Shape'
  BY <1>27 DEF kill
<1>28. CASE UNCHANGED vars
  BY <1>28 DEF vars
<1>29. QED
  BY <1>1, <1>2, <1>3, <1>4, <1>5, <1>6, <1>7, <1>8, <1>9, <1>10, <1>11, <1>12, <1>13, <1>14, <1>15, <1>16, <1>17, <1>18, <1>19, <1>20, <1>21, <1>22, <1>23, <1>24, <1>25, <1>26, <1>27, <1>28 DEF Next, Step, Acquire

\* The job named in the lock, or read from it, is that of a run that took the lock:
\* writeJob is the only writer of the file.
LEMMA NamedStep ==
  ASSUME TypeOK, Shape, Named, [Next]_vars
  PROVE  Named'
<1> USE DEF TypeOK, Shape, PC, Holding, Scanning, Cleaning, Ended, Terminal, Status, Goto, lockVars, localVars, Remember, Named, Exiting
<1>1. ASSUME NEW p \in Proc, startManual(p), Remember
      PROVE  Named'
  BY <1>1 DEF startManual
<1>2. ASSUME NEW p \in Proc, make_job_id(p), Remember
      PROVE  Named'
  BY <1>2 DEF make_job_id
<1>3. ASSUME NEW p \in Proc, failAsleep(p), Remember
      PROVE  Named'
  BY <1>3 DEF failAsleep, write_job_state
<1>4. ASSUME NEW p \in Proc, publishWaiting(p), Remember
      PROVE  Named'
  BY <1>4 DEF publishWaiting, write_job_state
<1>5. ASSUME NEW p \in Proc, mkdirLock(p), Remember
      PROVE  Named'
  BY <1>5 DEF mkdirLock
<1>6. ASSUME NEW p \in Proc, inspectLock(p), Remember
      PROVE  Named'
  BY <1>6 DEF inspectLock
<1>7. ASSUME NEW p \in Proc, readPid(p), Remember
      PROVE  Named'
  BY <1>7 DEF readPid
<1>8. ASSUME NEW p \in Proc, testPid(p), Remember
      PROVE  Named'
  BY <1>8 DEF testPid
<1>9. ASSUME NEW p \in Proc, readJob(p), Remember
      PROVE  Named'
  BY <1>9 DEF readJob
<1>10. ASSUME NEW p \in Proc, testJob(p), Remember
      PROVE  Named'
  BY <1>10 DEF testJob
<1>11. ASSUME NEW p \in Proc, dropStaleJob(p), Remember
      PROVE  Named'
  BY <1>11 DEF dropStaleJob
<1>12. ASSUME NEW p \in Proc, unlinkStale(p), Remember
      PROVE  Named'
  BY <1>12 DEF unlinkStale, UnlinkPid
<1>13. ASSUME NEW p \in Proc, rmdirStale(p), Remember
      PROVE  Named'
  BY <1>13 DEF rmdirStale, Rmdir
<1>14. ASSUME NEW p \in Proc, waitForLock(p), Remember
      PROVE  Named'
  BY <1>14 DEF waitForLock
<1>15. ASSUME NEW p \in Proc, rejectBusy(p), Remember
      PROVE  Named'
  BY <1>15 DEF rejectBusy, write_job_state
<1>16. ASSUME NEW p \in Proc, openPid(p), Remember
      PROVE  Named'
  BY <1>16 DEF openPid
<1>17. ASSUME NEW p \in Proc, writePid(p), Remember
      PROVE  Named'
  BY <1>17 DEF writePid
<1>18. ASSUME NEW p \in Proc, writeJob(p), Remember
      PROVE  Named'
  BY <1>18 DEF writeJob
<1>19. ASSUME NEW p \in Proc, NEW v \in Terminal, skipScan(p, v), Remember
      PROVE  Named'
  BY <1>19 DEF skipScan, write_job_state
<1>20. ASSUME NEW p \in Proc, NEW v \in Terminal, writeVerdict(p, v), Remember
      PROVE  Named'
  BY <1>20 DEF writeVerdict, write_job_state
<1>21. ASSUME NEW p \in Proc, startClamdscan(p), Remember
      PROVE  Named'
  BY <1>21 DEF startClamdscan
<1>22. ASSUME NEW p \in Proc, publishRunning(p), Remember
      PROVE  Named'
  BY <1>22 DEF publishRunning, write_job_state
<1>23. ASSUME NEW p \in Proc, reapClamdscan(p), Remember
      PROVE  Named'
  BY <1>23 DEF reapClamdscan
<1>24. ASSUME NEW p \in Proc, cleanup_lock(p), Remember
      PROVE  Named'
  BY <1>24 DEF cleanup_lock, UnlinkPid
<1>25. ASSUME NEW p \in Proc, cleanupRmdir(p), Remember
      PROVE  Named'
  BY <1>25 DEF cleanupRmdir, Rmdir
<1>26. ASSUME NEW p \in Proc, orphanEnds(p), Remember
      PROVE  Named'
  BY <1>26 DEF orphanEnds
<1>27. ASSUME NEW p \in Proc, kill(p), Remember
      PROVE  Named'
  BY <1>27 DEF kill
<1>28. CASE UNCHANGED vars
  BY <1>28 DEF vars
<1>29. QED
  BY <1>1, <1>2, <1>3, <1>4, <1>5, <1>6, <1>7, <1>8, <1>9, <1>10, <1>11, <1>12, <1>13, <1>14, <1>15, <1>16, <1>17, <1>18, <1>19, <1>20, <1>21, <1>22, <1>23, <1>24, <1>25, <1>26, <1>27, <1>28 DEF Next, Step, Acquire

\* Whoever removes the directory or a file of it, somebody who took the lock and has
\* not run his exit trap to the end, or was killed, is left as long as they exist.
LEMMA AnswerableStep ==
  ASSUME TypeOK, Shape, Answerable, [Next]_vars
  PROVE  Answerable'
<1> USE DEF TypeOK, Shape, PC, Holding, Scanning, Cleaning, Ended, Terminal, Status, Goto, lockVars, localVars, Remember, Answerable, Exiting
<1>1. ASSUME NEW p \in Proc, startManual(p), Remember
      PROVE  Answerable'
  BY <1>1, NoneAssumption DEF startManual
<1>2. ASSUME NEW p \in Proc, make_job_id(p), Remember
      PROVE  Answerable'
  BY <1>2, NoneAssumption DEF make_job_id
<1>3. ASSUME NEW p \in Proc, failAsleep(p), Remember
      PROVE  Answerable'
  BY <1>3, NoneAssumption DEF failAsleep, write_job_state
<1>4. ASSUME NEW p \in Proc, publishWaiting(p), Remember
      PROVE  Answerable'
  BY <1>4, NoneAssumption DEF publishWaiting, write_job_state
<1>5. ASSUME NEW p \in Proc, mkdirLock(p), Remember
      PROVE  Answerable'
  BY <1>5, NoneAssumption DEF mkdirLock
<1>6. ASSUME NEW p \in Proc, inspectLock(p), Remember
      PROVE  Answerable'
  BY <1>6, NoneAssumption DEF inspectLock
<1>7. ASSUME NEW p \in Proc, readPid(p), Remember
      PROVE  Answerable'
  BY <1>7, NoneAssumption DEF readPid
<1>8. ASSUME NEW p \in Proc, testPid(p), Remember
      PROVE  Answerable'
  BY <1>8, NoneAssumption DEF testPid
<1>9. ASSUME NEW p \in Proc, readJob(p), Remember
      PROVE  Answerable'
  BY <1>9, NoneAssumption DEF readJob
<1>10. ASSUME NEW p \in Proc, testJob(p), Remember
      PROVE  Answerable'
  BY <1>10, NoneAssumption DEF testJob
<1>11. ASSUME NEW p \in Proc, dropStaleJob(p), Remember
      PROVE  Answerable'
  BY <1>11, NoneAssumption DEF dropStaleJob
<1>12. ASSUME NEW p \in Proc, unlinkStale(p), Remember
      PROVE  Answerable'
  BY <1>12, NoneAssumption DEF unlinkStale, UnlinkPid
<1>13. ASSUME NEW p \in Proc, rmdirStale(p), Remember
      PROVE  Answerable'
  BY <1>13, NoneAssumption DEF rmdirStale, Rmdir
<1>14. ASSUME NEW p \in Proc, waitForLock(p), Remember
      PROVE  Answerable'
  BY <1>14, NoneAssumption DEF waitForLock
<1>15. ASSUME NEW p \in Proc, rejectBusy(p), Remember
      PROVE  Answerable'
  BY <1>15, NoneAssumption DEF rejectBusy, write_job_state
<1>16. ASSUME NEW p \in Proc, openPid(p), Remember
      PROVE  Answerable'
  BY <1>16, NoneAssumption DEF openPid
<1>17. ASSUME NEW p \in Proc, writePid(p), Remember
      PROVE  Answerable'
  BY <1>17, NoneAssumption DEF writePid
<1>18. ASSUME NEW p \in Proc, writeJob(p), Remember
      PROVE  Answerable'
  BY <1>18, NoneAssumption DEF writeJob
<1>19. ASSUME NEW p \in Proc, NEW v \in Terminal, skipScan(p, v), Remember
      PROVE  Answerable'
  BY <1>19, NoneAssumption DEF skipScan, write_job_state
<1>20. ASSUME NEW p \in Proc, NEW v \in Terminal, writeVerdict(p, v), Remember
      PROVE  Answerable'
  BY <1>20, NoneAssumption DEF writeVerdict, write_job_state
<1>21. ASSUME NEW p \in Proc, startClamdscan(p), Remember
      PROVE  Answerable'
  BY <1>21, NoneAssumption DEF startClamdscan
<1>22. ASSUME NEW p \in Proc, publishRunning(p), Remember
      PROVE  Answerable'
  BY <1>22, NoneAssumption DEF publishRunning, write_job_state
<1>23. ASSUME NEW p \in Proc, reapClamdscan(p), Remember
      PROVE  Answerable'
  BY <1>23, NoneAssumption DEF reapClamdscan
<1>24. ASSUME NEW p \in Proc, cleanup_lock(p), Remember
      PROVE  Answerable'
  BY <1>24, NoneAssumption DEF cleanup_lock, UnlinkPid
<1>25. ASSUME NEW p \in Proc, cleanupRmdir(p), Remember
      PROVE  Answerable'
  BY <1>25, NoneAssumption DEF cleanupRmdir, Rmdir
<1>26. ASSUME NEW p \in Proc, orphanEnds(p), Remember
      PROVE  Answerable'
  BY <1>26, NoneAssumption DEF orphanEnds
<1>27. ASSUME NEW p \in Proc, kill(p), Remember
      PROVE  Answerable'
  BY <1>27, NoneAssumption DEF kill
<1>28. CASE UNCHANGED vars
  BY <1>28, NoneAssumption DEF vars
<1>29. QED
  BY <1>1, <1>2, <1>3, <1>4, <1>5, <1>6, <1>7, <1>8, <1>9, <1>10, <1>11, <1>12, <1>13, <1>14, <1>15, <1>16, <1>17, <1>18, <1>19, <1>20, <1>21, <1>22, <1>23, <1>24, <1>25, <1>26, <1>27, <1>28 DEF Next, Step, Acquire

\* mkdir gives the lock to one run at a time, and unless a live lock has been taken
\* for stale nothing but the exit trap of the owner takes the directory away.
LEMMA OneOwnerStep ==
  ASSUME TypeOK, Shape, OneOwner, [Next]_vars
  PROVE  OneOwner'
<1> USE DEF TypeOK, Shape, PC, Holding, Scanning, Cleaning, Ended, Terminal, Status, Goto, lockVars, localVars, Remember, OneOwner, Live, Misjudging, Exiting
<1>1. ASSUME NEW p \in Proc, startManual(p), Remember
      PROVE  OneOwner'
  BY <1>1 DEF startManual
<1>2. ASSUME NEW p \in Proc, make_job_id(p), Remember
      PROVE  OneOwner'
  BY <1>2 DEF make_job_id
<1>3. ASSUME NEW p \in Proc, failAsleep(p), Remember
      PROVE  OneOwner'
  BY <1>3 DEF failAsleep, write_job_state
<1>4. ASSUME NEW p \in Proc, publishWaiting(p), Remember
      PROVE  OneOwner'
  BY <1>4 DEF publishWaiting, write_job_state
<1>5. ASSUME NEW p \in Proc, mkdirLock(p), Remember
      PROVE  OneOwner'
  <2>1. CASE lockDir
    BY <1>5, <2>1 DEF mkdirLock
  <2>2. CASE ~lockDir
    <3>1. ~misjudged => \A q \in Proc : ~Live(q)
      BY <2>2
    <3>2. \A q \in Proc : q # p => pc'[q] = pc[q] /\ held'[q] = held[q]
      BY <1>5, <2>2 DEF mkdirLock
    <3>3. lockDir' /\ pc'[p] = "openPid"
      BY <1>5, <2>2 DEF mkdirLock
    <3>4. QED
      BY <1>5, <3>1, <3>2, <3>3
  <2>3. QED
    BY <2>1, <2>2
<1>6. ASSUME NEW p \in Proc, inspectLock(p), Remember
      PROVE  OneOwner'
  BY <1>6 DEF inspectLock
<1>7. ASSUME NEW p \in Proc, readPid(p), Remember
      PROVE  OneOwner'
  BY <1>7 DEF readPid
<1>8. ASSUME NEW p \in Proc, testPid(p), Remember
      PROVE  OneOwner'
  BY <1>8 DEF testPid
<1>9. ASSUME NEW p \in Proc, readJob(p), Remember
      PROVE  OneOwner'
  BY <1>9 DEF readJob
<1>10. ASSUME NEW p \in Proc, testJob(p), Remember
      PROVE  OneOwner'
  BY <1>10 DEF testJob
<1>11. ASSUME NEW p \in Proc, dropStaleJob(p), Remember
      PROVE  OneOwner'
  BY <1>11 DEF dropStaleJob
<1>12. ASSUME NEW p \in Proc, unlinkStale(p), Remember
      PROVE  OneOwner'
  BY <1>12 DEF unlinkStale, UnlinkPid
<1>13. ASSUME NEW p \in Proc, rmdirStale(p), Remember
      PROVE  OneOwner'
  BY <1>13 DEF rmdirStale, Rmdir
<1>14. ASSUME NEW p \in Proc, waitForLock(p), Remember
      PROVE  OneOwner'
  BY <1>14 DEF waitForLock
<1>15. ASSUME NEW p \in Proc, rejectBusy(p), Remember
      PROVE  OneOwner'
  BY <1>15 DEF rejectBusy, write_job_state
<1>16. ASSUME NEW p \in Proc, openPid(p), Remember
      PROVE  OneOwner'
  BY <1>16 DEF openPid
<1>17. ASSUME NEW p \in Proc, writePid(p), Remember
      PROVE  OneOwner'
  BY <1>17 DEF writePid
<1>18. ASSUME NEW p \in Proc, writeJob(p), Remember
      PROVE  OneOwner'
  BY <1>18 DEF writeJob
<1>19. ASSUME NEW p \in Proc, NEW v \in Terminal, skipScan(p, v), Remember
      PROVE  OneOwner'
  BY <1>19 DEF skipScan, write_job_state
<1>20. ASSUME NEW p \in Proc, NEW v \in Terminal, writeVerdict(p, v), Remember
      PROVE  OneOwner'
  BY <1>20 DEF writeVerdict, write_job_state
<1>21. ASSUME NEW p \in Proc, startClamdscan(p), Remember
      PROVE  OneOwner'
  BY <1>21 DEF startClamdscan
<1>22. ASSUME NEW p \in Proc, publishRunning(p), Remember
      PROVE  OneOwner'
  BY <1>22 DEF publishRunning, write_job_state
<1>23. ASSUME NEW p \in Proc, reapClamdscan(p), Remember
      PROVE  OneOwner'
  BY <1>23 DEF reapClamdscan
<1>24. ASSUME NEW p \in Proc, cleanup_lock(p), Remember
      PROVE  OneOwner'
  BY <1>24 DEF cleanup_lock, UnlinkPid
<1>25. ASSUME NEW p \in Proc, cleanupRmdir(p), Remember
      PROVE  OneOwner'
  BY <1>25 DEF cleanupRmdir, Rmdir
<1>26. ASSUME NEW p \in Proc, orphanEnds(p), Remember
      PROVE  OneOwner'
  BY <1>26 DEF orphanEnds
<1>27. ASSUME NEW p \in Proc, kill(p), Remember
      PROVE  OneOwner'
  BY <1>27 DEF kill
<1>28. CASE UNCHANGED vars
  BY <1>28 DEF vars
<1>29. QED
  BY <1>1, <1>2, <1>3, <1>4, <1>5, <1>6, <1>7, <1>8, <1>9, <1>10, <1>11, <1>12, <1>13, <1>14, <1>15, <1>16, <1>17, <1>18, <1>19, <1>20, <1>21, <1>22, <1>23, <1>24, <1>25, <1>26, <1>27, <1>28 DEF Next, Step, Acquire

\* Unless a live lock has been taken for stale, the pid and the job in the lock are
\* those its owner wrote last.
LEMMA OwnFilesStep ==
  ASSUME TypeOK, Shape, OneOwner, OwnFiles, [Next]_vars
  PROVE  OwnFiles'
<1> USE DEF TypeOK, Shape, PC, Holding, Scanning, Cleaning, Ended, Terminal, Status, Goto, lockVars, localVars, Remember, OneOwner, OwnFiles, Live, Misjudging, Exiting
<1>1. ASSUME NEW p \in Proc, startManual(p), Remember
      PROVE  OwnFiles'
  BY <1>1 DEF startManual
<1>2. ASSUME NEW p \in Proc, make_job_id(p), Remember
      PROVE  OwnFiles'
  BY <1>2 DEF make_job_id
<1>3. ASSUME NEW p \in Proc, failAsleep(p), Remember
      PROVE  OwnFiles'
  BY <1>3 DEF failAsleep, write_job_state
<1>4. ASSUME NEW p \in Proc, publishWaiting(p), Remember
      PROVE  OwnFiles'
  BY <1>4 DEF publishWaiting, write_job_state
<1>5. ASSUME NEW p \in Proc, mkdirLock(p), Remember
      PROVE  OwnFiles'
  BY <1>5 DEF mkdirLock
<1>6. ASSUME NEW p \in Proc, inspectLock(p), Remember
      PROVE  OwnFiles'
  BY <1>6 DEF inspectLock
<1>7. ASSUME NEW p \in Proc, readPid(p), Remember
      PROVE  OwnFiles'
  BY <1>7 DEF readPid
<1>8. ASSUME NEW p \in Proc, testPid(p), Remember
      PROVE  OwnFiles'
  BY <1>8 DEF testPid
<1>9. ASSUME NEW p \in Proc, readJob(p), Remember
      PROVE  OwnFiles'
  BY <1>9 DEF readJob
<1>10. ASSUME NEW p \in Proc, testJob(p), Remember
      PROVE  OwnFiles'
  BY <1>10 DEF testJob
<1>11. ASSUME NEW p \in Proc, dropStaleJob(p), Remember
      PROVE  OwnFiles'
  BY <1>11 DEF dropStaleJob
<1>12. ASSUME NEW p \in Proc, unlinkStale(p), Remember
      PROVE  OwnFiles'
  BY <1>12 DEF unlinkStale, UnlinkPid
<1>13. ASSUME NEW p \in Proc, rmdirStale(p), Remember
      PROVE  OwnFiles'
  BY <1>13 DEF rmdirStale, Rmdir
<1>14. ASSUME NEW p \in Proc, waitForLock(p), Remember
      PROVE  OwnFiles'
  BY <1>14 DEF waitForLock
<1>15. ASSUME NEW p \in Proc, rejectBusy(p), Remember
      PROVE  OwnFiles'
  BY <1>15 DEF rejectBusy, write_job_state
<1>16. ASSUME NEW p \in Proc, openPid(p), Remember
      PROVE  OwnFiles'
  BY <1>16 DEF openPid
<1>17. ASSUME NEW p \in Proc, writePid(p), Remember
      PROVE  OwnFiles'
  BY <1>17 DEF writePid
<1>18. ASSUME NEW p \in Proc, writeJob(p), Remember
      PROVE  OwnFiles'
  BY <1>18 DEF writeJob
<1>19. ASSUME NEW p \in Proc, NEW v \in Terminal, skipScan(p, v), Remember
      PROVE  OwnFiles'
  BY <1>19 DEF skipScan, write_job_state
<1>20. ASSUME NEW p \in Proc, NEW v \in Terminal, writeVerdict(p, v), Remember
      PROVE  OwnFiles'
  BY <1>20 DEF writeVerdict, write_job_state
<1>21. ASSUME NEW p \in Proc, startClamdscan(p), Remember
      PROVE  OwnFiles'
  BY <1>21 DEF startClamdscan
<1>22. ASSUME NEW p \in Proc, publishRunning(p), Remember
      PROVE  OwnFiles'
  BY <1>22 DEF publishRunning, write_job_state
<1>23. ASSUME NEW p \in Proc, reapClamdscan(p), Remember
      PROVE  OwnFiles'
  BY <1>23 DEF reapClamdscan
<1>24. ASSUME NEW p \in Proc, cleanup_lock(p), Remember
      PROVE  OwnFiles'
  BY <1>24 DEF cleanup_lock, UnlinkPid
<1>25. ASSUME NEW p \in Proc, cleanupRmdir(p), Remember
      PROVE  OwnFiles'
  BY <1>25 DEF cleanupRmdir, Rmdir
<1>26. ASSUME NEW p \in Proc, orphanEnds(p), Remember
      PROVE  OwnFiles'
  BY <1>26 DEF orphanEnds
<1>27. ASSUME NEW p \in Proc, kill(p), Remember
      PROVE  OwnFiles'
  BY <1>27 DEF kill
<1>28. CASE UNCHANGED vars
  BY <1>28 DEF vars
<1>29. QED
  BY <1>1, <1>2, <1>3, <1>4, <1>5, <1>6, <1>7, <1>8, <1>9, <1>10, <1>11, <1>12, <1>13, <1>14, <1>15, <1>16, <1>17, <1>18, <1>19, <1>20, <1>21, <1>22, <1>23, <1>24, <1>25, <1>26, <1>27, <1>28 DEF Next, Step, Acquire

\* A job file says running only between publishRunning and the verdict, or after a
\* kill, and a run on its way out has written its verdict.
LEMMA JobFilesStep ==
  ASSUME TypeOK, Shape, Named, OneOwner, JobFiles, [Next]_vars
  PROVE  JobFiles'
<1> USE DEF TypeOK, Shape, PC, Holding, Scanning, Cleaning, Ended, Terminal, Status, Goto, lockVars, localVars, Remember, OneOwner, JobFiles, Named, Live, Misjudging, IdsDiffer, Exiting
<1>1. ASSUME NEW p \in Proc, startManual(p), Remember
      PROVE  JobFiles'
  BY <1>1, NoneAssumption DEF startManual
<1>2. ASSUME NEW p \in Proc, make_job_id(p), Remember
      PROVE  JobFiles'
  BY <1>2, NoneAssumption DEF make_job_id
<1>3. ASSUME NEW p \in Proc, failAsleep(p), Remember
      PROVE  JobFiles'
  BY <1>3, NoneAssumption DEF failAsleep, write_job_state
<1>4. ASSUME NEW p \in Proc, publishWaiting(p), Remember
      PROVE  JobFiles'
  BY <1>4, NoneAssumption DEF publishWaiting, write_job_state
<1>5. ASSUME NEW p \in Proc, mkdirLock(p), Remember
      PROVE  JobFiles'
  BY <1>5, NoneAssumption DEF mkdirLock
<1>6. ASSUME NEW p \in Proc, inspectLock(p), Remember
      PROVE  JobFiles'
  BY <1>6, NoneAssumption DEF inspectLock
<1>7. ASSUME NEW p \in Proc, readPid(p), Remember
      PROVE  JobFiles'
  BY <1>7, NoneAssumption DEF readPid
<1>8. ASSUME NEW p \in Proc, testPid(p), Remember
      PROVE  JobFiles'
  BY <1>8, NoneAssumption DEF testPid
<1>9. ASSUME NEW p \in Proc, readJob(p), Remember
      PROVE  JobFiles'
  BY <1>9, NoneAssumption DEF readJob
<1>10. ASSUME NEW p \in Proc, testJob(p), Remember
      PROVE  JobFiles'
  BY <1>10, NoneAssumption DEF testJob
<1>11. ASSUME NEW p \in Proc, dropStaleJob(p), Remember
      PROVE  JobFiles'
  BY <1>11, NoneAssumption DEF dropStaleJob
<1>12. ASSUME NEW p \in Proc, unlinkStale(p), Remember
      PROVE  JobFiles'
  BY <1>12, NoneAssumption DEF unlinkStale, UnlinkPid
<1>13. ASSUME NEW p \in Proc, rmdirStale(p), Remember
      PROVE  JobFiles'
  BY <1>13, NoneAssumption DEF rmdirStale, Rmdir
<1>14. ASSUME NEW p \in Proc, waitForLock(p), Remember
      PROVE  JobFiles'
  BY <1>14, NoneAssumption DEF waitForLock
<1>15. ASSUME NEW p \in Proc, rejectBusy(p), Remember
      PROVE  JobFiles'
  BY <1>15, NoneAssumption DEF rejectBusy, write_job_state
<1>16. ASSUME NEW p \in Proc, openPid(p), Remember
      PROVE  JobFiles'
  BY <1>16, NoneAssumption DEF openPid
<1>17. ASSUME NEW p \in Proc, writePid(p), Remember
      PROVE  JobFiles'
  BY <1>17, NoneAssumption DEF writePid
<1>18. ASSUME NEW p \in Proc, writeJob(p), Remember
      PROVE  JobFiles'
  BY <1>18, NoneAssumption DEF writeJob
<1>19. ASSUME NEW p \in Proc, NEW v \in Terminal, skipScan(p, v), Remember
      PROVE  JobFiles'
  BY <1>19, NoneAssumption DEF skipScan, write_job_state
<1>20. ASSUME NEW p \in Proc, NEW v \in Terminal, writeVerdict(p, v), Remember
      PROVE  JobFiles'
  BY <1>20, NoneAssumption DEF writeVerdict, write_job_state
<1>21. ASSUME NEW p \in Proc, startClamdscan(p), Remember
      PROVE  JobFiles'
  BY <1>21, NoneAssumption DEF startClamdscan
<1>22. ASSUME NEW p \in Proc, publishRunning(p), Remember
      PROVE  JobFiles'
  BY <1>22, NoneAssumption DEF publishRunning, write_job_state
<1>23. ASSUME NEW p \in Proc, reapClamdscan(p), Remember
      PROVE  JobFiles'
  BY <1>23, NoneAssumption DEF reapClamdscan
<1>24. ASSUME NEW p \in Proc, cleanup_lock(p), Remember
      PROVE  JobFiles'
  BY <1>24, NoneAssumption DEF cleanup_lock, UnlinkPid
<1>25. ASSUME NEW p \in Proc, cleanupRmdir(p), Remember
      PROVE  JobFiles'
  BY <1>25, NoneAssumption DEF cleanupRmdir, Rmdir
<1>26. ASSUME NEW p \in Proc, orphanEnds(p), Remember
      PROVE  JobFiles'
  BY <1>26, NoneAssumption DEF orphanEnds
<1>27. ASSUME NEW p \in Proc, kill(p), Remember
      PROVE  JobFiles'
  BY <1>27, NoneAssumption DEF kill
<1>28. CASE UNCHANGED vars
  BY <1>28, NoneAssumption DEF vars
<1>29. QED
  BY <1>1, <1>2, <1>3, <1>4, <1>5, <1>6, <1>7, <1>8, <1>9, <1>10, <1>11, <1>12, <1>13, <1>14, <1>15, <1>16, <1>17, <1>18, <1>19, <1>20, <1>21, <1>22, <1>23, <1>24, <1>25, <1>26, <1>27, <1>28 DEF Next, Step, Acquire

\* The lock of a run killed while its file says running stays whole until a later
\* run has judged it and dropped the file.
LEMMA CrashesStep ==
  ASSUME TypeOK, Shape, Named, OneOwner, OwnFiles, JobFiles, CrashesAreWhole, [Next]_vars
  PROVE  CrashesAreWhole'
<1> USE DEF TypeOK, Shape, PC, Holding, Scanning, Cleaning, Ended, Terminal, Status, Goto, lockVars, localVars, Remember, OneOwner, OwnFiles, JobFiles, Named, CrashesAreWhole, CrashedLock, Live, Misjudging, IdsDiffer, Exiting
<1>1. ASSUME NEW p \in Proc, startManual(p), Remember
      PROVE  CrashesAreWhole'
  BY <1>1, NoneAssumption, ScanPid DEF startManual
<1>2. ASSUME NEW p \in Proc, make_job_id(p), Remember
      PROVE  CrashesAreWhole'
  BY <1>2, NoneAssumption, ScanPid DEF make_job_id
<1>3. ASSUME NEW p \in Proc, failAsleep(p), Remember
      PROVE  CrashesAreWhole'
  BY <1>3, NoneAssumption, ScanPid DEF failAsleep, write_job_state
<1>4. ASSUME NEW p \in Proc, publishWaiting(p), Remember
      PROVE  CrashesAreWhole'
  BY <1>4, NoneAssumption, ScanPid DEF publishWaiting, write_job_state
<1>5. ASSUME NEW p \in Proc, mkdirLock(p), Remember
      PROVE  CrashesAreWhole'
  BY <1>5, NoneAssumption, ScanPid DEF mkdirLock
<1>6. ASSUME NEW p \in Proc, inspectLock(p), Remember
      PROVE  CrashesAreWhole'
  <2> SUFFICES ASSUME NEW r \in Proc, ~misjudged', IdsDiffer',
                      pc'[r] = "killed", jobs'[jobId'[r]] = "running"
               PROVE  CrashedLock(r)'
    OBVIOUS
  <2>1. CrashedLock(r) /\ r # p
    BY <1>6 DEF inspectLock
  <2>2. lockPid \in Pid /\ lockPid # None
    BY <2>1, ScanPid
  <2>3. QED
    BY <1>6, <2>1, <2>2 DEF inspectLock
<1>7. ASSUME NEW p \in Proc, readPid(p), Remember
      PROVE  CrashesAreWhole'
  <2> SUFFICES ASSUME NEW r \in Proc, ~misjudged', IdsDiffer',
                      pc'[r] = "killed", jobs'[jobId'[r]] = "running"
               PROVE  CrashedLock(r)'
    OBVIOUS
  <2>1. CrashedLock(r) /\ r # p
    BY <1>7 DEF readPid
  <2>2. lockPid \in Pid /\ lockPid # None
    BY <2>1, ScanPid
  <2>3. QED
    BY <1>7, <2>1, <2>2 DEF readPid
<1>8. ASSUME NEW p \in Proc, testPid(p), Remember
      PROVE  CrashesAreWhole'
  BY <1>8, NoneAssumption, ScanPid DEF testPid
<1>9. ASSUME NEW p \in Proc, readJob(p), Remember
      PROVE  CrashesAreWhole'
  BY <1>9, NoneAssumption, ScanPid DEF readJob
<1>10. ASSUME NEW p \in Proc, testJob(p), Remember
      PROVE  CrashesAreWhole'
  BY <1>10, NoneAssumption, ScanPid DEF testJob
<1>11. ASSUME NEW p \in Proc, dropStaleJob(p), Remember
      PROVE  CrashesAreWhole'
  BY <1>11, NoneAssumption, ScanPid DEF dropStaleJob
<1>12. ASSUME NEW p \in Proc, unlinkStale(p), Remember
      PROVE  CrashesAreWhole'
  BY <1>12, NoneAssumption, ScanPid DEF unlinkStale, UnlinkPid
<1>13. ASSUME NEW p \in Proc, rmdirStale(p), Remember
      PROVE  CrashesAreWhole'
  BY <1>13, NoneAssumption, ScanPid DEF rmdirStale, Rmdir
<1>14. ASSUME NEW p \in Proc, waitForLock(p), Remember
      PROVE  CrashesAreWhole'
  BY <1>14, NoneAssumption, ScanPid DEF waitForLock
<1>15. ASSUME NEW p \in Proc, rejectBusy(p), Remember
      PROVE  CrashesAreWhole'
  BY <1>15, NoneAssumption, ScanPid DEF rejectBusy, write_job_state
<1>16. ASSUME NEW p \in Proc, openPid(p), Remember
      PROVE  CrashesAreWhole'
  BY <1>16, NoneAssumption, ScanPid DEF openPid
<1>17. ASSUME NEW p \in Proc, writePid(p), Remember
      PROVE  CrashesAreWhole'
  BY <1>17, NoneAssumption, ScanPid DEF writePid
<1>18. ASSUME NEW p \in Proc, writeJob(p), Remember
      PROVE  CrashesAreWhole'
  BY <1>18, NoneAssumption, ScanPid DEF writeJob
<1>19. ASSUME NEW p \in Proc, NEW v \in Terminal, skipScan(p, v), Remember
      PROVE  CrashesAreWhole'
  BY <1>19, NoneAssumption, ScanPid DEF skipScan, write_job_state
<1>20. ASSUME NEW p \in Proc, NEW v \in Terminal, writeVerdict(p, v), Remember
      PROVE  CrashesAreWhole'
  BY <1>20, NoneAssumption, ScanPid DEF writeVerdict, write_job_state
<1>21. ASSUME NEW p \in Proc, startClamdscan(p), Remember
      PROVE  CrashesAreWhole'
  BY <1>21, NoneAssumption, ScanPid DEF startClamdscan
<1>22. ASSUME NEW p \in Proc, publishRunning(p), Remember
      PROVE  CrashesAreWhole'
  BY <1>22, NoneAssumption, ScanPid DEF publishRunning, write_job_state
<1>23. ASSUME NEW p \in Proc, reapClamdscan(p), Remember
      PROVE  CrashesAreWhole'
  BY <1>23, NoneAssumption, ScanPid DEF reapClamdscan
<1>24. ASSUME NEW p \in Proc, cleanup_lock(p), Remember
      PROVE  CrashesAreWhole'
  BY <1>24, NoneAssumption, ScanPid DEF cleanup_lock, UnlinkPid
<1>25. ASSUME NEW p \in Proc, cleanupRmdir(p), Remember
      PROVE  CrashesAreWhole'
  BY <1>25, NoneAssumption, ScanPid DEF cleanupRmdir, Rmdir
<1>26. ASSUME NEW p \in Proc, orphanEnds(p), Remember
      PROVE  CrashesAreWhole'
  BY <1>26, NoneAssumption, ScanPid DEF orphanEnds
<1>27. ASSUME NEW p \in Proc, kill(p), Remember
      PROVE  CrashesAreWhole'
  BY <1>27, NoneAssumption, ScanPid DEF kill
<1>28. CASE UNCHANGED vars
  BY <1>28, NoneAssumption, ScanPid DEF vars
<1>29. QED
  BY <1>1, <1>2, <1>3, <1>4, <1>5, <1>6, <1>7, <1>8, <1>9, <1>10, <1>11, <1>12, <1>13, <1>14, <1>15, <1>16, <1>17, <1>18, <1>19, <1>20, <1>21, <1>22, <1>23, <1>24, <1>25, <1>26, <1>27, <1>28 DEF Next, Step, Acquire

\* The server starts with no lock, no job file and no run under way.
LEMMA InitIInv == Init => IInv
<1> SUFFICES ASSUME Init PROVE IInv
  OBVIOUS
<1> USE DEF Init
<1>1. TypeOK
  <2>1. pc \in [Proc -> PC]
    BY DEF PC
  <2>2. kills \in 0..MaxKills
    BY LimitAssumption
  <2>3. QED
    BY <2>1, <2>2 DEF TypeOK
<1>2. Shape /\ Named /\ Answerable
  BY DEF Shape, Named, Answerable, Holding, Scanning, Exiting
<1>3. OneOwner /\ OwnFiles
  BY DEF OneOwner, OwnFiles, Live, Misjudging, Scanning
<1>4. JobFiles /\ CrashesAreWhole
  BY DEF JobFiles, CrashesAreWhole
<1>5. QED
  BY <1>1, <1>2, <1>3, <1>4 DEF IInv

\* No step of any run leaves the inductive invariant.
LEMMA NextIInv == IInv /\ [Next]_vars => IInv'
<1> SUFFICES ASSUME IInv, [Next]_vars PROVE IInv'
  OBVIOUS
<1>1. /\ TypeOK /\ Shape /\ Named /\ Answerable
      /\ OneOwner /\ OwnFiles /\ JobFiles /\ CrashesAreWhole
  BY DEF IInv
<1>2. TypeOK' /\ Shape' /\ Named' /\ Answerable'
  BY <1>1, TypeStep, ShapeStep, NamedStep, AnswerableStep
<1>3. OneOwner' /\ OwnFiles'
  BY <1>1, OneOwnerStep, OwnFilesStep
<1>4. JobFiles' /\ CrashesAreWhole'
  BY <1>1, JobFilesStep, CrashesStep
<1>5. QED
  BY <1>2, <1>3, <1>4 DEF IInv

\* The inductive invariant holds in every state of every behaviour.
LEMMA AlwaysIInv == Spec => []IInv
  BY InitIInv, NextIInv, PTL DEF Spec

-----------------------------------------------------------------------------
(* The theorems.                                                           *)

\* For any number of runs: scans are serial, and every run that ends by itself
\* has left its verdict and was not cut short, until the lock of a live run has
\* been taken for stale (acquire_scan_lock, cleanup_lock).
THEOREM LockIsExclusive == Spec => []LockInv
<1>1. IInv => LockInv
  <2> SUFFICES ASSUME IInv PROVE LockInv
    OBVIOUS
  <2> USE DEF IInv
  <2>1. TypeOK
    OBVIOUS
  <2>2. SerialUnlessMisjudged
    BY DEF SerialUnlessMisjudged, OneOwner, Live, Shape, Holding, Scanning, Ended
  <2>3. VerdictUnlessMisjudged
    BY DEF VerdictUnlessMisjudged, OneOwner, JobFiles
  <2>4. QED
    BY <2>1, <2>2, <2>3 DEF LockInv
<1>2. QED
  BY <1>1, AlwaysIInv, PTL

\* For any number of runs: the file of a killed run that says running is named by
\* the lock it left behind, and once all runs have ended by themselves no lock is
\* left (cleanup_stale_lock_if_needed, cleanup_lock).
THEOREM LocksAreRecovered == Spec => []NoLockIsStuck
<1>1. IInv => NoLockIsStuck
  <2> SUFFICES ASSUME IInv PROVE NoLockIsStuck
    OBVIOUS
  <2> USE DEF IInv
  <2>1. CrashIsRecoverable
    BY DEF CrashIsRecoverable, CrashesAreWhole, CrashedLock
  <2>2. NoLockLeft
    BY DEF NoLockLeft, Answerable, Holding, Scanning, Exiting
  <2>3. QED
    BY <2>1, <2>2 DEF NoLockIsStuck
<1>2. QED
  BY <1>1, AlwaysIInv, PTL

=============================================================================
