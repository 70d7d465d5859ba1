--------------------------- MODULE ClamAVPowerProofs ---------------------------
(***************************************************************************)
(* Proofs about the power of clamd, for all intervals, any flags of the    *)
(* cron rules, and with or without failing commands.                       *)
(***************************************************************************)
EXTENDS ScansAndPower, TLAPS

-----------------------------------------------------------------------------
(* The inductive invariant.                                                *)

\* Who holds clamavPowerMu is in sleepClamAV, in the wake script or in the check of
\* the timer goroutine, and nobody else of the server is; the scan lock belongs to
\* the process that took it; a manual scan process belongs to the active batch.
Phases ==
    /\ powerMu = "timer" <=> tpc \in {"check", "pending", "sleeping"}
    /\ slp # "none" <=> powerMu = "sleep" \/ tpc = "sleeping"
    /\ wake["server"] # "idle" <=> powerMu = "wake"
    /\ wake["cron"] # "idle" <=> cron = "waking"
    /\ scanLock = "cron" <=> cron \in {"locked", "waking", "scanning"}
    /\ scanLock = "manual" <=> manual = "scanning"
    /\ manual # "none" => batch = "active"

\* Whatever resets the timer moves the generation under the mutex, so nothing has
\* reset it between the comparison of the generations and the sleep; and nobody
\* starts a manual scan process between the look at the queue and the sleep.
TimerIsCurrent ==
    /\ reset => moved
    /\ tpc \in {"pending", "sleeping"} => ~reset
    /\ tpc = "sleeping" => manual = "none"

\* Until a command fails: clamd without marker is up, except between its shutdown and
\* mkdir; a marker of a clamd that is up is about to be removed by a wake; a sleep
\* that has found the scan lock free overlaps no wake.
Truthful ==
    /\ \A w \in {"server", "cron"} : wake[w] \in {"marker", "rmdir"} => clamd = "up"
    /\ clamd = "booting" => sleepLock /\ \E w \in {"server", "cron"} : wake[w] = "boot"
    /\ clamd = "down" => sleepLock \/ slp = "mkdir"
    /\ sleepLock /\ clamd = "up" =>
          \E w \in {"server", "cron"} : wake[w] \in {"boot", "marker", "rmdir"}
    /\ slp \in {"lock", "shutdown"} => clamd = "up"
    /\ slp = "mkdir" => clamd = "down"
    /\ slp \in {"shutdown", "mkdir"} => ~sleepLock /\ wake["cron"] = "idle"

IInv == Power!TypeOK /\ Phases /\ TimerIsCurrent /\ (~failed => Truthful)

-----------------------------------------------------------------------------
(* What the constants are.                                                 *)

LEMMA IntervalsAreNat == Interval \subseteq Nat /\ 0 \in Interval
  BY PowerConstants DEF Power!PowerAssumption

LEMMA FlagsAreBoolean == WakeFlag \subseteq BOOLEAN /\ Failures \in BOOLEAN
  BY PowerConstants DEF Power!PowerAssumption

LEMMA NoneIsNobody == None \notin {"manual", "cron", "sleep", "wake", "timer"}
  BY PowerConstants DEF Power!PowerAssumption

-----------------------------------------------------------------------------
(* The steps.                                                              *)

\* The variables that are flags, and the others.
Flags ==
    /\ sleepLock \in BOOLEAN /\ cfgPending \in BOOLEAN /\ changed \in BOOLEAN
    /\ moved \in BOOLEAN /\ armed \in BOOLEAN /\ reset \in BOOLEAN
    /\ cronWake \in BOOLEAN /\ failed \in BOOLEAN

Values ==
    /\ clamd \in {"up", "booting", "down"}
    /\ scanLock \in {None, "manual", "cron"}
    /\ powerMu \in {None, "sleep", "wake", "timer"}
    /\ slp \in {"none", "ping", "lock", "shutdown", "mkdir"}
    /\ wake \in [{"server", "cron"} -> {"idle", "ping", "boot", "marker", "rmdir"}]
    /\ interval \in Interval /\ armedInterval \in Interval
    /\ tpc \in {"armConfig", "armLock", "armGeneration", "select",
                "fired", "check", "pending", "sleeping"}
    /\ batch \in {"none", "checked", "queued", "active"}
    /\ manual \in {"none", "started", "scanning", "ended"}
    /\ cron \in {"idle", "started", "locked", "waking", "scanning"}

\* Together they are all of the state.
LEMMA TypeParts == (Flags /\ Values <=> Power!TypeOK) /\ (Flags' /\ Values' <=> Power!TypeOK')
  BY DEF Flags, Values, Power!TypeOK

\* Every step keeps the types.
LEMMA TypeStep ==
  ASSUME Power!TypeOK, [Power!Next]_(Power!vars)
  PROVE  Power!TypeOK'
<1> USE DEF Power!TypeOK, Power!timerVars, Power!scanVars, Power!powerVars
<1>1. CASE Power!armConfig
  <2>1. Flags'
    BY <1>1 DEF Flags, Power!armConfig
  <2>2. Values'
    BY <1>1, IntervalsAreNat DEF Values, Power!armConfig
  <2>3. QED
    BY <2>1, <2>2, TypeParts
<1>2. CASE Power!armLock
  BY <1>2, IntervalsAreNat, FlagsAreBoolean DEF Power!armLock
<1>3. CASE Power!armGeneration
  <2>1. Flags'
    BY <1>3 DEF Flags, Power!armGeneration
  <2>2. Values'
    BY <1>3, IntervalsAreNat DEF Values, Power!armGeneration
  <2>3. QED
    BY <2>1, <2>2, TypeParts
<1>4. CASE Power!receiveChanged
  <2>1. Flags'
    BY <1>4 DEF Flags, Power!receiveChanged
  <2>2. Values'
    BY <1>4, IntervalsAreNat DEF Values, Power!receiveChanged
  <2>3. QED
    BY <2>1, <2>2, TypeParts
<1>5. CASE Power!expire
  <2>1. Flags'
    BY <1>5 DEF Flags, Power!expire
  <2>2. Values'
    BY <1>5, IntervalsAreNat DEF Values, Power!expire
  <2>3. QED
    BY <2>1, <2>2, TypeParts
<1>6. CASE Power!timerLocks
  BY <1>6, IntervalsAreNat, FlagsAreBoolean DEF Power!timerLocks
<1>7. CASE Power!checkGeneration
  BY <1>7, IntervalsAreNat, FlagsAreBoolean DEF Power!checkGeneration
<1>8. CASE Power!deferForManualScan
  BY <1>8, IntervalsAreNat, FlagsAreBoolean DEF Power!deferForManualScan
<1>9. CASE Power!handleClamAVSleep
  BY <1>9, IntervalsAreNat, FlagsAreBoolean DEF Power!handleClamAVSleep
<1>10. CASE Power!sleepPing
  <2>1. Flags'
    BY <1>10 DEF Flags, Power!sleepPing, Power!sleepReturns, Power!advance
  <2>2. Values'
    BY <1>10, IntervalsAreNat DEF Values, Power!sleepPing, Power!sleepReturns, Power!advance
  <2>3. QED
    BY <2>1, <2>2, TypeParts
<1>11. CASE Power!sleepScanLock
  BY <1>11, IntervalsAreNat, FlagsAreBoolean DEF Power!sleepScanLock, Power!sleepReturns,
     Power!advance
<1>12. CASE Power!sleepShutdown
  BY <1>12, IntervalsAreNat, FlagsAreBoolean DEF Power!sleepShutdown, Power!sleepReturns,
     Power!advance
<1>13. CASE Power!sleepMark
  <2>1. Flags'
    <3>1. sleepLock' \in BOOLEAN /\ cronWake' \in BOOLEAN /\ failed' \in BOOLEAN
      BY <1>13 DEF Power!sleepMark
    <3>2. PICK ok \in BOOLEAN : Power!sleepReturns(ok)
      BY <1>13 DEF Power!sleepMark
    <3>3. changed' \in BOOLEAN /\ moved' \in BOOLEAN
      BY <3>2 DEF Power!sleepReturns, Power!advance
    <3>4. QED
      BY <3>1, <3>2, <3>3 DEF Flags, Power!sleepReturns
  <2>2. Values'
    <3>1. PICK ok \in BOOLEAN : Power!sleepReturns(ok)
      BY <1>13 DEF Power!sleepMark
    <3>2. powerMu' = None /\ slp' = "none" /\ tpc' \in {tpc, "select", "armConfig"}
      BY <3>1 DEF Power!sleepReturns
    <3>3. UNCHANGED <<interval, armedInterval>>
      BY <3>1 DEF Power!sleepReturns
    <3>4. UNCHANGED <<clamd, wake, Power!scanVars>>
      BY <1>13 DEF Power!sleepMark
    <3>5. QED
      BY <3>2, <3>3, <3>4 DEF Values
  <2>3. QED
    BY <2>1, <2>2, TypeParts
<1>14. CASE Power!handleClamAVWake
  BY <1>14, IntervalsAreNat, FlagsAreBoolean DEF Power!handleClamAVWake
<1>15. CASE Power!wakeTimesOut
  BY <1>15, IntervalsAreNat, FlagsAreBoolean DEF Power!wakeTimesOut, Power!scriptReturns,
     Power!advance
<1>16. CASE Power!clamdComesUp
  BY <1>16, IntervalsAreNat, FlagsAreBoolean DEF Power!clamdComesUp
<1>17. ASSUME NEW w \in {"server", "cron"}, Power!wakePing(w)
      PROVE  Power!TypeOK'
  BY <1>17, IntervalsAreNat, FlagsAreBoolean DEF Power!wakePing
<1>18. ASSUME NEW w \in {"server", "cron"}, Power!wakeReady(w)
      PROVE  Power!TypeOK'
  BY <1>18, IntervalsAreNat, FlagsAreBoolean DEF Power!wakeReady
<1>19. ASSUME NEW w \in {"server", "cron"}, Power!testMarker(w)
      PROVE  Power!TypeOK'
  <2>1. Flags'
    BY <1>19 DEF Flags, Power!testMarker, Power!scriptReturns, Power!advance
  <2>2. Values'
    BY <1>19, IntervalsAreNat DEF Values, Power!testMarker, Power!scriptReturns, Power!advance
  <2>3. QED
    BY <2>1, <2>2, TypeParts
<1>20. ASSUME NEW w \in {"server", "cron"}, Power!removeSleepLock(w)
      PROVE  Power!TypeOK'
  <2>1. Flags'
    BY <1>20 DEF Flags, Power!removeSleepLock, Power!scriptReturns, Power!advance
  <2>2. Values'
    BY <1>20, IntervalsAreNat DEF Values, Power!removeSleepLock, Power!scriptReturns, Power!advance
  <2>3. QED
    BY <2>1, <2>2, TypeParts
<1>21. ASSUME NEW w \in {"server", "cron"}, Power!wakeFails(w)
      PROVE  Power!TypeOK'
  BY <1>21, IntervalsAreNat, FlagsAreBoolean DEF Power!wakeFails, Power!scriptReturns, Power!advance
<1>22. CASE Power!requestScan
  BY <1>22, IntervalsAreNat, FlagsAreBoolean DEF Power!requestScan
<1>23. CASE Power!enqueueScan
  BY <1>23, IntervalsAreNat, FlagsAreBoolean DEF Power!enqueueScan
<1>24. CASE Power!cancelScan
  BY <1>24, IntervalsAreNat, FlagsAreBoolean DEF Power!cancelScan
<1>25. CASE Power!activateScan
  BY <1>25, IntervalsAreNat, FlagsAreBoolean DEF Power!activateScan
<1>26. CASE Power!startScanScript
  BY <1>26, IntervalsAreNat, FlagsAreBoolean DEF Power!startScanScript, Power!advance
<1>27. CASE Power!manualLocks
  BY <1>27, IntervalsAreNat, FlagsAreBoolean DEF Power!manualLocks
<1>28. CASE Power!manualEnds
  BY <1>28, IntervalsAreNat, FlagsAreBoolean DEF Power!manualEnds
<1>29. CASE Power!finishTarget
  BY <1>29, IntervalsAreNat, FlagsAreBoolean DEF Power!finishTarget
<1>30. ASSUME NEW w \in WakeFlag, Power!cronStarts(w)
      PROVE  Power!TypeOK'
  BY <1>30, IntervalsAreNat, FlagsAreBoolean DEF Power!cronStarts
<1>31. CASE Power!cronLocks
  BY <1>31, IntervalsAreNat, FlagsAreBoolean DEF Power!cronLocks
<1>32. CASE Power!cronRechecks
  BY <1>32, IntervalsAreNat, FlagsAreBoolean DEF Power!cronRechecks
<1>33. CASE Power!cronEnds
  BY <1>33, IntervalsAreNat, FlagsAreBoolean DEF Power!cronEnds
<1>34. ASSUME NEW n \in Interval, Power!updateInterval(n)
      PROVE  Power!TypeOK'
  BY <1>34, IntervalsAreNat, FlagsAreBoolean DEF Power!updateInterval
<1>35. CASE Power!notifyInterval
  <2>1. Flags'
    BY <1>35 DEF Flags, Power!notifyInterval, Power!advance
  <2>2. Values'
    BY <1>35, IntervalsAreNat DEF Values, Power!notifyInterval, Power!advance
  <2>3. QED
    BY <2>1, <2>2, TypeParts
<1>36. CASE UNCHANGED Power!vars
  BY <1>36, IntervalsAreNat, FlagsAreBoolean DEF Power!vars
<1>37. QED
  BY <1>1, <1>2, <1>3, <1>4, <1>5, <1>6, <1>7, <1>8, <1>9, <1>10, <1>11, <1>12, <1>13, <1>14,
     <1>15, <1>16, <1>17, <1>18, <1>19, <1>20, <1>21, <1>22, <1>23, <1>24, <1>25, <1>26, <1>27,
     <1>28, <1>29, <1>30, <1>31, <1>32, <1>33, <1>34, <1>35, <1>36 DEF Power!Next,
     Power!TimerStep, Power!SleepStep, Power!WakeStep, Power!ManualStep, Power!CronStep

\* Every step keeps the phases of the server, the scripts and the scans together.
LEMMA PhasesStep ==
  ASSUME Power!TypeOK, Phases, [Power!Next]_(Power!vars)
  PROVE  Phases'
<1> USE DEF Power!TypeOK, Power!timerVars, Power!scanVars, Power!powerVars, Phases
<1>1. CASE Power!armConfig
  BY <1>1, NoneIsNobody DEF Power!armConfig
<1>2. CASE Power!armLock
  BY <1>2, NoneIsNobody DEF Power!armLock
<1>3. CASE Power!armGeneration
  BY <1>3, NoneIsNobody DEF Power!armGeneration
<1>4. CASE Power!receiveChanged
  BY <1>4, NoneIsNobody DEF Power!receiveChanged
<1>5. CASE Power!expire
  BY <1>5, NoneIsNobody DEF Power!expire
<1>6. CASE Power!timerLocks
  BY <1>6, NoneIsNobody DEF Power!timerLocks
<1>7. CASE Power!checkGeneration
  BY <1>7, NoneIsNobody DEF Power!checkGeneration
<1>8. CASE Power!deferForManualScan
  BY <1>8, NoneIsNobody DEF Power!deferForManualScan
<1>9. CASE Power!handleClamAVSleep
  BY <1>9, NoneIsNobody DEF Power!handleClamAVSleep
<1>10. CASE Power!sleepPing
  BY <1>10, NoneIsNobody DEF Power!sleepPing, Power!sleepReturns, Power!advance
<1>11. CASE Power!sleepScanLock
  BY <1>11, NoneIsNobody DEF Power!sleepScanLock, Power!sleepReturns, Power!advance
<1>12. CASE Power!sleepShutdown
  BY <1>12, NoneIsNobody DEF Power!sleepShutdown, Power!sleepReturns, Power!advance
<1>13. CASE Power!sleepMark
  BY <1>13, NoneIsNobody DEF Power!sleepMark, Power!sleepReturns, Power!advance
<1>14. CASE Power!handleClamAVWake
  BY <1>14, NoneIsNobody DEF Power!handleClamAVWake
<1>15. CASE Power!wakeTimesOut
  BY <1>15, NoneIsNobody DEF Power!wakeTimesOut, Power!scriptReturns, Power!advance
<1>16. CASE Power!clamdComesUp
  BY <1>16, NoneIsNobody DEF Power!clamdComesUp
<1>17. ASSUME NEW w \in {"server", "cron"}, Power!wakePing(w)
      PROVE  Phases'
  BY <1>17, NoneIsNobody DEF Power!wakePing
<1>18. ASSUME NEW w \in {"server", "cron"}, Power!wakeReady(w)
      PROVE  Phases'
  BY <1>18, NoneIsNobody DEF Power!wakeReady
<1>19. ASSUME NEW w \in {"server", "cron"}, Power!testMarker(w)
      PROVE  Phases'
  BY <1>19, NoneIsNobody DEF Power!testMarker, Power!scriptReturns, Power!advance
<1>20. ASSUME NEW w \in {"server", "cron"}, Power!removeSleepLock(w)
      PROVE  Phases'
  BY <1>20, NoneIsNobody DEF Power!removeSleepLock, Power!scriptReturns, Power!advance
<1>21. ASSUME NEW w \in {"server", "cron"}, Power!wakeFails(w)
      PROVE  Phases'
  BY <1>21, NoneIsNobody DEF Power!wakeFails, Power!scriptReturns, Power!advance
<1>22. CASE Power!requestScan
  BY <1>22, NoneIsNobody DEF Power!requestScan
<1>23. CASE Power!enqueueScan
  BY <1>23, NoneIsNobody DEF Power!enqueueScan
<1>24. CASE Power!cancelScan
  BY <1>24, NoneIsNobody DEF Power!cancelScan
<1>25. CASE Power!activateScan
  BY <1>25, NoneIsNobody DEF Power!activateScan
<1>26. CASE Power!startScanScript
  BY <1>26, NoneIsNobody DEF Power!startScanScript, Power!advance
<1>27. CASE Power!manualLocks
  BY <1>27, NoneIsNobody DEF Power!manualLocks
<1>28. CASE Power!manualEnds
  BY <1>28, NoneIsNobody DEF Power!manualEnds
<1>29. CASE Power!finishTarget
  BY <1>29, NoneIsNobody DEF Power!finishTarget
<1>30. ASSUME NEW w \in WakeFlag, Power!cronStarts(w)
      PROVE  Phases'
  BY <1>30, NoneIsNobody DEF Power!cronStarts
<1>31. CASE Power!cronLocks
  BY <1>31, NoneIsNobody DEF Power!cronLocks
<1>32. CASE Power!cronRechecks
  BY <1>32, NoneIsNobody DEF Power!cronRechecks
<1>33. CASE Power!cronEnds
  BY <1>33, NoneIsNobody DEF Power!cronEnds
<1>34. ASSUME NEW n \in Interval, Power!updateInterval(n)
      PROVE  Phases'
  BY <1>34, NoneIsNobody DEF Power!updateInterval
<1>35. CASE Power!notifyInterval
  BY <1>35, NoneIsNobody DEF Power!notifyInterval, Power!advance
<1>36. CASE UNCHANGED Power!vars
  BY <1>36, NoneIsNobody DEF Power!vars
<1>37. QED
  BY <1>1, <1>2, <1>3, <1>4, <1>5, <1>6, <1>7, <1>8, <1>9, <1>10, <1>11, <1>12, <1>13, <1>14,
     <1>15, <1>16, <1>17, <1>18, <1>19, <1>20, <1>21, <1>22, <1>23, <1>24, <1>25, <1>26, <1>27,
     <1>28, <1>29, <1>30, <1>31, <1>32, <1>33, <1>34, <1>35, <1>36 DEF Power!Next,
     Power!TimerStep, Power!SleepStep, Power!WakeStep, Power!ManualStep, Power!CronStep

\* No step lets the timer act on an outdated generation or underneath a manual scan.
LEMMA TimerStepIsCurrent ==
  ASSUME Power!TypeOK, Phases, TimerIsCurrent, [Power!Next]_(Power!vars)
  PROVE  TimerIsCurrent'
<1> USE DEF Power!TypeOK, Power!timerVars, Power!scanVars, Power!powerVars, Phases, TimerIsCurrent
<1>1. CASE Power!armConfig
  BY <1>1, NoneIsNobody DEF Power!armConfig
<1>2. CASE Power!armLock
  BY <1>2, NoneIsNobody DEF Power!armLock
<1>3. CASE Power!armGeneration
  BY <1>3, NoneIsNobody DEF Power!armGeneration
<1>4. CASE Power!receiveChanged
  BY <1>4, NoneIsNobody DEF Power!receiveChanged
<1>5. CASE Power!expire
  BY <1>5, NoneIsNobody DEF Power!expire
<1>6. CASE Power!timerLocks
  BY <1>6, NoneIsNobody DEF Power!timerLocks
<1>7. CASE Power!checkGeneration
  BY <1>7, NoneIsNobody DEF Power!checkGeneration
<1>8. CASE Power!deferForManualScan
  BY <1>8, NoneIsNobody DEF Power!deferForManualScan
<1>9. CASE Power!handleClamAVSleep
  BY <1>9, NoneIsNobody DEF Power!handleClamAVSleep
<1>10. CASE Power!sleepPing
  BY <1>10, NoneIsNobody DEF Power!sleepPing, Power!sleepReturns, Power!advance
<1>11. CASE Power!sleepScanLock
  BY <1>11, NoneIsNobody DEF Power!sleepScanLock, Power!sleepReturns, Power!advance
<1>12. CASE Power!sleepShutdown
  BY <1>12, NoneIsNobody DEF Power!sleepShutdown, Power!sleepReturns, Power!advance
<1>13. CASE Power!sleepMark
  <2>1. PICK ok \in BOOLEAN : Power!sleepReturns(ok)
    BY <1>13 DEF Power!sleepMark
  <2>2. UNCHANGED <<reset, manual>> /\ tpc' \in {tpc, "select", "armConfig"} /\ (moved => moved')
    BY <1>13, <2>1 DEF Power!sleepMark, Power!sleepReturns, Power!advance
  <2>3. QED
    BY <2>2
<1>14. CASE Power!handleClamAVWake
  BY <1>14, NoneIsNobody DEF Power!handleClamAVWake
<1>15. CASE Power!wakeTimesOut
  BY <1>15, NoneIsNobody DEF Power!wakeTimesOut, Power!scriptReturns, Power!advance
<1>16. CASE Power!clamdComesUp
  BY <1>16, NoneIsNobody DEF Power!clamdComesUp
<1>17. ASSUME NEW w \in {"server", "cron"}, Power!wakePing(w)
      PROVE  TimerIsCurrent'
  BY <1>17, NoneIsNobody DEF Power!wakePing
<1>18. ASSUME NEW w \in {"server", "cron"}, Power!wakeReady(w)
      PROVE  TimerIsCurrent'
  BY <1>18, NoneIsNobody DEF Power!wakeReady
<1>19. ASSUME NEW w \in {"server", "cron"}, Power!testMarker(w)
      PROVE  TimerIsCurrent'
  BY <1>19, NoneIsNobody DEF Power!testMarker, Power!scriptReturns, Power!advance
<1>20. ASSUME NEW w \in {"server", "cron"}, Power!removeSleepLock(w)
      PROVE  TimerIsCurrent'
  BY <1>20, NoneIsNobody DEF Power!removeSleepLock, Power!scriptReturns, Power!advance
<1>21. ASSUME NEW w \in {"server", "cron"}, Power!wakeFails(w)
      PROVE  TimerIsCurrent'
  BY <1>21, NoneIsNobody DEF Power!wakeFails, Power!scriptReturns, Power!advance
<1>22. CASE Power!requestScan
  BY <1>22, NoneIsNobody DEF Power!requestScan
<1>23. CASE Power!enqueueScan
  BY <1>23, NoneIsNobody DEF Power!enqueueScan
<1>24. CASE Power!cancelScan
  BY <1>24, NoneIsNobody DEF Power!cancelScan
<1>25. CASE Power!activateScan
  BY <1>25, NoneIsNobody DEF Power!activateScan
<1>26. CASE Power!startScanScript
  BY <1>26, NoneIsNobody DEF Power!startScanScript, Power!advance
<1>27. CASE Power!manualLocks
  BY <1>27, NoneIsNobody DEF Power!manualLocks
<1>28. CASE Power!manualEnds
  BY <1>28, NoneIsNobody DEF Power!manualEnds
<1>29. CASE Power!finishTarget
  BY <1>29, NoneIsNobody DEF Power!finishTarget
<1>30. ASSUME NEW w \in WakeFlag, Power!cronStarts(w)
      PROVE  TimerIsCurrent'
  BY <1>30, NoneIsNobody DEF Power!cronStarts
<1>31. CASE Power!cronLocks
  BY <1>31, NoneIsNobody DEF Power!cronLocks
<1>32. CASE Power!cronRechecks
  BY <1>32, NoneIsNobody DEF Power!cronRechecks
<1>33. CASE Power!cronEnds
  BY <1>33, NoneIsNobody DEF Power!cronEnds
<1>34. ASSUME NEW n \in Interval, Power!updateInterval(n)
      PROVE  TimerIsCurrent'
  BY <1>34, NoneIsNobody DEF Power!updateInterval
<1>35. CASE Power!notifyInterval
  BY <1>35, NoneIsNobody DEF Power!notifyInterval, Power!advance
<1>36. CASE UNCHANGED Power!vars
  BY <1>36, NoneIsNobody DEF Power!vars
<1>37. QED
  BY <1>1, <1>2, <1>3, <1>4, <1>5, <1>6, <1>7, <1>8, <1>9, <1>10, <1>11, <1>12, <1>13, <1>14,
     <1>15, <1>16, <1>17, <1>18, <1>19, <1>20, <1>21, <1>22, <1>23, <1>24, <1>25, <1>26, <1>27,
     <1>28, <1>29, <1>30, <1>31, <1>32, <1>33, <1>34, <1>35, <1>36 DEF Power!Next,
     Power!TimerStep, Power!SleepStep, Power!WakeStep, Power!ManualStep, Power!CronStep

\* A failure is not forgotten.
LEMMA FailureStays ==
  ASSUME Power!TypeOK, [Power!Next]_(Power!vars), failed
  PROVE  failed'
<1> USE DEF Power!TypeOK, Power!powerVars
<1>1. CASE Power!TimerStep
  BY <1>1 DEF Power!TimerStep, Power!armConfig, Power!armLock, Power!armGeneration,
     Power!receiveChanged,
     Power!expire, Power!timerLocks, Power!checkGeneration, Power!deferForManualScan
<1>2. CASE Power!handleClamAVSleep \/ Power!SleepStep
  BY <1>2 DEF Power!handleClamAVSleep, Power!SleepStep, Power!sleepPing, Power!sleepScanLock,
     Power!sleepShutdown, Power!sleepMark
<1>3. CASE Power!handleClamAVWake \/ Power!wakeTimesOut \/ Power!clamdComesUp
  BY <1>3 DEF Power!handleClamAVWake, Power!wakeTimesOut, Power!clamdComesUp
<1>4. ASSUME NEW w \in {"server", "cron"}, Power!WakeStep(w) PROVE failed'
  BY <1>4 DEF Power!WakeStep, Power!wakePing, Power!wakeReady, Power!testMarker,
     Power!removeSleepLock,
     Power!wakeFails
<1>5. CASE Power!ManualStep
  BY <1>5 DEF Power!ManualStep, Power!requestScan, Power!enqueueScan, Power!cancelScan,
     Power!activateScan,
     Power!startScanScript, Power!manualLocks, Power!manualEnds, Power!finishTarget
<1>6. CASE Power!CronStep
  BY <1>6 DEF Power!CronStep, Power!cronStarts, Power!cronLocks, Power!cronRechecks, Power!cronEnds
<1>7. CASE (\E n \in Interval : Power!updateInterval(n)) \/ Power!notifyInterval \/ UNCHANGED Power!vars
  BY <1>7 DEF Power!updateInterval, Power!notifyInterval, Power!vars
<1>8. QED
  BY <1>1, <1>2, <1>3, <1>4, <1>5, <1>6, <1>7 DEF Power!Next

\* Without failures no step separates the marker from the state of clamd for longer
\* than the transition that is under way.
LEMMA TruthfulStep ==
  ASSUME Power!TypeOK, Phases, Truthful, [Power!Next]_(Power!vars), ~failed'
  PROVE  Truthful'
<1> USE DEF Power!TypeOK, Power!timerVars, Power!scanVars, Power!powerVars, Phases, Truthful
<1>1. CASE Power!armConfig
  BY <1>1, NoneIsNobody DEF Power!armConfig
<1>2. CASE Power!armLock
  BY <1>2, NoneIsNobody DEF Power!armLock
<1>3. CASE Power!armGeneration
  BY <1>3, NoneIsNobody DEF Power!armGeneration
<1>4. CASE Power!receiveChanged
  BY <1>4, NoneIsNobody DEF Power!receiveChanged
<1>5. CASE Power!expire
  BY <1>5, NoneIsNobody DEF Power!expire
<1>6. CASE Power!timerLocks
  BY <1>6, NoneIsNobody DEF Power!timerLocks
<1>7. CASE Power!checkGeneration
  BY <1>7, NoneIsNobody DEF Power!checkGeneration
<1>8. CASE Power!deferForManualScan
  BY <1>8, NoneIsNobody DEF Power!deferForManualScan
<1>9. CASE Power!handleClamAVSleep
  BY <1>9, NoneIsNobody DEF Power!handleClamAVSleep
<1>10. CASE Power!sleepPing
  BY <1>10, NoneIsNobody DEF Power!sleepPing, Power!sleepReturns, Power!advance
<1>11. CASE Power!sleepScanLock
  BY <1>11, NoneIsNobody DEF Power!sleepScanLock, Power!sleepReturns, Power!advance
<1>12. CASE Power!sleepShutdown
  BY <1>12, NoneIsNobody DEF Power!sleepShutdown, Power!sleepReturns, Power!advance
<1>13. CASE Power!sleepMark
  BY <1>13, NoneIsNobody DEF Power!sleepMark, Power!sleepReturns, Power!advance
<1>14. CASE Power!handleClamAVWake
  BY <1>14, NoneIsNobody DEF Power!handleClamAVWake
<1>15. CASE Power!wakeTimesOut
  BY <1>15, NoneIsNobody DEF Power!wakeTimesOut, Power!scriptReturns, Power!advance
<1>16. CASE Power!clamdComesUp
  BY <1>16, NoneIsNobody DEF Power!clamdComesUp
<1>17. ASSUME NEW w \in {"server", "cron"}, Power!wakePing(w)
      PROVE  Truthful'
  BY <1>17, NoneIsNobody DEF Power!wakePing
<1>18. ASSUME NEW w \in {"server", "cron"}, Power!wakeReady(w)
      PROVE  Truthful'
  BY <1>18, NoneIsNobody DEF Power!wakeReady
<1>19. ASSUME NEW w \in {"server", "cron"}, Power!testMarker(w)
      PROVE  Truthful'
  BY <1>19, NoneIsNobody DEF Power!testMarker, Power!scriptReturns, Power!advance
<1>20. ASSUME NEW w \in {"server", "cron"}, Power!removeSleepLock(w)
      PROVE  Truthful'
  BY <1>20, NoneIsNobody DEF Power!removeSleepLock, Power!scriptReturns, Power!advance
<1>21. ASSUME NEW w \in {"server", "cron"}, Power!wakeFails(w)
      PROVE  Truthful'
  BY <1>21, NoneIsNobody DEF Power!wakeFails, Power!scriptReturns, Power!advance
<1>22. CASE Power!requestScan
  BY <1>22, NoneIsNobody DEF Power!requestScan
<1>23. CASE Power!enqueueScan
  BY <1>23, NoneIsNobody DEF Power!enqueueScan
<1>24. CASE Power!cancelScan
  BY <1>24, NoneIsNobody DEF Power!cancelScan
<1>25. CASE Power!activateScan
  BY <1>25, NoneIsNobody DEF Power!activateScan
<1>26. CASE Power!startScanScript
  BY <1>26, NoneIsNobody DEF Power!startScanScript, Power!advance
<1>27. CASE Power!manualLocks
  BY <1>27, NoneIsNobody DEF Power!manualLocks
<1>28. CASE Power!manualEnds
  BY <1>28, NoneIsNobody DEF Power!manualEnds
<1>29. CASE Power!finishTarget
  BY <1>29, NoneIsNobody DEF Power!finishTarget
<1>30. ASSUME NEW w \in WakeFlag, Power!cronStarts(w)
      PROVE  Truthful'
  BY <1>30, NoneIsNobody DEF Power!cronStarts
<1>31. CASE Power!cronLocks
  BY <1>31, NoneIsNobody DEF Power!cronLocks
<1>32. CASE Power!cronRechecks
  BY <1>32, NoneIsNobody DEF Power!cronRechecks
<1>33. CASE Power!cronEnds
  BY <1>33, NoneIsNobody DEF Power!cronEnds
<1>34. ASSUME NEW n \in Interval, Power!updateInterval(n)
      PROVE  Truthful'
  BY <1>34, NoneIsNobody DEF Power!updateInterval
<1>35. CASE Power!notifyInterval
  BY <1>35, NoneIsNobody DEF Power!notifyInterval, Power!advance
<1>36. CASE UNCHANGED Power!vars
  BY <1>36, NoneIsNobody DEF Power!vars
<1>37. QED
  BY <1>1, <1>2, <1>3, <1>4, <1>5, <1>6, <1>7, <1>8, <1>9, <1>10, <1>11, <1>12, <1>13, <1>14,
     <1>15, <1>16, <1>17, <1>18, <1>19, <1>20, <1>21, <1>22, <1>23, <1>24, <1>25, <1>26, <1>27,
     <1>28, <1>29, <1>30, <1>31, <1>32, <1>33, <1>34, <1>35, <1>36 DEF Power!Next,
     Power!TimerStep, Power!SleepStep, Power!WakeStep, Power!ManualStep, Power!CronStep

\* clamd is up, without marker, and nothing is under way when the server starts.
LEMMA InitIInv == Power!Init => IInv
  BY IntervalsAreNat, NoneIsNobody
  DEF Power!Init, IInv, Power!TypeOK, Phases, TimerIsCurrent, Truthful

\* No step of the timer, a handler, a script or a scan leaves the invariant.
LEMMA NextIInv == IInv /\ [Power!Next]_(Power!vars) => IInv'
<1> SUFFICES ASSUME IInv, [Power!Next]_(Power!vars) PROVE IInv'
  OBVIOUS
<1>1. Power!TypeOK' /\ Phases' /\ TimerIsCurrent'
  BY TypeStep, PhasesStep, TimerStepIsCurrent DEF IInv
<1>2. ~failed' => Truthful'
  BY FailureStays, TruthfulStep DEF IInv
<1>3. QED
  BY <1>1, <1>2 DEF IInv

\* The inductive invariant holds in every state of every behaviour.
LEMMA AlwaysIInv == Power!Spec => []IInv
  BY InitIInv, NextIInv, PTL DEF Power!Spec

-----------------------------------------------------------------------------
(* The theorems.                                                           *)

\* While no transition is under way the marker sleep.lock tells whether clamd
\* sleeps, until a command fails: the wake of a cron scan, which clamavPowerMu does not
\* cover, is kept from the sleep by the scan lock alone.
THEOREM MarkerIsTrue == Power!Spec => []PowerInv
<1>1. IInv => PowerInv
  BY NoneIsNobody DEF IInv, Power!TypeOK, Phases, Truthful, PowerInv, Power!PowerInv,
     Power!MarkerTellsTruth
<1>2. QED
  BY <1>1, AlwaysIInv, PTL

\* The automatic sleep never stops clamd underneath a manual scan process, nor after
\* an expiry that a wake or the start of a scan has made obsolete, whatever fails.
THEOREM AutoSleepOnlyWhenDue == Power!Spec => AutoSleepIsDue
<1>1. IInv => [Power!Shutdown /\ powerMu = "timer" => manual \notin {"started", "scanning"}]_(Power!vars)
  BY NoneIsNobody DEF IInv, Phases, TimerIsCurrent, Power!Shutdown
<1>2. IInv => [Power!Shutdown /\ powerMu = "timer" => ~reset]_(Power!vars)
  BY NoneIsNobody DEF IInv, Phases, TimerIsCurrent, Power!Shutdown
<1>3. QED
  BY <1>1, <1>2, AlwaysIInv, PTL DEF AutoSleepIsDue, Power!AutoSleepIsDue,
     Power!AutoSleepSparesManual, Power!ExpiryIsFresh

=============================================================================
