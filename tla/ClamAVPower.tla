----------------------------- MODULE ClamAVPower -----------------------------
(***************************************************************************)
(* Putting clamd to sleep and waking it (server/sleep_wake.go), against    *)
(* the manual scans of the server and the cron scans of scan_once.sh.      *)
(*                                                                         *)
(* The server serialises its own transitions with clamavPowerMu.  Cron     *)
(* scans are other processes: they coordinate only through the directories *)
(* scan.lock and sleep.lock, and wake clamd with startup.sh --wake, which  *)
(* the mutex does not cover.  The automatic sleep is run by one goroutine  *)
(* that owns the timer; everybody else advances a generation counter and   *)
(* puts a token into a channel of capacity one.                            *)
(***************************************************************************)
EXTENDS Naturals

CONSTANTS
    Interval,   \* values of clamav_sleep_timer, 0 (disabled) among them
    WakeFlag,   \* the --wake flags of the cron rules, a subset of BOOLEAN
    Failures,   \* whether commands may fail and the wake may time out
    None

\* What the constants are, for every instance.
PowerAssumption ==
    /\ Interval \subseteq Nat /\ 0 \in Interval
    /\ WakeFlag \subseteq BOOLEAN /\ Failures \in BOOLEAN
    /\ None \notin {"manual", "cron", "sleep", "wake", "timer"}

VARIABLES
    clamd,          \* "up", "booting" or "down"
    sleepLock,      \* whether sleep.lock exists
    scanLock,       \* which scan owns scan.lock (ScanLock models how)
    powerMu,        \* the holder of clamavPowerMu
    slp,            \* where the holder is in sleepClamAV
    wake,           \* where startup.sh --wake is, for the server and for cron
    interval,       \* appConfig: clamav_sleep_timer
    cfgPending,     \* an update of interval has not notified yet
    changed,        \* the token in the channel
    moved,          \* generation # armedGeneration
    armed,          \* the timer runs
    armedInterval,
    tpc,            \* where the timer goroutine is
    batch,          \* the manual queue: "none", "checked" (request accepted,
                    \* not yet queued), "queued" or "active"
    manual,         \* the manual scan process: "none", "started", "scanning", "ended"
    cron,           \* the cron scan process
    cronWake,       \* its --wake flag
    reset,          \* history: since the timer was armed, a wake by the server
                    \* succeeded or a manual scan process was started
    failed          \* history: a command of a sleep or a wake has failed or timed out

timerVars == <<interval, cfgPending, changed, moved, armed, armedInterval, tpc, reset>>
scanVars == <<batch, manual, cron, cronWake, scanLock>>
powerVars == <<clamd, sleepLock, powerMu, slp, wake, failed>>
vars == <<clamd, sleepLock, scanLock, powerMu, slp, wake, interval, cfgPending,
          changed, moved, armed, armedInterval, tpc, batch, manual, cron, cronWake, reset, failed>>

\* startup.sh has started clamd and removed the marker before the server runs.
Init ==
    /\ clamd = "up" /\ sleepLock = FALSE /\ scanLock = None
    /\ powerMu = None /\ slp = "none"
    /\ wake = [w \in {"server", "cron"} |-> "idle"]
    /\ interval \in Interval /\ cfgPending = FALSE
    /\ changed = FALSE /\ moved = FALSE /\ armed = FALSE /\ armedInterval = 0
    /\ tpc = "armConfig"
    /\ batch = "none" /\ manual = "none"
    /\ cron = "idle" /\ cronWake = FALSE
    /\ reset = FALSE /\ failed = FALSE

-----------------------------------------------------------------------------
(* The timer goroutine.                                                    *)

\* Mutation: the counter moves, but no token is sent.
AdvanceWithoutToken == moved' = TRUE /\ UNCHANGED changed

\* advance: a full channel keeps its token.
advance == moved' = TRUE /\ changed' = TRUE

\* arm, read by read: the interval (armedInterval stands for the local variable
\* interval until the timer is armed) ...
armConfig ==
    /\ tpc = "armConfig"
    /\ armed' = FALSE
    /\ IF interval = 0
       THEN tpc' = "select" /\ UNCHANGED armedInterval
       ELSE tpc' = "armLock" /\ armedInterval' = interval
    /\ UNCHANGED <<interval, cfgPending, changed, moved, reset, powerVars, scanVars>>

\* ... the marker (no timer while clamd sleeps) ...
armLock ==
    /\ tpc = "armLock"
    /\ tpc' = IF sleepLock THEN "select" ELSE "armGeneration"
    /\ UNCHANGED <<interval, cfgPending, changed, moved, armed, armedInterval, reset,
                   powerVars, scanVars>>

\* ... and the generation.
armGeneration ==
    /\ tpc = "armGeneration"
    /\ moved' = FALSE
    /\ armed' = TRUE
    /\ reset' = FALSE
    /\ tpc' = "select"
    /\ UNCHANGED <<interval, cfgPending, changed, armedInterval, powerVars, scanVars>>

receiveChanged ==
    /\ tpc = "select"
    /\ changed
    /\ changed' = FALSE
    /\ tpc' = "armConfig"
    /\ UNCHANGED <<interval, cfgPending, moved, armed, armedInterval, reset, powerVars, scanVars>>

expire ==
    /\ tpc = "select"
    /\ armed
    /\ armed' = FALSE
    /\ tpc' = "fired"
    /\ UNCHANGED <<interval, cfgPending, changed, moved, armedInterval, reset, powerVars, scanVars>>

timerLocks ==
    /\ tpc = "fired"
    /\ powerMu = None
    /\ powerMu' = "timer"
    /\ tpc' = "check"
    /\ UNCHANGED <<interval, cfgPending, changed, moved, armed, armedInterval, reset,
                   clamd, sleepLock, slp, wake, failed, scanVars>>

\* Mutation: the generation is not compared.
IgnoreGeneration ==
    /\ tpc = "check"
    /\ IF interval = 0 \/ interval # armedInterval
       THEN powerMu' = None /\ tpc' = "armConfig"
       ELSE UNCHANGED powerMu /\ tpc' = "pending"
    /\ UNCHANGED <<interval, cfgPending, changed, moved, armed, armedInterval, reset,
                   clamd, sleepLock, slp, wake, failed, scanVars>>

checkGeneration ==
    /\ tpc = "check"
    /\ IF moved \/ interval = 0 \/ interval # armedInterval
       THEN powerMu' = None /\ tpc' = "armConfig"
       ELSE UNCHANGED powerMu /\ tpc' = "pending"
    /\ UNCHANGED <<interval, cfgPending, changed, moved, armed, armedInterval, reset,
                   clamd, sleepLock, slp, wake, failed, scanVars>>

\* manualScanPendingOrActive.
deferForManualScan ==
    /\ tpc = "pending"
    /\ IF batch \in {"queued", "active"}
       THEN powerMu' = None /\ tpc' = "armConfig" /\ UNCHANGED slp
       ELSE slp' = "ping" /\ tpc' = "sleeping" /\ UNCHANGED powerMu
    /\ UNCHANGED <<interval, cfgPending, changed, moved, armed, armedInterval, reset,
                   clamd, sleepLock, wake, failed, scanVars>>

-----------------------------------------------------------------------------
(* sleepClamAV, run by the handler or by the timer goroutine.              *)

handleClamAVSleep ==
    /\ powerMu = None
    /\ powerMu' = "sleep"
    /\ slp' = "ping"
    /\ UNCHANGED <<clamd, sleepLock, wake, failed, timerVars, scanVars>>

\* The caller's part after sleepClamAV: a failed automatic sleep re-arms the
\* timer, a successful one leaves it stopped; the handler notifies on success.
sleepReturns(ok) ==
    /\ slp' = "none"
    /\ powerMu' = None
    /\ \/ /\ powerMu = "timer"
          /\ tpc' = IF ok THEN "select" ELSE "armConfig"
          /\ UNCHANGED <<moved, changed>>
       \/ /\ powerMu = "sleep"
          /\ IF ok THEN advance ELSE UNCHANGED <<moved, changed>>
          /\ UNCHANGED tpc
    /\ UNCHANGED <<interval, cfgPending, armed, armedInterval, reset>>

\* The marker and a ping: already asleep, or go on.
sleepPing ==
    /\ slp = "ping"
    /\ IF sleepLock /\ clamd # "up"
       THEN sleepReturns(TRUE)
       ELSE slp' = "lock" /\ UNCHANGED <<powerMu, timerVars>>
    /\ UNCHANGED <<clamd, sleepLock, wake, failed, scanVars>>

\* Mutation: the scan lock is not looked at.
IgnoreScanLock ==
    /\ slp = "lock"
    /\ slp' = "shutdown"
    /\ UNCHANGED <<powerMu, timerVars, clamd, sleepLock, wake, failed, scanVars>>

\* scanLockActive.
sleepScanLock ==
    /\ slp = "lock"
    /\ IF scanLock # None
       THEN sleepReturns(FALSE)
       ELSE slp' = "shutdown" /\ UNCHANGED <<powerMu, timerVars>>
    /\ UNCHANGED <<clamd, sleepLock, wake, failed, scanVars>>

\* sendClamdShutdown; without a listening clamd the connection fails.
sleepShutdown ==
    /\ slp = "shutdown"
    /\ \/ /\ clamd = "up"
          /\ clamd' = "down"
          /\ slp' = "mkdir"
          /\ UNCHANGED <<powerMu, failed, timerVars>>
       \/ /\ clamd # "up" \/ Failures
          /\ sleepReturns(FALSE)
          /\ failed' = (failed \/ clamd = "up")
          /\ UNCHANGED clamd
    /\ UNCHANGED <<sleepLock, wake, scanVars>>

\* createDirectoryLock and writeClamdSleepStatus.
sleepMark ==
    /\ slp = "mkdir"
    /\ \/ sleepLock' = TRUE /\ sleepReturns(TRUE) /\ UNCHANGED failed
       \/ /\ Failures /\ failed' = TRUE
          /\ sleepLock' \in {sleepLock, TRUE} /\ sleepReturns(FALSE)
    /\ UNCHANGED <<clamd, wake, scanVars>>

-----------------------------------------------------------------------------
(* startup.sh --wake, run by the server (under the mutex) and by a cron    *)
(* scan (under the scan lock).                                             *)

handleClamAVWake ==
    /\ powerMu = None
    /\ powerMu' = "wake"
    /\ wake' = [wake EXCEPT !["server"] = "ping"]
    /\ UNCHANGED <<clamd, sleepLock, slp, failed, timerVars, scanVars>>

\* A clamd that answers only needs the marker removed.
wakePing(w) ==
    /\ wake[w] = "ping"
    /\ IF clamd = "up"
       THEN wake' = [wake EXCEPT ![w] = "marker"] /\ UNCHANGED clamd
       ELSE wake' = [wake EXCEPT ![w] = "boot"] /\ clamd' = "booting"
    /\ UNCHANGED <<sleepLock, powerMu, slp, failed, timerVars, scanVars>>

\* wait_for_clamd.
wakeReady(w) ==
    /\ wake[w] = "boot"
    /\ clamd = "up"
    /\ wake' = [wake EXCEPT ![w] = "marker"]
    /\ UNCHANGED <<clamd, sleepLock, powerMu, slp, failed, timerVars, scanVars>>

\* What the caller does when the script has ended: the handler notifies after
\* a success; the cron scan goes on, or fails and releases the lock.
scriptReturns(w, ok) ==
    /\ wake' = [wake EXCEPT ![w] = "idle"]
    /\ \/ /\ w = "server"
          /\ powerMu' = None
          /\ IF ok THEN advance /\ reset' = TRUE ELSE UNCHANGED <<moved, changed, reset>>
          /\ UNCHANGED <<interval, cfgPending, armed, armedInterval, tpc, scanVars>>
       \/ /\ w = "cron"
          /\ cron' = IF ok THEN "scanning" ELSE "idle"
          /\ scanLock' = IF ok THEN scanLock ELSE None
          /\ UNCHANGED <<powerMu, timerVars, batch, manual, cronWake>>

\* remove_sleep_lock, the last part of the script: a marker that is not there
\* is fine ...
testMarker(w) ==
    /\ wake[w] = "marker"
    /\ IF sleepLock
       THEN wake' = [wake EXCEPT ![w] = "rmdir"] /\ UNCHANGED <<powerMu, timerVars, scanVars>>
       ELSE scriptReturns(w, TRUE)
    /\ UNCHANGED <<clamd, sleepLock, slp, failed>>

\* ... but one that another wake removes between the test and rmdir is an error.
removeSleepLock(w) ==
    /\ wake[w] = "rmdir"
    /\ sleepLock' = FALSE
    /\ scriptReturns(w, sleepLock)
    /\ UNCHANGED <<clamd, slp, failed>>

\* The boot fails, and the script terminates the /init it started: the clamd
\* that listens, or boots, may be that of another one.
wakeFails(w) ==
    /\ Failures /\ failed' = TRUE
    /\ wake[w] = "boot"
    /\ clamd' \in {clamd, "down"}
    /\ scriptReturns(w, FALSE)
    /\ UNCHANGED <<sleepLock, slp>>

\* WakeTimeout: the script is killed; the init it started lives on.
wakeTimesOut ==
    /\ Failures /\ failed' = TRUE
    /\ wake["server"] # "idle"
    /\ scriptReturns("server", FALSE)
    /\ UNCHANGED <<clamd, sleepLock, slp>>

\* clamd has loaded its database.
clamdComesUp ==
    /\ clamd = "booting"
    /\ clamd' = "up"
    /\ UNCHANGED <<sleepLock, powerMu, slp, wake, failed, timerVars, scanVars>>

-----------------------------------------------------------------------------
(* Manual scans: the queue (ScanQueue), reduced to one batch, and the      *)
(* process it starts for each target.                                      *)

\* startScan tests the marker ...
requestScan ==
    /\ batch = "none" /\ ~sleepLock
    /\ batch' = "checked"
    /\ UNCHANGED <<manual, cron, cronWake, scanLock, powerVars, timerVars>>

\* ... long before the batch is queued.
enqueueScan ==
    /\ batch = "checked"
    /\ batch' = "queued"
    /\ UNCHANGED <<manual, cron, cronWake, scanLock, powerVars, timerVars>>

cancelScan ==
    /\ batch = "queued"
    /\ batch' = "none"
    /\ UNCHANGED <<manual, cron, cronWake, scanLock, powerVars, timerVars>>

activateScan ==
    /\ batch = "queued" /\ scanLock = None
    /\ batch' = "active"
    /\ UNCHANGED <<manual, cron, cronWake, scanLock, powerVars, timerVars>>

\* startScanScript: the process is started and the timer notified under the
\* mutex.
startScanScript ==
    /\ batch = "active" /\ manual = "none"
    /\ powerMu = None
    /\ manual' = "started"
    /\ advance
    /\ reset' = TRUE
    /\ UNCHANGED <<batch, cron, cronWake, scanLock, powerVars,
                   interval, cfgPending, armed, armedInterval, tpc>>

\* acquire_scan_lock without --wait.
manualLocks ==
    /\ manual = "started"
    /\ IF scanLock = None
       THEN scanLock' = "manual" /\ manual' = "scanning"
       ELSE manual' = "ended" /\ UNCHANGED scanLock
    /\ UNCHANGED <<batch, cron, cronWake, powerVars, timerVars>>

manualEnds ==
    /\ manual = "scanning"
    /\ manual' = "ended"
    /\ scanLock' = None
    /\ UNCHANGED <<batch, cron, cronWake, powerVars, timerVars>>

\* The batch has another target, or ends.
finishTarget ==
    /\ manual = "ended"
    /\ manual' = "none"
    /\ batch' \in {"none", "active"}
    /\ UNCHANGED <<cron, cronWake, scanLock, powerVars, timerVars>>

-----------------------------------------------------------------------------
(* Cron scans.                                                             *)

\* scan_once.sh --type cron up to the lock; without --wake a sleeping clamd
\* ends it at once.
cronStarts(w) ==
    /\ cron = "idle"
    /\ w \/ ~sleepLock
    /\ cron' = "started"
    /\ cronWake' = w
    /\ UNCHANGED <<batch, manual, scanLock, powerVars, timerVars>>

cronLocks ==
    /\ cron = "started" /\ scanLock = None
    /\ scanLock' = "cron"
    /\ cron' = "locked"
    /\ UNCHANGED <<batch, manual, cronWake, powerVars, timerVars>>

\* The second test of the marker, under the scan lock.
cronRechecks ==
    /\ cron = "locked"
    /\ \/ /\ ~sleepLock
          /\ cron' = "scanning"
          /\ UNCHANGED <<scanLock, wake>>
       \/ /\ sleepLock /\ cronWake
          /\ cron' = "waking"
          /\ wake' = [wake EXCEPT !["cron"] = "ping"]
          /\ UNCHANGED scanLock
       \/ /\ sleepLock /\ ~cronWake
          /\ cron' = "idle"
          /\ scanLock' = None
          /\ UNCHANGED wake
    /\ UNCHANGED <<batch, manual, cronWake, clamd, sleepLock, powerMu, slp, failed, timerVars>>

cronEnds ==
    /\ cron = "scanning"
    /\ cron' = "idle"
    /\ scanLock' = None
    /\ UNCHANGED <<batch, manual, cronWake, powerVars, timerVars>>

-----------------------------------------------------------------------------
(* PATCH of the configuration: update, then notify, outside the mutex.     *)

updateInterval(n) ==
    /\ ~cfgPending /\ n # interval
    /\ interval' = n
    /\ cfgPending' = TRUE
    /\ UNCHANGED <<changed, moved, armed, armedInterval, tpc, reset, powerVars, scanVars>>

notifyInterval ==
    /\ cfgPending
    /\ cfgPending' = FALSE
    /\ advance
    /\ UNCHANGED <<interval, armed, armedInterval, tpc, reset, powerVars, scanVars>>

TimerStep ==
    \/ armConfig \/ armLock \/ armGeneration \/ receiveChanged \/ expire
    \/ timerLocks \/ checkGeneration \/ deferForManualScan

SleepStep == sleepPing \/ sleepScanLock \/ sleepShutdown \/ sleepMark

WakeStep(w) ==
    \/ wakePing(w) \/ wakeReady(w) \/ testMarker(w) \/ removeSleepLock(w)
    \/ wakeFails(w)

ManualStep ==
    \/ requestScan \/ enqueueScan \/ cancelScan \/ activateScan
    \/ startScanScript \/ manualLocks \/ manualEnds \/ finishTarget

CronStep ==
    \/ \E w \in WakeFlag : cronStarts(w)
    \/ cronLocks \/ cronRechecks \/ cronEnds

Next ==
    \/ TimerStep
    \/ handleClamAVSleep \/ SleepStep
    \/ handleClamAVWake \/ wakeTimesOut \/ clamdComesUp
    \/ \E w \in {"server", "cron"} : WakeStep(w)
    \/ ManualStep \/ CronStep
    \/ \E n \in Interval : updateInterval(n)
    \/ notifyInterval

Spec == Init /\ [][Next]_vars

\* Goroutines and the script are scheduled, the timer expires and clamd boots.
Fairness ==
    /\ WF_vars(TimerStep) /\ WF_vars(SleepStep) /\ WF_vars(notifyInterval)
    /\ WF_vars(clamdComesUp)
    /\ \A w \in {"server", "cron"} : WF_vars(WakeStep(w))

-----------------------------------------------------------------------------
(* Properties.                                                             *)

\* Every variable holds a value of its type.
TypeOK ==
    /\ clamd \in {"up", "booting", "down"}
    /\ sleepLock \in BOOLEAN
    /\ scanLock \in {None, "manual", "cron"}
    /\ powerMu \in {None, "sleep", "wake", "timer"}
    /\ slp \in {"none", "ping", "lock", "shutdown", "mkdir"}
    /\ wake \in [{"server", "cron"} -> {"idle", "ping", "boot", "marker", "rmdir"}]
    /\ interval \in Interval /\ armedInterval \in Interval
    /\ cfgPending \in BOOLEAN /\ changed \in BOOLEAN
    /\ moved \in BOOLEAN /\ armed \in BOOLEAN /\ reset \in BOOLEAN
    /\ tpc \in {"armConfig", "armLock", "armGeneration", "select",
                "fired", "check", "pending", "sleeping"}
    /\ batch \in {"none", "checked", "queued", "active"}
    /\ manual \in {"none", "started", "scanning", "ended"}
    /\ cron \in {"idle", "started", "locked", "waking", "scanning"}
    /\ cronWake \in BOOLEAN /\ failed \in BOOLEAN

Shutdown == clamd = "up" /\ clamd' = "down" /\ slp = "shutdown"

\* The automatic sleep never stops clamd underneath a manual scan process the
\* server has started, however the start and the expiry interleave.
AutoSleepSparesManual ==
    [][Shutdown /\ powerMu = "timer" => manual \notin {"started", "scanning"}]_vars

\* An expiry that was armed before the server last woke clamd or started a
\* manual scan never puts clamd to sleep.
ExpiryIsFresh ==
    [][Shutdown /\ powerMu = "timer" => ~reset]_vars

\* "Never stop clamd while scan_once.sh owns the cross-process scan lock"
\* (server/sleep_wake.go), which the check before the shutdown does not ensure.
ShutdownSparesScans ==
    [][Shutdown => scanLock = None]_vars

\* While no transition is under way, the marker tells whether clamd sleeps: the
\* wake of a cron scan, which the mutex does not cover, cannot leave a sleeping
\* clamd without marker or the reverse.
MarkerTellsTruth ==
    powerMu = None /\ wake["cron"] = "idle" => (sleepLock <=> clamd # "up")

\* The timer, clamd, the marker and the scans have their types; and while no
\* transition is under way and no command has failed, the marker tells whether
\* clamd sleeps, although the wake of a cron scan is not covered by clamavPowerMu.
PowerInv == TypeOK /\ (~failed => MarkerTellsTruth)

\* The automatic sleep stops clamd only when it is due: never underneath a manual
\* scan process the server has started, and never because of an expiry that was
\* armed before the server last woke clamd or started a manual scan
\* (runClamAVSleepTimerWithAction).
AutoSleepIsDue == AutoSleepSparesManual /\ ExpiryIsFresh

Quiet ==
    /\ interval # 0 /\ ~cfgPending
    /\ batch = "none" /\ cron = "idle" /\ powerMu # "wake"

\* No notification is lost: unless a command fails, once the timer is enabled and
\* nobody scans, wakes or changes the configuration any more, clamd is put to sleep.
AutoSleepComes == []~failed /\ <>[]Quiet => <>[](sleepLock /\ clamd = "down")
=============================================================================
