---------------------------- MODULE ScansAndPower ----------------------------
(***************************************************************************)
(* The runs of scan_once.sh (ScanLock) and the power of clamd              *)
(* (ClamAVPower).  Each module says of the other only what it needs, who   *)
(* holds scan.lock here and that a scan may begin there, so they share no  *)
(* state.                                                                  *)
(***************************************************************************)
EXTENDS ScanLock

CONSTANTS Interval, WakeFlag, Failures

VARIABLES
    clamd, sleepLock, scanLock, powerMu, slp, wake, interval, cfgPending, changed, moved, armed,
    armedInterval, tpc, batch, manual, cron, cronWake, reset, failed

Power == INSTANCE ClamAVPower

ASSUME PowerConstants == Power!PowerAssumption

-----------------------------------------------------------------------------
(* Properties; those of the runs are the ones of ScanLock.                 *)

\* The timer, clamd, the marker and the scans have their types; and while no
\* transition is under way and no command has failed, the marker tells whether
\* clamd sleeps (sleepClamAV, startup.sh --wake).
PowerInv == Power!PowerInv

\* The automatic sleep stops clamd only when it is due, also when commands fail
\* and wakes time out (runClamAVSleepTimerWithAction).
AutoSleepIsDue == Power!AutoSleepIsDue
=============================================================================
