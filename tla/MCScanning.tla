----------------------------- MODULE MCScanning -----------------------------
(***************************************************************************)
(* The runs of scan_once.sh and the power of clamd on small instances: in  *)
(* each behaviour one of them (part) takes steps, and the variables of the *)
(* other do not change.                                                    *)
(***************************************************************************)
EXTENDS ScansAndPower, TLC

CONSTANTS m1, c1, c2

VARIABLE part

powerVars == <<clamd, sleepLock, scanLock, powerMu, slp, wake, interval, cfgPending, changed, moved,
    armed, armedInterval, tpc, batch, manual, cron, cronWake, reset, failed>>

\* A manual run, and cron runs that start in the same second.
KindOf == [p \in Proc |-> IF p = m1 THEN "manual" ELSE "cron"]
SecondOf == [p \in Proc |-> 0]

\* Cron runs are interchangeable.
Symmetry == Permutations({c1, c2})

-----------------------------------------------------------------------------
\* A crash and a misjudged lock are looked at apart: after both, nothing is claimed.
Apart == kills' = 0 \/ ~misjudged'

\* Where the runs are not what is looked at they have yet to begin.
NoRuns == Init /\ pc = [p \in Proc |-> "new"]

ScanningInit ==
    \/ part = "runs" /\ Init /\ Power!Init /\ interval = 0
    \/ part = "power" /\ NoRuns /\ Power!Init

ScanningNext ==
    \/ part = "runs" /\ Next /\ Apart /\ UNCHANGED <<part, powerVars>>
    \/ part = "power" /\ Power!Next /\ UNCHANGED <<part, vars>>

ScanningSpec == ScanningInit /\ [][ScanningNext]_<<part, vars, powerVars>>
=============================================================================
