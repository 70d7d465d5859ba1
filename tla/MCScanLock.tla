------------------------------ MODULE MCScanLock ------------------------------
(***************************************************************************)
(* A manual run and a cron run of scan_once.sh.                            *)
(***************************************************************************)
EXTENDS ScanLock

CONSTANTS m1, c1

MCKind == [p \in Proc |-> IF p = m1 THEN "manual" ELSE "cron"]

\* Every run starts in a second of its own, named after it.
DifferentSeconds == [p \in Proc |-> p]
=============================================================================
