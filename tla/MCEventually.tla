---------------------------- MODULE MCEventually ----------------------------
(***************************************************************************)
(* What must eventually happen, in small instances without symmetry: the   *)
(* sleep of clamd, the end of the lookups, the shutdown of the container,  *)
(* and, in spite of crashes and failures, the end of the runs of           *)
(* scan_once.sh and of the deletion of accounts.  The components share no  *)
(* state here: in each behaviour one of them (part) runs, under the        *)
(* fairness of its module, and the others rest in a state in which nothing *)
(* of theirs is left to do.                                                *)
(***************************************************************************)
EXTENDS ClamAVPower

CONSTANTS i1, i2, u1, u2, n1, n2, r1, r2, m1, c1, p0, p1, Empty

VARIABLES
    part,
    now, rec, worker, pending, stopped, life,
    file, up, used, termed, daemon, marker, main, initPid, script, wakePid, owner, lost,
    lockDir, lockPid, lockJob, jobs, pc, jobId, held, fd, scanUp, stalePid, staleJob, kills,
    misjudged,
    users, firstRun, regMu, delMu, h, assets, overlap, fails, patched

lookupVars == <<now, rec, worker, pending, stopped, life>>

containerVars == <<file, up, used, termed, daemon, marker, main, initPid, script, wakePid, owner,
    lost>>

runVars == <<lockDir, lockPid, lockJob, jobs, pc, jobId, held, fd, scanUp, stalePid, staleJob, kills,
    misjudged>>

accountVars == <<users, firstRun, regMu, delMu, h, assets, overlap, fails, patched>>

\* Two users with one lookup at a time each.
Lookup == INSTANCE Lookups WITH Id <- {i1, i2}, User <- {u1, u2}, MaxPending <- 1,
    MaxRetained <- 2, Timeout <- 1, Interval <- 1, Retention <- 2, MaxTime <- 1

\* One wake; cron and the web service may exit.
Container == INSTANCE Supervision WITH Pid <- {p0, p1}, First <- p0, Faults <- {"childExits"},
    clamd <- daemon, sleepLock <- marker, wake <- script

\* A manual and a cron run, one of which may be killed.
KindOf == [p \in {m1, c1} |-> IF p = m1 THEN "manual" ELSE "cron"]
SecondOf == [p \in {m1, c1} |-> p]
Runs == INSTANCE ScanLock WITH Proc <- {m1, c1}, kind <- KindOf, second <- SecondOf,
    WaitLimit <- FALSE, MaxKills <- 1

\* Deletions whose steps fail twice.
Deletion == INSTANCE Accounts WITH Id <- {u1, u2}, Name <- {n1, n2}, Req <- {r1, r2},
    Ops <- {"delete"}, RoleAsks <- {"keep"}, StatusAsks <- {"keep"}, NewAssets <- {}, MaxFail <- 2

-----------------------------------------------------------------------------
(* The states in which the components rest: the timer is off, no lookup    *)
(* exists, the container has stopped, the runs have ended, there is no     *)
(* account.                                                                *)

TimerOff ==
    /\ clamd = "up" /\ sleepLock = FALSE /\ scanLock = None /\ powerMu = None /\ slp = "none"
    /\ wake = [w \in {"server", "cron"} |-> "idle"]
    /\ interval = 0 /\ cfgPending = FALSE /\ changed = FALSE /\ moved = FALSE
    /\ armed = FALSE /\ armedInterval = 0 /\ tpc = "select"
    /\ batch = "none" /\ manual = "none" /\ cron = "idle" /\ cronWake = FALSE /\ reset = FALSE
    /\ failed = FALSE

Stopped ==
    /\ file = None /\ up = {} /\ used = {} /\ termed = {} /\ daemon = "down" /\ marker = FALSE
    /\ main = "ended" /\ initPid = None /\ owner = None /\ lost = FALSE
    /\ script = [w \in Container!Child |-> "idle"] /\ wakePid = [w \in Container!Child |-> None]

RunsEnded ==
    LET each(x) == [p \in {m1, c1} |-> x]
    IN  /\ lockDir = FALSE /\ lockPid = None /\ lockJob = None /\ jobs = <<>>
        /\ pc = each("done") /\ jobId = each(None) /\ held = each(FALSE) /\ fd = each(FALSE)
        /\ scanUp = each(FALSE) /\ stalePid = each(None) /\ staleJob = each(None)
        /\ kills = 0 /\ misjudged = FALSE

NoAccounts == Deletion!Init /\ ~firstRun

EventuallyInit ==
    /\ Lookup!Init
    /\ \/ part = "power" /\ Init /\ Stopped /\ RunsEnded /\ NoAccounts
       \/ part = "lookups" /\ TimerOff /\ Stopped /\ RunsEnded /\ NoAccounts
       \/ part = "container" /\ TimerOff /\ Container!Init /\ RunsEnded /\ NoAccounts
       \/ part = "runs" /\ TimerOff /\ Stopped /\ Runs!Init /\ NoAccounts
       \/ part = "deletion" /\ TimerOff /\ Stopped /\ RunsEnded /\ Deletion!Init

EventuallyNext ==
    \/ /\ part = "power" /\ Next
       /\ UNCHANGED <<part, lookupVars, containerVars, runVars, accountVars>>
    \/ /\ part = "lookups" /\ Lookup!Next
       /\ UNCHANGED <<part, vars, containerVars, runVars, accountVars>>
    \/ /\ part = "container" /\ Container!Next
       /\ UNCHANGED <<part, vars, lookupVars, runVars, accountVars>>
    \/ /\ part = "runs" /\ Runs!Next
       /\ UNCHANGED <<part, vars, lookupVars, containerVars, accountVars>>
    \/ /\ part = "deletion" /\ Deletion!Next
       /\ UNCHANGED <<part, vars, lookupVars, containerVars, runVars>>

EventuallySpec ==
    /\ EventuallyInit
    /\ [][EventuallyNext]_<<part, vars, lookupVars, containerVars, runVars, accountVars>>
    /\ Fairness /\ Lookup!Fairness /\ Container!Fairness /\ Runs!Fairness /\ Deletion!Fairness

-----------------------------------------------------------------------------
(* Properties.                                                             *)

\* The removal of a user's lookups returns although it waits for the workers with
\* lookupLifecycleMu held, and after stopAndWait every worker ends.
LookupsEnd == Lookup!RemovalEnds /\ Lookup!WorkersEnd

\* Once cron or the web service has exited, or the container is told to stop,
\* process 1 ends, even when a process does not react to TERM.
StopCompletes == Container!StopCompletes

\* Every run ends: a lock left by a killed run never blocks the others for ever,
\* and no two runs wait for each other.
EveryRunEnds == Runs!EveryRunEnds

\* A deletion that stopped half-way is finished when it is asked for again
\* (api.md:313), also when two administrators ask at once.
DeletionCompletes == Deletion!DeletionCompletes
=============================================================================
