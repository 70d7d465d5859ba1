----------------------------- MODULE Supervision -----------------------------
(***************************************************************************)
(* startup.sh as process 1 of the container: the loop that watches cron,   *)
(* the web service and the official ClamAV /init, and the hand-over of     *)
(* /init to it by startup.sh --wake.                                       *)
(*                                                                         *)
(* A wake starts an /init of its own and publishes the pid in a file.  The *)
(* loop reads the file to know whom to stop, and removes it when the /init *)
(* it names has exited.  Reading and removing are two steps, and no lock   *)
(* covers the file.  Two wakes can overlap: the one of the web service,    *)
(* which clamavPowerMu serialises with the service's own sleep, and the    *)
(* one of a cron scan.                                                     *)
(*                                                                         *)
(* ClamAVPower models when clamd is put to sleep and woken; here it is     *)
(* only up or down.                                                        *)
(***************************************************************************)
EXTENDS Naturals, FiniteSets

CONSTANTS
    Pid,        \* the pids of the /init processes, each used once
    First,      \* the one started by the loop's own startup.sh
    Faults,     \* a subset of {"initExits", "bootFails", "childExits"}
    None

Child == {"cron", "server"}     \* CRON_PID and SCANNER_PID; also who wakes

\* What the constants are, for every instance.
SupervisionAssumption ==
    /\ First \in Pid /\ None \notin Pid /\ Pid \cap Child = {}
    /\ Faults \subseteq {"initExits", "bootFails", "childExits"}

VARIABLES
    file,       \* clamav-init.pid: a pid or None; mv replaces it in one step
    up,         \* the processes that live
    used,       \* the pids given out
    termed,     \* the /init processes that have been sent TERM
    clamd,      \* "up" or "down"
    sleepLock,  \* whether sleep.lock exists
    main,       \* where process 1 is
    initPid,    \* its INIT_PID
    wake,       \* where each startup.sh --wake is
    wakePid,    \* its INIT_PID
    owner,      \* history: the /init published last and not given up since
    lost        \* history: an /init exited by itself, or a wake gave its own up

vars == <<file, up, used, termed, clamd, sleepLock, main, initPid, wake, wakePid, owner, lost>>
wakeVars == <<wake, wakePid, owner, used, lost>>
envVars == <<clamd, sleepLock>>

Loop == {"refresh", "check", "clear", "remove", "children", "sleep"}
Stopping == {"term", "grace", "wait"}

\* The loop is entered: start_clamav has published its /init and cron and the
\* web service have been started.
Init ==
    /\ file = First /\ up = {First} \cup Child /\ used = {First} /\ termed = {}
    /\ clamd = "up" /\ sleepLock = FALSE
    /\ main = "refresh" /\ initPid = First
    /\ wake = [w \in Child |-> "idle"] /\ wakePid = [w \in Child |-> None]
    /\ owner = First /\ lost = FALSE

-----------------------------------------------------------------------------
(* The loop of process 1.                                                  *)

\* refresh_init_pid: no file, or one that goes away before cat, changes nothing.
refresh_init_pid ==
    /\ main = "refresh" /\ main' = "check"
    /\ initPid' = IF file = None THEN initPid ELSE file
    /\ UNCHANGED <<file, up, termed, envVars, wakeVars>>

\* Mutation: an /init whose clamd does not answer counts as exited.
CheckByPing ==
    /\ main = "check"
    /\ main' = IF initPid # None /\ clamd = "down" THEN "clear" ELSE "children"
    /\ UNCHANGED <<file, up, termed, initPid, envVars, wakeVars>>

\* kill -0 "$INIT_PID"; the wait for a process that has exited returns at once.
checkInit ==
    /\ main = "check"
    /\ main' = IF initPid # None /\ initPid \notin up THEN "clear" ELSE "children"
    /\ UNCHANGED <<file, up, termed, initPid, envVars, wakeVars>>

\* clear_init_pid_if_current: the file is read ...
clearRead ==
    /\ main = "clear"
    /\ IF file = initPid
       THEN main' = "remove" /\ UNCHANGED initPid
       ELSE main' = "children" /\ initPid' = None
    /\ UNCHANGED <<file, up, termed, envVars, wakeVars>>

\* ... and removed, whatever it names by now; INIT_PID="".
clearRemove ==
    /\ main = "remove" /\ main' = "children"
    /\ file' = None /\ initPid' = None
    /\ UNCHANGED <<up, termed, envVars, wakeVars>>

\* The container stops when cron or the web service has exited.
checkChildren ==
    /\ main = "children"
    /\ main' = IF Child \subseteq up THEN "sleep" ELSE "term"
    /\ UNCHANGED <<file, up, termed, initPid, envVars, wakeVars>>

sleep5 ==
    /\ main = "sleep" /\ main' = "refresh"
    /\ UNCHANGED <<file, up, termed, initPid, envVars, wakeVars>>

\* trap shutdown INT TERM: between two commands of the loop.
shutdown ==
    /\ main \in Loop /\ main' = "term"
    /\ UNCHANGED <<file, up, termed, initPid, envVars, wakeVars>>

\* cleanup: TERM to the web service, cron and INIT_PID.
sendTerm ==
    /\ main = "term" /\ main' = "grace"
    /\ termed' = termed \cup (({initPid} \cup Child) \cap up)
    /\ UNCHANGED <<file, up, initPid, envVars, wakeVars>>

\* Mutation: the processes are waited for without KILL.
GraceOnly ==
    /\ main = "grace" /\ main' = "wait"
    /\ UNCHANGED <<file, up, termed, initPid, envVars, wakeVars>>

\* ... after STOP_GRACE_SECONDS, KILL to whichever has not exited ...
forceKill ==
    /\ main = "grace" /\ main' = "wait"
    /\ up' = up \ ({initPid} \cup Child)
    /\ UNCHANGED <<file, termed, initPid, envVars, wakeVars>>

\* ... and wait.  An /init started by a wake is no child of this shell: waiting
\* for it returns at once.
waitChildren ==
    /\ main = "wait" /\ main' = "ended"
    /\ up \cap (Child \cup ({initPid} \cap {First})) = {}
    /\ UNCHANGED <<file, up, termed, initPid, envVars, wakeVars>>

mainStep ==
    \/ refresh_init_pid \/ checkInit \/ clearRead \/ clearRemove \/ checkChildren
    \/ sleep5 \/ sendTerm \/ forceKill \/ waitChildren

-----------------------------------------------------------------------------
(* startup.sh --wake.                                                      *)

goesTo(w, s) == main # "ended" /\ wake' = [wake EXCEPT ![w] = s]

\* The web service wakes on request, a cron scan when it finds the marker.
ping(w) ==
    /\ wake[w] \in {"idle", "failed"} /\ w \in up
    /\ w = "cron" => sleepLock
    /\ goesTo(w, IF clamd = "up" THEN "ready" ELSE "start")
    /\ wakePid' = [wakePid EXCEPT ![w] = None]
    /\ UNCHANGED <<file, up, used, termed, envVars, main, initPid, owner, lost>>

\* "$INIT_CMD" &
startInit(w) ==
    /\ wake[w] = "start" /\ goesTo(w, "publish")
    /\ \E p \in Pid \ used :
          /\ up' = up \cup {p} /\ used' = used \cup {p}
          /\ wakePid' = [wakePid EXCEPT ![w] = p]
    /\ UNCHANGED <<file, termed, envVars, main, initPid, owner, lost>>

\* write_init_pid
write_init_pid(w) ==
    /\ wake[w] = "publish" /\ goesTo(w, "boot")
    /\ file' = wakePid[w] /\ owner' = wakePid[w]
    /\ UNCHANGED <<up, used, termed, envVars, main, initPid, wakePid, lost>>

\* wait_for_clamd: a ping is answered, by whichever clamd.
booted(w) ==
    /\ wake[w] = "boot" /\ clamd = "up" /\ goesTo(w, "ready")
    /\ UNCHANGED <<file, up, used, termed, envVars, main, initPid, wakePid, owner, lost>>

\* The /init is given up: TERM, and a wait for it.
giveUp(w, next) ==
    /\ goesTo(w, next)
    /\ termed' = termed \cup ({wakePid[w]} \cap up)
    /\ owner' = IF owner = wakePid[w] THEN None ELSE owner
    /\ lost' = TRUE
    /\ UNCHANGED <<file, up, used, envVars, main, initPid, wakePid>>

\* The pid cannot be published, or the /init exits or the retries run out
\* before clamd answers.
publishFails(w) == wake[w] = "publish" /\ "bootFails" \in Faults /\ giveUp(w, "awaitUnpublished")
bootFails(w) ==
    /\ wake[w] = "boot" /\ clamd = "down"
    /\ "bootFails" \in Faults \/ wakePid[w] \notin up
    /\ giveUp(w, "await")

awaitInit(w) ==
    /\ wake[w] \in {"await", "awaitUnpublished"} /\ wakePid[w] \notin up
    /\ goesTo(w, IF wake[w] = "await" THEN "clear" ELSE "failed")
    /\ UNCHANGED <<file, up, used, termed, envVars, main, initPid, wakePid, owner, lost>>

\* clear_init_pid_if_current, by the wake.
wakeClearRead(w) ==
    /\ wake[w] = "clear" /\ goesTo(w, IF file = wakePid[w] THEN "remove" ELSE "failed")
    /\ UNCHANGED <<file, up, used, termed, envVars, main, initPid, wakePid, owner, lost>>

wakeClearRemove(w) ==
    /\ wake[w] = "remove" /\ goesTo(w, "failed") /\ file' = None
    /\ UNCHANGED <<up, used, termed, envVars, main, initPid, wakePid, owner, lost>>

remove_sleep_lock(w) ==
    /\ wake[w] = "ready" /\ goesTo(w, "idle") /\ sleepLock' = FALSE
    /\ UNCHANGED <<file, up, used, termed, clamd, main, initPid, wakePid, owner, lost>>

\* wakeClamAV: the script is killed when WakeTimeout has passed; its /init lives on.
wakeTimesOut ==
    /\ wake["server"] \notin {"idle", "failed"} /\ goesTo("server", "idle")
    /\ UNCHANGED <<file, up, used, termed, envVars, main, initPid, wakePid, owner, lost>>

wakeStep(w) ==
    \/ ping(w) \/ startInit(w) \/ write_init_pid(w) \/ booted(w)
    \/ publishFails(w) \/ bootFails(w) \/ awaitInit(w)
    \/ wakeClearRead(w) \/ wakeClearRemove(w) \/ remove_sleep_lock(w)

-----------------------------------------------------------------------------
(* clamd and the processes.                                                *)

\* An /init that lives brings clamd up.
clamdBoots ==
    /\ clamd = "down" /\ up \cap Pid # {} /\ clamd' = "up"
    /\ UNCHANGED <<file, up, termed, sleepLock, main, initPid, wakeVars>>

\* sleepClamAV, serialised by clamavPowerMu with the service's own wake.
sleepClamAV ==
    /\ main # "ended" /\ "server" \in up
    /\ clamd = "up" /\ wake["server"] \in {"idle", "failed"}
    /\ clamd' = "down" /\ sleepLock' = TRUE
    /\ UNCHANGED <<file, up, termed, main, initPid, wakeVars>>

\* A process exits: because of TERM (which it may take its time to do), or,
\* as the loop provides for, of its own accord.
exits(p) ==
    /\ p \in up
    /\ \/ p \in termed
       \/ p \in Pid /\ "initExits" \in Faults
       \/ p \in Child /\ "childExits" \in Faults
    /\ up' = up \ {p}
    /\ lost' = (lost \/ p \in Pid \ termed)
    /\ UNCHANGED <<file, termed, envVars, main, initPid, wake, wakePid, owner, used>>

Next ==
    \/ mainStep
    \/ shutdown
    \/ \E w \in Child : wakeStep(w)
    \/ wakeTimesOut
    \/ clamdBoots
    \/ sleepClamAV
    \/ \E p \in Pid \cup Child : exits(p)

Spec == Init /\ [][Next]_vars

\* The shell goes on; nothing else has to.
Fairness == WF_vars(mainStep)

-----------------------------------------------------------------------------
(* Properties.                                                             *)

\* Types.
TypeOK ==
    /\ file \in Pid \cup {None} /\ owner \in Pid \cup {None}
    /\ up \subseteq used \cup Child /\ used \subseteq Pid /\ termed \subseteq used \cup Child
    /\ clamd \in {"up", "down"} /\ sleepLock \in BOOLEAN
    /\ main \in Loop \cup Stopping \cup {"ended"}
    /\ initPid \in Pid \cup {None}
    /\ wake \in [Child -> {"idle", "start", "publish", "boot", "await", "awaitUnpublished",
                           "clear", "remove", "ready", "failed"}]
    /\ wakePid \in [Child -> Pid \cup {None}] /\ lost \in BOOLEAN

\* "Refreshing it here keeps the existing graceful-stop path pointed at the
\* current owner" (startup.sh:362): as long as the loop runs, the /init that
\* was published last and lives is the one a shutdown would stop, or will be
\* after the next refresh.
OwnerIsKnown ==
    main \in Loop /\ owner \in up => owner \in {initPid, file}

\* A wake that has failed by itself leaves neither its /init nor a file that
\* names it, whatever the loop and the other wake do with the file meanwhile.
FailedLeavesNothing ==
    \A w \in Child :
        wake[w] = "failed" /\ wakePid[w] # None => wakePid[w] \notin up \cup {file}

\* Process 1 and the wakes have their types; a wake that failed leaves neither its
\* /init nor a pid file that names it; and as long as every /init exits only when
\* process 1 tells it to, the one published last is the one that a shutdown would
\* stop (refresh_init_pid, start_clamav).
ContainerInv ==
    /\ TypeOK /\ FailedLeavesNothing
    /\ ~lost => OwnerIsKnown

\* "Keep shutdown bounded": once cron or the web service has exited, or the
\* container is told to stop, process 1 ends, even when a process does not
\* react to TERM.
StopCompletes ==
    (main \in Stopping \/ ~ (Child \subseteq up)) ~> main = "ended"
=============================================================================
