------------------------------ MODULE MCFiles -------------------------------
(***************************************************************************)
(* The files of Files on small instances: in each behaviour one component  *)
(* takes steps, with the bounds of its part, and the others stay where     *)
(* they began.                                                             *)
(***************************************************************************)
EXTENDS Files, FiniteSets, TLC

CONSTANTS x1, x2, x3, y1, y2, z

VARIABLE part

cronVars == <<conf, table, op, stale, cut, removed, restarts>>

whitelistVars == <<exclude, sfp, loaded, asleep, scan, update, broken, forgotten, boots>>

configVars == <<file, bad, mem, server, req, notice, timer, edited, edits, overlapped>>

containerVars == <<pidFile, up, used, termed, clamd, sleepLock, main, initPid, wake, wakePid,
    owner, lost>>

\* What a request sets: anything it may, or the keys that requests can disagree about.
Few == [{"timer"} -> 1..2] \cup [{"max"} -> {0, 2}]
Anything == {[k \in {"first"} |-> 2]} \cup [{"timer"} -> 0..2]
         \cup UNION {[K -> 0..2] : K \in {{"max"}, {"overall"}, {"max", "overall"}}}

\* Rules, paths and pids are interchangeable, and so are users and requests.
Symmetry == Permutations({x1, x2, x3}) \cup Permutations({y1, y2})

-----------------------------------------------------------------------------
(* The bounds of the parts.                                                *)

\* Two requests at once and one edit, or requests one after the other that set
\* anything, and two edits.
Pair == edits' < 2 /\ \A r \in Request : req'[r].set \in Few \cup {<<>>}
Single == ~overlapped'

\* Three wakes while no /init exits by itself, or two and any failures, as long as the
\* container runs.
Owned == ~lost'
Failing == Cardinality(used') < 4 /\ main' \in Container!Loop /\ Container!Child \subseteq up'

-----------------------------------------------------------------------------
FilesInit ==
    /\ part \in {"cron", "whitelist", "pair", "single", "owned", "failing"}
    /\ Cron!Init /\ List!Init /\ Config!Init /\ Container!Init

FilesNext ==
    \/ /\ part = "cron" /\ Cron!Next
       /\ UNCHANGED <<part, whitelistVars, configVars, containerVars>>
    \/ /\ part = "whitelist" /\ List!Next
       /\ UNCHANGED <<part, cronVars, configVars, containerVars>>
    \/ /\ part \in {"pair", "single"} /\ Config!Next
       /\ IF part = "pair" THEN Pair ELSE Single
       /\ UNCHANGED <<part, cronVars, whitelistVars, containerVars>>
    \/ /\ part \in {"owned", "failing"} /\ Container!Next
       /\ IF part = "owned" THEN Owned ELSE Failing
       /\ UNCHANGED <<part, cronVars, whitelistVars, configVars>>

FilesSpec == FilesInit /\ [][FilesNext]_<<part, cronVars, whitelistVars, configVars, containerVars>>
=============================================================================
