----------------------------- MODULE MCResults ------------------------------
(***************************************************************************)
(* Results on small instances: in each behaviour one component takes       *)
(* steps, with the bounds of its part, and the others stay where they      *)
(* began.                                                                  *)
(***************************************************************************)
EXTENDS Results, TLC

CONSTANTS f1, f2, x1, x2

VARIABLE part

quarantineVars == <<src, q, record, run, h, born, gone, crossed>>

historyVars == <<disk, wrote, db, schema, events, errs, watcher, failures, pendingPaths, errPending,
    errTimer, recent, mu, t, jobs, before, cleans, restarts>>

Alice == [f \in {f1, f2} |-> "alice"]

\* Two of the lookups, or the requests.
Symmetry == Permutations({x1, x2})

-----------------------------------------------------------------------------
(* The bounds of the parts.                                                *)

\* Two files of one name and one request at a time, or one file and two requests.
TwoFiles == Cardinality({r \in Req : h'[r].pc # "idle"}) < 2
TwoRequests == run'.f # f2 /\ src'[f2] = src[f2]

\* Nothing but job files is faulty, and every version has an mtime of its own.
Reliable ==
    /\ ~errs' /\ failures' = 0 /\ (watcher = "on" /\ watcher' = "down" => restarts' # restarts)
    /\ \A x \in Index!Thread : t'[x].pc # "failed"
    /\ \A f \in Job : disk'[f] # None => disk'[f].mt = disk'[f].v

\* Events are lost, reads fail, versions of the one file have the same mtime and its
\* owner cleans his results; or the server restarts, among others between the two
\* files while it upgrades the database; or the owner of one of two jobs cleans his.
Faulty ==
    /\ restarts' = 0 /\ disk'[f2] = None
    /\ \A f \in Job : disk'[f] # None => disk'[f].ok
Upgraded == Reliable /\ cleans' = 0
Cleaning == Reliable /\ restarts' = 0

-----------------------------------------------------------------------------
ResultsInit ==
    /\ Init /\ Store!Init /\ Index!Init
    /\ \/ part \in {"lookups", "twoFiles", "twoRequests"} /\ schema = 3
       \/ part = "faulty" /\ disk[f2] = None
       \/ part \in {"upgraded", "cleaning"}

ResultsNext ==
    \/ part = "lookups" /\ Next /\ UNCHANGED <<part, quarantineVars, historyVars>>
    \/ /\ part \in {"twoFiles", "twoRequests"} /\ Store!Next
       /\ IF part = "twoFiles" THEN TwoFiles ELSE TwoRequests
       /\ UNCHANGED <<part, vars, historyVars>>
    \/ /\ part \in {"faulty", "upgraded", "cleaning"} /\ Index!Next
       /\ part = "faulty" => Faulty
       /\ part = "upgraded" => Upgraded
       /\ part = "cleaning" => Cleaning
       /\ UNCHANGED <<part, vars, quarantineVars>>

ResultsSpec == ResultsInit /\ [][ResultsNext]_<<part, vars, quarantineVars, historyVars>>
=============================================================================
