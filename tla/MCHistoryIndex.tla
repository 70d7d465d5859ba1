--------------------------- MODULE MCHistoryIndex ---------------------------
(***************************************************************************)
(* The index comes to agree with the job files, in two instances (part).   *)
(* In the one events are lost, the watcher fails and the server restarts,  *)
(* and every version of a file has an mtime of its own; in the other       *)
(* nothing is lost, and two versions may have the same mtime.              *)
(***************************************************************************)
EXTENDS HistoryIndex

ASSUME HistoryConstants == HistoryAssumption

VARIABLE part

Coarse == INSTANCE HistoryIndex WITH MaxV <- 3, SameTick <- "watched", Faults <- {}, MaxRestart <- 0

PartInit == part \in {"lossy", "coarse"} /\ Init

PartNext ==
    \/ part = "lossy" /\ Next /\ UNCHANGED part
    \/ part = "coarse" /\ Coarse!Next /\ UNCHANGED part

\* The steps that are fair are the same in both: only events, restarts and the
\* versions written differ.
PartSpec == PartInit /\ [][PartNext]_<<part, vars>> /\ Fairness
=============================================================================
