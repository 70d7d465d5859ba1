----------------------------- MODULE Whitelist ------------------------------
(***************************************************************************)
(* The whitelist: exclude.conf, the allow-list database exclude.sh builds  *)
(* from it, and what clamd has loaded of that (server/whitelist.go,        *)
(* exclude.sh).                                                            *)
(*                                                                         *)
(* Updates hold clamavPowerMu and configFileMu and change the three one    *)
(* after the other; the second and the third may fail, and scans, which    *)
(* take no mutex of the server, begin and end meanwhile.                   *)
(***************************************************************************)
EXTENDS Naturals, FiniteSets

CONSTANTS
    User,
    Path,       \* paths under /scan
    Wide,       \* the paths with a Unicode space such as U+3000 in them but no
                \* space or tab, for which alone the path is quoted
    Faults,     \* subset of AllFaults
    Removes,    \* whether accounts are deleted
    MaxRestart, \* bound
    None

AllFaults == {"exclude", "reload"}

\* What the constants are, for every instance.
WhitelistAssumption ==
    /\ Wide \subseteq Path /\ Faults \subseteq AllFaults
    /\ Removes \in BOOLEAN /\ MaxRestart \in Nat /\ None \notin User

Holder == [pc : {"free", "add", "delete", "exclude", "reload"}, user : User \cup {None},
           what : {"edit", "remove"}]

VARIABLES
    conf,       \* exclude.conf: set of <<path, owner>>
    sfp,        \* paths whose files are in the allow-list database
    loaded,     \* paths clamd trusts
    asleep,     \* sleep.lock exists and clamd is down
    scan,       \* a scan holds scan.lock
    op,         \* holder of the mutexes: [pc, user, what]
    failed,     \* history: the rebuild or the reload failed since both last succeeded
    removed,    \* users whose entries removeWhitelistForUser reports gone
    restarts

vars == <<conf, sfp, loaded, asleep, scan, op, failed, removed, restarts>>

Free == [pc |-> "free", user |-> None, what |-> "edit"]

Init ==
    /\ conf = {} /\ sfp = {} /\ loaded = {}
    /\ asleep = FALSE /\ scan = FALSE
    /\ op = Free /\ failed = FALSE /\ removed = {} /\ restarts = 0

-----------------------------------------------------------------------------
(* whitelistConfigLine quotes paths with a space or a tab.  Both readers   *)
(* understand the quotes; of a bare path strings.Fields makes several      *)
(* fields at any Unicode space, the shell only at spaces and tabs.         *)

\* parseWhitelistOwnedLine; a line it cannot read is kept and otherwise ignored.
parseWhitelistOwnedLine(line) == line[1] \notin Wide

\* parse_exclude_line
parse_exclude_line(line) == TRUE

Trusted == {line[1] : line \in {l \in conf : parse_exclude_line(l)}}

-----------------------------------------------------------------------------
(* updateWhitelist                                                         *)

Rest == UNCHANGED <<asleep, scan, restarts>>
To(pc) == op' = [op EXCEPT !.pc = pc]

\* The mutexes are taken; ClamAV must be awake.  The path and the scan lock are
\* looked at before the first change.
updateWhitelist(u, what) ==
    /\ op.pc = "free" /\ u \notin removed
    /\ ~asleep /\ ~scan
    /\ op' = [pc |-> what, user |-> u, what |-> "edit"]
    /\ UNCHANGED <<conf, sfp, loaded, failed, removed>> /\ Rest

\* A path that is there already is not added again, but the rest is done.
addWhitelistEntry(p) ==
    LET line == <<p, op.user>>
    IN  /\ op.pc = "add"
        /\ conf' = conf \cup {line}
        /\ To("exclude")
        /\ UNCHANGED <<sfp, loaded, failed, removed>> /\ Rest

deleteWhitelistEntry(p) ==
    LET line == <<p, op.user>>
    IN  /\ op.pc = "delete"
        /\ IF line \in conf /\ parseWhitelistOwnedLine(line)
           THEN conf' = conf \ {line} /\ To("exclude")
           ELSE op' = Free /\ UNCHANGED conf
        /\ UNCHANGED <<sfp, loaded, failed, removed>> /\ Rest

\* removeWhitelistForUser looks at neither sleep nor scan lock.  Without an entry
\* there is nothing to do, also when the last attempt failed after its rename.
removeWhitelistForUser(u) ==
    LET mine == {l \in conf : l[2] = u /\ parseWhitelistOwnedLine(l)}
    IN  /\ Removes /\ op.pc = "free" /\ u \notin removed
        /\ conf' = conf \ mine
        /\ IF mine = {} THEN removed' = removed \cup {u} /\ UNCHANGED op
           ELSE op' = [pc |-> "exclude", user |-> u, what |-> "remove"] /\ UNCHANGED removed
        /\ UNCHANGED <<sfp, loaded, failed>> /\ Rest

\* exclude.sh rebuilds the database; killed by its time limit it leaves the old
\* one, or a part of the new one.
runExcludeScript ==
    /\ op.pc = "exclude"
    /\ \/ sfp' = Trusted /\ To("reload") /\ UNCHANGED failed
       \/ /\ "exclude" \in Faults /\ failed' = TRUE /\ op' = Free
          /\ \E part \in SUBSET Trusted : sfp' \in {sfp, part}
    /\ UNCHANGED <<conf, loaded, removed>> /\ Rest

\* clamdscan --reload, which a sleeping clamd does not answer.
reloadClamdDatabase ==
    /\ op.pc = "reload"
    /\ \/ /\ ~asleep
          /\ loaded' = sfp /\ failed' = FALSE
          /\ removed' = IF op.what = "remove" THEN removed \cup {op.user} ELSE removed
       \/ /\ asleep \/ "reload" \in Faults
          /\ failed' = (failed \/ ~asleep)
          /\ UNCHANGED <<loaded, removed>>
    /\ op' = Free
    /\ UNCHANGED <<conf, sfp>> /\ Rest

-----------------------------------------------------------------------------
(* Scans; the sleep, which needs clamavPowerMu and no scan, and the wake,  *)
(* after which clamd has loaded the database anew; a restart.              *)

scanStarts ==
    /\ ~asleep /\ ~scan /\ scan' = TRUE
    /\ UNCHANGED <<conf, sfp, loaded, asleep, op, failed, removed, restarts>>

scanEnds ==
    /\ scan /\ scan' = FALSE
    /\ UNCHANGED <<conf, sfp, loaded, asleep, op, failed, removed, restarts>>

\* Mutation: the sleep does not wait for clamavPowerMu.
SleepAnyTime ==
    /\ ~asleep /\ ~scan /\ asleep' = TRUE
    /\ loaded' = {}
    /\ UNCHANGED <<conf, sfp, scan, op, failed, removed, restarts>>

sleep ==
    /\ op.pc = "free" /\ ~asleep /\ ~scan /\ asleep' = TRUE
    /\ loaded' = {}
    /\ UNCHANGED <<conf, sfp, scan, op, failed, removed, restarts>>

wake ==
    /\ asleep /\ asleep' = FALSE
    /\ loaded' = sfp
    /\ UNCHANGED <<conf, sfp, scan, op, failed, removed, restarts>>

\* startup.sh: exclude.sh, then clamd.
restart ==
    /\ restarts < MaxRestart /\ restarts' = restarts + 1
    /\ sfp' = Trusted /\ loaded' = Trusted
    /\ op' = Free /\ asleep' = FALSE /\ scan' = FALSE /\ failed' = FALSE
    /\ UNCHANGED <<conf, removed>>

Next ==
    \/ \E u \in User :
          \/ updateWhitelist(u, "add") \/ updateWhitelist(u, "delete")
          \/ removeWhitelistForUser(u)
    \/ \E p \in Path : addWhitelistEntry(p) \/ deleteWhitelistEntry(p)
    \/ runExcludeScript \/ reloadClamdDatabase
    \/ scanStarts \/ scanEnds \/ sleep \/ wake \/ restart

Spec == Init /\ [][Next]_vars

-----------------------------------------------------------------------------
TypeOK ==
    /\ conf \subseteq Path \X User
    /\ sfp \subseteq Path /\ loaded \subseteq Path /\ removed \subseteq User
    /\ asleep \in BOOLEAN /\ scan \in BOOLEAN /\ failed \in BOOLEAN /\ op \in Holder
    /\ asleep => ~scan /\ loaded = {}

\* What clamd trusts is what the entries of all users say, whenever no update is
\* in progress and it is awake: through sleeps and wakes, restarts at any point,
\* overlapping entries of two users, and the deletion of accounts.
TrustIsCurrent == op.pc = "free" /\ ~asleep => loaded = Trusted

\* A user's request takes away no entry of another user, not even for the same
\* path (api.md: "path + current user").
OthersAreSpared == [][\A l \in conf : l \notin conf' => l[2] = op'.user]_vars

\* A request that found ClamAV awake finds it awake when it has it reload its
\* database: what clamavPowerMu is held for (the comment in updateWhitelist).
AwakeForReload == op.pc = "reload" /\ op.what = "edit" => ~asleep

\* When the entries of a deleted account are reported gone, ClamAV trusts no path
\* that no remaining entry names, and none of them is left (api.md:230).
RemovedIsForgotten ==
    /\ \A l \in conf : l[2] \notin removed
    /\ op.pc = "free" /\ removed = User => loaded = {}

\* The whitelist has its types and clamd does not fall asleep between the check of a
\* request and the reload.  Unless the last rebuild or reload failed, clamd trusts
\* what the entries of all users say whenever it is awake and no update is in
\* progress; and when in addition every path can be read back, none of the entries
\* of a deleted account is trusted after they are reported gone (updateWhitelist,
\* removeWhitelistForUser).
WhitelistInv ==
    /\ TypeOK /\ AwakeForReload
    /\ ~failed => TrustIsCurrent
    /\ ~failed /\ Wide = {} => RemovedIsForgotten
=============================================================================
