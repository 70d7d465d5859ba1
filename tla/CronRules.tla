----------------------------- MODULE CronRules ------------------------------
(***************************************************************************)
(* The cron rules of all users: one file that the server rewrites under    *)
(* configFileMu (server/cron.go), and the table of the cron daemon, which  *)
(* cron.sh rebuilds from it.                                               *)
(*                                                                         *)
(* A request rewrites the file in one rename, after cron.sh has validated  *)
(* the new text; the table is truncated and filled line by line by a       *)
(* second script, which can fail or be killed by its time limit, and the   *)
(* container may be restarted at any point.                                *)
(***************************************************************************)
EXTENDS Naturals, FiniteSets

CONSTANTS
    User,
    Id,         \* rule identifiers; bounds the number of rules
    Kind,       \* what is in the target paths of the rules, see AllKinds
    Faults,     \* what may go wrong, a subset of AllFaults
    MaxRestart, \* bound
    None

\* No white space; a space or a tab; another Unicode space such as U+3000.
AllKinds == {"plain", "blank", "wide"}
AllFaults == {"fail", "timeout"}

\* What the constants are, for every instance.
CronAssumption ==
    /\ Kind \subseteq AllKinds /\ Faults \subseteq AllFaults
    /\ MaxRestart \in Nat /\ None \notin User

Rule == [owner : User, kind : Kind, on : BOOLEAN]
Doc == [Id -> Rule \cup {None}]
Holder == [pc : {"free", "validate", "rename", "reload", "append"}, user : User \cup {None},
           doc : Doc, left : SUBSET Id, what : {"edit", "remove"}]

VARIABLES
    conf,       \* the rules in the cron configuration file
    table,      \* the rules in the table of the cron daemon
    op,         \* holder of configFileMu: [pc, user, doc, left, what]
    stale,      \* history: since the file was changed, or a reload was begun,
                \* no reload has finished
    failed,     \* history: the reload that ended last was cut short
    removed,    \* users whose rules removeCronRulesForUser reports gone
    restarts

vars == <<conf, table, op, stale, failed, removed, restarts>>

NoDoc == [i \in Id |-> None]
Free == [pc |-> "free", user |-> None, doc |-> NoDoc, left |-> {}, what |-> "edit"]

Init ==
    /\ conf = NoDoc /\ table = NoDoc
    /\ op = Free
    /\ stale = FALSE /\ failed = FALSE /\ removed = {} /\ restarts = 0

-----------------------------------------------------------------------------
(* The text of a rule.  quoteCronTarget knows spaces and tabs, as the      *)
(* shell does; strings.Fields knows every Unicode space.                   *)

quoteCronTarget(kind) == kind = "blank"
goFields(kind) == IF kind = "plain" THEN 1 ELSE 2
shellFields(kind) == IF kind = "blank" THEN 2 ELSE 1

parseCronRuleLine(r) == quoteCronTarget(r.kind) \/ goFields(r.kind) = 1
split_cron_config_line(r) == quoteCronTarget(r.kind) \/ shellFields(r.kind) = 1

\* readCronConfigDoc fails as a whole when one line cannot be parsed.
readCronConfigDoc == \A i \in Id : conf[i] # None => parseCronRuleLine(conf[i])

Enabled(doc) == {i \in Id : doc[i] # None /\ doc[i].on}

\* validate_cron_config skips disabled rules, which are comments.
validate_cron_config(doc) == \A i \in Enabled(doc) : split_cron_config_line(doc[i])

-----------------------------------------------------------------------------
(* Requests.  Each takes configFileMu, reads the whole file and prepares   *)
(* the new text.                                                           *)

save(u, doc, what) ==
    /\ op' = [pc |-> "validate", user |-> u, doc |-> doc, left |-> {}, what |-> what]
    /\ UNCHANGED <<conf, table, stale, failed, removed, restarts>>

May(u) == op.pc = "free" /\ u \notin removed /\ readCronConfigDoc

\* Mutation: a rule is found by its identifier alone.
FindAny(u, i) == conf[i] # None

findCronRuleBlock(u, i) == conf[i] # None /\ conf[i].owner = u

addCronRule(u, kind, on) ==
    /\ May(u)
    /\ \E i \in Id :        \* uniqueCronRuleID
          /\ conf[i] = None
          /\ save(u, [conf EXCEPT ![i] = [owner |-> u, kind |-> kind, on |-> on]], "edit")

updateCronRule(u, i, kind, on) ==
    /\ May(u) /\ findCronRuleBlock(u, i)
    /\ save(u, [conf EXCEPT ![i] = [owner |-> u, kind |-> kind, on |-> on]], "edit")

setCronRuleEnabled(u, i, on) ==
    /\ May(u) /\ findCronRuleBlock(u, i)
    /\ save(u, [conf EXCEPT ![i].on = on], "edit")

deleteCronRule(u, i) ==
    /\ May(u) /\ findCronRuleBlock(u, i)
    /\ save(u, [conf EXCEPT ![i] = None], "edit")

\* When the user is disabled.  Without an enabled rule there is nothing to do.
disableCronRulesForUser(u) ==
    LET mine == {i \in Enabled(conf) : conf[i].owner = u}
    IN  /\ May(u) /\ mine # {}
        /\ save(u, [i \in Id |-> IF i \in mine THEN [conf[i] EXCEPT !.on = FALSE] ELSE conf[i]], "edit")

\* When the account is deleted, and again when the deletion is retried.
removeCronRulesForUser(u) ==
    LET mine == {i \in Id : conf[i] # None /\ conf[i].owner = u}
    IN  /\ May(u)
        /\ IF mine = {}
           THEN removed' = removed \cup {u} /\ UNCHANGED <<conf, table, op, stale, failed, restarts>>
           ELSE save(u, [i \in Id |-> IF i \in mine THEN None ELSE conf[i]], "remove")

handleCronReload(u) ==
    /\ op.pc = "free" /\ u \notin removed
    /\ op' = [Free EXCEPT !.pc = "reload", !.user = u]
    /\ UNCHANGED <<conf, table, stale, failed, removed, restarts>>

-----------------------------------------------------------------------------
(* saveCronConfigDoc and the runs of cron.sh it waits for.                 *)

Ended == op' = Free

\* cron.sh validate of the temporary file, which is discarded on failure.
validate ==
    /\ op.pc = "validate"
    /\ \/ validate_cron_config(op.doc) /\ op' = [op EXCEPT !.pc = "rename"]
       \/ ~validate_cron_config(op.doc) /\ Ended
       \/ Faults # {} /\ Ended
    /\ UNCHANGED <<conf, table, stale, failed, removed, restarts>>

rename ==
    /\ op.pc = "rename"
    /\ \/ conf' = op.doc /\ stale' = TRUE /\ op' = [op EXCEPT !.pc = "reload"]
       \/ "fail" \in Faults /\ Ended /\ UNCHANGED <<conf, stale>>
    /\ UNCHANGED <<table, failed, removed, restarts>>

\* reload_cron validates the file again and truncates the table ...
write_cron_header ==
    /\ op.pc = "reload"
    /\ \/ /\ validate_cron_config(conf)
          /\ table' = NoDoc /\ stale' = TRUE
          /\ op' = [op EXCEPT !.pc = "append", !.left = Enabled(conf)]
          /\ UNCHANGED failed
       \/ /\ ~validate_cron_config(conf) \/ "fail" \in Faults
          /\ Ended /\ failed' = TRUE /\ UNCHANGED <<table, stale>>
    /\ UNCHANGED <<conf, removed, restarts>>

\* ... and appends the enabled rules, which are all in the table when it ends.
appendRule(i) ==
    /\ op.pc = "append" /\ i \in op.left
    /\ table' = [table EXCEPT ![i] = conf[i]]
    /\ op' = [op EXCEPT !.left = @ \ {i}]
    /\ UNCHANGED <<conf, stale, failed, removed, restarts>>

\* Mutation: the reload is not waited for.
ReportAtOnce ==
    /\ op.pc = "append"
    /\ stale' = FALSE /\ failed' = FALSE
    /\ removed' = IF op.what = "remove" THEN removed \cup {op.user} ELSE removed
    /\ Ended
    /\ UNCHANGED <<conf, table, restarts>>

reloaded ==
    /\ op.pc = "append" /\ op.left = {}
    /\ stale' = FALSE /\ failed' = FALSE
    /\ removed' = IF op.what = "remove" THEN removed \cup {op.user} ELSE removed
    /\ Ended
    /\ UNCHANGED <<conf, table, restarts>>

\* runCronScript kills the reload after ten seconds: the request fails, the file
\* is changed and the table is what it is by then.
timeout ==
    /\ "timeout" \in Faults
    /\ op.pc \in {"reload", "append"} /\ op.user # None
    /\ Ended /\ failed' = TRUE
    /\ UNCHANGED <<conf, table, stale, removed, restarts>>

\* The container restarts: startup.sh reloads before it starts cron and server.
restart ==
    /\ restarts < MaxRestart /\ restarts' = restarts + 1
    /\ op' = [Free EXCEPT !.pc = "reload"]
    /\ UNCHANGED <<conf, table, stale, failed, removed>>

CronRequest(u) ==
    \/ \E kind \in Kind, on \in BOOLEAN : addCronRule(u, kind, on)
    \/ \E i \in Id, kind \in Kind, on \in BOOLEAN : updateCronRule(u, i, kind, on)
    \/ \E i \in Id, on \in BOOLEAN : setCronRuleEnabled(u, i, on)
    \/ \E i \in Id : deleteCronRule(u, i)
    \/ disableCronRulesForUser(u) \/ removeCronRulesForUser(u) \/ handleCronReload(u)

Next ==
    \/ \E u \in User : CronRequest(u)
    \/ validate \/ rename \/ write_cron_header \/ reloaded \/ timeout \/ restart
    \/ \E i \in Id : appendRule(i)

Spec == Init /\ [][Next]_vars

-----------------------------------------------------------------------------
TypeOK ==
    /\ conf \in Doc /\ table \in Doc /\ op \in Holder
    /\ stale \in BOOLEAN /\ failed \in BOOLEAN /\ removed \subseteq User

\* The daemon runs exactly the enabled rules of the file whenever nobody holds
\* configFileMu and the last reload was not cut short: no rule is missing after
\* an edit, a restart in mid-reload, or the reload of somebody else.
TableIsCurrent ==
    op.pc = "free" /\ ~stale =>
        table = [i \in Id |-> IF i \in Enabled(conf) THEN conf[i] ELSE None]

\* A request of one user changes no rule of another, although it rewrites the
\* whole file (api.md:595, lost updates).
OthersAreSpared ==
    [][\A i \in Id : conf[i] # None /\ conf[i].owner # op.user => conf'[i] = conf[i]]_vars

\* Every user can read and edit his rules, whatever rules others have (api.md:44):
\* the server can read back what it has written.
FileIsReadable == op.pc = "free" => readCronConfigDoc

\* When the rules of a deleted account are reported gone, none of them is run
\* any more (api.md:229, "and reload").
RemovedIsSilent ==
    \A i \in Id : table[i] # None /\ op.pc = "free" => table[i].owner \notin removed

\* The rules have their types; the table of cron is that of the file unless a
\* reload failed or is under way; without Unicode spaces in the paths no accepted
\* rule makes the file unreadable; and unless the last reload was cut short, no
\* rule runs any more when those of its deleted account are reported gone
\* (saveCronConfigDoc, cron.sh).
CronInv ==
    /\ TypeOK /\ TableIsCurrent
    /\ "wide" \notin Kind => FileIsReadable
    /\ ~failed => RemovedIsSilent
=============================================================================
