-------------------------------- MODULE Files --------------------------------
(***************************************************************************)
(* The files in which the container keeps its configuration: the cron      *)
(* rules, the whitelist, clamavweb.conf and the pid file of /init.  Each   *)
(* is a component of its own; no component writes the file of another, so  *)
(* they stand side by side with constants and variables of their own.      *)
(***************************************************************************)
EXTENDS Naturals

CONSTANTS
    User, None, MaxRestart,
    Id, Kind, CronFaults,                   \* the cron rules
    Path, Wide, ListFaults, Removes,        \* the whitelist
    Request, Sets, MaxEdits, Absent,        \* clamavweb.conf
    Pid, First, Faults                      \* the pid file of /init

VARIABLES
    conf, table, op, stale, cut, removed, restarts,
    exclude, sfp, loaded, asleep, scan, update, broken, forgotten, boots,
    file, bad, mem, server, req, notice, timer, edited, edits, overlapped,
    pidFile, up, used, termed, clamd, sleepLock, main, initPid, wake, wakePid, owner, lost

Cron == INSTANCE CronRules WITH failed <- cut, Faults <- CronFaults

List == INSTANCE Whitelist WITH conf <- exclude, op <- update, failed <- broken,
    removed <- forgotten, restarts <- boots, Faults <- ListFaults

Config == INSTANCE AppConfig WITH up <- server

Container == INSTANCE Supervision WITH file <- pidFile

ASSUME CronConstants == Cron!CronAssumption
ASSUME ListConstants == List!WhitelistAssumption
ASSUME ConfigConstants == Config!ConfigAssumption
ASSUME ContainerConstants == Container!SupervisionAssumption

-----------------------------------------------------------------------------
(* Properties.                                                             *)

\* The table of cron is that of the file unless a reload was cut short or is under
\* way, no accepted rule makes the file unreadable unless it has a Unicode space, and
\* when the rules of a deleted account are reported gone none of them runs any more,
\* unless the last reload was cut short (saveCronConfigDoc, cron.sh).
CronInv == Cron!CronInv

\* clamd does not fall asleep between the check of a request and the reload; and unless
\* the last rebuild or reload failed, it trusts what the entries of all users say
\* whenever it is awake and no update is in progress, and nothing that only a deleted
\* account entered once that is reported gone (updateWhitelist, removeWhitelistForUser).
WhitelistInv == List!WhitelistInv

\* Nobody changes a rule of another user, however lines have moved in the file, and
\* nobody takes away an entry of another user, not even for the same path
\* (findCronRuleBlock, deleteWhitelistEntry).
OthersAreSpared == Cron!OthersAreSpared /\ List!OthersAreSpared

\* What the server works with is legal whatever is written into clamavweb.conf, it is
\* what the file says unless somebody edited it, and as long as requests have come one
\* at a time the timer runs with the configured interval (appConfigStore.update,
\* handleServiceConfig).
ConfigInv == Config!ConfigInv

\* A successful request has what it asked for, also when its copy was outdated, and
\* as long as requests have come one at a time an edit by hand of a key that the
\* request does not name survives it (appConfigStore.update).
RequestIsApplied == Config!RequestIsApplied

\* A wake that failed leaves neither its /init nor a pid file that names it, and as
\* long as every /init exits only when process 1 tells it to, the one published last is
\* the one that a shutdown would stop (refresh_init_pid, start_clamav).
ContainerInv == Container!ContainerInv
=============================================================================
