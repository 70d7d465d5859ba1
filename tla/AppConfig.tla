------------------------------ MODULE AppConfig ------------------------------
(***************************************************************************)
(* The service configuration (server/app_config.go): a file that people    *)
(* edit by hand and the copy of it that the server works with, changed by  *)
(* PATCH /api/config and by the completion of the first run (first_run.go).*)
(*                                                                         *)
(* A request takes a copy of the configuration, changes some keys and      *)
(* hands the whole copy to update, which compares it with the              *)
(* configuration of that moment, merges the keys that differ into the file *)
(* as it is then and adopts what the merged file says. The running timer   *)
(* is told afterwards, if the request believes that it changed it.         *)
(*                                                                         *)
(* Four keys stand for ten: one with two legal values (the first run), one *)
(* that a timer uses, and the pair of login limits that are only legal     *)
(* together. A missing file is a file without keys: both begin as "".      *)
(***************************************************************************)
EXTENDS Integers

CONSTANTS
    Request,    \* requests handled at the same time
    Sets,       \* what a request may set: functions from some keys to values
    MaxEdits,   \* bound: edits by hand
    Absent      \* the value of a key that has no line

Key == {"first", "timer", "max", "overall"}
Value == 0..2

\* What the constants are, for every instance.
ConfigAssumption ==
    /\ MaxEdits \in Nat /\ Absent \notin Value
    /\ \A s \in Sets : DOMAIN s \subseteq Key /\ s \in [DOMAIN s -> Value]

\* A request, the configuration it has found and the one it asks for.
Copy == [pc : {"idle", "update", "notify"}, set : Sets \cup {<<>>},
         old : [Key -> Value], cfg : [Key -> Value]]

VARIABLES
    file,       \* the value of each key, or Absent
    bad,        \* the file has a line no version of the parser accepts
    mem,        \* appConfigStore.cfg
    up,         \* the server runs
    req,        \* [pc, set, old, cfg]
    notice,     \* historyIntervalChanged holds a token
    timer,      \* the interval the periodic timer was started with
    edited,     \* history: edited by hand since it was last read
    edits,      \* history: edits by hand so far
    overlapped  \* history: since the server started, a request began during another

vars == <<file, bad, mem, up, req, notice, timer, edited, edits, overlapped>>

defaultAppConfig == [k \in Key |-> CASE k = "first" -> 0 [] k = "overall" -> 2 [] OTHER -> 1]

validateAppConfig(c) ==
    /\ c["first"] \in {0, 2}
    /\ c["timer"] >= 1
    /\ 1 <= c["max"] /\ c["max"] <= c["overall"]

Parsed(f) == [k \in Key |-> IF f[k] = Absent THEN defaultAppConfig[k] ELSE f[k]]

\* parseAppConfig succeeds: no malformed, repeated or unknown key, legal values.
parseAppConfig(f) == ~bad /\ validateAppConfig(Parsed(f))

\* Keys in changed get the value of c, and so do keys without a line.
mergeAppConfigContent(f, c, changed) ==
    [k \in Key |-> IF k \in changed \/ f[k] = Absent THEN c[k] ELSE f[k]]

NoRequest == [pc |-> "idle", set |-> <<>>, old |-> defaultAppConfig, cfg |-> defaultAppConfig]

Init ==
    /\ file = defaultAppConfig /\ bad = FALSE
    /\ mem = defaultAppConfig /\ up = TRUE
    /\ req = [r \in Request |-> NoRequest]
    /\ notice = FALSE /\ timer = mem["timer"]
    /\ edited = FALSE /\ edits = 0 /\ overlapped = FALSE

-----------------------------------------------------------------------------
(* The file in other hands. *)

editFile(k, v) ==
    /\ edits < MaxEdits /\ file[k] # v
    /\ file' = [file EXCEPT ![k] = v]
    /\ edits' = edits + 1 /\ edited' = TRUE
    /\ UNCHANGED <<bad, mem, up, req, notice, timer, overlapped>>

spoilFile ==
    /\ edits < MaxEdits
    /\ bad' = ~bad
    /\ edits' = edits + 1 /\ edited' = TRUE
    /\ UNCHANGED <<file, mem, up, req, notice, timer, overlapped>>

-----------------------------------------------------------------------------
(* A request. *)

\* cfg := s.appConfig.get(), and the keys of the request replaced in it.
getConfig(r, set) ==
    LET cfg == [k \in Key |-> IF k \in DOMAIN set THEN set[k] ELSE mem[k]]
    IN  /\ up /\ req[r].pc = "idle"
        /\ req' = [req EXCEPT ![r] = [pc |-> "update", set |-> set, old |-> mem, cfg |-> cfg]]
        /\ overlapped' = (overlapped \/ \E s \in Request \ {r} : req[s].pc # "idle")
        /\ UNCHANGED <<file, bad, mem, up, notice, timer, edited, edits>>

\* Mutation: what the request changed, not what differs now.
ChangedSinceGet(r) == {k \in Key : req[r].cfg[k] # req[r].old[k]}

\* Called in update, under the mutex.
changedAppConfigKeys(r) == {k \in Key : req[r].cfg[k] # mem[k]}

Merged(r) == mergeAppConfigContent(file, req[r].cfg, changedAppConfigKeys(r))

\* Mutation: the configuration asked for is adopted, not the merged one.
AdoptRequested(r) == req[r].cfg

Final(r) == Parsed(Merged(r))

update(r) ==
    /\ req[r].pc = "update"
    /\ validateAppConfig(req[r].cfg) /\ parseAppConfig(Merged(r))
    /\ file' = Merged(r) /\ mem' = Final(r)
    /\ edited' = FALSE
    /\ req' = [req EXCEPT ![r].pc = "notify"]
    /\ UNCHANGED <<bad, up, notice, timer, edits, overlapped>>

\* An illegal request, a file that cannot be parsed, or one that cannot be
\* written: nothing changes.
updateFails(r) ==
    /\ req[r].pc = "update"
    /\ req' = [req EXCEPT ![r] = NoRequest]
    /\ UNCHANGED <<file, bad, mem, up, notice, timer, edited, edits, overlapped>>

\* oldHistoryInterval against the request's own copy.
notify(r) ==
    /\ req[r].pc = "notify"
    /\ notice' = (notice \/ req[r].old["timer"] # req[r].cfg["timer"])
    /\ req' = [req EXCEPT ![r] = NoRequest]
    /\ UNCHANGED <<file, bad, mem, up, timer, edited, edits, overlapped>>

\* <-s.historyIntervalChanged
restartTimer ==
    /\ up /\ notice
    /\ notice' = FALSE /\ timer' = mem["timer"]
    /\ UNCHANGED <<file, bad, mem, up, req, edited, edits, overlapped>>

\* <-periodicTimer.C, after the refresh
periodic ==
    /\ up /\ timer' = mem["timer"]
    /\ UNCHANGED <<file, bad, mem, up, req, notice, edited, edits, overlapped>>

\* The server ends, at any moment, and starts again if the file lets it.
ensureAndReload ==
    /\ req' = [r \in Request |-> NoRequest]
    /\ notice' = FALSE
    /\ up' = parseAppConfig(file)
    /\ IF up'
       THEN /\ file' = mergeAppConfigContent(file, Parsed(file), {})
            /\ mem' = Parsed(file) /\ timer' = Parsed(file)["timer"]
            /\ edited' = FALSE
       ELSE UNCHANGED <<file, mem, timer, edited>>
    /\ overlapped' = FALSE
    /\ UNCHANGED <<bad, edits>>

Next ==
    \/ \E k \in Key, v \in Value \cup {Absent} : editFile(k, v)
    \/ spoilFile \/ restartTimer \/ periodic \/ ensureAndReload
    \/ \E r \in Request :
          \/ \E set \in Sets : getConfig(r, set)
          \/ update(r) \/ updateFails(r) \/ notify(r)

Spec == Init /\ [][Next]_vars

-----------------------------------------------------------------------------
\* What the server works with is always legal, whatever is written into the file.
TypeOK ==
    /\ file \in [Key -> Value \cup {Absent}]
    /\ mem \in [Key -> Value] /\ validateAppConfig(mem)
    /\ timer \in Value /\ notice \in BOOLEAN /\ up \in BOOLEAN /\ bad \in BOOLEAN
    /\ req \in [Request -> Copy] /\ edited \in BOOLEAN /\ edits \in Nat
    /\ overlapped \in BOOLEAN

\* Unless somebody edited the file since, it says key by key what the server works
\* with, and the server could start from it: update and ensureAndReload adopt what
\* they wrote, also when the file was edited while the request was handled.
MemoryIsFile == up /\ ~edited => ~bad /\ file = mem

\* A successful request has what it asked for, also when its copy was outdated,
\* unless the file was edited by hand meanwhile.
AppliesRequest ==
    \A r \in Request : req[r].pc = "update" /\ req'[r].pc = "notify" /\ ~edited =>
        \A k \in DOMAIN req[r].set : mem'[k] = req[r].set[k]

\* An edit by hand of a key that the request does not name survives it
\* (mergeAppConfigContent), as long as requests come one at a time: PATCH names the
\* keys in which its copy differs from the present configuration.
SparesOtherKeys ==
    \A r \in Request : req[r].pc = "update" /\ req'[r].pc = "notify" =>
        \A k \in Key \ DOMAIN req[r].set : file[k] # Absent => file'[k] = file[k]

\* While nobody edits the file, the timer runs with the configured interval as soon
\* as the requests have ended and the notices are taken (api.md, PATCH /api/config).
TimersFollow ==
    up /\ edits = 0 /\ ~notice /\ (\A r \in Request : req[r].pc = "idle") =>
        timer = mem["timer"]

\* What the server works with is legal whatever is written into clamavweb.conf,
\* and it is what the file says unless somebody edited it; as long as requests have
\* come one at a time the timer then runs with the configured interval
\* (appConfigStore.update, handleServiceConfig).
ConfigInv == TypeOK /\ MemoryIsFile /\ (~overlapped => TimersFollow)

\* A successful request has what it asked for, also when its copy was outdated, and
\* as long as requests have come one at a time an edit by hand of a key that the
\* request does not name survives it (appConfigStore.update).
Applied == AppliesRequest /\ (~overlapped => SparesOtherKeys)

RequestIsApplied == [][Applied]_vars
=============================================================================
