------------------------------- MODULE Accounts -------------------------------
(***************************************************************************)
(* Accounts: registration (server/auth.go), PATCH and deletion by          *)
(* administrators and by their owners (server/users.go) and the steps of a *)
(* clean delete (server/cleanup.go), interleaved with the requests and     *)
(* scans that create what belongs to an account.                           *)
(*                                                                         *)
(* A request is authenticated first and acts later, as the user and with   *)
(* the role read then.  registrationMu and accountDeleteMu each serialise  *)
(* one kind of handler; PATCH takes neither.  Sessions are in Sessions.    *)
(***************************************************************************)
EXTENDS Naturals, Sequences

CONSTANTS
    Id,             \* user ids; random and never used again
    Name,           \* user names; free again once their account is deleted
    Req,            \* requests handled at the same time
    Ops,            \* kinds of requests that occur, a subset of AllOps
    RoleAsks,       \* what PATCH asks of the role: "keep", "user" or "admin"
    StatusAsks,     \* and of the status: "keep", "active" or "disabled"
    NewAssets,      \* what requests create, a subset of Kind
    MaxFail,        \* bound: steps that fail
    None

AllOps == {"register", "patch", "delete", "self", "create", "scan"}

\* What belongs to a user: batches waiting in the queue, the batch that runs,
\* a cron scan, enabled and disabled cron rules, ...
Kind == {"queue", "manual", "cronjob", "cron", "cronOff", "whitelist", "lookup",
         "quarantine", "results"}

ASSUME SetsAssumption ==
    /\ Ops \subseteq AllOps /\ NewAssets \subseteq Kind
    /\ RoleAsks \subseteq {"keep", "user", "admin"}
    /\ StatusAsks \subseteq {"keep", "active", "disabled"}
ASSUME BoundAssumption == MaxFail \in Nat /\ None \notin (Id \cup Name \cup Req)

VARIABLES
    users,      \* the users table: id -> [name, role, status]; status "none"
                \* before the row exists and "deleted" after it
    firstRun,   \* WEB_FIRSTRUN_COMPLETED # 0
    regMu,      \* the holder of registrationMu
    delMu,      \* the holder of accountDeleteMu
    h,          \* the requests under way
    assets,     \* id -> what belongs to it
    overlap,    \* history: ids for which something was created or a scan ran
                \* while their deletion was under way
    fails,      \* steps that have failed
    patched     \* history: PATCH has written a row

vars == <<users, firstRun, regMu, delMu, h, assets, overlap, fails, patched>>

NoUser == [name |-> None, role |-> "user", status |-> "none"]
Idle == [pc |-> "idle", who |-> None, me |-> None, name |-> None, id |-> None,
         role |-> "user", status |-> "none", ask |-> "keep", askStatus |-> "keep", step |-> 0]

\* The statuses of a row, and where the handlers of PATCH and of deletions are.
Exist == {"active", "disabled", "deleting"}
Status == Exist \cup {"none", "deleted"}
Patching == {"patchRole", "patchStatus", "patchUpdate", "patchCron"}
Deletion == {"delCheck", "delBusy", "delQueue", "delMark", "delClean"}
Place == {"idle", "authed", "insert", "delLock"} \cup Deletion \cup Patching

Exists(u) == users[u].status \in Exist
ActiveAdmin(u) == users[u].role = "admin" /\ users[u].status = "active"
Table == {u \in Id : Exists(u)}

\* SELECT COUNT(*) ... role='admin' AND status='active' AND username<>?
isLastActiveAdmin(name) == ~\E u \in Id : ActiveAdmin(u) /\ users[u].name # name

\* A new system, or one with an active account for every name, the first run
\* completed.
Init ==
    /\ \/ users = [u \in Id |-> NoUser] /\ firstRun = FALSE
       \/ /\ firstRun = TRUE
          /\ \E f \in [Name -> Id], roles \in [Name -> {"user", "admin"}] :
                /\ \A m, n \in Name : f[m] = f[n] => m = n
                /\ \E n \in Name : roles[n] = "admin"
                /\ users = [u \in Id |->
                      IF \E n \in Name : f[n] = u
                      THEN LET n == CHOOSE m \in Name : f[m] = u
                           IN  [name |-> n, role |-> roles[n], status |-> "active"]
                      ELSE NoUser]
    /\ regMu = None /\ delMu = None
    /\ h = [r \in Req |-> Idle]
    /\ assets = [u \in Id |-> {}]
    /\ overlap = {} /\ fails = 0 /\ patched = FALSE

Go(r, pc) == h' = [h EXCEPT ![r].pc = pc]
End(r) == h' = [h EXCEPT ![r] = Idle]

\* authenticateRequest: the actor is a copy of the row of an active user.
authenticate(r) ==
    /\ h[r].pc = "idle"
    /\ \E u \in Id :
          /\ users[u].status = "active"
          /\ h' = [h EXCEPT ![r] = [Idle EXCEPT !.pc = "authed", !.who = u,
                       !.me = users[u].name, !.role = users[u].role]]
    /\ UNCHANGED <<users, firstRun, regMu, delMu, assets, overlap, fails>>

handleFirstRunComplete(r) ==
    /\ h[r].pc = "authed" /\ h[r].role = "admin"
    /\ \E u \in Id : ActiveAdmin(u)
    /\ firstRun' = TRUE
    /\ End(r)
    /\ UNCHANGED <<users, regMu, delMu, assets, overlap, fails>>

-----------------------------------------------------------------------------
(* Registration.  The transaction it runs in is left out: what the mutex   *)
(* does not exclude may happen between its reads and its write.            *)

\* Mutation: registrationMu is not taken.
RegisterWithoutMutex(r) ==
    /\ "register" \in Ops
    /\ h[r].pc = "idle"
    /\ IF Table = {} THEN ~firstRun ELSE \E u \in Id : ActiveAdmin(u)
    /\ \E role \in {"user", "admin"} :
          h' = [h EXCEPT ![r] = [Idle EXCEPT !.pc = "insert",
                       !.ask = IF Table = {} THEN "anonymous" ELSE "keep",
                       !.role = IF Table = {} THEN "admin" ELSE role]]
    /\ UNCHANGED <<users, firstRun, regMu, delMu, assets, overlap, fails>>

\* An empty table takes the first administrator from anybody who has the token,
\* until the first run is completed; otherwise an administrator is needed.
registerCheck(r) ==
    /\ "register" \in Ops
    /\ h[r].pc = "idle" /\ regMu = None
    /\ IF Table = {} THEN ~firstRun ELSE \E u \in Id : ActiveAdmin(u)
    /\ regMu' = r
    /\ \E role \in {"user", "admin"} :
          h' = [h EXCEPT ![r] = [Idle EXCEPT !.pc = "insert",
                       !.ask = IF Table = {} THEN "anonymous" ELSE "keep",
                       !.role = IF Table = {} THEN "admin" ELSE role]]
    /\ UNCHANGED <<users, firstRun, delMu, assets, overlap, fails>>

\* Between them lies the password hash.  A name that is taken, or any other
\* error, ends the request without an account.
registerInsert(r) ==
    /\ h[r].pc = "insert"
    /\ \/ \E u \in Id, n \in Name :
             /\ users[u].status = "none"
             /\ \A v \in Table : users[v].name # n
             /\ users' = [users EXCEPT ![u] = [name |-> n, role |-> h[r].role, status |-> "active"]]
       \/ UNCHANGED users
    /\ regMu' = IF regMu = r THEN None ELSE regMu
    /\ End(r)
    /\ UNCHANGED <<firstRun, delMu, assets, overlap, fails>>

-----------------------------------------------------------------------------
(* PATCH /api/admin/users/{username}: no mutex, no transaction.            *)

patchSelect(r) ==
    /\ "patch" \in Ops
    /\ h[r].pc = "authed" /\ h[r].role = "admin"
    /\ \E u \in Table, ask \in RoleAsks, st \in StatusAsks :
          /\ ask # "keep" \/ st # "keep"
          /\ h' = [h EXCEPT ![r].pc = "patchRole", ![r].id = u, ![r].name = users[u].name,
                      ![r].role = users[u].role, ![r].status = users[u].status,
                      ![r].ask = ask, ![r].askStatus = st]
    /\ UNCHANGED <<users, firstRun, regMu, delMu, assets, overlap, fails>>

patchRole(r) ==
    LET ask == h[r].ask
    IN  /\ h[r].pc = "patchRole"
        /\ IF ask = "user" /\ h[r].role = "admin" /\ isLastActiveAdmin(h[r].name)
           THEN End(r)
           ELSE h' = [h EXCEPT ![r].pc = "patchStatus",
                               ![r].role = IF ask = "keep" THEN @ ELSE ask]
        /\ UNCHANGED <<users, firstRun, regMu, delMu, assets, overlap, fails>>

patchStatus(r) ==
    LET ask == h[r].askStatus
    IN  /\ h[r].pc = "patchStatus"
        /\ IF ask = "disabled" /\ h[r].role = "admin" /\ isLastActiveAdmin(h[r].name)
           THEN End(r)
           ELSE h' = [h EXCEPT ![r].pc = "patchUpdate",
                               ![r].status = IF ask = "keep" THEN @ ELSE ask]
        /\ UNCHANGED <<users, firstRun, regMu, delMu, assets, overlap, fails>>

\* Mutation: the row is found by its name.
UpdateByName(r) ==
    /\ h[r].pc = "patchUpdate"
    /\ users' = [u \in Id |-> IF Exists(u) /\ users[u].name = h[r].name
                   THEN [users[u] EXCEPT !.role = h[r].role, !.status = h[r].status] ELSE users[u]]
    /\ IF h[r].status = "disabled" THEN Go(r, "patchCron") ELSE End(r)
    /\ UNCHANGED <<firstRun, regMu, delMu, assets, overlap, fails>>

\* The whole row is written, by id; if it is gone nothing is.
patchUpdate(r) ==
    /\ h[r].pc = "patchUpdate"
    /\ users' = [u \in Id |-> IF Exists(u) /\ u = h[r].id
                   THEN [users[u] EXCEPT !.role = h[r].role, !.status = h[r].status] ELSE users[u]]
    /\ IF h[r].status = "disabled" THEN Go(r, "patchCron") ELSE End(r)
    /\ UNCHANGED <<firstRun, regMu, delMu, assets, overlap, fails>>

\* disableCronRulesForUser
patchCron(r) ==
    LET u == h[r].id
    IN  /\ h[r].pc = "patchCron"
        /\ \/ /\ assets' = [assets EXCEPT ![u] =
                     IF "cron" \in @ THEN (@ \ {"cron"}) \cup {"cronOff"} ELSE @]
              /\ UNCHANGED fails
           \/ fails < MaxFail /\ fails' = fails + 1 /\ UNCHANGED assets
        /\ End(r)
        /\ UNCHANGED <<users, firstRun, regMu, delMu, overlap>>

-----------------------------------------------------------------------------
(* cleanDeleteUser, for an administrator or for the user himself.          *)

handleAdminUserDelete(r) ==
    /\ "delete" \in Ops
    /\ h[r].pc = "authed" /\ h[r].role = "admin"
    /\ \E n \in Name \ {h[r].me} : h' = [h EXCEPT ![r].pc = "delLock", ![r].name = n, ![r].who = None]
    /\ UNCHANGED <<users, firstRun, regMu, delMu, assets, overlap, fails>>

\* The password is checked against the row of the actor's id; the deletion then
\* goes by the actor's name.
handleAuthAccount(r) ==
    /\ "self" \in Ops
    /\ h[r].pc = "authed"
    /\ Exists(h[r].who)
    /\ h' = [h EXCEPT ![r].pc = "delLock", ![r].name = h[r].me]
    /\ UNCHANGED <<users, firstRun, regMu, delMu, assets, overlap, fails>>

\* Mutation: accountDeleteMu is not taken.
SelectWithoutMutex(r) ==
    /\ h[r].pc = "delLock"
    /\ \/ \E u \in Table : users[u].name = h[r].name
                             /\ h' = [h EXCEPT ![r].pc = "delCheck", ![r].id = u,
                                        ![r].role = users[u].role, ![r].status = users[u].status]
       \/ (\A u \in Table : users[u].name # h[r].name) /\ End(r)
    /\ UNCHANGED <<users, firstRun, regMu, delMu, assets, overlap, fails>>

delSelect(r) ==
    /\ h[r].pc = "delLock" /\ delMu = None
    /\ \/ \E u \in Table : /\ users[u].name = h[r].name
                           /\ h' = [h EXCEPT ![r].pc = "delCheck", ![r].id = u,
                                      ![r].role = users[u].role, ![r].status = users[u].status]
                           /\ delMu' = r
       \/ (\A u \in Table : users[u].name # h[r].name) /\ End(r) /\ UNCHANGED delMu
    /\ UNCHANGED <<users, firstRun, regMu, assets, overlap, fails>>

delCheck(r) ==
    /\ h[r].pc = "delCheck"
    /\ IF h[r].role = "admin" /\ h[r].status = "active" /\ isLastActiveAdmin(h[r].name)
       THEN End(r) /\ delMu' = None
       ELSE Go(r, "delBusy") /\ UNCHANGED delMu
    /\ UNCHANGED <<users, firstRun, regMu, assets, overlap, fails>>

\* A job that waits or runs, according to the refreshed history, or fail.
delBusy(r) ==
    /\ h[r].pc = "delBusy"
    /\ IF assets[h[r].id] \cap {"manual", "cronjob"} # {}
       THEN End(r) /\ delMu' = None
       ELSE Go(r, "delQueue") /\ UNCHANGED delMu
    /\ UNCHANGED <<users, firstRun, regMu, assets, overlap, fails>>

\* Under server.mu: the active batch must not be the user's, waiting ones go.
delQueue(r) ==
    /\ h[r].pc = "delQueue"
    /\ IF "manual" \in assets[h[r].id]
       THEN End(r) /\ delMu' = None /\ UNCHANGED assets
       ELSE /\ Go(r, "delMark")
            /\ assets' = [assets EXCEPT ![h[r].id] = @ \ {"queue"}]
            /\ UNCHANGED delMu
    /\ UNCHANGED <<users, firstRun, regMu, overlap, fails>>

delMark(r) ==
    /\ h[r].pc = "delMark"
    /\ users' = [u \in Id |-> IF u = h[r].id /\ Exists(u)
                                THEN [users[u] EXCEPT !.status = "deleting"] ELSE users[u]]
    /\ h' = [h EXCEPT ![r].pc = "delClean", ![r].step = 1]
    /\ UNCHANGED <<firstRun, regMu, delMu, assets, overlap, fails>>

CleanSteps == <<{"lookup"}, {"cron", "cronOff"}, {"whitelist"}, {"quarantine"}, {"results"}>>

delClean(r) ==
    /\ h[r].pc = "delClean" /\ h[r].step <= Len(CleanSteps)
    /\ assets' = [assets EXCEPT ![h[r].id] = @ \ CleanSteps[h[r].step]]
    /\ h' = [h EXCEPT ![r].step = @ + 1]
    /\ UNCHANGED <<users, firstRun, regMu, delMu, overlap, fails>>

delRow(r) ==
    /\ h[r].pc = "delClean" /\ h[r].step > Len(CleanSteps)
    /\ users' = [users EXCEPT ![h[r].id].status = "deleted"]
    /\ delMu' = None
    /\ End(r)
    /\ UNCHANGED <<firstRun, regMu, assets, overlap, fails>>

\* Where cleanDeleteUser can return an error (the lookups of step 1 are in memory).
MayFail(r) == \/ h[r].pc \in {"delCheck", "delBusy", "delMark"}
              \/ h[r].pc = "delClean" /\ h[r].step > 1

\* Mutation: an error of a cleaning step is logged and the next step taken.
FailGoesOn(r) ==
    /\ MayFail(r) /\ h[r].pc = "delClean" /\ h[r].step <= Len(CleanSteps)
    /\ fails < MaxFail /\ fails' = fails + 1
    /\ h' = [h EXCEPT ![r].step = @ + 1]
    /\ UNCHANGED <<users, firstRun, regMu, delMu, assets, overlap>>

\* Mutation: an error leaves the mutex locked.
FailKeepsMutex(r) ==
    /\ MayFail(r) /\ fails < MaxFail /\ fails' = fails + 1
    /\ End(r)
    /\ UNCHANGED <<users, firstRun, regMu, delMu, assets, overlap>>

\* The first error ends the request; what was done before it stays done, and the
\* user stays marked deleting.
delFail(r) ==
    /\ MayFail(r) /\ fails < MaxFail /\ fails' = fails + 1
    /\ delMu' = None
    /\ End(r)
    /\ UNCHANGED <<users, firstRun, regMu, assets, overlap>>

-----------------------------------------------------------------------------
(* What the user's other requests, his cron rules and his scans do.        *)

Deleting(u) == \E r \in Req : h[r].id = u /\ h[r].pc \in Deletion
Touch(u, set) == /\ assets' = [assets EXCEPT ![u] = set]
                 /\ overlap' = IF Deleting(u) \/ users[u].status # "active" THEN overlap \cup {u} ELSE overlap

\* A request authenticated earlier queues a batch, adds a rule, starts a lookup ...
createAsset(r) ==
    /\ "create" \in Ops
    /\ h[r].pc = "authed"
    /\ \E k \in NewAssets : Touch(h[r].who, assets[h[r].who] \cup {k})
    /\ End(r)
    /\ UNCHANGED <<users, firstRun, regMu, delMu, fails>>

\* The queue runner starts a batch, cron fires an enabled rule.
scanStarts(u) ==
    /\ "scan" \in Ops
    /\ \/ "queue" \in assets[u] /\ Touch(u, (assets[u] \ {"queue"}) \cup {"manual"})
       \/ "cron" \in assets[u] /\ Touch(u, assets[u] \cup {"cronjob"})
    /\ UNCHANGED <<users, firstRun, regMu, delMu, h, fails>>

scanEnds(u) ==
    /\ \E k \in assets[u] \cap {"manual", "cronjob"}, found \in {{}, {"quarantine"}} :
          Touch(u, (assets[u] \ {k}) \cup {"results"} \cup found)
    /\ UNCHANGED <<users, firstRun, regMu, delMu, h, fails>>

Delete(r) ==
    \/ delSelect(r) \/ delCheck(r) \/ delBusy(r) \/ delQueue(r) \/ delMark(r)
    \/ delClean(r) \/ delRow(r) \/ delFail(r)

Handler(r) ==
    \/ authenticate(r) \/ handleFirstRunComplete(r)
    \/ registerCheck(r) \/ registerInsert(r)
    \/ patchSelect(r) \/ patchRole(r) \/ patchStatus(r) \/ patchUpdate(r) \/ patchCron(r)
    \/ handleAdminUserDelete(r) \/ handleAuthAccount(r) \/ Delete(r)
    \/ createAsset(r)

Remember == patched' = (patched \/ \E r \in Req : h[r].pc = "patchUpdate" /\ h'[r].pc # "patchUpdate")

Next ==
    /\ (\E r \in Req : Handler(r)) \/ (\E u \in Id : scanStarts(u) \/ scanEnds(u))
    /\ Remember

Spec == Init /\ [][Next]_vars

\* Handlers run to their end, scans end, and an administrator who sees an account
\* marked deleting asks again.
Retry(u) ==
    \E r \in Req : users[u].status = "deleting" /\ delMu = None /\ handleAdminUserDelete(r)
                     /\ h'[r].name = users[u].name
Fairness ==
    /\ \A r \in Req : WF_vars(Delete(r) /\ Remember) /\ WF_vars(authenticate(r) /\ Remember)
    /\ \A u \in Id : WF_vars(scanEnds(u) /\ Remember) /\ SF_vars(Retry(u) /\ Remember)

-----------------------------------------------------------------------------
User == [name : Name \cup {None}, role : {"user", "admin"}, status : Status]

Request ==
    [pc : Place, who : Id \cup {None}, me : Name \cup {None}, name : Name \cup {None},
     id : Id \cup {None}, role : {"user", "admin"}, status : Status,
     ask : {"keep", "user", "admin", "anonymous"},
     askStatus : {"keep", "active", "disabled"}, step : 0..Len(CleanSteps) + 1]

\* Every variable holds a value of its type, and no two accounts have one name.
TypeOK ==
    /\ users \in [Id -> User] /\ h \in [Req -> Request]
    /\ firstRun \in BOOLEAN /\ patched \in BOOLEAN
    /\ regMu \in Req \cup {None} /\ delMu \in Req \cup {None}
    /\ assets \in [Id -> SUBSET Kind] /\ overlap \subseteq Id /\ fails \in 0..MaxFail
    /\ \A u, v \in Table : users[u].name = users[v].name => u = v

\* As long as there are accounts one of them is an active administrator.
AdminRemains == Table # {} => \E u \in Id : ActiveAdmin(u)

\* An account is created without an administrator only when there is none at all:
\* two requests with the bootstrap token never both succeed (handleAuthRegister).
AnonymousOnlyWhenEmpty ==
    [][\A r \in Req : h[r].pc = "insert" /\ h[r].ask = "anonymous" /\ users' # users => Table = {}]_vars

\* PATCH changes the account it read, never the one that has meanwhile been
\* created under the same name (patchAdminUser).
PatchSparesNamesake ==
    [][\A r \in Req, u \in Id : h[r].pc = "patchUpdate" /\ h'[r].pc # "patchUpdate" /\ users'[u] # users[u]
                                   => u = h[r].id]_vars

\* A completed deletion, after any number of failed ones, leaves nothing of the
\* account unless a request or a scan of the user overlapped it (cleanDeleteUser).
DeletionIsComplete ==
    \A u \in Id : users[u].status = "deleted" /\ u \notin overlap => assets[u] = {}

\* The accounts, the mutexes and the requests have their types, and an account
\* whose row is gone has left nothing behind that did not come in by a request
\* overlapping the deletion (cleanDeleteUser).
AccountInv == TypeOK /\ DeletionIsComplete

\* Deletions, of oneself and of others, never remove the last active administrator,
\* however they and registrations overlap; PATCH may (cleanDeleteUser).
DeletionsKeepAdmin == ~patched => AdminRemains

\* A deletion that stopped half-way can be finished by asking again (api.md:313).
DeletionCompletes == \A u \in Id : users[u].status = "deleting" ~> users[u].status = "deleted"
=============================================================================
