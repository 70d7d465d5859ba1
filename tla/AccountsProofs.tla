---------------------------- MODULE AccountsProofs ----------------------------
(***************************************************************************)
(* Proofs about accounts, for any number of accounts, names, concurrent    *)
(* requests and failing steps.                                             *)
(***************************************************************************)
EXTENDS Accounts, TLAPS

-----------------------------------------------------------------------------
(* The inductive invariant.                                                *)

\* Who holds registrationMu registers and who holds accountDeleteMu deletes; a
\* deletion goes on about an account that exists and has the name it began with.
Sound(r) ==
    /\ h[r].pc = "insert" <=> regMu = r
    /\ h[r].pc \in Deletion <=> delMu = r
    /\ h[r].pc = "authed" => h[r].who \in Id
    /\ h[r].pc \in Deletion => /\ h[r].id \in Id /\ Exists(h[r].id)
                          /\ users[h[r].id].name = h[r].name
    /\ h[r].pc \in Patching => h[r].ask # "anonymous" /\ h[r].id \in Id /\ h[r].status \in Exist
    /\ h[r].pc = "delClean" => h[r].step # 0
Mutexes == \A r \in Req : Sound(r)

\* A registration that was let in without an administrator still finds no account,
\* and it makes an administrator.
Anonymous(r) == h[r].pc = "insert" /\ h[r].ask = "anonymous"
Bootstrap == \A r \in Req : Anonymous(r) => Table = {} /\ h[r].role = "admin"

\* What a deletion has removed stays removed, unless the user's own requests and
\* scans overlap it.
Removed(r) ==
    h[r].id \notin overlap =>
        /\ h[r].pc \in {"delQueue", "delMark", "delClean"} =>
              assets[h[r].id] \cap {"manual", "cronjob"} = {}
        /\ h[r].pc \in {"delMark", "delClean"} => "queue" \notin assets[h[r].id]
        /\ h[r].pc = "delClean" =>
              \A k \in 1..Len(CleanSteps) : k < h[r].step => assets[h[r].id] \cap CleanSteps[k] = {}
Cleaned == \A r \in Req : Removed(r)

\* Without PATCH nobody loses his role, a deletion in progress knows the role and
\* the status of its account, and past its check there is another administrator.
Spared(r) ==
    /\ h[r].pc = "insert" /\ h[r].ask # "anonymous" => Table # {}
    /\ h[r].pc \in Deletion \ {"delClean"} => /\ users[h[r].id].role = h[r].role
                                            /\ users[h[r].id].status = h[r].status
    /\ h[r].pc \in {"delBusy", "delQueue", "delMark"} =>
          ~ActiveAdmin(h[r].id) \/ \E v \in Id \ {h[r].id} : ActiveAdmin(v)
    /\ h[r].pc = "delClean" => users[h[r].id].status = "deleting"
Admins == ~patched => \A r \in Req : Spared(r)

IInv ==
    /\ TypeOK /\ Mutexes /\ Bootstrap
    /\ DeletionIsComplete /\ Cleaned
    /\ DeletionsKeepAdmin /\ Admins

-----------------------------------------------------------------------------
(* Lemmas on the records of the model.                                     *)

\* The clean-up has five steps, which together remove what no other step does.
LEMMA FiveSteps ==
  /\ Len(CleanSteps) = 5
  /\ CleanSteps[1] = {"lookup"} /\ CleanSteps[2] = {"cron", "cronOff"}
  /\ CleanSteps[3] = {"whitelist"} /\ CleanSteps[4] = {"quarantine"} /\ CleanSteps[5] = {"results"}
  BY DEF CleanSteps

\* A request that does not exist is a request.
LEMMA IdleRequest == Idle \in Request
  BY FiveSteps DEF Idle, Request, Place, Status, Exist

\* The ways in which handlers change what they remember: a step without result,
LEMMA Moved ==
  ASSUME NEW c \in Request, NEW pc \in Place
  PROVE  [c EXCEPT !.pc = pc] \in Request
  BY FiveSteps DEF Request

\* the actor is authenticated,
LEMMA ActorRead ==
  ASSUME NEW c \in Request, NEW pc \in Place, NEW u \in Id,
         NEW n \in Name \cup {None}, NEW role \in {"user", "admin"}
  PROVE  [c EXCEPT !.pc = pc, !.who = u, !.me = n, !.role = role] \in Request
  BY FiveSteps DEF Request

\* a registration is let in,
LEMMA Admitted ==
  ASSUME NEW c \in Request, NEW pc \in Place,
         NEW a \in {"keep", "user", "admin", "anonymous"}, NEW role \in {"user", "admin"}
  PROVE  [c EXCEPT !.pc = pc, !.ask = a, !.role = role] \in Request
  BY FiveSteps DEF Request

\* decides on the role,
LEMMA RoleChosen ==
  ASSUME NEW c \in Request, NEW pc \in Place, NEW role \in {"user", "admin"}
  PROVE  [c EXCEPT !.pc = pc, !.role = role] \in Request
  BY FiveSteps DEF Request

\* and on the status;
LEMMA StatusChosen ==
  ASSUME NEW c \in Request, NEW pc \in Place, NEW st \in Status
  PROVE  [c EXCEPT !.pc = pc, !.status = st] \in Request
  BY FiveSteps DEF Request

\* a deletion is given a name,
LEMMA NameGiven ==
  ASSUME NEW c \in Request, NEW pc \in Place, NEW n \in Name \cup {None}
  PROVE  [c EXCEPT !.pc = pc, !.name = n] \in Request
  BY FiveSteps DEF Request

\* perhaps of somebody else,
LEMMA OtherNamed ==
  ASSUME NEW c \in Request, NEW pc \in Place, NEW n \in Name \cup {None}
  PROVE  [c EXCEPT !.pc = pc, !.name = n, !.who = None] \in Request
  BY FiveSteps DEF Request

\* finds the row,
LEMMA RowFound ==
  ASSUME NEW c \in Request, NEW pc \in Place, NEW u \in Id,
         NEW role \in {"user", "admin"}, NEW st \in Status
  PROVE  [c EXCEPT !.pc = pc, !.id = u, !.role = role, !.status = st] \in Request
  BY FiveSteps DEF Request

\* begins to clean,
LEMMA CleanBegun ==
  ASSUME NEW c \in Request, NEW pc \in Place
  PROVE  [c EXCEPT !.pc = pc, !.step = 1] \in Request
<1>1. 1 \in 0..Len(CleanSteps) + 1
  BY FiveSteps
<1>2. QED
  BY <1>1 DEF Request

\* and goes on to the next step.
LEMMA CleanGoesOn ==
  ASSUME NEW c \in Request, c.step <= Len(CleanSteps)
  PROVE  [c EXCEPT !.step = @ + 1] \in Request
  BY FiveSteps DEF Request

-----------------------------------------------------------------------------
(* What the actions do to the requests: a handler changes its own only.    *)

Own(r) == h' \in [Req -> Request] /\ \A q \in Req \ {r} : h'[q] = h[q]

\* The account a request is about stays the same.
Same(r) ==
    /\ h'[r].id = h[r].id /\ h'[r].name = h[r].name
    /\ h'[r].role = h[r].role /\ h'[r].status = h[r].status /\ h'[r].ask = h[r].ask

\* A handler that ends forgets everything.
LEMMA EndEffect ==
  ASSUME TypeOK, NEW r \in Req, End(r)
  PROVE  Own(r) /\ h'[r].pc = "idle"
<1>1. Own(r) /\ h'[r] = Idle
  BY IdleRequest DEF TypeOK, End, Own
<1>2. QED
  BY <1>1 DEF Idle

\* A handler that goes on changes nothing but its place.
LEMMA GoEffect ==
  ASSUME TypeOK, NEW r \in Req, NEW pc \in Place, Go(r, pc)
  PROVE  Own(r) /\ h'[r].pc = pc /\ Same(r)
<1>1. [h[r] EXCEPT !.pc = pc] \in Request
  BY Moved DEF TypeOK
<1>2. h' = [h EXCEPT ![r] = [h[r] EXCEPT !.pc = pc]]
  BY DEF Go
<1>3. Own(r) /\ h'[r] = [h[r] EXCEPT !.pc = pc]
  BY <1>1, <1>2 DEF TypeOK, Own
<1>4. QED
  BY <1>3 DEF TypeOK, Request, Same

\* authenticateRequest remembers the id, the name and the role of an account.
AuthenticateDone(r) ==
    /\ Own(r) /\ h[r].pc = "idle" /\ h'[r].pc = "authed" /\ h'[r].who \in Id
    /\ UNCHANGED <<users, regMu, delMu, assets, overlap>>

LEMMA AuthenticateEffect ==
  ASSUME TypeOK, NEW r \in Req, authenticate(r)
  PROVE  AuthenticateDone(r)
<1>1. PICK u \in Id : h' = [h EXCEPT ![r] = [Idle EXCEPT !.pc = "authed", !.who = u,
                                              !.me = users[u].name, !.role = users[u].role]]
  BY DEF authenticate
<1> DEFINE n == users[u].name
           role == users[u].role
           c == [Idle EXCEPT !.pc = "authed", !.who = u, !.me = n, !.role = role]
<1>2. n \in Name \cup {None} /\ role \in {"user", "admin"}
  BY DEF TypeOK, User
<1>3. h' = [h EXCEPT ![r] = c]
  BY <1>1
<1> HIDE DEF n, role
<1>4. c \in Request
  BY <1>2, IdleRequest, ActorRead DEF Place
<1>5. c.pc = "authed" /\ c.who = u
  BY DEF Idle
<1> HIDE DEF c
<1>6. Own(r) /\ h'[r] = c
  BY <1>3, <1>4 DEF TypeOK, Own
<1>7. QED
  BY <1>5, <1>6 DEF AuthenticateDone, authenticate

\* A registration is let in for the bootstrap or by an administrator.
RegisterCheckDone(r) ==
    /\ Own(r) /\ h[r].pc = "idle" /\ h'[r].pc = "insert" /\ regMu = None /\ regMu' = r
    /\ (h'[r].ask = "anonymous") <=> (Table = {})
    /\ Table = {} => h'[r].role = "admin"
    /\ UNCHANGED <<users, delMu, assets, overlap>>

LEMMA RegisterCheckEffect ==
  ASSUME TypeOK, NEW r \in Req, registerCheck(r)
  PROVE  RegisterCheckDone(r)
<1>1. PICK role \in {"user", "admin"} :
        h' = [h EXCEPT ![r] = [Idle EXCEPT !.pc = "insert",
                       !.ask = IF Table = {} THEN "anonymous" ELSE "keep",
                       !.role = IF Table = {} THEN "admin" ELSE role]]
  BY DEF registerCheck
<1> DEFINE a == IF Table = {} THEN "anonymous" ELSE "keep"
           b == IF Table = {} THEN "admin" ELSE role
           c == [Idle EXCEPT !.pc = "insert", !.ask = a, !.role = b]
<1>2. a \in {"keep", "user", "admin", "anonymous"} /\ b \in {"user", "admin"}
  OBVIOUS
<1>3. h' = [h EXCEPT ![r] = c]
  BY <1>1
<1>4. (a = "anonymous" <=> Table = {}) /\ (Table = {} => b = "admin")
  OBVIOUS
<1> HIDE DEF a, b
<1>5. c \in Request
  BY <1>2, IdleRequest, Admitted DEF Place
<1>6. c.pc = "insert" /\ c.ask = a /\ c.role = b
  BY DEF Idle
<1> HIDE DEF c
<1>7. Own(r) /\ h'[r] = c
  BY <1>3, <1>5 DEF TypeOK, Own
<1>8. QED
  BY <1>4, <1>6, <1>7 DEF RegisterCheckDone, registerCheck

\* PATCH remembers a row that exists.
PatchSelectDone(r) ==
    /\ Own(r) /\ h[r].pc = "authed" /\ h'[r].pc = "patchRole"
    /\ h'[r].ask # "anonymous" /\ h'[r].id \in Id /\ h'[r].status \in Exist
    /\ UNCHANGED <<users, regMu, delMu, assets, overlap>>

LEMMA PatchSelectEffect ==
  ASSUME TypeOK, NEW r \in Req, patchSelect(r)
  PROVE  PatchSelectDone(r)
<1>1. PICK u \in Table, ask \in RoleAsks, st \in StatusAsks :
        h' = [h EXCEPT ![r].pc = "patchRole", ![r].id = u, ![r].name = users[u].name,
                      ![r].role = users[u].role, ![r].status = users[u].status,
                      ![r].ask = ask, ![r].askStatus = st]
  BY DEF patchSelect
<1> DEFINE n == users[u].name
           role == users[u].role
           status == users[u].status
           c == [h[r] EXCEPT !.pc = "patchRole", !.id = u, !.name = n, !.role = role, !.status = status,
                             !.ask = ask, !.askStatus = st]
<1>2. /\ u \in Id /\ n \in Name \cup {None} /\ role \in {"user", "admin"} /\ status \in Exist
      /\ ask \in {"keep", "user", "admin"} /\ st \in {"keep", "active", "disabled"}
  BY SetsAssumption DEF TypeOK, User, Table, Exists
<1>3. h' = [h EXCEPT ![r] = c]
  BY <1>1
<1> HIDE DEF n, role, status
<1>4. c \in Request
  <2>1. status \in Status /\ h[r] \in Request
    BY <1>2 DEF Status, TypeOK
  <2>2. "patchRole" \in Place
    BY DEF Place, Patching
  <2>3. QED
    BY <1>2, <2>1, <2>2 DEF Request
<1>5. c.pc = "patchRole" /\ c.id = u /\ c.status = status /\ c.ask = ask
  BY DEF TypeOK, Request
<1> HIDE DEF c
<1>6. Own(r) /\ h'[r] = c
  BY <1>3, <1>4 DEF TypeOK, Own
<1>7. QED
  BY <1>2, <1>5, <1>6 DEF PatchSelectDone, patchSelect

\* PATCH decides on the role of the account it read.
PatchRoleDone(r) ==
    /\ Own(r) /\ h[r].pc = "patchRole" /\ h'[r].pc \in {"idle", "patchStatus"}
    /\ h'[r].pc = "patchStatus" => /\ h'[r].id = h[r].id /\ h'[r].status = h[r].status
                                  /\ h'[r].ask = h[r].ask
    /\ UNCHANGED <<users, regMu, delMu, assets, overlap>>

LEMMA PatchRoleEffect ==
  ASSUME TypeOK, NEW r \in Req, patchRole(r), h[r].ask # "anonymous"
  PROVE  PatchRoleDone(r)
<1>1. CASE End(r)
  BY <1>1, EndEffect DEF PatchRoleDone, patchRole
<1>2. CASE h' = [h EXCEPT ![r].pc = "patchStatus",
                         ![r].role = IF h[r].ask = "keep" THEN @ ELSE h[r].ask]
  <2> DEFINE role == IF h[r].ask = "keep" THEN h[r].role ELSE h[r].ask
             c == [h[r] EXCEPT !.pc = "patchStatus", !.role = role]
  <2>1. role \in {"user", "admin"} /\ h[r] \in Request
    BY <1>2 DEF TypeOK, Request
  <2>2. h' = [h EXCEPT ![r] = c]
    BY <1>2 DEF TypeOK, Request
  <2> HIDE DEF role
  <2>3. c \in Request
    BY <2>1, RoleChosen DEF Place, Patching
  <2>4. c.pc = "patchStatus" /\ c.id = h[r].id /\ c.status = h[r].status /\ c.ask = h[r].ask
    BY DEF TypeOK, Request
  <2> HIDE DEF c
  <2>5. Own(r) /\ h'[r] = c
    BY <2>2, <2>3 DEF TypeOK, Own
  <2>6. QED
    BY <2>4, <2>5 DEF PatchRoleDone, patchRole
<1>3. QED
  BY <1>1, <1>2 DEF PatchRoleDone, patchRole

\* PATCH decides on the status.
PatchStatusDone(r) ==
    /\ Own(r) /\ h[r].pc = "patchStatus" /\ h'[r].pc \in {"idle", "patchUpdate"}
    /\ h'[r].pc = "patchUpdate" => h'[r].id = h[r].id /\ h'[r].ask = h[r].ask
    /\ h'[r].pc = "patchUpdate" /\ h[r].status \in Exist => h'[r].status \in Exist
    /\ UNCHANGED <<users, regMu, delMu, assets, overlap>>

LEMMA PatchStatusEffect ==
  ASSUME TypeOK, NEW r \in Req, patchStatus(r)
  PROVE  PatchStatusDone(r)
<1>1. CASE End(r)
  BY <1>1, EndEffect DEF PatchStatusDone, patchStatus
<1>2. CASE h' = [h EXCEPT ![r].pc = "patchUpdate",
                         ![r].status = IF h[r].askStatus = "keep" THEN @ ELSE h[r].askStatus]
  <2> DEFINE st == IF h[r].askStatus = "keep" THEN h[r].status ELSE h[r].askStatus
             c == [h[r] EXCEPT !.pc = "patchUpdate", !.status = st]
  <2>1. st \in Status /\ h[r] \in Request /\ (h[r].status \in Exist => st \in Exist)
    BY DEF TypeOK, Request, Status, Exist
  <2>2. h' = [h EXCEPT ![r] = c]
    BY <1>2 DEF TypeOK, Request
  <2> HIDE DEF st
  <2>3. c \in Request
    BY <2>1, StatusChosen DEF Place, Patching
  <2>4. c.pc = "patchUpdate" /\ c.id = h[r].id /\ c.status = st /\ c.ask = h[r].ask
    BY DEF TypeOK, Request
  <2> HIDE DEF c
  <2>5. Own(r) /\ h'[r] = c
    BY <2>2, <2>3 DEF TypeOK, Own
  <2>6. QED
    BY <2>1, <2>4, <2>5 DEF PatchStatusDone, patchStatus
<1>3. QED
  BY <1>1, <1>2 DEF PatchStatusDone, patchStatus

\* PATCH writes the role and the status of the row it read, if that still exists.
PatchUpdateDone(r) ==
    /\ Own(r) /\ h[r].pc = "patchUpdate" /\ h'[r].pc \in {"idle", "patchCron"}
    /\ h'[r].pc = "patchCron" => Same(r)
    /\ users' \in [Id -> User]
    /\ \A u \in Id \ {h[r].id} : users[u] = users'[u]
    /\ \A u \in Id : ~Exists(u) => users[u] = users'[u]
    /\ \A u \in Id : users'[u].name = users[u].name
    /\ \A u \in Id : h[r].status \in Exist /\ Exists(u) => users'[u].status \in Exist
    /\ UNCHANGED <<regMu, delMu, assets, overlap>>

LEMMA PatchUpdateEffect ==
  ASSUME TypeOK, NEW r \in Req, patchUpdate(r)
  PROVE  PatchUpdateDone(r)
<1>1. Own(r) /\ h'[r].pc \in {"idle", "patchCron"}
      /\ (h'[r].pc = "patchCron" => Same(r))
  <2>1. CASE End(r)
    BY <2>1, EndEffect
  <2>2. CASE Go(r, "patchCron")
    BY <2>2, GoEffect DEF Place, Patching
  <2>3. QED
    BY <2>1, <2>2 DEF patchUpdate
<1>3. ASSUME NEW u \in Id
      PROVE  LET x == [users[u] EXCEPT !.role = h[r].role, !.status = h[r].status]
             IN  x \in User /\ x.name = users[u].name /\ x.status = h[r].status
  <2>1. /\ h[r].role \in {"user", "admin"} /\ h[r].status \in Status
        /\ users[u] \in User
    BY DEF TypeOK, Request
  <2>2. QED
    BY <2>1 DEF User
<1>4. users' \in [Id -> User]
  BY <1>3 DEF patchUpdate, TypeOK
<1>5. ASSUME NEW u \in Id
      PROVE  /\ u # h[r].id => users[u] = users'[u]
             /\ ~Exists(u) => users[u] = users'[u]
             /\ users'[u].name = users[u].name
             /\ h[r].status \in Exist /\ Exists(u) => users'[u].status \in Exist
  BY <1>3 DEF patchUpdate, Exists
<1>6. QED
  BY <1>1, <1>4, <1>5 DEF PatchUpdateDone, patchUpdate

\* A deletion is asked for by name.
AdminDeleteDone(r) ==
    /\ Own(r) /\ h[r].pc = "authed" /\ h'[r].pc = "delLock"
    /\ UNCHANGED <<users, regMu, delMu, assets, overlap>>

LEMMA AdminDeleteEffect ==
  ASSUME TypeOK, NEW r \in Req, handleAdminUserDelete(r)
  PROVE  AdminDeleteDone(r)
<1>1. PICK n \in Name : h' = [h EXCEPT ![r].pc = "delLock", ![r].name = n, ![r].who = None]
  BY DEF handleAdminUserDelete
<1> DEFINE c == [h[r] EXCEPT !.pc = "delLock", !.name = n, !.who = None]
<1>2. c \in Request
  BY OtherNamed DEF TypeOK, Place
<1>3. h' = [h EXCEPT ![r] = c]
  BY <1>1
<1>4. c.pc = "delLock"
  BY DEF TypeOK, Request
<1> HIDE DEF c
<1>5. QED
  BY <1>2, <1>3, <1>4 DEF AdminDeleteDone, TypeOK, Own, handleAdminUserDelete

\* ... also by its own.
SelfDeleteDone(r) ==
    /\ Own(r) /\ h[r].pc = "authed" /\ h'[r].pc = "delLock"
    /\ UNCHANGED <<users, regMu, delMu, assets, overlap>>

LEMMA SelfDeleteEffect ==
  ASSUME TypeOK, NEW r \in Req, handleAuthAccount(r)
  PROVE  SelfDeleteDone(r)
<1> DEFINE c == [h[r] EXCEPT !.pc = "delLock", !.name = h[r].me]
<1>1. h[r] \in Request /\ h[r].me \in Name \cup {None}
  BY DEF TypeOK, Request
<1>2. c \in Request
  BY <1>1, NameGiven DEF Place
<1>3. h' = [h EXCEPT ![r].pc = "delLock", ![r].name = h[r].me]
  BY DEF handleAuthAccount
<1>4. h' = [h EXCEPT ![r] = c]
  BY <1>3
<1>5. c.pc = "delLock"
  BY <1>1 DEF Request
<1> HIDE DEF c
<1>6. QED
  BY <1>2, <1>4, <1>5 DEF SelfDeleteDone, TypeOK, Own, handleAuthAccount

\* The deletion takes the mutex and the row that has the name now, or ends.
DelSelectDone(r) ==
    /\ Own(r) /\ h[r].pc = "delLock" /\ delMu = None
    /\ \/ h'[r].pc = "idle" /\ delMu' = delMu
       \/ /\ h'[r].pc = "delCheck" /\ delMu' = r /\ h'[r].id \in Table
          /\ users[h'[r].id].name = h'[r].name
          /\ users[h'[r].id].role = h'[r].role /\ users[h'[r].id].status = h'[r].status
    /\ UNCHANGED <<users, regMu, assets, overlap>>

LEMMA DelSelectEffect ==
  ASSUME TypeOK, NEW r \in Req, delSelect(r)
  PROVE  DelSelectDone(r)
<1>1. CASE End(r) /\ UNCHANGED delMu
  BY <1>1, EndEffect DEF DelSelectDone, delSelect
<1>2. ASSUME NEW u \in Table, users[u].name = h[r].name, delMu' = r,
             h' = [h EXCEPT ![r].pc = "delCheck", ![r].id = u,
                            ![r].role = users[u].role, ![r].status = users[u].status]
      PROVE  /\ Own(r) /\ h'[r].pc = "delCheck" /\ h'[r].id = u
             /\ users[u].name = h'[r].name /\ users[u].role = h'[r].role /\ users[u].status = h'[r].status
  <2> DEFINE role == users[u].role
             st == users[u].status
             c == [h[r] EXCEPT !.pc = "delCheck", !.id = u, !.role = role, !.status = st]
  <2>1. h[r] \in Request /\ u \in Id /\ role \in {"user", "admin"} /\ st \in Status
    BY DEF TypeOK, User, Table
  <2>2. h' = [h EXCEPT ![r] = c]
    BY <1>2
  <2> HIDE DEF role, st
  <2>3. c \in Request
    BY <2>1, RowFound DEF Place, Deletion
  <2>4. c.pc = "delCheck" /\ c.id = u /\ c.role = role /\ c.status = st /\ c.name = h[r].name
    BY <2>1 DEF Request
  <2> HIDE DEF c
  <2>5. Own(r) /\ h'[r] = c
    BY <2>2, <2>3 DEF TypeOK, Own
  <2>6. QED
    BY <1>2, <2>4, <2>5 DEF role, st
<1>3. QED
  BY <1>1, <1>2 DEF DelSelectDone, delSelect

\* The row is marked and the clean-up begins.
DelMarkDone(r) ==
    /\ Own(r) /\ h[r].pc = "delMark" /\ h'[r].pc = "delClean" /\ Same(r) /\ h'[r].step = 1
    /\ users' \in [Id -> User]
    /\ \A u \in Id \ {h[r].id} : users[u] = users'[u]
    /\ \A u \in Id : ~Exists(u) => users[u] = users'[u]
    /\ \A u \in Id : users'[u].name = users[u].name /\ users'[u].role = users[u].role
    /\ \A u \in Id : u = h[r].id /\ Exists(u) => users'[u].status = "deleting"
    /\ UNCHANGED <<regMu, delMu, assets, overlap>>

LEMMA DelMarkEffect ==
  ASSUME TypeOK, NEW r \in Req, delMark(r)
  PROVE  DelMarkDone(r)
<1> DEFINE c == [h[r] EXCEPT !.pc = "delClean", !.step = 1]
<1>1. c \in Request
  BY CleanBegun DEF TypeOK, Place, Deletion
<1>2. h' = [h EXCEPT ![r] = c]
  BY DEF delMark
<1>3. /\ c.pc = "delClean" /\ c.step = 1 /\ c.id = h[r].id /\ c.name = h[r].name
      /\ c.role = h[r].role /\ c.status = h[r].status /\ c.ask = h[r].ask
  BY DEF TypeOK, Request
<1> HIDE DEF c
<1>4. Own(r) /\ h'[r] = c
  BY <1>1, <1>2 DEF TypeOK, Own
<1>5. ASSUME NEW u \in Id
      PROVE  LET x == [users[u] EXCEPT !.status = "deleting"]
             IN  x \in User /\ x.name = users[u].name /\ x.role = users[u].role /\ x.status = "deleting"
  BY DEF TypeOK, User, Status, Exist
<1>6. users' \in [Id -> User]
  BY <1>5 DEF delMark, TypeOK
<1>7. ASSUME NEW u \in Id
      PROVE  /\ u # h[r].id => users[u] = users'[u]
             /\ ~Exists(u) => users[u] = users'[u]
             /\ users'[u].name = users[u].name /\ users'[u].role = users[u].role
             /\ u = h[r].id /\ Exists(u) => users'[u].status = "deleting"
  BY <1>5 DEF delMark
<1>8. QED
  BY <1>3, <1>4, <1>6, <1>7 DEF DelMarkDone, delMark, Same

\* One step of the clean-up has been done.
DelCleanDone(r) ==
    /\ Own(r) /\ h[r].pc = "delClean" /\ h'[r].pc = "delClean" /\ Same(r)
    /\ h[r].step \in 0..Len(CleanSteps) /\ h'[r].step = h[r].step + 1
    /\ UNCHANGED <<users, regMu, delMu, overlap>>

LEMMA DelCleanEffect ==
  ASSUME TypeOK, NEW r \in Req, delClean(r)
  PROVE  DelCleanDone(r)
<1> DEFINE c == [h[r] EXCEPT !.step = @ + 1]
<1>1. h[r] \in Request /\ h[r].pc = "delClean" /\ h[r].step \in 0..Len(CleanSteps)
  BY FiveSteps DEF TypeOK, Request, delClean
<1>2. c \in Request
  BY <1>1, FiveSteps, CleanGoesOn
<1>3. h' = [h EXCEPT ![r] = c]
  BY DEF delClean
<1>4. /\ c.pc = "delClean" /\ c.step = h[r].step + 1 /\ c.id = h[r].id /\ c.name = h[r].name
      /\ c.role = h[r].role /\ c.status = h[r].status /\ c.ask = h[r].ask
  BY <1>1 DEF Request
<1> HIDE DEF c
<1>5. Own(r) /\ h'[r] = c
  BY <1>2, <1>3 DEF TypeOK, Own
<1>6. UNCHANGED <<users, regMu, delMu, overlap>>
  BY DEF delClean
<1>7. QED
  BY <1>1, <1>4, <1>5, <1>6 DEF DelCleanDone, Same

\* The new row, if there is one, has a fresh id and a name nobody has.
InsertDone(r) ==
    /\ Own(r) /\ h[r].pc = "insert" /\ h'[r].pc = "idle"
    /\ \/ users' = users
       \/ \E u \in Id, n \in Name :
             /\ users[u].status = "none" /\ \A v \in Table : users[v].name # n
             /\ users' = [users EXCEPT ![u] = [name |-> n, role |-> h[r].role, status |-> "active"]]
             /\ users' \in [Id -> User] /\ Table' = Table \cup {u}
    /\ UNCHANGED <<delMu, assets, overlap>>

LEMMA InsertEffect ==
  ASSUME TypeOK, NEW r \in Req, registerInsert(r)
  PROVE  InsertDone(r)
<1>1. Own(r) /\ h[r].pc = "insert" /\ h'[r].pc = "idle"
  BY EndEffect DEF registerInsert
<1>2. ASSUME NEW u \in Id, NEW n \in Name,
             users' = [users EXCEPT ![u] = [name |-> n, role |-> h[r].role, status |-> "active"]]
      PROVE  users' \in [Id -> User] /\ Table' = Table \cup {u}
  <2> DEFINE x == [name |-> n, role |-> h[r].role, status |-> "active"]
  <2>1. h[r].role \in {"user", "admin"}
    BY DEF TypeOK, Request
  <2>2. x \in User /\ x.status = "active"
    BY <2>1 DEF User, Status, Exist
  <2>3. users' = [users EXCEPT ![u] = x]
    BY <1>2
  <2> HIDE DEF x
  <2>4. QED
    BY <2>2, <2>3 DEF TypeOK, Table, Exists, Exist
<1>3. QED
  BY <1>1, <1>2 DEF InsertDone, registerInsert

\* A deletion ends, or goes on with the mutex: past the check of the last administrator,
DelCheckDone(r) ==
    /\ Own(r) /\ h[r].pc = "delCheck"
    /\ \/ h'[r].pc = "idle" /\ delMu' = None
       \/ /\ h'[r].pc = "delBusy" /\ delMu' = delMu /\ Same(r)
          /\ ~(h[r].role = "admin" /\ h[r].status = "active" /\ isLastActiveAdmin(h[r].name))
    /\ UNCHANGED <<users, regMu, assets, overlap>>

LEMMA DelCheckEffect ==
  ASSUME TypeOK, NEW r \in Req, delCheck(r)
  PROVE  DelCheckDone(r)
<1>1. CASE End(r) /\ delMu' = None
  BY <1>1, EndEffect DEF DelCheckDone, delCheck
<1>2. CASE /\ Go(r, "delBusy") /\ UNCHANGED delMu
           /\ ~(h[r].role = "admin" /\ h[r].status = "active" /\ isLastActiveAdmin(h[r].name))
  BY <1>2, GoEffect DEF DelCheckDone, delCheck, Place, Deletion
<1>3. QED
  BY <1>1, <1>2 DEF DelCheckDone, delCheck

\* past the check for scans,
DelBusyDone(r) ==
    /\ Own(r) /\ h[r].pc = "delBusy"
    /\ \/ h'[r].pc = "idle" /\ delMu' = None
       \/ /\ h'[r].pc = "delQueue" /\ delMu' = delMu /\ Same(r)
          /\ assets[h[r].id] \cap {"manual", "cronjob"} = {}
    /\ UNCHANGED <<users, regMu, assets, overlap>>

LEMMA DelBusyEffect ==
  ASSUME TypeOK, NEW r \in Req, delBusy(r)
  PROVE  DelBusyDone(r)
<1>1. CASE End(r) /\ delMu' = None
  BY <1>1, EndEffect DEF DelBusyDone, delBusy
<1>2. CASE /\ Go(r, "delQueue") /\ UNCHANGED delMu
           /\ assets[h[r].id] \cap {"manual", "cronjob"} = {}
  BY <1>2, GoEffect DEF DelBusyDone, delBusy, Place, Deletion
<1>3. QED
  BY <1>1, <1>2 DEF DelBusyDone, delBusy

\* and past the queue.
DelQueueDone(r) ==
    /\ Own(r) /\ h[r].pc = "delQueue"
    /\ \/ h'[r].pc = "idle" /\ delMu' = None /\ assets' = assets
       \/ /\ h'[r].pc = "delMark" /\ delMu' = delMu /\ Same(r)
          /\ assets' = [assets EXCEPT ![h[r].id] = @ \ {"queue"}]
    /\ UNCHANGED <<users, regMu, overlap>>

LEMMA DelQueueEffect ==
  ASSUME TypeOK, NEW r \in Req, delQueue(r)
  PROVE  DelQueueDone(r)
<1>1. CASE End(r) /\ delMu' = None /\ assets' = assets
  BY <1>1, EndEffect DEF DelQueueDone, delQueue
<1>2. CASE /\ Go(r, "delMark") /\ UNCHANGED delMu
           /\ assets' = [assets EXCEPT ![h[r].id] = @ \ {"queue"}]
  BY <1>2, GoEffect DEF DelQueueDone, delQueue, Place, Deletion
<1>3. QED
  BY <1>1, <1>2 DEF DelQueueDone, delQueue

\* The row goes when all steps are done.
DelRowDone(r) ==
    /\ Own(r) /\ h[r].pc = "delClean" /\ h[r].step > Len(CleanSteps)
    /\ h'[r].pc = "idle" /\ delMu' = None
    /\ users' \in [Id -> User]
    /\ \A u \in Id \ {h[r].id} : users[u] = users'[u]
    /\ \A u \in Id : u = h[r].id => users'[u].status = "deleted"
    /\ \A u \in Id : users'[u].name = users[u].name /\ users'[u].role = users[u].role
    /\ UNCHANGED <<regMu, assets, overlap>>

LEMMA DelRowEffect ==
  ASSUME TypeOK, NEW r \in Req, delRow(r)
  PROVE  DelRowDone(r)
<1>1. Own(r) /\ h'[r].pc = "idle"
  BY EndEffect DEF delRow
<1>2. ASSUME NEW u \in Id
      PROVE  LET x == [users[u] EXCEPT !.status = "deleted"]
             IN  x \in User /\ x.name = users[u].name /\ x.role = users[u].role /\ x.status = "deleted"
  BY DEF TypeOK, User, Status, Exist
<1>3. users' \in [Id -> User]
  BY <1>2 DEF delRow, TypeOK
<1>4. ASSUME NEW u \in Id
      PROVE  /\ u # h[r].id => users[u] = users'[u]
             /\ u = h[r].id => users'[u].status = "deleted"
             /\ users'[u].name = users[u].name /\ users'[u].role = users[u].role
  BY <1>2 DEF delRow, TypeOK
<1>5. QED
  BY <1>1, <1>3, <1>4 DEF DelRowDone, delRow

\* Requests that neither register nor delete, and have not yet come to their UPDATE,
\* leave all but themselves alone.
Quiet(r) ==
    /\ Own(r) /\ h[r].pc \notin Deletion \cup {"insert"} /\ h'[r].pc \notin Deletion \cup {"insert"}
    /\ UNCHANGED <<users, regMu, delMu, assets, overlap>>

LEMMA QuietSteps ==
  ASSUME TypeOK, Mutexes, NEW r \in Req,
         \/ authenticate(r) \/ handleFirstRunComplete(r)
         \/ patchSelect(r) \/ patchRole(r) \/ patchStatus(r)
         \/ handleAdminUserDelete(r) \/ handleAuthAccount(r)
  PROVE  Quiet(r)
<1>1. CASE authenticate(r)
  <2>1. AuthenticateDone(r)
    BY <1>1, AuthenticateEffect
  <2>2. QED
    BY <2>1 DEF AuthenticateDone, Quiet, Deletion
<1>2. CASE handleFirstRunComplete(r)
  BY <1>2, EndEffect DEF handleFirstRunComplete, Quiet, Deletion
<1>3. CASE patchSelect(r)
  <2>1. PatchSelectDone(r)
    BY <1>3, PatchSelectEffect
  <2>2. QED
    BY <2>1 DEF PatchSelectDone, Quiet, Deletion
<1>4. CASE patchRole(r)
  <2>1. PatchRoleDone(r)
    BY <1>4, PatchRoleEffect DEF Mutexes, Sound, Patching, patchRole
  <2>2. QED
    BY <2>1 DEF PatchRoleDone, Quiet, Deletion
<1>5. CASE patchStatus(r)
  <2>1. PatchStatusDone(r)
    BY <1>5, PatchStatusEffect
  <2>2. QED
    BY <2>1 DEF PatchStatusDone, Quiet, Deletion
<1>6. CASE handleAdminUserDelete(r)
  <2>1. AdminDeleteDone(r)
    BY <1>6, AdminDeleteEffect
  <2>2. QED
    BY <2>1 DEF AdminDeleteDone, Quiet, Deletion
<1>7. CASE handleAuthAccount(r)
  <2>1. SelfDeleteDone(r)
    BY <1>7, SelfDeleteEffect
  <2>2. QED
    BY <2>1 DEF SelfDeleteDone, Quiet, Deletion
<1>8. QED
  BY <1>1, <1>2, <1>3, <1>4, <1>5, <1>6, <1>7

\* A table that is left alone has the same accounts,
LEMMA SameTable == users' = users => Table' = Table
  BY DEF Table, Exists

\* also one in which PATCH or the mark of a deletion changes a row.
LEMMA PatchedTable ==
  ASSUME TypeOK, NEW r \in Req, patchUpdate(r), h[r].status \in Exist
  PROVE  Table' = Table
<1>1. PatchUpdateDone(r)
  BY PatchUpdateEffect
<1>2. ASSUME NEW u \in Id
      PROVE  Exists(u)' <=> Exists(u)
  BY <1>1 DEF PatchUpdateDone, Exists
<1>3. QED
  BY <1>2 DEF Table

LEMMA MarkedTable ==
  ASSUME TypeOK, NEW r \in Req, delMark(r)
  PROVE  Table' = Table
<1>1. DelMarkDone(r)
  BY DelMarkEffect
<1>2. ASSUME NEW u \in Id
      PROVE  Exists(u)' <=> Exists(u)
  BY <1>1 DEF DelMarkDone, Exists, Exist
<1>3. QED
  BY <1>2 DEF Table

\* A request that does nothing is sound as long as its row and its mutex are there.
LEMMA OthersSound ==
  ASSUME NEW q \in Req, Sound(q), h'[q] = h[q],
         regMu' = q <=> regMu = q, delMu' = q <=> delMu = q,
         h[q].id \in Id /\ Exists(h[q].id) /\ h[q].pc \in Deletion =>
            Exists(h[q].id)' /\ users'[h[q].id].name = users[h[q].id].name
  PROVE  Sound(q)'
  BY DEF Sound, Exists

-----------------------------------------------------------------------------
(* The steps keep the invariant.                                           *)

\* Handlers remember what they should: requests, accounts and their names.
LEMMA RequestsStep ==
  ASSUME TypeOK, Mutexes, [Next]_vars
  PROVE  h' \in [Req -> Request]
<1>1. ASSUME NEW r \in Req, Quiet(r)
      PROVE  h' \in [Req -> Request]
  BY <1>1 DEF Quiet, Own
<1>2. ASSUME NEW r \in Req, registerCheck(r), Remember
      PROVE  h' \in [Req -> Request]
  <2>1. RegisterCheckDone(r)
    BY <1>2, RegisterCheckEffect
  <2>2. QED
    BY <1>2, <2>1 DEF RegisterCheckDone, TypeOK, Mutexes, Sound, Patching, Own
<1>3. ASSUME NEW r \in Req, registerInsert(r), Remember
      PROVE  h' \in [Req -> Request]
  <2>1. InsertDone(r)
    BY <1>3, InsertEffect
  <2>2. QED
    BY <1>3, <2>1 DEF InsertDone, TypeOK, Mutexes, Sound, Patching, Own
<1>4. ASSUME NEW r \in Req, patchUpdate(r), Remember
      PROVE  h' \in [Req -> Request]
  <2>1. PatchUpdateDone(r)
    BY <1>4, PatchUpdateEffect
  <2>2. QED
    BY <1>4, <2>1 DEF PatchUpdateDone, TypeOK, Mutexes, Sound, Patching, Own
<1>5. ASSUME NEW r \in Req, patchCron(r), Remember
      PROVE  h' \in [Req -> Request]
  BY <1>5, EndEffect DEF patchCron, TypeOK, Mutexes, Sound, Patching, Own
<1>6. ASSUME NEW r \in Req, delSelect(r), Remember
      PROVE  h' \in [Req -> Request]
  <2>1. DelSelectDone(r)
    BY <1>6, DelSelectEffect
  <2>2. QED
    BY <1>6, <2>1 DEF DelSelectDone, TypeOK, Mutexes, Sound, Patching, Own
<1>7. ASSUME NEW r \in Req, delCheck(r), Remember
      PROVE  h' \in [Req -> Request]
  <2>1. DelCheckDone(r)
    BY <1>7, DelCheckEffect
  <2>2. QED
    BY <1>7, <2>1 DEF DelCheckDone, TypeOK, Mutexes, Sound, Patching, Own
<1>8. ASSUME NEW r \in Req, delBusy(r), Remember
      PROVE  h' \in [Req -> Request]
  <2>1. DelBusyDone(r)
    BY <1>8, DelBusyEffect
  <2>2. QED
    BY <1>8, <2>1 DEF DelBusyDone, TypeOK, Mutexes, Sound, Patching, Own
<1>9. ASSUME NEW r \in Req, delQueue(r), Remember
      PROVE  h' \in [Req -> Request]
  <2>1. DelQueueDone(r)
    BY <1>9, DelQueueEffect
  <2>2. QED
    BY <1>9, <2>1 DEF DelQueueDone, TypeOK, Mutexes, Sound, Patching, Own
<1>10. ASSUME NEW r \in Req, delMark(r), Remember
      PROVE  h' \in [Req -> Request]
  <2>1. DelMarkDone(r)
    BY <1>10, DelMarkEffect
  <2>2. QED
    BY <1>10, <2>1 DEF DelMarkDone, TypeOK, Mutexes, Sound, Patching, Own
<1>11. ASSUME NEW r \in Req, delClean(r), Remember
      PROVE  h' \in [Req -> Request]
  <2>1. DelCleanDone(r)
    BY <1>11, DelCleanEffect
  <2>2. QED
    BY <1>11, <2>1 DEF DelCleanDone, TypeOK, Mutexes, Sound, Patching, Own
<1>12. ASSUME NEW r \in Req, delRow(r), Remember
      PROVE  h' \in [Req -> Request]
  <2>1. DelRowDone(r)
    BY <1>12, DelRowEffect
  <2>2. QED
    BY <1>12, <2>1 DEF DelRowDone, TypeOK, Mutexes, Sound, Patching, Own
<1>13. ASSUME NEW r \in Req, delFail(r), Remember
      PROVE  h' \in [Req -> Request]
  BY <1>13, EndEffect DEF delFail, MayFail, TypeOK, Mutexes, Sound, Patching, Own
<1>14. ASSUME NEW r \in Req, createAsset(r), Remember
      PROVE  h' \in [Req -> Request]
  BY <1>14, EndEffect DEF createAsset, Touch, TypeOK, Mutexes, Sound, Patching, Own
<1>15. ASSUME NEW u \in Id, scanStarts(u), Remember
      PROVE  h' \in [Req -> Request]
  BY <1>15 DEF scanStarts, Touch, TypeOK, Mutexes, Sound, Patching, Own
<1>16. ASSUME NEW u \in Id, scanEnds(u), Remember
      PROVE  h' \in [Req -> Request]
  BY <1>16 DEF scanEnds, Touch, TypeOK, Mutexes, Sound, Patching, Own
<1>17. CASE UNCHANGED vars
  BY <1>17 DEF vars, TypeOK, Mutexes, Sound, Patching, Own
<1>18. QED
  BY <1>1, <1>2, <1>3, <1>4, <1>5, <1>6, <1>7, <1>8, <1>9, <1>10, <1>11, <1>12, <1>13, <1>14, <1>15, <1>16, <1>17, QuietSteps DEF Next, Handler, Delete

\* The table keeps its type.
LEMMA UsersStep ==
  ASSUME TypeOK, Mutexes, [Next]_vars
  PROVE  users' \in [Id -> User]
<1>1. ASSUME NEW r \in Req, Quiet(r)
      PROVE  users' \in [Id -> User]
  BY <1>1 DEF Quiet, TypeOK
<1>2. ASSUME NEW r \in Req, registerCheck(r), Remember
      PROVE  users' \in [Id -> User]
  <2>1. RegisterCheckDone(r)
    BY <1>2, RegisterCheckEffect
  <2>2. QED
    BY <1>2, <2>1 DEF RegisterCheckDone, TypeOK, Mutexes, Sound, Patching
<1>3. ASSUME NEW r \in Req, registerInsert(r), Remember
      PROVE  users' \in [Id -> User]
  <2>1. InsertDone(r)
    BY <1>3, InsertEffect
  <2>2. QED
    BY <1>3, <2>1 DEF InsertDone, TypeOK, Mutexes, Sound, Patching
<1>4. ASSUME NEW r \in Req, patchUpdate(r), Remember
      PROVE  users' \in [Id -> User]
  <2>1. PatchUpdateDone(r)
    BY <1>4, PatchUpdateEffect
  <2>2. QED
    BY <1>4, <2>1 DEF PatchUpdateDone, TypeOK, Mutexes, Sound, Patching
<1>5. ASSUME NEW r \in Req, patchCron(r), Remember
      PROVE  users' \in [Id -> User]
  BY <1>5, EndEffect DEF patchCron, TypeOK, Mutexes, Sound, Patching
<1>6. ASSUME NEW r \in Req, delSelect(r), Remember
      PROVE  users' \in [Id -> User]
  <2>1. DelSelectDone(r)
    BY <1>6, DelSelectEffect
  <2>2. QED
    BY <1>6, <2>1 DEF DelSelectDone, TypeOK, Mutexes, Sound, Patching
<1>7. ASSUME NEW r \in Req, delCheck(r), Remember
      PROVE  users' \in [Id -> User]
  <2>1. DelCheckDone(r)
    BY <1>7, DelCheckEffect
  <2>2. QED
    BY <1>7, <2>1 DEF DelCheckDone, TypeOK, Mutexes, Sound, Patching
<1>8. ASSUME NEW r \in Req, delBusy(r), Remember
      PROVE  users' \in [Id -> User]
  <2>1. DelBusyDone(r)
    BY <1>8, DelBusyEffect
  <2>2. QED
    BY <1>8, <2>1 DEF DelBusyDone, TypeOK, Mutexes, Sound, Patching
<1>9. ASSUME NEW r \in Req, delQueue(r), Remember
      PROVE  users' \in [Id -> User]
  <2>1. DelQueueDone(r)
    BY <1>9, DelQueueEffect
  <2>2. QED
    BY <1>9, <2>1 DEF DelQueueDone, TypeOK, Mutexes, Sound, Patching
<1>10. ASSUME NEW r \in Req, delMark(r), Remember
      PROVE  users' \in [Id -> User]
  <2>1. DelMarkDone(r)
    BY <1>10, DelMarkEffect
  <2>2. QED
    BY <1>10, <2>1 DEF DelMarkDone, TypeOK, Mutexes, Sound, Patching
<1>11. ASSUME NEW r \in Req, delClean(r), Remember
      PROVE  users' \in [Id -> User]
  <2>1. DelCleanDone(r)
    BY <1>11, DelCleanEffect
  <2>2. QED
    BY <1>11, <2>1 DEF DelCleanDone, TypeOK, Mutexes, Sound, Patching
<1>12. ASSUME NEW r \in Req, delRow(r), Remember
      PROVE  users' \in [Id -> User]
  <2>1. DelRowDone(r)
    BY <1>12, DelRowEffect
  <2>2. QED
    BY <1>12, <2>1 DEF DelRowDone, TypeOK, Mutexes, Sound, Patching
<1>13. ASSUME NEW r \in Req, delFail(r), Remember
      PROVE  users' \in [Id -> User]
  BY <1>13, EndEffect DEF delFail, MayFail, TypeOK, Mutexes, Sound, Patching
<1>14. ASSUME NEW r \in Req, createAsset(r), Remember
      PROVE  users' \in [Id -> User]
  BY <1>14, EndEffect DEF createAsset, Touch, TypeOK, Mutexes, Sound, Patching
<1>15. ASSUME NEW u \in Id, scanStarts(u), Remember
      PROVE  users' \in [Id -> User]
  BY <1>15 DEF scanStarts, Touch, TypeOK, Mutexes, Sound, Patching
<1>16. ASSUME NEW u \in Id, scanEnds(u), Remember
      PROVE  users' \in [Id -> User]
  BY <1>16 DEF scanEnds, Touch, TypeOK, Mutexes, Sound, Patching
<1>17. CASE UNCHANGED vars
  BY <1>17 DEF vars, TypeOK, Mutexes, Sound, Patching
<1>18. QED
  BY <1>1, <1>2, <1>3, <1>4, <1>5, <1>6, <1>7, <1>8, <1>9, <1>10, <1>11, <1>12, <1>13, <1>14, <1>15, <1>16, <1>17, QuietSteps DEF Next, Handler, Delete

\* No two accounts get one name.
LEMMA NamesStep ==
  ASSUME TypeOK, Mutexes, [Next]_vars
  PROVE  (\A u, v \in Table : users[u].name = users[v].name => u = v)'
<1>1. ASSUME NEW r \in Req, Quiet(r)
      PROVE  (\A u, v \in Table : users[u].name = users[v].name => u = v)'
  BY <1>1, SameTable DEF Quiet, TypeOK
<1>2. ASSUME NEW r \in Req, registerCheck(r), Remember
      PROVE  (\A u, v \in Table : users[u].name = users[v].name => u = v)'
  <2>1. RegisterCheckDone(r)
    BY <1>2, RegisterCheckEffect
  <2>2. QED
    BY <1>2, <2>1 DEF RegisterCheckDone, TypeOK, Table, Exists, Mutexes, Sound, Patching
<1>3. ASSUME NEW r \in Req, registerInsert(r), Remember
      PROVE  (\A u, v \in Table : users[u].name = users[v].name => u = v)'
  <2>1. InsertDone(r)
    BY <1>3, InsertEffect
  <2>2. QED
    BY <1>3, <2>1 DEF InsertDone, TypeOK, Table, Exists, Mutexes, Sound, Patching
<1>4. ASSUME NEW r \in Req, patchUpdate(r), Remember
      PROVE  (\A u, v \in Table : users[u].name = users[v].name => u = v)'
  <2>1. PatchUpdateDone(r)
    BY <1>4, PatchUpdateEffect
  <2>2. QED
    BY <1>4, <2>1, PatchedTable DEF PatchUpdateDone, TypeOK, Table, Mutexes, Sound, Patching
<1>5. ASSUME NEW r \in Req, patchCron(r), Remember
      PROVE  (\A u, v \in Table : users[u].name = users[v].name => u = v)'
  BY <1>5, EndEffect DEF patchCron, TypeOK, Table, Exists, Mutexes, Sound, Patching
<1>6. ASSUME NEW r \in Req, delSelect(r), Remember
      PROVE  (\A u, v \in Table : users[u].name = users[v].name => u = v)'
  <2>1. DelSelectDone(r)
    BY <1>6, DelSelectEffect
  <2>2. QED
    BY <1>6, <2>1 DEF DelSelectDone, TypeOK, Table, Exists, Mutexes, Sound, Patching
<1>7. ASSUME NEW r \in Req, delCheck(r), Remember
      PROVE  (\A u, v \in Table : users[u].name = users[v].name => u = v)'
  <2>1. DelCheckDone(r)
    BY <1>7, DelCheckEffect
  <2>2. QED
    BY <1>7, <2>1 DEF DelCheckDone, TypeOK, Table, Exists, Mutexes, Sound, Patching
<1>8. ASSUME NEW r \in Req, delBusy(r), Remember
      PROVE  (\A u, v \in Table : users[u].name = users[v].name => u = v)'
  <2>1. DelBusyDone(r)
    BY <1>8, DelBusyEffect
  <2>2. QED
    BY <1>8, <2>1 DEF DelBusyDone, TypeOK, Table, Exists, Mutexes, Sound, Patching
<1>9. ASSUME NEW r \in Req, delQueue(r), Remember
      PROVE  (\A u, v \in Table : users[u].name = users[v].name => u = v)'
  <2>1. DelQueueDone(r)
    BY <1>9, DelQueueEffect
  <2>2. QED
    BY <1>9, <2>1 DEF DelQueueDone, TypeOK, Table, Exists, Mutexes, Sound, Patching
<1>10. ASSUME NEW r \in Req, delMark(r), Remember
      PROVE  (\A u, v \in Table : users[u].name = users[v].name => u = v)'
  <2>1. DelMarkDone(r)
    BY <1>10, DelMarkEffect
  <2>2. QED
    BY <1>10, <2>1, MarkedTable DEF DelMarkDone, TypeOK, Table
<1>11. ASSUME NEW r \in Req, delClean(r), Remember
      PROVE  (\A u, v \in Table : users[u].name = users[v].name => u = v)'
  <2>1. DelCleanDone(r)
    BY <1>11, DelCleanEffect
  <2>2. QED
    BY <1>11, <2>1 DEF DelCleanDone, TypeOK, Table, Exists, Mutexes, Sound, Patching
<1>12. ASSUME NEW r \in Req, delRow(r), Remember
      PROVE  (\A u, v \in Table : users[u].name = users[v].name => u = v)'
  <2>1. DelRowDone(r)
    BY <1>12, DelRowEffect
  <2>2. QED
    BY <1>12, <2>1 DEF DelRowDone, TypeOK, Table, Exists, Mutexes, Sound, Patching, Exist
<1>13. ASSUME NEW r \in Req, delFail(r), Remember
      PROVE  (\A u, v \in Table : users[u].name = users[v].name => u = v)'
  BY <1>13, EndEffect DEF delFail, MayFail, TypeOK, Table, Exists, Mutexes, Sound, Patching
<1>14. ASSUME NEW r \in Req, createAsset(r), Remember
      PROVE  (\A u, v \in Table : users[u].name = users[v].name => u = v)'
  BY <1>14, EndEffect DEF createAsset, Touch, TypeOK, Table, Exists, Mutexes, Sound, Patching
<1>15. ASSUME NEW w \in Id, scanStarts(w), Remember
      PROVE  (\A u, v \in Table : users[u].name = users[v].name => u = v)'
  BY <1>15 DEF scanStarts, Touch, TypeOK, Table, Exists, Mutexes, Sound, Patching
<1>16. ASSUME NEW w \in Id, scanEnds(w), Remember
      PROVE  (\A u, v \in Table : users[u].name = users[v].name => u = v)'
  BY <1>16 DEF scanEnds, Touch, TypeOK, Table, Exists, Mutexes, Sound, Patching
<1>17. CASE UNCHANGED vars
  BY <1>17 DEF vars, TypeOK, Table, Exists, Mutexes, Sound, Patching
<1>18. QED
  BY <1>1, <1>2, <1>3, <1>4, <1>5, <1>6, <1>7, <1>8, <1>9, <1>10, <1>11, <1>12, <1>13, <1>14, <1>15, <1>16, <1>17, QuietSteps DEF Next, Handler, Delete

\* The mutexes, what belongs to the accounts and the rest keep their types.
LEMMA RestStep ==
  ASSUME TypeOK, Mutexes, [Next]_vars
  PROVE  /\ firstRun' \in BOOLEAN /\ patched' \in BOOLEAN
         /\ regMu' \in Req \cup {None} /\ delMu' \in Req \cup {None}
         /\ assets' \in [Id -> SUBSET Kind] /\ overlap' \subseteq Id /\ fails' \in 0..MaxFail
<1>1. ASSUME NEW r \in Req, authenticate(r), Remember
      PROVE  /\ firstRun' \in BOOLEAN /\ patched' \in BOOLEAN
         /\ regMu' \in Req \cup {None} /\ delMu' \in Req \cup {None}
         /\ assets' \in [Id -> SUBSET Kind] /\ overlap' \subseteq Id /\ fails' \in 0..MaxFail
  BY <1>1, BoundAssumption, SetsAssumption DEF authenticate, TypeOK, Mutexes, Sound, Remember, Kind
<1>2. ASSUME NEW r \in Req, handleFirstRunComplete(r), Remember
      PROVE  /\ firstRun' \in BOOLEAN /\ patched' \in BOOLEAN
         /\ regMu' \in Req \cup {None} /\ delMu' \in Req \cup {None}
         /\ assets' \in [Id -> SUBSET Kind] /\ overlap' \subseteq Id /\ fails' \in 0..MaxFail
  BY <1>2, BoundAssumption, SetsAssumption DEF handleFirstRunComplete, TypeOK, Mutexes, Sound, Remember, Kind
<1>3. ASSUME NEW r \in Req, registerCheck(r), Remember
      PROVE  /\ firstRun' \in BOOLEAN /\ patched' \in BOOLEAN
         /\ regMu' \in Req \cup {None} /\ delMu' \in Req \cup {None}
         /\ assets' \in [Id -> SUBSET Kind] /\ overlap' \subseteq Id /\ fails' \in 0..MaxFail
  BY <1>3, BoundAssumption, SetsAssumption DEF registerCheck, TypeOK, Mutexes, Sound, Remember, Kind
<1>4. ASSUME NEW r \in Req, registerInsert(r), Remember
      PROVE  /\ firstRun' \in BOOLEAN /\ patched' \in BOOLEAN
         /\ regMu' \in Req \cup {None} /\ delMu' \in Req \cup {None}
         /\ assets' \in [Id -> SUBSET Kind] /\ overlap' \subseteq Id /\ fails' \in 0..MaxFail
  BY <1>4, BoundAssumption, SetsAssumption DEF registerInsert, TypeOK, Mutexes, Sound, Remember, Kind
<1>5. ASSUME NEW r \in Req, patchSelect(r), Remember
      PROVE  /\ firstRun' \in BOOLEAN /\ patched' \in BOOLEAN
         /\ regMu' \in Req \cup {None} /\ delMu' \in Req \cup {None}
         /\ assets' \in [Id -> SUBSET Kind] /\ overlap' \subseteq Id /\ fails' \in 0..MaxFail
  BY <1>5, BoundAssumption, SetsAssumption DEF patchSelect, TypeOK, Mutexes, Sound, Remember, Kind
<1>6. ASSUME NEW r \in Req, patchRole(r), Remember
      PROVE  /\ firstRun' \in BOOLEAN /\ patched' \in BOOLEAN
         /\ regMu' \in Req \cup {None} /\ delMu' \in Req \cup {None}
         /\ assets' \in [Id -> SUBSET Kind] /\ overlap' \subseteq Id /\ fails' \in 0..MaxFail
  BY <1>6, BoundAssumption, SetsAssumption DEF patchRole, TypeOK, Mutexes, Sound, Remember, Kind
<1>7. ASSUME NEW r \in Req, patchStatus(r), Remember
      PROVE  /\ firstRun' \in BOOLEAN /\ patched' \in BOOLEAN
         /\ regMu' \in Req \cup {None} /\ delMu' \in Req \cup {None}
         /\ assets' \in [Id -> SUBSET Kind] /\ overlap' \subseteq Id /\ fails' \in 0..MaxFail
  BY <1>7, BoundAssumption, SetsAssumption DEF patchStatus, TypeOK, Mutexes, Sound, Remember, Kind
<1>8. ASSUME NEW r \in Req, patchUpdate(r), Remember
      PROVE  /\ firstRun' \in BOOLEAN /\ patched' \in BOOLEAN
         /\ regMu' \in Req \cup {None} /\ delMu' \in Req \cup {None}
         /\ assets' \in [Id -> SUBSET Kind] /\ overlap' \subseteq Id /\ fails' \in 0..MaxFail
  BY <1>8, BoundAssumption, SetsAssumption DEF patchUpdate, TypeOK, Mutexes, Sound, Remember, Kind
<1>9. ASSUME NEW r \in Req, patchCron(r), Remember
      PROVE  /\ firstRun' \in BOOLEAN /\ patched' \in BOOLEAN
         /\ regMu' \in Req \cup {None} /\ delMu' \in Req \cup {None}
         /\ assets' \in [Id -> SUBSET Kind] /\ overlap' \subseteq Id /\ fails' \in 0..MaxFail
  BY <1>9, BoundAssumption, SetsAssumption DEF patchCron, TypeOK, Mutexes, Sound, Remember, Kind
<1>10. ASSUME NEW r \in Req, handleAdminUserDelete(r), Remember
      PROVE  /\ firstRun' \in BOOLEAN /\ patched' \in BOOLEAN
         /\ regMu' \in Req \cup {None} /\ delMu' \in Req \cup {None}
         /\ assets' \in [Id -> SUBSET Kind] /\ overlap' \subseteq Id /\ fails' \in 0..MaxFail
  BY <1>10, BoundAssumption, SetsAssumption DEF handleAdminUserDelete, TypeOK, Mutexes, Sound, Remember, Kind
<1>11. ASSUME NEW r \in Req, handleAuthAccount(r), Remember
      PROVE  /\ firstRun' \in BOOLEAN /\ patched' \in BOOLEAN
         /\ regMu' \in Req \cup {None} /\ delMu' \in Req \cup {None}
         /\ assets' \in [Id -> SUBSET Kind] /\ overlap' \subseteq Id /\ fails' \in 0..MaxFail
  BY <1>11, BoundAssumption, SetsAssumption DEF handleAuthAccount, TypeOK, Mutexes, Sound, Remember, Kind
<1>12. ASSUME NEW r \in Req, delSelect(r), Remember
      PROVE  /\ firstRun' \in BOOLEAN /\ patched' \in BOOLEAN
         /\ regMu' \in Req \cup {None} /\ delMu' \in Req \cup {None}
         /\ assets' \in [Id -> SUBSET Kind] /\ overlap' \subseteq Id /\ fails' \in 0..MaxFail
  BY <1>12, BoundAssumption, SetsAssumption DEF delSelect, TypeOK, Mutexes, Sound, Remember, Kind
<1>13. ASSUME NEW r \in Req, delCheck(r), Remember
      PROVE  /\ firstRun' \in BOOLEAN /\ patched' \in BOOLEAN
         /\ regMu' \in Req \cup {None} /\ delMu' \in Req \cup {None}
         /\ assets' \in [Id -> SUBSET Kind] /\ overlap' \subseteq Id /\ fails' \in 0..MaxFail
  BY <1>13, BoundAssumption, SetsAssumption DEF delCheck, TypeOK, Mutexes, Sound, Remember, Kind
<1>14. ASSUME NEW r \in Req, delBusy(r), Remember
      PROVE  /\ firstRun' \in BOOLEAN /\ patched' \in BOOLEAN
         /\ regMu' \in Req \cup {None} /\ delMu' \in Req \cup {None}
         /\ assets' \in [Id -> SUBSET Kind] /\ overlap' \subseteq Id /\ fails' \in 0..MaxFail
  BY <1>14, BoundAssumption, SetsAssumption DEF delBusy, TypeOK, Mutexes, Sound, Remember, Kind
<1>15. ASSUME NEW r \in Req, delQueue(r), Remember
      PROVE  /\ firstRun' \in BOOLEAN /\ patched' \in BOOLEAN
         /\ regMu' \in Req \cup {None} /\ delMu' \in Req \cup {None}
         /\ assets' \in [Id -> SUBSET Kind] /\ overlap' \subseteq Id /\ fails' \in 0..MaxFail
  BY <1>15, BoundAssumption, SetsAssumption DEF delQueue, TypeOK, Mutexes, Sound, Remember, Kind
<1>16. ASSUME NEW r \in Req, delMark(r), Remember
      PROVE  /\ firstRun' \in BOOLEAN /\ patched' \in BOOLEAN
         /\ regMu' \in Req \cup {None} /\ delMu' \in Req \cup {None}
         /\ assets' \in [Id -> SUBSET Kind] /\ overlap' \subseteq Id /\ fails' \in 0..MaxFail
  BY <1>16, BoundAssumption, SetsAssumption DEF delMark, TypeOK, Mutexes, Sound, Remember, Kind
<1>17. ASSUME NEW r \in Req, delClean(r), Remember
      PROVE  /\ firstRun' \in BOOLEAN /\ patched' \in BOOLEAN
         /\ regMu' \in Req \cup {None} /\ delMu' \in Req \cup {None}
         /\ assets' \in [Id -> SUBSET Kind] /\ overlap' \subseteq Id /\ fails' \in 0..MaxFail
  BY <1>17, BoundAssumption, SetsAssumption DEF delClean, TypeOK, Mutexes, Sound, Remember, Kind
<1>18. ASSUME NEW r \in Req, delRow(r), Remember
      PROVE  /\ firstRun' \in BOOLEAN /\ patched' \in BOOLEAN
         /\ regMu' \in Req \cup {None} /\ delMu' \in Req \cup {None}
         /\ assets' \in [Id -> SUBSET Kind] /\ overlap' \subseteq Id /\ fails' \in 0..MaxFail
  BY <1>18, BoundAssumption, SetsAssumption DEF delRow, TypeOK, Mutexes, Sound, Remember, Kind
<1>19. ASSUME NEW r \in Req, delFail(r), Remember
      PROVE  /\ firstRun' \in BOOLEAN /\ patched' \in BOOLEAN
         /\ regMu' \in Req \cup {None} /\ delMu' \in Req \cup {None}
         /\ assets' \in [Id -> SUBSET Kind] /\ overlap' \subseteq Id /\ fails' \in 0..MaxFail
  BY <1>19, BoundAssumption, SetsAssumption DEF delFail, MayFail, TypeOK, Mutexes, Sound, Remember, Kind
<1>20. ASSUME NEW r \in Req, createAsset(r), Remember
      PROVE  /\ firstRun' \in BOOLEAN /\ patched' \in BOOLEAN
         /\ regMu' \in Req \cup {None} /\ delMu' \in Req \cup {None}
         /\ assets' \in [Id -> SUBSET Kind] /\ overlap' \subseteq Id /\ fails' \in 0..MaxFail
  BY <1>20, BoundAssumption, SetsAssumption DEF createAsset, Touch, TypeOK, Mutexes, Sound, Remember, Kind
<1>21. ASSUME NEW u \in Id, scanStarts(u), Remember
      PROVE  /\ firstRun' \in BOOLEAN /\ patched' \in BOOLEAN
         /\ regMu' \in Req \cup {None} /\ delMu' \in Req \cup {None}
         /\ assets' \in [Id -> SUBSET Kind] /\ overlap' \subseteq Id /\ fails' \in 0..MaxFail
  BY <1>21, BoundAssumption, SetsAssumption DEF scanStarts, Touch, TypeOK, Mutexes, Sound, Remember, Kind
<1>22. ASSUME NEW u \in Id, scanEnds(u), Remember
      PROVE  /\ firstRun' \in BOOLEAN /\ patched' \in BOOLEAN
         /\ regMu' \in Req \cup {None} /\ delMu' \in Req \cup {None}
         /\ assets' \in [Id -> SUBSET Kind] /\ overlap' \subseteq Id /\ fails' \in 0..MaxFail
  BY <1>22, BoundAssumption, SetsAssumption DEF scanEnds, Touch, TypeOK, Mutexes, Sound, Remember, Kind
<1>23. CASE UNCHANGED vars
  BY <1>23, BoundAssumption, SetsAssumption DEF vars, TypeOK, Mutexes, Sound, Remember, Kind
<1>24. QED
  BY <1>1, <1>2, <1>3, <1>4, <1>5, <1>6, <1>7, <1>8, <1>9, <1>10, <1>11, <1>12, <1>13, <1>14, <1>15, <1>16, <1>17, <1>18, <1>19, <1>20, <1>21, <1>22, <1>23 DEF Next, Handler, Delete

\* The mutexes exclude, and nobody takes a row away from a deletion.
LEMMA MutexesStep ==
  ASSUME TypeOK, Mutexes, [Next]_vars
  PROVE  Mutexes'
<1>1. ASSUME NEW r \in Req, authenticate(r), Remember
      PROVE  Mutexes'
  <2>1. AuthenticateDone(r)
    BY <1>1, AuthenticateEffect
  <2>2. Sound(r)'
    BY <1>1, <2>1, BoundAssumption DEF AuthenticateDone, Mutexes, Sound, Same, Exists, Exist, Table, Deletion, Patching
  <2>3. ASSUME NEW q \in Req \ {r}
        PROVE  Sound(q)'
    BY <1>1, <2>1, OthersSound, BoundAssumption DEF AuthenticateDone, TypeOK, Mutexes, Sound, Own, Exists, Deletion, Patching
  <2>4. QED
    BY <2>2, <2>3 DEF Mutexes
<1>2. ASSUME NEW r \in Req, handleFirstRunComplete(r), Remember
      PROVE  Mutexes'
  <2>1. Sound(r)'
    BY <1>2, EndEffect, BoundAssumption DEF handleFirstRunComplete, Mutexes, Sound, Same, Exists, Exist, Table, Deletion, Patching
  <2>2. ASSUME NEW q \in Req \ {r}
        PROVE  Sound(q)'
    BY <1>2, EndEffect, OthersSound, BoundAssumption DEF handleFirstRunComplete, TypeOK, Mutexes, Sound, Own, Exists, Deletion, Patching
  <2>3. QED
    BY <2>1, <2>2 DEF Mutexes
<1>3. ASSUME NEW r \in Req, registerCheck(r), Remember
      PROVE  Mutexes'
  <2>1. RegisterCheckDone(r)
    BY <1>3, RegisterCheckEffect
  <2>2. Sound(r)'
    BY <1>3, <2>1, BoundAssumption DEF RegisterCheckDone, Mutexes, Sound, Same, Exists, Exist, Table, Deletion, Patching
  <2>3. ASSUME NEW q \in Req \ {r}
        PROVE  Sound(q)'
    BY <1>3, <2>1, OthersSound, BoundAssumption DEF RegisterCheckDone, TypeOK, Mutexes, Sound, Own, Exists, Deletion, Patching
  <2>4. QED
    BY <2>2, <2>3 DEF Mutexes
<1>4. ASSUME NEW r \in Req, registerInsert(r), Remember
      PROVE  Mutexes'
  <2>1. InsertDone(r)
    BY <1>4, InsertEffect
  <2>2. Sound(r)'
    BY <1>4, <2>1, BoundAssumption DEF InsertDone, Mutexes, Sound, Deletion, Patching, registerInsert
  <2>3. ASSUME NEW q \in Req \ {r}
        PROVE  Sound(q)'
    BY <1>4, <2>1, OthersSound, BoundAssumption DEF InsertDone, TypeOK, Mutexes, Sound, Own, Exists, Exist, registerInsert, Deletion, Patching
  <2>4. QED
    BY <2>2, <2>3 DEF Mutexes
<1>5. ASSUME NEW r \in Req, patchSelect(r), Remember
      PROVE  Mutexes'
  <2>1. PatchSelectDone(r)
    BY <1>5, PatchSelectEffect
  <2>2. Sound(r)'
    BY <1>5, <2>1, BoundAssumption DEF PatchSelectDone, Mutexes, Sound, Same, Exists, Exist, Table, Deletion, Patching
  <2>3. ASSUME NEW q \in Req \ {r}
        PROVE  Sound(q)'
    BY <1>5, <2>1, OthersSound, BoundAssumption DEF PatchSelectDone, TypeOK, Mutexes, Sound, Own, Exists, Deletion, Patching
  <2>4. QED
    BY <2>2, <2>3 DEF Mutexes
<1>6. ASSUME NEW r \in Req, patchRole(r), Remember
      PROVE  Mutexes'
  <2>1. PatchRoleDone(r)
    BY <1>6, PatchRoleEffect DEF Mutexes, Sound, Patching, patchRole
  <2>2. Sound(r)'
    BY <1>6, <2>1, BoundAssumption DEF PatchRoleDone, Mutexes, Sound, Same, Exists, Exist, Table, Deletion, Patching
  <2>3. ASSUME NEW q \in Req \ {r}
        PROVE  Sound(q)'
    BY <1>6, <2>1, OthersSound, BoundAssumption DEF PatchRoleDone, TypeOK, Mutexes, Sound, Own, Exists, Deletion, Patching
  <2>4. QED
    BY <2>2, <2>3 DEF Mutexes
<1>7. ASSUME NEW r \in Req, patchStatus(r), Remember
      PROVE  Mutexes'
  <2>1. PatchStatusDone(r)
    BY <1>7, PatchStatusEffect
  <2>2. Sound(r)'
    <3>1. CASE h'[r].pc = "idle"
      BY <1>7, <2>1, <3>1, BoundAssumption DEF PatchStatusDone, Mutexes, Sound, Deletion, Patching
    <3>2. CASE h'[r].pc = "patchUpdate"
      <4>1. h[r].ask # "anonymous" /\ h[r].id \in Id /\ h[r].status \in Exist /\ regMu # r /\ delMu # r
        BY <2>1 DEF PatchStatusDone, Mutexes, Sound, Deletion, Patching
      <4>2. h'[r].ask = h[r].ask /\ h'[r].id = h[r].id /\ h'[r].status \in Exist
        BY <2>1, <3>2, <4>1 DEF PatchStatusDone
      <4>3. regMu' = regMu /\ delMu' = delMu
        BY <2>1 DEF PatchStatusDone
      <4>4. QED
        BY <3>2, <4>1, <4>2, <4>3 DEF Sound, Deletion, Patching
    <3>3. QED
      BY <2>1, <3>1, <3>2 DEF PatchStatusDone
  <2>3. ASSUME NEW q \in Req \ {r}
        PROVE  Sound(q)'
    BY <1>7, <2>1, OthersSound, BoundAssumption DEF PatchStatusDone, TypeOK, Mutexes, Sound, Own, Exists, Deletion, Patching
  <2>4. QED
    BY <2>2, <2>3 DEF Mutexes
<1>8. ASSUME NEW r \in Req, patchUpdate(r), Remember
      PROVE  Mutexes'
  <2>1. PatchUpdateDone(r)
    BY <1>8, PatchUpdateEffect
  <2>2. Sound(r)'
    BY <1>8, <2>1 DEF PatchUpdateDone, Mutexes, Sound, Same, Deletion, Patching
  <2>3. ASSUME NEW q \in Req \ {r}
        PROVE  Sound(q)'
    BY <1>8, <2>1, OthersSound, BoundAssumption DEF PatchUpdateDone, TypeOK, Mutexes, Sound, Own, Exists, Deletion, Patching
  <2>4. QED
    BY <2>2, <2>3 DEF Mutexes
<1>9. ASSUME NEW r \in Req, patchCron(r), Remember
      PROVE  Mutexes'
  <2>1. Sound(r)'
    BY <1>9, EndEffect, BoundAssumption DEF patchCron, Mutexes, Sound, Same, Exists, Exist, Table, Deletion, Patching
  <2>2. ASSUME NEW q \in Req \ {r}
        PROVE  Sound(q)'
    BY <1>9, EndEffect, OthersSound, BoundAssumption DEF patchCron, TypeOK, Mutexes, Sound, Own, Exists, Deletion, Patching
  <2>3. QED
    BY <2>1, <2>2 DEF Mutexes
<1>10. ASSUME NEW r \in Req, handleAdminUserDelete(r), Remember
      PROVE  Mutexes'
  <2>1. AdminDeleteDone(r)
    BY <1>10, AdminDeleteEffect
  <2>2. Sound(r)'
    BY <1>10, <2>1, BoundAssumption DEF AdminDeleteDone, Mutexes, Sound, Same, Exists, Exist, Table, Deletion, Patching
  <2>3. ASSUME NEW q \in Req \ {r}
        PROVE  Sound(q)'
    BY <1>10, <2>1, OthersSound, BoundAssumption DEF AdminDeleteDone, TypeOK, Mutexes, Sound, Own, Exists, Deletion, Patching
  <2>4. QED
    BY <2>2, <2>3 DEF Mutexes
<1>11. ASSUME NEW r \in Req, handleAuthAccount(r), Remember
      PROVE  Mutexes'
  <2>1. SelfDeleteDone(r)
    BY <1>11, SelfDeleteEffect
  <2>2. Sound(r)'
    BY <1>11, <2>1, BoundAssumption DEF SelfDeleteDone, Mutexes, Sound, Same, Exists, Exist, Table, Deletion, Patching
  <2>3. ASSUME NEW q \in Req \ {r}
        PROVE  Sound(q)'
    BY <1>11, <2>1, OthersSound, BoundAssumption DEF SelfDeleteDone, TypeOK, Mutexes, Sound, Own, Exists, Deletion, Patching
  <2>4. QED
    BY <2>2, <2>3 DEF Mutexes
<1>12. ASSUME NEW r \in Req, delSelect(r), Remember
      PROVE  Mutexes'
  <2>1. DelSelectDone(r)
    BY <1>12, DelSelectEffect
  <2>2. Sound(r)'
    BY <1>12, <2>1, BoundAssumption DEF DelSelectDone, Mutexes, Sound, Same, Exists, Exist, Table, Deletion, Patching
  <2>3. ASSUME NEW q \in Req \ {r}
        PROVE  Sound(q)'
    BY <1>12, <2>1, OthersSound, BoundAssumption DEF DelSelectDone, TypeOK, Mutexes, Sound, Own, Exists, Deletion, Patching
  <2>4. QED
    BY <2>2, <2>3 DEF Mutexes
<1>13. ASSUME NEW r \in Req, delCheck(r), Remember
      PROVE  Mutexes'
  <2>1. DelCheckDone(r)
    BY <1>13, DelCheckEffect
  <2>2. Sound(r)'
    BY <1>13, <2>1, BoundAssumption DEF DelCheckDone, Mutexes, Sound, Same, Exists, Exist, Table, Deletion, Patching
  <2>3. ASSUME NEW q \in Req \ {r}
        PROVE  Sound(q)'
    BY <1>13, <2>1, OthersSound, BoundAssumption DEF DelCheckDone, TypeOK, Mutexes, Sound, Own, Exists, Deletion, Patching
  <2>4. QED
    BY <2>2, <2>3 DEF Mutexes
<1>14. ASSUME NEW r \in Req, delBusy(r), Remember
      PROVE  Mutexes'
  <2>1. DelBusyDone(r)
    BY <1>14, DelBusyEffect
  <2>2. Sound(r)'
    BY <1>14, <2>1, BoundAssumption DEF DelBusyDone, Mutexes, Sound, Same, Exists, Exist, Table, Deletion, Patching
  <2>3. ASSUME NEW q \in Req \ {r}
        PROVE  Sound(q)'
    BY <1>14, <2>1, OthersSound, BoundAssumption DEF DelBusyDone, TypeOK, Mutexes, Sound, Own, Exists, Deletion, Patching
  <2>4. QED
    BY <2>2, <2>3 DEF Mutexes
<1>15. ASSUME NEW r \in Req, delQueue(r), Remember
      PROVE  Mutexes'
  <2>1. DelQueueDone(r)
    BY <1>15, DelQueueEffect
  <2>2. Sound(r)'
    BY <1>15, <2>1, BoundAssumption DEF DelQueueDone, Mutexes, Sound, Same, Exists, Exist, Table, Deletion, Patching
  <2>3. ASSUME NEW q \in Req \ {r}
        PROVE  Sound(q)'
    BY <1>15, <2>1, OthersSound, BoundAssumption DEF DelQueueDone, TypeOK, Mutexes, Sound, Own, Exists, Deletion, Patching
  <2>4. QED
    BY <2>2, <2>3 DEF Mutexes
<1>16. ASSUME NEW r \in Req, delMark(r), Remember
      PROVE  Mutexes'
  <2>1. DelMarkDone(r)
    BY <1>16, DelMarkEffect
  <2>2. Sound(r)'
    BY <1>16, <2>1, BoundAssumption DEF DelMarkDone, Mutexes, Sound, Same, Exists, Exist, Table, Deletion, Patching
  <2>3. ASSUME NEW q \in Req \ {r}
        PROVE  Sound(q)'
    BY <1>16, <2>1, OthersSound, BoundAssumption DEF DelMarkDone, TypeOK, Mutexes, Sound, Own, Exists, Deletion, Patching
  <2>4. QED
    BY <2>2, <2>3 DEF Mutexes
<1>17. ASSUME NEW r \in Req, delClean(r), Remember
      PROVE  Mutexes'
  <2>1. DelCleanDone(r)
    BY <1>17, DelCleanEffect
  <2>2. Sound(r)'
    BY <1>17, <2>1, BoundAssumption DEF DelCleanDone, Mutexes, Sound, Same, Exists, Exist, Table, Deletion, Patching
  <2>3. ASSUME NEW q \in Req \ {r}
        PROVE  Sound(q)'
    BY <1>17, <2>1, OthersSound, BoundAssumption DEF DelCleanDone, TypeOK, Mutexes, Sound, Own, Exists, Deletion, Patching
  <2>4. QED
    BY <2>2, <2>3 DEF Mutexes
<1>18. ASSUME NEW r \in Req, delRow(r), Remember
      PROVE  Mutexes'
  <2>1. DelRowDone(r)
    BY <1>18, DelRowEffect
  <2>2. Sound(r)'
    BY <1>18, <2>1, BoundAssumption DEF DelRowDone, Mutexes, Sound, Same, Exists, Exist, Table, Deletion, Patching
  <2>3. ASSUME NEW q \in Req \ {r}
        PROVE  Sound(q)'
    BY <1>18, <2>1, OthersSound, BoundAssumption DEF DelRowDone, TypeOK, Mutexes, Sound, Own, Exists, Deletion, Patching
  <2>4. QED
    BY <2>2, <2>3 DEF Mutexes
<1>19. ASSUME NEW r \in Req, delFail(r), Remember
      PROVE  Mutexes'
  <2>1. Sound(r)'
    BY <1>19, EndEffect, BoundAssumption DEF delFail, MayFail, Mutexes, Sound, Same, Exists, Exist, Table, Deletion, Patching
  <2>2. ASSUME NEW q \in Req \ {r}
        PROVE  Sound(q)'
    BY <1>19, EndEffect, OthersSound, BoundAssumption DEF delFail, MayFail, TypeOK, Mutexes, Sound, Own, Exists, Deletion, Patching
  <2>3. QED
    BY <2>1, <2>2 DEF Mutexes
<1>20. ASSUME NEW r \in Req, createAsset(r), Remember
      PROVE  Mutexes'
  <2>1. Sound(r)'
    BY <1>20, EndEffect, BoundAssumption DEF createAsset, Touch, Mutexes, Sound, Same, Exists, Exist, Table, Deletion, Patching
  <2>2. ASSUME NEW q \in Req \ {r}
        PROVE  Sound(q)'
    BY <1>20, EndEffect, OthersSound, BoundAssumption DEF createAsset, Touch, TypeOK, Mutexes, Sound, Own, Exists, Deletion, Patching
  <2>3. QED
    BY <2>1, <2>2 DEF Mutexes
<1>21. ASSUME NEW u \in Id, scanStarts(u), Remember
      PROVE  Mutexes'
  BY <1>21 DEF scanStarts, Touch, Mutexes, Sound, Exists
<1>22. ASSUME NEW u \in Id, scanEnds(u), Remember
      PROVE  Mutexes'
  BY <1>22 DEF scanEnds, Touch, Mutexes, Sound, Exists
<1>23. CASE UNCHANGED vars
  BY <1>23 DEF vars, Mutexes, Sound, Exists
<1>24. QED
  BY <1>1, <1>2, <1>3, <1>4, <1>5, <1>6, <1>7, <1>8, <1>9, <1>10, <1>11, <1>12, <1>13, <1>14, <1>15, <1>16, <1>17, <1>18, <1>19, <1>20, <1>21, <1>22, <1>23 DEF Next, Handler, Delete

\* The bootstrap finds an empty table as long as it holds registrationMu.
LEMMA BootstrapStep ==
  ASSUME TypeOK, Mutexes, Bootstrap, [Next]_vars
  PROVE  Bootstrap'
<1>1. ASSUME NEW r \in Req, Quiet(r)
      PROVE  Bootstrap'
  BY <1>1, SameTable DEF Quiet, Own, Bootstrap, Anonymous
<1>2. ASSUME NEW r \in Req, registerCheck(r), Remember
      PROVE  Bootstrap'
  <2>1. RegisterCheckDone(r)
    BY <1>2, RegisterCheckEffect
  <2>2. (Anonymous(r) => Table = {} /\ h[r].role = "admin")'
    BY <1>2, <2>1, SameTable DEF RegisterCheckDone, Anonymous, Bootstrap, Mutexes, Sound, Same
  <2>3. ASSUME NEW q \in Req \ {r}
        PROVE  (Anonymous(q) => Table = {} /\ h[q].role = "admin")'
    BY <1>2, <2>1, SameTable DEF RegisterCheckDone, Anonymous, Bootstrap, Own
  <2>4. QED
    BY <2>2, <2>3 DEF Bootstrap
<1>3. ASSUME NEW r \in Req, registerInsert(r), Remember
      PROVE  Bootstrap'
  <2>1. InsertDone(r)
    BY <1>3, InsertEffect
  <2>2. (Anonymous(r) => Table = {} /\ h[r].role = "admin")'
    BY <1>3, <2>1, SameTable DEF InsertDone, Anonymous, Bootstrap, Mutexes, Sound, Same
  <2>3. ASSUME NEW q \in Req \ {r}
        PROVE  (Anonymous(q) => Table = {} /\ h[q].role = "admin")'
    BY <1>3, <2>1, SameTable DEF InsertDone, Anonymous, Bootstrap, Own, Mutexes, Sound
  <2>4. QED
    BY <2>2, <2>3 DEF Bootstrap
<1>4. ASSUME NEW r \in Req, patchUpdate(r), Remember
      PROVE  Bootstrap'
  <2>1. PatchUpdateDone(r)
    BY <1>4, PatchUpdateEffect
  <2>2. (Anonymous(r) => Table = {} /\ h[r].role = "admin")'
    BY <1>4, <2>1, SameTable DEF PatchUpdateDone, Anonymous, Bootstrap, Mutexes, Sound, Same
  <2>3. ASSUME NEW q \in Req \ {r}
        PROVE  (Anonymous(q) => Table = {} /\ h[q].role = "admin")'
    BY <1>4, <2>1, PatchedTable DEF PatchUpdateDone, Anonymous, Bootstrap, Own, Mutexes, Sound, Patching
  <2>4. QED
    BY <2>2, <2>3 DEF Bootstrap
<1>5. ASSUME NEW r \in Req, patchCron(r), Remember
      PROVE  Bootstrap'
  <2>1. (Anonymous(r) => Table = {} /\ h[r].role = "admin")'
    BY <1>5, EndEffect, SameTable DEF patchCron, Anonymous, Bootstrap, Mutexes, Sound, Same
  <2>2. ASSUME NEW q \in Req \ {r}
        PROVE  (Anonymous(q) => Table = {} /\ h[q].role = "admin")'
    BY <1>5, EndEffect, SameTable DEF patchCron, Anonymous, Bootstrap, Own
  <2>3. QED
    BY <2>1, <2>2 DEF Bootstrap
<1>6. ASSUME NEW r \in Req, delSelect(r), Remember
      PROVE  Bootstrap'
  <2>1. DelSelectDone(r)
    BY <1>6, DelSelectEffect
  <2>2. (Anonymous(r) => Table = {} /\ h[r].role = "admin")'
    BY <1>6, <2>1, SameTable DEF DelSelectDone, Anonymous, Bootstrap, Mutexes, Sound, Same
  <2>3. ASSUME NEW q \in Req \ {r}
        PROVE  (Anonymous(q) => Table = {} /\ h[q].role = "admin")'
    BY <1>6, <2>1, SameTable DEF DelSelectDone, Anonymous, Bootstrap, Own
  <2>4. QED
    BY <2>2, <2>3 DEF Bootstrap
<1>7. ASSUME NEW r \in Req, delCheck(r), Remember
      PROVE  Bootstrap'
  <2>1. DelCheckDone(r)
    BY <1>7, DelCheckEffect
  <2>2. (Anonymous(r) => Table = {} /\ h[r].role = "admin")'
    BY <1>7, <2>1, SameTable DEF DelCheckDone, Anonymous, Bootstrap, Mutexes, Sound, Same
  <2>3. ASSUME NEW q \in Req \ {r}
        PROVE  (Anonymous(q) => Table = {} /\ h[q].role = "admin")'
    BY <1>7, <2>1, SameTable DEF DelCheckDone, Anonymous, Bootstrap, Own
  <2>4. QED
    BY <2>2, <2>3 DEF Bootstrap
<1>8. ASSUME NEW r \in Req, delBusy(r), Remember
      PROVE  Bootstrap'
  <2>1. DelBusyDone(r)
    BY <1>8, DelBusyEffect
  <2>2. (Anonymous(r) => Table = {} /\ h[r].role = "admin")'
    BY <1>8, <2>1, SameTable DEF DelBusyDone, Anonymous, Bootstrap, Mutexes, Sound, Same
  <2>3. ASSUME NEW q \in Req \ {r}
        PROVE  (Anonymous(q) => Table = {} /\ h[q].role = "admin")'
    BY <1>8, <2>1, SameTable DEF DelBusyDone, Anonymous, Bootstrap, Own
  <2>4. QED
    BY <2>2, <2>3 DEF Bootstrap
<1>9. ASSUME NEW r \in Req, delQueue(r), Remember
      PROVE  Bootstrap'
  <2>1. DelQueueDone(r)
    BY <1>9, DelQueueEffect
  <2>2. (Anonymous(r) => Table = {} /\ h[r].role = "admin")'
    BY <1>9, <2>1, SameTable DEF DelQueueDone, Anonymous, Bootstrap, Mutexes, Sound, Same
  <2>3. ASSUME NEW q \in Req \ {r}
        PROVE  (Anonymous(q) => Table = {} /\ h[q].role = "admin")'
    BY <1>9, <2>1, SameTable DEF DelQueueDone, Anonymous, Bootstrap, Own
  <2>4. QED
    BY <2>2, <2>3 DEF Bootstrap
<1>10. ASSUME NEW r \in Req, delMark(r), Remember
      PROVE  Bootstrap'
  <2>1. DelMarkDone(r)
    BY <1>10, DelMarkEffect
  <2>2. (Anonymous(r) => Table = {} /\ h[r].role = "admin")'
    BY <1>10, <2>1, SameTable DEF DelMarkDone, Anonymous, Bootstrap, Mutexes, Sound, Same
  <2>3. ASSUME NEW q \in Req \ {r}
        PROVE  (Anonymous(q) => Table = {} /\ h[q].role = "admin")'
    BY <1>10, <2>1, MarkedTable DEF DelMarkDone, Anonymous, Bootstrap, Own
  <2>4. QED
    BY <2>2, <2>3 DEF Bootstrap
<1>11. ASSUME NEW r \in Req, delClean(r), Remember
      PROVE  Bootstrap'
  <2>1. DelCleanDone(r)
    BY <1>11, DelCleanEffect
  <2>2. (Anonymous(r) => Table = {} /\ h[r].role = "admin")'
    BY <1>11, <2>1, SameTable DEF DelCleanDone, Anonymous, Bootstrap, Mutexes, Sound, Same
  <2>3. ASSUME NEW q \in Req \ {r}
        PROVE  (Anonymous(q) => Table = {} /\ h[q].role = "admin")'
    BY <1>11, <2>1, SameTable DEF DelCleanDone, Anonymous, Bootstrap, Own
  <2>4. QED
    BY <2>2, <2>3 DEF Bootstrap
<1>12. ASSUME NEW r \in Req, delRow(r), Remember
      PROVE  Bootstrap'
  <2>1. DelRowDone(r)
    BY <1>12, DelRowEffect
  <2>2. (Anonymous(r) => Table = {} /\ h[r].role = "admin")'
    BY <1>12, <2>1, SameTable DEF DelRowDone, Anonymous, Bootstrap, Mutexes, Sound, Same
  <2>3. ASSUME NEW q \in Req \ {r}
        PROVE  (Anonymous(q) => Table = {} /\ h[q].role = "admin")'
    BY <1>12, <2>1 DEF DelRowDone, Anonymous, Bootstrap, Own, Table, Exists, Exist
  <2>4. QED
    BY <2>2, <2>3 DEF Bootstrap
<1>13. ASSUME NEW r \in Req, delFail(r), Remember
      PROVE  Bootstrap'
  <2>1. (Anonymous(r) => Table = {} /\ h[r].role = "admin")'
    BY <1>13, EndEffect, SameTable DEF delFail, MayFail, Anonymous, Bootstrap, Mutexes, Sound, Same
  <2>2. ASSUME NEW q \in Req \ {r}
        PROVE  (Anonymous(q) => Table = {} /\ h[q].role = "admin")'
    BY <1>13, EndEffect, SameTable DEF delFail, MayFail, Anonymous, Bootstrap, Own
  <2>3. QED
    BY <2>1, <2>2 DEF Bootstrap
<1>14. ASSUME NEW r \in Req, createAsset(r), Remember
      PROVE  Bootstrap'
  <2>1. (Anonymous(r) => Table = {} /\ h[r].role = "admin")'
    BY <1>14, EndEffect, SameTable DEF createAsset, Touch, Anonymous, Bootstrap, Mutexes, Sound, Same
  <2>2. ASSUME NEW q \in Req \ {r}
        PROVE  (Anonymous(q) => Table = {} /\ h[q].role = "admin")'
    BY <1>14, EndEffect, SameTable DEF createAsset, Touch, Anonymous, Bootstrap, Own
  <2>3. QED
    BY <2>1, <2>2 DEF Bootstrap
<1>15. ASSUME NEW u \in Id, scanStarts(u), Remember
      PROVE  Bootstrap'
  BY <1>15, SameTable DEF scanStarts, Touch, Bootstrap, Anonymous
<1>16. ASSUME NEW u \in Id, scanEnds(u), Remember
      PROVE  Bootstrap'
  BY <1>16, SameTable DEF scanEnds, Touch, Bootstrap, Anonymous
<1>17. CASE UNCHANGED vars
  BY <1>17, SameTable DEF vars, Bootstrap, Anonymous
<1>18. QED
  BY <1>1, <1>2, <1>3, <1>4, <1>5, <1>6, <1>7, <1>8, <1>9, <1>10, <1>11, <1>12, <1>13, <1>14, <1>15, <1>16, <1>17, QuietSteps DEF Next, Handler, Delete

-----------------------------------------------------------------------------
(* Deletions are complete.                                                 *)

\* A request that does nothing keeps what it has removed, unless something is added.
LEMMA OthersRemoved ==
  ASSUME NEW q \in Req, Removed(q), h'[q] = h[q],
         h[q].id \notin overlap' =>
            h[q].id \notin overlap /\ assets'[h[q].id] \subseteq assets[h[q].id]
  PROVE  Removed(q)'
  BY DEF Removed

\* What is created while a deletion is under way is remembered as overlapping it.
LEMMA TouchOverlaps ==
  ASSUME TypeOK, Mutexes, Cleaned, NEW u \in Id, NEW S, Touch(u, S), NEW q \in Req,
         h'[q] = h[q] \/ h'[q].pc = "idle"
  PROVE  Removed(q)'
<1>1. CASE h'[q].pc = "idle"
  BY <1>1 DEF Removed
<1>2. CASE h'[q] = h[q] /\ h[q].pc \notin Deletion
  BY <1>2 DEF Removed, Deletion
<1>3. CASE h'[q] = h[q] /\ h[q].pc \in Deletion
  <2>1. h[q].id \in Id
    BY <1>3 DEF Mutexes, Sound
  <2>2. CASE h[q].id = u
    BY <1>3, <2>2 DEF Touch, Deleting, Removed
  <2>3. CASE h[q].id # u
    BY <1>3, <2>1, <2>3, OthersRemoved DEF Touch, TypeOK, Cleaned
  <2>4. QED
    BY <2>2, <2>3
<1>4. QED
  BY <1>1, <1>2, <1>3

\* Deletions in progress keep what they have removed.
LEMMA CleanedStep ==
  ASSUME TypeOK, Mutexes, Cleaned, [Next]_vars
  PROVE  Cleaned'
<1>1. ASSUME NEW r \in Req, Quiet(r)
      PROVE  Cleaned'
  <2>1. Removed(r)'
    BY <1>1 DEF Quiet, Removed, Deletion
  <2>2. ASSUME NEW q \in Req \ {r}
        PROVE  Removed(q)'
    BY <1>1, OthersRemoved DEF Quiet, Own, Cleaned
  <2>3. QED
    BY <2>1, <2>2 DEF Cleaned
<1>2. ASSUME NEW r \in Req, registerCheck(r), Remember
      PROVE  Cleaned'
  <2>1. RegisterCheckDone(r)
    BY <1>2, RegisterCheckEffect
  <2>2. Removed(r)'
    BY <2>1 DEF RegisterCheckDone, Removed, Deletion
  <2>3. ASSUME NEW q \in Req \ {r}
        PROVE  Removed(q)'
    BY <2>1, OthersRemoved DEF RegisterCheckDone, Own, Cleaned
  <2>4. QED
    BY <2>2, <2>3 DEF Cleaned
<1>3. ASSUME NEW r \in Req, registerInsert(r), Remember
      PROVE  Cleaned'
  <2>1. InsertDone(r)
    BY <1>3, InsertEffect
  <2>2. Removed(r)'
    BY <2>1 DEF InsertDone, Removed, Deletion
  <2>3. ASSUME NEW q \in Req \ {r}
        PROVE  Removed(q)'
    BY <2>1, OthersRemoved DEF InsertDone, Own, Cleaned
  <2>4. QED
    BY <2>2, <2>3 DEF Cleaned
<1>4. ASSUME NEW r \in Req, patchUpdate(r), Remember
      PROVE  Cleaned'
  <2>1. PatchUpdateDone(r)
    BY <1>4, PatchUpdateEffect
  <2>2. Removed(r)'
    BY <2>1 DEF PatchUpdateDone, Removed, Deletion
  <2>3. ASSUME NEW q \in Req \ {r}
        PROVE  Removed(q)'
    BY <2>1, OthersRemoved DEF PatchUpdateDone, Own, Cleaned
  <2>4. QED
    BY <2>2, <2>3 DEF Cleaned
<1>5. ASSUME NEW r \in Req, patchCron(r), Remember
      PROVE  Cleaned'
  <2>1. Own(r) /\ h'[r].pc = "idle"
    BY <1>5, EndEffect DEF patchCron
  <2>2. ASSUME NEW q \in Req
        PROVE  Removed(q)'
    <3>1. CASE h'[q].pc \notin Deletion
      BY <3>1 DEF Removed, Deletion
    <3>2. CASE h'[q] = h[q] /\ h[q].pc \in Deletion
      <4>1. CASE assets' = assets
        BY <1>5, <3>2, <4>1, OthersRemoved DEF patchCron, Cleaned
      <4>2. CASE /\ h[q].id = h[r].id /\ "cron" \in assets[h[r].id]
                 /\ assets' = [assets EXCEPT ![h[r].id] = (@ \ {"cron"}) \cup {"cronOff"}]
        <5>1. h[r].id \in Id /\ overlap' = overlap /\ Removed(q)
          BY <1>5 DEF patchCron, Mutexes, Sound, Patching, Cleaned
        <5>2. CASE h[q].pc = "delClean" /\ h[q].step > 2 /\ h[q].id \notin overlap
          BY <4>2, <5>1, <5>2, FiveSteps DEF Removed
        <5>3. CASE ~(h[q].pc = "delClean" /\ h[q].step > 2)
          <6>1. assets'[h[q].id] \subseteq assets[h[q].id] \cup {"cronOff"}
            BY <4>2, <5>1 DEF TypeOK
          <6>2. h[q].pc = "delClean" => h[q].step \in {0, 1, 2}
            BY <5>3, FiveSteps DEF TypeOK, Request
          <6>3. QED
            BY <3>2, <5>1, <6>1, <6>2, FiveSteps DEF Removed
        <5>4. CASE h[q].id \in overlap
          BY <3>2, <5>1, <5>4 DEF Removed
        <5>5. QED
          BY <5>2, <5>3, <5>4
      <4>3. CASE /\ h[q].id # h[r].id
                 /\ assets' = [assets EXCEPT ![h[r].id] = (@ \ {"cron"}) \cup {"cronOff"}]
        <5>1. h[r].id \in Id /\ h[q].id \in Id /\ overlap' = overlap
          BY <1>5, <3>2 DEF patchCron, Mutexes, Sound, Patching
        <5>2. QED
          BY <3>2, <4>3, <5>1, OthersRemoved DEF TypeOK, Cleaned
      <4>4. h[r].id \in Id
        BY <1>5 DEF patchCron, Mutexes, Sound, Patching
      <4>5. QED
        BY <1>5, <4>1, <4>2, <4>3, <4>4 DEF patchCron, TypeOK
    <3>3. QED
      BY <2>1, <3>1, <3>2 DEF Own, Deletion
  <2>3. QED
    BY <2>2 DEF Cleaned
<1>6. ASSUME NEW r \in Req, delSelect(r), Remember
      PROVE  Cleaned'
  <2>1. DelSelectDone(r)
    BY <1>6, DelSelectEffect
  <2>2. Removed(r)'
    BY <2>1 DEF DelSelectDone, Removed, Deletion
  <2>3. ASSUME NEW q \in Req \ {r}
        PROVE  Removed(q)'
    BY <2>1, OthersRemoved DEF DelSelectDone, Own, Cleaned
  <2>4. QED
    BY <2>2, <2>3 DEF Cleaned
<1>7. ASSUME NEW r \in Req, delCheck(r), Remember
      PROVE  Cleaned'
  <2>1. DelCheckDone(r)
    BY <1>7, DelCheckEffect
  <2>2. Removed(r)'
    BY <2>1 DEF DelCheckDone, Removed, Deletion
  <2>3. ASSUME NEW q \in Req \ {r}
        PROVE  Removed(q)'
    BY <2>1, OthersRemoved DEF DelCheckDone, Own, Cleaned
  <2>4. QED
    BY <2>2, <2>3 DEF Cleaned
<1>8. ASSUME NEW r \in Req, delBusy(r), Remember
      PROVE  Cleaned'
  <2>1. DelBusyDone(r)
    BY <1>8, DelBusyEffect
  <2>2. Removed(r)'
    BY <2>1 DEF DelBusyDone, Removed, Same
  <2>3. ASSUME NEW q \in Req \ {r}
        PROVE  Removed(q)'
    BY <2>1, OthersRemoved DEF DelBusyDone, Own, Cleaned
  <2>4. QED
    BY <2>2, <2>3 DEF Cleaned
<1>9. ASSUME NEW r \in Req, delQueue(r), Remember
      PROVE  Cleaned'
  <2>1. DelQueueDone(r)
    BY <1>9, DelQueueEffect
  <2>2. Removed(r)'
    <3>1. h[r].id \in Id /\ Removed(r)
      BY <2>1 DEF DelQueueDone, Mutexes, Sound, Deletion, Cleaned
    <3>2. QED
      BY <2>1, <3>1 DEF DelQueueDone, Removed, Same, TypeOK
  <2>3. ASSUME NEW q \in Req \ {r}
        PROVE  Removed(q)'
    <3>1. h'[q] = h[q] /\ h[q].pc \notin Deletion
      BY <2>1 DEF DelQueueDone, Own, Mutexes, Sound, Deletion
    <3>2. QED
      BY <3>1 DEF Removed, Deletion
  <2>4. QED
    BY <2>2, <2>3 DEF Cleaned
<1>10. ASSUME NEW r \in Req, delMark(r), Remember
      PROVE  Cleaned'
  <2>1. DelMarkDone(r)
    BY <1>10, DelMarkEffect
  <2>2. Removed(r)'
    <3>1. Removed(r) /\ h[r].id = h'[r].id /\ assets' = assets /\ overlap' = overlap
      BY <2>1 DEF DelMarkDone, Cleaned, Same
    <3>2. QED
      BY <2>1, <3>1 DEF DelMarkDone, Removed
  <2>3. ASSUME NEW q \in Req \ {r}
        PROVE  Removed(q)'
    BY <2>1, OthersRemoved DEF DelMarkDone, Own, Cleaned
  <2>4. QED
    BY <2>2, <2>3 DEF Cleaned
<1>11. ASSUME NEW r \in Req, delClean(r), Remember
      PROVE  Cleaned'
  <2>1. DelCleanDone(r)
    BY <1>11, DelCleanEffect
  <2>2. Removed(r)'
    <3>1. /\ h[r].id \in Id /\ Removed(r) /\ overlap' = overlap /\ h'[r].id = h[r].id
          /\ h[r].step \in 1..5 /\ h'[r].step = h[r].step + 1
      BY <2>1, FiveSteps DEF DelCleanDone, Mutexes, Sound, Deletion, Cleaned, Same
    <3>2. assets'[h[r].id] = assets[h[r].id] \ CleanSteps[h[r].step]
      BY <1>11, <3>1 DEF delClean, TypeOK
    <3>3. QED
      BY <2>1, <3>1, <3>2, FiveSteps DEF DelCleanDone, Removed
  <2>3. ASSUME NEW q \in Req \ {r}
        PROVE  Removed(q)'
    <3>1. h'[q] = h[q] /\ h[q].pc \notin Deletion
      BY <2>1 DEF DelCleanDone, Own, Mutexes, Sound, Deletion
    <3>2. QED
      BY <3>1 DEF Removed, Deletion
  <2>4. QED
    BY <2>2, <2>3 DEF Cleaned
<1>12. ASSUME NEW r \in Req, delRow(r), Remember
      PROVE  Cleaned'
  <2>1. DelRowDone(r)
    BY <1>12, DelRowEffect
  <2>2. Removed(r)'
    BY <2>1 DEF DelRowDone, Removed, Deletion
  <2>3. ASSUME NEW q \in Req \ {r}
        PROVE  Removed(q)'
    BY <2>1, OthersRemoved DEF DelRowDone, Own, Cleaned
  <2>4. QED
    BY <2>2, <2>3 DEF Cleaned
<1>13. ASSUME NEW r \in Req, delFail(r), Remember
      PROVE  Cleaned'
  <2>1. Own(r) /\ h'[r].pc = "idle"
    BY <1>13, EndEffect DEF delFail
  <2>2. Removed(r)'
    BY <2>1 DEF Removed
  <2>3. ASSUME NEW q \in Req \ {r}
        PROVE  Removed(q)'
    BY <1>13, <2>1, OthersRemoved DEF delFail, Own, Cleaned
  <2>4. QED
    BY <2>2, <2>3 DEF Cleaned
<1>14. ASSUME NEW r \in Req, createAsset(r), Remember
      PROVE  Cleaned'
  <2>1. h[r].who \in Id /\ \E T : Touch(h[r].who, T)
    BY <1>14 DEF createAsset, Mutexes, Sound
  <2>2. Own(r) /\ h'[r].pc = "idle"
    BY <1>14, EndEffect DEF createAsset
  <2>3. ASSUME NEW q \in Req
        PROVE  h'[q] = h[q] \/ h'[q].pc = "idle"
    BY <2>2 DEF Own
  <2>4. QED
    BY <2>1, <2>3, TouchOverlaps DEF Cleaned
<1>15. ASSUME NEW u \in Id, scanStarts(u), Remember
      PROVE  Cleaned'
  <2>1. (\E T : Touch(u, T)) /\ h' = h
    BY <1>15 DEF scanStarts
  <2>2. QED
    BY <2>1, TouchOverlaps DEF Cleaned
<1>16. ASSUME NEW u \in Id, scanEnds(u), Remember
      PROVE  Cleaned'
  <2>1. (\E T : Touch(u, T)) /\ h' = h
    BY <1>16 DEF scanEnds
  <2>2. QED
    BY <2>1, TouchOverlaps DEF Cleaned
<1>17. CASE UNCHANGED vars
  BY <1>17, OthersRemoved DEF vars, Cleaned
<1>18. QED
  BY <1>1, <1>2, <1>3, <1>4, <1>5, <1>6, <1>7, <1>8, <1>9, <1>10, <1>11, <1>12, <1>13, <1>14, <1>15, <1>16, <1>17, QuietSteps DEF Next, Handler, Delete

\* A row that is gone has left nothing behind, as long as nothing overlaps.
LEMMA CompleteStep ==
  ASSUME TypeOK, Mutexes, Cleaned, DeletionIsComplete, [Next]_vars
  PROVE  DeletionIsComplete'
<1>1. ASSUME NEW r \in Req, Quiet(r)
      PROVE  DeletionIsComplete'
  BY <1>1 DEF Quiet, DeletionIsComplete
<1>2. ASSUME NEW r \in Req, registerCheck(r), Remember
      PROVE  DeletionIsComplete'
  <2>1. RegisterCheckDone(r)
    BY <1>2, RegisterCheckEffect
  <2>2. QED
    BY <2>1 DEF RegisterCheckDone, DeletionIsComplete
<1>3. ASSUME NEW r \in Req, registerInsert(r), Remember
      PROVE  DeletionIsComplete'
  <2>1. InsertDone(r)
    BY <1>3, InsertEffect
  <2>2. QED
    BY <2>1 DEF InsertDone, DeletionIsComplete, TypeOK
<1>4. ASSUME NEW r \in Req, patchUpdate(r), Remember
      PROVE  DeletionIsComplete'
  <2>1. PatchUpdateDone(r)
    BY <1>4, PatchUpdateEffect
  <2>2. h[r].status \in Exist
    BY <2>1 DEF PatchUpdateDone, Mutexes, Sound, Patching
  <2>3. ASSUME NEW u \in Id
        PROVE  users'[u].status = "deleted" => users[u].status = "deleted"
    BY <2>1, <2>2 DEF PatchUpdateDone, Exists, Exist
  <2>4. QED
    BY <2>1, <2>3 DEF PatchUpdateDone, DeletionIsComplete
<1>5. ASSUME NEW r \in Req, patchCron(r), Remember
      PROVE  DeletionIsComplete'
  BY <1>5 DEF patchCron, DeletionIsComplete, TypeOK, Mutexes, Sound, Patching
<1>6. ASSUME NEW r \in Req, delSelect(r), Remember
      PROVE  DeletionIsComplete'
  <2>1. DelSelectDone(r)
    BY <1>6, DelSelectEffect
  <2>2. QED
    BY <2>1 DEF DelSelectDone, DeletionIsComplete
<1>7. ASSUME NEW r \in Req, delCheck(r), Remember
      PROVE  DeletionIsComplete'
  <2>1. DelCheckDone(r)
    BY <1>7, DelCheckEffect
  <2>2. QED
    BY <2>1 DEF DelCheckDone, DeletionIsComplete
<1>8. ASSUME NEW r \in Req, delBusy(r), Remember
      PROVE  DeletionIsComplete'
  <2>1. DelBusyDone(r)
    BY <1>8, DelBusyEffect
  <2>2. QED
    BY <2>1 DEF DelBusyDone, DeletionIsComplete
<1>9. ASSUME NEW r \in Req, delQueue(r), Remember
      PROVE  DeletionIsComplete'
  <2>1. DelQueueDone(r)
    BY <1>9, DelQueueEffect
  <2>2. h[r].id \in Id
    BY <2>1 DEF DelQueueDone, Mutexes, Sound, Deletion
  <2>3. \A u \in Id : assets'[u] \subseteq assets[u]
    BY <1>9, <2>1, <2>2 DEF DelQueueDone, TypeOK
  <2>4. QED
    BY <2>1, <2>3 DEF DelQueueDone, DeletionIsComplete
<1>10. ASSUME NEW r \in Req, delMark(r), Remember
      PROVE  DeletionIsComplete'
  <2>1. DelMarkDone(r)
    BY <1>10, DelMarkEffect
  <2>2. ASSUME NEW u \in Id
        PROVE  users'[u].status = "deleted" => users[u].status = "deleted"
    BY <2>1 DEF DelMarkDone, Exists, Exist
  <2>3. QED
    BY <2>1, <2>2 DEF DelMarkDone, DeletionIsComplete
<1>11. ASSUME NEW r \in Req, delClean(r), Remember
      PROVE  DeletionIsComplete'
  <2>1. DelCleanDone(r)
    BY <1>11, DelCleanEffect
  <2>2. h[r].id \in Id
    BY <2>1 DEF DelCleanDone, Mutexes, Sound, Deletion
  <2>3. \A u \in Id : assets'[u] \subseteq assets[u]
    BY <1>11, <2>1, <2>2 DEF delClean, TypeOK
  <2>4. QED
    BY <2>1, <2>3 DEF DelCleanDone, DeletionIsComplete
<1>12. ASSUME NEW r \in Req, delRow(r), Remember
      PROVE  DeletionIsComplete'
  <2>1. DelRowDone(r)
    BY <1>12, DelRowEffect
  <2>2. ASSUME h[r].id \notin overlap
        PROVE  assets[h[r].id] = {}
    <3>1. h[r].id \in Id /\ Removed(r) /\ h[r].pc = "delClean" /\ h[r].step = 6
      BY <2>1, FiveSteps DEF DelRowDone, Mutexes, Sound, Deletion, Cleaned, TypeOK, Request
    <3>2. \A k \in 1..5 : assets[h[r].id] \cap CleanSteps[k] = {}
      BY <2>2, <3>1, FiveSteps DEF Removed
    <3>3. assets[h[r].id] \cap {"manual", "cronjob"} = {} /\ "queue" \notin assets[h[r].id]
      BY <2>2, <3>1 DEF Removed
    <3>4. /\ assets[h[r].id] \cap {"lookup"} = {} /\ assets[h[r].id] \cap {"cron", "cronOff"} = {}
          /\ assets[h[r].id] \cap {"whitelist"} = {} /\ assets[h[r].id] \cap {"quarantine"} = {}
          /\ assets[h[r].id] \cap {"results"} = {}
      BY <3>2, FiveSteps
    <3>5. assets[h[r].id] \subseteq Kind
      BY <3>1 DEF TypeOK
    <3>6. QED
      BY <3>3, <3>4, <3>5 DEF Kind
  <2>3. QED
    BY <2>1, <2>2 DEF DelRowDone, DeletionIsComplete
<1>13. ASSUME NEW r \in Req, delFail(r), Remember
      PROVE  DeletionIsComplete'
  BY <1>13 DEF delFail, DeletionIsComplete
<1>14. ASSUME NEW r \in Req, createAsset(r), Remember
      PROVE  DeletionIsComplete'
  BY <1>14 DEF createAsset, Touch, DeletionIsComplete, TypeOK, Mutexes, Sound
<1>15. ASSUME NEW u \in Id, scanStarts(u), Remember
      PROVE  DeletionIsComplete'
  BY <1>15 DEF scanStarts, Touch, DeletionIsComplete, TypeOK
<1>16. ASSUME NEW u \in Id, scanEnds(u), Remember
      PROVE  DeletionIsComplete'
  BY <1>16 DEF scanEnds, Touch, DeletionIsComplete, TypeOK
<1>17. CASE UNCHANGED vars
  BY <1>17 DEF vars, DeletionIsComplete
<1>18. QED
  BY <1>1, <1>2, <1>3, <1>4, <1>5, <1>6, <1>7, <1>8, <1>9, <1>10, <1>11, <1>12, <1>13, <1>14, <1>15, <1>16, <1>17, QuietSteps DEF Next, Handler, Delete

-----------------------------------------------------------------------------
(* Deletions keep an administrator.                                        *)

\* A table that is left alone keeps its administrator.
LEMMA SameAdmins ==
  ASSUME users' = users, AdminRemains
  PROVE  AdminRemains'
  BY DEF AdminRemains, Table, Exists, ActiveAdmin

\* A request that does nothing is spared as long as no row changes.
LEMMA OthersSpared ==
  ASSUME users' = users, NEW q \in Req, Spared(q), h'[q] = h[q]
  PROVE  Spared(q)'
  BY DEF Spared, Table, Exists, ActiveAdmin

\* Without PATCH, every step keeps an administrator and what deletions know of theirs.
LEMMA AdminsStep ==
  ASSUME TypeOK, Mutexes, Bootstrap, DeletionsKeepAdmin, Admins, [Next]_vars
  PROVE  (DeletionsKeepAdmin /\ Admins)'
<1> SUFFICES ASSUME ~patched'
             PROVE  AdminRemains' /\ \A q \in Req : Spared(q)'
  BY DEF DeletionsKeepAdmin, Admins
<1>1. ~patched
  BY DEF Next, Remember, vars, TypeOK
<1>2. AdminRemains /\ \A q \in Req : Spared(q)
  BY <1>1 DEF DeletionsKeepAdmin, Admins
<1>3. ASSUME NEW r \in Req, Quiet(r)
      PROVE  AdminRemains' /\ \A q \in Req : Spared(q)'
  <2>1. AdminRemains'
    BY <1>2, <1>3, SameAdmins DEF Quiet
  <2>2. Spared(r)'
    BY <1>3 DEF Quiet, Spared, Deletion
  <2>3. ASSUME NEW q \in Req \ {r}
        PROVE  Spared(q)'
    BY <1>2, <1>3, OthersSpared DEF Quiet, Own
  <2>4. QED
    BY <2>1, <2>2, <2>3
<1>4. ASSUME NEW r \in Req, registerCheck(r), Remember
      PROVE  AdminRemains' /\ \A q \in Req : Spared(q)'
  <2>1. RegisterCheckDone(r)
    BY <1>4, RegisterCheckEffect
  <2>2. AdminRemains'
    BY <1>2, <2>1, SameAdmins DEF RegisterCheckDone
  <2>3. Spared(r)'
    BY <2>1 DEF RegisterCheckDone, Spared, Deletion, Table, Exists
  <2>4. ASSUME NEW q \in Req \ {r}
        PROVE  Spared(q)'
    BY <1>2, <2>1, OthersSpared DEF RegisterCheckDone, Own
  <2>5. QED
    BY <2>2, <2>3, <2>4
<1>5. ASSUME NEW r \in Req, registerInsert(r), Remember
      PROVE  AdminRemains' /\ \A q \in Req : Spared(q)'
  <2>1. InsertDone(r)
    BY <1>5, InsertEffect
  <2>2. CASE users' = users
    BY <1>2, <2>1, <2>2, SameAdmins, OthersSpared DEF InsertDone, Own, Spared, Deletion
  <2>3. ASSUME NEW u \in Id, NEW n \in Name, users[u].status = "none", Table' = Table \cup {u},
               users' = [users EXCEPT ![u] = [name |-> n, role |-> h[r].role, status |-> "active"]]
        PROVE  AdminRemains' /\ \A q \in Req : Spared(q)'
    <3>1. ASSUME NEW v \in Id, ActiveAdmin(v)
          PROVE  v # u /\ ActiveAdmin(v)'
      BY <2>3, <3>1 DEF ActiveAdmin, TypeOK
    <3>2. AdminRemains'
      <4>1. CASE h[r].ask = "anonymous"
        <5>1. h[r].role = "admin"
          BY <2>1, <4>1 DEF InsertDone, Bootstrap, Anonymous
        <5>2. ActiveAdmin(u)'
          BY <2>3, <5>1 DEF ActiveAdmin, TypeOK
        <5>3. QED
          BY <5>2 DEF AdminRemains
      <4>2. CASE h[r].ask # "anonymous"
        BY <1>2, <2>1, <3>1, <4>2 DEF InsertDone, Spared, AdminRemains
      <4>3. QED
        BY <4>1, <4>2
    <3>3. ASSUME NEW q \in Req \ {r}
          PROVE  Spared(q)'
      <4>1. h'[q] = h[q] /\ Spared(q)
        BY <1>2, <2>1 DEF InsertDone, Own
      <4>2. CASE h[q].pc \notin Deletion
        BY <2>3, <4>1, <4>2 DEF Spared, Deletion
      <4>3. CASE h[q].pc \in Deletion
        <5>1. h[q].id \in Id /\ h[q].id # u
          BY <2>3, <4>3 DEF Mutexes, Sound, Exists, Exist
        <5>2. users'[h[q].id] = users[h[q].id]
          BY <2>3, <5>1 DEF TypeOK
        <5>3. ActiveAdmin(h[q].id)' <=> ActiveAdmin(h[q].id)
          BY <4>1, <5>2 DEF ActiveAdmin
        <5>4. \A v \in Id \ {h[q].id} : ActiveAdmin(v) => ActiveAdmin(v)'
          BY <3>1
        <5>5. h[q].pc # "insert"
          BY <4>3 DEF Deletion
        <5>6. h[q].pc \in {"delBusy", "delQueue", "delMark"} =>
                 (~ActiveAdmin(h[q].id) \/ \E v \in Id \ {h[q].id} : ActiveAdmin(v))'
          BY <4>1, <5>3, <5>4 DEF Spared
        <5>7. QED
          BY <4>1, <5>2, <5>5, <5>6 DEF Spared
      <4>4. QED
        BY <4>2, <4>3
    <3>4. Spared(r)'
      BY <2>1 DEF InsertDone, Spared, Deletion
    <3>5. QED
      BY <3>2, <3>3, <3>4
  <2>4. QED
    BY <2>1, <2>2, <2>3 DEF InsertDone
<1>6. ASSUME NEW r \in Req, patchUpdate(r), Remember
      PROVE  AdminRemains' /\ \A q \in Req : Spared(q)'
  <2>1. PatchUpdateDone(r)
    BY <1>6, PatchUpdateEffect
  <2>2. QED
    BY <2>1, <1>6 DEF PatchUpdateDone, Remember
<1>7. ASSUME NEW r \in Req, patchCron(r), Remember
      PROVE  AdminRemains' /\ \A q \in Req : Spared(q)'
  <2>1. Own(r) /\ h'[r].pc = "idle" /\ users' = users
    BY <1>7, EndEffect DEF patchCron
  <2>2. AdminRemains'
    BY <1>2, <2>1, SameAdmins
  <2>3. Spared(r)'
    BY <2>1 DEF Spared, Deletion
  <2>4. ASSUME NEW q \in Req \ {r}
        PROVE  Spared(q)'
    BY <1>2, <2>1, OthersSpared DEF Own
  <2>5. QED
    BY <2>2, <2>3, <2>4
<1>8. ASSUME NEW r \in Req, delSelect(r), Remember
      PROVE  AdminRemains' /\ \A q \in Req : Spared(q)'
  <2>1. DelSelectDone(r)
    BY <1>8, DelSelectEffect
  <2>2. AdminRemains'
    BY <1>2, <2>1, SameAdmins DEF DelSelectDone
  <2>3. Spared(r)'
    BY <2>1 DEF DelSelectDone, Spared, Deletion
  <2>4. ASSUME NEW q \in Req \ {r}
        PROVE  Spared(q)'
    BY <1>2, <2>1, OthersSpared DEF DelSelectDone, Own
  <2>5. QED
    BY <2>2, <2>3, <2>4
<1>9. ASSUME NEW r \in Req, delCheck(r), Remember
      PROVE  AdminRemains' /\ \A q \in Req : Spared(q)'
  <2>1. DelCheckDone(r)
    BY <1>9, DelCheckEffect
  <2>2. AdminRemains'
    BY <1>2, <2>1, SameAdmins DEF DelCheckDone
  <2>3. Spared(r)'
    <3>1. CASE h'[r].pc = "idle"
      BY <3>1 DEF Spared, Deletion
    <3>2. CASE h'[r].pc = "delBusy"
      <4>1. /\ users[h[r].id].role = h[r].role /\ users[h[r].id].status = h[r].status
            /\ users[h[r].id].name = h[r].name
        BY <1>2, <2>1 DEF DelCheckDone, Spared, Mutexes, Sound, Deletion
      <4>2. Same(r) /\ users' = users
        BY <2>1, <3>2 DEF DelCheckDone
      <4>3. ~ActiveAdmin(h[r].id) \/ \E v \in Id \ {h[r].id} : ActiveAdmin(v)
        BY <2>1, <3>2, <4>1 DEF DelCheckDone, isLastActiveAdmin, ActiveAdmin
      <4>4. (~ActiveAdmin(h[r].id) \/ \E v \in Id \ {h[r].id} : ActiveAdmin(v))'
        BY <4>2, <4>3 DEF ActiveAdmin, Same
      <4>5. QED
        BY <3>2, <4>1, <4>2, <4>4 DEF Spared, Same
    <3>3. QED
      BY <2>1, <3>1, <3>2 DEF DelCheckDone
  <2>4. ASSUME NEW q \in Req \ {r}
        PROVE  Spared(q)'
    BY <1>2, <2>1, OthersSpared DEF DelCheckDone, Own
  <2>5. QED
    BY <2>2, <2>3, <2>4
<1>10. ASSUME NEW r \in Req, delBusy(r), Remember
      PROVE  AdminRemains' /\ \A q \in Req : Spared(q)'
  <2>1. DelBusyDone(r)
    BY <1>10, DelBusyEffect
  <2>2. AdminRemains'
    BY <1>2, <2>1, SameAdmins DEF DelBusyDone
  <2>3. Spared(r)'
    <3>1. CASE h'[r].pc = "idle"
      BY <3>1 DEF Spared, Deletion
    <3>2. CASE h'[r].pc # "idle"
      <4>1. Spared(r) /\ Same(r) /\ users' = users
        BY <1>2, <2>1, <3>2 DEF DelBusyDone
      <4>2. (~ActiveAdmin(h[r].id) \/ \E v \in Id \ {h[r].id} : ActiveAdmin(v))'
        BY <2>1, <4>1 DEF DelBusyDone, Spared, ActiveAdmin, Same
      <4>3. /\ users'[h'[r].id].role = h'[r].role
            /\ users'[h'[r].id].status = h'[r].status
        BY <2>1, <4>1 DEF DelBusyDone, Spared, Same, Deletion
      <4>4. QED
        BY <2>1, <3>2, <4>2, <4>3 DEF DelBusyDone, Spared
    <3>3. QED
      BY <3>1, <3>2
  <2>4. ASSUME NEW q \in Req \ {r}
        PROVE  Spared(q)'
    BY <1>2, <2>1, OthersSpared DEF DelBusyDone, Own
  <2>5. QED
    BY <2>2, <2>3, <2>4
<1>11. ASSUME NEW r \in Req, delQueue(r), Remember
      PROVE  AdminRemains' /\ \A q \in Req : Spared(q)'
  <2>1. DelQueueDone(r)
    BY <1>11, DelQueueEffect
  <2>2. AdminRemains'
    BY <1>2, <2>1, SameAdmins DEF DelQueueDone
  <2>3. Spared(r)'
    <3>1. CASE h'[r].pc = "idle"
      BY <3>1 DEF Spared, Deletion
    <3>2. CASE h'[r].pc # "idle"
      <4>1. Spared(r) /\ Same(r) /\ users' = users
        BY <1>2, <2>1, <3>2 DEF DelQueueDone
      <4>2. (~ActiveAdmin(h[r].id) \/ \E v \in Id \ {h[r].id} : ActiveAdmin(v))'
        BY <2>1, <4>1 DEF DelQueueDone, Spared, ActiveAdmin, Same
      <4>3. /\ users'[h'[r].id].role = h'[r].role
            /\ users'[h'[r].id].status = h'[r].status
        BY <2>1, <4>1 DEF DelQueueDone, Spared, Same, Deletion
      <4>4. QED
        BY <2>1, <3>2, <4>2, <4>3 DEF DelQueueDone, Spared
    <3>3. QED
      BY <3>1, <3>2
  <2>4. ASSUME NEW q \in Req \ {r}
        PROVE  Spared(q)'
    BY <1>2, <2>1, OthersSpared DEF DelQueueDone, Own
  <2>5. QED
    BY <2>2, <2>3, <2>4
<1>12. ASSUME NEW r \in Req, delMark(r), Remember
      PROVE  AdminRemains' /\ \A q \in Req : Spared(q)'
  <2>1. DelMarkDone(r)
    BY <1>12, DelMarkEffect
  <2>2. h[r].id \in Id /\ Exists(h[r].id) /\ delMu = r /\ Spared(r)
    BY <1>2, <2>1 DEF DelMarkDone, Mutexes, Sound, Deletion
  <2>3. ASSUME NEW v \in Id \ {h[r].id}, ActiveAdmin(v)
        PROVE  ActiveAdmin(v)'
    BY <2>1, <2>3 DEF DelMarkDone, ActiveAdmin
  <2>4. Table' = Table
    BY <1>12, MarkedTable
  <2>5. AdminRemains'
    <3>1. PICK v \in Id : ActiveAdmin(v)
      BY <1>2, <2>2 DEF AdminRemains, Table
    <3>2. \E w \in Id \ {h[r].id} : ActiveAdmin(w)
      BY <2>1, <2>2, <3>1 DEF DelMarkDone, Spared
    <3>3. QED
      BY <2>3, <3>2 DEF AdminRemains
  <2>6. ASSUME NEW q \in Req \ {r}
        PROVE  Spared(q)'
    <3>1. h'[q] = h[q] /\ h[q].pc \notin Deletion /\ Spared(q)
      BY <1>2, <2>1, <2>2 DEF DelMarkDone, Own, Mutexes, Sound
    <3>2. QED
      BY <2>4, <3>1 DEF Spared, Deletion
  <2>7. Spared(r)'
    BY <2>1, <2>2 DEF DelMarkDone, Spared, Same
  <2>8. QED
    BY <2>5, <2>6, <2>7
<1>13. ASSUME NEW r \in Req, delClean(r), Remember
      PROVE  AdminRemains' /\ \A q \in Req : Spared(q)'
  <2>1. DelCleanDone(r)
    BY <1>13, DelCleanEffect
  <2>2. AdminRemains'
    BY <1>2, <2>1, SameAdmins DEF DelCleanDone
  <2>3. Spared(r)'
    BY <1>2, <2>1 DEF DelCleanDone, Spared, Same
  <2>4. ASSUME NEW q \in Req \ {r}
        PROVE  Spared(q)'
    BY <1>2, <2>1, OthersSpared DEF DelCleanDone, Own
  <2>5. QED
    BY <2>2, <2>3, <2>4
<1>14. ASSUME NEW r \in Req, delRow(r), Remember
      PROVE  AdminRemains' /\ \A q \in Req : Spared(q)'
  <2>1. DelRowDone(r)
    BY <1>14, DelRowEffect
  <2>2. h[r].id \in Id /\ users[h[r].id].status = "deleting" /\ delMu = r
    BY <1>2, <2>1 DEF DelRowDone, Mutexes, Sound, Deletion, Spared
  <2>3. ASSUME NEW v \in Id, ActiveAdmin(v)
        PROVE  ActiveAdmin(v)' /\ v \in Table'
    <3>1. v # h[r].id
      BY <2>2, <2>3 DEF ActiveAdmin
    <3>2. users'[v] = users[v]
      BY <2>1, <3>1 DEF DelRowDone
    <3>3. QED
      BY <2>3, <3>2 DEF ActiveAdmin, Table, Exists, Exist
  <2>4. Table' \subseteq Table
    BY <2>1 DEF DelRowDone, Table, Exists, Exist
  <2>5. AdminRemains'
    BY <1>2, <2>3, <2>4 DEF AdminRemains
  <2>6. ASSUME NEW q \in Req \ {r}
        PROVE  Spared(q)'
    <3>1. h'[q] = h[q] /\ h[q].pc \notin Deletion /\ Spared(q)
      BY <1>2, <2>1, <2>2 DEF DelRowDone, Own, Mutexes, Sound
    <3>2. Table # {} => Table' # {}
      BY <1>2, <2>3 DEF AdminRemains
    <3>3. QED
      BY <3>1, <3>2 DEF Spared, Deletion
  <2>7. Spared(r)'
    BY <2>1 DEF DelRowDone, Spared, Deletion
  <2>8. QED
    BY <2>5, <2>6, <2>7
<1>15. ASSUME NEW r \in Req, delFail(r), Remember
      PROVE  AdminRemains' /\ \A q \in Req : Spared(q)'
  <2>1. Own(r) /\ h'[r].pc = "idle" /\ users' = users
    BY <1>15, EndEffect DEF delFail
  <2>2. AdminRemains'
    BY <1>2, <2>1, SameAdmins
  <2>3. Spared(r)'
    BY <2>1 DEF Spared, Deletion
  <2>4. ASSUME NEW q \in Req \ {r}
        PROVE  Spared(q)'
    BY <1>2, <2>1, OthersSpared DEF Own
  <2>5. QED
    BY <2>2, <2>3, <2>4
<1>16. ASSUME NEW r \in Req, createAsset(r), Remember
      PROVE  AdminRemains' /\ \A q \in Req : Spared(q)'
  <2>1. Own(r) /\ h'[r].pc = "idle" /\ users' = users
    BY <1>16, EndEffect DEF createAsset
  <2>2. AdminRemains'
    BY <1>2, <2>1, SameAdmins
  <2>3. Spared(r)'
    BY <2>1 DEF Spared, Deletion
  <2>4. ASSUME NEW q \in Req \ {r}
        PROVE  Spared(q)'
    BY <1>2, <2>1, OthersSpared DEF Own
  <2>5. QED
    BY <2>2, <2>3, <2>4
<1>17. ASSUME NEW u \in Id, scanStarts(u), Remember
      PROVE  AdminRemains' /\ \A q \in Req : Spared(q)'
  BY <1>2, <1>17, SameAdmins, OthersSpared DEF scanStarts
<1>18. ASSUME NEW u \in Id, scanEnds(u), Remember
      PROVE  AdminRemains' /\ \A q \in Req : Spared(q)'
  BY <1>2, <1>18, SameAdmins, OthersSpared DEF scanEnds
<1>19. CASE UNCHANGED vars
  BY <1>2, <1>19, SameAdmins, OthersSpared DEF vars
<1>20. QED
  BY <1>3, <1>4, <1>5, <1>6, <1>7, <1>8, <1>9, <1>10, <1>11, <1>12, <1>13, <1>14, <1>15, <1>16, <1>17, <1>18, <1>19, QuietSteps DEF Next, Handler, Delete

-----------------------------------------------------------------------------
(* The theorems.                                                           *)

\* The invariant holds at the start, of a new system and of one with accounts.
LEMMA InitIInv ==
  ASSUME Init
  PROVE  IInv
<1>1. /\ h = [r \in Req |-> Idle] /\ regMu = None /\ delMu = None
      /\ assets = [u \in Id |-> {}] /\ overlap = {} /\ fails = 0
  BY DEF Init
<1>2. patched = FALSE /\ firstRun \in BOOLEAN
  BY DEF Init
<1>3. \A r \in Req : h[r] = Idle /\ h[r].pc = "idle"
  BY <1>1 DEF Idle
<1>4. /\ users \in [Id -> User] /\ AdminRemains
      /\ \A u, v \in Table : users[u].name = users[v].name => u = v
  <2>1. CASE users = [u \in Id |-> NoUser]
    <3>1. NoUser \in User /\ NoUser.status = "none"
      BY DEF NoUser, User, Status, Exist
    <3>2. users \in [Id -> User] /\ Table = {}
      BY <2>1, <3>1 DEF Table, Exists, Exist
    <3>3. QED
      BY <3>2 DEF AdminRemains
  <2>2. ASSUME NEW f \in [Name -> Id], NEW roles \in [Name -> {"user", "admin"}],
               \A m, n \in Name : f[m] = f[n] => m = n,
               \E n \in Name : roles[n] = "admin",
               users = [u \in Id |->
                  IF \E n \in Name : f[n] = u
                  THEN LET n == CHOOSE m \in Name : f[m] = u
                       IN  [name |-> n, role |-> roles[n], status |-> "active"]
                  ELSE NoUser]
        PROVE  /\ users \in [Id -> User] /\ AdminRemains
               /\ \A u, v \in Table : users[u].name = users[v].name => u = v
    <3>1. ASSUME NEW u \in Id
          PROVE  \/ \E n \in Name : /\ f[n] = u /\ users[u] = [name |-> n, role |-> roles[n], status |-> "active"]
                 \/ users[u] = NoUser /\ ~\E n \in Name : f[n] = u
      BY <2>2
    <3>2. ASSUME NEW u \in Id
          PROVE  users[u] \in User
      <4>1. NoUser \in User
        BY DEF NoUser, User, Status, Exist
      <4>2. ASSUME NEW n \in Name
            PROVE  [name |-> n, role |-> roles[n], status |-> "active"] \in User
        BY DEF User, Status, Exist
      <4>3. CASE users[u] = NoUser
        BY <4>1, <4>3
      <4>4. CASE \E n \in Name : users[u] = [name |-> n, role |-> roles[n], status |-> "active"]
        BY <4>2, <4>4
      <4>5. QED
        BY <3>1, <4>3, <4>4
    <3>3. users \in [Id -> User]
      <4>1. DOMAIN users = Id /\ users = [u \in Id |-> users[u]]
        BY <2>2
      <4>2. QED
        BY <3>2, <4>1
    <3>4. ASSUME NEW u \in Table
          PROVE  users[u].name \in Name /\ f[users[u].name] = u
      <4>1. users[u] # NoUser /\ u \in Id
        BY DEF NoUser, Table, Exists, Exist
      <4>2. PICK n \in Name : /\ f[n] = u
                             /\ users[u] = [name |-> n, role |-> roles[n], status |-> "active"]
        BY <3>1, <4>1
      <4>3. users[u].name = n
        BY <4>2
      <4>4. QED
        BY <4>2, <4>3
    <3>5. AdminRemains
      <4>1. PICK n \in Name : roles[n] = "admin"
        BY <2>2
      <4>2. f[n] \in Id
        OBVIOUS
      <4>3. users[f[n]] = [name |-> n, role |-> roles[n], status |-> "active"]
        BY <2>2, <3>1, <4>2
      <4>4. ActiveAdmin(f[n])
        BY <4>1, <4>3 DEF ActiveAdmin
      <4>5. QED
        BY <4>2, <4>4 DEF AdminRemains
    <3>6. \A u, v \in Table : users[u].name = users[v].name => u = v
      BY <3>4
    <3>7. QED
      BY <3>3, <3>5, <3>6
  <2>3. QED
    BY <2>1, <2>2 DEF Init
<1>5. TypeOK
  <2>1. h \in [Req -> Request] /\ assets \in [Id -> SUBSET Kind] /\ fails \in 0..MaxFail
    BY <1>1, IdleRequest, BoundAssumption
  <2>2. firstRun \in BOOLEAN /\ patched \in BOOLEAN
    BY <1>2
  <2>3. QED
    BY <1>1, <1>4, <2>1, <2>2 DEF TypeOK
<1>6. Mutexes
  BY <1>1, <1>3, BoundAssumption DEF Mutexes, Sound, Deletion, Patching
<1>7. Bootstrap /\ Cleaned
  BY <1>3 DEF Bootstrap, Anonymous, Cleaned, Removed
<1>8. DeletionIsComplete
  BY <1>1 DEF DeletionIsComplete
<1>9. \A r \in Req : Spared(r)
  BY <1>3 DEF Spared, Deletion
<1>10. QED
  BY <1>4, <1>5, <1>6, <1>7, <1>8, <1>9 DEF IInv, DeletionsKeepAdmin, Admins

\* Every step keeps it.
LEMMA NextIInv ==
  ASSUME IInv, [Next]_vars
  PROVE  IInv'
<1>1. TypeOK'
  BY RequestsStep, UsersStep, NamesStep, RestStep DEF IInv, TypeOK
<1>2. Mutexes' /\ Bootstrap'
  BY MutexesStep, BootstrapStep DEF IInv
<1>3. Cleaned' /\ DeletionIsComplete'
  BY CleanedStep, CompleteStep DEF IInv
<1>4. (DeletionsKeepAdmin /\ Admins)'
  BY AdminsStep DEF IInv
<1>5. QED
  BY <1>1, <1>2, <1>3, <1>4 DEF IInv

LEMMA AlwaysIInv == Spec => []IInv
  BY InitIInv, NextIInv, PTL DEF Spec

\* The accounts keep distinct names and their types, and a completed deletion, after
\* any number of failed ones, has left nothing of the account unless a request or a
\* scan of its user overlapped it (cleanDeleteUser).
THEOREM DeletionsAreComplete == Spec => []AccountInv
<1>1. IInv => AccountInv
  BY DEF IInv, AccountInv
<1>2. QED
  BY <1>1, AlwaysIInv, PTL

\* However registrations and deletions, of oneself and of others, overlap, there is an
\* active administrator as long as there are accounts and PATCH has written none
\* (cleanDeleteUser, handleAuthRegister).
THEOREM AnAdminRemains == Spec => []DeletionsKeepAdmin
<1>1. IInv => DeletionsKeepAdmin
  BY DEF IInv
<1>2. QED
  BY <1>1, AlwaysIInv, PTL

\* The bootstrap token creates an account only in an empty table, however many
\* requests carry it (handleAuthRegister).
THEOREM BootstrapIsOnce == Spec => AnonymousOnlyWhenEmpty
<1>1. IInv /\ [Next]_vars =>
        [\A r \in Req : h[r].pc = "insert" /\ h[r].ask = "anonymous" /\ users' # users => Table = {}]_vars
  BY DEF IInv, Bootstrap, Anonymous
<1>2. QED
  BY <1>1, AlwaysIInv, PTL DEF Spec, AnonymousOnlyWhenEmpty

\* PATCH writes the account it has read, never another one that has meanwhile got its
\* name (patchAdminUser).
THEOREM PatchIsPrecise == Spec => PatchSparesNamesake
<1>1. ASSUME IInv, Next, NEW r \in Req, NEW v \in Id,
             h[r].pc = "patchUpdate", h'[r].pc # "patchUpdate", users'[v] # users[v]
      PROVE  v = h[r].id
  <2>1. TypeOK /\ Mutexes
    BY <1>1 DEF IInv
  <2>2. ASSUME NEW q \in Req, authenticate(q)
        PROVE  v = h[r].id
    BY <1>1, <2>2 DEF authenticate
  <2>3. ASSUME NEW q \in Req, handleFirstRunComplete(q)
        PROVE  v = h[r].id
    BY <1>1, <2>3 DEF handleFirstRunComplete
  <2>4. ASSUME NEW q \in Req, registerCheck(q)
        PROVE  v = h[r].id
    BY <1>1, <2>4 DEF registerCheck
  <2>5. ASSUME NEW q \in Req, registerInsert(q)
        PROVE  v = h[r].id
    <3>1. InsertDone(q)
      BY <2>1, <2>5, InsertEffect
    <3>2. QED
      BY <1>1, <3>1 DEF InsertDone, Own
  <2>6. ASSUME NEW q \in Req, patchSelect(q)
        PROVE  v = h[r].id
    BY <1>1, <2>6 DEF patchSelect
  <2>7. ASSUME NEW q \in Req, patchRole(q)
        PROVE  v = h[r].id
    BY <1>1, <2>7 DEF patchRole
  <2>8. ASSUME NEW q \in Req, patchStatus(q)
        PROVE  v = h[r].id
    BY <1>1, <2>8 DEF patchStatus
  <2>9. ASSUME NEW q \in Req, patchUpdate(q)
        PROVE  v = h[r].id
    <3>1. PatchUpdateDone(q)
      BY <2>1, <2>9, PatchUpdateEffect
    <3>2. QED
      BY <1>1, <3>1 DEF PatchUpdateDone, Own
  <2>10. ASSUME NEW q \in Req, patchCron(q)
        PROVE  v = h[r].id
    BY <1>1, <2>10 DEF patchCron
  <2>11. ASSUME NEW q \in Req, handleAdminUserDelete(q)
        PROVE  v = h[r].id
    BY <1>1, <2>11 DEF handleAdminUserDelete
  <2>12. ASSUME NEW q \in Req, handleAuthAccount(q)
        PROVE  v = h[r].id
    BY <1>1, <2>12 DEF handleAuthAccount
  <2>13. ASSUME NEW q \in Req, delSelect(q)
        PROVE  v = h[r].id
    BY <1>1, <2>13 DEF delSelect
  <2>14. ASSUME NEW q \in Req, delCheck(q)
        PROVE  v = h[r].id
    BY <1>1, <2>14 DEF delCheck
  <2>15. ASSUME NEW q \in Req, delBusy(q)
        PROVE  v = h[r].id
    BY <1>1, <2>15 DEF delBusy
  <2>16. ASSUME NEW q \in Req, delQueue(q)
        PROVE  v = h[r].id
    BY <1>1, <2>16 DEF delQueue
  <2>17. ASSUME NEW q \in Req, delMark(q)
        PROVE  v = h[r].id
    <3>1. DelMarkDone(q)
      BY <2>1, <2>17, DelMarkEffect
    <3>2. QED
      BY <1>1, <3>1 DEF DelMarkDone, Own
  <2>18. ASSUME NEW q \in Req, delClean(q)
        PROVE  v = h[r].id
    BY <1>1, <2>18 DEF delClean
  <2>19. ASSUME NEW q \in Req, delRow(q)
        PROVE  v = h[r].id
    <3>1. DelRowDone(q)
      BY <2>1, <2>19, DelRowEffect
    <3>2. QED
      BY <1>1, <3>1 DEF DelRowDone, Own
  <2>20. ASSUME NEW q \in Req, delFail(q)
        PROVE  v = h[r].id
    BY <1>1, <2>20 DEF delFail
  <2>21. ASSUME NEW q \in Req, createAsset(q)
        PROVE  v = h[r].id
    BY <1>1, <2>21 DEF createAsset
  <2>22. ASSUME NEW u \in Id, scanStarts(u)
        PROVE  v = h[r].id
    BY <1>1, <2>22 DEF scanStarts
  <2>23. ASSUME NEW u \in Id, scanEnds(u)
        PROVE  v = h[r].id
    BY <1>1, <2>23 DEF scanEnds
  <2>24. QED
    BY <1>1, <2>2, <2>3, <2>4, <2>5, <2>6, <2>7, <2>8, <2>9, <2>10, <2>11, <2>12, <2>13, <2>14, <2>15, <2>16, <2>17, <2>18, <2>19, <2>20, <2>21, <2>22, <2>23 DEF Next, Handler, Delete
<1>2. IInv /\ [Next]_vars =>
        [\A r \in Req, u \in Id : h[r].pc = "patchUpdate" /\ h'[r].pc # "patchUpdate" /\ users'[u] # users[u]
                                      => u = h[r].id]_vars
  BY <1>1
<1>3. QED
  BY <1>2, AlwaysIInv, PTL DEF Spec, PatchSparesNamesake

=============================================================================
