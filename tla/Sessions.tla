------------------------------- MODULE Sessions -------------------------------
(***************************************************************************)
(* Sessions, passwords and the Argon2 slots (server/auth.go, and the part  *)
(* of PATCH in server/users.go that concerns them), for one account.       *)
(*                                                                         *)
(* Every handler is a goroutine of its own.  It works on what it read from *)
(* the user database a few statements earlier: authentication is a SELECT  *)
(* and later an UPDATE, a login is a SELECT, a computation and an INSERT,  *)
(* and PATCH writes back the whole row it read.  A password hash carries a *)
(* fresh salt, so hashes are numbered; 0 is NULL.                          *)
(***************************************************************************)
EXTENDS Integers, FiniteSets, FiniteSetsExt

CONSTANTS
    Session,        \* session tokens that may be issued
    Req,            \* requests handled at the same time
    Ops,            \* the operations that occur, a subset of AllOps
    Slots,          \* argon2Concurrency
    RefreshAfter, IdleTTL, AbsTTL,  \* sessionRefreshAfter, sessionIdleTTL, ...
    Keep,           \* how long the janitor keeps a revoked row
    MaxTime,        \* bound: the clock
    MaxHash,        \* bound: password hashes computed
    DbErrors,       \* whether statements whose errors are ignored may fail
    None

AllOps == {"logout", "password", "patch", "janitor"}

ASSUME OpsAssumption == Ops \subseteq AllOps /\ DbErrors \in BOOLEAN
ASSUME TTLAssumption ==
    /\ {RefreshAfter, IdleTTL, AbsTTL, Keep, MaxTime, MaxHash} \subseteq Nat
    /\ 0 < MaxHash /\ 0 < RefreshAfter /\ RefreshAfter < IdleTTL /\ IdleTTL < AbsTTL
ASSUME SlotsAssumption == Slots \in Nat \ {0} /\ IsFiniteSet(Req)

\* A row of the sessions table (see Usable).
Row == [seen : 0..MaxTime, idle : Nat, abs : Nat, revoked : (0..MaxTime) \cup {None},
        used : 0..MaxTime, born : 0..MaxTime, cred : 1..MaxHash]

ASSUME NoneAssumption == None \notin Session \cup Row \cup Nat

VARIABLES
    now,        \* the clock
    status,     \* users.status of the account
    hash,       \* users.password_hash
    lastHash,   \* history: the newest hash computed so far
    row,        \* the sessions table: token -> row or None
    h,          \* the requests under way
    slots,      \* elements in argon2Limiter.slots
    stale       \* history: a handler has written something that a concurrent
                \* write had made out of date, or a revocation has failed

vars == <<now, status, hash, lastHash, row, h, slots, stale>>

\* A request that does not exist; also what every finished handler becomes.
Idle == [pc |-> "idle", s |-> None, hash |-> 0, status |-> "active", t |-> 0,
         asks |-> "none", kdf |-> FALSE]

KdfSteps == {"loginVerify", "loginDummy", "passwordVerify", "passwordHash", "patchHash"}

Init ==
    /\ now = 0 /\ status = "active" /\ hash = 1 /\ lastHash = 1
    /\ row = [s \in Session |-> None]
    /\ h = [r \in Req |-> Idle]
    /\ slots = 0 /\ stale = FALSE

\* The WHERE clause of authenticateRequest.  A row that is not None is
\* [seen, idle, abs, revoked] and, as history, used, born and cred: when it last
\* authenticated, when it was issued and which hash its login had verified.
Usable(s) ==
    /\ row[s] # None
    /\ row[s].revoked = None
    /\ row[s].idle > now
    /\ row[s].abs > now
    /\ status = "active"

\* UPDATE sessions SET revoked_at=? WHERE user_id=?
RevokeAll(unrevokedOnly) ==
    [s \in Session |-> IF row[s] = None \/ (unrevokedOnly /\ row[s].revoked # None)
                       THEN row[s] ELSE [row[s] EXCEPT !.revoked = now]]

Go(r, pc) == h' = [h EXCEPT ![r].pc = pc]
End(r) == h' = [h EXCEPT ![r] = Idle]

-----------------------------------------------------------------------------
(* Authentication: the SELECT, then the UPDATE of an old last_seen_at.     *)

authSelect(r, s) ==
    /\ h[r].pc = "idle"
    /\ Usable(s)
    /\ h' = [h EXCEPT ![r] = [Idle EXCEPT !.s = s, !.t = now, !.pc =
                 IF now - row[s].seen >= RefreshAfter THEN "refresh" ELSE "authed"]]
    /\ row' = [row EXCEPT ![s].used = now]
    /\ UNCHANGED <<now, status, hash, lastHash, slots, stale>>

\* Mutation: the whole row read earlier is written back.
RefreshWholeRow(r) ==
    /\ h[r].pc = "refresh"
    /\ row' = [row EXCEPT ![h[r].s] = IF @ = None THEN @ ELSE
                 [@ EXCEPT !.seen = h[r].t, !.revoked = None,
                           !.idle = Min({h[r].t + IdleTTL, row[h[r].s].abs})]]
    /\ Go(r, "authed")
    /\ UNCHANGED <<now, status, hash, lastHash, slots, stale>>

\* Mutation: the idle limit is extended to the absolute one.
RefreshToAbsolute(r) ==
    /\ h[r].pc = "refresh"
    /\ row' = [row EXCEPT ![h[r].s] = IF @ = None THEN @ ELSE
                 [@ EXCEPT !.seen = h[r].t, !.idle = row[h[r].s].abs]]
    /\ Go(r, "authed")
    /\ UNCHANGED <<now, status, hash, lastHash, slots, stale>>

\* Only two columns are written, with the time the request was authenticated
\* at; the row may have been removed, and an error is ignored.
authRefresh(r) ==
    /\ h[r].pc = "refresh"
    /\ LET s == h[r].s
       IN  \/ row' = [row EXCEPT ![s] = IF @ = None THEN @ ELSE
                        [@ EXCEPT !.seen = h[r].t,
                                  !.idle = Min({h[r].t + IdleTTL, row[s].abs})]]
           \/ DbErrors /\ UNCHANGED row
    /\ Go(r, "authed")
    /\ UNCHANGED <<now, status, hash, lastHash, slots, stale>>

\* Any other handler of an authenticated request.
endRequest(r) ==
    /\ h[r].pc = "authed"
    /\ End(r)
    /\ UNCHANGED <<now, status, hash, lastHash, row, slots, stale>>

handleAuthLogout(r) ==
    /\ "logout" \in Ops
    /\ h[r].pc = "authed"
    /\ row' = [row EXCEPT ![h[r].s] = IF @ = None THEN @ ELSE [@ EXCEPT !.revoked = now]]
    /\ End(r)
    /\ UNCHANGED <<now, status, hash, lastHash, slots, stale>>

-----------------------------------------------------------------------------
(* The password computations share the slots; a request that finds none    *)
(* free is answered 429 and ends.                                          *)

tryAcquire(r) ==
    /\ h[r].pc \in KdfSteps /\ ~h[r].kdf
    /\ IF slots < Slots
       THEN slots' = slots + 1 /\ h' = [h EXCEPT ![r].kdf = TRUE]
       ELSE UNCHANGED slots /\ End(r)
    /\ UNCHANGED <<now, status, hash, lastHash, row, stale>>

AfterKdf == [loginVerify |-> "insert", passwordVerify |-> "passwordHash",
             passwordHash |-> "passwordCommit", patchHash |-> "patchUpdate"]

\* The computation ends, the deferred release runs, and the handler goes on or
\* answers that the password is wrong (or could not be hashed).
release(r) ==
    /\ h[r].kdf
    /\ slots' = slots - 1
    /\ \/ End(r)
       \/ /\ h[r].pc # "loginDummy"
          /\ h' = [h EXCEPT ![r].kdf = FALSE, ![r].pc = AfterKdf[h[r].pc]]
    /\ UNCHANGED <<now, status, hash, lastHash, row, stale>>

-----------------------------------------------------------------------------
(* Login, change of one's own password, PATCH by an administrator.         *)

\* An account without password costs the same computation; a disabled one with
\* a password is refused at once (no step).
loginSelect(r) ==
    /\ h[r].pc = "idle"
    /\ status = "active" \/ hash = 0
    /\ h' = [h EXCEPT ![r] = [Idle EXCEPT !.hash = hash,
                 !.pc = IF hash = 0 THEN "loginDummy" ELSE "loginVerify"]]
    /\ UNCHANGED <<now, status, hash, lastHash, row, slots, stale>>

loginInsert(r) ==
    /\ h[r].pc = "insert"
    /\ \E s \in Session :
          /\ row[s] = None
          /\ \A q \in Req : h[q].s # s
          /\ row' = [row EXCEPT ![s] = [seen |-> now, idle |-> now + IdleTTL,
                        abs |-> now + AbsTTL, revoked |-> None,
                        used |-> now, born |-> now, cred |-> h[r].hash]]
    /\ stale' = (stale \/ h[r].hash # hash)
    /\ End(r)
    /\ UNCHANGED <<now, status, hash, lastHash, slots>>

passwordSelect(r) ==
    /\ "password" \in Ops
    /\ h[r].pc = "authed"
    /\ hash # 0
    /\ h' = [h EXCEPT ![r].hash = hash, ![r].pc = "passwordVerify"]
    /\ UNCHANGED <<now, status, hash, lastHash, row, slots, stale>>

\* Mutation: only the session of the request is revoked.
RevokeOwnSession(r) ==
    /\ h[r].pc = "passwordCommit" /\ lastHash < MaxHash
    /\ hash' = lastHash + 1 /\ lastHash' = lastHash + 1
    /\ row' = [row EXCEPT ![h[r].s] = IF @ = None THEN @ ELSE [@ EXCEPT !.revoked = now]]
    /\ End(r)
    /\ UNCHANGED <<now, status, slots, stale>>

\* One transaction sets the hash and revokes every session, or fails.
passwordCommit(r) ==
    /\ h[r].pc = "passwordCommit"
    /\ \/ /\ lastHash < MaxHash
          /\ hash' = lastHash + 1 /\ lastHash' = lastHash + 1
          /\ row' = RevokeAll(FALSE)
       \/ UNCHANGED <<hash, lastHash, row>>
    /\ End(r)
    /\ UNCHANGED <<now, status, slots, stale>>

\* PATCH reads the row; asks is the one field of it that the request changes
\* ("none": a role or a TimeDock account).  status and hash are the values that
\* will be written.
patchSelect(r, asks) ==
    /\ "patch" \in Ops
    /\ h[r].pc = "idle"
    /\ h' = [h EXCEPT ![r] = [Idle EXCEPT !.asks = asks,
                 !.pc = IF asks = "password" THEN "patchHash" ELSE "patchUpdate",
                 !.hash = IF asks = "clear" THEN 0 ELSE hash,
                 !.status = IF asks \in {"active", "disabled"} THEN asks ELSE status,
                 !.t = hash]]
    /\ UNCHANGED <<now, status, hash, lastHash, row, slots, stale>>

\* The hash is new if one was asked for, else the one read with the row (t).
patchUpdate(r) ==
    /\ h[r].pc = "patchUpdate"
    /\ h[r].asks = "password" => lastHash < MaxHash
    /\ hash' = IF h[r].asks = "password" THEN lastHash + 1 ELSE h[r].hash
    /\ lastHash' = IF h[r].asks = "password" THEN lastHash + 1 ELSE lastHash
    /\ status' = h[r].status
    /\ stale' = (stale \/ h[r].t # hash)
    /\ IF h[r].status = "disabled" \/ h[r].asks \in {"password", "clear"}
       THEN Go(r, "patchRevoke") ELSE End(r)
    /\ UNCHANGED <<now, row, slots>>

\* A second statement, outside any transaction, its error ignored.
patchRevoke(r) ==
    /\ h[r].pc = "patchRevoke"
    /\ \/ row' = RevokeAll(TRUE) /\ UNCHANGED stale
       \/ DbErrors /\ stale' = TRUE /\ UNCHANGED row
    /\ End(r)
    /\ UNCHANGED <<now, status, hash, lastHash, slots>>

-----------------------------------------------------------------------------

runSessionJanitor ==
    /\ "janitor" \in Ops
    /\ row' = [s \in Session |->
                 IF /\ row[s] # None
                    /\ \/ row[s].abs < now
                       \/ row[s].idle < now
                       \/ row[s].revoked # None /\ row[s].revoked < now - Keep
                 THEN None ELSE row[s]]
    /\ UNCHANGED <<now, status, hash, lastHash, h, slots, stale>>

\* A step of the clock stands for minutes.  The UPDATE of a refresh waits at most
\* busy_timeout (5 s) for the database, so it falls behind by one step at most.
Tick ==
    /\ now < MaxTime
    /\ \A r \in Req : h[r].pc = "refresh" => h[r].t = now
    /\ now' = now + 1
    /\ UNCHANGED <<status, hash, lastHash, row, h, slots, stale>>

Handler(r) ==
    \/ \E s \in Session : authSelect(r, s)
    \/ authRefresh(r) \/ endRequest(r) \/ handleAuthLogout(r)
    \/ tryAcquire(r) \/ release(r)
    \/ loginSelect(r) \/ loginInsert(r)
    \/ passwordSelect(r) \/ passwordCommit(r)
    \/ \E asks \in {"none", "password", "clear", "active", "disabled"} : patchSelect(r, asks)
    \/ patchUpdate(r) \/ patchRevoke(r)

Next == (\E r \in Req : Handler(r)) \/ runSessionJanitor \/ Tick

Spec == Init /\ [][Next]_vars

-----------------------------------------------------------------------------
Request ==
    [pc : KdfSteps \cup {"idle", "refresh", "authed", "insert", "passwordCommit",
                         "patchUpdate", "patchRevoke"},
     s : Session \cup {None}, hash : 0..MaxHash, status : {"active", "disabled"},
     t : Nat, asks : {"none", "password", "clear", "active", "disabled"}, kdf : BOOLEAN]

\* Types; the idle limit of a row never exceeds its absolute one.
TypeOK ==
    /\ now \in 0..MaxTime /\ status \in {"active", "disabled"}
    /\ lastHash \in 1..MaxHash /\ hash \in 0..lastHash
    /\ row \in [Session -> Row \cup {None}]
    /\ h \in [Req -> Request]
    /\ slots \in 0..Slots /\ stale \in BOOLEAN
    /\ \A s \in Session : row[s] # None => row[s].idle <= row[s].abs

\* A session authenticates for at most AbsTTL after it was issued and at most
\* IdleTTL after its last use, however the late refreshes of overlapping
\* requests interleave (authenticateRequest).
LimitsHold ==
    \A s \in Session : Usable(s) => /\ now < row[s].born + AbsTTL
                                    /\ now < row[s].used + IdleTTL

\* Every slot taken belongs to a handler that is computing: none leaks when a
\* login fails or is refused, and none is returned twice (argon2Limiter).
SlotsAreHeld == slots = Cardinality({r \in Req : h[r].kdf})

\* A revoked session never authenticates again, not even when a request that
\* authenticated before the revocation refreshes the row after it.
RevokedStaysDead ==
    [][\A s \in Session : row[s] # None /\ row[s].revoked # None
                            => row'[s] = None \/ row'[s].revoked # None]_vars

\* Time passes, a handler sets a password or an account, or s logs itself out.
Reason(s) ==
    \/ now' # now
    \/ \E r \in Req : h[r].pc \in {"passwordCommit", "patchUpdate", "patchRevoke"} /\ h'[r] # h[r]
    \/ \E r \in Req : h[r].s = s /\ h[r].pc = "authed" /\ h'[r] = Idle

\* Nobody is logged out by accident: a session that authenticates stops doing so
\* because time passes, by logout, by a new password or by PATCH; the janitor and
\* the refreshes of other requests never end it.
EndsForAReason == [][\A s \in Session : Usable(s) /\ ~Usable(s)' => Reason(s)]_vars

\* As long as no handler has acted on a hash that was out of date, and no
\* revocation has failed, every session that authenticates was opened with the
\* present password, except while PATCH is between its two statements.
PasswordRevokes ==
    ~stale => \A s \in Session : Usable(s) =>
                 \/ row[s].cred = hash
                 \/ \E r \in Req : h[r].pc = "patchRevoke" /\ h[r].asks \in {"password", "clear"}

\* The clock, the account, the sessions and the requests have their types; a
\* session authenticates for at most AbsTTL after it was issued and IdleTTL after
\* its last use; and every Argon2 slot taken belongs to a handler that computes.
SessionInv == TypeOK /\ LimitsHold /\ SlotsAreHeld

\* A revoked session stays dead, whatever late refreshes do to its row; and one
\* that authenticates ends only by time, logout, a new password or PATCH, never by
\* the janitor or by another request.
SessionsEndForGood == RevokedStaysDead /\ EndsForAReason
=============================================================================
