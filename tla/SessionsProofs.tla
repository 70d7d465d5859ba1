---------------------------- MODULE SessionsProofs ----------------------------
(***************************************************************************)
(* Proofs about sessions and the Argon2 slots, for any number of requests, *)
(* sessions, slots and password changes, and all life times.               *)
(***************************************************************************)
EXTENDS Authentication, Sequences, FiniteSetTheorems, TLAPS

-----------------------------------------------------------------------------
(* The inductive invariant.                                                *)

\* What the handlers remember: only one that holds a slot computes; a login that
\* verifies has read a password; a refresh is at most one step of the clock behind
\* (busy_timeout); PATCH writes back the hash it read unless it was asked for another.
Requests ==
    \A r \in Req :
        /\ h[r].kdf => h[r].pc \in KdfSteps
        /\ h[r].pc \in {"loginVerify", "insert"} => h[r].hash # 0
        /\ h[r].hash <= lastHash
        /\ h[r].pc = "refresh" => h[r].t <= now /\ now <= h[r].t + 1
        /\ h[r].pc \in {"refresh", "authed"} => h[r].s \in Session
        /\ h[r].pc = "patchHash" => h[r].asks = "password"
        /\ h[r].pc = "patchUpdate" /\ h[r].asks \notin {"password", "clear"} => h[r].hash = h[r].t

\* What a row says of its own past: the absolute limit counts from its birth, the
\* idle limit from a use at most, also after the refreshes that are still to come.
Rows ==
    \A s \in Session : row[s] # None =>
        /\ row[s].used <= now
        /\ row[s].abs = row[s].born + AbsTTL
        /\ row[s].idle <= row[s].used + IdleTTL
        /\ \A r \in Req : h[r].pc = "refresh" /\ h[r].s = s => h[r].t <= row[s].used

\* A row that is not revoked was issued for the present password, whether or not it
\* authenticates at the moment, or the revocation is still to come.
Credentials ==
    ~stale => \A s \in Session : row[s] # None /\ row[s].revoked = None =>
        \/ row[s].cred = hash
        \/ \E r \in Req : h[r].pc = "patchRevoke" /\ h[r].asks \in {"password", "clear"}

IInv == TypeOK /\ SlotsAreHeld /\ Requests /\ Rows /\ Credentials

-----------------------------------------------------------------------------
(* Lemmas on the operators of the model.                                   *)

\* The earlier of two times.
LEMMA MinOfTwo ==
  ASSUME NEW a \in Int, NEW b \in Int
  PROVE  Min({a, b}) = IF a <= b THEN a ELSE b
<1> DEFINE P(x) == x \in {a, b} /\ \A y \in {a, b} : x <= y
<1>1. P(IF a <= b THEN a ELSE b)
  OBVIOUS
<1>2. \A x : P(x) => x = IF a <= b THEN a ELSE b
  OBVIOUS
<1>3. P(CHOOSE x : P(x))
  BY <1>1, Zenon
<1>4. QED
  BY <1>2, <1>3 DEF Min

\* Where a handler goes after each of its computations.
LEMMA AfterEachKdf ==
  /\ AfterKdf["loginVerify"] = "insert" /\ AfterKdf["passwordVerify"] = "passwordHash"
  /\ AfterKdf["passwordHash"] = "passwordCommit" /\ AfterKdf["patchHash"] = "patchUpdate"
  BY DEF AfterKdf

\* A request that does not exist is a request.
LEMMA IdleRequest == Idle \in Request
  BY TTLAssumption DEF Idle, Request, KdfSteps

\* The places of a handler.
Place == KdfSteps \cup {"idle", "refresh", "authed", "insert", "passwordCommit",
                         "patchUpdate", "patchRevoke"}

\* The ways in which handlers change what they remember give requests again: a
\* computation begins ...
LEMMA KdfBegins ==
  ASSUME NEW c \in Request
  PROVE  [c EXCEPT !.kdf = TRUE] \in Request
  BY DEF Request

\* ... and ends,
LEMMA KdfEnds ==
  ASSUME NEW c \in Request, NEW pc \in Place
  PROVE  [c EXCEPT !.kdf = FALSE, !.pc = pc] \in Request
  BY DEF Request, Place, KdfSteps

\* authenticateRequest has found the session,
LEMMA SessionFound ==
  ASSUME NEW c \in Request, NEW pc \in Place, NEW s \in Session, NEW t \in Nat
  PROVE  [c EXCEPT !.s = s, !.t = t, !.pc = pc] \in Request
  BY DEF Request, Place, KdfSteps

\* a login has read the hash,
LEMMA HashRead ==
  ASSUME NEW c \in Request, NEW pc \in Place, NEW k \in 0..MaxHash
  PROVE  [c EXCEPT !.hash = k, !.pc = pc] \in Request
  BY DEF Request, Place, KdfSteps

\* and PATCH has read the account.
LEMMA AccountRead ==
  ASSUME NEW c \in Request, NEW pc \in Place, NEW t \in Nat,
         NEW k \in 0..MaxHash, NEW st \in {"active", "disabled"},
         NEW asks \in {"none", "password", "clear", "active", "disabled"}
  PROVE  [c EXCEPT !.asks = asks, !.pc = pc, !.hash = k, !.status = st, !.t = t] \in Request
  BY DEF Request, Place, KdfSteps

\* What authRefresh does to a row: it writes at most seen and idle, and the new idle
\* limit lies IdleTTL after the authentication, or at the absolute limit if that is
\* earlier.
LEMMA RefreshEffect ==
  ASSUME TypeOK, Requests, NEW r \in Req, authRefresh(r), NEW x \in Session
  PROVE  /\ row'[x] = None <=> row[x] = None
         /\ row[x] # None =>
              /\ row'[x] \in Row /\ row'[x].abs = row[x].abs /\ row'[x].revoked = row[x].revoked
              /\ row'[x].used = row[x].used /\ row'[x].born = row[x].born
              /\ row'[x].cred = row[x].cred
              /\ \/ row'[x].idle = row[x].idle
                 \/ /\ x = h[r].s
                    /\ row'[x].idle \in {h[r].t + IdleTTL, row[x].abs}
                    /\ row'[x].idle <= h[r].t + IdleTTL /\ row'[x].idle <= row[x].abs
<1> DEFINE s == h[r].s
           m == Min({h[r].t + IdleTTL, row[s].abs})
           n == [row[s] EXCEPT !.seen = h[r].t, !.idle = m]
<1>1. s \in Session /\ h[r].t \in Nat /\ h[r].t <= now /\ now \in 0..MaxTime
  BY TTLAssumption DEF authRefresh, Requests, TypeOK, Request
<1>2. row[s] # None => /\ row[s] \in Row /\ m \in Nat
                       /\ m \in {h[r].t + IdleTTL, row[s].abs}
                       /\ m <= h[r].t + IdleTTL /\ m <= row[s].abs
  BY <1>1, MinOfTwo, TTLAssumption DEF TypeOK, Row
<1>3. h[r].t \in 0..MaxTime
  BY <1>1, TTLAssumption
<1>4. row[s] # None => /\ n \in Row /\ n # None /\ n.idle = m /\ n.abs = row[s].abs
                       /\ n.revoked = row[s].revoked /\ n.used = row[s].used
                       /\ n.born = row[s].born /\ n.cred = row[s].cred
  <2>1. CASE row[s] = None
    BY <2>1
  <2>2. CASE row[s] # None
    <3>1. row[s] \in Row /\ m \in Nat /\ n = [row[s] EXCEPT !.seen = h[r].t, !.idle = m]
      BY <1>2, <2>2
    <3> HIDE DEF n, m
    <3>2. n \in Row
      BY <1>3, <3>1 DEF Row
    <3>3. QED
      BY <1>3, <3>1, <3>2, NoneAssumption DEF Row
  <2>3. QED
    BY <2>1, <2>2
<1>5. row' = [row EXCEPT ![s] = IF row[s] = None THEN row[s] ELSE n] \/ row' = row
  BY DEF authRefresh
<1> HIDE DEF n, m
<1>6. row'[x] = row[x] \/ (x = s /\ row[s] # None /\ row'[x] = n)
  BY <1>1, <1>5 DEF TypeOK
<1>7. QED
  BY <1>2, <1>4, <1>6 DEF TypeOK

\* The handlers that compute.
Computing == {r \in Req : h[r].kdf}

\* They are finitely many, and their number changes by one when one begins or ends.
LEMMA CountComputing ==
  ASSUME NEW r \in Req
  PROVE  /\ Cardinality(Computing) \in Nat
         /\ r \notin Computing => Cardinality(Computing \cup {r}) = Cardinality(Computing) + 1
         /\ r \in Computing => /\ Cardinality(Computing) # 0
                               /\ Cardinality(Computing \ {r}) = Cardinality(Computing) - 1
<1>1. IsFiniteSet(Computing)
  BY SlotsAssumption, FS_Subset DEF Computing
<1>2. QED
  BY <1>1, FS_CardinalityType, FS_AddElement, FS_RemoveElement, FS_EmptySet

\* Every step keeps the types, and the idle limit of a row below its absolute one.
LEMMA TypeStep ==
  ASSUME TypeOK, SlotsAreHeld, Requests, [Next]_vars
  PROVE  TypeOK'
<1> USE IdleRequest, NoneAssumption, TTLAssumption, SlotsAssumption DEF TypeOK, Request, Row, KdfSteps, Requests
<1>1. ASSUME NEW r \in Req, NEW s \in Session, authSelect(r, s)
      PROVE  TypeOK'
  <2> DEFINE next == IF now - row[s].seen >= RefreshAfter THEN "refresh" ELSE "authed"
  <2>1. next \in Place /\ now \in Nat
    BY DEF Place
  <2> HIDE DEF next
  <2> HIDE DEF Request, Row, KdfSteps
  <2>2. [Idle EXCEPT !.s = s, !.t = now, !.pc = next] \in Request
    BY <2>1, SessionFound
  <2>3. h' = [h EXCEPT ![r] = [Idle EXCEPT !.s = s, !.t = now, !.pc = next]]
    BY <1>1 DEF authSelect, next
  <2>4. h' \in [Req -> Request]
    BY <2>2, <2>3
  <2>5. QED
    BY <1>1, <2>4 DEF authSelect, Usable, Row
<1>2. ASSUME NEW r \in Req, authRefresh(r)
      PROVE  TypeOK'
  <2>1. \A x \in Session : row'[x] \in Row \cup {None} /\ (row'[x] # None => row'[x].idle <= row'[x].abs)
    BY <1>2, RefreshEffect
  <2>2. DOMAIN row' = Session /\ row' = [x \in DOMAIN row' |-> row'[x]]
    BY <1>2 DEF authRefresh
  <2>3. row' \in [Session -> Row \cup {None}]
    BY <2>1, <2>2
  <2>4. h' \in [Req -> Request]
    BY <1>2 DEF authRefresh, Go
  <2>5. QED
    BY <1>2, <2>1, <2>3, <2>4 DEF authRefresh
<1>3. ASSUME NEW r \in Req, endRequest(r)
      PROVE  TypeOK'
  BY <1>3 DEF endRequest, End
<1>4. ASSUME NEW r \in Req, handleAuthLogout(r)
      PROVE  TypeOK'
  BY <1>4 DEF handleAuthLogout, End
<1>5. ASSUME NEW r \in Req, tryAcquire(r)
      PROVE  TypeOK'
  <2> HIDE DEF Request, Row
  <2>1. [h[r] EXCEPT !.kdf = TRUE] \in Request
    BY KdfBegins
  <2>2. h' = [h EXCEPT ![r] = [h[r] EXCEPT !.kdf = TRUE]] \/ h' = [h EXCEPT ![r] = Idle]
    BY <1>5 DEF tryAcquire, End
  <2>3. h' \in [Req -> Request]
    BY <2>1, <2>2
  <2>4. slots' \in 0..Slots
    BY <1>5 DEF tryAcquire
  <2>5. QED
    BY <1>5, <2>3, <2>4 DEF tryAcquire
<1>6. ASSUME NEW r \in Req, release(r)
      PROVE  TypeOK'
  <2>1. r \in Computing
    BY <1>6 DEF release, Computing
  <2>2. slots = Cardinality(Computing)
    BY DEF SlotsAreHeld, Computing
  <2>3. slots # 0
    BY <2>1, <2>2, CountComputing
  <2>4. slots' \in 0..Slots
    BY <1>6, <2>3 DEF release
  <2>5. h[r].pc \in KdfSteps
    BY <1>6 DEF release
  <2>6. h[r].pc # "loginDummy" => AfterKdf[h[r].pc] \in Place
    BY <2>5, AfterEachKdf DEF Place
  <2> HIDE DEF Request, Row, KdfSteps
  <2>7. h[r].pc # "loginDummy" => [h[r] EXCEPT !.kdf = FALSE, !.pc = AfterKdf[h[r].pc]] \in Request
    BY <2>6, KdfEnds
  <2>8. h' \in [Req -> Request]
    BY <1>6, <2>7 DEF release, End
  <2>9. QED
    BY <1>6, <2>4, <2>8 DEF release
<1>7. ASSUME NEW r \in Req, loginSelect(r)
      PROVE  TypeOK'
  <2> DEFINE next == IF hash = 0 THEN "loginDummy" ELSE "loginVerify"
  <2>1. next \in Place /\ hash \in 0..MaxHash
    BY DEF Place
  <2> HIDE DEF next
  <2> HIDE DEF Request, Row, KdfSteps
  <2>2. [Idle EXCEPT !.hash = hash, !.pc = next] \in Request
    BY <2>1, HashRead
  <2>3. h' = [h EXCEPT ![r] = [Idle EXCEPT !.hash = hash, !.pc = next]]
    BY <1>7 DEF loginSelect, next
  <2>4. QED
    BY <1>7, <2>2, <2>3 DEF loginSelect
<1>8. ASSUME NEW r \in Req, loginInsert(r)
      PROVE  TypeOK'
  BY <1>8 DEF loginInsert, End
<1>9. ASSUME NEW r \in Req, passwordSelect(r)
      PROVE  TypeOK'
  BY <1>9 DEF passwordSelect
<1>10. ASSUME NEW r \in Req, passwordCommit(r)
      PROVE  TypeOK'
  BY <1>10 DEF passwordCommit, End, RevokeAll
<1>11. ASSUME NEW r \in Req, NEW asks \in {"none", "password", "clear", "active", "disabled"}, patchSelect(r, asks)
      PROVE  TypeOK'
  <2> DEFINE next == IF asks = "password" THEN "patchHash" ELSE "patchUpdate"
             k == IF asks = "clear" THEN 0 ELSE hash
             st == IF asks \in {"active", "disabled"} THEN asks ELSE status
             c == [Idle EXCEPT !.asks = asks, !.pc = next, !.hash = k, !.status = st, !.t = hash]
  <2>1. next \in Place /\ k \in 0..MaxHash /\ st \in {"active", "disabled"} /\ hash \in Nat
    BY DEF Place
  <2>2. h' = [h EXCEPT ![r] = c]
    BY <1>11 DEF patchSelect
  <2> HIDE DEF next, k, st, Request, Row, KdfSteps
  <2>3. c \in Request
    BY <2>1, AccountRead
  <2> HIDE DEF c
  <2>4. QED
    BY <1>11, <2>2, <2>3 DEF patchSelect
<1>12. ASSUME NEW r \in Req, patchUpdate(r)
      PROVE  TypeOK'
  <2>1. h' \in [Req -> Request]
    BY <1>12 DEF patchUpdate, Go, End
  <2>2. lastHash' \in 1..MaxHash /\ hash' \in 0..lastHash'
    BY <1>12 DEF patchUpdate
  <2>3. stale' \in BOOLEAN
    BY <1>12 DEF patchUpdate
  <2>4. QED
    BY <1>12, <2>1, <2>2, <2>3 DEF patchUpdate
<1>13. ASSUME NEW r \in Req, patchRevoke(r)
      PROVE  TypeOK'
  <2>1. h' \in [Req -> Request] /\ stale' \in BOOLEAN
    BY <1>13 DEF patchRevoke, End
  <2>2. RevokeAll(TRUE) \in [Session -> Row \cup {None}]
    BY DEF RevokeAll
  <2>3. \A s \in Session : RevokeAll(TRUE)[s] # None =>
                             RevokeAll(TRUE)[s].idle <= RevokeAll(TRUE)[s].abs
    BY DEF RevokeAll
  <2>4. row' = RevokeAll(TRUE) \/ row' = row
    BY <1>13 DEF patchRevoke
  <2>5. QED
    BY <1>13, <2>1, <2>2, <2>3, <2>4 DEF patchRevoke
<1>14. CASE runSessionJanitor
  BY <1>14 DEF runSessionJanitor
<1>15. CASE Tick
  BY <1>15 DEF Tick
<1>16. CASE UNCHANGED vars
  BY <1>16 DEF vars
<1>17. QED
  BY <1>1, <1>2, <1>3, <1>4, <1>5, <1>6, <1>7, <1>8, <1>9, <1>10, <1>11, <1>12, <1>13, <1>14, <1>15, <1>16 DEF Next, Handler

\* What a handler remembers stays in line with where it is and with the clock.
LEMMA RequestsStep ==
  ASSUME TypeOK, Requests, [Next]_vars
  PROVE  Requests'
<1> USE NoneAssumption, TTLAssumption, SlotsAssumption DEF TypeOK, Request, Row, KdfSteps, Idle, Requests
<1>1. ASSUME NEW r \in Req, NEW s \in Session, authSelect(r, s)
      PROVE  Requests'
  BY <1>1 DEF authSelect, Usable
<1>2. ASSUME NEW r \in Req, authRefresh(r)
      PROVE  Requests'
  BY <1>2 DEF authRefresh, Go
<1>3. ASSUME NEW r \in Req, endRequest(r)
      PROVE  Requests'
  BY <1>3 DEF endRequest, End
<1>4. ASSUME NEW r \in Req, handleAuthLogout(r)
      PROVE  Requests'
  BY <1>4 DEF handleAuthLogout, End
<1>5. ASSUME NEW r \in Req, tryAcquire(r)
      PROVE  Requests'
  BY <1>5 DEF tryAcquire, End
<1>6. ASSUME NEW r \in Req, release(r)
      PROVE  Requests'
  <2>1. h[r].pc \in KdfSteps
    BY <1>6 DEF release
  <2>2. QED
    BY <1>6, <2>1, AfterEachKdf DEF release, End
<1>7. ASSUME NEW r \in Req, loginSelect(r)
      PROVE  Requests'
  BY <1>7 DEF loginSelect
<1>8. ASSUME NEW r \in Req, loginInsert(r)
      PROVE  Requests'
  BY <1>8 DEF loginInsert, End
<1>9. ASSUME NEW r \in Req, passwordSelect(r)
      PROVE  Requests'
  BY <1>9 DEF passwordSelect
<1>10. ASSUME NEW r \in Req, passwordCommit(r)
      PROVE  Requests'
  BY <1>10 DEF passwordCommit, End, RevokeAll
<1>11. ASSUME NEW r \in Req, NEW asks \in {"none", "password", "clear", "active", "disabled"}, patchSelect(r, asks)
      PROVE  Requests'
  BY <1>11 DEF patchSelect
<1>12. ASSUME NEW r \in Req, patchUpdate(r)
      PROVE  Requests'
  BY <1>12 DEF patchUpdate, Go, End
<1>13. ASSUME NEW r \in Req, patchRevoke(r)
      PROVE  Requests'
  BY <1>13 DEF patchRevoke, End, RevokeAll
<1>14. CASE runSessionJanitor
  BY <1>14 DEF runSessionJanitor
<1>15. CASE Tick
  BY <1>15 DEF Tick
<1>16. CASE UNCHANGED vars
  BY <1>16 DEF vars
<1>17. QED
  BY <1>1, <1>2, <1>3, <1>4, <1>5, <1>6, <1>7, <1>8, <1>9, <1>10, <1>11, <1>12, <1>13, <1>14, <1>15, <1>16 DEF Next, Handler

\* No use, refresh, revocation or passing of time takes a row beyond its limits: a
\* refresh that comes late writes the time at which its request was authenticated.
LEMMA RowsStep ==
  ASSUME TypeOK, Requests, Rows, [Next]_vars
  PROVE  Rows'
<1> USE NoneAssumption, TTLAssumption, SlotsAssumption DEF TypeOK, Request, Row, KdfSteps, Idle, Requests, Rows
<1>1. ASSUME NEW r \in Req, NEW s \in Session, authSelect(r, s)
      PROVE  Rows'
  BY <1>1 DEF authSelect, Usable
<1>2. ASSUME NEW r \in Req, authRefresh(r)
      PROVE  Rows'
  <2>1. /\ h[r].pc = "refresh" /\ now' = now
        /\ \A q \in Req : h'[q].pc = "refresh" => h'[q] = h[q]
    BY <1>2 DEF authRefresh, Go
  <2>2. SUFFICES ASSUME NEW x \in Session, row'[x] # None
               PROVE  /\ row'[x].used <= now' /\ row'[x].abs = row'[x].born + AbsTTL
                      /\ row'[x].idle <= row'[x].used + IdleTTL
                      /\ \A q \in Req : h'[q].pc = "refresh" /\ h'[q].s = x => h'[q].t <= row'[x].used
    OBVIOUS
  <2>3. row[x] # None
    BY <1>2, <2>2, RefreshEffect
  <2>4. row'[x].used = row[x].used /\ row'[x].abs = row[x].abs /\ row'[x].born = row[x].born
    BY <1>2, <2>3, RefreshEffect
  <2>5. row'[x].idle = row[x].idle \/ (x = h[r].s /\ row'[x].idle <= h[r].t + IdleTTL)
    BY <1>2, <2>3, RefreshEffect
  <2>6. row'[x].idle <= row'[x].used + IdleTTL
    <3>1. row[x] \in Row /\ row'[x] \in Row /\ h[r].t \in Nat
      BY <1>2, <2>3, RefreshEffect
    <3>2. x = h[r].s => h[r].t <= row[x].used
      BY <2>1, <2>3
    <3>3. QED
      BY <2>3, <2>4, <2>5, <3>1, <3>2
  <2>7. QED
    BY <2>1, <2>3, <2>4, <2>6
<1>3. ASSUME NEW r \in Req, endRequest(r)
      PROVE  Rows'
  BY <1>3 DEF endRequest, End
<1>4. ASSUME NEW r \in Req, handleAuthLogout(r)
      PROVE  Rows'
  BY <1>4 DEF handleAuthLogout, End
<1>5. ASSUME NEW r \in Req, tryAcquire(r)
      PROVE  Rows'
  BY <1>5 DEF tryAcquire, End
<1>6. ASSUME NEW r \in Req, release(r)
      PROVE  Rows'
  BY <1>6 DEF release, End, AfterKdf
<1>7. ASSUME NEW r \in Req, loginSelect(r)
      PROVE  Rows'
  BY <1>7 DEF loginSelect
<1>8. ASSUME NEW r \in Req, loginInsert(r)
      PROVE  Rows'
  BY <1>8 DEF loginInsert, End
<1>9. ASSUME NEW r \in Req, passwordSelect(r)
      PROVE  Rows'
  BY <1>9 DEF passwordSelect
<1>10. ASSUME NEW r \in Req, passwordCommit(r)
      PROVE  Rows'
  BY <1>10 DEF passwordCommit, End, RevokeAll
<1>11. ASSUME NEW r \in Req, NEW asks \in {"none", "password", "clear", "active", "disabled"}, patchSelect(r, asks)
      PROVE  Rows'
  BY <1>11 DEF patchSelect
<1>12. ASSUME NEW r \in Req, patchUpdate(r)
      PROVE  Rows'
  BY <1>12 DEF patchUpdate, Go, End
<1>13. ASSUME NEW r \in Req, patchRevoke(r)
      PROVE  Rows'
  BY <1>13 DEF patchRevoke, End, RevokeAll
<1>14. CASE runSessionJanitor
  BY <1>14 DEF runSessionJanitor
<1>15. CASE Tick
  BY <1>15 DEF Tick
<1>16. CASE UNCHANGED vars
  BY <1>16 DEF vars
<1>17. QED
  BY <1>1, <1>2, <1>3, <1>4, <1>5, <1>6, <1>7, <1>8, <1>9, <1>10, <1>11, <1>12, <1>13, <1>14, <1>15, <1>16 DEF Next, Handler

\* A change of the password leaves no row of the old one that is not revoked, or to be
\* revoked by the PATCH that is between its two statements.
LEMMA CredentialsStep ==
  ASSUME TypeOK, Requests, Credentials, [Next]_vars
  PROVE  Credentials'
<1> USE NoneAssumption, TTLAssumption, SlotsAssumption DEF TypeOK, Request, Row, KdfSteps, Idle, Requests, Credentials
<1>1. ASSUME NEW r \in Req, NEW s \in Session, authSelect(r, s)
      PROVE  Credentials'
  BY <1>1 DEF authSelect, Usable
<1>2. ASSUME NEW r \in Req, authRefresh(r)
      PROVE  Credentials'
  <2>1. UNCHANGED <<hash, stale>> /\ \A q \in Req : h[q].pc = "patchRevoke" => h'[q] = h[q]
    BY <1>2 DEF authRefresh, Go
  <2>2. \A x \in Session : row'[x] # None =>
          row[x] # None /\ row'[x].revoked = row[x].revoked /\ row'[x].cred = row[x].cred
    BY <1>2, RefreshEffect
  <2>3. QED
    BY <2>1, <2>2
<1>3. ASSUME NEW r \in Req, endRequest(r)
      PROVE  Credentials'
  BY <1>3 DEF endRequest, End
<1>4. ASSUME NEW r \in Req, handleAuthLogout(r)
      PROVE  Credentials'
  BY <1>4 DEF handleAuthLogout, End
<1>5. ASSUME NEW r \in Req, tryAcquire(r)
      PROVE  Credentials'
  BY <1>5 DEF tryAcquire, End
<1>6. ASSUME NEW r \in Req, release(r)
      PROVE  Credentials'
  BY <1>6 DEF release, End, AfterKdf
<1>7. ASSUME NEW r \in Req, loginSelect(r)
      PROVE  Credentials'
  BY <1>7 DEF loginSelect
<1>8. ASSUME NEW r \in Req, loginInsert(r)
      PROVE  Credentials'
  <2>1. PICK s \in Session : row' = [row EXCEPT ![s] = [seen |-> now, idle |-> now + IdleTTL,
                  abs |-> now + AbsTTL, revoked |-> None, used |-> now, born |-> now, cred |-> h[r].hash]]
    BY <1>8 DEF loginInsert
  <2>2. ~stale' => ~stale /\ row'[s].cred = hash'
    BY <1>8, <2>1 DEF loginInsert
  <2>3. \A q \in Req : h[q].pc = "patchRevoke" => h'[q] = h[q]
    BY <1>8 DEF loginInsert, End
  <2>4. QED
    BY <1>8, <2>1, <2>2, <2>3 DEF loginInsert
<1>9. ASSUME NEW r \in Req, passwordSelect(r)
      PROVE  Credentials'
  BY <1>9 DEF passwordSelect
<1>10. ASSUME NEW r \in Req, passwordCommit(r)
      PROVE  Credentials'
  BY <1>10 DEF passwordCommit, End, RevokeAll
<1>11. ASSUME NEW r \in Req, NEW asks \in {"none", "password", "clear", "active", "disabled"}, patchSelect(r, asks)
      PROVE  Credentials'
  BY <1>11 DEF patchSelect
<1>12. ASSUME NEW r \in Req, patchUpdate(r)
      PROVE  Credentials'
  <2>1. CASE h[r].asks \in {"password", "clear"}
    <3>1. h'[r].pc = "patchRevoke" /\ h'[r].asks = h[r].asks
      BY <1>12, <2>1 DEF patchUpdate, Go
    <3>2. QED
      BY <2>1, <3>1
  <2>2. CASE h[r].asks \notin {"password", "clear"}
    <3>1. ~stale' => ~stale /\ hash' = hash
      BY <1>12, <2>2 DEF patchUpdate
    <3>2. \A q \in Req : h[q].pc = "patchRevoke" => h'[q] = h[q]
      BY <1>12 DEF patchUpdate, Go, End
    <3>3. QED
      BY <1>12, <3>1, <3>2 DEF patchUpdate
  <2>3. QED
    BY <2>1, <2>2
<1>13. ASSUME NEW r \in Req, patchRevoke(r)
      PROVE  Credentials'
  BY <1>13 DEF patchRevoke, End, RevokeAll
<1>14. CASE runSessionJanitor
  BY <1>14 DEF runSessionJanitor
<1>15. CASE Tick
  BY <1>15 DEF Tick
<1>16. CASE UNCHANGED vars
  BY <1>16 DEF vars
<1>17. QED
  BY <1>1, <1>2, <1>3, <1>4, <1>5, <1>6, <1>7, <1>8, <1>9, <1>10, <1>11, <1>12, <1>13, <1>14, <1>15, <1>16 DEF Next, Handler

\* A slot is taken and returned together with the beginning and the end of a
\* computation, on every way out of the handler.
LEMMA SlotsStep ==
  ASSUME TypeOK, Requests, SlotsAreHeld, [Next]_vars
  PROVE  SlotsAreHeld'
<1> USE NoneAssumption, TTLAssumption, SlotsAssumption DEF TypeOK, Request, Row, KdfSteps, Idle, SlotsAreHeld, Requests
<1>1. ASSUME NEW r \in Req, NEW s \in Session, authSelect(r, s)
      PROVE  SlotsAreHeld'
  BY <1>1 DEF authSelect, Usable
<1>2. ASSUME NEW r \in Req, authRefresh(r)
      PROVE  SlotsAreHeld'
  BY <1>2 DEF authRefresh, Go
<1>3. ASSUME NEW r \in Req, endRequest(r)
      PROVE  SlotsAreHeld'
  BY <1>3 DEF endRequest, End
<1>4. ASSUME NEW r \in Req, handleAuthLogout(r)
      PROVE  SlotsAreHeld'
  BY <1>4 DEF handleAuthLogout, End
<1>5. ASSUME NEW r \in Req, tryAcquire(r)
      PROVE  SlotsAreHeld'
  <2>1. CASE slots < Slots
    <3>1. Computing' = Computing \cup {r} /\ r \notin Computing
      BY <1>5, <2>1 DEF tryAcquire, Computing
    <3>2. QED
      BY <1>5, <2>1, <3>1, CountComputing DEF tryAcquire, Computing
  <2>2. CASE ~(slots < Slots)
    <3>1. Computing' = Computing
      BY <1>5, <2>2 DEF tryAcquire, Computing, End
    <3>2. QED
      BY <1>5, <2>2, <3>1 DEF tryAcquire, Computing
  <2>3. QED
    BY <2>1, <2>2
<1>6. ASSUME NEW r \in Req, release(r)
      PROVE  SlotsAreHeld'
  <2>1. Computing' = Computing \ {r} /\ r \in Computing
    BY <1>6 DEF release, Computing, End
  <2>2. QED
    BY <1>6, <2>1, CountComputing DEF release, Computing
<1>7. ASSUME NEW r \in Req, loginSelect(r)
      PROVE  SlotsAreHeld'
  BY <1>7 DEF loginSelect
<1>8. ASSUME NEW r \in Req, loginInsert(r)
      PROVE  SlotsAreHeld'
  BY <1>8 DEF loginInsert, End
<1>9. ASSUME NEW r \in Req, passwordSelect(r)
      PROVE  SlotsAreHeld'
  BY <1>9 DEF passwordSelect
<1>10. ASSUME NEW r \in Req, passwordCommit(r)
      PROVE  SlotsAreHeld'
  BY <1>10 DEF passwordCommit, End, RevokeAll
<1>11. ASSUME NEW r \in Req, NEW asks \in {"none", "password", "clear", "active", "disabled"}, patchSelect(r, asks)
      PROVE  SlotsAreHeld'
  BY <1>11 DEF patchSelect
<1>12. ASSUME NEW r \in Req, patchUpdate(r)
      PROVE  SlotsAreHeld'
  <2>1. \A q \in Req : h'[q].kdf <=> h[q].kdf
    BY <1>12 DEF patchUpdate, Go, End
  <2>2. QED
    BY <1>12, <2>1 DEF patchUpdate
<1>13. ASSUME NEW r \in Req, patchRevoke(r)
      PROVE  SlotsAreHeld'
  BY <1>13 DEF patchRevoke, End, RevokeAll
<1>14. CASE runSessionJanitor
  BY <1>14 DEF runSessionJanitor
<1>15. CASE Tick
  BY <1>15 DEF Tick
<1>16. CASE UNCHANGED vars
  BY <1>16 DEF vars
<1>17. QED
  BY <1>1, <1>2, <1>3, <1>4, <1>5, <1>6, <1>7, <1>8, <1>9, <1>10, <1>11, <1>12, <1>13, <1>14, <1>15, <1>16 DEF Next, Handler

\* Nobody is logged in, no request is handled and no slot is taken at the start.
LEMMA InitIInv == Init => IInv
<1> SUFFICES ASSUME Init PROVE IInv
  OBVIOUS
<1> USE DEF Init
<1>1. TypeOK
  <2>1. now \in 0..MaxTime /\ lastHash \in 1..MaxHash /\ hash \in 0..lastHash /\ slots \in 0..Slots
    BY TTLAssumption, SlotsAssumption
  <2>2. QED
    BY <2>1, IdleRequest DEF TypeOK
<1>2. SlotsAreHeld
  <2>1. {r \in Req : h[r].kdf} = {}
    BY DEF Idle
  <2>2. QED
    BY <2>1, FS_EmptySet DEF SlotsAreHeld
<1>3. Requests /\ Rows /\ Credentials
  BY DEF Requests, Rows, Credentials, Idle, KdfSteps
<1>4. QED
  BY <1>1, <1>2, <1>3 DEF IInv

\* No step of a handler, the janitor or the clock leaves the invariant.
LEMMA NextIInv == IInv /\ [Next]_vars => IInv'
  BY TypeStep, RequestsStep, RowsStep, CredentialsStep, SlotsStep DEF IInv

\* The inductive invariant holds in every state of every behaviour.
LEMMA AlwaysIInv == Spec => []IInv
  BY InitIInv, NextIInv, PTL DEF Spec

-----------------------------------------------------------------------------
(* The theorems.                                                           *)

\* No session authenticates longer than AbsTTL after its birth or IdleTTL after its
\* last use, and no Argon2 slot leaks or is returned twice, however many requests
\* overlap (authenticateRequest, argon2Limiter).
THEOREM SessionsAreLimited == Spec => []SessionInv
<1>1. IInv => SessionInv
  <2> SUFFICES ASSUME IInv PROVE SessionInv
    OBVIOUS
  <2>1. LimitsHold
    <3> SUFFICES ASSUME NEW s \in Session, Usable(s)
                 PROVE  now < row[s].born + AbsTTL /\ now < row[s].used + IdleTTL
      BY DEF LimitsHold
    <3>1. row[s] \in Row /\ now \in Nat
      BY TTLAssumption DEF IInv, TypeOK, Usable
    <3>2. QED
      BY <3>1, TTLAssumption DEF IInv, Rows, Usable, Row
  <2>2. QED
    BY <2>1 DEF IInv, SessionInv
<1>2. QED
  BY <1>1, AlwaysIInv, PTL

\* Sessions opened with an earlier password do not authenticate, as long as no
\* handler has acted on an outdated hash and no revocation has failed, for any number
\* of overlapping changes (handleAuthPassword, patchAdminUser).
THEOREM PasswordsRevoke == Spec => []PasswordRevokes
<1>1. IInv => PasswordRevokes
  BY DEF IInv, Credentials, PasswordRevokes, Usable
<1>2. QED
  BY <1>1, AlwaysIInv, PTL

\* What a step may do to a session: a revoked one is never revived.
LEMMA RevokedStep ==
  ASSUME IInv, Next, NEW s \in Session, row[s] # None, row[s].revoked # None
  PROVE  row'[s] = None \/ row'[s].revoked # None
<1> USE NoneAssumption DEF IInv, TypeOK, Row
<1>1. ASSUME NEW r \in Req, NEW x \in Session, authSelect(r, x)
      PROVE  row'[s] = None \/ row'[s].revoked # None
  BY <1>1 DEF authSelect
<1>2. ASSUME NEW r \in Req, authRefresh(r)
      PROVE  row'[s] = None \/ row'[s].revoked # None
  BY <1>2, RefreshEffect
<1>3. ASSUME NEW r \in Req, endRequest(r)
      PROVE  row'[s] = None \/ row'[s].revoked # None
  BY <1>3 DEF endRequest, End
<1>4. ASSUME NEW r \in Req, handleAuthLogout(r)
      PROVE  row'[s] = None \/ row'[s].revoked # None
  BY <1>4 DEF handleAuthLogout, End
<1>5. ASSUME NEW r \in Req, tryAcquire(r)
      PROVE  row'[s] = None \/ row'[s].revoked # None
  BY <1>5 DEF tryAcquire, End
<1>6. ASSUME NEW r \in Req, release(r)
      PROVE  row'[s] = None \/ row'[s].revoked # None
  BY <1>6 DEF release, End, AfterKdf
<1>7. ASSUME NEW r \in Req, loginSelect(r)
      PROVE  row'[s] = None \/ row'[s].revoked # None
  BY <1>7 DEF loginSelect
<1>8. ASSUME NEW r \in Req, loginInsert(r)
      PROVE  row'[s] = None \/ row'[s].revoked # None
  BY <1>8 DEF loginInsert, End
<1>9. ASSUME NEW r \in Req, passwordSelect(r)
      PROVE  row'[s] = None \/ row'[s].revoked # None
  BY <1>9 DEF passwordSelect
<1>10. ASSUME NEW r \in Req, passwordCommit(r)
      PROVE  row'[s] = None \/ row'[s].revoked # None
  BY <1>10 DEF passwordCommit, End, RevokeAll
<1>11. ASSUME NEW r \in Req, NEW asks \in {"none", "password", "clear", "active", "disabled"}, patchSelect(r, asks)
      PROVE  row'[s] = None \/ row'[s].revoked # None
  BY <1>11 DEF patchSelect
<1>12. ASSUME NEW r \in Req, patchUpdate(r)
      PROVE  row'[s] = None \/ row'[s].revoked # None
  BY <1>12 DEF patchUpdate, Go, End
<1>13. ASSUME NEW r \in Req, patchRevoke(r)
      PROVE  row'[s] = None \/ row'[s].revoked # None
  BY <1>13 DEF patchRevoke, End, RevokeAll
<1>14. CASE runSessionJanitor
  BY <1>14 DEF runSessionJanitor
<1>15. CASE Tick
  BY <1>15 DEF Tick
<1>16. QED
  BY <1>1, <1>2, <1>3, <1>4, <1>5, <1>6, <1>7, <1>8, <1>9, <1>10, <1>11, <1>12, <1>13, <1>14, <1>15 DEF Next, Handler

\* What a step may do to a session that authenticates: only the clock, a logout with
\* it, a new password or PATCH ends it.
LEMMA UsableStep ==
  ASSUME IInv, Next, NEW s \in Session, Usable(s), ~Usable(s)'
  PROVE  Reason(s)
<1> USE NoneAssumption, TTLAssumption DEF IInv, TypeOK, Requests, Row, Usable, Reason
<1>1. ASSUME NEW r \in Req, NEW x \in Session, authSelect(r, x)
      PROVE  Reason(s)
  BY <1>1 DEF authSelect
<1>2. ASSUME NEW r \in Req, authRefresh(r)
      PROVE  Reason(s)
  <2>1. UNCHANGED <<now, status>>
    BY <1>2 DEF authRefresh
  <2>2. row'[s] \in Row /\ row'[s].abs = row[s].abs /\ row'[s].revoked = row[s].revoked
    BY <1>2, RefreshEffect
  <2>3. row'[s].idle \in {row[s].idle, h[r].t + IdleTTL, row[s].abs}
    BY <1>2, RefreshEffect
  <2>4. h[r].t \in Nat /\ now <= h[r].t + 1
    BY <1>2 DEF authRefresh, Request
  <2>5. row'[s].idle > now'
    BY <2>1, <2>3, <2>4
  <2>6. Usable(s)'
    BY <2>1, <2>2, <2>5
  <2>7. QED
    BY <2>6
<1>3. ASSUME NEW r \in Req, endRequest(r)
      PROVE  Reason(s)
  BY <1>3 DEF endRequest, End
<1>4. ASSUME NEW r \in Req, handleAuthLogout(r)
      PROVE  Reason(s)
  BY <1>4 DEF handleAuthLogout, End
<1>5. ASSUME NEW r \in Req, tryAcquire(r)
      PROVE  Reason(s)
  BY <1>5 DEF tryAcquire, End
<1>6. ASSUME NEW r \in Req, release(r)
      PROVE  Reason(s)
  BY <1>6 DEF release, End, AfterKdf
<1>7. ASSUME NEW r \in Req, loginSelect(r)
      PROVE  Reason(s)
  BY <1>7 DEF loginSelect
<1>8. ASSUME NEW r \in Req, loginInsert(r)
      PROVE  Reason(s)
  BY <1>8 DEF loginInsert, End
<1>9. ASSUME NEW r \in Req, passwordSelect(r)
      PROVE  Reason(s)
  BY <1>9 DEF passwordSelect
<1>10. ASSUME NEW r \in Req, passwordCommit(r)
      PROVE  Reason(s)
  <2>1. h[r].pc = "passwordCommit" /\ h'[r].pc # "passwordCommit"
    BY <1>10 DEF passwordCommit, End, Idle
  <2>2. QED
    BY <2>1
<1>11. ASSUME NEW r \in Req, NEW asks \in {"none", "password", "clear", "active", "disabled"}, patchSelect(r, asks)
      PROVE  Reason(s)
  BY <1>11 DEF patchSelect
<1>12. ASSUME NEW r \in Req, patchUpdate(r)
      PROVE  Reason(s)
  <2>1. h[r].pc = "patchUpdate" /\ h'[r].pc # "patchUpdate"
    <3>1. h' = [h EXCEPT ![r].pc = "patchRevoke"] \/ h' = [h EXCEPT ![r] = Idle]
      BY <1>12 DEF patchUpdate, Go, End
    <3>2. h \in [Req -> Request] /\ h[r].pc = "patchUpdate"
      BY <1>12 DEF patchUpdate
    <3>3. CASE h' = [h EXCEPT ![r].pc = "patchRevoke"]
      BY <3>2, <3>3 DEF Request
    <3>4. CASE h' = [h EXCEPT ![r] = Idle]
      BY <3>2, <3>4 DEF Idle
    <3>5. QED
      BY <3>1, <3>3, <3>4
  <2>2. QED
    BY <2>1
<1>13. ASSUME NEW r \in Req, patchRevoke(r)
      PROVE  Reason(s)
  <2>1. h[r].pc = "patchRevoke" /\ h'[r].pc # "patchRevoke"
    BY <1>13 DEF patchRevoke, End, Idle
  <2>2. QED
    BY <2>1
<1>14. CASE runSessionJanitor
  BY <1>14 DEF runSessionJanitor
<1>15. CASE Tick
  BY <1>15 DEF Tick
<1>16. QED
  BY <1>1, <1>2, <1>3, <1>4, <1>5, <1>6, <1>7, <1>8, <1>9, <1>10, <1>11, <1>12, <1>13, <1>14, <1>15 DEF Next, Handler

\* A revoked session never authenticates again, and one that authenticates ends only
\* by time, logout, a new password or PATCH, for any number of overlapping requests.
THEOREM SessionsEndAsTheyShould == Spec => SessionsEndForGood
<1>1. IInv /\ [Next]_vars =>
        [\A s \in Session : row[s] # None /\ row[s].revoked # None
                            => row'[s] = None \/ row'[s].revoked # None]_vars
  BY RevokedStep
<1>2. IInv /\ [Next]_vars =>
        [\A s \in Session : Usable(s) /\ ~Usable(s)' => Reason(s)]_vars
  BY UsableStep
<1>3. QED
  BY <1>1, <1>2, AlwaysIInv, PTL DEF Spec, SessionsEndForGood, RevokedStaysDead, EndsForAReason


-----------------------------------------------------------------------------
(* The login limiter.  The same is counted for every address and for       *)
(* everybody, so what a sequence of attempts looks like, and how it goes   *)
(* with the counter, is said and shown once.                               *)

Entry == [at : Nat, n : Nat, cool : Nat]
Counter == Limiter!Counter
Closed == [attempts |-> 0, ends |-> 0, cool |-> 0]
Cooling(end) == [attempts |-> 0, ends |-> 0, cool |-> end]

\* Of the attempts up to e, the last of its window: those of an earlier window, or
\* all of them when e was the last one allowed.
Over(lg, limit, e, p) == p <= e - lg[e].n \/ lg[e].n = limit

\* The attempts of a window follow each other, and none comes within a window of an
\* attempt before the previous window, or in it when that one was used up.
Spaced(lg, limit) ==
    \A b \in 1..Len(lg) :
        /\ lg[b].n \in 1..limit /\ lg[b].n <= b
        /\ \A a \in 1..(b - lg[b].n) :
              Over(lg, limit, b - lg[b].n, a) => lg[b].at + 2 * Skew >= lg[a].at + Window

\* The last attempts are the ones counted; the window ends, and the cooldown is over,
\* late enough for the attempts to come.
Counts(lg, limit, s, time) ==
    /\ s.attempts < limit /\ s.attempts <= Len(lg)
    /\ s.attempts > 0 => s.ends # 0 /\ lg[Len(lg)].n = s.attempts
    /\ s.ends # 0 => \A p \in 1..(Len(lg) - s.attempts) : s.ends + Skew >= lg[p].at + Window
    /\ s.cool # 0 => s.attempts = 0 /\ \A p \in 1..Len(lg) : s.cool + Skew >= lg[p].at + Window
    /\ s.cool = 0 => \A p \in 1..(Len(lg) - s.attempts) :
          Over(lg, limit, Len(lg) - s.attempts, p) => time + Skew >= lg[p].at + Window

\* No attempt came during the cooldown of another, and none will.
Served(lg, s, time) ==
    /\ \A a, b \in 1..Len(lg) : a < b => lg[b].at + 2 * Skew >= lg[a].cool
    /\ \A a \in 1..Len(lg) : time + Skew >= lg[a].cool \/ (s.cool # 0 /\ s.cool + Skew >= lg[a].cool)

Known(lg, wait, time) == \A p \in 1..Len(lg) : lg[p].at <= time /\ lg[p].cool <= time + wait

Good(lg, limit, wait, s, time) ==
    /\ Known(lg, wait, time) /\ Served(lg, s, time)
    /\ wait >= Window => Spaced(lg, limit) /\ Counts(lg, limit, s, time)

Opened(m) == [attempts |-> 0, ends |-> m + Window, cool |-> 0]

\* The counter of address x, or of everybody: a cooldown ends the window.
Cur(ips, g, x) ==
    IF x = None THEN g
    ELSE IF ips[x] = None THEN Cooling(g.cool)
    ELSE IF ips[x].cool # 0 THEN Cooling(ips[x].cool) ELSE ips[x]

LimitOf(c, x) == IF x = None THEN c.overall ELSE c.max

\* A login is decided at most Skew after it has read the clock, and with the limits
\* it read then.
LoginTypes ==
    /\ clock \in Nat /\ cfg \in Configs /\ patches \in Nat /\ reset \in BOOLEAN
    /\ byIP \in [Ip -> Counter \cup {None}] /\ global \in Counter
    /\ global.cool # 0 => byIP = Limiter!Nobody /\ global = Cooling(global.cool)
    /\ \A i \in Ip : byIP[i] # None => byIP[i].attempts # 0
    /\ \E c \in Configs : global.attempts < c.overall
    /\ DOMAIN login = Login
    /\ \A l \in Login : login[l].pc = "allow" =>
          /\ login[l].ip \in Ip /\ login[l].cfg \in Configs /\ login[l].now \in Nat
          /\ login[l].now <= clock /\ clock <= login[l].now + Skew
    /\ log \in [Ip \cup {None} -> Seq(Entry)]

FirstLimits ==
    patches = 0 => ~reset /\ \A l \in Login : login[l].pc = "allow" => login[l].cfg = cfg

AttemptsAreSpaced ==
    patches = 0 => \A x \in Ip \cup {None} :
        Good(log[x], LimitOf(cfg, x), cfg.cool, Cur(byIP, global, x), clock)

Bounded(ips) == \E c \in Configs : Cardinality(Limiter!KnownIn(ips)) <= c.overall

LimiterIInv == LoginTypes /\ FirstLimits /\ AttemptsAreSpaced /\ Bounded(byIP)


LEMMA LimiterFacts ==
    ASSUME Limiter!LimiterAssumption
    PROVE  /\ Window \in Nat \ {0} /\ Skew \in Nat
           /\ None \notin Ip /\ None \notin Configs /\ None \notin Counter
           /\ \A c \in Configs : c.max \in Nat \ {0} /\ c.overall \in Nat \ {0} /\ c.cool \in Nat \ {0}
<1>1. /\ Window \in Nat \ {0} /\ Skew \in Nat
      /\ None \notin Ip /\ None \notin Configs /\ None \notin Limiter!Counter
      /\ Configs \subseteq [max : Nat \ {0}, overall : Nat \ {0}, cool : Nat \ {0}]
  BY DEF Limiter!LimiterAssumption
<1> QED
  BY <1>1 DEF Counter

LEMMA CounterTypes ==
    ASSUME NEW end \in Nat, NEW s \in Counter
    PROVE  /\ Closed \in Counter /\ Closed.attempts = 0 /\ Closed.ends = 0 /\ Closed.cool = 0
           /\ Cooling(end) \in Counter /\ Cooling(end).attempts = 0 /\ Cooling(end).ends = 0
           /\ Cooling(end).cool = end
           /\ s.attempts \in Nat /\ s.ends \in Nat /\ s.cool \in Nat
           /\ s = [attempts |-> s.attempts, ends |-> s.ends, cool |-> s.cool]
BY DEF Closed, Cooling, Counter, Limiter!Counter

LEMMA EntryTypes ==
    ASSUME NEW lg \in Seq(Entry), NEW p \in 1..Len(lg)
    PROVE  lg[p].at \in Nat /\ lg[p].n \in Nat /\ lg[p].cool \in Nat
<1>1. lg[p] \in Entry
  OBVIOUS
<1> QED
  BY <1>1 DEF Entry

LEMMA OneMore ==
    ASSUME NEW x \in Nat, NEW k \in Nat, NEW y, NEW n, y = x + 1, n = k + 1
    PROVE  y - n = x - k
OBVIOUS

\* Time passes.
LEMMA GoodLater ==
    ASSUME Limiter!LimiterAssumption, NEW lg \in Seq(Entry), NEW limit \in Nat \ {0}, NEW wait \in Nat,
           NEW s \in Counter, NEW time \in Nat, NEW later \in Nat, time <= later,
           Good(lg, limit, wait, s, time)
    PROVE  Good(lg, limit, wait, s, later)
<1>1. /\ \A p \in 1..Len(lg) : lg[p].at \in Nat /\ lg[p].n \in Nat /\ lg[p].cool \in Nat
      /\ Window \in Nat /\ Skew \in Nat /\ s.attempts \in Nat /\ s.ends \in Nat /\ s.cool \in Nat /\ Len(lg) \in Nat
  BY EntryTypes, LimiterFacts, CounterTypes
<1>2. Known(lg, wait, later) /\ Served(lg, s, later)
  BY <1>1 DEF Good, Known, Served
<1>3. ASSUME wait >= Window
      PROVE  Spaced(lg, limit) /\ Counts(lg, limit, s, later)
  <2>1. Spaced(lg, limit) /\ Counts(lg, limit, s, time)
    BY <1>3 DEF Good
  <2>2. ASSUME s.cool = 0, NEW p \in 1..(Len(lg) - s.attempts), Over(lg, limit, Len(lg) - s.attempts, p)
        PROVE  later + Skew >= lg[p].at + Window
    <3>1. time + Skew >= lg[p].at + Window /\ p \in 1..Len(lg)
      BY <1>1, <2>1, <2>2 DEF Counts
    <3> QED
      BY <1>1, <3>1
  <2> QED
    BY <2>1, <2>2 DEF Counts
<1> QED
  BY <1>2, <1>3 DEF Good

\* The window, or the cooldown, is over.
LEMMA GoodClosed ==
    ASSUME Limiter!LimiterAssumption, NEW lg \in Seq(Entry), NEW limit \in Nat \ {0}, NEW wait \in Nat,
           NEW s \in Counter, NEW time \in Nat, time >= s.cool,
           s.attempts = 0 \/ time >= s.ends,
           Good(lg, limit, wait, s, time)
    PROVE  Good(lg, limit, wait, Closed, time)
<1>1. /\ \A p \in 1..Len(lg) : lg[p].at \in Nat /\ lg[p].n \in Nat /\ lg[p].cool \in Nat
      /\ Window \in Nat /\ Skew \in Nat /\ s.attempts \in Nat /\ s.ends \in Nat /\ s.cool \in Nat /\ Len(lg) \in Nat
      /\ Closed.attempts = 0 /\ Closed.ends = 0 /\ Closed.cool = 0
  BY EntryTypes, LimiterFacts, CounterTypes
<1>2. Known(lg, wait, time) /\ Served(lg, Closed, time)
  BY <1>1 DEF Good, Served
<1>3. ASSUME wait >= Window
      PROVE  Spaced(lg, limit) /\ Counts(lg, limit, Closed, time)
  <2>1. Spaced(lg, limit) /\ Counts(lg, limit, s, time)
    BY <1>3 DEF Good
  <2>2. ASSUME NEW p \in 1..Len(lg), Over(lg, limit, Len(lg), p)
        PROVE  time + Skew >= lg[p].at + Window
    <3>1. CASE s.cool # 0
      BY <1>1, <2>1, <3>1 DEF Counts
    <3>2. CASE s.cool = 0 /\ s.attempts = 0
      BY <1>1, <2>1, <2>2, <3>2 DEF Counts
    <3>3. CASE s.cool = 0 /\ s.attempts > 0 /\ s.ends # 0
      <4>1. lg[Len(lg)].n = s.attempts /\ s.attempts < limit
        BY <2>1, <3>3 DEF Counts
      <4>2. p <= Len(lg) - s.attempts
        BY <1>1, <2>2, <4>1 DEF Over
      <4>3. s.ends + Skew >= lg[p].at + Window
        BY <1>1, <2>1, <3>3, <4>2 DEF Counts
      <4> QED
        BY <1>1, <3>3, <4>3
    <3>4. CASE s.cool = 0 /\ s.attempts > 0 /\ s.ends = 0
      BY <1>1, <2>1, <3>4 DEF Counts
    <3> QED
      BY <1>1, <3>1, <3>2, <3>3, <3>4
  <2> QED
    BY <1>1, <2>1, <2>2 DEF Counts
<1> QED
  BY <1>2, <1>3 DEF Good

\* A cooldown begins.
LEMMA GoodCooling ==
    ASSUME Limiter!LimiterAssumption, NEW lg \in Seq(Entry), NEW limit \in Nat \ {0}, NEW wait \in Nat,
           NEW s \in Counter, NEW time \in Nat, NEW end \in Nat \ {0}, end + Skew >= time + wait,
           Good(lg, limit, wait, s, time)
    PROVE  Good(lg, limit, wait, Cooling(end), time)
<1>1. /\ \A p \in 1..Len(lg) : lg[p].at \in Nat /\ lg[p].n \in Nat /\ lg[p].cool \in Nat
      /\ Window \in Nat /\ Skew \in Nat /\ Len(lg) \in Nat
      /\ Cooling(end).attempts = 0 /\ Cooling(end).ends = 0 /\ Cooling(end).cool = end
  BY EntryTypes, LimiterFacts, CounterTypes
<1>2. Known(lg, wait, time) /\ Served(lg, Cooling(end), time)
  BY <1>1 DEF Good, Served, Known
<1>3. wait >= Window => Spaced(lg, limit) /\ Counts(lg, limit, Cooling(end), time)
  BY <1>1 DEF Good, Counts, Known
<1> QED
  BY <1>2, <1>3 DEF Good

\* A window begins.
LEMMA GoodOpen ==
    ASSUME Limiter!LimiterAssumption, NEW lg \in Seq(Entry), NEW limit \in Nat \ {0}, NEW wait \in Nat,
           NEW s \in Counter, NEW time \in Nat, NEW m \in Nat, m <= time, time <= m + Skew,
           s.attempts = 0, s.ends = m + Window, s.cool = 0,
           Good(lg, limit, wait, Closed, time)
    PROVE  Good(lg, limit, wait, s, time)
<1>1. /\ \A p \in 1..Len(lg) : lg[p].at \in Nat /\ lg[p].n \in Nat /\ lg[p].cool \in Nat
      /\ Window \in Nat /\ Skew \in Nat /\ Len(lg) \in Nat
      /\ Closed.attempts = 0 /\ Closed.ends = 0 /\ Closed.cool = 0
  BY EntryTypes, LimiterFacts, CounterTypes
<1>2. Known(lg, wait, time) /\ Served(lg, s, time)
  BY <1>1 DEF Good, Served
<1>3. wait >= Window => Spaced(lg, limit) /\ Counts(lg, limit, s, time)
  BY <1>1 DEF Good, Counts, Known
<1> QED
  BY <1>2, <1>3 DEF Good

\* An attempt is allowed: what it means for the attempts.
LEMMA GoodEntry ==
    ASSUME Limiter!LimiterAssumption, NEW lg \in Seq(Entry), NEW limit \in Nat \ {0}, NEW wait \in Nat,
           NEW s \in Counter, NEW time \in Nat, NEW m \in Nat, m <= time, time <= m + Skew, s.cool = 0,
           Good(lg, limit, wait, s, time),
           NEW e \in Entry, e.at = m, e.n = s.attempts + 1, e.cool \in {0, m + wait}
    PROVE  /\ Append(lg, e) \in Seq(Entry) /\ Known(Append(lg, e), wait, time)
           /\ \A a, b \in 1..Len(Append(lg, e)) :
                 a < b => Append(lg, e)[b].at + 2 * Skew >= Append(lg, e)[a].cool
           /\ wait >= Window => Spaced(Append(lg, e), limit)
<1> DEFINE lh == Append(lg, e)
<1>1. lh \in Seq(Entry) /\ Len(lg) \in Nat /\ Len(lh) = Len(lg) + 1 /\ lh[Len(lg) + 1] = e
  OBVIOUS
<1>2. \A p \in 1..Len(lg) : lh[p] = lg[p]
  OBVIOUS
<1> HIDE DEF lh
<1>3. /\ \A p \in 1..Len(lg) : lg[p].at \in Nat /\ lg[p].n \in Nat /\ lg[p].cool \in Nat
      /\ Window \in Nat /\ Skew \in Nat /\ s.attempts \in Nat /\ s.ends \in Nat /\ s.cool \in Nat
  BY EntryTypes, LimiterFacts, CounterTypes
<1>4. \A p \in 1..Len(lh) : p \in 1..Len(lg) \/ p = Len(lg) + 1
  BY <1>1
<1>5. Known(lh, wait, time)
  BY <1>1, <1>2, <1>3, <1>4 DEF Good, Known
<1>6. ASSUME NEW a \in 1..Len(lh), NEW b \in 1..Len(lh), a < b
      PROVE  lh[b].at + 2 * Skew >= lh[a].cool
  <2>1. a \in 1..Len(lg)
    BY <1>1, <1>6
  <2>2. CASE b \in 1..Len(lg)
    BY <1>2, <1>6, <2>1, <2>2 DEF Good, Served
  <2>3. CASE b = Len(lg) + 1
    <3>1. time + Skew >= lg[a].cool
      BY <2>1 DEF Good, Served
    <3>2. lh[b].at = m /\ lh[a] = lg[a] /\ lg[a].cool \in Nat
      BY <1>1, <1>2, <1>3, <2>1, <2>3
    <3>3. m + 2 * Skew >= lg[a].cool
      <4> DEFINE k == lg[a].cool
      <4>1. k \in Nat /\ time + Skew >= k /\ Skew \in Nat
        BY <1>3, <3>1, <3>2
      <4> HIDE DEF k
      <4>2. m + 2 * Skew >= k
        BY <4>1
      <4> QED
        BY <4>2 DEF k
    <3> QED
      BY <3>2, <3>3
  <2> QED
    BY <1>4, <2>2, <2>3
<1>7. ASSUME wait >= Window
      PROVE  Spaced(lh, limit)
  <2>1. Spaced(lg, limit) /\ Counts(lg, limit, s, time)
    BY <1>7 DEF Good
  <2>2. ASSUME NEW b \in 1..Len(lg)
        PROVE  /\ lh[b].n \in 1..limit /\ lh[b].n <= b
               /\ \A a \in 1..(b - lh[b].n) :
                     Over(lh, limit, b - lh[b].n, a) => lh[b].at + 2 * Skew >= lh[a].at + Window
    <3>1. lh[b] = lg[b] /\ lg[b].n \in 1..limit /\ lg[b].n <= b
      BY <1>2, <2>1 DEF Spaced
    <3>2. ASSUME NEW a \in 1..(b - lg[b].n), Over(lh, limit, b - lg[b].n, a)
          PROVE  lh[b].at + 2 * Skew >= lh[a].at + Window
      <4>1. a \in 1..Len(lg) /\ b - lg[b].n \in 1..Len(lg)
        BY <1>1, <3>1, <3>2
      <4>2. lh[a] = lg[a] /\ lh[b - lg[b].n] = lg[b - lg[b].n]
        BY <1>2, <4>1
      <4>3. Over(lg, limit, b - lg[b].n, a)
        BY <3>2, <4>2 DEF Over
      <4> QED
        BY <2>1, <3>1, <3>2, <4>2, <4>3 DEF Spaced
    <3> QED
      BY <3>1, <3>2
  <2>3. s.attempts < limit /\ s.attempts <= Len(lg)
    BY <2>1 DEF Counts
  <2>4. ASSUME NEW a \in 1..(Len(lg) - s.attempts), Over(lh, limit, Len(lg) - s.attempts, a)
        PROVE  m + 2 * Skew >= lh[a].at + Window
    <3>1. a \in 1..Len(lg) /\ Len(lg) - s.attempts \in 1..Len(lg)
      BY <1>1, <1>3, <2>3, <2>4
    <3>2. lh[a] = lg[a] /\ lh[Len(lg) - s.attempts] = lg[Len(lg) - s.attempts]
      BY <1>2, <3>1
    <3>3. Over(lg, limit, Len(lg) - s.attempts, a)
      BY <2>4, <3>2 DEF Over
    <3>4. time + Skew >= lg[a].at + Window
      BY <2>1, <2>4, <3>3 DEF Counts
    <3>5. lg[a].at \in Nat
      BY <1>3, <3>1
    <3>6. m + 2 * Skew >= lg[a].at + Window
      BY <1>3, <3>4, <3>5
    <3> QED
      BY <3>2, <3>6
  <2>5. ASSUME NEW b \in 1..Len(lh)
        PROVE  /\ lh[b].n \in 1..limit /\ lh[b].n <= b
               /\ \A a \in 1..(b - lh[b].n) :
                     Over(lh, limit, b - lh[b].n, a) => lh[b].at + 2 * Skew >= lh[a].at + Window
    <3>1. CASE b = Len(lg) + 1
      <4>1. lh[b].n = s.attempts + 1 /\ lh[b].at = m
        BY <1>1, <3>1
      <4>2. b - lh[b].n = Len(lg) - s.attempts
        BY <1>1, <1>3, <3>1, <4>1, OneMore
      <4>3. lh[b].n \in 1..limit /\ lh[b].n <= b
        BY <1>1, <1>3, <2>3, <3>1, <4>1
      <4> QED
        BY <2>4, <4>1, <4>2, <4>3
    <3> QED
      BY <1>4, <2>2, <3>1
  <2> QED
    BY <2>5 DEF Spaced
<1> QED
  BY <1>1, <1>5, <1>6, <1>7 DEF lh


\* An attempt that leaves some is counted.
LEMMA GoodAttempt ==
    ASSUME Limiter!LimiterAssumption, NEW lg \in Seq(Entry), NEW limit \in Nat \ {0}, NEW wait \in Nat,
           NEW s \in Counter, NEW time \in Nat, NEW m \in Nat, m <= time, time <= m + Skew, s.cool = 0,
           Good(lg, limit, wait, s, time), s.ends # 0, s.attempts + 1 < limit,
           NEW e \in Entry, e.at = m, e.n = s.attempts + 1, e.cool = 0,
           NEW t \in Counter, t.attempts = s.attempts + 1, t.ends = s.ends, t.cool = 0
    PROVE  Append(lg, e) \in Seq(Entry) /\ Good(Append(lg, e), limit, wait, t, time)
<1> DEFINE lh == Append(lg, e)
<1>1. lh \in Seq(Entry) /\ Len(lg) \in Nat /\ Len(lh) = Len(lg) + 1 /\ lh[Len(lg) + 1] = e
  OBVIOUS
<1>2. \A p \in 1..Len(lg) : lh[p] = lg[p]
  OBVIOUS
<1>3. /\ Known(lh, wait, time)
      /\ \A a, b \in 1..Len(lh) : a < b => lh[b].at + 2 * Skew >= lh[a].cool
      /\ wait >= Window => Spaced(lh, limit)
  BY GoodEntry
<1> HIDE DEF lh
<1>4. /\ \A p \in 1..Len(lg) : lg[p].at \in Nat /\ lg[p].n \in Nat /\ lg[p].cool \in Nat
      /\ Window \in Nat /\ Skew \in Nat /\ s.attempts \in Nat /\ s.ends \in Nat /\ s.cool \in Nat
  BY EntryTypes, LimiterFacts, CounterTypes
<1>5. \A p \in 1..Len(lh) : p \in 1..Len(lg) \/ p = Len(lg) + 1
  BY <1>1
<1>6. ASSUME NEW a \in 1..Len(lh)
      PROVE  time + Skew >= lh[a].cool
  <2>1. CASE a \in 1..Len(lg)
    BY <1>2, <2>1 DEF Good, Served
  <2>2. CASE a = Len(lg) + 1
    BY <1>1, <1>4, <2>2
  <2> QED
    BY <1>5, <2>1, <2>2
<1>7. Served(lh, t, time)
  BY <1>3, <1>6 DEF Served
<1>8. ASSUME wait >= Window
      PROVE  Counts(lh, limit, t, time)
  <2>1. Counts(lg, limit, s, time)
    BY <1>8 DEF Good
  <2>1a. s.attempts <= Len(lg)
    BY <2>1 DEF Counts
  <2>2. s.attempts <= Len(lg) /\ Len(lh) - t.attempts = Len(lg) - s.attempts
    BY <1>1, <1>4, <2>1a, OneMore
  <2>3. ASSUME NEW p \in 1..(Len(lg) - s.attempts)
        PROVE  /\ t.ends + Skew >= lh[p].at + Window
               /\ Over(lh, limit, Len(lg) - s.attempts, p) => time + Skew >= lh[p].at + Window
    <3>1. p \in 1..Len(lg) /\ Len(lg) - s.attempts \in 1..Len(lg)
      <4>1. s.attempts \in Nat /\ Len(lg) \in Nat /\ p \in 1..(Len(lg) - s.attempts)
        BY <1>1, <1>4, <2>3
      <4> QED
        BY <4>1
    <3>2. lh[p] = lg[p] /\ lh[Len(lg) - s.attempts] = lg[Len(lg) - s.attempts]
      BY <1>2, <3>1
    <3>3. s.ends + Skew >= lg[p].at + Window
      BY <2>1, <2>3 DEF Counts
    <3>4. Over(lg, limit, Len(lg) - s.attempts, p) => time + Skew >= lg[p].at + Window
      BY <2>1, <2>3 DEF Counts
    <3> QED
      BY <3>2, <3>3, <3>4 DEF Over
  <2>4. t.attempts < limit /\ t.attempts <= Len(lh) /\ t.ends # 0 /\ t.cool = 0
    BY <1>1, <1>4, <2>2
  <2>5. lh[Len(lh)].n = t.attempts
    BY <1>1
  <2>6. \A p \in 1..(Len(lh) - t.attempts) :
            /\ t.ends + Skew >= lh[p].at + Window
            /\ Over(lh, limit, Len(lh) - t.attempts, p) => time + Skew >= lh[p].at + Window
    BY <2>2, <2>3
  <2> QED
    BY <2>4, <2>5, <2>6 DEF Counts
<1> QED
  BY <1>1, <1>3, <1>7, <1>8 DEF Good, lh

\* An attempt starts a cooldown.
LEMMA GoodLast ==
    ASSUME Limiter!LimiterAssumption, NEW lg \in Seq(Entry), NEW limit \in Nat \ {0}, NEW wait \in Nat \ {0},
           NEW s \in Counter, NEW time \in Nat, NEW m \in Nat, m <= time, time <= m + Skew, s.cool = 0,
           Good(lg, limit, wait, s, time),
           NEW e \in Entry, e.at = m, e.n = s.attempts + 1, e.cool \in {0, m + wait}
    PROVE  Append(lg, e) \in Seq(Entry) /\ Good(Append(lg, e), limit, wait, Cooling(m + wait), time)
<1> DEFINE lh == Append(lg, e)
<1>1. /\ lh \in Seq(Entry) /\ Known(lh, wait, time)
      /\ \A a, b \in 1..Len(lh) : a < b => lh[b].at + 2 * Skew >= lh[a].cool
      /\ wait >= Window => Spaced(lh, limit)
  BY GoodEntry
<1> HIDE DEF lh
<1>2. /\ \A p \in 1..Len(lh) : lh[p].at \in Nat /\ lh[p].n \in Nat /\ lh[p].cool \in Nat
      /\ Window \in Nat /\ Skew \in Nat /\ Len(lh) \in Nat
  BY <1>1, EntryTypes, LimiterFacts
<1>3. /\ Cooling(m + wait).attempts = 0 /\ Cooling(m + wait).ends = 0
      /\ Cooling(m + wait).cool = m + wait
  BY DEF Cooling
<1>4. Served(lh, Cooling(m + wait), time)
  BY <1>1, <1>2, <1>3 DEF Served, Known
<1>5. wait >= Window => Counts(lh, limit, Cooling(m + wait), time)
  BY <1>1, <1>2, <1>3 DEF Counts, Known
<1> QED
  BY <1>1, <1>4, <1>5 DEF Good, lh


LEMMA SameCardinality ==
    /\ \A S : Limiter!Cardinality(S) = Cardinality(S)
    /\ Limiter!IsFiniteSet(Ip) = IsFiniteSet(Ip)
<1>1. ASSUME NEW S
      PROVE  Limiter!Cardinality(S) = Cardinality(S)
  BY DEF Limiter!Cardinality, Cardinality
<1>2. Limiter!IsFiniteSet(Ip) = IsFiniteSet(Ip)
  BY DEF Limiter!IsFiniteSet, IsFiniteSet
<1> QED
  BY <1>1, <1>2

LEMMA CounterExcept ==
    ASSUME NEW s \in Counter, NEW a
    PROVE  /\ [s EXCEPT !.attempts = a] = [attempts |-> a, ends |-> s.ends, cool |-> s.cool]
           /\ [s EXCEPT !.cool = a] = [attempts |-> s.attempts, ends |-> s.ends, cool |-> a]
<1>1. PICK p \in Nat, q \in Nat, r \in Nat : s = [attempts |-> p, ends |-> q, cool |-> r]
  BY DEF Counter, Limiter!Counter
<1>2. s.attempts = p /\ s.ends = q /\ s.cool = r
  BY <1>1
<1>3. [s EXCEPT !.attempts = a] = [attempts |-> a, ends |-> q, cool |-> r]
  BY <1>1
<1>4. [s EXCEPT !.cool = a] = [attempts |-> p, ends |-> q, cool |-> a]
  BY <1>1
<1> QED
  BY <1>2, <1>3, <1>4

\* What a counter is that the limiter makes.
LEMMA MadeCounters ==
    ASSUME Limiter!LimiterAssumption, NEW m \in Nat
    PROVE  /\ Opened(m) \in Counter /\ Opened(m).attempts = 0 /\ Opened(m).cool = 0
           /\ Opened(m).ends = m + Window /\ Opened(m).ends # 0
           /\ Limiter!Fresh = Closed /\ Cooling(0) = Closed
<1>1. Window \in Nat \ {0}
  BY LimiterFacts
<1>2. Opened(m).attempts = 0 /\ Opened(m).cool = 0 /\ Opened(m).ends = m + Window
  BY DEF Opened
<1>3. m + Window \in Nat /\ m + Window # 0
  BY <1>1
<1>4. Opened(m) \in Counter
  BY <1>3 DEF Opened, Counter, Limiter!Counter
<1>5. Limiter!Fresh = Closed /\ Cooling(0) = Closed
  BY DEF Limiter!Fresh, Closed, Cooling
<1> QED
  BY <1>2, <1>3, <1>4, <1>5

\* What allow makes of the limiter before it looks at the address.
LEMMA ReadyIs ==
    ASSUME Limiter!LimiterAssumption, LoginTypes, NEW m \in Nat
    PROVE  /\ global.cool # 0 => Limiter!Ready(m).ips = Limiter!Nobody /\ Limiter!Ready(m).g = Opened(m)
           /\ global.cool = 0 => Limiter!Ready(m).ips = byIP
           /\ global.cool = 0 /\ (global.ends = 0 \/ m >= global.ends) => Limiter!Ready(m).g = Opened(m)
           /\ global.cool = 0 /\ ~(global.ends = 0 \/ m >= global.ends) => Limiter!Ready(m).g = global
<1>2. Limiter!Ready(m).ips = IF global.cool # 0 THEN Limiter!Nobody ELSE byIP
  BY DEF Limiter!Ready
<1>3. CASE global.cool # 0
  <2>1. Limiter!Ready(m).g = Opened(m)
    BY <1>3 DEF Limiter!Ready, Limiter!Fresh, Opened
  <2> QED
    BY <1>2, <1>3, <2>1
<1>4. CASE global.cool = 0 /\ (global.ends = 0 \/ m >= global.ends)
  <2>1. Limiter!Ready(m).g = Opened(m)
    BY <1>4 DEF Limiter!Ready, Opened
  <2> QED
    BY <1>2, <1>4, <2>1
<1>5. CASE global.cool = 0 /\ ~(global.ends = 0 \/ m >= global.ends)
  <2>1. Limiter!Ready(m).g = global
    BY <1>5 DEF Limiter!Ready
  <2> QED
    BY <1>2, <1>5, <2>1
<1> QED
  BY <1>3, <1>4, <1>5

LEMMA ReadyTypes ==
    ASSUME Limiter!LimiterAssumption, LoginTypes, NEW m \in Nat
    PROVE  /\ Limiter!Ready(m).ips \in [Ip -> Counter \cup {None}]
           /\ Limiter!Ready(m).ips = byIP \/ Limiter!Ready(m).ips = Limiter!Nobody
           /\ \A i \in Ip : Limiter!Ready(m).ips[i] # None => Limiter!Ready(m).ips[i].attempts # 0
           /\ Limiter!Ready(m).g \in Counter /\ Limiter!Ready(m).g.cool = 0 /\ Limiter!Ready(m).g.ends # 0
           /\ \E c \in Configs : Limiter!Ready(m).g.attempts < c.overall
<1> DEFINE ips == Limiter!Ready(m).ips
           g == Limiter!Ready(m).g
<1>1. ips = byIP \/ ips = Limiter!Nobody
  BY ReadyIs
<1>2. g = Opened(m) \/ (g = global /\ global.cool = 0 /\ global.ends # 0)
  BY ReadyIs
<1> HIDE DEF ips, g
<1>3. Limiter!Nobody \in [Ip -> Counter \cup {None}] /\ \A i \in Ip : Limiter!Nobody[i] = None
  BY DEF Limiter!Nobody
<1>4. ips \in [Ip -> Counter \cup {None}] /\ \A i \in Ip : ips[i] # None => ips[i].attempts # 0
  BY <1>1, <1>3 DEF LoginTypes
<1>5. cfg \in Configs /\ cfg.overall \in Nat \ {0}
  BY LimiterFacts DEF LoginTypes
<1>6. CASE g = Opened(m)
  <2>1. g \in Counter /\ g.cool = 0 /\ g.ends # 0 /\ g.attempts = 0
    BY <1>6, MadeCounters
  <2>2. g.attempts < cfg.overall
    BY <1>5, <2>1
  <2> QED
    BY <1>1, <1>4, <1>5, <2>1, <2>2 DEF ips, g
<1>7. CASE g = global /\ global.cool = 0 /\ global.ends # 0
  BY <1>1, <1>4, <1>7 DEF LoginTypes, ips, g
<1> QED
  BY <1>2, <1>6, <1>7


LEMMA LimitTypes ==
    ASSUME Limiter!LimiterAssumption, NEW c \in Configs, NEW x
    PROVE  LimitOf(c, x) \in Nat \ {0} /\ c.cool \in Nat \ {0}
BY LimiterFacts DEF LimitOf

LEMMA CurTypes ==
    ASSUME NEW ips \in [Ip -> Counter \cup {None}], NEW g \in Counter, NEW x \in Ip \cup {None}
    PROVE  Cur(ips, g, x) \in Counter
<1>1. Cooling(g.cool) \in Counter
  BY CounterTypes
<1>2. ASSUME x \in Ip, ips[x] # None
      PROVE  ips[x] \in Counter /\ Cooling(ips[x].cool) \in Counter
  <2>1. ips[x] \in Counter
    BY <1>2
  <2>2. ips[x].cool \in Nat
    BY <2>1, CounterTypes
  <2> QED
    BY <2>1, <2>2, CounterTypes
<1> QED
  BY <1>1, <1>2 DEF Cur

\* The attempts go with the limiter that allow has made ready.
LEMMA ReadyGood ==
    ASSUME Limiter!LimiterAssumption, LoginTypes, AttemptsAreSpaced, patches = 0,
           NEW m \in Nat, m <= clock, clock <= m + Skew, m >= global.cool,
           NEW x \in Ip \cup {None}
    PROVE  Good(log[x], LimitOf(cfg, x), cfg.cool,
                Cur(Limiter!Ready(m).ips, Limiter!Ready(m).g, x), clock)
<1> DEFINE lg == log[x]
           limit == LimitOf(cfg, x)
           s == Cur(byIP, global, x)
<1>1. Good(lg, limit, cfg.cool, s, clock)
  BY DEF AttemptsAreSpaced
<1>2. clock \in Nat /\ cfg \in Configs /\ lg \in Seq(Entry) /\ limit \in Nat \ {0} /\ cfg.cool \in Nat
  BY LimitTypes DEF LoginTypes
<1>3. global \in Counter /\ s \in Counter /\ global.cool \in Nat /\ global.ends \in Nat /\ Skew \in Nat
  BY CounterTypes, CurTypes, LimiterFacts DEF LoginTypes
<1>4. clock >= global.cool
  BY <1>2, <1>3
<1> HIDE DEF lg, limit
<1>5. CASE global.cool # 0
  <2>1. /\ Limiter!Ready(m).ips = Limiter!Nobody /\ Limiter!Ready(m).g = Opened(m)
        /\ byIP = Limiter!Nobody /\ global = Cooling(global.cool)
    BY <1>5, ReadyIs DEF LoginTypes
  <2>2. s = Cooling(global.cool)
    BY <2>1 DEF Cur, Limiter!Nobody
  <2>3. s.attempts = 0 /\ s.cool = global.cool
    BY <1>3, <2>2, CounterTypes
  <2> HIDE DEF s
  <2>4. Good(lg, limit, cfg.cool, Closed, clock)
    BY <1>1, <1>2, <1>3, <1>4, <2>3, GoodClosed
  <2>5. CASE x = None
    <3>1. Good(lg, limit, cfg.cool, Opened(m), clock)
      BY <1>2, <2>4, GoodOpen, MadeCounters
    <3> QED
      BY <2>1, <2>5, <3>1 DEF Cur, lg, limit
  <2>6. CASE x # None
    <3>1. Cur(Limiter!Nobody, Opened(m), x) = Closed
      BY <2>6, MadeCounters DEF Cur, Limiter!Nobody
    <3> QED
      BY <2>1, <2>4, <3>1 DEF lg, limit
  <2> QED
    BY <2>5, <2>6
<1>6. CASE global.cool = 0 /\ x = None
  <2>1. s = global
    BY <1>6 DEF Cur
  <2> HIDE DEF s
  <2>2. CASE global.ends = 0 \/ m >= global.ends
    <3>1. clock >= global.ends
      BY <1>2, <1>3, <2>2
    <3>2. Good(lg, limit, cfg.cool, Closed, clock)
      BY <1>1, <1>2, <1>3, <1>4, <2>1, <3>1, GoodClosed
    <3>3. Good(lg, limit, cfg.cool, Opened(m), clock)
      BY <1>2, <3>2, GoodOpen, MadeCounters
    <3>4. Limiter!Ready(m).g = Opened(m)
      BY <1>6, <2>2, ReadyIs
    <3> QED
      BY <1>6, <3>3, <3>4 DEF Cur, lg, limit
  <2>3. CASE ~(global.ends = 0 \/ m >= global.ends)
    <3>1. Limiter!Ready(m).g = global
      BY <1>6, <2>3, ReadyIs
    <3> QED
      BY <1>1, <1>6, <2>1, <3>1 DEF Cur, lg, limit
  <2> QED
    BY <2>2, <2>3
<1>7. CASE global.cool = 0 /\ x # None
  <2>1. Limiter!Ready(m).ips = byIP /\ Limiter!Ready(m).g.cool = 0
    BY <1>7, ReadyIs, ReadyTypes
  <2>2. Cur(Limiter!Ready(m).ips, Limiter!Ready(m).g, x) = s
    BY <1>7, <2>1 DEF Cur
  <2> QED
    BY <1>1, <2>2 DEF lg, limit
<1> QED
  BY <1>5, <1>6, <1>7

\* The counter of an address as allow finds it, its window begun anew when it is over.
Before(old, m) == IF old = None \/ old.cool # 0 \/ m >= old.ends THEN Opened(m) ELSE old

LEMMA BeforeTypes ==
    ASSUME Limiter!LimiterAssumption, NEW old \in Counter \cup {None}, NEW m \in Nat
    PROVE  Before(old, m) \in Counter /\ Before(old, m).cool = 0 /\ Before(old, m).ends # 0
<1>1. CASE old = None \/ old.cool # 0 \/ m >= old.ends
  BY <1>1, MadeCounters DEF Before
<1>2. CASE ~(old = None \/ old.cool # 0 \/ m >= old.ends)
  <2>1. old \in Counter /\ old.ends \in Nat /\ ~(m >= old.ends)
    BY <1>2, CounterTypes
  <2>2. old.ends # 0
    BY <2>1
  <2> QED
    BY <1>2, <2>1, <2>2 DEF Before
<1> QED
  BY <1>1, <1>2

LEMMA BeforeGood ==
    ASSUME Limiter!LimiterAssumption, NEW lg \in Seq(Entry), NEW limit \in Nat \ {0}, NEW wait \in Nat,
           NEW time \in Nat, NEW m \in Nat, m <= time, time <= m + Skew,
           NEW ips \in [Ip -> Counter \cup {None}], NEW g \in Counter, g.cool = 0, NEW x \in Ip,
           ips[x] # None => m >= ips[x].cool,
           Good(lg, limit, wait, Cur(ips, g, x), time)
    PROVE  Good(lg, limit, wait, Before(ips[x], m), time)
<1> DEFINE s == Cur(ips, g, x)
<1>0. x # None
  BY LimiterFacts
<1>1. s \in Counter /\ s.cool \in Nat /\ s.ends \in Nat
  BY CurTypes, CounterTypes
<1>2. CASE ips[x] = None \/ ips[x].cool # 0 \/ m >= ips[x].ends
  <2>1. time >= s.cool /\ (s.attempts = 0 \/ time >= s.ends)
    <3>1. CASE ips[x] = None
      <4>1. s = Closed
        BY <1>0, <3>1, MadeCounters DEF Cur
      <4> QED
        BY <4>1, CounterTypes DEF Closed
    <3>2. CASE ips[x] # None /\ ips[x].cool # 0
      <4>1. s = Cooling(ips[x].cool) /\ ips[x].cool \in Nat
        BY <1>0, <3>2, CounterTypes DEF Cur
      <4>2. s.attempts = 0 /\ s.cool = ips[x].cool
        BY <4>1, CounterTypes DEF Cooling
      <4> QED
        BY <3>2, <4>1, <4>2
    <3>3. CASE ips[x] # None /\ ips[x].cool = 0
      <4>1. s = ips[x] /\ m >= ips[x].ends
        BY <1>0, <1>2, <3>3 DEF Cur
      <4> QED
        BY <1>1, <3>3, <4>1
    <3> QED
      BY <3>1, <3>2, <3>3
  <2> HIDE DEF s
  <2>2. Good(lg, limit, wait, Closed, time)
    BY <1>1, <2>1, GoodClosed DEF s
  <2>3. Good(lg, limit, wait, Opened(m), time)
    BY <2>2, GoodOpen, MadeCounters
  <2> QED
    BY <1>2, <2>3 DEF Before
<1>3. CASE ~(ips[x] = None \/ ips[x].cool # 0 \/ m >= ips[x].ends)
  BY <1>0, <1>3 DEF Before, Cur
<1> QED
  BY <1>2, <1>3


\* The counter of an address that is counted.
Mine(old, m, c) ==
    [attempts |-> Before(old, m).attempts + 1, ends |-> Before(old, m).ends,
     cool |-> IF Before(old, m).attempts + 1 >= c.max THEN m + c.cool ELSE 0]

\* The same, as allow makes it.
StateOf(old, m) ==
    IF old = None \/ old.cool # 0 \/ m >= old.ends
    THEN [attempts |-> 1, ends |-> m + Window, cool |-> 0]
    ELSE [old EXCEPT !.attempts = @ + 1]
MineOf(state, m, c) ==
    [state EXCEPT !.cool = IF Limiter!AtLimit(state.attempts, c.max) THEN m + c.cool ELSE @]

LEMMA MineIs ==
    ASSUME Limiter!LimiterAssumption, NEW old \in Counter \cup {None}, NEW m \in Nat, NEW c
    PROVE  MineOf(StateOf(old, m), m, c) = Mine(old, m, c)
<1> DEFINE state == StateOf(old, m)
           mine == MineOf(state, m, c)
<1>1. Before(old, m) \in Counter /\ Before(old, m).cool = 0
  BY BeforeTypes
<1>2. state = [attempts |-> Before(old, m).attempts + 1, ends |-> Before(old, m).ends, cool |-> 0]
  <2>1. CASE old = None \/ old.cool # 0 \/ m >= old.ends
    BY <2>1 DEF Before, Opened, StateOf
  <2>2. CASE ~(old = None \/ old.cool # 0 \/ m >= old.ends)
    <3>1. old \in Counter /\ old.cool = 0 /\ Before(old, m) = old
      BY <2>2 DEF Before
    <3>2. state = [old EXCEPT !.attempts = old.attempts + 1]
      BY <2>2 DEF StateOf
    <3>3. [old EXCEPT !.attempts = old.attempts + 1]
            = [attempts |-> old.attempts + 1, ends |-> old.ends, cool |-> old.cool]
      BY <3>1, CounterExcept
    <3> QED
      BY <3>1, <3>2, <3>3
  <2> QED
    BY <2>1, <2>2
<1> HIDE DEF state
<1>3. state.attempts = Before(old, m).attempts + 1 /\ state.cool = 0
  BY <1>2
<1>4. state \in Counter
  <2>1. Before(old, m).attempts \in Nat /\ Before(old, m).ends \in Nat
    BY <1>1, CounterTypes
  <2> QED
    BY <1>2, <2>1 DEF Counter, Limiter!Counter
<1> DEFINE end == IF Before(old, m).attempts + 1 >= c.max THEN m + c.cool ELSE 0
<1>5. mine = [state EXCEPT !.cool = end]
  BY <1>3 DEF Limiter!AtLimit, MineOf
<1> HIDE DEF end
<1>6. [state EXCEPT !.cool = end] = [attempts |-> state.attempts, ends |-> state.ends, cool |-> end]
  BY <1>4, CounterExcept
<1> QED
  BY <1>2, <1>5, <1>6 DEF Mine, end, state

LEMMA MineTypes ==
    ASSUME Limiter!LimiterAssumption, NEW old \in Counter \cup {None}, NEW m \in Nat, NEW c \in Configs
    PROVE  /\ Mine(old, m, c) \in Counter /\ Mine(old, m, c).attempts = Before(old, m).attempts + 1
           /\ Mine(old, m, c).attempts # 0 /\ Mine(old, m, c).ends = Before(old, m).ends
           /\ Mine(old, m, c).cool = IF Before(old, m).attempts + 1 >= c.max THEN m + c.cool ELSE 0
<1>1. /\ Before(old, m).attempts \in Nat /\ Before(old, m).ends \in Nat
      /\ c.max \in Nat \ {0} /\ c.cool \in Nat \ {0}
  BY BeforeTypes, CounterTypes, LimiterFacts
<1>2. /\ Mine(old, m, c).attempts = Before(old, m).attempts + 1
      /\ Mine(old, m, c).ends = Before(old, m).ends
      /\ Mine(old, m, c).cool = IF Before(old, m).attempts + 1 >= c.max THEN m + c.cool ELSE 0
  BY DEF Mine
<1>3. Before(old, m).attempts + 1 \in Nat \ {0} /\ m + c.cool \in Nat
  BY <1>1
<1>4. Mine(old, m, c) \in Counter
  BY <1>1, <1>3 DEF Mine, Counter, Limiter!Counter
<1> QED
  BY <1>2, <1>3, <1>4

\* The attempt as it is logged, of the address and of everybody.
MineEntry(old, m, c) == [at |-> m, n |-> Mine(old, m, c).attempts, cool |-> Mine(old, m, c).cool]
AllEntry(g, m, c) ==
    [at |-> m, n |-> g.attempts + 1, cool |-> IF g.attempts + 1 >= c.overall THEN m + c.cool ELSE 0]

LEMMA AllowIs ==
    ASSUME Limiter!LimiterAssumption, LoginTypes, NEW l \in Login, Limiter!allow(l),
           NEW m, m = login[l].now, NEW ip, ip = login[l].ip, NEW c, c = login[l].cfg,
           NEW ips, ips = Limiter!Ready(m).ips, NEW g, g = Limiter!Ready(m).g
    PROVE  /\ m \in Nat /\ m <= clock /\ clock <= m + Skew /\ ip \in Ip /\ c \in Configs
           /\ m >= global.cool
           /\ ips[ip] # None => m >= ips[ip].cool
           /\ ips[ip] = None => ~Limiter!Full(ips, c)
           /\ g.attempts + 1 >= c.overall => byIP' = Limiter!Nobody /\ global' = Cooling(m + c.cool)
           /\ ~(g.attempts + 1 >= c.overall) =>
                 /\ global' = [attempts |-> g.attempts + 1, ends |-> g.ends, cool |-> 0]
                 /\ byIP' = [ips EXCEPT ![ip] = Mine(ips[ip], m, c)]
           /\ log' = [[log EXCEPT ![ip] = Append(log[ip], MineEntry(ips[ip], m, c))]
                        EXCEPT ![None] = Append(log[None], AllEntry(g, m, c))]
           /\ login' = [login EXCEPT ![l] = Limiter!NoLogin]
           /\ UNCHANGED <<clock, cfg, reset, patches>>
<1> DEFINE old == Limiter!Ready(login[l].now).ips[login[l].ip]
           state == IF old = None \/ old.cool # 0 \/ login[l].now >= old.ends
                    THEN [attempts |-> 1, ends |-> login[l].now + Window, cool |-> 0]
                    ELSE [old EXCEPT !.attempts = @ + 1]
           mine == [state EXCEPT !.cool = IF Limiter!AtLimit(state.attempts, login[l].cfg.max)
                                          THEN login[l].now + login[l].cfg.cool ELSE @]
           all == Limiter!Ready(login[l].now).g.attempts + 1
<1>1. /\ login[l].pc = "allow" /\ login[l].now >= global.cool
      /\ old # None => login[l].now >= old.cool
      /\ old = None => ~Limiter!Full(Limiter!Ready(login[l].now).ips, login[l].cfg)
      /\ IF Limiter!AtLimit(all, login[l].cfg.overall)
         THEN Limiter!startGlobalCooldown(login[l].now, login[l].cfg)
         ELSE /\ global' = [Limiter!Ready(login[l].now).g EXCEPT !.attempts = all]
              /\ byIP' = [Limiter!Ready(login[l].now).ips EXCEPT ![login[l].ip] = mine]
      /\ log' = [log EXCEPT
             ![login[l].ip] = Append(@, [at |-> login[l].now, n |-> mine.attempts, cool |-> mine.cool]),
             ![None] = Append(@, [at |-> login[l].now, n |-> all,
                                  cool |-> IF Limiter!AtLimit(all, login[l].cfg.overall)
                                           THEN login[l].now + login[l].cfg.cool ELSE 0])]
      /\ Limiter!Finish(l)
      /\ UNCHANGED <<clock, cfg, reset, patches>>
  BY DEF Limiter!allow
<1>2. m \in Nat /\ m <= clock /\ clock <= m + Skew /\ ip \in Ip /\ c \in Configs /\ ip # None
  BY <1>1, LimiterFacts DEF LoginTypes
<1>3. ips \in [Ip -> Counter \cup {None}] /\ g \in Counter /\ g.cool = 0 /\ old = ips[ip]
  BY <1>2, ReadyTypes
<1>4. mine = Mine(ips[ip], m, c)
  <2>1. ips[ip] \in Counter \cup {None} /\ m \in Nat
    BY <1>2, <1>3
  <2>2. mine = MineOf(StateOf(ips[ip], m), m, c)
    BY DEF MineOf, StateOf
  <2> HIDE DEF old, state, mine
  <2> QED
    BY <2>1, <2>2, MineIs
<1> HIDE DEF old, state, mine, all
<1>5. all = g.attempts + 1
  BY DEF all
<1>6. g.attempts + 1 >= c.overall => byIP' = Limiter!Nobody /\ global' = Cooling(m + c.cool)
  BY <1>1, <1>5 DEF Limiter!AtLimit, Limiter!startGlobalCooldown, Cooling
<1>7. ASSUME ~(g.attempts + 1 >= c.overall)
      PROVE  /\ global' = [attempts |-> g.attempts + 1, ends |-> g.ends, cool |-> 0]
             /\ byIP' = [ips EXCEPT ![ip] = Mine(ips[ip], m, c)]
  <2>1. ~Limiter!AtLimit(all, login[l].cfg.overall)
    BY <1>5, <1>7 DEF Limiter!AtLimit
  <2>2. global' = [g EXCEPT !.attempts = g.attempts + 1] /\ byIP' = [ips EXCEPT ![ip] = mine]
    BY <1>1, <1>5, <2>1
  <2> QED
    BY <1>3, <1>4, <2>2, CounterExcept
<1>8. log' = [[log EXCEPT ![ip] = Append(log[ip], MineEntry(ips[ip], m, c))]
                        EXCEPT ![None] = Append(log[None], AllEntry(g, m, c))]
  <2>1. [at |-> login[l].now, n |-> mine.attempts, cool |-> mine.cool] = MineEntry(ips[ip], m, c)
    BY <1>4 DEF MineEntry
  <2>2. [at |-> login[l].now, n |-> all,
         cool |-> IF Limiter!AtLimit(all, login[l].cfg.overall)
                  THEN login[l].now + login[l].cfg.cool ELSE 0] = AllEntry(g, m, c)
    BY <1>5 DEF AllEntry, Limiter!AtLimit
  <2> DEFINE e == MineEntry(ips[ip], m, c)
             f == AllEntry(g, m, c)
  <2>3. log' = [log EXCEPT ![ip] = Append(@, e), ![None] = Append(@, f)]
    BY <1>1, <2>1, <2>2
  <2> HIDE DEF e, f
  <2>4. [log EXCEPT ![ip] = Append(@, e), ![None] = Append(@, f)]
          = [[log EXCEPT ![ip] = Append(log[ip], e)] EXCEPT ![None] = Append(log[None], f)]
    <3>1. log \in [Ip \cup {None} -> Seq(Entry)]
      BY DEF LoginTypes
    <3> QED
      BY <1>2, <3>1
  <2> QED
    BY <2>3, <2>4 DEF e, f
<1>9. login' = [login EXCEPT ![l] = Limiter!NoLogin]
  BY <1>1 DEF Limiter!Finish
<1> QED
  BY <1>1, <1>2, <1>3, <1>6, <1>7, <1>8, <1>9


LEMMA KnownIsFinite ==
    ASSUME Limiter!LimiterAssumption, NEW ips
    PROVE  IsFiniteSet(Limiter!KnownIn(ips)) /\ Cardinality(Limiter!KnownIn(ips)) \in Nat
<1>1. Limiter!KnownIn(ips) \subseteq Ip
  BY DEF Limiter!KnownIn
<1>2. IsFiniteSet(Ip)
  BY SameCardinality DEF Limiter!LimiterAssumption
<1> QED
  BY <1>1, <1>2, FS_Subset, FS_CardinalityType

\* The map of addresses shrinks.
LEMMA BoundedSubset ==
    ASSUME Limiter!LimiterAssumption, NEW ips, Bounded(ips), NEW less,
           Limiter!KnownIn(less) \subseteq Limiter!KnownIn(ips)
    PROVE  Bounded(less)
<1>1. PICK c \in Configs : Cardinality(Limiter!KnownIn(ips)) <= c.overall
  BY DEF Bounded
<1>2. c.overall \in Nat
  BY LimiterFacts
<1>3. Cardinality(Limiter!KnownIn(less)) <= Cardinality(Limiter!KnownIn(ips))
  BY KnownIsFinite, FS_Subset
<1>4. Cardinality(Limiter!KnownIn(less)) \in Nat /\ Cardinality(Limiter!KnownIn(ips)) \in Nat
  BY KnownIsFinite
<1>5. Cardinality(Limiter!KnownIn(less)) <= c.overall
  BY <1>1, <1>2, <1>3, <1>4
<1> QED
  BY <1>5 DEF Bounded

\* An address is added to a map that is not full.
LEMMA BoundedMore ==
    ASSUME Limiter!LimiterAssumption, NEW c \in Configs, NEW ips, ~Limiter!Full(ips, c), NEW ip, NEW more,
           Limiter!KnownIn(more) \subseteq Limiter!KnownIn(ips) \cup {ip}
    PROVE  Bounded(more)
<1> DEFINE S == Limiter!KnownIn(ips)
           T == Limiter!KnownIn(more)
<1>1. IsFiniteSet(S) /\ Cardinality(S) \in Nat /\ IsFiniteSet(T) /\ Cardinality(T) \in Nat
  BY KnownIsFinite
<1>2. ~(Cardinality(S) >= c.overall) /\ c.overall \in Nat
  BY SameCardinality, LimiterFacts DEF Limiter!Full
<1> HIDE DEF S, T
<1>3. IsFiniteSet(S \cup {ip}) /\ Cardinality(S \cup {ip}) <= Cardinality(S) + 1
     /\ Cardinality(S \cup {ip}) \in Nat
  <2>1. IsFiniteSet(S \cup {ip})
        /\ Cardinality(S \cup {ip}) = IF ip \in S THEN Cardinality(S) ELSE Cardinality(S) + 1
    BY <1>1, FS_AddElement
  <2> QED
    BY <1>1, <2>1
<1>4. Cardinality(T) <= Cardinality(S \cup {ip})
  BY <1>3, FS_Subset DEF S, T
<1>5. Cardinality(T) <= c.overall
  BY <1>1, <1>2, <1>3, <1>4
<1> QED
  BY <1>5 DEF Bounded, T

LEMMA BoundedNobody ==
    ASSUME Limiter!LimiterAssumption, NEW ips, Bounded(ips)
    PROVE  Bounded(Limiter!Nobody)
<1>1. Limiter!KnownIn(Limiter!Nobody) \subseteq Limiter!KnownIn(ips)
  BY DEF Limiter!KnownIn, Limiter!Nobody
<1> QED
  BY <1>1, BoundedSubset

LEMMA MineEntryTypes ==
    ASSUME Limiter!LimiterAssumption, NEW old \in Counter \cup {None}, NEW m \in Nat, NEW c \in Configs
    PROVE  /\ MineEntry(old, m, c) \in Entry /\ MineEntry(old, m, c).at = m
           /\ MineEntry(old, m, c).n = Before(old, m).attempts + 1
           /\ MineEntry(old, m, c).cool = Mine(old, m, c).cool
<1>1. /\ Mine(old, m, c).attempts \in Nat /\ Mine(old, m, c).cool \in Nat
      /\ Mine(old, m, c).attempts = Before(old, m).attempts + 1
  BY MineTypes, CounterTypes
<1> QED
  BY <1>1 DEF MineEntry, Entry

LEMMA AllEntryTypes ==
    ASSUME Limiter!LimiterAssumption, NEW g \in Counter, NEW m \in Nat, NEW c \in Configs
    PROVE  /\ AllEntry(g, m, c) \in Entry /\ AllEntry(g, m, c).at = m
           /\ AllEntry(g, m, c).n = g.attempts + 1
           /\ AllEntry(g, m, c).cool = IF g.attempts + 1 >= c.overall THEN m + c.cool ELSE 0
<1>1. g.attempts + 1 \in Nat /\ m + c.cool \in Nat
  BY CounterTypes, LimiterFacts
<1>2. /\ AllEntry(g, m, c).at = m /\ AllEntry(g, m, c).n = g.attempts + 1
      /\ AllEntry(g, m, c).cool = IF g.attempts + 1 >= c.overall THEN m + c.cool ELSE 0
  BY DEF AllEntry
<1>3. AllEntry(g, m, c) \in Entry
  BY <1>1 DEF AllEntry, Entry
<1> QED
  BY <1>2, <1>3

\* A login is over; the other logins are what they were.
LEMMA FinishTypes ==
    ASSUME LoginTypes, NEW l \in Login, login' = [login EXCEPT ![l] = Limiter!NoLogin]
    PROVE  /\ DOMAIN login' = Login
           /\ \A k \in Login : login'[k].pc = "allow" => login'[k] = login[k] /\ login[k].pc = "allow"
<1>1. DOMAIN login = Login
  BY DEF LoginTypes
<1>2. Limiter!NoLogin.pc # "allow"
  BY DEF Limiter!NoLogin
<1>3. ASSUME NEW k \in Login, login'[k].pc = "allow"
      PROVE  login'[k] = login[k] /\ login[k].pc = "allow"
  <2>1. CASE k = l
    <3>1. login'[k] = Limiter!NoLogin
      BY <1>1, <2>1
    <3> QED
      BY <1>2, <1>3, <3>1
  <2>2. CASE k # l
    <3>1. login'[k] = login[k]
      BY <1>1, <2>2
    <3> QED
      BY <1>3, <3>1
  <2> QED
    BY <2>1, <2>2
<1> QED
  BY <1>1, <1>3

LEMMA FinishLimits ==
    ASSUME LoginTypes, FirstLimits, NEW l \in Login, login' = [login EXCEPT ![l] = Limiter!NoLogin],
           cfg' = cfg, reset' = reset, patches' = patches
    PROVE  FirstLimits'
BY FinishTypes DEF FirstLimits

LEMMA AllowTypes ==
    ASSUME Limiter!LimiterAssumption, LimiterIInv, NEW l \in Login, Limiter!allow(l)
    PROVE  LoginTypes' /\ FirstLimits' /\ Bounded(byIP')
<1> DEFINE m == login[l].now
           ip == login[l].ip
           c == login[l].cfg
           ips == Limiter!Ready(m).ips
           g == Limiter!Ready(m).g
<1>0. LoginTypes
  BY DEF LimiterIInv
<1>1. /\ m \in Nat /\ m <= clock /\ clock <= m + Skew /\ ip \in Ip /\ c \in Configs
      /\ ips[ip] # None => m >= ips[ip].cool
      /\ ips[ip] = None => ~Limiter!Full(ips, c)
      /\ g.attempts + 1 >= c.overall => byIP' = Limiter!Nobody /\ global' = Cooling(m + c.cool)
      /\ ~(g.attempts + 1 >= c.overall) =>
            /\ global' = [attempts |-> g.attempts + 1, ends |-> g.ends, cool |-> 0]
            /\ byIP' = [ips EXCEPT ![ip] = Mine(ips[ip], m, c)]
      /\ log' = [[log EXCEPT ![ip] = Append(log[ip], MineEntry(ips[ip], m, c))]
                   EXCEPT ![None] = Append(log[None], AllEntry(g, m, c))]
      /\ login' = [login EXCEPT ![l] = Limiter!NoLogin]
      /\ UNCHANGED <<clock, cfg, reset, patches>>
  BY <1>0, AllowIs
<1>2. /\ ips \in [Ip -> Counter \cup {None}] /\ (ips = byIP \/ ips = Limiter!Nobody)
      /\ \A i \in Ip : ips[i] # None => ips[i].attempts # 0
      /\ g \in Counter /\ g.cool = 0 /\ g.ends # 0
  BY <1>0, <1>1, ReadyTypes
<1> HIDE DEF m, ip, c, ips, g
<1>3. ips[ip] \in Counter \cup {None}
  BY <1>1, <1>2
<1>4. g.attempts \in Nat /\ g.ends \in Nat /\ c.overall \in Nat \ {0} /\ c.cool \in Nat \ {0} /\ c.max \in Nat \ {0}
  BY <1>1, <1>2, CounterTypes, LimiterFacts
<1>5. log' \in [Ip \cup {None} -> Seq(Entry)]
  <2>1. MineEntry(ips[ip], m, c) \in Entry /\ AllEntry(g, m, c) \in Entry
    BY <1>1, <1>2, <1>3, MineEntryTypes, AllEntryTypes
  <2>2. log \in [Ip \cup {None} -> Seq(Entry)]
    BY <1>0 DEF LoginTypes
  <2> DEFINE lm == Append(log[ip], MineEntry(ips[ip], m, c))
             la == Append(log[None], AllEntry(g, m, c))
  <2>3. lm \in Seq(Entry) /\ la \in Seq(Entry)
    BY <1>1, <2>1, <2>2
  <2>4. log' = [[log EXCEPT ![ip] = lm] EXCEPT ![None] = la]
    BY <1>1
  <2> HIDE DEF lm, la
  <2> QED
    BY <2>2, <2>3, <2>4
<1>6. Mine(ips[ip], m, c) \in Counter /\ Mine(ips[ip], m, c).attempts # 0
  BY <1>1, <1>3, MineTypes
<1>7. /\ byIP' \in [Ip -> Counter \cup {None}] /\ global' \in Counter
      /\ global'.cool # 0 => byIP' = Limiter!Nobody /\ global' = Cooling(global'.cool)
      /\ \A i \in Ip : byIP'[i] # None => byIP'[i].attempts # 0
      /\ \E d \in Configs : global'.attempts < d.overall
  <2>1. CASE g.attempts + 1 >= c.overall
    <3>1. byIP' = Limiter!Nobody /\ global' = Cooling(m + c.cool) /\ m + c.cool \in Nat
      BY <1>1, <1>4, <2>1
    <3>2. global' \in Counter /\ global'.attempts = 0 /\ global'.cool = m + c.cool
      BY <3>1 DEF Cooling, Counter, Limiter!Counter
    <3>3. global'.attempts < c.overall
      BY <1>4, <3>2
    <3>4. byIP' \in [Ip -> Counter \cup {None}] /\ \A i \in Ip : byIP'[i] = None
      BY <3>1 DEF Limiter!Nobody
    <3> QED
      BY <1>1, <3>1, <3>2, <3>3, <3>4
  <2>2. CASE ~(g.attempts + 1 >= c.overall)
    <3>1. /\ global' = [attempts |-> g.attempts + 1, ends |-> g.ends, cool |-> 0]
          /\ byIP' = [ips EXCEPT ![ip] = Mine(ips[ip], m, c)]
      BY <1>1, <2>2
    <3>2. global'.cool = 0 /\ global'.attempts = g.attempts + 1
      BY <3>1
    <3>3. global' \in Counter
      <4>1. g.attempts + 1 \in Nat /\ g.ends \in Nat
        BY <1>4
      <4> QED
        BY <3>1, <4>1 DEF Counter, Limiter!Counter
    <3>4. global'.attempts < c.overall
      BY <1>4, <2>2, <3>2
    <3>5. byIP' \in [Ip -> Counter \cup {None}]
      BY <1>2, <1>6, <3>1
    <3>6. \A i \in Ip : byIP'[i] # None => byIP'[i].attempts # 0
      BY <1>1, <1>2, <1>6, <3>1
    <3> QED
      BY <1>1, <3>2, <3>3, <3>4, <3>5, <3>6
  <2> QED
    BY <2>1, <2>2
<1>8. LoginTypes'
  <2>1. /\ DOMAIN login' = Login
        /\ \A k \in Login : login'[k].pc = "allow" => login'[k] = login[k] /\ login[k].pc = "allow"
    BY <1>0, <1>1, FinishTypes
  <2>2. \A k \in Login : login'[k].pc = "allow" =>
          /\ login'[k].ip \in Ip /\ login'[k].cfg \in Configs /\ login'[k].now \in Nat
          /\ login'[k].now <= clock /\ clock <= login'[k].now + Skew
    BY <1>0, <2>1 DEF LoginTypes
  <2>3. clock' = clock /\ cfg' = cfg /\ reset' = reset /\ patches' = patches
    BY <1>1
  <2>4. clock \in Nat /\ cfg \in Configs /\ patches \in Nat /\ reset \in BOOLEAN
    BY <1>0 DEF LoginTypes
  <2>5. clock' \in Nat /\ cfg' \in Configs /\ patches' \in Nat /\ reset' \in BOOLEAN
    BY <2>3, <2>4
  <2> QED
    BY <1>5, <1>7, <2>1, <2>2, <2>3, <2>5 DEF LoginTypes
<1>9. FirstLimits'
  BY <1>0, <1>1, FinishLimits DEF LimiterIInv
<1>10. Bounded(ips)
  BY <1>2, BoundedNobody DEF LimiterIInv
<1>11. Bounded(byIP')
  <2>1. CASE g.attempts + 1 >= c.overall
    BY <1>1, <1>10, <2>1, BoundedNobody
  <2>2. CASE ~(g.attempts + 1 >= c.overall) /\ ips[ip] = None
    <3>1. byIP' = [ips EXCEPT ![ip] = Mine(ips[ip], m, c)]
      BY <1>1, <2>2
    <3>2. Limiter!KnownIn(byIP') \subseteq Limiter!KnownIn(ips) \cup {ip}
      BY <1>2, <3>1 DEF Limiter!KnownIn
    <3> QED
      BY <1>1, <2>2, <3>2, BoundedMore
  <2>3. CASE ~(g.attempts + 1 >= c.overall) /\ ips[ip] # None
    <3>1. byIP' = [ips EXCEPT ![ip] = Mine(ips[ip], m, c)]
      BY <1>1, <2>3
    <3>2. Limiter!KnownIn(byIP') \subseteq Limiter!KnownIn(ips)
      BY <1>1, <1>2, <2>3, <3>1 DEF Limiter!KnownIn
    <3> QED
      BY <1>10, <3>2, BoundedSubset
  <2> QED
    BY <2>1, <2>2, <2>3
<1> QED
  BY <1>8, <1>9, <1>11


LEMMA AllowGood ==
    ASSUME Limiter!LimiterAssumption, LimiterIInv, NEW l \in Login, Limiter!allow(l)
    PROVE  AttemptsAreSpaced'
<1> SUFFICES ASSUME patches' = 0, NEW x \in Ip \cup {None}
             PROVE  Good(log'[x], LimitOf(cfg', x), cfg'.cool, Cur(byIP', global', x), clock')
  BY DEF AttemptsAreSpaced
<1> DEFINE m == login[l].now
           ip == login[l].ip
           c == login[l].cfg
           ips == Limiter!Ready(m).ips
           g == Limiter!Ready(m).g
           old == ips[ip]
           s == Before(old, m)
           e == MineEntry(old, m, c)
           f == AllEntry(g, m, c)
<1>0. LoginTypes /\ FirstLimits /\ AttemptsAreSpaced
  BY DEF LimiterIInv
<1>1. /\ m \in Nat /\ m <= clock /\ clock <= m + Skew /\ ip \in Ip /\ c \in Configs
      /\ m >= global.cool
      /\ old # None => m >= old.cool
      /\ g.attempts + 1 >= c.overall => byIP' = Limiter!Nobody /\ global' = Cooling(m + c.cool)
      /\ ~(g.attempts + 1 >= c.overall) =>
            /\ global' = [attempts |-> g.attempts + 1, ends |-> g.ends, cool |-> 0]
            /\ byIP' = [ips EXCEPT ![ip] = Mine(old, m, c)]
      /\ log' = [[log EXCEPT ![ip] = Append(log[ip], e)] EXCEPT ![None] = Append(log[None], f)]
      /\ UNCHANGED <<clock, cfg, reset, patches>>
  BY <1>0, AllowIs
<1>2. patches = 0 /\ c = cfg
  <2>1. patches = 0 /\ login[l].pc = "allow"
    BY <1>1 DEF Limiter!allow
  <2> QED
    BY <1>0, <2>1 DEF FirstLimits
<1>3. /\ ips \in [Ip -> Counter \cup {None}] /\ g \in Counter /\ g.cool = 0 /\ g.ends # 0
  BY <1>0, <1>1, ReadyTypes
<1>4. \A y \in Ip \cup {None} : Good(log[y], LimitOf(cfg, y), cfg.cool, Cur(ips, g, y), clock)
  BY <1>0, <1>1, <1>2, ReadyGood
<1> HIDE DEF m, ip, c, ips, g
<1>5. old \in Counter \cup {None}
  BY <1>1, <1>3
<1>6. /\ clock \in Nat /\ log \in [Ip \cup {None} -> Seq(Entry)] /\ ip # None /\ None \notin Ip
      /\ c.overall \in Nat \ {0} /\ c.cool \in Nat \ {0} /\ c.max \in Nat \ {0} /\ g.attempts \in Nat /\ g.ends \in Nat
      /\ m + c.cool \in Nat \ {0} /\ Skew \in Nat
  <2>1. clock \in Nat /\ log \in [Ip \cup {None} -> Seq(Entry)]
    BY <1>0 DEF LoginTypes
  <2>2. /\ c.overall \in Nat \ {0} /\ c.cool \in Nat \ {0} /\ c.max \in Nat \ {0}
        /\ ip # None /\ None \notin Ip /\ Skew \in Nat
    BY <1>1, LimiterFacts
  <2>3. g.attempts \in Nat /\ g.ends \in Nat
    BY <1>3, CounterTypes
  <2>4. m + c.cool \in Nat \ {0}
    BY <1>1, <2>2
  <2> QED
    BY <2>1, <2>2, <2>3, <2>4
<1>7. s \in Counter /\ s.cool = 0 /\ s.ends # 0 /\ s.attempts \in Nat
  BY <1>1, <1>5, BeforeTypes, CounterTypes
<1>8. LimitOf(cfg, ip) = c.max /\ LimitOf(cfg, None) = c.overall
  BY <1>2, <1>6 DEF LimitOf
<1>9. Good(log[ip], c.max, c.cool, s, clock)
  <2>1. Good(log[ip], c.max, c.cool, Cur(ips, g, ip), clock)
    BY <1>1, <1>2, <1>4, <1>8
  <2>2. log[ip] \in Seq(Entry)
    BY <1>1, <1>6
  <2> HIDE DEF s
  <2> QED
    BY <1>1, <1>3, <1>6, <2>1, <2>2, BeforeGood DEF s
<1>10. Good(log[None], c.overall, c.cool, g, clock)
  <2>1. Cur(ips, g, None) = g
    BY DEF Cur
  <2> QED
    BY <1>2, <1>4, <1>8, <2>1
<1>11. /\ e \in Entry /\ e.at = m /\ e.n = s.attempts + 1 /\ e.cool = Mine(old, m, c).cool
       /\ f \in Entry /\ f.at = m /\ f.n = g.attempts + 1
       /\ f.cool = IF g.attempts + 1 >= c.overall THEN m + c.cool ELSE 0
  <2> HIDE DEF old
  <2>0. m \in Nat /\ c \in Configs
    BY <1>1
  <2>1. /\ e \in Entry /\ e.at = m /\ e.n = s.attempts + 1 /\ e.cool = Mine(old, m, c).cool
    BY <1>5, <2>0, MineEntryTypes
  <2>2. /\ f \in Entry /\ f.at = m /\ f.n = g.attempts + 1
        /\ f.cool = IF g.attempts + 1 >= c.overall THEN m + c.cool ELSE 0
    BY <1>3, <2>0, AllEntryTypes
  <2> QED
    BY <2>1, <2>2
<1>12. /\ Mine(old, m, c) \in Counter /\ Mine(old, m, c).attempts = s.attempts + 1
       /\ Mine(old, m, c).ends = s.ends
       /\ Mine(old, m, c).cool = IF s.attempts + 1 >= c.max THEN m + c.cool ELSE 0
  BY <1>1, <1>5, MineTypes
<1> HIDE DEF old, s, e, f
<1>13. log'[ip] = Append(log[ip], e) /\ log'[None] = Append(log[None], f)
       /\ \A y \in Ip : y # ip => log'[y] = log[y]
  BY <1>1, <1>6
<1>14. log[ip] \in Seq(Entry) /\ log[None] \in Seq(Entry)
  BY <1>1, <1>6
<1>15. CASE g.attempts + 1 >= c.overall
  <2>1. byIP' = Limiter!Nobody /\ global' = Cooling(m + c.cool)
    BY <1>1, <1>15
  <2>2. Cur(byIP', global', x) = Cooling(m + c.cool)
    <3>1. global'.cool = m + c.cool
      BY <2>1 DEF Cooling
    <3> QED
      BY <2>1, <3>1 DEF Cur, Limiter!Nobody
  <2>3. CASE x = None
    <3>1. f.cool \in {0, m + c.cool}
      BY <1>11
    <3>2. Good(Append(log[None], f), c.overall, c.cool, Cooling(m + c.cool), clock)
      BY <1>1, <1>3, <1>6, <1>10, <1>11, <1>14, <3>1, GoodLast
    <3> QED
      BY <1>1, <1>2, <1>8, <1>13, <2>2, <2>3, <3>2
  <2>4. CASE x = ip
    <3>1. e.cool \in {0, m + c.cool}
      BY <1>11, <1>12
    <3>2. Good(Append(log[ip], e), c.max, c.cool, Cooling(m + c.cool), clock)
      BY <1>1, <1>6, <1>7, <1>9, <1>11, <1>14, <3>1, GoodLast
    <3> QED
      BY <1>1, <1>2, <1>8, <1>13, <2>2, <2>4, <3>2
  <2>5. CASE x # None /\ x # ip
    <3>1. x \in Ip /\ log'[x] = log[x] /\ log[x] \in Seq(Entry)
      BY <1>6, <1>13, <2>5
    <3>2. Good(log[x], LimitOf(cfg, x), cfg.cool, Cur(ips, g, x), clock)
      BY <1>4
    <3>3. LimitOf(cfg, x) \in Nat \ {0} /\ Cur(ips, g, x) \in Counter /\ cfg.cool = c.cool
      BY <1>1, <1>2, <1>3, LimitTypes, CurTypes
    <3>4. (m + c.cool) + Skew >= clock + cfg.cool
      BY <1>1, <1>6, <3>3
    <3>5. Good(log[x], LimitOf(cfg, x), cfg.cool, Cooling(m + c.cool), clock)
      BY <1>6, <3>1, <3>2, <3>3, <3>4, GoodCooling
    <3> QED
      BY <1>1, <2>2, <3>1, <3>5
  <2> QED
    BY <2>3, <2>4, <2>5
<1>16. CASE ~(g.attempts + 1 >= c.overall)
  <2>1. /\ global' = [attempts |-> g.attempts + 1, ends |-> g.ends, cool |-> 0]
        /\ byIP' = [ips EXCEPT ![ip] = Mine(old, m, c)]
    BY <1>1, <1>16
  <2>2. global'.attempts = g.attempts + 1 /\ global'.ends = g.ends /\ global'.cool = 0
    BY <2>1
  <2>3. CASE x = None
    <3>1. global' \in Counter
      <4>1. g.attempts + 1 \in Nat /\ g.ends \in Nat
        BY <1>6
      <4> QED
        BY <2>1, <4>1 DEF Counter, Limiter!Counter
    <3>2. g.attempts + 1 < c.overall /\ f.cool = 0
      BY <1>6, <1>11, <1>16
    <3>3. Good(Append(log[None], f), c.overall, c.cool, global', clock)
      BY <1>1, <1>3, <1>6, <1>10, <1>11, <1>14, <2>2, <3>1, <3>2, GoodAttempt
    <3>4. Cur(byIP', global', x) = global'
      BY <2>3 DEF Cur
    <3> QED
      BY <1>1, <1>2, <1>8, <1>13, <2>3, <3>3, <3>4
  <2>4. CASE x = ip /\ s.attempts + 1 >= c.max
    <3>1. e.cool = m + c.cool /\ byIP'[ip] = Mine(old, m, c) /\ Mine(old, m, c).cool = m + c.cool
      BY <1>1, <1>3, <1>11, <1>12, <2>1, <2>4
    <3>2. Good(Append(log[ip], e), c.max, c.cool, Cooling(m + c.cool), clock)
      BY <1>1, <1>6, <1>7, <1>9, <1>11, <1>14, <3>1, GoodLast
    <3>3. Mine(old, m, c) # None
      BY <1>12, LimiterFacts
    <3>4. Cur(byIP', global', x) = Cooling(m + c.cool)
      BY <1>6, <2>4, <3>1, <3>3 DEF Cur
    <3> QED
      BY <1>1, <1>2, <1>8, <1>13, <2>4, <3>2, <3>4
  <2>5. CASE x = ip /\ ~(s.attempts + 1 >= c.max)
    <3>1. e.cool = 0 /\ byIP'[ip] = Mine(old, m, c) /\ Mine(old, m, c).cool = 0
      BY <1>1, <1>3, <1>11, <1>12, <2>1, <2>5
    <3>2. s.attempts + 1 < c.max
      BY <1>6, <1>7, <2>5
    <3>3. Good(Append(log[ip], e), c.max, c.cool, Mine(old, m, c), clock)
      BY <1>1, <1>6, <1>7, <1>9, <1>11, <1>12, <1>14, <3>1, <3>2, GoodAttempt
    <3>4. Mine(old, m, c) # None
      BY <1>12, LimiterFacts
    <3>5. Cur(byIP', global', x) = Mine(old, m, c)
      BY <1>6, <2>5, <3>1, <3>4 DEF Cur
    <3> QED
      BY <1>1, <1>2, <1>8, <1>13, <2>5, <3>3, <3>5
  <2>6. CASE x # None /\ x # ip
    <3>1. x \in Ip /\ log'[x] = log[x] /\ byIP'[x] = ips[x]
      BY <1>3, <1>6, <1>13, <2>1, <2>6
    <3>2. Cur(byIP', global', x) = Cur(ips, g, x)
      BY <1>3, <2>2, <2>6, <3>1 DEF Cur
    <3> QED
      BY <1>1, <1>4, <3>1, <3>2
  <2> QED
    BY <2>3, <2>4, <2>5, <2>6
<1> QED
  BY <1>15, <1>16


LEMMA TickKeeps ==
    ASSUME Limiter!LimiterAssumption, LimiterIInv, Limiter!tick
    PROVE  LimiterIInv'
<1>1. /\ \A l \in Login : login[l].pc = "allow" => clock < login[l].now + Skew
      /\ clock' = clock + 1 /\ cfg' = cfg /\ byIP' = byIP /\ global' = global /\ login' = login
      /\ reset' = reset /\ patches' = patches /\ log' = log
  BY DEF Limiter!tick
<1>2. LoginTypes /\ clock \in Nat /\ Skew \in Nat /\ cfg \in Configs /\ byIP \in [Ip -> Counter \cup {None}]
      /\ global \in Counter /\ log \in [Ip \cup {None} -> Seq(Entry)]
  BY LimiterFacts DEF LimiterIInv, LoginTypes
<1>3. LoginTypes'
  <2>1. ASSUME NEW l \in Login, login[l].pc = "allow"
        PROVE  login[l].now <= clock + 1 /\ clock + 1 <= login[l].now + Skew
    <3>1. login[l].now \in Nat /\ login[l].now <= clock /\ clock < login[l].now + Skew
      BY <1>1, <1>2, <2>1 DEF LoginTypes
    <3> QED
      BY <1>2, <3>1
  <2>2. clock' \in Nat
    BY <1>1, <1>2
  <2> QED
    BY <1>1, <1>2, <2>1, <2>2 DEF LoginTypes
<1>4. FirstLimits' /\ Bounded(byIP')
  BY <1>1 DEF LimiterIInv, FirstLimits
<1>5. AttemptsAreSpaced'
  <2> SUFFICES ASSUME patches = 0, NEW x \in Ip \cup {None}
               PROVE  Good(log[x], LimitOf(cfg, x), cfg.cool, Cur(byIP, global, x), clock + 1)
    BY <1>1 DEF AttemptsAreSpaced
  <2>1. Good(log[x], LimitOf(cfg, x), cfg.cool, Cur(byIP, global, x), clock)
    BY DEF LimiterIInv, AttemptsAreSpaced
  <2>2. LimitOf(cfg, x) \in Nat \ {0} /\ cfg.cool \in Nat /\ Cur(byIP, global, x) \in Counter
    BY <1>2, LimitTypes, CurTypes
  <2>3. log[x] \in Seq(Entry) /\ clock + 1 \in Nat /\ clock <= clock + 1
    BY <1>2
  <2> QED
    BY <1>2, <2>1, <2>2, <2>3, GoodLater
<1> QED
  BY <1>3, <1>4, <1>5 DEF LimiterIInv

LEMMA BeginKeeps ==
    ASSUME Limiter!LimiterAssumption, LimiterIInv, NEW l \in Login, NEW ip \in Ip,
           Limiter!handleAuthLogin(l, ip)
    PROVE  LimiterIInv'
<1>1. /\ login' = [login EXCEPT ![l] = [pc |-> "allow", ip |-> ip, now |-> clock, cfg |-> cfg]]
      /\ clock' = clock /\ cfg' = cfg /\ byIP' = byIP /\ global' = global
      /\ reset' = reset /\ patches' = patches /\ log' = log
  BY DEF Limiter!handleAuthLogin
<1>2. LoginTypes /\ FirstLimits /\ clock \in Nat /\ Skew \in Nat /\ cfg \in Configs /\ DOMAIN login = Login
  BY LimiterFacts DEF LimiterIInv, LoginTypes
<1>3. DOMAIN login' = Login /\ \A k \in Login : k # l => login'[k] = login[k]
  BY <1>1, <1>2
<1>4. login'[l].ip = ip /\ login'[l].cfg = cfg /\ login'[l].now = clock
  <2>1. login'[l] = [pc |-> "allow", ip |-> ip, now |-> clock, cfg |-> cfg]
    BY <1>1, <1>2
  <2> QED
    BY <2>1
<1>5. clock <= clock /\ clock <= clock + Skew
  BY <1>2
<1>6. ASSUME NEW k \in Login, login'[k].pc = "allow"
      PROVE  /\ login'[k].ip \in Ip /\ login'[k].cfg \in Configs /\ login'[k].now \in Nat
             /\ login'[k].now <= clock /\ clock <= login'[k].now + Skew
             /\ patches = 0 => login'[k].cfg = cfg
  <2>1. CASE k = l
    BY <1>2, <1>4, <1>5, <2>1
  <2>2. CASE k # l
    BY <1>2, <1>3, <1>6, <2>2 DEF LoginTypes, FirstLimits
  <2> QED
    BY <2>1, <2>2
<1>7. LoginTypes'
  BY <1>1, <1>2, <1>3, <1>6 DEF LoginTypes
<1>8. FirstLimits'
  BY <1>1, <1>2, <1>6 DEF FirstLimits
<1>9. AttemptsAreSpaced' /\ Bounded(byIP')
  BY <1>1 DEF LimiterIInv, AttemptsAreSpaced
<1> QED
  BY <1>7, <1>8, <1>9 DEF LimiterIInv

\* A login is decided: what is left to show of the counters and the log.
LEMMA DecidedTypes ==
    ASSUME Limiter!LimiterAssumption, LimiterIInv, NEW l \in Login,
           login' = [login EXCEPT ![l] = Limiter!NoLogin],
           clock' = clock, cfg' = cfg, reset' = reset, patches' = patches, log' = log,
           byIP' \in [Ip -> Counter \cup {None}], global' \in Counter,
           global'.cool # 0 => byIP' = Limiter!Nobody /\ global' = Cooling(global'.cool),
           \A i \in Ip : byIP'[i] # None => byIP'[i].attempts # 0,
           \E c \in Configs : global'.attempts < c.overall
    PROVE  LoginTypes' /\ FirstLimits'
<1>0. LoginTypes /\ FirstLimits
  BY DEF LimiterIInv
<1>1. /\ DOMAIN login' = Login
      /\ \A k \in Login : login'[k].pc = "allow" => login'[k] = login[k] /\ login[k].pc = "allow"
  BY <1>0, FinishTypes
<1>2. \A k \in Login : login'[k].pc = "allow" =>
        /\ login'[k].ip \in Ip /\ login'[k].cfg \in Configs /\ login'[k].now \in Nat
        /\ login'[k].now <= clock /\ clock <= login'[k].now + Skew
  BY <1>0, <1>1 DEF LoginTypes
<1>3. clock' \in Nat /\ cfg' \in Configs /\ patches' \in Nat /\ reset' \in BOOLEAN
      /\ log' \in [Ip \cup {None} -> Seq(Entry)]
  BY <1>0 DEF LoginTypes
<1>4. LoginTypes'
  BY <1>1, <1>2, <1>3 DEF LoginTypes
<1>5. FirstLimits'
  BY <1>0, FinishLimits
<1> QED
  BY <1>4, <1>5

LEMMA RejectCoolingKeeps ==
    ASSUME Limiter!LimiterAssumption, LimiterIInv, NEW l \in Login, Limiter!rejectCooling(l)
    PROVE  LimiterIInv'
<1> DEFINE m == login[l].now
           ips == Limiter!Ready(m).ips
           g == Limiter!Ready(m).g
<1>0. LoginTypes /\ AttemptsAreSpaced /\ Bounded(byIP)
  BY DEF LimiterIInv
<1>1. /\ login[l].pc = "allow"
      /\ \/ byIP' = byIP /\ global' = global
         \/ m >= global.cool /\ byIP' = ips /\ global' = g
      /\ login' = [login EXCEPT ![l] = Limiter!NoLogin]
      /\ clock' = clock /\ cfg' = cfg /\ reset' = reset /\ patches' = patches /\ log' = log
  BY DEF Limiter!rejectCooling, Limiter!Finish
<1>2. m \in Nat /\ m <= clock /\ clock <= m + Skew
  BY <1>0, <1>1 DEF LoginTypes
<1>3. CASE byIP' = byIP /\ global' = global
  <2>1. LoginTypes' /\ FirstLimits'
    BY <1>0, <1>1, <1>3, DecidedTypes DEF LoginTypes
  <2>2. AttemptsAreSpaced' /\ Bounded(byIP')
    BY <1>0, <1>1, <1>3 DEF AttemptsAreSpaced
  <2> QED
    BY <2>1, <2>2 DEF LimiterIInv
<1>4. CASE m >= global.cool /\ byIP' = ips /\ global' = g
  <2>1. LoginTypes' /\ FirstLimits'
    <3>1. /\ ips \in [Ip -> Counter \cup {None}]
          /\ \A i \in Ip : ips[i] # None => ips[i].attempts # 0
          /\ g \in Counter /\ g.cool = 0 /\ \E c \in Configs : g.attempts < c.overall
      BY <1>0, <1>2, ReadyTypes
    <3> HIDE DEF ips, g
    <3> QED
      BY <1>1, <1>4, <3>1, DecidedTypes
  <2>2. AttemptsAreSpaced'
    <3> SUFFICES ASSUME patches = 0, NEW x \in Ip \cup {None}
                 PROVE  Good(log[x], LimitOf(cfg, x), cfg.cool, Cur(ips, g, x), clock)
      BY <1>1, <1>4 DEF AttemptsAreSpaced
    <3> QED
      BY <1>0, <1>2, <1>4, ReadyGood
  <2>3. ips = byIP \/ ips = Limiter!Nobody
    BY <1>0, <1>2, ReadyTypes
  <2>4. Bounded(byIP')
    BY <1>0, <1>4, <2>3, BoundedNobody
  <2> QED
    BY <2>1, <2>2, <2>4 DEF LimiterIInv
<1> QED
  BY <1>1, <1>3, <1>4

LEMMA RejectFullKeeps ==
    ASSUME Limiter!LimiterAssumption, LimiterIInv, NEW l \in Login, Limiter!rejectFull(l)
    PROVE  LimiterIInv'
<1> DEFINE m == login[l].now
           c == login[l].cfg
<1>0. LoginTypes /\ FirstLimits /\ AttemptsAreSpaced /\ Bounded(byIP)
  BY DEF LimiterIInv
<1>1. /\ login[l].pc = "allow" /\ byIP' = Limiter!Nobody /\ global' = Cooling(m + c.cool)
      /\ login' = [login EXCEPT ![l] = Limiter!NoLogin]
      /\ clock' = clock /\ cfg' = cfg /\ reset' = reset /\ patches' = patches /\ log' = log
  BY DEF Limiter!rejectFull, Limiter!Finish, Limiter!startGlobalCooldown, Cooling
<1>2. m \in Nat /\ m <= clock /\ clock <= m + Skew /\ c \in Configs /\ (patches = 0 => c = cfg)
  BY <1>0, <1>1 DEF LoginTypes, FirstLimits
<1>3. c.cool \in Nat \ {0} /\ c.overall \in Nat \ {0} /\ Skew \in Nat /\ clock \in Nat
  BY <1>0, <1>2, LimiterFacts DEF LoginTypes
<1> HIDE DEF m, c
<1>4. m + c.cool \in Nat \ {0}
  BY <1>2, <1>3
<1>5. /\ global' \in Counter /\ global'.cool = m + c.cool /\ global'.attempts = 0
      /\ byIP' \in [Ip -> Counter \cup {None}] /\ \A i \in Ip : byIP'[i] = None
  BY <1>1, <1>4 DEF Cooling, Counter, Limiter!Counter, Limiter!Nobody
<1>6. global'.attempts < c.overall
  BY <1>3, <1>5
<1>7. LoginTypes' /\ FirstLimits'
  BY <1>1, <1>2, <1>5, <1>6, DecidedTypes
<1>8. AttemptsAreSpaced'
  <2> SUFFICES ASSUME patches = 0, NEW x \in Ip \cup {None}
               PROVE  Good(log[x], LimitOf(cfg, x), cfg.cool, Cur(byIP', global', x), clock)
    BY <1>1 DEF AttemptsAreSpaced
  <2>1. Good(log[x], LimitOf(cfg, x), cfg.cool, Cur(byIP, global, x), clock) /\ c = cfg
    BY <1>0, <1>2 DEF AttemptsAreSpaced
  <2>2. LimitOf(cfg, x) \in Nat \ {0} /\ Cur(byIP, global, x) \in Counter /\ log[x] \in Seq(Entry)
    BY <1>0, LimitTypes, CurTypes DEF LoginTypes
  <2>3. (m + c.cool) + Skew >= clock + c.cool
    BY <1>2, <1>3
  <2>4. Good(log[x], LimitOf(cfg, x), c.cool, Cooling(m + c.cool), clock)
    BY <1>3, <1>4, <2>1, <2>2, <2>3, GoodCooling
  <2>5. Cur(byIP', global', x) = Cooling(m + c.cool)
    BY <1>1, <1>5 DEF Cur
  <2> QED
    BY <2>1, <2>4, <2>5
<1>9. Bounded(byIP')
  BY <1>0, <1>1, BoundedNobody
<1> QED
  BY <1>7, <1>8, <1>9 DEF LimiterIInv


\* The janitor forgets what is over.
LEMMA CleanupKeeps ==
    ASSUME Limiter!LimiterAssumption, LimiterIInv, Limiter!cleanup
    PROVE  LimiterIInv'
<1> DEFINE over == global.cool # 0 /\ clock >= global.cool
           gone(i) == byIP[i] # None /\ clock >= byIP[i].ends /\ clock >= byIP[i].cool
<1>0. LoginTypes /\ FirstLimits /\ AttemptsAreSpaced /\ Bounded(byIP)
  BY DEF LimiterIInv
<1>1. /\ byIP' = [i \in Ip |-> IF over \/ gone(i) THEN None ELSE byIP[i]]
      /\ global' = IF over THEN Limiter!Fresh
                   ELSE IF global.ends # 0 /\ clock >= global.ends
                        THEN [Limiter!Fresh EXCEPT !.cool = global.cool] ELSE global
      /\ clock' = clock /\ cfg' = cfg /\ login' = login /\ reset' = reset
      /\ patches' = patches /\ log' = log
  BY DEF Limiter!cleanup
<1>2. /\ global \in Counter /\ byIP \in [Ip -> Counter \cup {None}] /\ cfg \in Configs /\ clock \in Nat
      /\ global.cool # 0 => byIP = Limiter!Nobody /\ global = Cooling(global.cool)
      /\ \A i \in Ip : byIP[i] # None => byIP[i].attempts # 0
      /\ log \in [Ip \cup {None} -> Seq(Entry)]
  BY <1>0 DEF LoginTypes
<1>3. global.cool \in Nat /\ global.ends \in Nat /\ global.attempts \in Nat /\ cfg.overall \in Nat \ {0}
  BY <1>2, CounterTypes, LimiterFacts
<1>4. global.cool # 0 => global.ends = 0
  BY <1>2 DEF Cooling
<1>5. /\ over \/ (global.ends # 0 /\ clock >= global.ends) => global' = Closed
      /\ ~over /\ ~(global.ends # 0 /\ clock >= global.ends) => global' = global
  <2>1. Limiter!Fresh = Closed
    BY DEF Limiter!Fresh, Closed
  <2>2. [Limiter!Fresh EXCEPT !.cool = 0] = Closed
    BY DEF Limiter!Fresh, Closed
  <2>3. global.ends # 0 => global.cool = 0
    BY <1>4
  <2> QED
    BY <1>1, <2>1, <2>2, <2>3
<1>6. \A i \in Ip : byIP'[i] = IF over \/ gone(i) THEN None ELSE byIP[i]
  BY <1>1
<1>7. byIP' \in [Ip -> Counter \cup {None}] /\ \A i \in Ip : byIP'[i] # None => byIP'[i] = byIP[i]
  BY <1>1, <1>2
<1> HIDE DEF over, gone
<1>8. Closed \in Counter /\ Closed.attempts = 0 /\ Closed.ends = 0 /\ Closed.cool = 0
  BY DEF Closed, Counter, Limiter!Counter
<1>9. global' = Closed \/ global' = global
  BY <1>5
<1>10. LoginTypes'
  <2>1. global' \in Counter
    BY <1>2, <1>8, <1>9
  <2>2. global'.cool # 0 => byIP' = Limiter!Nobody /\ global' = Cooling(global'.cool)
    <3> SUFFICES ASSUME global'.cool # 0
                 PROVE  byIP' = Limiter!Nobody /\ global' = Cooling(global'.cool)
      OBVIOUS
    <3>1. global' = global /\ byIP = Limiter!Nobody /\ global = Cooling(global.cool)
      BY <1>2, <1>8, <1>9
    <3>2. \A i \in Ip : byIP'[i] = None
      BY <1>7, <3>1 DEF Limiter!Nobody
    <3>3. byIP' = Limiter!Nobody
      BY <1>7, <3>2 DEF Limiter!Nobody
    <3> QED
      BY <3>1, <3>3
  <2>3. \A i \in Ip : byIP'[i] # None => byIP'[i].attempts # 0
    BY <1>2, <1>7
  <2>4. \E c \in Configs : global'.attempts < c.overall
    <3>1. CASE global' = Closed
      <4>1. global'.attempts < cfg.overall
        BY <1>3, <1>8, <3>1
      <4> QED
        BY <1>2, <4>1
    <3>2. CASE global' = global
      BY <1>0, <3>2 DEF LoginTypes
    <3> QED
      BY <1>9, <3>1, <3>2
  <2>5. /\ clock' \in Nat /\ cfg' \in Configs /\ patches' \in Nat /\ reset' \in BOOLEAN
        /\ log' \in [Ip \cup {None} -> Seq(Entry)] /\ DOMAIN login' = Login
        /\ \A l \in Login : login'[l].pc = "allow" =>
             /\ login'[l].ip \in Ip /\ login'[l].cfg \in Configs /\ login'[l].now \in Nat
             /\ login'[l].now <= clock' /\ clock' <= login'[l].now + Skew
    BY <1>0, <1>1 DEF LoginTypes
  <2> QED
    BY <1>7, <2>1, <2>2, <2>3, <2>4, <2>5 DEF LoginTypes
<1>11. FirstLimits'
  BY <1>0, <1>1 DEF FirstLimits
<1>12. AttemptsAreSpaced'
  <2> SUFFICES ASSUME patches = 0, NEW x \in Ip \cup {None}
               PROVE  Good(log[x], LimitOf(cfg, x), cfg.cool, Cur(byIP', global', x), clock)
    BY <1>1 DEF AttemptsAreSpaced
  <2> DEFINE s == Cur(byIP, global, x)
             lg == log[x]
             limit == LimitOf(cfg, x)
  <2>1. Good(lg, limit, cfg.cool, s, clock)
    BY <1>0 DEF AttemptsAreSpaced
  <2>2. limit \in Nat \ {0} /\ cfg.cool \in Nat /\ s \in Counter /\ lg \in Seq(Entry)
    BY <1>2, LimitTypes, CurTypes
  <2>3. s.cool \in Nat /\ s.ends \in Nat
    BY <2>2, CounterTypes
  <2> HIDE DEF lg, limit
  <2>4. ASSUME clock >= s.cool, s.attempts = 0 \/ clock >= s.ends
        PROVE  Good(lg, limit, cfg.cool, Closed, clock)
    <3> HIDE DEF s
    <3> QED
      BY <1>2, <2>1, <2>2, <2>4, GoodClosed
  <2>5. CASE over
    <3>1. s = Cooling(global.cool) /\ s.attempts = 0 /\ s.cool = global.cool
      <4>1. s = Cooling(global.cool)
        BY <1>2, <2>5 DEF Cur, Limiter!Nobody, over
      <4> QED
        BY <4>1 DEF Cooling
    <3>2. Good(lg, limit, cfg.cool, Closed, clock)
      <4>1. clock >= s.cool
        BY <2>5, <3>1 DEF over
      <4> QED
        BY <2>4, <3>1, <4>1
    <3>3. Cur(byIP', global', x) = Closed
      <4>1. Cooling(0) = Closed
        BY DEF Cooling, Closed
      <4>2. global' = Closed /\ (x # None => byIP'[x] = None)
        BY <1>5, <1>6, <2>5
      <4> QED
        BY <1>8, <4>1, <4>2 DEF Cur
    <3> QED
      BY <3>2, <3>3 DEF lg, limit
  <2>6. CASE ~over /\ x = None
    <3>1. s = global /\ Cur(byIP', global', x) = global'
      BY <2>6 DEF Cur
    <3>2. CASE global.ends # 0 /\ clock >= global.ends
      <4>1. clock >= s.cool /\ clock >= s.ends
        BY <1>2, <1>3, <1>4, <3>1, <3>2
      <4>2. Good(lg, limit, cfg.cool, Closed, clock)
        BY <2>4, <4>1
      <4> QED
        BY <1>5, <3>1, <3>2, <4>2 DEF lg, limit
    <3>3. CASE ~(global.ends # 0 /\ clock >= global.ends)
      BY <1>5, <2>1, <2>6, <3>1, <3>3 DEF lg, limit
    <3> QED
      BY <3>2, <3>3
  <2>7. CASE ~over /\ x # None /\ gone(x)
    <3>1. x \in Ip /\ byIP'[x] = None /\ byIP[x] # None /\ clock >= byIP[x].ends /\ clock >= byIP[x].cool
      BY <1>6, <2>7 DEF gone
    <3>2. global.cool = 0 /\ global'.cool = 0
      BY <1>2, <1>8, <1>9, <3>1 DEF Limiter!Nobody
    <3>3. Cur(byIP', global', x) = Closed
      <4>1. Cooling(0) = Closed
        BY DEF Cooling, Closed
      <4> QED
        BY <2>7, <3>1, <3>2, <4>1 DEF Cur
    <3>4. clock >= s.cool /\ (s.attempts = 0 \/ clock >= s.ends)
      <4>1. CASE byIP[x].cool # 0
        <5>1. s = Cooling(byIP[x].cool)
          BY <2>7, <3>1, <4>1 DEF Cur
        <5>2. s.cool = byIP[x].cool /\ s.attempts = 0
          BY <5>1 DEF Cooling
        <5> QED
          BY <3>1, <5>2
      <4>2. CASE byIP[x].cool = 0
        <5>1. s = byIP[x]
          BY <2>7, <3>1, <4>2 DEF Cur
        <5> QED
          BY <3>1, <5>1
      <4> QED
        BY <4>1, <4>2
    <3> QED
      BY <2>4, <3>3, <3>4 DEF lg, limit
  <2>8. CASE ~over /\ x # None /\ ~gone(x)
    <3>1. x \in Ip /\ byIP'[x] = byIP[x]
      BY <1>6, <2>8
    <3>2. global'.cool = global.cool
      BY <1>4, <1>5, <1>8, <2>8
    <3>3. Cur(byIP', global', x) = s
      BY <2>8, <3>1, <3>2 DEF Cur
    <3> QED
      BY <2>1, <3>3 DEF lg, limit
  <2> QED
    BY <2>5, <2>6, <2>7, <2>8
<1>13. Bounded(byIP')
  <2>1. Limiter!KnownIn(byIP') \subseteq Limiter!KnownIn(byIP)
    BY <1>7 DEF Limiter!KnownIn
  <2> QED
    BY <1>0, <2>1, BoundedSubset
<1> QED
  BY <1>10, <1>11, <1>12, <1>13 DEF LimiterIInv

LEMMA UnloggedTypes == Limiter!Unlogged \in [Ip \cup {None} -> Seq(Entry)]
                       /\ \A x \in Ip \cup {None} : Limiter!Unlogged[x] = <<>>
BY DEF Limiter!Unlogged

LEMMA PatchKeeps ==
    ASSUME Limiter!LimiterAssumption, LimiterIInv, NEW c \in Configs, Limiter!updateConfig(c)
    PROVE  LimiterIInv'
<1>0. LoginTypes /\ Bounded(byIP)
  BY DEF LimiterIInv
<1>1. /\ cfg' = c /\ reset' = TRUE /\ patches' = patches + 1 /\ log' = Limiter!Unlogged
      /\ clock' = clock /\ byIP' = byIP /\ global' = global /\ login' = login
  BY DEF Limiter!updateConfig
<1>2. patches' \in Nat /\ patches' # 0
  BY <1>0, <1>1 DEF LoginTypes
<1>3. reset' \in BOOLEAN /\ log' \in [Ip \cup {None} -> Seq(Entry)] /\ cfg' \in Configs
  BY <1>1, UnloggedTypes
<1>4. LoginTypes'
  BY <1>0, <1>1, <1>2, <1>3 DEF LoginTypes
<1>5. FirstLimits' /\ AttemptsAreSpaced' /\ Bounded(byIP')
  BY <1>0, <1>1, <1>2 DEF FirstLimits, AttemptsAreSpaced
<1> QED
  BY <1>4, <1>5 DEF LimiterIInv

LEMMA ResetKeeps ==
    ASSUME Limiter!LimiterAssumption, LimiterIInv, Limiter!resetLimiter
    PROVE  LimiterIInv'
<1>0. LoginTypes /\ FirstLimits /\ Bounded(byIP)
  BY DEF LimiterIInv
<1>1. /\ reset /\ reset' = FALSE /\ byIP' = Limiter!Nobody /\ global' = Limiter!Fresh
      /\ log' = Limiter!Unlogged /\ clock' = clock /\ cfg' = cfg /\ login' = login /\ patches' = patches
  BY DEF Limiter!resetLimiter
<1>2. patches' # 0
  BY <1>0, <1>1 DEF FirstLimits
<1>3. /\ global' \in Counter /\ global'.cool = 0 /\ global'.attempts = 0
      /\ byIP' \in [Ip -> Counter \cup {None}] /\ \A i \in Ip : byIP'[i] = None
  BY <1>1 DEF Limiter!Fresh, Limiter!Nobody, Counter, Limiter!Counter
<1>4. cfg \in Configs /\ cfg.overall \in Nat \ {0}
  BY <1>0, LimiterFacts DEF LoginTypes
<1>5. global'.attempts < cfg.overall
  BY <1>3, <1>4
<1>6. reset' \in BOOLEAN /\ log' \in [Ip \cup {None} -> Seq(Entry)]
  BY <1>1, UnloggedTypes
<1>7. LoginTypes'
  BY <1>0, <1>1, <1>3, <1>4, <1>5, <1>6 DEF LoginTypes
<1>8. FirstLimits' /\ AttemptsAreSpaced' /\ Bounded(byIP')
  BY <1>0, <1>1, <1>2, BoundedNobody DEF FirstLimits, AttemptsAreSpaced
<1> QED
  BY <1>7, <1>8 DEF LimiterIInv


\* Nothing was attempted yet.
LEMMA GoodEmpty ==
    ASSUME NEW limit \in Nat \ {0}, NEW wait, NEW time
    PROVE  Good(<<>>, limit, wait, Closed, time)
<1>1. Len(<<>>) = 0 /\ 1..0 = {}
  OBVIOUS
<1>2. Closed.attempts = 0 /\ Closed.ends = 0 /\ Closed.cool = 0
  BY DEF Closed
<1>3. Known(<<>>, wait, time) /\ Served(<<>>, Closed, time) /\ Spaced(<<>>, limit)
  BY <1>1 DEF Known, Served, Spaced
<1>4. Counts(<<>>, limit, Closed, time)
  <2>1. 1..(Len(<<>>) - Closed.attempts) = {}
    BY <1>1, <1>2
  <2> QED
    BY <1>1, <1>2, <2>1 DEF Counts
<1> QED
  BY <1>3, <1>4 DEF Good

LEMMA LimiterInit ==
    ASSUME Limiter!LimiterAssumption, Limiter!Init
    PROVE  LimiterIInv
<1>1. /\ clock = 1 /\ cfg \in Configs /\ byIP = Limiter!Nobody /\ global = Limiter!Fresh
      /\ login = [l \in Login |-> Limiter!NoLogin] /\ reset = FALSE /\ patches = 0
      /\ log = Limiter!Unlogged
  BY DEF Limiter!Init
<1>2. /\ global = Closed /\ global \in Counter /\ global.cool = 0 /\ global.attempts = 0
      /\ byIP \in [Ip -> Counter \cup {None}] /\ \A i \in Ip : byIP[i] = None
  BY <1>1 DEF Limiter!Fresh, Limiter!Nobody, Counter, Limiter!Counter, Closed
<1>3. cfg.overall \in Nat \ {0}
  BY <1>1, LimiterFacts
<1>4. global.attempts < cfg.overall
  BY <1>2, <1>3
<1>5. DOMAIN login = Login /\ \A l \in Login : login[l].pc # "allow"
  BY <1>1 DEF Limiter!NoLogin
<1>6. reset \in BOOLEAN /\ log \in [Ip \cup {None} -> Seq(Entry)]
  BY <1>1, UnloggedTypes
<1>7. LoginTypes
  BY <1>1, <1>2, <1>4, <1>5, <1>6 DEF LoginTypes
<1>8. FirstLimits
  BY <1>1, <1>5 DEF FirstLimits
<1>9. AttemptsAreSpaced
  <2> SUFFICES ASSUME NEW x \in Ip \cup {None}
               PROVE  Good(log[x], LimitOf(cfg, x), cfg.cool, Cur(byIP, global, x), clock)
    BY DEF AttemptsAreSpaced
  <2>1. log[x] = <<>>
    BY <1>1, UnloggedTypes
  <2>2. Cur(byIP, global, x) = Closed
    <3>1. Cooling(0) = Closed
      BY DEF Cooling, Closed
    <3> QED
      BY <1>2, <3>1 DEF Cur
  <2>3. LimitOf(cfg, x) \in Nat \ {0}
    BY <1>1, LimitTypes
  <2> QED
    BY <2>1, <2>2, <2>3, GoodEmpty
<1>10. Bounded(byIP)
  <2>1. Limiter!KnownIn(byIP) = {}
    BY <1>2 DEF Limiter!KnownIn
  <2>2. Cardinality(Limiter!KnownIn(byIP)) <= cfg.overall
    BY <1>3, <2>1, FS_EmptySet
  <2> QED
    BY <1>1, <2>2 DEF Bounded
<1> QED
  BY <1>7, <1>8, <1>9, <1>10 DEF LimiterIInv

LEMMA LimiterNext ==
    ASSUME Limiter!LimiterAssumption, LimiterIInv, [Limiter!Next]_(Limiter!vars)
    PROVE  LimiterIInv'
<1>1. ASSUME NEW l \in Login, Limiter!allow(l)
      PROVE  LimiterIInv'
  BY <1>1, AllowTypes, AllowGood DEF LimiterIInv
<1>2. CASE UNCHANGED Limiter!vars
  <2>1. /\ clock' = clock /\ cfg' = cfg /\ byIP' = byIP /\ global' = global /\ login' = login
        /\ reset' = reset /\ patches' = patches /\ log' = log
    BY <1>2 DEF Limiter!vars
  <2> QED
    BY <2>1 DEF LimiterIInv, LoginTypes, FirstLimits, AttemptsAreSpaced
<1>3. CASE Limiter!tick
  BY <1>3, TickKeeps
<1>4. CASE Limiter!cleanup
  BY <1>4, CleanupKeeps
<1>5. CASE Limiter!resetLimiter
  BY <1>5, ResetKeeps
<1>6. ASSUME NEW c \in Configs, Limiter!updateConfig(c)
      PROVE  LimiterIInv'
  BY <1>6, PatchKeeps
<1>7. ASSUME NEW l \in Login, NEW ip \in Ip, Limiter!handleAuthLogin(l, ip)
      PROVE  LimiterIInv'
  BY <1>7, BeginKeeps
<1>8. ASSUME NEW l \in Login, Limiter!rejectCooling(l) \/ Limiter!rejectFull(l)
      PROVE  LimiterIInv'
  BY <1>8, RejectCoolingKeeps, RejectFullKeeps
<1> QED
  BY <1>1, <1>2, <1>3, <1>4, <1>5, <1>6, <1>7, <1>8 DEF Limiter!Next

\* Between an attempt and the one that makes twice the limit with it lies a whole
\* window, or the end of one that was used up.
LEMMA SpacedIsBounded ==
    ASSUME Limiter!LimiterAssumption, NEW lg \in Seq(Entry), NEW limit \in Nat \ {0}, Spaced(lg, limit),
           NEW a \in 1..Len(lg), NEW b \in 1..Len(lg), b >= a + 2 * limit - 1
    PROVE  lg[b].at + 2 * Skew >= lg[a].at + Window
<1> DEFINE n == lg[b].n
           e == b - n
           k == lg[e].n
<1>1. n \in 1..limit /\ n <= b /\ Len(lg) \in Nat
  BY DEF Spaced
<1>2. /\ \A p \in 1..e : Over(lg, limit, e, p) => lg[b].at + 2 * Skew >= lg[p].at + Window
  BY DEF Spaced
<1> HIDE DEF n
<1>3. e \in 1..Len(lg) /\ e >= a + limit - 1 /\ a <= e
  BY <1>1
<1> HIDE DEF e
<1>4. k \in 1..limit
  BY <1>3 DEF Spaced
<1> HIDE DEF k
<1>5. a <= e - k \/ k = limit
  BY <1>3, <1>4
<1>6. Over(lg, limit, e, a)
  BY <1>5 DEF Over, k
<1> QED
  BY <1>2, <1>3, <1>6

LEMMA LimiterImplies ==
    ASSUME Limiter!LimiterAssumption, LimiterIInv
    PROVE  LimiterInv
<1>0. LoginTypes /\ AttemptsAreSpaced /\ Bounded(byIP)
  BY DEF LimiterIInv
<1>1. Limiter!TypeOK
  <2>1. \A i \in Limiter!KnownIn(byIP) : byIP[i].attempts # 0
    BY <1>0 DEF LoginTypes, Limiter!KnownIn
  <2>2. global.cool # 0 => byIP = Limiter!Nobody /\ global.attempts = 0
    BY <1>0 DEF LoginTypes, Cooling
  <2> QED
    BY <1>0, <2>1, <2>2 DEF LoginTypes, Limiter!TypeOK, Counter
<1>2. Limiter!MapIsBounded
  BY <1>0, SameCardinality DEF Bounded, Limiter!MapIsBounded
<1>3. cfg \in Configs /\ log \in [Ip \cup {None} -> Seq(Entry)]
  BY <1>0 DEF LoginTypes
<1>4. Limiter!RateIsBounded
  <2> SUFFICES ASSUME patches = 0, cfg.cool >= Window, NEW x \in Ip \cup {None},
                      NEW a \in 1..Len(log[x]), NEW b \in 1..Len(log[x]), b >= a + 2 * LimitOf(cfg, x) - 1
               PROVE  log[x][b].at + 2 * Skew >= log[x][a].at + Window
    BY DEF Limiter!RateIsBounded, Limiter!Limit, LimitOf
  <2>1. Spaced(log[x], LimitOf(cfg, x))
    BY <1>0 DEF AttemptsAreSpaced, Good
  <2>2. LimitOf(cfg, x) \in Nat \ {0} /\ log[x] \in Seq(Entry)
    BY <1>3, LimitTypes
  <2> QED
    BY <2>1, <2>2, SpacedIsBounded
<1>5. Limiter!CooldownIsServed
  BY <1>0 DEF AttemptsAreSpaced, Good, Served, Limiter!CooldownIsServed
<1> QED
  BY <1>1, <1>2, <1>4, <1>5 DEF LimiterInv

\* Whatever logins overlap, at whatever limits: the map of addresses never outgrows
\* the largest limit that was in force, twice a limit of attempts takes a window, and
\* no cooldown is cut short (loginLimiter.allow, startGlobalCooldown, cleanup).
THEOREM LimitsAreKept == Limiter!Spec => []LimiterInv
<1>1. Limiter!Init => LimiterIInv
  BY LimiterConstants, LimiterInit
<1>2. LimiterIInv /\ [Limiter!Next]_(Limiter!vars) => LimiterIInv'
  BY LimiterConstants, LimiterNext
<1>3. LimiterIInv => LimiterInv
  BY LimiterConstants, LimiterImplies
<1> QED
  BY <1>1, <1>2, <1>3, PTL DEF Limiter!Spec
=============================================================================
