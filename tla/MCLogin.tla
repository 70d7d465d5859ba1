------------------------------ MODULE MCLogin -------------------------------
(***************************************************************************)
(* Sessions and the login limiter on a small instance.  In each behaviour  *)
(* one of them runs, within the bounds of its part.                        *)
(***************************************************************************)
EXTENDS Authentication, TLC

CONSTANTS s1, s2, r1, r2, a1, a2, a3, a4

VARIABLE part

\* Four addresses; generous limits, whose cooldown is longer than a window, and
\* the smallest ones.
Generous == [max |-> 2, overall |-> 3, cool |-> 4]
Smallest == [max |-> 1, overall |-> 1, cool |-> 1]
Limits == {Generous, Smallest}

Symmetry == Permutations(Req) \cup Permutations({a1, a2}) \cup Permutations({a3, a4})

-----------------------------------------------------------------------------
(* The parts: bounds on the state a step leads to.                         *)

\* One session that grows old while requests overlap, its password unchanged; or
\* two sessions of one moment, whose user and administrator change the password.
OneSession ==
    /\ row'[s2] = None /\ lastHash' = 1
    /\ \A r \in Req : h'[r].pc # "passwordVerify"
OneMoment == now' = 0

Asked == {l \in Login : login'[l].pc # "idle"}

\* Two addresses and overlapping logins; or the limits are changed while addresses
\* are remembered.
Overlapping ==
    /\ patches' = 0 /\ cfg' = Generous
    /\ \A l \in Asked : login'[l].ip \in {a1, a2}
Changing == clock' <= 5 /\ Cardinality(Asked) <= 1 /\ \A l \in Asked : login'[l].now = clock'

limiterVars == <<clock, cfg, byIP, global, login, reset, patches, log>>

LoginInit ==
    /\ part \in {"sessions", "revocation", "limiter", "changing"}
    /\ Init /\ Limiter!Init
    /\ part # "changing" => cfg = Generous

LoginNext ==
    \/ /\ \/ part = "sessions" /\ Next /\ OneSession
          \/ part = "revocation" /\ Next /\ OneMoment
       /\ UNCHANGED <<part, limiterVars>>
    \/ /\ \/ part = "limiter" /\ Limiter!Next /\ Overlapping
          \/ part = "changing" /\ Limiter!Next /\ Changing
       /\ UNCHANGED <<part, vars>>

LoginSpec == LoginInit /\ [][LoginNext]_<<part, vars, limiterVars>>
=============================================================================
