---------------------------- MODULE Authentication ---------------------------
(***************************************************************************)
(* Who may use the server: sessions and passwords, and the limits on login *)
(* attempts.  handleAuthLogin asks the limiter before it looks at the      *)
(* account and never comes back to it, so the two share no state.          *)
(***************************************************************************)
EXTENDS Sessions

CONSTANTS Ip, Login, Configs, Window, LastTime, MaxPatch, Skew

VARIABLES clock, cfg, byIP, global, login, reset, patches, log

Limiter == INSTANCE LoginLimiter WITH MaxTime <- LastTime

ASSUME LimiterConstants == Limiter!LimiterAssumption

-----------------------------------------------------------------------------
(* Properties.                                                             *)

\* The counters of the limiter stay below the limits in force, the map of addresses
\* never outgrows the largest of them, twice a limit of attempts takes a window, and
\* an address that used up its attempts is not served before its cooldown ends, nor
\* anybody before the cooldown of all (loginLimiter.allow, cleanup).
LimiterInv ==
    /\ Limiter!TypeOK /\ Limiter!MapIsBounded
    /\ Limiter!RateIsBounded /\ Limiter!CooldownIsServed
=============================================================================
