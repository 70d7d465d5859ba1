---------------------------- MODULE MCClamAVPower ----------------------------
(***************************************************************************)
(* clamd with its timer disabled or enabled, and cron rules with and       *)
(* without --wake.                                                         *)
(***************************************************************************)
EXTENDS ClamAVPower

=============================================================================
