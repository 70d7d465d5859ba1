----------------------------- MODULE MCAccounts -----------------------------
(***************************************************************************)
(* Accounts on small instances (part), which differ in the requests that   *)
(* occur; "patch" is there for the configuration that shows what two       *)
(* requests of this kind do to each other.                                 *)
(***************************************************************************)
EXTENDS Accounts, TLC

CONSTANT Parts

VARIABLE part

\* Registrations and deletions, also of oneself: who is an administrator.
Roles == INSTANCE Accounts WITH Ops <- {"register", "delete", "self"}, RoleAsks <- {"keep"},
    StatusAsks <- {"keep"}, NewAssets <- {}, MaxFail <- 1

\* A name given to a new account while requests about the old one are under way.
Names == INSTANCE Accounts WITH Ops <- {"register", "delete", "patch", "create"},
    RoleAsks <- {"keep"}, StatusAsks <- {"disabled"}, NewAssets <- {"cron"}, MaxFail <- 0

\* What a user asked for before his deletion began arrives during it.
Cleaning == INSTANCE Accounts WITH Ops <- {"delete", "create", "scan"}, RoleAsks <- {"keep"},
    StatusAsks <- {"keep"}, NewAssets <- {"queue", "cron"}, MaxFail <- 1

PartInit == part \in Parts /\ Init

PartNext ==
    /\ \/ part = "roles" /\ Roles!Next
       \/ part = "names" /\ Names!Next
       \/ part = "cleaning" /\ Cleaning!Next
       \/ part = "patch" /\ Next
    /\ UNCHANGED part

PartSpec == PartInit /\ [][PartNext]_<<part, vars>>

Symmetry == Permutations(Id) \cup Permutations(Name) \cup Permutations(Req)
=============================================================================
