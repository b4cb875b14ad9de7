------------------------------ MODULE MCAccounts ------------------------------
(* Instances of Accounts for TLC.                                           *)
EXTENDS Accounts, TLC

Symmetry == Permutations(Accounts) \cup Permutations(Passwords)

(* Logins, unlocks, switches and submits happen twice, the rest once.       *)
Few == [o \in Limited |->
          IF o \in {"login", "unlock", "submit", "switch"} THEN 2 ELSE 1]

(* Every property makes an exception of a restore or a reset next to a     *)
(* login: what follows one is not explored.                                *)
InOrder == ~behind
=============================================================================
