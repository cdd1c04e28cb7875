----------------------------- MODULE MCAccounts -----------------------------
(* Accounts with connections that are alike, as logins and passwords are.  *)
EXTENDS Accounts, TLC

Symmetry ==
    Permutations(Connections) \cup Permutations(Logins) \cup Permutations(Passwords)

=============================================================================
