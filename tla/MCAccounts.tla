----------------------------- MODULE MCAccounts -----------------------------
(* Accounts for TLC. *)
EXTENDS Accounts, TLC

SessionSymmetry == Permutations(Sessions)

=============================================================================
