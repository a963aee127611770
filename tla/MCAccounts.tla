----------------------------- MODULE MCAccounts -----------------------------
(***************************************************************************)
(* Two pages of one browser, two accounts, two addresses.                  *)
(***************************************************************************)
EXTENDS Accounts, TLC

Symmetry == Permutations(Page) \cup Permutations(Client)
=============================================================================
