------------------------------ MODULE MCStorage ------------------------------
(***************************************************************************)
(* Three tools at work and two backup files, each of them interchangeable. *)
(***************************************************************************)
EXTENDS Storage, TLC

Symmetry == Permutations(Process) \cup Permutations(Backup)
=============================================================================
