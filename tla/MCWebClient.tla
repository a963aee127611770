----------------------------- MODULE MCWebClient -----------------------------
(***************************************************************************)
(* One page with a few calls under way; the slots are interchangeable.     *)
(***************************************************************************)
EXTENDS WebClient, TLC

Symmetry == Permutations(Slot)
=============================================================================
