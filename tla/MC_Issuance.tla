---------------------------- MODULE MC_Issuance ----------------------------
(* Small instances of Issuance for TLC. *)
EXTENDS Issuance, TLC
Symmetric == Permutations(Names)
=============================================================================
