---------------------------- MODULE MC_Renewal ----------------------------
(* Small instances of Renewal for TLC. *)
EXTENDS RenewalInvariant, TLC

Ab == [ids |-> "ab", deploy |-> TRUE]
AbcLocal == [ids |-> "abc", deploy |-> FALSE]
OneConfig == {Ab}
TwoConfigs == {Ab, AbcLocal}

Symmetry == Permutations(Ids) \cup Permutations(Listeners)
=============================================================================
