------------------------------ MODULE MC_Claims ------------------------------
(* Small instances of Claims for TLC. *)
EXTENDS ClaimsInvariant, TLC

\* Names, goroutines and requests are interchangeable. (Not used under fairness.)
Symmetric == Permutations(Names) \cup Permutations(Workers) \cup Permutations(Triggers)
=============================================================================
