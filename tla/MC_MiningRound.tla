---------------------------- MODULE MC_MiningRound -----------------------------
(* Small instances of MiningRound: requests are model values. *)
EXTENDS MiningRound, TLC

\* Requests of a kind are interchangeable; used where only safety is checked.
Symmetry == Permutations(Inits) \cup Permutations(Stops)
================================================================================
