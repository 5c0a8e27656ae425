----------------------------- MODULE MCLifecycle -----------------------------
(* Instances of Lifecycle for TLC. *)
EXTENDS Lifecycle, TLC

LimitOne == [k \in Keys |-> 1]

ProcessSymmetry == Permutations(Workers) \cup Permutations(Tasks)
=============================================================================
