-------------------------- MODULE MCEffectJournal --------------------------
(* EffectJournal for TLC: every intent is of the same run and lifetime. *)
EXTENDS EffectJournal, TLC

OneScope == [i \in Id |-> "run"]

(* No definition picks an element of these sets. *)
Symmetry == Permutations(Id) \cup Permutations(Request) \cup Permutations(Mark)
=============================================================================
