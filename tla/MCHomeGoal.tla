------------------------------ MODULE MCHomeGoal ------------------------------
(* Two slots and two calls: the model values of the home goal's runs. *)
EXTENDS HomeGoal, TLC

CONSTANTS s1, s2, c1, c2

MCSlot == {s1, s2}
MCCall == {c1, c2}
Symmetric == Permutations(MCSlot) \cup Permutations(MCCall)
=============================================================================
