-------------------------- MODULE MCPositionSteps --------------------------
(* PositionSteps: two positions, two clients whose transactions meet.      *)
EXTENDS PositionSteps, TLC

Symmetry == Permutations(Ids) \cup Permutations(Editors) \cup Permutations(Keys)
=============================================================================
