------------------------------ MODULE MCRecords ------------------------------
(* One service at a time, three callers, of two requests, under one key.   *)
EXTENDS Records, TLC

Symmetry == Permutations(Callers) \cup Permutations(Bodies) \cup Permutations(Values)
=============================================================================
