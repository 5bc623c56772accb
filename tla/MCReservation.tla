--------------------------- MODULE MCReservation ---------------------------
(* Reservation with one promoter and one or two positions.                 *)
EXTENDS Reservation, TLC

CONSTANT p1

OnePosition == [v \in Previews |-> p1]

Symmetry ==
  Permutations(Sessions) \cup Permutations(Accounts) \cup Permutations(Keys)
    \cup Permutations(Previews)
=============================================================================
