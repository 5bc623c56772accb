--------------------------- MODULE MCMembership ---------------------------
(* Membership with one user, who is one of two administrators as well.     *)
EXTENDS Membership, TLC

CONSTANTS user, admin

MCUsers  == {user}
MCActors == {user, admin}

Symmetry == Permutations(Sessions) \cup Permutations(Applications) \cup Permutations(Keys)
=============================================================================
