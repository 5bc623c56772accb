SPECIFICATION Spec
CONSTANTS
  user = user
  admin = admin
  Sessions = {s1, s2}
  Users <- MCUsers
  Actors <- MCActors
  Applications = {x1, x2}
  Keys = {k1, k2}
  None = None
SYMMETRY Symmetry
INVARIANTS
  ProfileAgrees
  DecisionsStand
  NotOvertaken
