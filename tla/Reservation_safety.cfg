SPECIFICATION Spec
CONSTANTS
  p1 = p1
  Sessions = {s1, s2}
  Positions = {p1}
  Previews = {v1, v2}
  PreviewPosition <- OnePosition
  Keys = {k1, k2}
  Accounts = {a1, a2}
  None = None
SYMMETRY Symmetry
INVARIANTS
  AnswersItsCall
  NoDeadlock
PROPERTIES
  StoredWhileEligible
  ClaimedWhileEligible
