SPECIFICATION Spec
CONSTANTS
  Sessions = {s1, s2}
  Readers = {r1}
  Evidence = {e1, e2, e3}
  Products = {p1}
  Offers <- MCOffers
  MaxTime = 2
  None = None
SYMMETRY Symmetry
INVARIANTS
  NewestVerificationStands
  AcceptedIsRecorded
  RevocationHolds
