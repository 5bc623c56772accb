SPECIFICATION FairSpec
CONSTANTS
  p1 = p1
  Sessions = {s1, s2, s3}
  Positions = {p1}
  Previews = {v1}
  PreviewPosition <- OnePosition
  Keys = {k1}
  Accounts = {a1}
  None = None
PROPERTIES
  CallReturns
