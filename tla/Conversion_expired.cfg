SPECIFICATION Spec
CONSTANTS
  Requests = {r1}
  Workers = {w1, w2}
  good = good
  bad = bad
  None = None
  Links <- MCLinks
  SafeLinks <- MCSafeLinks
INVARIANTS
  ExpiredNeverRecovered
