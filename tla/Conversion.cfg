SPECIFICATION FairSpec
CONSTANTS
  Requests = {r1}
  Workers = {w1, w2}
  good = good
  bad = bad
  None = None
  Links <- MCLinks
  SafeLinks <- MCSafeLinks
INVARIANTS
  AtMostOneCreate
  OutcomeIsChannels
PROPERTIES
  LeaseProtectsClaim
  KeepsPromise
  DecidedIsSettled
