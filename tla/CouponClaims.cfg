SPECIFICATION FairSpec
CONSTANTS
  Sessions = {s1, s2}
  Keys = {k1}
  Coupons = {c1, c2}
  good = good
  bad = bad
  None = None
  Receipts <- MCReceipts
  Usable <- MCUsable
INVARIANTS
  AskedOnce
  OutcomeIsChannels
  ToldIsStored
PROPERTIES
  KeepsPromise
  DecidedIsSettled
