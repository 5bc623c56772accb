SPECIFICATION Spec
CONSTANTS
  Evidence = {e1, e2, e3}
  Orders = {o1, o2}
  RefundIds = {f1, f2}
  Times = {1, 2, 3}
  Reported <- MCReported
  Readers = {g1}
  None = None
SYMMETRY Symmetry
CHECK_DEADLOCK FALSE
INVARIANTS
  Converges
  HistoryChains
  RefundsAgree
  OccurredIsEarliest
  DetailExplained
PROPERTIES
  NeverBackwards
