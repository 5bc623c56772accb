SPECIFICATION StepSpec
CONSTANTS
  Ids = {p1, p2}
  Editors = {g1, g2}
  Keys = {k1, k2}
  Contents = {c1}
  Externals = {x1}
  MaxReceipts = 3
  None = None
SYMMETRY Symmetry
INVARIANTS
  OneDefault
  AnswersItsCommand
  ReceiptsAreHistory
PROPERTIES
  SavedWhatWasSeen
  CommandsAreAtomic
