SPECIFICATION Spec
CONSTANTS
  Callers = {c1, c2, c3}
  Keys = {k1}
  Bodies = {b1, b2}
  Values = {v1, v2}
  None = None
SYMMETRY Symmetry
INVARIANTS
  AnswersAreTrue
