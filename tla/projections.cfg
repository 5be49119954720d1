SPECIFICATION Spec
CONSTANTS
  w1 = w1
  w2 = w2
  w3 = w3
  i1 = i1
  i2 = i2
  c1 = c1
  c2 = c2
  Nobody = Nobody
  Workers = {w1, w2, w3}
  Identities = {i1, i2}
  Contents = {c1, c2}
  MaxCalls = 3
  MaxFaults = 2
INVARIANTS
  TypeOK
  VisibilityUnit
  AnswerIsPublished
  ReadyIsSeen
  OnlyFaultsFail
PROPERTIES
  StaysPublished
SYMMETRY Symmetry
CHECK_DEADLOCK FALSE
