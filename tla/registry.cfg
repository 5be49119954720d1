SPECIFICATION QuietSpec
CONSTANTS
  w1 = w1
  w2 = w2
  o1 = o1
  o2 = o2
  o3 = o3
  Nobody = Nobody
  Workers = {w1, w2}
  Versions = {"v1", "v2"}
  Entries = {"a", "b"}
  Hashes = {"h"}
  Corpora <- Growing
  Ops = {o1, o2}
  MaxCalls = 3
  MaxSeeds = 2
  MaxFaults = 1
INVARIANTS
  TypeOK
  HistoryExplainsPointer
  AcknowledgedIsRecorded
  ApprovedStaysVerified
  OneEventPerOperation
PROPERTIES
  CompareAndSwap
  ImplementsRegister
SYMMETRY Symmetry
CHECK_DEADLOCK FALSE
