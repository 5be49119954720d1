SPECIFICATION Spec
CONSTANTS
  w1 = w1
  w2 = w2
  o1 = o1
  o2 = o2
  o3 = o3
  Nobody = Nobody
  Workers = {w1}
  Versions = {"v1", "v2"}
  Entries = {"a"}
  Hashes = {"h"}
  Corpora <- Fixed
  Ops = {o1}
  MaxCalls = 1
  MaxSeeds = 2
  MaxFaults = 0
INVARIANT HistoryAppendOnly
CHECK_DEADLOCK FALSE
