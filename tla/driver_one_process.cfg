SPECIFICATION FairSpec
CONSTANTS
  p = p
  a = a
  b = b
  None = None
  NoKey = NoKey
  Threads = {a, b}
  Processes = {p}
  ProcessOf <- OneProcess
  N = 2
  IdemKeys = {"k", "f"}
  ForeignKeys = {"f"}
  InterruptPoints = {0, 1}
  Barriers = {"none", "before-write", "checkpoint-before-cursor"}
  MaxCalls = 3
  MaxFaults = 2
INVARIANTS
  NeverOvertaken
PROPERTIES
  ImplementsLedger
  EveryCallEnds
CHECK_DEADLOCK FALSE
