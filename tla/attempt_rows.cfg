SPECIFICATION Spec
CONSTANTS
  p = p
  a = a
  b = b
  None = None
  NoKey = NoKey
  Threads = {a, b}
  Processes = {p}
  ProcessOf <- OneProcess
  N = 2
  IdemKeys = {"k"}
  ForeignKeys = {}
  InterruptPoints = {0}
  Barriers = {"none"}
  MaxCalls = 2
  MaxFaults = 1
INVARIANT AttemptRowForEachKey
CHECK_DEADLOCK FALSE
