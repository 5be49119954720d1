SPECIFICATION Spec
CONSTANTS
  p = p
  a = a
  b = b
  None = None
  NoKey = NoKey
  Threads = {a, b}
  Processes = {a, b}
  ProcessOf <- ProcessPerThread
  N = 2
  IdemKeys = {"k"}
  ForeignKeys = {}
  InterruptPoints = {0, 1, 2}
  Barriers = {"none"}
  MaxCalls = 4
  MaxFaults = 2
INVARIANTS
  TypeOK
  SoleExecutor
  CommitOrder
  ClosedRunIsCovered
  OneAttemptRowPerKey
  BoundKeyLoads
PROPERTIES
  LedgerOnlyGrows
  NoRegression
  ClosedStaysClosed
  CommittedNotReprocessed
CONSTRAINT FewCallsOvertake
SYMMETRY Symmetry
CHECK_DEADLOCK FALSE
