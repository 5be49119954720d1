SPECIFICATION Spec
CONSTANTS
  NotText = NotText
  Requests <- AnyRequest
  MaxRequests = 2
  Rank <- TextRank
  Hashes = {"h1", "h2"}
INVARIANTS
  FingerprintNamesWork
  SameRunSameBytes
CHECK_DEADLOCK FALSE
