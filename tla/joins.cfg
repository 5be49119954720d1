SPECIFICATION Spec
CONSTANTS
  N = 3
  Outcomes <- ThreeKeys
  MaxTrouble = 2
INVARIANTS
  PublishedAsWritten
PROPERTIES
  WrittenIsEligible
