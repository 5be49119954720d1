SPECIFICATION Spec
CONSTANTS
  p = p
  v1 = v1
  e1 = e1
  Lexemes = {"red", "blue"}
  Raws = {"x", "y", "z", "u"}
  NoRaw = "noraw"
  Runs = {"r1", "r2"}
  Keys = {"k1", "k2"}
  Selection <- TwoRuns
  Catalogs <- AllCatalogs
  TwoProcesses = FALSE
  Bounds <- Either
  Reviewers = {v1}
  DecisionKeys = {"own", "d"}
  Evaluators = {e1}
  EvaluatorOf <- OneProcess
  FixedRuns = {"r1"}
INVARIANTS
  TypeOK
  ArtifactsExplainRow
  BlockedRowHasReview
  OneDecisionPerKey
  CandidateCoversRun
  CandidateIsReviewed
PROPERTIES
  ReviewsOnlyGrow
CHECK_DEADLOCK FALSE
