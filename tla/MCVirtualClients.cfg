SPECIFICATION Spec
CONSTANTS
  c1 = c1
  c2 = c2
  VCs = {c1, c2}
  ScenarioVCs = {c1}
  TimedVCs = {c2}
  RepeatVCs = {c2}
  MaxRetry <- MCMaxRetry
  Capacity = 1
  Verdicts = {"failure"}
  HasWarmup = TRUE
  MaxAttempts <- MCMaxAttempts
INVARIANTS
  ConnectedNeverOvercounts
  SummarySettled
PROPERTIES
  OneRowPerAttempt
  CancelStopsAll
