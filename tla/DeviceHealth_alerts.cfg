SPECIFICATION Spec
CONSTANTS
  e1 = e1
  e2 = e2
  Usages = {69, 84, 94, 95}
  NoValue = NoValue
  LogCounts = {0, 1, 5}
  Evaluators = {e1, e2}
  Loads <- OneLoad
  LogStates <- OneCritical
  MaxChanges = 2
CHECK_DEADLOCK FALSE
INVARIANT HealthTypeOK
INVARIANT StatusAgrees
INVARIANT AnalysisAgrees
INVARIANT ScoreIsMonotone
INVARIANT OneOpenAlertPerRequest
PROPERTY AlertsSettle
