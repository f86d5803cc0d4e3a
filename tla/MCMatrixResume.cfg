SPECIFICATION Spec
CONSTANTS
  Budgets <- MCBudgets
  Cells <- MCCells
  Policies <- MCPolicies
  TrueB0 = TRUE
  Probe = TRUE
  MaxLaunches = 3
INVARIANTS
  MeasuredOnItsServer ExitZeroMeansComplete
PROPERTIES
  ResumeKeepsResults
CHECK_DEADLOCK FALSE
