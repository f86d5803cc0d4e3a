SPECIFICATION Spec
CONSTANTS
  Prompts = {"r1", "r2"}
  Batch <- MCBatch
  Workers = {w1, w2}
  Answers = {"full", "exception"}
  Policies <- MCPolicies
  WarmUp = 1
  MaxLost = 1
  MaxLaunches = 2
  NoFile = NoFile
  Missing = Missing
INVARIANTS
  CheckpointsWhole ExitZeroMeansRecorded ColdStart DeltaIsThisRun
SYMMETRY Crew
CHECK_DEADLOCK FALSE
