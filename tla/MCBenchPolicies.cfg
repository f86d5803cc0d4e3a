SPECIFICATION Spec
CONSTANTS
  Prompts = {"r1", "r2"}
  Batch <- MCBatch
  Workers = {w1, w2}
  Answers = {"full", "exception"}
  Policies <- MCPolicies
  WarmUp = 1
  MaxLost = 0
  MaxLaunches = 1
  NoFile = NoFile
  Missing = Missing
INVARIANTS
  EveryPolicyRecorded
CHECK_DEADLOCK FALSE
