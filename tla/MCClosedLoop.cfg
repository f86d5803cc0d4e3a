SPECIFICATION LoopSpec
CONSTANTS
  Prompts = {"r1", "r2", "r3", "r4"}
  Batch <- MCBatch
  Workers = {"w1", "w2", "w3"}
  Answers = {"full", "bare", "silent", "http", "exception"}
INVARIANTS
  EachPromptOnce 
PROPERTIES
  LoopEnds
CHECK_DEADLOCK FALSE
