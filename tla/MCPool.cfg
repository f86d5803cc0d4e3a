SPECIFICATION Spec
CONSTANTS
  NumBlocks = 5
  BlockSize = 2
  MaxConcurrency = 2
  Users <- MCUsers
  PromptHash <- MCPromptHashBig
  Prompts <- MCPromptsBig
  NoReq = NoReq
INVARIANTS
  TypeOK RefCountExact FreeQueueExact TableSound HitsStayCached DuplicatesOnlyAtCap RejectOnlyOversize
PROPERTIES
  InUsePinned StallsOnlyWithoutRoom ImplementsPrefixCache CallsEnd
