SPECIFICATION Spec
CONSTANTS
  NumBlocks = 5
  BlockSize = 4
  MaxConcurrency = 1
  Users <- MCUsers
  Groups <- MCGroups
  Membership <- MCMembership
  Setting <- MCSetting
  Caching = "acl_scope"
  Requests <- MCRequests
  Replays <- MCReplays
  Output = 1
  Prompts <- RagPrompts
  PromptHash <- RagPromptHash
  NoReq = NoReq
INVARIANTS
  NoUnauthorizedHit AuditTruthful
