SPECIFICATION Spec
CONSTANTS
  Users = {"u1", "u2"}
  Groups = {"g1", "g2"}
  GroupsPerUser = 1
  Samples <- MCSamples
  AclChoices <- MCAclChoices
  Configs <- MCConfigs
  HotPoolSize = 2
  QuestionPoolSize = 2
  FillSample = 4
  NoRequest = NoRequest
  MaxPrepared = 2
INVARIANTS
  AlreadyAuthorized RequestsAreFull OnlyMismatchRaises
CHECK_DEADLOCK FALSE
