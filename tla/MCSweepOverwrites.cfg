SPECIFICATION Spec
CONSTANTS
  NoLaunch = NoLaunch
  Workloads <- MCWorkloads
  Policies <- MCPolicies
  Combos <- MCCombos
  Versions = {v1, v2}
  Torn = Torn
  Unread = Unread
  MaxGenerated = 1
  Campaigns <- MCCampaigns
  MaxLaunches = 2
INVARIANTS
  OnlyForceOverwrites
CHECK_DEADLOCK FALSE
