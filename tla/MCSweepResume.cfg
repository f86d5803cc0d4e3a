SPECIFICATION Spec
CONSTANTS
  NoLaunch = NoLaunch
  Workloads <- MCWorkloads
  Policies <- MCPolicies
  Combos <- MCCombos
  Versions = {v1, v2}
  Torn = Torn
  Unread = Unread
  MaxGenerated = 2
  Campaigns <- MCCampaigns
  MaxLaunches = 4
INVARIANTS
  EndedRunIsComplete PoliciesComparable 
PROPERTIES
  ResumeKeepsRows
CHECK_DEADLOCK FALSE
