SPECIFICATION Spec
CONSTANTS
  Users <- MCUsers
  Groups <- MCGroups
  Membership <- MCMembership
  BlockSize = 2
  Settings <- MCSettings
  Requests <- MCRequests
  Modes <- MCModes
INVARIANTS
  RecordedAudienceExact SharingIsAuthorized ScopingIsFree FinerScopesShareMore ReplayFindsNothing
CHECK_DEADLOCK FALSE
