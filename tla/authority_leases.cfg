SPECIFICATION FairSpec
CONSTANTS
  o1 = o1
  l1 = l1  l2 = l2
  h1 = h1  h2 = h2
  Segments = {"arm", "gripper", "wrist"}
  Resources <- MCTree
  Owners = {o1}
  LeaseIds = {l1, l2}
  Handlers = {h1, h2}
  Durations = {1, 2}
  MaxClock = 2
  None = none
CHECK_DEADLOCK FALSE
INVARIANTS
  ExclusiveScopes
  CurrentGeneration
PROPERTIES
  EndedLeasesStayEnded
  ImplementsGrants
  AbandonedScopesAreFreed
