SPECIFICATION Spec
CONSTANTS
  p1 = p1
  p2 = p2
  h1 = h1
  h2 = h2
  Plans = {p1, p2}
  Handlers = {h1, h2}
  Deployments <- MCDeployments
  None = None
INVARIANTS  RecoveryIsIdle
PROPERTIES InstalledOnce InhibitStops RequestsAnswered
CHECK_DEADLOCK FALSE
