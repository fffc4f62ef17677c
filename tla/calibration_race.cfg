SPECIFICATION Spec
CONSTANTS
  Handlers = {h1, h2}
  Requests = {r1, r2}
  MaxActivations = 2
  MaxRefinements = 0
  MaxStamp = 5
  MaxCamera = 1
  Deployments <- MCRace
  None = none
CHECK_DEADLOCK FALSE
INVARIANTS
  OnlyOneRemainsActive
