SPECIFICATION FairSpec
CONSTANTS
  Groups = {"arm", "gripper"}
  Handlers = {h1, h2}
  Deployments <- MCDeployments
  MaxGeneration = 2
  None = none
CHECK_DEADLOCK FALSE
INVARIANTS
  OwnersExclude
  CommandsAreHeld
PROPERTIES
  HomedAlone
  
