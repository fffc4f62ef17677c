SPECIFICATION Spec
CONSTANTS
  Groups = {"arm", "gripper"}
  Handlers = {h1, h2}
  Deployments <- MCEmbrace
  MaxGeneration = 2
  None = none
CHECK_DEADLOCK FALSE
INVARIANTS
  IngressNeverWaitsForLoop
