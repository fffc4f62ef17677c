SPECIFICATION CarrySpec
CONSTANTS
  Plans <- MCPlans
  Steps <- MCSteps
  Behaviour <- MCBehaviour
  CarryId <- MCCarryId
  Settings <- MCExpiring
  CommandLife = 2
  LeaseLife = 3
  MaxGeneration = 2
  Foreign = Foreign
  None = None
CHECK_DEADLOCK FALSE
INVARIANT CarryIsHeld
