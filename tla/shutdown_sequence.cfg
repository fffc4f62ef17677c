SPECIFICATION FairSpec
CONSTANTS
  basic = basic
  integrated = integrated
  other = other
  Providers = {basic, integrated, other}
  BasicArm = {basic}
  NamedIntegrated = {integrated}
  ReportMotion = {}
  Moving = {integrated}
  WithoutSafePath = {}
  ForceKilled = {integrated, other}
  Deployments <- MCDeployments
  Handlers = {h1}
  Requests = {r1, r2}
  MaxPlans = 1
  MaxExecutions = 2
  None = none
CHECK_DEADLOCK FALSE
INVARIANTS
  BasicStopsLast
  
PROPERTIES
  EveryExecutionEnds
