SPECIFICATION Spec
CONSTANTS
  basic = basic
  integrated = integrated
  other = other
  Providers = {basic, integrated, other}
  BasicArm = {basic}
  NamedIntegrated = {integrated}
  ReportMotion = {}
  Moving = {integrated, other}
  WithoutSafePath = {}
  ForceKilled = {integrated, other}
  Deployments <- MCPlainOnly
  Handlers = {h1}
  Requests = {r1, r2}
  MaxPlans = 1
  MaxExecutions = 2
  None = none
CHECK_DEADLOCK FALSE
INVARIANTS
  MotionRelinquishedFirst
