SPECIFICATION MCSpec
CONSTANTS
  None = none
  Handlers = {h1, h2}
  MaxSpawns = 2
  Deployments = {{}, {"no forced stop", "soft kill", "wait fails"}, {"restart", "wait fails"}, {"overlap"}}
  Overlapping = {"stop"}
  Configured = {arm, camera, scene}
  Unknown = {typo}
  MaxDependencies = 2
  Authorities = {a, b}
  Times = {1, 2, 3}
  Limits = {0, 1}
  TransformHistoryPerEdge = 2
  Publishers = {p1, p2}
  Queries = {h1}
  MaxAccepted = 3
CHECK_DEADLOCK FALSE
INVARIANTS
  SingleInstance
  TrackedIsTruthful
  OrderIsResolved
PROPERTIES
  DeathIsNoticed
  BracketIsServed
  RequestsAreAnswered
