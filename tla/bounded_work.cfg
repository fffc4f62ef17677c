SPECIFICATION MCSpec
CONSTANTS
  a = a
  b = b
  c = c
  z = z
  Nodes = {a, b, c, z}
  Graphs <- MCGraphs
  MaxVisits = 2
  MaxTransitions = 4
  MaxModelRoutes = 1
  MaxPhysical = 2
  MaxRetained = 2
  Sizes = {1, 2}
  Runs = {r1}
  Ops = {stop}
  MaxEvents = 3
  MaxDeltas = 1
  MaxCrashes = 1
  t1 = t1  t2 = t2
  Tasks = {t1, t2}
  Scenes <- MotionDeployments
  Plans = {p1, p2}
  Decisions = {d1, d2, d3}
  MaxReviews = 2
  Nothing = nothing
CHECK_DEADLOCK FALSE
INVARIANTS
  PhysicalOnce
  MotionIsAccounted
  ProtectedOnce
  StreamsEndWithTheRun
  HistoryAgrees
  ApprovalIsSpentOnce
  ReportsAreTruthful
PROPERTIES
  WorkEnds
