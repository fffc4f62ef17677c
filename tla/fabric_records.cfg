SPECIFICATION MCSpec
CONSTANTS
  o1 = o1
  l1 = l1  l2 = l2
  h1 = h1  h2 = h2
  Sweeper = sweeper
  None = none
  Segments = {"arm", "gripper"}
  Resources <- MCResources
  Owners = {o1}
  LeaseIds = {l1, l2}
  Handlers = {h1, h2}
  Durations = {1}
  MaxClock = 1
  MaxStamp = 2
  calibration = calibration
  vio = vio
  Authorities = {calibration, vio}
  Publishes <- MCPublishes
  HistoryPerStream = 2
  TransformHistoryPerEdge = 2
  MaxSent = 3
  MaxBoot = 2
  MaxAccepted = 4
  Slots = 2
  MaxFrames = 5
  MaxBoots = 2
  Requests = {r1, r2}
  MaxActivations = 2
  MaxRefinements = 1
  MaxPosts = 5
  MaxCamera = 2
SYMMETRY MCSymmetry
CHECK_DEADLOCK FALSE
INVARIANTS
  
  AnswersAreCurrent
  NoTornFrame
  ActivationsAreSingle
PROPERTIES
  EndedStaysEnded
