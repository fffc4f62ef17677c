------------------------- MODULE MCIntegratedTransit -------------------------
(* Two plans, two requests at a time.                                       *)
EXTENDS IntegratedTransit, TLC

CONSTANTS p1, p2, h1, h2

Route(first, second) == p1 :> first @@ p2 :> second

Deployed(start, final, commits, asks, occurs) ==
  [residency |-> start, final |-> final, commits |-> commits, asks |-> asks, occurs |-> occurs]

MCDeployments ==
  { Deployed("HOT", Route("WAIT_FOR_NEXT", "FLOAT"), {h1, h2}, {}, {}),
    Deployed("HOT", Route("WAIT_FOR_NEXT", "FIXED"), {h1}, {"float", "release"}, {}),
    Deployed("WARM", Route("FIXED", "WAIT_FOR_NEXT"), {h1}, {"hot"}, {}),
    Deployed("HOT", Route("FIXED", "FLOAT"), {h1}, {"hot", "warm"}, {}),
    Deployed("HOT", Route("WAIT_FOR_NEXT", "FIXED"), {h1}, {"hot"}, {"loss"}),
    Deployed("HOT", Route("FIXED", "FIXED"), {h1}, {}, {"hold", "inhibit"}),
    Deployed("HOT", Route("FLOAT", "FIXED"), {}, {"float", "release"}, {"hold"}),
    Deployed("HOT", Route("FLOAT", "FIXED"), {h1}, {}, {"hold", "loss"}) }
=============================================================================
