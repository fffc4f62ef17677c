-------------------------- MODULE MCGripController --------------------------
(***************************************************************************)
(* Instances of the Contact and the Grip Provider on one arm: a plan that  *)
(* prepares a carry, one that continues it, and a plain one.               *)
(***************************************************************************)
EXTENDS GripController

MCPlans == {"prepare", "continue", "plain"}
MCSteps == [prepare |-> 2, continue |-> 1, plain |-> 1]
MCBehaviour == [prepare |-> "PREPARE", continue |-> "CONTINUE", plain |-> "NONE"]
MCCarryId == [prepare |-> "a", continue |-> "a", plain |-> None]

Setting(plans, runsGrip, fails, expires, timely) ==
  [plans |-> plans, grip |-> runsGrip, fails |-> fails, expires |-> expires, timely |-> timely]

\* Contact alone, first with nothing lost or late, then with more and more
\* of it; then both Providers.
MCSettings == {Setting(MCPlans, FALSE, FALSE, FALSE, TRUE),
               Setting(MCPlans, FALSE, FALSE, TRUE, FALSE),
               Setting(MCPlans, FALSE, TRUE, TRUE, FALSE),
               Setting({"prepare"}, TRUE, FALSE, TRUE, FALSE),
               Setting({}, TRUE, TRUE, FALSE, FALSE)}
\* Nothing is lost or late, but authorizations expire.
MCExpiring == {Setting(MCPlans, FALSE, FALSE, TRUE, TRUE)}
=============================================================================
