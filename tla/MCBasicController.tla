-------------------------- MODULE MCBasicController --------------------------
(***************************************************************************)
(* Instances of BasicController: owners of the arm and of its groups, and  *)
(* owners against safe-home, WARM and fault recovery.                      *)
(***************************************************************************)
EXTENDS BasicController

Owners == {"acquire", "submit"}
Deployed(requests, targets, leases, ioFails) ==
  [requests |-> requests, targets |-> targets, leases |-> leases, ioFails |-> ioFails]

\* An operator homes the arm while the Manager recovers it from a fault.
MCEmbrace == {Deployed({"home", "hot"}, {Root}, 1, TRUE)}

MCDeployments ==
  {Deployed({"acquire", "release"}, Targets, 2, FALSE),
   Deployed(Owners \cup {"release", "renew", "revoke"}, {Root, "arm"}, 2, FALSE),
   Deployed(Owners \cup {"group float"}, {"arm"}, 1, FALSE),
   Deployed(Owners \cup {"home", "float"}, {"arm"}, 1, FALSE),
   Deployed(Owners \cup {"hot", "disable"}, {Root}, 1, TRUE),
   Deployed({"acquire", "warm"}, {Root}, 1, FALSE)}
  \cup MCEmbrace
=============================================================================
