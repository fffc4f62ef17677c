----------------------- MODULE MCControlAuthority -----------------------
(* ControlAuthority on an arm with a gripper and a wrist scope below it. *)
EXTENDS ControlAuthority

CONSTANTS o1, l1, l2, h1, h2

MCTree == {<<"arm">>, <<"arm", "gripper">>, <<"arm", "wrist">>}
=============================================================================
