----------------------- MODULE MCWorkcellCalibration -----------------------
(***************************************************************************)
(* WorkcellCalibration with requests that overlap and a Fabric that always *)
(* answers; MCFabricRecords has the instances that hold.                   *)
(***************************************************************************)
EXTENDS WorkcellCalibration

MCRace == {[overlap |-> TRUE, lossy |-> FALSE, posts |-> 3]}
=============================================================================
