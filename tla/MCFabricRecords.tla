-------------------------- MODULE MCFabricRecords --------------------------
(***************************************************************************)
(* Instances of what reaches a reader through the Fabric, side by side: a  *)
(* behaviour is one of its "part", the other parts stand still.            *)
(*   "views"   AuthorityPublication: an arm with a gripper scope below it; *)
(*   "store"   FabricStore: a calibration authority that withdraws, and a  *)
(*             localisation that resets;                                   *)
(*   "frames"  BufferRing: a camera stream in shared memory;               *)
(*   "poses"   WorkcellCalibration: requests one after the other, with a   *)
(*             Fabric that answers or one whose answers are lost, and      *)
(*             requests that overlap.                                      *)
(***************************************************************************)
EXTENDS AuthorityPublication, TLC

CONSTANTS o1, l1, l2, h1, h2, calibration, vio,
          Authorities, Publishes, HistoryPerStream, TransformHistoryPerEdge, MaxSent, MaxBoot, MaxAccepted,
          Slots, MaxFrames, MaxBoots,
          Requests, MaxActivations, MaxRefinements, MaxPosts, MaxCamera

\* Requests in service are alike, and so are lease ids; no property names one.
MCSymmetry == {f @@ g : f \in Permutations({h1, h2}), g \in Permutations({l1, l2})}

MCResources == {<<"arm">>, <<"arm", "gripper">>}

Static(usable) == [static |-> TRUE, usable |-> usable, epoch |-> 1]
Dynamic(usable, epoch) == [static |-> FALSE, usable |-> usable, epoch |-> epoch]
MCPublishes == calibration :> {Static(TRUE), Static(FALSE), Dynamic(FALSE, 1)}
            @@ vio :> {Dynamic(TRUE, 1), Dynamic(TRUE, 2)}

ASSUME StoreBounds ==
  /\ {HistoryPerStream, TransformHistoryPerEdge, MaxBoot} \subseteq Nat \ {0}
  /\ {MaxSent, MaxAccepted} \subseteq Nat
ASSUME SamplesAreKinds ==
  \A a \in Authorities : Publishes[a] \subseteq [static : BOOLEAN, usable : BOOLEAN, epoch : Nat]
ASSUME RingBounds == Slots \in Nat /\ Slots > 1
ASSUME CalibrationBounds ==
  {MaxActivations, MaxRefinements, MaxPosts} \subseteq Nat /\ MaxCamera \in Nat \ {0}

CalibrationDeployments ==
  {[overlap |-> FALSE, lossy |-> FALSE, posts |-> 5],
   [overlap |-> FALSE, lossy |-> TRUE, posts |-> 3],
   [overlap |-> TRUE, lossy |-> TRUE, posts |-> 3]}

VARIABLES part,
          boot, sent, latest, history, edge, accepted, newest,
          up, host, seq, hdr, lo, hi, slot, frame, w, maps, p, lastGen, ref, c, payload,
          camera, records, holder, posted, inflight, pose, handler, deployment

storeVars == <<boot, sent, latest, history, edge, accepted, newest>>
ringVars == <<up, host, seq, hdr, lo, hi, slot, frame, w, maps, p, lastGen, ref, c, payload>>
calibrationVars == <<camera, records, holder, posted, inflight, pose, handler, deployment>>
mcVars == <<part, vars, storeVars, ringVars, calibrationVars>>

Store == INSTANCE FabricStore
Ring == INSTANCE BufferRing WITH
          boot <- host, latest <- slot, fabric <- ref, accepted <- payload
Calibration == INSTANCE WorkcellCalibration WITH
                 clock <- posted, edge <- pose, MaxStamp <- MaxPosts,
                 Deployments <- CalibrationDeployments

\* No id is that of nothing, and no record is nothing.
ASSUME NoneIsNothing ==
  /\ None \notin Handlers \cup Calibration!Activation \cup Calibration!Camera
  /\ None \notin Store!Observation
  /\ None \notin [stamp : Nat, activation : Nat, active : BOOLEAN, refinement : Nat]

\* A part that stands still has one initial state.
MCInit ==
  /\ part \in {"views", "store", "frames", "poses"}
  /\ PInit /\ Store!Init /\ Ring!Init /\ Calibration!Init
  /\ part # "poses" => deployment.posts = 5

MCNext ==
  \/ part = "views" /\ PNext /\ UNCHANGED <<part, storeVars, ringVars, calibrationVars>>
  \/ part = "store" /\ Store!Next /\ UNCHANGED <<part, vars, ringVars, calibrationVars>>
  \/ part = "frames" /\ Ring!Next /\ UNCHANGED <<part, vars, storeVars, calibrationVars>>
  \/ part = "poses" /\ Calibration!Next /\ UNCHANGED <<part, vars, storeVars, ringVars>>

MCSpec == MCInit /\ [][MCNext]_mcVars

---------------------------------------------------------------------------
\* AuthorityPublication!FabricConverges, ViewsAreCoherent: once nothing is on its
\* way the Fabric shows the authority in force, and every view it shows agrees with
\* itself.
ViewsAreCurrent == FabricConverges /\ ViewsAreCoherent

\* FabricStore!WithdrawalHolds, EpochsAreNotBlended, IndexIsTheOrder: a withdrawn
\* static edge stays withdrawn, no answer blends two session epochs, and the index
\* that answers are found by is that of the samples retained.
AnswersAreCurrent ==
  Store!WithdrawalHolds /\ Store!EpochsAreNotBlended /\ Store!IndexIsTheOrder

\* BufferRing!LatestIsStable and AcceptedIsReferenced: the slot that readers are
\* pointed at is not being written, and what a reader accepts is whole and is
\* the frame its BufferRef was made for.
NoTornFrame == Ring!LatestIsStable /\ Ring!AcceptedIsReferenced

\* WorkcellCalibration!OneActive, OneActivationPerRequest, OfferedIsInForce: while
\* requests do not overlap one activation is in force, a retried request makes no
\* second one, and what the Fabric offers is in force.
ActivationsAreSingle ==
  Calibration!OneActive /\ Calibration!OneActivationPerRequest /\ Calibration!OfferedIsInForce

\* WorkcellCalibration!EndedStaysEnded: what has ended does not return to force.
EndedStaysEnded == Calibration!EndedStaysEnded
=============================================================================
