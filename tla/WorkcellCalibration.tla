------------------------ MODULE WorkcellCalibration ------------------------
(***************************************************************************)
(* The reviewed workcell calibration: the activations the Manager keeps,   *)
(* the endpoints that activate, refine, revoke and list them, and the one  *)
(* static edge, world to arm base, that the Fabric offers in its transform *)
(* graph.  Each endpoint publishes the edge before it stores its record.   *)
(*                                                                         *)
(* The edge's stream has one publisher and its sequence number is the      *)
(* wall clock in microseconds, read when the request is built, here        *)
(* counted and never the same twice.  A POST is a message in flight that   *)
(* the Fabric may take after the Manager has stopped waiting for it.       *)
(***************************************************************************)
EXTENDS Naturals, FiniteSets

CONSTANTS
  Handlers,        \* HTTP requests served
  Requests,        \* request ids of activations
  MaxActivations,  \* bound: activations made
  MaxRefinements,  \* bound: refinements of an activation
  MaxStamp,        \* bound: publications
  MaxCamera,       \* bound: calibration revisions of the camera
  Deployments,     \* the deployments looked at
  None

\* A deployment: whether requests overlap, whether POSTs may be lost or answered
\* too late, and a bound of its own on the publications.
Deployment == [overlap : BOOLEAN, lossy : BOOLEAN, posts : 0 .. MaxStamp]

Activations == 1 .. MaxActivations
Camera == [revision : 1 .. MaxCamera, healthy : BOOLEAN]
Activation == [state : {"ACTIVE", "SUPERSEDED", "REVOKED", "INVALIDATED"},
               usable : BOOLEAN, request : Requests, camera : 1 .. MaxCamera,
               refinement : 0 .. MaxRefinements]
Sample == [stamp : 1 .. MaxStamp, activation : Activations, active : BOOLEAN,
           refinement : 0 .. MaxRefinements]
Copies == [Activations -> Activation \cup {None}]
Nothing == [a \in Activations |-> None]

VARIABLES
  camera,    \* what reports[camera] says
  records,   \* workcell_calibrations
  holder,    \* the handler that holds its mutex across a publication
  clock,     \* publications stamped so far
  inflight,  \* POSTs on their way to the Fabric
  edge,      \* the latest sample of the edge in the Fabric
  handler,   \* the requests being served
  deployment \* a constant of each behaviour

vars == <<camera, records, holder, clock, inflight, edge, handler, deployment>>

\* "store" holds what is to be inserted into the records once the POST is
\* answered, "seen" what a handler has read of the camera.
Handler == [at : {"idle", "read", "build", "collect", "sent", "answered"},
            op : {"activate", "refine", "list", "revoke"},
            target : Activations \cup {None}, request : Requests \cup {None},
            seen : Camera \cup {None}, expected : 0 .. MaxRefinements,
            stamp : 0 .. MaxStamp, store : Copies]
Idle == [at |-> "idle", op |-> "list", target |-> None, request |-> None, seen |-> None,
         expected |-> 0, stamp |-> 0, store |-> Nothing]

Init ==
  /\ camera = [revision |-> 1, healthy |-> TRUE]
  /\ records = Nothing
  /\ holder = None
  /\ clock = 0
  /\ inflight = {}
  /\ edge = None
  /\ handler = [h \in Handlers |-> Idle]
  /\ deployment \in Deployments

Unlocked == holder = None

\* A request is admitted when the deployment's requests overlap or no other is
\* being served, and, a bound, while its publication has a stamp left.
Room ==
  /\ deployment.overlap \/ \A h \in Handlers : handler[h].at = "idle"
  /\ clock + Cardinality({h \in Handlers : handler[h].at \in {"read", "build", "collect"}})
       < deployment.posts

\* publish_workcell_calibration_transitions: stamped and sent.
Post(h, a, active, refinement) ==
  /\ clock' = clock + 1
  /\ inflight' = inflight \cup {[stamp |-> clock + 1, activation |-> a,
                                 active |-> active, refinement |-> refinement]}

\* refresh_workcell_motion_usability
Refresh(r, cam) ==
  CASE r.state # "ACTIVE" -> [r EXCEPT !.usable = FALSE]
    [] r.state = "ACTIVE" /\ r.camera # cam.revision ->
         [r EXCEPT !.state = "INVALIDATED", !.usable = FALSE]
    [] OTHER -> [r EXCEPT !.usable = cam.healthy]

---------------------------------------------------------------------------
\* activate_workcell_calibration: a request id already used gets its record.
AdmitActivate(h, r) ==
  /\ handler[h].at = "idle"
  /\ Room
  /\ Unlocked
  /\ \A a \in Activations : records[a] # None => records[a].request # r
  /\ handler' = [handler EXCEPT ![h] = [Idle EXCEPT !.at = "build", !.op = "activate",
                                                    !.request = r]]
  /\ UNCHANGED <<camera, records, holder, clock, inflight, edge, deployment>>

\* build_workcell_activation_record, against the camera as it is reported now.
Fresh(a) == records[a] = None /\ \A h \in Handlers : handler[h].target # a

Build(h) ==
  /\ handler[h].at = "build"
  /\ camera.healthy
  /\ \E a \in Activations :
       /\ Fresh(a)
       /\ \A b \in 1 .. a - 1 : ~Fresh(b)
       /\ handler' = [handler EXCEPT ![h].at = "collect", ![h].target = a,
                                     ![h].seen = camera]
  /\ UNCHANGED <<camera, records, holder, clock, inflight, edge, deployment>>

\* The candidate fails its checks, the camera's among them.
RefuseActivation(h) ==
  /\ handler[h].at = "build"
  /\ handler' = [handler EXCEPT ![h] = Idle]
  /\ UNCHANGED <<camera, records, holder, clock, inflight, edge, deployment>>

\* Mutant: an activation the camera has suspended is not superseded.
UsableActivations == {a \in Activations : records[a] # None /\ records[a].usable}

\* superseded_active_workcell_calibrations
ActiveActivations == {a \in Activations : records[a] # None /\ records[a].state = "ACTIVE"}

\* The batch withdraws the superseded activations before it offers the new one,
\* and the Fabric commits it under one lock: the last of it stands.
Collect(h) ==
  /\ handler[h].at = "collect"
  /\ Unlocked
  /\ Post(h, handler[h].target, TRUE, 0)
  /\ handler' = [handler EXCEPT
       ![h].at = "sent", ![h].stamp = clock + 1,
       ![h].store = [a \in Activations |->
          CASE a = handler[h].target ->
                 [state |-> "ACTIVE", usable |-> TRUE, request |-> handler[h].request,
                  camera |-> handler[h].seen.revision, refinement |-> 0]
            [] a \in ActiveActivations ->
                 [records[a] EXCEPT !.state = "SUPERSEDED", !.usable = FALSE]
            [] OTHER -> None]]
  /\ UNCHANGED <<camera, records, holder, edge, deployment>>

---------------------------------------------------------------------------
\* revoke_workcell_calibration works on a copy of the record.
Revoke(h, a) ==
  /\ handler[h].at = "idle"
  /\ Room
  /\ Unlocked
  /\ records[a] # None /\ records[a].state # "REVOKED"
  /\ Post(h, a, FALSE, records[a].refinement)
  /\ handler' = [handler EXCEPT ![h] =
       [Idle EXCEPT !.at = "sent", !.op = "revoke", !.target = a, !.stamp = clock + 1,
                    !.store = [Nothing EXCEPT
                       ![a] = [records[a] EXCEPT !.state = "REVOKED", !.usable = FALSE]]]]
  /\ UNCHANGED <<camera, records, holder, edge, deployment>>

---------------------------------------------------------------------------
\* refine_workcell_calibration_translation and list_workcell_calibrations read
\* the reports before they take the mutex.
ReadCamera(h, op, a, expected) ==
  /\ handler[h].at = "idle"
  /\ Room
  /\ op \in {"refine", "list"}
  /\ handler' = [handler EXCEPT ![h] =
       [Idle EXCEPT !.at = "read", !.op = op, !.target = IF op = "refine" THEN a ELSE None,
                    !.seen = camera, !.expected = IF op = "refine" THEN expected ELSE 0]]
  /\ UNCHANGED <<camera, records, holder, clock, inflight, edge, deployment>>

List(h) ==
  /\ handler[h].at = "read" /\ handler[h].op = "list"
  /\ Unlocked
  /\ records' = [a \in Activations |->
       IF records[a] = None THEN None ELSE Refresh(records[a], handler[h].seen)]
  /\ handler' = [handler EXCEPT ![h] = Idle]
  /\ UNCHANGED <<camera, holder, clock, inflight, edge, deployment>>

Refining(h) == handler[h].at = "read" /\ handler[h].op = "refine" /\ Unlocked

\* build_translation_refined_record
Refinable(h, r) ==
  /\ r.state = "ACTIVE" /\ r.usable
  /\ r.refinement = handler[h].expected
  /\ r.refinement < MaxRefinements

\* Mutant: the mutex is released before the publication.
RefineUnlocked(h) ==
  /\ Refining(h)
  /\ LET a == handler[h].target
         r == Refresh(records[a], handler[h].seen)
     IN  /\ records[a] # None
         /\ Refinable(h, r)
         /\ Post(h, a, TRUE, r.refinement + 1)
         /\ records' = [records EXCEPT ![a] = r]
         /\ handler' = [handler EXCEPT
              ![h].at = "sent", ![h].stamp = clock + 1,
              ![h].store = [Nothing EXCEPT ![a] = [r EXCEPT !.refinement = @ + 1]]]
  /\ UNCHANGED <<camera, holder, edge, deployment>>

\* The mutex is held until the publication is answered.
Refine(h) ==
  /\ Refining(h)
  /\ LET a == handler[h].target
         r == Refresh(records[a], handler[h].seen)
     IN  /\ records[a] # None
         /\ Refinable(h, r)
         /\ Post(h, a, TRUE, r.refinement + 1)
         /\ records' = [records EXCEPT ![a] = r]
         /\ handler' = [handler EXCEPT
              ![h].at = "sent", ![h].stamp = clock + 1,
              ![h].store = [Nothing EXCEPT ![a] = [r EXCEPT !.refinement = @ + 1]]]
  /\ holder' = h
  /\ UNCHANGED <<camera, edge, deployment>>

\* No such record, or it is refreshed and the refinement refused, for these
\* conditions or for those on the geometry and on the arm.
RefuseRefinement(h) ==
  /\ Refining(h)
  /\ records' = LET a == handler[h].target
                IN  IF records[a] = None THEN records
                    ELSE [records EXCEPT ![a] = Refresh(@, handler[h].seen)]
  /\ handler' = [handler EXCEPT ![h] = Idle]
  /\ UNCHANGED <<camera, holder, clock, inflight, edge, deployment>>

---------------------------------------------------------------------------
\* The Fabric takes a sample unless it already has a later one of the stream,
\* and answers; the answer may come after the Manager's timeout.
Take(m) ==
  /\ m \in inflight
  /\ inflight' = inflight \ {m}
  /\ edge' = IF edge = None \/ m.stamp > edge.stamp THEN m ELSE edge
  /\ \E heard \in (IF deployment.lossy THEN BOOLEAN ELSE {TRUE}) :
       handler' = [h \in Handlers |->
         IF heard /\ handler[h].at = "sent" /\ handler[h].stamp = m.stamp
         THEN [handler[h] EXCEPT !.at = "answered"] ELSE handler[h]]
  /\ UNCHANGED <<camera, records, holder, clock, deployment>>

Lose(m) ==
  /\ deployment.lossy
  /\ m \in inflight
  /\ inflight' = inflight \ {m}
  /\ UNCHANGED <<camera, records, holder, clock, edge, handler, deployment>>

Released(h) == IF holder = h THEN None ELSE holder

\* The POST times out after three seconds, or fails: nothing is stored.
GiveUp(h) ==
  /\ deployment.lossy
  /\ handler[h].at = "sent"
  /\ holder' = Released(h)
  /\ handler' = [handler EXCEPT ![h] = Idle]
  /\ UNCHANGED <<camera, records, clock, inflight, edge, deployment>>

Store(h) ==
  /\ handler[h].at = "answered"
  /\ Released(h) = None
  /\ records' = [a \in Activations |->
       IF handler[h].store[a] # None THEN handler[h].store[a] ELSE records[a]]
  /\ holder' = None
  /\ handler' = [handler EXCEPT ![h] = Idle]
  /\ UNCHANGED <<camera, clock, inflight, edge, deployment>>

---------------------------------------------------------------------------
\* The camera's own reports.
CameraHealth ==
  /\ camera' = [camera EXCEPT !.healthy = ~@]
  /\ UNCHANGED <<records, holder, clock, inflight, edge, handler, deployment>>

CameraRecalibrated ==
  /\ camera.revision < MaxCamera
  /\ camera' = [camera EXCEPT !.revision = @ + 1]
  /\ UNCHANGED <<records, holder, clock, inflight, edge, handler, deployment>>

Serve(h) ==
  \/ Build(h) \/ RefuseActivation(h) \/ Collect(h) \/ List(h) \/ Refine(h)
  \/ RefuseRefinement(h) \/ GiveUp(h) \/ Store(h)

Next ==
  \/ \E h \in Handlers :
       \/ Serve(h)
       \/ \E r \in Requests : AdmitActivate(h, r)
       \/ \E a \in Activations :
            \/ Revoke(h, a)
            \/ \E op \in {"refine", "list"}, n \in 0 .. MaxRefinements : ReadCamera(h, op, a, n)
  \/ \E m \in inflight : Take(m) \/ Lose(m)
  \/ CameraHealth
  \/ CameraRecalibrated

Spec == Init /\ [][Next]_vars

\* Handlers run on, the timeout of a POST is one of their steps, and the mutex,
\* tokio's, is granted in the order it is asked for.  A Fabric that loses
\* nothing takes what it is sent.
FairSpec ==
  /\ Spec
  /\ \A h \in Handlers : SF_vars(Serve(h))
  /\ WF_vars(~deployment.lossy /\ \E m \in inflight : Take(m))

---------------------------------------------------------------------------
\* Every variable has its type.
TypeOK ==
  /\ camera \in Camera
  /\ records \in Copies
  /\ holder \in Handlers \cup {None}
  /\ clock \in 0 .. MaxStamp
  /\ inflight \subseteq Sample
  /\ edge \in Sample \cup {None}
  /\ handler \in [Handlers -> Handler]
  /\ deployment \in Deployments

Quiet == inflight = {} /\ \A h \in Handlers : handler[h].at \in {"idle", "read", "build"}

\* While requests do not overlap only one activation is in force: a new one
\* supersedes whatever was, a suspended activation included, although answers
\* may be lost or late.
OneActive == ~deployment.overlap => Cardinality(ActiveActivations) <= 1

\* While requests do not overlap a retried activation request never activates a
\* second time, and so never brings back what has been revoked or superseded.
OneActivationPerRequest ==
  ~deployment.overlap =>
    \A a, b \in Activations :
      records[a] # None /\ records[b] # None /\ records[a].request = records[b].request
        => a = b

\* Nor, while the Fabric answers in time, does it offer to motion the edge of an
\* activation revoked or superseded, or an edge before its latest refinement,
\* once no request is at work.
OfferedIsInForce ==
  ~deployment.overlap /\ ~deployment.lossy /\ Quiet /\ edge # None /\ edge.active =>
    /\ records[edge.activation] # None
    /\ records[edge.activation].state \in {"ACTIVE", "INVALIDATED"}
    /\ records[edge.activation].refinement = edge.refinement

\* http_api.md: "Only one activation remains ACTIVE", whoever asks and when.
OnlyOneRemainsActive == Cardinality(ActiveActivations) <= 1

\* Whatever two requests do to each other's copies, an activation that has been
\* superseded, revoked or invalidated does not return to force.
EndedStaysEnded ==
  [][\A a \in Activations :
       records[a] # None /\ records[a].state # "ACTIVE" => records'[a].state # "ACTIVE"]_vars

\* A publication that is never answered cannot block the endpoints, although
\* one of them holds the mutex while it waits.
EveryRequestAnswered ==
  \A h \in Handlers : handler[h].at # "idle" ~> handler[h].at = "idle"
=============================================================================
