-------------------------- MODULE IntegratedTransit --------------------------
(***************************************************************************)
(* The Integrated Provider's authorized transits: a reviewed plan is       *)
(* committed once, streamed to the Basic controller by a worker thread,    *)
(* and ended by arrival, by the operator, by a lost lease or by the        *)
(* platform.  Around it: WARM and HOT, the lease loop, the idle hold that  *)
(* the control loop keeps alive, and the platform poll.                    *)
(*                                                                         *)
(* Three locks: lock (a step is a section under it), command_gate_lock     *)
(* ("gate") and lease_operation_lock ("leaseOp"), kept over several steps. *)
(* set_engaged, the gamepad, the gripper and the staged commit have no     *)
(* route in the service, so trajectory stays None and is left out.         *)
(***************************************************************************)
EXTENDS Naturals

CONSTANTS
  Plans,        \* plan ids
  Handlers,     \* concurrent HTTP requests
  Deployments,  \* what is planned and asked for, and what goes wrong
  None

FinalStates == {"FLOAT", "FIXED", "WAIT_FOR_NEXT"}

\* A deployment: the residency it starts with, the final state of each plan, the
\* requests that commit, what the other ones ask for, and which of a lost lease,
\* an idle hold and an unready platform occur.
Deployment == [residency : {"WARM", "HOT"}, final : [Plans -> FinalStates],
               commits : SUBSET Handlers, asks : SUBSET {"float", "release", "warm", "hot"},
               occurs : SUBSET {"loss", "hold", "inhibit"}]

ASSUME Names ==
  /\ None \notin Plans \cup Handlers
  /\ \A m \in {"float", "hold"} : m \notin Plans \cup {None}
ASSUME DeploymentsAssumption == Deployments \subseteq Deployment

VARIABLES
  plan,       \* transit_plans: plan -> its state
  status,     \* plan -> AuthorizedTransitExecution.status, "none" if there is none
  current,    \* authorized_transit
  residency,
  profile,    \* an idle hold profile is active
  held,       \* basic.lease: the client believes it has the lease
  platform,   \* _platform_ready_locked
  gate,       \* the worker holds command_gate_lock
  leaseOp,    \* the request that keeps lease_operation_lock between its steps
  handler,    \* the requests being served
  worker,     \* authorized_transit_thread: where it is, and the transit in its hands
  tick,       \* where the control loop is
  poll,       \* where update_platform_status is
  owned,      \* Basic: our lease is in force
  mode,       \* Basic: what it does, "float", "hold" or the plan whose frame came last
  silenced,   \* history: transits whose float was confirmed after they had ended
  served      \* the deployment, a constant of each behaviour

transit == <<plan, status, current>>
controller == <<residency, profile, held, platform>>
locks == <<gate, leaseOp>>
basic == <<owned, mode, silenced>>
vars == <<transit, controller, locks, handler, worker, tick, poll, basic, served>>

Idle == [op |-> "none", at |-> "idle", plan |-> None, chain |-> None]
Gone == [at |-> "dead", plan |-> None]

Statuses == {"none", "EXECUTING", "HOLDING_FINAL", "WAITING_NEXT", "CHAINED_TO_NEXT",
             "COMPLETING_FLOAT", "COMPLETED_FLOAT", "FAILED", "RELEASED"}
Handler == [op : {"none", "commit", "float", "release", "warm", "hot"},
            at : {"idle", "consume", "lease", "preflight", "commit", "start",
                  "cancel", "float", "clear", "warm", "hot", "verify"},
            plan : Plans \cup {None}, chain : Plans \cup {None}]
Worker == [at : {"dead", "top", "send", "sending", "lost", "float", "floated", "afloat",
                 "failed", "faulted"},
           plan : Plans \cup {None}]

TypeOK ==
  /\ plan \in [Plans -> {"none", "PLANNED", "COMMITTING", "REJECTED_AT_COMMIT", "CONSUMED"}]
  /\ status \in [Plans -> Statuses]
  /\ current \in Plans \cup {None}
  /\ residency \in {"WARM", "HOT", "RECOVERY_REQUIRED"}
  /\ {profile, held, platform, gate, owned} \subseteq BOOLEAN
  /\ leaseOp \in Handlers \cup {None}
  /\ handler \in [Handlers -> Handler]
  /\ worker \in Worker
  /\ tick \in {"idle", "hold", "fault", "float"}
  /\ poll \in {"idle", "cancel", "float"}
  /\ mode \in Plans \cup {"float", "hold"}
  /\ silenced \subseteq Plans
  /\ served \in Deployments

Init ==
  /\ plan = [p \in Plans |-> "none"]
  /\ status = [p \in Plans |-> "none"]
  /\ current = None
  /\ served \in Deployments
  /\ residency = served.residency /\ held = (residency = "HOT") /\ owned = held
  /\ profile = FALSE /\ platform = TRUE
  /\ gate = FALSE /\ leaseOp = None
  /\ handler = [h \in Handlers |-> Idle] /\ worker = Gone
  /\ tick = "idle" /\ poll = "idle"
  /\ mode = "float" /\ silenced = {}

-----------------------------------------------------------------------------
At(h, at) == handler[h].at = at
Goto(h, at) == handler' = [handler EXCEPT ![h].at = at]
Done(h) == handler' = [handler EXCEPT ![h] = Idle]
Work(at) == worker' = [worker EXCEPT !.at = at]

\* _assert_motion_prerequisites_locked; stale state and bad feedback are the
\* refusals and faults that come without a reason below.
Prerequisites == held /\ platform

\* The current transit ends with status s.
EndWith(s) ==
  /\ current' = None
  /\ status' = IF current = None THEN status ELSE [status EXCEPT ![current] = s]
  /\ UNCHANGED plan

Ended == {p \in Plans : p # current /\ status[p] \notin {"none", "CHAINED_TO_NEXT"}}

\* _float_operation: nothing without a lease; else under the gate, verified or not.
Float(ok) ==
  /\ UNCHANGED owned
  /\ \/ ~held /\ ~ok /\ UNCHANGED <<mode, silenced>>
     \/ held /\ ~gate /\ ok /\ mode' = "float" /\ silenced' = silenced \cup Ended
     \/ held /\ ~gate /\ ~ok /\ mode' \in {mode, "float"} /\ UNCHANGED silenced

\* _handle_lease_loss, under both locks.
LoseLease ==
  /\ leaseOp = None
  /\ held' = FALSE
  /\ IF residency = "HOT"
       THEN residency' = "RECOVERY_REQUIRED" /\ EndWith("FAILED")
       ELSE UNCHANGED <<residency, transit>>
  /\ UNCHANGED <<profile, platform>>

\* _cancel_active_trajectory before its float: the lock section.
CancelActive ==
  /\ EndWith(IF current # None /\ status[current] = "FAILED" THEN "FAILED" ELSE "RELEASED")
  /\ profile' = FALSE
  /\ UNCHANGED <<residency, held, platform>>

-----------------------------------------------------------------------------
(* Plans and commits.                                                       *)

PlanPath(p) ==
  /\ plan[p] = "none"
  /\ plan' = [plan EXCEPT ![p] = "PLANNED"]
  /\ UNCHANGED <<status, current, controller, locks, handler, worker, tick, poll, basic, served>>

\* _direct_commit_transit_path on a copy of the plan: digests, activation, assertion.
Verify(h, p) ==
  /\ At(h, "idle") /\ h \in served.commits /\ plan[p] = "PLANNED"
  /\ handler' = [handler EXCEPT ![h] = [op |-> "commit", at |-> "consume", plan |-> p, chain |-> None]]
  /\ UNCHANGED <<transit, controller, locks, worker, tick, poll, basic, served>>

\* What a transit committed now would be chained to.
Chain == IF current # None /\ status[current] = "WAITING_NEXT" THEN current ELSE None

\* Mutant: the plan's state is not looked at again under the lock.
ConsumeUnchecked(h) ==
  /\ At(h, "consume")
  /\ plan' = [plan EXCEPT ![handler[h].plan] = "COMMITTING"]
  /\ handler' = [handler EXCEPT ![h].at = "lease", ![h].chain = Chain]
  /\ UNCHANGED <<status, current, controller, locks, worker, tick, poll, basic, served>>

\* The locked second look at the plan, and the first section of
\* execute_authorized_transit.
Consume(h) ==
  /\ At(h, "consume")
  /\ IF plan[handler[h].plan] = "PLANNED"
       THEN /\ plan' = [plan EXCEPT ![handler[h].plan] = "COMMITTING"]
            /\ handler' = [handler EXCEPT ![h].at = "lease", ![h].chain = Chain]
       ELSE Done(h) /\ UNCHANGED plan
  /\ UNCHANGED <<status, current, controller, locks, worker, tick, poll, basic, served>>

\* The request is answered, and what became of its plan written down.
Answer(h, s) == plan' = [plan EXCEPT ![handler[h].plan] = s] /\ Done(h)
Proceed(h, at) == Goto(h, at) /\ UNCHANGED plan
Reject(h) == Answer(h, "REJECTED_AT_COMMIT")

\* _ensure_runtime_lease, whatever the residency.
EnsureLease(h) ==
  /\ At(h, "lease") /\ leaseOp = None
  /\ \/ /\ held' = TRUE /\ owned' = (owned \/ ~held)
        /\ Proceed(h, IF handler[h].chain = None THEN "preflight" ELSE "commit")
     \/ ~held /\ Reject(h) /\ UNCHANGED <<held, owned>>
     \/ ~held /\ held' = TRUE /\ owned' = TRUE /\ Reject(h)  \* set_payload fails
  /\ UNCHANGED <<status, current, residency, profile, platform, locks, worker, tick, poll, mode, silenced, served>>

Preflight(h) ==
  /\ At(h, "preflight")
  /\ \/ Float(TRUE) /\ Proceed(h, "commit")
     \/ Float(FALSE) /\ Reject(h)
  /\ UNCHANGED <<status, current, controller, locks, worker, tick, poll, served>>

\* Mutant: the lease is enough, whatever the residency.
AdmissibleAnywhere(chain) == Prerequisites /\ current \in {None, chain}

Admissible(chain) == Prerequisites /\ residency = "HOT" /\ current \in {None, chain}

\* The section that validates the route once more and installs the transit.
Commit(h) ==
  /\ At(h, "commit")
  /\ LET p == handler[h].plan
         chain == handler[h].chain
     IN  \/ /\ Admissible(chain)
            /\ status' = [q \in Plans |-> IF q = p THEN "EXECUTING"
                                          ELSE IF q = chain THEN "CHAINED_TO_NEXT" ELSE status[q]]
            /\ current' = p
            /\ Proceed(h, "start")
         \/ Reject(h) /\ UNCHANGED <<status, current>>
  /\ UNCHANGED <<controller, locks, worker, tick, poll, basic, served>>

\* _start_authorized_transit_thread, unless a living worker can take a chained transit.
StartWorker(h) ==
  /\ At(h, "start")
  /\ IF worker.at = "dead"
       THEN worker' = [Gone EXCEPT !.at = "top"] /\ Answer(h, "CONSUMED")
       ELSE /\ IF handler[h].chain = None THEN Reject(h) ELSE Answer(h, "CONSUMED")
            /\ UNCHANGED worker
  /\ UNCHANGED <<status, current, controller, locks, tick, poll, basic, served>>

-----------------------------------------------------------------------------
(* The operator: float, path-release, warm, hot, idle hold.                 *)

\* request_float, release_authorized_transit and enter_warm begin by cancelling;
\* enter_hot does nothing where the controller is HOT with a lease.
Ask(h, op) ==
  /\ At(h, "idle") /\ h \notin served.commits /\ op \in served.asks
  /\ op = "hot" => ~(residency = "HOT" /\ held)
  /\ handler' = [handler EXCEPT ![h] = [Idle EXCEPT !.op = op, !.at = IF op = "hot" THEN "hot" ELSE "cancel"]]
  /\ UNCHANGED <<transit, controller, locks, worker, tick, poll, basic, served>>

Cancel(h) ==
  /\ At(h, "cancel")
  /\ CancelActive
  /\ Goto(h, "float")
  /\ UNCHANGED <<locks, worker, tick, poll, basic, served>>

\* The cancellation's float; only WARM looks at its result.
CancelFloat(h) ==
  /\ At(h, "float")
  /\ \E ok \in BOOLEAN :
       /\ Float(ok)
       /\ IF handler[h].op = "warm"
            THEN IF held /\ ~ok THEN Done(h) ELSE Goto(h, "warm")
            ELSE IF handler[h].op = "float" THEN Goto(h, "clear") ELSE Done(h)
  /\ UNCHANGED <<transit, controller, locks, worker, tick, poll, served>>

Clear(h) ==
  /\ At(h, "clear")
  /\ profile' = FALSE
  /\ Done(h)
  /\ UNCHANGED <<transit, residency, held, platform, locks, worker, tick, poll, basic, served>>

\* The rest of enter_warm; a release that fails is forgotten here as well.
Warm(h) ==
  /\ At(h, "warm") /\ leaseOp = None
  /\ residency' = "WARM" /\ held' = FALSE
  /\ owned' \in (IF held THEN {FALSE, owned} ELSE {owned})
  /\ Done(h)
  /\ UNCHANGED <<transit, profile, platform, locks, worker, tick, poll, mode, silenced, served>>

\* enter_hot: acquire, then, with lease_operation_lock still held, verify the float.
Hot(h) ==
  /\ At(h, "hot") /\ leaseOp = None
  /\ IF residency = "HOT" /\ held
       THEN Done(h) /\ UNCHANGED <<residency, held, current, owned, leaseOp>>
       ELSE \/ Done(h) /\ UNCHANGED <<residency, held, current, owned, leaseOp>>
            \/ /\ residency' = "HOT" /\ held' = TRUE /\ current' = None
               /\ owned' = TRUE
               /\ leaseOp' = h /\ Goto(h, "verify")
  /\ UNCHANGED <<plan, status, profile, platform, gate, worker, tick, poll, mode, silenced, served>>

HotVerify(h) ==
  /\ At(h, "verify") /\ (held => ~gate)
  /\ leaseOp' = None /\ Done(h)
  /\ \/ held /\ mode = "float" /\ UNCHANGED <<held, owned>>
     \/ held' = FALSE /\ owned' \in (IF held THEN {FALSE, owned} ELSE {owned})
  /\ UNCHANGED <<transit, residency, profile, platform, gate, worker, tick, poll, mode, silenced, served>>

SetIdleProfile ==
  /\ "hold" \in served.occurs
  /\ residency = "HOT" /\ current = None /\ Prerequisites
  /\ profile' = TRUE
  /\ UNCHANGED <<transit, residency, held, platform, locks, handler, worker, tick, poll, basic, served>>

-----------------------------------------------------------------------------
(* The worker: _authorized_transit_loop.                                    *)

Stream ==
  /\ worker.at = "top" /\ current # None /\ Prerequisites
  /\ status[current] \in {"EXECUTING", "HOLDING_FINAL", "WAITING_NEXT"}
  /\ worker' = [at |-> "send", plan |-> current]
  /\ UNCHANGED <<transit, controller, locks, handler, tick, poll, basic, served>>

\* Settled at the endpoint; or the 30 s for a next transit are over.
Arrive ==
  /\ worker.at = "top" /\ current # None /\ Prerequisites
  /\ \/ status[current] = "EXECUTING"
     \/ status[current] = "WAITING_NEXT"
  /\ LET s == IF status[current] = "WAITING_NEXT" \/ served.final[current] = "FLOAT" THEN "COMPLETING_FLOAT"
              ELSE IF served.final[current] = "FIXED" THEN "HOLDING_FINAL" ELSE "WAITING_NEXT"
     IN  /\ status' = [status EXCEPT ![current] = s]
         /\ worker' = [at |-> IF s = "COMPLETING_FLOAT" THEN "float" ELSE "send", plan |-> current]
  /\ UNCHANGED <<plan, current, controller, locks, handler, tick, poll, basic, served>>

\* The exception handler marks the transit of that moment.
Failing ==
  /\ status' = IF current = None THEN status ELSE [status EXCEPT ![current] = "FAILED"]
  /\ Work("failed")

\* A failed prerequisite; or a gap, a stall, an endpoint that does not settle.
Fault ==
  /\ worker.at = "top" /\ current # None
  /\ Prerequisites => status[current] = "EXECUTING"
  /\ Failing
  /\ UNCHANGED <<plan, current, controller, locks, handler, tick, poll, basic, served>>

NothingLeft ==
  /\ worker.at = "top" /\ current = None
  /\ worker' = Gone
  /\ UNCHANGED <<transit, controller, locks, handler, tick, poll, basic, served>>

\* Mutant: the frame is sent without another look at the transit.
SendUnchecked ==
  /\ worker.at = "send" /\ ~gate
  /\ gate' = TRUE /\ Work("sending")
  /\ UNCHANGED <<transit, controller, leaseOp, handler, tick, poll, basic, served>>

Send ==
  /\ worker.at = "send" /\ ~gate
  /\ IF current = worker.plan /\ platform
       THEN gate' = TRUE /\ Work("sending")
       ELSE UNCHANGED gate /\ Work("top")
  /\ UNCHANGED <<transit, controller, leaseOp, handler, tick, poll, basic, served>>

\* Mutant: the loss is dealt with before the gate is opened.
SentLosingInside ==
  /\ worker.at = "sending"
  /\ IF held /\ owned
       THEN \/ mode' = worker.plan /\ Work("top") /\ UNCHANGED status
            \/ mode' \in {mode, worker.plan} /\ Failing
       ELSE Work("lost") /\ UNCHANGED <<mode, status>>
  /\ held' = (held /\ owned)
  /\ gate' = ~(held /\ owned)
  /\ UNCHANGED <<plan, current, residency, profile, platform, leaseOp, handler, tick, poll, owned, silenced, served>>

\* basic.command: accepted for want of a lease, or failed on the way.
Sent ==
  /\ worker.at = "sending"
  /\ IF held /\ owned
       THEN \/ mode' = worker.plan /\ Work("top") /\ UNCHANGED status
            \/ mode' \in {mode, worker.plan} /\ Failing
       ELSE Work("lost") /\ UNCHANGED <<mode, status>>
  /\ held' = (held /\ owned)
  /\ gate' = FALSE
  /\ UNCHANGED <<plan, current, residency, profile, platform, leaseOp, handler, tick, poll, owned, silenced, served>>

WorkerLost ==
  /\ worker.at = "lost"
  /\ LoseLease
  /\ worker' = Gone /\ gate' = FALSE
  /\ UNCHANGED <<leaseOp, handler, tick, poll, basic, served>>

WorkerFloat ==
  /\ worker.at = "float"
  /\ \E ok \in BOOLEAN : Float(ok) /\ Work(IF ok THEN "floated" ELSE "afloat")
  /\ UNCHANGED <<transit, controller, locks, handler, tick, poll, served>>

WorkerEnds ==
  /\ worker.at \in {"floated", "afloat"}
  /\ IF current = worker.plan
       THEN EndWith(IF worker.at = "floated" THEN "COMPLETED_FLOAT" ELSE "FAILED")
       ELSE UNCHANGED transit
  /\ worker' = Gone
  /\ UNCHANGED <<controller, locks, handler, tick, poll, basic, served>>

\* _fault_to_float: it ends the transit of a later moment, and floats.
WorkerFaults ==
  /\ worker.at = "failed"
  /\ EndWith("FAILED")
  /\ Work("faulted")
  /\ UNCHANGED <<controller, locks, handler, tick, poll, basic, served>>

WorkerFaultFloat ==
  /\ worker.at = "faulted"
  /\ \E ok \in BOOLEAN : Float(ok)
  /\ worker' = Gone
  /\ UNCHANGED <<transit, controller, locks, handler, tick, poll, served>>

-----------------------------------------------------------------------------
(* The control loop's idle hold, the lease loop and the platform.           *)

\* _service_idle_profile: float where the profile ran out or a transit runs.
Tick ==
  /\ tick = "idle" /\ residency = "HOT" /\ profile
  /\ \/ profile' = FALSE /\ tick' = "float"
     \/ current = None /\ UNCHANGED profile /\ tick' = IF Prerequisites THEN "hold" ELSE "fault"
  /\ UNCHANGED <<transit, residency, held, platform, locks, handler, worker, poll, basic, served>>

\* The hold command, decided before the gate was taken.
TickHold ==
  /\ tick = "hold" /\ ~gate
  /\ held' = (held /\ owned)
  /\ \/ held /\ owned /\ mode' = "hold" /\ tick' = "idle" /\ UNCHANGED profile
     \/ UNCHANGED mode /\ profile' = FALSE /\ tick' = "float"
  /\ UNCHANGED <<transit, residency, platform, locks, handler, worker, poll, owned, silenced, served>>

\* An exception in _tick: _fault_to_float, the profile left as it is.
TickFault ==
  /\ tick = "fault"
  /\ EndWith("FAILED") /\ tick' = "float"
  /\ UNCHANGED <<controller, locks, handler, worker, poll, basic, served>>

TickFloat ==
  /\ tick = "float"
  /\ \E ok \in BOOLEAN : Float(ok)
  /\ tick' = "idle"
  /\ UNCHANGED <<transit, controller, locks, handler, worker, poll, served>>

\* _lease_loop without a lease: _ensure_runtime_lease(background).
Reacquire ==
  /\ residency = "HOT" /\ leaseOp = None /\ ~held
  /\ held' = TRUE /\ owned' = TRUE
  /\ UNCHANGED <<transit, residency, profile, platform, locks, handler, worker, tick, poll, mode, silenced, served>>

\* _renew_lease_once that is refused, or uncertain for too long.
Renew ==
  /\ residency = "HOT" /\ held /\ "loss" \in served.occurs
  /\ LoseLease
  /\ UNCHANGED <<locks, handler, worker, tick, poll, owned, mode, silenced, served>>

\* Basic ends the lease (expiry, safe-home, revocation) and floats.
BasicTakes ==
  /\ owned /\ "loss" \in served.occurs
  /\ owned' = FALSE /\ mode' = "float"
  /\ UNCHANGED <<transit, controller, locks, handler, worker, tick, poll, silenced, served>>

\* Mutant: the poll looks only at the operator's trajectories.
PollTrajectories(ready) ==
  /\ poll = "idle" /\ (ready \/ "inhibit" \in served.occurs) /\ platform' = ready
  /\ UNCHANGED <<transit, residency, profile, held, locks, handler, worker, tick, poll, basic, served>>

\* update_platform_status with what the last round of requests found.
Poll(ready) ==
  /\ poll = "idle" /\ (ready \/ "inhibit" \in served.occurs) /\ platform' = ready
  /\ poll' = IF current # None /\ ~ready THEN "cancel" ELSE "idle"
  /\ UNCHANGED <<transit, residency, profile, held, locks, handler, worker, tick, basic, served>>

PollCancel ==
  /\ poll = "cancel"
  /\ CancelActive
  /\ poll' = "float"
  /\ UNCHANGED <<locks, handler, worker, tick, basic, served>>

PollFloat ==
  /\ poll = "float"
  /\ \E ok \in BOOLEAN : Float(ok)
  /\ poll' = "idle"
  /\ UNCHANGED <<transit, controller, locks, handler, worker, tick, served>>

-----------------------------------------------------------------------------
Serve(h) ==
  \/ Consume(h) \/ EnsureLease(h) \/ Preflight(h) \/ Commit(h) \/ StartWorker(h)
  \/ Cancel(h) \/ CancelFloat(h) \/ Clear(h) \/ Warm(h) \/ Hot(h) \/ HotVerify(h)
Run ==
  \/ Stream \/ Arrive \/ Fault \/ NothingLeft \/ Send \/ Sent \/ WorkerLost \/ WorkerFloat
  \/ WorkerEnds \/ WorkerFaults \/ WorkerFaultFloat
Background == Tick \/ TickHold \/ TickFault \/ TickFloat \/ Reacquire \/ Renew \/ PollCancel \/ PollFloat

Next ==
  \/ \E p \in Plans : PlanPath(p) \/ \E h \in Handlers : Verify(h, p)
  \/ \E h \in Handlers : Serve(h) \/ \E op \in {"float", "release", "warm", "hot"} : Ask(h, op)
  \/ Run \/ Background \/ SetIdleProfile \/ BasicTakes
  \/ \E ready \in BOOLEAN : Poll(ready)

\* Threads are scheduled, locks are handed over, the platform is polled; a path
\* has finitely many samples, and settling, stalling and waiting have timeouts.
Fairness ==
  /\ \A h \in Handlers : SF_vars(Serve(h))
  /\ WF_vars(Run) /\ SF_vars(Arrive \/ Fault)
  /\ WF_vars(PollCancel \/ PollFloat)
  /\ WF_vars(~platform /\ Poll(FALSE))

Spec == Init /\ [][Next]_vars /\ Fairness

-----------------------------------------------------------------------------
\* A reviewed plan is installed at most once, though requests verify copies of it.
InstalledOnce ==
  [][\A p \in Plans : current # p /\ current' = p => status[p] = "none"]_vars

\* Once a float was confirmed after a transit ended, no frame of it reaches Basic.
SilencedStaysSilent == mode \notin silenced

\* After a lost lease there is no transit until HOT is asked for, although a
\* commit may have fetched a new lease meanwhile.
RecoveryIsIdle == residency = "RECOVERY_REQUIRED" => current = None

\* A transit does not survive a Manager, Fabric or motion authority that stays away.
InhibitStops == current # None /\ ~platform ~> current = None \/ platform

\* Every request is answered: gate and lease lock are never waited for in a circle.
RequestsAnswered == \A h \in Handlers : ~At(h, "idle") ~> At(h, "idle")
=============================================================================
