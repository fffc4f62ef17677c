--------------------------- MODULE ApprovedMotion ---------------------------
(***************************************************************************)
(* How the test agent moves the arm: a preview of the Integrated Provider  *)
(* is bound to a decision, the decision is approved by the free-space      *)
(* policy or by the operator, one signed assertion is issued for it, the   *)
(* Provider's commit consumes it, and the agent watches the transit.       *)
(*                                                                         *)
(* A "relative" motion ends in float, an "approach" waits for its next     *)
(* one and may replan once, a "review" executes what the operator          *)
(* approved, and reports the commit without watching.  The agent is one    *)
(* event loop: a step runs from one await to the next.  The Provider's     *)
(* transit is IntegratedTransit's, as far as its clients see it.           *)
(***************************************************************************)
EXTENDS Naturals, FiniteSets

CONSTANTS
  Tasks,        \* calls of an executing tool
  Plans,        \* plan ids of the Integrated Provider
  Decisions,    \* decision ids
  MaxReviews,   \* bound: decisions the operator is asked for
  Deployments,  \* what the tasks do and what goes wrong
  None

Kinds == {"relative", "approach", "review"}

\* A deployment: the kind of each task, whether they run at the same time, and
\* which of a lost answer, a cancelled run, the operator's float and a worker
\* of the last transit that has not yet gone occur.
Deployment == [kind : [Tasks -> Kinds], together : BOOLEAN,
               occurs : SUBSET {"lost", "cancel", "operator", "late"}]

VARIABLES
  task,      \* the call: where it is, what is in its hands, what it has reported
  pending,   \* _pending, _pending_execution: plans that may still be executed
  decision,  \* AuthorizationStore._records
  plan,      \* the Provider's transit_plans: state, and for which kind of task
  expired,   \* plans and decisions whose expires_at_us has passed
  request,   \* the commit request of a task, served whether or not it waits
  current,   \* authorized_transit
  last,      \* last_authorized_transit
  status,    \* plan -> the status of its transit
  installs,  \* history: the transits installed
  arrived,   \* history: plans whose transit settled at its endpoint
  world      \* the deployment, a constant of each behaviour

agent == <<task, pending, decision>>
transit == <<current, last, status>>
history == <<installs, arrived>>
vars == <<agent, plan, expired, request, transit, history, world>>

Idle == [at |-> "idle", plan |-> None, decision |-> None, retried |-> FALSE, result |-> "none"]
NoRequest == [at |-> "none", plan |-> None, decision |-> None]
Unused == [status |-> "none", plan |-> None, issued |-> 0]

Init ==
  /\ task = [t \in Tasks |-> Idle]
  /\ pending = {}
  /\ decision = [d \in Decisions |-> Unused]
  /\ plan = [p \in Plans |-> [state |-> "none", for |-> "none"]]
  /\ expired = {}
  /\ request = [t \in Tasks |-> NoRequest]
  /\ current = None /\ last = None
  /\ status = [p \in Plans |-> "none"]
  /\ installs = {} /\ arrived = {}
  /\ world \in Deployments

-----------------------------------------------------------------------------
Kind(t) == world.kind[t]
At(t, at) == task[t].at = at
Working(t) == task[t].at \notin {"idle", "done"}
Occurs(what) == what \in world.occurs

Goto(t, at) == task' = [task EXCEPT ![t].at = at]
End(t, result) == task' = [task EXCEPT ![t].at = "done", ![t].result = result]

\* A task may begin, and nobody else is at work where tasks do not overlap.
MayStart(t) == At(t, "idle") /\ (world.together \/ \A u \in Tasks : ~Working(u))

Previewed(p, kind) == plan' = [plan EXCEPT ![p] = [state |-> "PLANNED", for |-> kind]]
PlanOf(t) == task[t].plan
\* A fresh uuid, while the instance has one.
UnusedPlans == {p \in Plans : plan[p].state = "none"}
UnusedDecisions == {d \in Decisions : decision[d].status = "none"}
Fresh(ids) == CHOOSE id \in ids : TRUE

-----------------------------------------------------------------------------
(* Previews and decisions.                                                  *)

\* A new agent turn forgets the approaches of earlier ones.
BeginTurn(t) ==
  /\ MayStart(t) /\ Kind(t) = "approach"
  /\ pending' = {p \in pending : plan[p].for # "approach"}
  /\ Goto(t, "plan")
  /\ UNCHANGED <<decision, plan, expired, request, transit, history, world>>

\* run and _attach_controller_preview, in a turn or in the recovery of a commit:
\* the one approach that may be executed, or an answer that nothing was submitted.
PlanApproach(t) ==
  /\ At(t, "plan")
  /\ \/ /\ UnusedPlans # {}
        /\ Previewed(Fresh(UnusedPlans), "approach")
        /\ pending' = {q \in pending : plan[q].for # "approach"} \cup {Fresh(UnusedPlans)}
        /\ Goto(t, "look")
     \/ End(t, "not submitted") /\ UNCHANGED <<pending, plan>>
  /\ UNCHANGED <<decision, expired, request, transit, history, world>>

\* prepare_for_call: the preview is stored and bound to the call, which alone
\* carries its id to execute.
PrepareRelative(t) ==
  /\ MayStart(t) /\ Kind(t) = "relative" /\ UnusedPlans # {}
  /\ LET p == Fresh(UnusedPlans)
     IN  /\ Previewed(p, "relative")
         /\ pending' = pending \cup {p}
         /\ task' = [task EXCEPT ![t].at = "check", ![t].plan = p]
  /\ UNCHANGED <<decision, expired, request, transit, history, world>>

Reviewed(d) == decision[d].status # "none" /\ plan[decision[d].plan].for = "review"

\* create_observation_motion_authorization, or POST /api/authorizations with the
\* same proposal once more.
RequestReview(p) ==
  /\ \E t \in Tasks : Kind(t) = "review"
  /\ UnusedDecisions # {} /\ p \notin expired
  /\ Cardinality({d \in Decisions : Reviewed(d)}) < MaxReviews
  /\ \/ UnusedPlans # {} /\ p = Fresh(UnusedPlans) /\ Previewed(p, "review")
     \/ plan[p].for = "review" /\ UNCHANGED plan
  /\ decision' = [decision EXCEPT ![Fresh(UnusedDecisions)] =
                    [status |-> "PENDING", plan |-> p, issued |-> 0]]
  /\ UNCHANGED <<task, pending, expired, request, transit, history, world>>

\* resolve: the operator's answer.
Resolve(d) ==
  /\ decision[d].status = "PENDING"
  /\ \E resolution \in {"APPROVED", "DENIED"} : decision' = [decision EXCEPT ![d].status = resolution]
  /\ UNCHANGED <<task, pending, plan, expired, request, transit, history, world>>

\* What issue_execution_assertion requires; the assertion expires with the
\* decision or with the preview.
Issuable(d) ==
  /\ decision[d].status = "APPROVED" /\ decision[d].issued = 0
  /\ {d, decision[d].plan} \cap expired = {}

\* POST .../execution-assertion: an assertion nobody commits.
HandOut(d) ==
  /\ Occurs("operator") /\ Reviewed(d) /\ Issuable(d)
  /\ decision' = [decision EXCEPT ![d].issued = @ + 1]
  /\ UNCHANGED <<task, pending, plan, expired, request, transit, history, world>>

\* expires_at_us passes, of what has not been committed; _expire gives a decision
\* that nobody answered its end.  A decision of the policy lasts as long as its
\* preview, to a tenth of a second.
Expire ==
  /\ \/ \E p \in Plans : plan[p].state = "PLANNED" /\ expired' = expired \cup {p} /\ UNCHANGED decision
     \/ \E d \in Decisions :
          /\ Reviewed(d) /\ plan[decision[d].plan].state = "PLANNED"
          /\ expired' = expired \cup {d}
          /\ decision' = [decision EXCEPT ![d].status = IF @ = "PENDING" THEN "EXPIRED" ELSE @]
  /\ UNCHANGED <<task, pending, plan, request, transit, history, world>>

-----------------------------------------------------------------------------
(* Execution: one assertion, one commit.                                    *)

Post(t, p, d) ==
  /\ request' = [request EXCEPT ![t] = [at |-> "sent", plan |-> p, decision |-> d]]
  /\ task' = [task EXCEPT ![t].at = "commit", ![t].plan = p, ![t].decision = d]

\* create, resolve and issue by the policy, without an await between them; the
\* plan is no longer pending when the commit is posted.
Commit(t, p) ==
  /\ UnusedDecisions # {}
  /\ LET d == Fresh(UnusedDecisions)
     IN  /\ decision' = [decision EXCEPT ![d] = [status |-> "APPROVED", plan |-> p, issued |-> 1]]
         /\ Post(t, p, d)
  /\ pending' = pending \ {p}

\* execute of the relative adapter, after its awaits: the preview is not pending
\* any more or too old, what it was computed from has changed, or it is committed.
ExecuteRelative(t) ==
  /\ At(t, "check")
  /\ \/ PlanOf(t) \in pending \ expired /\ Commit(t, PlanOf(t))
     \/ End(t, "raised") /\ UNCHANGED <<pending, decision, request>>
  /\ UNCHANGED <<plan, expired, transit, history, world>>

\* execute_current_preview picks the sole approach, whoever planned it.
LookForApproach(t) ==
  /\ At(t, "look")
  /\ LET mine == {p \in pending : plan[p].for = "approach"}
     IN  IF mine = {} THEN End(t, "not submitted")
         ELSE \E p \in mine : task' = [task EXCEPT ![t].at = "check approach", ![t].plan = p]
  /\ UNCHANGED <<pending, decision, plan, expired, request, transit, history, world>>

\* Once, a commit that can be repaired is planned anew.
Replan(t) ==
  IF task[t].retried THEN End(t, "not submitted")
  ELSE task' = [task EXCEPT ![t].at = "plan", ![t].retried = TRUE]

\* execute_preview under _pending_lock.
ExecuteApproach(t) ==
  /\ At(t, "check approach")
  /\ IF PlanOf(t) \notin pending
       THEN End(t, "not submitted") /\ UNCHANGED <<pending, decision, request>>
     ELSE IF PlanOf(t) \in expired
       THEN pending' = pending \ {PlanOf(t)} /\ Replan(t) /\ UNCHANGED <<decision, request>>
     ELSE Commit(t, PlanOf(t))
  /\ UNCHANGED <<plan, expired, transit, history, world>>

\* ReviewedObservationExecutionAdapter.run up to the answer of stage_scene.
LookAtReview(t, d) ==
  /\ MayStart(t) /\ Kind(t) = "review"
  /\ Reviewed(d) /\ decision[d].status = "APPROVED"
  /\ task' = [task EXCEPT ![t].at = "staged", ![t].plan = decision[d].plan, ![t].decision = d]
  /\ UNCHANGED <<pending, decision, plan, expired, request, transit, history, world>>

ExecuteReview(t) ==
  /\ At(t, "staged")
  /\ \/ /\ Issuable(task[t].decision)
        /\ decision' = [decision EXCEPT ![task[t].decision].issued = @ + 1]
        /\ Post(t, PlanOf(t), task[t].decision)
     \/ End(t, "raised") /\ UNCHANGED <<decision, request>>
  /\ UNCHANGED <<pending, plan, expired, transit, history, world>>

-----------------------------------------------------------------------------
(* The Provider: _direct_commit_transit_path.                               *)

Serving(t, at) == request[t].at = at
Serve(t, at) == request' = [request EXCEPT ![t].at = at]

\* On a copy of the plan: its state, its age, the assertion.
Verify(t) ==
  /\ Serving(t, "sent")
  /\ IF plan[request[t].plan].state # "PLANNED" THEN \E a \in {"refused", "stale"} : Serve(t, a)
     ELSE IF request[t].plan \in expired THEN Serve(t, "stale")
     ELSE IF request[t].decision \in expired THEN Serve(t, "refused")
     ELSE Serve(t, "verified")
  /\ UNCHANGED <<agent, plan, expired, transit, history, world>>

\* Mutant: the plan's state is not looked at again under the lock.
ConsumeUnchecked(t) ==
  /\ Serving(t, "verified")
  /\ plan' = [plan EXCEPT ![request[t].plan].state = "COMMITTING"]
  /\ Serve(t, "consumed")
  /\ UNCHANGED <<agent, expired, transit, history, world>>

\* The second look, under transit_plan_lock.
Consume(t) ==
  /\ Serving(t, "verified")
  /\ IF plan[request[t].plan].state = "PLANNED"
       THEN plan' = [plan EXCEPT ![request[t].plan].state = "COMMITTING"] /\ Serve(t, "consumed")
       ELSE Serve(t, "stale") /\ UNCHANGED plan
  /\ UNCHANGED <<agent, expired, transit, history, world>>

\* execute_authorized_transit: installed, in the place of one that waits for its
\* next; or refused, by itself or by the worker of the last transit, which has
\* not gone and now has this one.
Install(t) ==
  /\ Serving(t, "consumed")
  /\ LET p == request[t].plan
         chained == current # None
         Answered(state, answer) == plan' = [plan EXCEPT ![p].state = state] /\ Serve(t, answer)
     IN  \/ /\ chained => status[current] = "WAITING_NEXT"
            /\ current' = p
            /\ last' = IF chained THEN current ELSE last
            /\ status' = [q \in Plans |-> IF q = p THEN "EXECUTING"
                                          ELSE IF q = current THEN "CHAINED_TO_NEXT" ELSE status[q]]
            /\ installs' = installs \cup {[plan |-> p, decision |-> request[t].decision, by |-> t]}
            /\ \/ Answered("CONSUMED", "EXECUTING")
               \/ Occurs("late") /\ ~chained /\ Answered("REJECTED_AT_COMMIT", "refused")
         \/ /\ \E a \in {"refused", "stale"} : Answered("REJECTED_AT_COMMIT", a)
            /\ UNCHANGED <<transit, installs>>
  /\ UNCHANGED <<agent, expired, arrived, world>>

\* The answer; a review reports it and is done.
Answered(t) ==
  /\ At(t, "commit") /\ request[t].at \in {"EXECUTING", "refused", "stale"}
  /\ IF Serving(t, "EXECUTING")
       THEN IF Kind(t) = "review" THEN End(t, "submitted") ELSE Goto(t, "watch")
     ELSE IF Kind(t) # "approach" THEN End(t, "raised")
     ELSE IF Serving(t, "stale") THEN Replan(t) ELSE End(t, "not submitted")
  /\ request' = [request EXCEPT ![t] = NoRequest]
  /\ UNCHANGED <<pending, decision, plan, expired, transit, history, world>>

\* The client's timeout, or a connection that breaks: an error without a reason
\* that calls for another attempt.
Unanswered(t) ==
  /\ Occurs("lost") /\ At(t, "commit")
  /\ End(t, IF Kind(t) = "approach" THEN "not submitted" ELSE "raised")
  /\ UNCHANGED <<pending, decision, plan, expired, request, transit, history, world>>

-----------------------------------------------------------------------------
(* The watch: _wait_signed_transit_terminal, _wait_for_transit_terminal.    *)

\* Mutant: any transit that has floated is taken for the one awaited.
EndIsSeenAnywhere(t) ==
  \/ current = PlanOf(t) /\ Kind(t) = "approach" /\ status[current] = "WAITING_NEXT"
  \/ last # None /\ status[last] \in {"COMPLETED_FLOAT", "RELEASED"}

\* What the watcher takes for the end: for a plan that holds, its own transit
\* there; for one that floats, none active and the last one completed.
EndIsSeen(t) ==
  \/ current = PlanOf(t) /\ Kind(t) = "approach" /\ status[current] = "WAITING_NEXT"
  \/ current = None /\ Kind(t) = "relative" /\ last # None /\ status[last] = "COMPLETED_FLOAT"

FailureIsSeen(t) ==
  \/ current \notin {None, PlanOf(t)}
  \/ current = PlanOf(t) /\ status[current] = "FAILED"
  \/ current = None /\ last # None /\ status[last] = "FAILED"

\* One poll; a float that is not verified is an error as well.
Poll(t) ==
  /\ At(t, "watch")
  /\ \/ EndIsSeen(t) /\ End(t, "completed")
     \/ EndIsSeen(t) /\ current = None /\ Goto(t, "release")
     \/ FailureIsSeen(t) /\ Goto(t, "release")
  /\ UNCHANGED <<pending, decision, plan, expired, request, transit, history, world>>

\* The deadline, or a state request that fails.
Abandon(t) == At(t, "watch") /\ Goto(t, "release")
  /\ UNCHANGED <<pending, decision, plan, expired, request, transit, history, world>>

\* _cancel_active_trajectory, whichever transit is active.
Cancelled ==
  /\ current' = None
  /\ last' = IF current = None THEN last ELSE current
  /\ status' = [p \in Plans |-> IF p = current /\ status[p] # "FAILED" THEN "RELEASED" ELSE status[p]]

\* The except clause: release_transit_path, its own failure swallowed.
Release(t) ==
  /\ At(t, "release")
  /\ \/ Cancelled
     \/ Occurs("lost") /\ UNCHANGED transit
  /\ End(t, "failed")
  /\ UNCHANGED <<pending, decision, plan, expired, request, history, world>>

\* CancelledError passes the watch's except clause by.
CancelTask(t) ==
  /\ Occurs("cancel") /\ Working(t)
  /\ End(t, "cancelled")
  /\ UNCHANGED <<pending, decision, plan, expired, request, transit, history, world>>

-----------------------------------------------------------------------------
(* The transit, as its clients see it: see IntegratedTransit.               *)

\* Settled at the endpoint; a float is confirmed, and the transit over.
Arrive ==
  /\ current # None /\ status[current] = "EXECUTING"
  /\ arrived' = arrived \cup {current}
  /\ LET for == plan[current].for
     IN  /\ status' = [status EXCEPT ![current] = IF for = "relative" THEN "COMPLETED_FLOAT"
                                                  ELSE IF for = "approach" THEN "WAITING_NEXT"
                                                  ELSE "HOLDING_FINAL"]
         /\ IF for = "relative" THEN current' = None /\ last' = current
                                ELSE UNCHANGED <<current, last>>
  /\ UNCHANGED <<agent, plan, expired, request, installs, world>>

\* Thirty seconds without a next transit.
WaitIsOver ==
  /\ current # None /\ status[current] = "WAITING_NEXT"
  /\ status' = [status EXCEPT ![current] = "COMPLETED_FLOAT"]
  /\ current' = None /\ last' = current
  /\ UNCHANGED <<agent, plan, expired, request, history, world>>

\* The worker's exception handler, and then _fault_to_float.
Fault ==
  /\ current # None
  /\ last' = current
  /\ IF status[current] = "FAILED" THEN current' = None /\ UNCHANGED status
     ELSE status' = [status EXCEPT ![current] = "FAILED"] /\ UNCHANGED current
  /\ UNCHANGED <<agent, plan, expired, request, history, world>>

\* The operator's float or path-release.
OperatorFloat ==
  /\ Occurs("operator") /\ current # None
  /\ Cancelled
  /\ UNCHANGED <<agent, plan, expired, request, history, world>>

-----------------------------------------------------------------------------
Executing(t) ==
  \/ PlanApproach(t) \/ ExecuteRelative(t) \/ LookForApproach(t) \/ ExecuteApproach(t)
  \/ ExecuteReview(t) \/ Answered(t) \/ Poll(t) \/ Abandon(t) \/ Release(t)

Service(t) == Verify(t) \/ Consume(t) \/ Install(t)

Next ==
  \/ \E t \in Tasks : \/ BeginTurn(t) \/ PrepareRelative(t) \/ \E d \in Decisions : LookAtReview(t, d)
                      \/ Executing(t) \/ Service(t) \/ Unanswered(t) \/ CancelTask(t)
  \/ \E p \in Plans : RequestReview(p)
  \/ \E d \in Decisions : Resolve(d) \/ HandOut(d)
  \/ Expire
  \/ Arrive \/ WaitIsOver \/ Fault \/ OperatorFloat

\* A task goes on unless its ids have run out (a bound of the instance); the
\* Provider serves what it was asked.
Spec == Init /\ [][Next]_vars
        /\ \A t \in Tasks : WF_vars(Executing(t)) /\ WF_vars(Service(t))

-----------------------------------------------------------------------------
Call == [at : {"idle", "plan", "look", "check", "check approach", "staged", "commit",
               "watch", "release", "done"},
         plan : Plans \cup {None}, decision : Decisions \cup {None}, retried : BOOLEAN,
         result : {"none", "raised", "not submitted", "submitted", "completed",
                   "failed", "cancelled"}]
Authorization == [status : {"none", "PENDING", "APPROVED", "DENIED", "EXPIRED"},
                  plan : Plans \cup {None}, issued : Nat]
Preview == [state : {"none", "PLANNED", "COMMITTING", "CONSUMED", "REJECTED_AT_COMMIT"},
            for : Kinds \cup {"none"}]
Request == [at : {"none", "sent", "verified", "consumed", "EXECUTING", "refused", "stale"},
            plan : Plans \cup {None}, decision : Decisions \cup {None}]

TypeOK ==
  /\ task \in [Tasks -> Call]
  /\ pending \subseteq Plans /\ expired \subseteq Plans \cup Decisions
  /\ decision \in [Decisions -> Authorization]
  /\ plan \in [Plans -> Preview]
  /\ request \in [Tasks -> Request]
  /\ {current, last} \subseteq Plans \cup {None}
  /\ status \in [Plans -> {"none", "EXECUTING", "HOLDING_FINAL", "WAITING_NEXT", "COMPLETED_FLOAT",
                           "FAILED", "RELEASED", "CHAINED_TO_NEXT"}]
  /\ installs \subseteq [plan : Plans, decision : Decisions, by : Tasks]
  /\ arrived \subseteq Plans
  /\ world \in Deployments

\* One approval is one motion: a decision has at most one assertion, a plan is
\* installed at most once, and only under a decision about that plan which was
\* approved and has not been answered otherwise since (authorization.py:100-217,
\* service.py:1089-1105).
ApprovalIsSpentOnce ==
  /\ \A d \in Decisions : decision[d].issued <= 1
  /\ \A i \in installs :
       /\ decision[i.decision].status = "APPROVED" /\ decision[i.decision].plan = i.plan
       /\ \A j \in installs : j.plan = i.plan \/ j.decision = i.decision => j = i

Installed(t, p) == \E i \in installs : i.by = t /\ i.plan = p

\* No other task's transit moves the arm: one that was cancelled, or whose answer
\* was lost, leaves its transit moving.
Alone == ~world.together /\ world.occurs \cap {"lost", "cancel"} = {}

\* What a task reports is so.  A motion it calls completed has arrived, if it
\* is held at its end or no other task moves the arm; a motion it calls not
\* submitted is not installed by it, unless the answer was lost or a worker was
\* late; and a motion it calls failed is over, unless the release was lost
\* (no_contact_approach.py:1082-1188, 1400-1504).
ReportsAreTruthful ==
  \A t \in Tasks :
    LET result == task[t].result
    IN  /\ result = "completed" /\ (Kind(t) = "approach" \/ Alone) => PlanOf(t) \in arrived
        /\ result = "not submitted" /\ world.occurs \cap {"lost", "late"} = {} =>
             \A p \in Plans : ~Installed(t, p)
        /\ result = "failed" /\ ~Occurs("lost") => current # PlanOf(t)

\* Every task that has begun ends, whatever becomes of its transit: the watch
\* has a deadline.
Unfinished == \E t \in Tasks : Working(t)
TasksEnd == Unfinished ~> ~Unfinished
=============================================================================
