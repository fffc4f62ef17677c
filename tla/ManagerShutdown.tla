-------------------------- MODULE ManagerShutdown --------------------------
(***************************************************************************)
(* The shutdown sequence of the Resource Provider Manager: a plan computed *)
(* from what the Manager knows of its Providers, the request to execute    *)
(* it, and the task that relinquishes the motion Providers, has Basic      *)
(* confirm a safe state, stops the other Providers and then Basic.  One    *)
(* step per mutex acquisition or external call of a Provider's turn.       *)
(*                                                                         *)
(* Of each Provider the Manager tracks the process it spawned and keeps    *)
(* the last report; ProviderLifecycle has both in detail.  Here a kill     *)
(* kills, and a report that has aged is flagged as expired at once.        *)
(***************************************************************************)
EXTENDS Naturals, FiniteSets

CONSTANTS
  Providers,         \* Providers that may be configured
  BasicArm,          \* those whose id names the Basic arm Provider
  NamedIntegrated,   \* those recognised as motion Providers by their id
  ReportMotion,      \* those whose report lists a robot.motion capability
  Moving,            \* those that do command motion, whatever they report
  WithoutSafePath,   \* those without a safe-state request path
  ForceKilled,       \* those with force_kill_on_stop_timeout
  Deployments,       \* the deployments looked at
  Handlers,          \* concurrent execute requests
  Requests,          \* request ids of the callers
  MaxPlans,          \* bound: plans made
  MaxExecutions,     \* bound: executions accepted
  None

ASSUME Roles ==
  /\ {BasicArm, NamedIntegrated, ReportMotion, Moving, WithoutSafePath,
      ForceKilled} \subseteq SUBSET Providers
  /\ BasicArm \cap Moving = {}
ASSUME Bounds ==
  /\ MaxPlans \in Nat /\ MaxExecutions \in Nat

\* A deployment: the Providers configured, those of them that outlived an
\* earlier Manager, whether a start in flight or a request brings one up under
\* the fence, and whether try_wait may answer an error.
Deployment == [configured : SUBSET Providers, adopted : SUBSET Providers,
               lateStarts : BOOLEAN, waitFails : BOOLEAN]
ASSUME DeploymentsAreTyped == Deployments \subseteq Deployment

VARIABLES
  up,       \* Providers whose process is running
  tracked,  \* processes[id].state
  report,   \* reports[id]
  fenced,   \* shutdown_fence is Some
  plan,     \* shutdown_plan
  record,   \* shutdown_execution
  handler,  \* the execute requests being served
  run,      \* the tasks spawned, by execution
  deployment \* a constant of each behaviour

vars == <<up, tracked, report, fenced, plan, record, handler, run, deployment>>

Steps == {"relinquish", "confirm", "others", "basic"}
Executions == 1 .. MaxExecutions
Terminal == {"BLOCKED", "PARTIAL_FAILURE", "AWAITING_SUPERVISOR"}

Plan == [id : 1 .. MaxPlans, motion : SUBSET Providers, basic : SUBSET Providers,
         other : SUBSET Providers, blocked : BOOLEAN]
Record == [execution : Executions, plan : 1 .. MaxPlans, request : Requests,
           state : Terminal \cup {"ACCEPTED", "RUNNING"}]
Handler == [at : {"idle", "check", "fence", "record"}, plan : Plan \cup {None},
            request : Requests \cup {None}]
Idle == [at |-> "idle", plan |-> None, request |-> None]
Run == [plan : Plan, at : Steps \cup {"start", "end"},
        todo : SUBSET Providers,          \* still to be dealt with in this step
        busy : Providers \cup {None},     \* its stop or safe-state call is pending
        failed : BOOLEAN,                 \* had_failure of this step
        ordinary : BOOLEAN,               \* ordinary_failure
        acked : SUBSET Providers]         \* history: termination allowed in this run
ASSUME NoneIsNothing == None \notin Plan \cup Record \cup Run \cup Providers \cup Requests

Init ==
  /\ deployment \in Deployments
  /\ up = deployment.adopted
  /\ tracked = [p \in Providers |-> "none"]
  /\ report = [p \in Providers |-> "none"]
  /\ fenced = FALSE
  /\ plan = None
  /\ record = None
  /\ handler = [h \in Handlers |-> Idle]
  /\ run = [e \in Executions |-> None]

\* refresh_process_state: the states an entry may have after try_wait.
Refreshed(p) ==
  CASE tracked[p] = "none" -> {"none"}
    [] tracked[p] # "none" /\ p \notin up -> {"exited"}
    [] OTHER -> {tracked[p]} \cup (IF deployment.waitFails THEN {"error"} ELSE {})

---------------------------------------------------------------------------
\* The Providers: started by requests, reporting, exiting, falling silent.
Start(p) ==
  /\ p \in deployment.configured
  /\ fenced => deployment.lateStarts
  /\ p \notin up
  /\ report[p] \in {"none", "expired"}
  /\ up' = up \cup {p}
  /\ tracked' = [tracked EXCEPT ![p] = "running"]
  /\ UNCHANGED <<report, fenced, plan, record, handler, run, deployment>>

SendReport(p, r) ==
  /\ p \in up
  /\ report' = [report EXCEPT ![p] = r]
  /\ UNCHANGED <<up, tracked, fenced, plan, record, handler, run, deployment>>

Expire(p) ==
  /\ report[p] \in {"ready", "unready"}
  /\ report' = [report EXCEPT ![p] = "expired"]
  /\ UNCHANGED <<up, tracked, fenced, plan, record, handler, run, deployment>>

Exit(p) ==
  /\ p \in up
  /\ up' = up \ {p}
  /\ UNCHANGED <<tracked, report, fenced, plan, record, handler, run, deployment>>

---------------------------------------------------------------------------
\* build_shutdown_plan
MotionCapable(p) == p \in NamedIntegrated \/ (p \in ReportMotion /\ report[p] # "none")
BasicPart == BasicArm \cap deployment.configured
MotionPart == {p \in deployment.configured \ BasicArm : MotionCapable(p)}
OtherPart == deployment.configured \ (BasicArm \cup MotionPart)
Blockers(running) ==
  (BasicPart \cap WithoutSafePath)
    \cup {p \in MotionPart \cap running : report[p] \in {"none", "expired"}}

\* create_shutdown_plan: its mutex acquisitions taken as one step.
CreatePlan ==
  /\ \E seen \in [Providers -> {"none", "running", "exited", "error"}] :
       /\ \A p \in Providers : seen[p] \in Refreshed(p)
       /\ tracked' = seen
       /\ \E n \in 1 .. MaxPlans :
            /\ n = IF plan = None THEN 1 ELSE plan.id + 1
            /\ plan' = [id |-> n, motion |-> MotionPart, basic |-> BasicPart,
                        other |-> OtherPart,
                        blocked |-> Blockers({p \in Providers : seen[p] = "running"}) # {}]
  /\ UNCHANGED <<up, report, fenced, record, handler, run, deployment>>

---------------------------------------------------------------------------
\* execute_shutdown_plan: the plan is cloned, then the record looked at, then
\* the fence and then the record set, each under its own mutex.
FetchPlan(h, r) ==
  /\ handler[h].at = "idle"
  /\ plan # None
  /\ ~plan.blocked
  /\ handler' = [handler EXCEPT ![h] = [at |-> "check", plan |-> plan, request |-> r]]
  /\ UNCHANGED <<up, tracked, report, fenced, plan, record, run, deployment>>

\* The record holds an execution that has not ended.
Active == record # None /\ record.state \in {"ACCEPTED", "RUNNING"}

Replayed(h) ==
  record # None /\ record.plan = handler[h].plan.id /\ record.request = handler[h].request

\* A repeated request is answered with the record, a rival one with a conflict.
Decline(h) ==
  /\ handler[h].at = "check"
  /\ Replayed(h) \/ Active
  /\ handler' = [handler EXCEPT ![h] = Idle]
  /\ UNCHANGED <<up, tracked, report, fenced, plan, record, run, deployment>>

Accept(h) ==
  /\ handler[h].at = "check"
  /\ ~Replayed(h) /\ ~Active
  /\ handler' = [handler EXCEPT ![h].at = "fence"]
  /\ UNCHANGED <<up, tracked, report, fenced, plan, record, run, deployment>>

RaiseFence(h) ==
  /\ handler[h].at = "fence"
  /\ fenced' = TRUE
  /\ handler' = [handler EXCEPT ![h].at = "record"]
  /\ UNCHANGED <<up, tracked, report, plan, record, run, deployment>>

\* The record is replaced and the task spawned.
SetRecord(h) ==
  /\ handler[h].at = "record"
  /\ \E e \in Executions :
       /\ run[e] = None
       /\ \A d \in 1 .. e - 1 : run[d] # None
       /\ record' = [execution |-> e, plan |-> handler[h].plan.id,
                     request |-> handler[h].request, state |-> "ACCEPTED"]
       /\ run' = [run EXCEPT ![e] =
                    [plan |-> handler[h].plan, at |-> "start", todo |-> {}, busy |-> None,
                     failed |-> FALSE, ordinary |-> FALSE, acked |-> {}]]
  /\ handler' = [handler EXCEPT ![h] = Idle]
  /\ UNCHANGED <<up, tracked, report, fenced, plan, deployment>>

---------------------------------------------------------------------------
\* run_shutdown_execution updates the record only while it is that of its
\* execution.
Recorded(e, state) ==
  IF record # None /\ record.execution = e THEN [record EXCEPT !.state = state] ELSE record

Begin(e) ==
  /\ run[e] # None /\ run[e].at = "start"
  /\ record' = Recorded(e, "RUNNING")
  /\ run' = [run EXCEPT ![e].at = "relinquish", ![e].todo = run[e].plan.motion]
  /\ UNCHANGED <<up, tracked, report, fenced, plan, handler, deployment>>

At(e, steps) == run[e] # None /\ run[e].at \in steps

\* Mutant: a failure is logged and not counted.
FailSilently(e, p) == [run EXCEPT ![e].todo = @ \ {p}, ![e].busy = None]

\* The turn of Provider p is over.
Confirm(e, p) == [run EXCEPT ![e].todo = @ \ {p}, ![e].busy = None]
Fail(e, p) == [run EXCEPT ![e].todo = @ \ {p}, ![e].busy = None, ![e].failed = TRUE]

\* stop_tracked_provider_for_shutdown and confirm_provider_safe_state begin
\* alike: a Provider the Manager tracks as running is called, one that is
\* ready and not tracked is a failure, any other one has already stopped.
Look(e, p) ==
  /\ At(e, Steps)
  /\ run[e].busy = None
  /\ p \in run[e].todo
  /\ \E s \in Refreshed(p) :
       /\ tracked' = [tracked EXCEPT ![p] = s]
       /\ run' = CASE s = "running" -> [run EXCEPT ![e].busy = p]
                   [] s = "none" /\ report[p] = "ready" -> Fail(e, p)
                   [] OTHER -> Confirm(e, p)
  /\ UNCHANGED <<up, report, fenced, plan, record, handler, deployment>>

\* The Provider's answer allows its termination.
Acknowledge(e, p) ==
  /\ At(e, {"confirm"})
  /\ run[e].busy = p
  /\ p \in up
  /\ run' = [Confirm(e, p) EXCEPT ![e].acked = @ \cup {p}]
  /\ UNCHANGED <<up, tracked, report, fenced, plan, record, handler, deployment>>

\* It does not, or there is no answer in time.
Refuse(e, p) ==
  /\ At(e, {"confirm"})
  /\ run[e].busy = p
  /\ run' = Fail(e, p)
  /\ UNCHANGED <<up, tracked, report, fenced, plan, record, handler, deployment>>

\* stop_provider_inner, as ProviderLifecycle has it step by step: the Provider
\* obeys, is killed after its timeout, or survives it.
Stopped(e, p) ==
  /\ At(e, Steps \ {"confirm"})
  /\ run[e].busy = p
  /\ p \notin up
  /\ tracked' = [tracked EXCEPT ![p] = "exited"]
  /\ run' = Confirm(e, p)
  /\ UNCHANGED <<up, report, fenced, plan, record, handler, deployment>>

Killed(e, p) ==
  /\ At(e, Steps \ {"confirm"})
  /\ run[e].busy = p
  /\ p \in up /\ p \in ForceKilled
  /\ up' = up \ {p}
  /\ tracked' = [tracked EXCEPT ![p] = "exited"]
  /\ run' = Confirm(e, p)
  /\ UNCHANGED <<report, fenced, plan, record, handler, deployment>>

StopFails(e, p) ==
  /\ At(e, Steps \ {"confirm"})
  /\ run[e].busy = p
  /\ p \in up
  /\ \E s \in Refreshed(p) : tracked' = [tracked EXCEPT ![p] = s]
  /\ run' = Fail(e, p)
  /\ UNCHANGED <<up, report, fenced, plan, record, handler, deployment>>

---------------------------------------------------------------------------
StepDone(e) == At(e, Steps) /\ run[e].busy = None /\ run[e].todo = {}

\* Mutant: a Basic Provider that refuses does not block the sequence.
SafetyStepsOfMotion == {"relinquish", "basic"}

\* The steps whose failure leaves Basic, the Fabric and the Manager running.
SafetySteps == Steps \ {"others"}

\* Mutant: the task returns before the record is marked as blocked.
BlockedUnrecorded(e) ==
  /\ StepDone(e) /\ run[e].failed /\ run[e].at \in SafetySteps
  /\ run' = [run EXCEPT ![e].at = "end"]
  /\ UNCHANGED <<up, tracked, report, fenced, plan, record, handler, deployment>>

Block(e) ==
  /\ StepDone(e) /\ run[e].failed /\ run[e].at \in SafetySteps
  /\ record' = Recorded(e, "BLOCKED")
  /\ run' = [run EXCEPT ![e].at = "end"]
  /\ UNCHANGED <<up, tracked, report, fenced, plan, handler, deployment>>

Passed(e) == StepDone(e) /\ ~(run[e].failed /\ run[e].at \in SafetySteps)

Enter(e, step, todo) ==
  run' = [run EXCEPT ![e].at = step, ![e].todo = todo, ![e].failed = FALSE,
                     ![e].ordinary = @ \/ run[e].failed]

NextStep(e) ==
  /\ Passed(e)
  /\ \/ run[e].at = "relinquish" /\ Enter(e, "confirm", run[e].plan.basic)
     \/ run[e].at = "confirm" /\ Enter(e, "others", run[e].plan.other)
     \/ run[e].at = "others" /\ Enter(e, "basic", run[e].plan.basic)
  /\ UNCHANGED <<up, tracked, report, fenced, plan, record, handler, deployment>>

Complete(e) ==
  /\ Passed(e) /\ run[e].at = "basic"
  /\ record' = Recorded(e, IF run[e].ordinary THEN "PARTIAL_FAILURE" ELSE "AWAITING_SUPERVISOR")
  /\ run' = [run EXCEPT ![e].at = "end"]
  /\ UNCHANGED <<up, tracked, report, fenced, plan, handler, deployment>>

---------------------------------------------------------------------------
Task(e) ==
  \/ Begin(e) \/ Block(e) \/ NextStep(e) \/ Complete(e)
  \/ \E p \in Providers :
       \/ Look(e, p) \/ Acknowledge(e, p) \/ Refuse(e, p)
       \/ Stopped(e, p) \/ Killed(e, p) \/ StopFails(e, p)

Serve(h) == Decline(h) \/ Accept(h) \/ RaiseFence(h) \/ SetRecord(h)

Next ==
  \/ \E p \in Providers :
       Start(p) \/ Expire(p) \/ Exit(p) \/ \E r \in {"ready", "unready"} : SendReport(p, r)
  \/ CreatePlan
  \/ \E h \in Handlers : Serve(h) \/ \E r \in Requests : FetchPlan(h, r)
  \/ \E e \in Executions : Task(e)

Spec == Init /\ [][Next]_vars

\* The spawned task runs on: every call it awaits has a timeout.
FairSpec == Spec /\ \A e \in Executions : WF_vars(Task(e))

---------------------------------------------------------------------------
\* Every variable has its type.
TypeOK ==
  /\ up \subseteq Providers
  /\ tracked \in [Providers -> {"none", "running", "exited", "error"}]
  /\ report \in [Providers -> {"none", "ready", "unready", "expired"}]
  /\ fenced \in BOOLEAN
  /\ plan \in Plan \cup {None}
  /\ record \in Record \cup {None}
  /\ handler \in [Handlers -> Handler]
  /\ run \in [Executions -> Run \cup {None}]
  /\ deployment \in Deployments

\* Basic is asked to stop only after it allowed its termination in this very
\* execution, however long its other Providers took and whatever an earlier
\* execution was told, unless it was started under the fence.
AckBeforeBasicStop ==
  ~deployment.lateStarts =>
    \A e \in Executions :
      At(e, {"basic"}) /\ run[e].busy # None => run[e].busy \in run[e].acked

\* While Basic is being asked whether it is safe to go, and from then on, no
\* Provider that commands motion is running: of those that the Manager has
\* started, before the fence, and that it can wait for.
MotionRelinquishedFirst ==
  ~deployment.lateStarts /\ ~deployment.waitFails /\ deployment.adopted = {} =>
    \A e \in Executions :
      At(e, {"confirm", "others", "basic"}) /\ run[e].busy # None => Moving \cap up = {}

\* Basic is the last to go, in both senses.
BasicStopsLast == AckBeforeBasicStop /\ MotionRelinquishedFirst

\* What the final state promises the supervisor who is about to stop the
\* Fabric and the Manager, of the same Providers: none runs, or only ordinary
\* ones do.
CompletionIsTruthful ==
  ~deployment.lateStarts /\ ~deployment.waitFails /\ deployment.adopted = {} /\ record # None =>
    /\ record.state = "AWAITING_SUPERVISOR" => up = {}
    /\ record.state = "PARTIAL_FAILURE" => up \cap (BasicArm \cup Moving) = {}

Running(e) == run[e] # None /\ run[e].at # "end"

\* One execution at a time, and it is the one the record shows: a task that is
\* still stopping Providers can be polled and cannot be overtaken by another.
RunsAreRecorded ==
  \A e \in Executions :
    Running(e) => record.execution = e /\ record.state \notin Terminal

\* The record is true while the execution runs and once it has ended.
RecordIsTruthful == RunsAreRecorded /\ CompletionIsTruthful

\* An accepted execution reaches a terminal state, although Providers may
\* refuse, hang, or restart; until then no other execution is accepted.
EveryExecutionEnds ==
  \A e \in Executions :
    LET ended == record # None /\ record.execution = e /\ record.state \in Terminal
    IN  record # None /\ record.execution = e ~> ended
=============================================================================
