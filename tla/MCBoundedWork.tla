---------------------------- MODULE MCBoundedWork ----------------------------
(***************************************************************************)
(* Instances of work whose end must not depend on what it waits for, side  *)
(* by side: a behaviour is one of its "part", the others stand still.      *)
(*   "graph"  LimitedGraph over every graph of three inner nodes, of the   *)
(*            kinds below, and a terminal, started at the first; the last  *)
(*            is followed by the first or the terminal, or fails to the    *)
(*            second or the terminal; validation leaves the acceptable;    *)
(*   "agent"  AgentRun, one streaming run of the test agent;               *)
(*   "motion" ApprovedMotion: two calls that move the arm, one after the   *)
(*            other or at the same time, and what may go wrong with them.  *)
(***************************************************************************)
EXTENDS LimitedGraph, TLC

CONSTANTS a, b, c, z, Runs, Ops, MaxEvents, MaxDeltas, MaxCrashes,
          t1, t2, Tasks, Scenes, Plans, Decisions, MaxReviews, Nothing

ASSUME AgentBounds ==
  Runs # {} /\ MaxEvents \in Nat \ {0} /\ {MaxDeltas, MaxCrashes} \subseteq Nat
ASSUME MotionBounds == MaxReviews \in Nat /\ Nothing \notin Plans \cup Decisions

Config(kinds, nexts, fails) == [kind : kinds, next : nexts, fail : fails]

\* A read-only node may have two attempts; a manual one is always refused.
Graph(ca, cb, cc) ==
    LET s == (a :> ca) @@ (b :> cb) @@ (c :> cc)
    IN  [start |-> a,
         kind |-> [n \in Nodes |-> IF n = z THEN "TERMINAL" ELSE s[n].kind],
         next |-> [n \in Nodes |-> IF n = z THEN {} ELSE {s[n].next}],
         fail |-> [n \in Nodes |-> IF n = z THEN z ELSE s[n].fail],
         attempts |-> [n \in Nodes |-> IF n # z /\ s[n].kind = "READ" THEN 2 ELSE 1]]

MCGraphs == {Graph(ca, cb, cc) : ca \in Config({"MODEL", "PHYSICAL", "MANUAL"}, Nodes, Nodes),
                                 cb \in Config({"READ", "SWITCH", "PHYSICAL"}, Nodes, Nodes),
                                 cc \in Config({"PHYSICAL", "OTHER"}, {a, z}, {b, z})}

Motions(first, second, together, occurs) ==
    [kind |-> t1 :> first @@ t2 :> second, together |-> together, occurs |-> occurs]
MotionDeployments ==
    {Motions("approach", "relative", FALSE, {"operator"}),
     Motions("relative", "approach", FALSE, {"lost", "cancel"}),
     Motions("relative", "relative", FALSE, {"operator", "late"}),
     Motions("approach", "relative", TRUE, {}),
     Motions("review", "review", TRUE, {"operator"})}

-----------------------------------------------------------------------------
VARIABLES part,
          server, restarts, runStatus, log, task, granted, decisions, pending, stale,
          cancels, executed, read, closed, recording, queue, batch, rows, lost,
          call, executable, decision, plan, over, request, current, last, transits,
          installs, arrived, scene

agentVars == <<server, restarts, runStatus, log, task, granted, decisions, pending, stale,
               cancels, executed, read, closed, recording, queue, batch, rows, lost>>
motionVars == <<call, executable, decision, plan, over, request, current, last, transits,
                installs, arrived, scene>>
mcVars == <<part, vars, agentVars, motionVars>>

Agent == INSTANCE AgentRun WITH status <- runStatus
Motion == INSTANCE ApprovedMotion WITH
            Deployments <- Scenes,
            task <- call, pending <- executable, expired <- over, status <- transits,
            world <- scene, None <- Nothing

\* A part that stands still has one initial state.
StandingGraph == CHOOSE g \in Graphs : Valid(g)
StandingScene == CHOOSE w \in Scenes : TRUE
MCInit ==
  /\ part \in {"graph", "agent", "motion"}
  /\ Init /\ Agent!Init /\ Motion!Init
  /\ part # "graph" => graph = StandingGraph
  /\ part # "motion" => scene = StandingScene

OfGraph(A) == part = "graph" /\ A /\ UNCHANGED <<part, agentVars, motionVars>>
OfAgent(A) == part = "agent" /\ A /\ UNCHANGED <<part, vars, motionVars>>
OfMotion(A) == part = "motion" /\ A /\ UNCHANGED <<part, vars, agentVars>>

MCNext == OfGraph(Next) \/ OfAgent(Agent!Next) \/ OfMotion(Motion!Next)

\* A behaviour has one part, so that one condition can state the fairness of an
\* action of each part; what the conditions say is the fairness of each module.
MCSpec ==
  /\ MCInit /\ [][MCNext]_mcVars
  /\ \A r \in Runs :
       /\ WF_mcVars(OfGraph(Runner) \/ OfAgent(Agent!Expire(r)) \/ OfMotion(Motion!Executing(t1)))
       /\ WF_mcVars(OfGraph(Expire) \/ OfAgent(Agent!Expired(r)) \/ OfMotion(Motion!Service(t1)))
       /\ WF_mcVars(OfGraph(OnDeadline) \/ OfAgent(Agent!Unwind(r)) \/ OfMotion(Motion!Executing(t2)))
       /\ WF_mcVars(OfAgent(Agent!CancelDone(r)) \/ OfMotion(Motion!Service(t2)))

-----------------------------------------------------------------------------
\* AgentRun!ProtectedOnce: a protected operation is executed at most once in a
\* run, and only when the operator approved it.
ProtectedOnce == Agent!ProtectedOnce

\* AgentRun!StreamsEndWithTheRun: a reader is told that the stream is over only
\* after it has received the event that ended the run.
StreamsEndWithTheRun == Agent!StreamsEndWithTheRun

\* AgentRun!HistoryAgrees: the journal, when written, shows what the channel has.
HistoryAgrees == Agent!HistoryAgrees

\* ApprovedMotion!ApprovalIsSpentOnce: one approval is one assertion and one
\* transit of the plan it was given for.
ApprovalIsSpentOnce == Motion!ApprovalIsSpentOnce

\* ApprovedMotion!ReportsAreTruthful: what a call reports of its motion is so.
ReportsAreTruthful == Motion!ReportsAreTruthful

\* Work ends, whatever its children or its model do: a graph run is bounded by
\* its deadline and its limits (LimitedGraph!RunsEnd), an agent run ends or comes
\* to wait for the operator (AgentRun!RunsSettle), the end an agent run was given
\* is kept (AgentRun!EndIsFinal), and a call that moves the arm ends whatever
\* becomes of its transit (ApprovedMotion!TasksEnd).
InProgress == CASE part = "graph" -> Unfinished
                [] part = "agent" -> Agent!Unfinished
                [] part = "motion" -> Motion!Unfinished
WorkEnds == (InProgress ~> ~InProgress) /\ Agent!EndIsFinal
=============================================================================
