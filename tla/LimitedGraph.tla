---------------------------- MODULE LimitedGraph ----------------------------
(***************************************************************************)
(* The runner of limited graphs (skills/limited-graph): one validated      *)
(* graph of child Skills, switches, model routes and terminals, executed   *)
(* one node at a time under limits on visits, transitions, model routes,   *)
(* physical calls, retained results and active time.                       *)
(*                                                                         *)
(* The graph is chosen once, among the candidates that validation accepts, *)
(* so a property of every behaviour is a property of every accepted graph. *)
(* Reachability is stated with closed sets of nodes instead of the work    *)
(* lists of the code.  A skill and a model route follow a member of `next' *)
(* or their `fail' (failure_node, fallback_target); a switch follows a     *)
(* case in `next' or its default, which is `fail'.                         *)
(*                                                                         *)
(* The child Skills and the clock are the environment: a physical child    *)
(* may submit its motion at any time of its call, and even after the       *)
(* runner has stopped waiting for it.                                      *)
(***************************************************************************)
EXTENDS Integers, FiniteSets

CONSTANTS Nodes,          \* node ids
          Graphs,         \* candidate graphs
          MaxVisits,      \* limits.max_visits_per_node
          MaxTransitions, \* limits.max_transitions
          MaxModelRoutes, \* limits.max_model_routes
          MaxPhysical,    \* limits.max_physical_actions
          MaxRetained,    \* limits.max_retained_result_bytes
          Sizes           \* sizes a result may have

\* PHYSICAL, READ, OTHER and MANUAL are SKILL nodes, by safety class.
Kinds == {"PHYSICAL", "READ", "OTHER", "MANUAL", "SWITCH", "MODEL", "TERMINAL"}

GraphType == [start : Nodes, kind : [Nodes -> Kinds], next : [Nodes -> SUBSET Nodes],
              fail : [Nodes -> Nodes], attempts : [Nodes -> Nat \ {0}]]

ASSUME GraphsAssumption == Graphs \subseteq GraphType
ASSUME LimitsAssumption ==
    /\ {MaxVisits, MaxTransitions, MaxModelRoutes, MaxPhysical, MaxRetained} \subseteq Nat
    /\ Sizes \subseteq Nat

-----------------------------------------------------------------------------
(* Validation, before any child is called.                                  *)

Targets(g, n) == IF g.kind[n] = "TERMINAL" THEN {} ELSE g.next[n] \cup {g.fail[n]}

Closed(g, S) == \A n \in S : Targets(g, n) \subseteq S

\* Mutant: only a physical node that targets itself is refused.
OffCycleSelf(g, p) == p \notin Targets(g, p)

\* p cannot be reached again once one of its edges is followed.
OffCycle(g, p) ==
    \E S \in SUBSET Nodes : Targets(g, p) \subseteq S /\ Closed(g, S) /\ p \notin S

Valid(g) ==
    /\ \A n \in Nodes : g.kind[n] # "MANUAL"
    /\ \A n \in Nodes : g.attempts[n] > 1 => g.kind[n] = "READ"
    /\ \A S \in SUBSET Nodes : g.start \in S /\ Closed(g, S) => S = Nodes
    /\ \A S \in SUBSET Nodes \ {{}} :
           Closed(g, S) => \E n \in S : g.kind[n] = "TERMINAL"
    /\ \A p \in Nodes : g.kind[p] = "PHYSICAL" => OffCycle(g, p)

-----------------------------------------------------------------------------
VARIABLES graph,       \* the validated graph
          pc,          \* where the runner is
          cur,         \* the current node
          attempt,     \* the attempt at the current skill
          expired,     \* the deadline has passed
          visits, transitions, modelRoutes, physical, retained,
          results,     \* the nodes with a retained result
          status,      \* of the result, or "RUNNING"
          limit,       \* the limit the result names, or "none"
          acted,       \* the child of the current call has submitted its motion
          moved        \* how often each node's motion was submitted

vars == <<graph, pc, cur, attempt, expired, visits, transitions, modelRoutes,
          physical, retained, results, status, limit, acted, moved>>
data == <<retained, results>>
world == <<graph, expired, acted, moved>>

Init ==
    /\ graph \in {g \in Graphs : Valid(g)}
    /\ pc = "node"
    /\ cur = graph.start
    /\ attempt = 0
    /\ expired = FALSE
    /\ visits = [n \in Nodes |-> 0]
    /\ transitions = 0 /\ modelRoutes = 0 /\ physical = 0 /\ retained = 0
    /\ results = {}
    /\ status = "RUNNING"
    /\ limit = "none"
    /\ acted = FALSE
    /\ moved = [n \in Nodes |-> 0]

IsSkill(n) == graph.kind[n] \in {"PHYSICAL", "READ", "OTHER"}
IsPhysical(n) == graph.kind[n] = "PHYSICAL"

End(s) == pc' = "ended" /\ status' = s /\ UNCHANGED <<cur, attempt, transitions, limit>>

Exhaust(l) ==
    /\ pc' = "ended" /\ status' = "LIMIT_EXHAUSTED" /\ limit' = l
    /\ UNCHANGED <<cur, attempt>>

\* The edge to n is counted and followed, unless it is one too many.
Follow(n) ==
    /\ transitions' = transitions + 1
    /\ \/ transitions' > MaxTransitions /\ Exhaust("max_transitions")
       \/ /\ transitions' <= MaxTransitions
          /\ pc' = "node" /\ cur' = n
          /\ UNCHANGED <<attempt, status, limit>>

-----------------------------------------------------------------------------
(* The runner between two awaits.                                           *)

\* check_before_node, and a terminal.
Enter ==
    /\ pc = "node"
    /\ \/ expired /\ Exhaust("max_active_runtime_s") /\ UNCHANGED <<visits, transitions>>
       \/ /\ ~expired
          /\ visits' = [visits EXCEPT ![cur] = @ + 1]
          /\ \/ /\ visits'[cur] > MaxVisits
                /\ Exhaust("max_visits_per_node") /\ UNCHANGED transitions
             \/ /\ visits'[cur] <= MaxVisits /\ graph.kind[cur] = "TERMINAL"
                /\ End("COMPLETED")
             \/ /\ visits'[cur] <= MaxVisits /\ graph.kind[cur] # "TERMINAL"
                /\ pc' = "dispatch"
                /\ UNCHANGED <<cur, attempt, status, limit, transitions>>
    /\ UNCHANGED <<world, data, modelRoutes, physical>>

\* A binding, or the source of a switch, names a value that is not there.
DataError ==
    /\ pc = "dispatch"
    /\ End("FAILED")
    /\ modelRoutes' \in IF graph.kind[cur] = "MODEL" /\ modelRoutes < MaxModelRoutes
                        THEN {modelRoutes + 1} ELSE {modelRoutes}
    /\ graph.kind[cur] = "MODEL" => modelRoutes < MaxModelRoutes
    /\ UNCHANGED <<world, data, visits, physical>>

InvalidArguments ==
    /\ pc = "dispatch" /\ IsSkill(cur)
    /\ Follow(graph.fail[cur])
    /\ UNCHANGED <<world, data, visits, modelRoutes, physical>>

\* A physical call is counted before it is made.
Charge ==
    /\ pc = "dispatch" /\ IsSkill(cur)
    /\ \/ /\ IsPhysical(cur) /\ physical >= MaxPhysical
          /\ Exhaust("max_physical_actions")
          /\ UNCHANGED physical
       \/ /\ IsPhysical(cur) => physical < MaxPhysical
          /\ physical' = IF IsPhysical(cur) THEN physical + 1 ELSE physical
          /\ attempt' = 1
          /\ pc' = "attempt"
          /\ UNCHANGED <<cur, status, limit>>
    /\ UNCHANGED <<world, data, visits, modelRoutes, transitions>>

Switch ==
    /\ pc = "dispatch" /\ graph.kind[cur] = "SWITCH"
    /\ \E n \in Targets(graph, cur) : Follow(n)
    /\ UNCHANGED <<world, data, visits, modelRoutes, physical>>

\* With no route left to ask for, the fallback is taken at once.
Route ==
    /\ pc = "dispatch" /\ graph.kind[cur] = "MODEL"
    /\ \/ /\ modelRoutes >= MaxModelRoutes
          /\ Follow(graph.fail[cur])
          /\ UNCHANGED modelRoutes
       \/ /\ modelRoutes < MaxModelRoutes
          /\ modelRoutes' = modelRoutes + 1
          /\ pc' = "routing"
          /\ UNCHANGED <<cur, attempt, status, limit, transitions>>
    /\ UNCHANGED <<world, data, visits, physical>>

Invoke ==
    /\ pc = "attempt"
    /\ \/ expired /\ Exhaust("max_active_runtime_s") /\ UNCHANGED acted
       \/ /\ ~expired /\ pc' = "called" /\ acted' = FALSE
          /\ UNCHANGED <<cur, attempt, status, limit>>
    /\ UNCHANGED <<graph, expired, moved, data, visits, modelRoutes, physical, transitions>>

-----------------------------------------------------------------------------
(* What comes back from a call.                                             *)

Retry ==
    /\ pc' = "attempt" /\ attempt' = attempt + 1
    /\ UNCHANGED <<cur, status, limit, transitions>>

\* Mutant: a physical call that timed out takes the failure edge.
FailingSoft ==
    \/ graph.kind[cur] = "READ" /\ attempt < graph.attempts[cur] /\ Retry
    \/ ~(graph.kind[cur] = "READ" /\ attempt < graph.attempts[cur]) /\ Follow(graph.fail[cur])

\* A timeout, an exception, or a result that is not what the schema says.
Failing ==
    \/ IsPhysical(cur) /\ End("UNKNOWN_OUTCOME")
    \/ graph.kind[cur] = "READ" /\ attempt < graph.attempts[cur] /\ Retry
    \/ /\ ~IsPhysical(cur)
       /\ ~(graph.kind[cur] = "READ" /\ attempt < graph.attempts[cur])
       /\ Follow(graph.fail[cur])

Refund == IF IsPhysical(cur) THEN physical - 1 ELSE physical

Raised ==
    /\ pc \in {"called", "observed"}
    /\ Failing
    /\ UNCHANGED <<world, data, visits, modelRoutes, physical>>

\* A result is retained, if it fits, before anything is concluded from it.
Returned ==
    /\ pc = "called"
    /\ \E size \in Sizes :
         \/ /\ retained + size > MaxRetained
            /\ Exhaust("max_retained_result_bytes")
            /\ UNCHANGED data
         \/ /\ retained + size <= MaxRetained
            /\ retained' = retained + size
            /\ results' = results \cup {cur}
            /\ pc' = "observed"
            /\ UNCHANGED <<cur, attempt, status, limit>>
    /\ UNCHANGED <<world, visits, modelRoutes, physical, transitions>>

\* The verdict on a retained result: complete, incomplete, or to be retried.
Concluded ==
    /\ pc = "observed"
    /\ \/ \E n \in graph.next[cur] : Follow(n)
       \/ Follow(graph.fail[cur])
       \/ attempt < graph.attempts[cur] /\ Retry
    /\ UNCHANGED <<world, data, visits, modelRoutes, physical>>

\* ChildInvocationNotStarted or ChildPhysicalActionNotSubmitted.
NotSubmitted ==
    /\ pc = "called" /\ ~acted
    /\ physical' = Refund
    /\ Follow(graph.fail[cur])
    /\ UNCHANGED <<world, data, visits, modelRoutes>>

AuthorizationRequired ==
    /\ pc = "called" /\ ~acted
    /\ physical' = Refund
    /\ End("AUTHORIZATION_REQUIRED")
    /\ UNCHANGED <<world, data, visits, modelRoutes>>

\* The run is cancelled in an await: the error leaves the runner ("RAISED"),
\* unless a physical call was under way.
Cancelled ==
    /\ pc \in {"called", "observed", "routing"}
    /\ End(IF pc # "routing" /\ IsPhysical(cur) THEN "UNKNOWN_OUTCOME" ELSE "RAISED")
    /\ UNCHANGED <<world, data, visits, modelRoutes, physical>>

Routed ==
    /\ pc = "routing"
    /\ \E n \in graph.next[cur] : Follow(n)
    /\ UNCHANGED <<world, data, visits, modelRoutes, physical>>

RouteFailed ==
    /\ pc = "routing"
    /\ Follow(graph.fail[cur])
    /\ UNCHANGED <<world, data, visits, modelRoutes, physical>>

-----------------------------------------------------------------------------
(* The environment.                                                         *)

Expire ==
    /\ ~expired /\ pc # "ended"
    /\ expired' = TRUE
    /\ UNCHANGED <<graph, pc, cur, attempt, visits, transitions, modelRoutes, physical,
                   retained, results, status, limit, acted, moved>>

\* The child submits its motion: within its call, or late, from a thread the
\* cancelled call has left behind.
Submit ==
    /\ pc = "called" \/ status = "UNKNOWN_OUTCOME"
    /\ IsPhysical(cur) /\ ~acted
    /\ acted' = TRUE
    /\ moved' = [moved EXCEPT ![cur] = @ + 1]
    /\ UNCHANGED <<graph, pc, cur, attempt, expired, visits, transitions, modelRoutes,
                   physical, retained, results, status, limit>>

\* Mutant: nothing bounds the wait for a model route.
OnDeadlineUnbounded == expired /\ pc = "called" /\ Raised

\* asyncio.timeout(remaining) around the two awaits.
OnDeadline ==
    /\ expired
    /\ \/ pc = "called" /\ Raised
       \/ RouteFailed

Runner == Enter \/ DataError \/ InvalidArguments \/ Charge \/ Switch \/ Route
          \/ Invoke \/ Concluded

Answers == Raised \/ Returned \/ NotSubmitted \/ AuthorizationRequired
           \/ Routed \/ RouteFailed

Ended == pc = "ended" /\ UNCHANGED vars

Next == Runner \/ Answers \/ Cancelled \/ Expire \/ Submit \/ Ended

\* The event loop runs the runner and its timers; no child has to answer.
Fairness == WF_vars(Runner) /\ WF_vars(Expire) /\ WF_vars(OnDeadline)

Spec == Init /\ [][Next]_vars /\ Fairness

-----------------------------------------------------------------------------
(* Properties.                                                              *)

TypeOK ==
    /\ graph \in GraphType
    /\ pc \in {"node", "dispatch", "attempt", "called", "observed", "routing", "ended"}
    /\ cur \in Nodes
    /\ attempt \in Nat
    /\ expired \in BOOLEAN
    /\ visits \in [Nodes -> Nat]
    /\ transitions \in Nat /\ modelRoutes \in Nat
    /\ physical \in Int /\ retained \in Nat
    /\ results \subseteq Nodes
    /\ status \in {"RUNNING", "COMPLETED", "FAILED", "LIMIT_EXHAUSTED", "RAISED",
                   "UNKNOWN_OUTCOME", "AUTHORIZATION_REQUIRED"}
    /\ limit \in {"none", "max_active_runtime_s", "max_visits_per_node", "max_transitions",
                  "max_physical_actions", "max_retained_result_bytes"}
    /\ acted \in BOOLEAN
    /\ moved \in [Nodes -> Nat]

\* However the run winds through retries, failure edges, switches and model
\* routes, and whatever a child does late, one physical node of an accepted
\* graph moves the arm at most once.
PhysicalOnce == \A n \in Nodes : moved[n] <= 1

\* A run that ended with a motion submitted and no result of it says
\* UNKNOWN_OUTCOME, or names the one limit that discards a result: it never
\* ends as completed, failed, cancelled or unauthorised.
UncertainIsReported ==
    pc = "ended" =>
        \A n \in Nodes : moved[n] > 0 /\ n \notin results =>
            status = "UNKNOWN_OUTCOME" \/ limit = "max_retained_result_bytes"

\* The count of physical actions, after every refund, is never below the
\* motions that were really submitted, and never above the limit.
CountCoversMotion ==
    Cardinality({n \in Nodes : moved[n] > 0}) <= physical /\ physical <= MaxPhysical

\* The run's account of its motions is true: counted, and reported if uncertain.
MotionIsAccounted == CountCoversMotion /\ UncertainIsReported

\* A run ends whatever its children and its router do: the deadline bounds
\* every wait, and the limits every loop.
Unfinished == pc # "ended"
RunsEnd == Unfinished ~> ~Unfinished

=============================================================================
