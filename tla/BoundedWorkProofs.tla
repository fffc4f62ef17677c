------------------------- MODULE BoundedWorkProofs --------------------------
(***************************************************************************)
(* What the instances of MCBoundedWork guarantee for every value of the    *)
(* constants.                                                              *)
(*   The runner of limited graphs: no physical node of an accepted graph   *)
(* moves the arm twice, and the run's account of its motions is true,      *)
(* whatever its children and its clock do.                                 *)
(*   Approved motion: an approval is one assertion and one transit of its  *)
(* plan, and what a call reports of its motion is so.                      *)
(*   The test agent's runs: a protected operation is executed once and     *)
(* only as decided, a reader is told of an end it has seen, the journal    *)
(* agrees with the channel, and a run keeps its end.                       *)
(***************************************************************************)
EXTENDS MCBoundedWork, FiniteSetTheorems, SequenceTheorems, WellFoundedInduction, TLAPS

---------------------------------------------------------------------------
(* The runner of limited graphs.                                            *)

\* The control of the runner: what "pc" says of the current node.
Control ==
  /\ Valid(graph)
  /\ status = "RUNNING" <=> pc # "ended"
  /\ pc # "ended" => limit = "none"
  /\ pc \in {"dispatch", "attempt", "called", "observed", "routing"} =>
       graph.kind[cur] # "TERMINAL"
  /\ pc \in {"attempt", "called", "observed"} => attempt >= 1 /\ IsSkill(cur)
  /\ status = "UNKNOWN_OUTCOME" => IsPhysical(cur)

\* Node p lies behind: a closed set of nodes holds the current one and not p.
Past(p) == \E S \in SUBSET Nodes : Closed(graph, S) /\ cur \in S /\ p \notin S

\* A node that has moved the arm is physical, has done so once, and lies behind
\* unless its call is the current one, or the one the run ended with.
Once ==
  \A p \in Nodes : moved[p] > 0 =>
    /\ IsPhysical(p)
    /\ moved[p] = 1
    /\ Past(p) \/ (acted /\ cur = p /\ pc \in {"called", "observed", "ended"})

\* A motion without a result is that of the current call, or the run has ended
\* and says so.
Reported ==
  \A n \in Nodes : moved[n] > 0 /\ n \notin results =>
    \/ cur = n /\ pc = "called"
    \/ status = "UNKNOWN_OUTCOME"
    \/ limit = "max_retained_result_bytes"

\* The nodes whose motion is counted: it was submitted, or may still be.
Moved == {n \in Nodes : moved[n] > 0}
Charged ==
  IF IsPhysical(cur) /\ (pc \in {"attempt", "called", "observed"} \/ status = "UNKNOWN_OUTCOME")
  THEN Moved \cup {cur} ELSE Moved
Counted ==
  /\ IsFiniteSet(Charged)
  /\ Cardinality(Charged) <= physical
  /\ physical <= MaxPhysical

---------------------------------------------------------------------------
LEMMA InitTypeOK == Init => TypeOK
<1> SUFFICES ASSUME Init PROVE TypeOK
  OBVIOUS
<1>1. graph \in GraphType
  BY GraphsAssumption DEF Init
<1>2. cur \in Nodes
  BY <1>1 DEF Init, GraphType
<1>3. visits \in [Nodes -> Nat] /\ moved \in [Nodes -> Nat]
  BY DEF Init
<1>4. /\ pc = "node" /\ status = "RUNNING" /\ limit = "none"
      /\ attempt = 0 /\ transitions = 0 /\ modelRoutes = 0 /\ physical = 0 /\ retained = 0
      /\ results = {}
  BY DEF Init
<1>5. expired \in BOOLEAN /\ acted \in BOOLEAN
  BY DEF Init
<1> QED BY <1>1, <1>2, <1>3, <1>4, <1>5 DEF TypeOK

LEMMA NextTypeOK == TypeOK /\ [Next]_vars => TypeOK'
<1> SUFFICES ASSUME TypeOK, [Next]_vars PROVE TypeOK'
  OBVIOUS
<1> USE LimitsAssumption DEF TypeOK, GraphType, Exhaust, End, data, world
<1>1. CASE Enter
  BY <1>1 DEF Enter
<1>2. CASE DataError
  BY <1>2 DEF DataError
<1>3. CASE InvalidArguments
  BY <1>3 DEF InvalidArguments, Follow
<1>4. CASE Charge
  BY <1>4 DEF Charge
<1>5. CASE Switch
  BY <1>5 DEF Switch, Targets, Follow
<1>6. CASE Route
  BY <1>6 DEF Route, Follow
<1>7. CASE Invoke
  BY <1>7 DEF Invoke
<1>8. CASE Concluded
  BY <1>8 DEF Concluded, Follow, Retry
<1>9. CASE Raised
  BY <1>9 DEF Raised, Failing, Follow, Retry
<1>10. CASE Returned
  BY <1>10 DEF Returned
<1>11. CASE NotSubmitted
  BY <1>11 DEF NotSubmitted, Refund, Follow
<1>12. CASE AuthorizationRequired
  BY <1>12 DEF AuthorizationRequired, Refund
<1>13. CASE Routed
  BY <1>13 DEF Routed, Follow
<1>14. CASE RouteFailed
  BY <1>14 DEF RouteFailed, Follow
<1>15. CASE Cancelled
  BY <1>15 DEF Cancelled
<1>16. CASE Expire
  BY <1>16 DEF Expire
<1>17. CASE Submit
  BY <1>17 DEF Submit
<1>18. CASE Ended \/ UNCHANGED vars
  BY <1>18 DEF Ended, vars
<1> QED
  BY <1>1, <1>2, <1>3, <1>4, <1>5, <1>6, <1>7, <1>8, <1>9, <1>10, <1>11, <1>12, <1>13,
     <1>14, <1>15, <1>16, <1>17, <1>18 DEF Next, Runner, Answers

---------------------------------------------------------------------------
LEMMA InitControl == Init => Control
<1> SUFFICES ASSUME Init PROVE Control
  OBVIOUS
<1> QED BY DEF Init, Control

\* The graph is never changed.
LEMMA GraphStays == [Next]_vars => graph' = graph
  BY DEF Next, Runner, Answers, Enter, DataError, InvalidArguments, Charge, Switch, Route,
         Invoke, Concluded, Raised, Returned, NotSubmitted, AuthorizationRequired, Routed,
         RouteFailed, Cancelled, Expire, Submit, Ended, vars, world

LEMMA NextControl == TypeOK /\ Control /\ [Next]_vars => Control'
<1> SUFFICES ASSUME TypeOK, Control, [Next]_vars PROVE Control'
  OBVIOUS
<1>1. graph' = graph /\ Valid(graph)'
  BY GraphStays DEF Control
<1> USE <1>1 DEF Exhaust, End, data, world, IsSkill, IsPhysical
<1> DEFINE Rest ==
      /\ status = "RUNNING" <=> pc # "ended"
      /\ pc # "ended" => limit = "none"
      /\ pc \in {"dispatch", "attempt", "called", "observed", "routing"} =>
           graph.kind[cur] # "TERMINAL"
      /\ pc \in {"attempt", "called", "observed"} => attempt >= 1 /\ IsSkill(cur)
      /\ status = "UNKNOWN_OUTCOME" => IsPhysical(cur)
<1>2. Rest
  BY DEF Control
<1>3. SUFFICES Rest'
  BY DEF Control
<1>4. attempt \in Nat
  BY DEF TypeOK
<1>5. CASE Enter
  BY <1>2, <1>4, <1>5 DEF Enter
<1>6. CASE DataError
  BY <1>2, <1>4, <1>6 DEF DataError
<1>7. CASE InvalidArguments
  BY <1>2, <1>4, <1>7 DEF InvalidArguments, Follow
<1>8. CASE Charge
  BY <1>2, <1>4, <1>8 DEF Charge
<1>9. CASE Switch
  BY <1>2, <1>4, <1>9 DEF Switch, Follow
<1>10. CASE Route
  BY <1>2, <1>4, <1>10 DEF Route, Follow
<1>11. CASE Invoke
  BY <1>2, <1>4, <1>11 DEF Invoke
<1>12. CASE Concluded
  BY <1>2, <1>4, <1>12 DEF Concluded, Follow, Retry
<1>13. CASE Raised
  BY <1>2, <1>4, <1>13 DEF Raised, Failing, Follow, Retry
<1>14. CASE Returned
  BY <1>2, <1>4, <1>14 DEF Returned
<1>15. CASE NotSubmitted
  BY <1>2, <1>4, <1>15 DEF NotSubmitted, Follow
<1>16. CASE AuthorizationRequired
  BY <1>2, <1>4, <1>16 DEF AuthorizationRequired
<1>17. CASE Routed
  BY <1>2, <1>4, <1>17 DEF Routed, Follow
<1>18. CASE RouteFailed
  BY <1>2, <1>4, <1>18 DEF RouteFailed, Follow
<1>19. CASE Cancelled
  BY <1>2, <1>4, <1>19 DEF Cancelled
<1>20. CASE Expire
  BY <1>2, <1>4, <1>20 DEF Expire
<1>21. CASE Submit
  BY <1>2, <1>4, <1>21 DEF Submit
<1>22. CASE Ended \/ UNCHANGED vars
  BY <1>2, <1>4, <1>22 DEF Ended, vars
<1> QED
  BY <1>5, <1>6, <1>7, <1>8, <1>9, <1>10, <1>11, <1>12, <1>13, <1>14, <1>15, <1>16, <1>17,
     <1>18, <1>19, <1>20, <1>21, <1>22 DEF Next, Runner, Answers

---------------------------------------------------------------------------
\* No physical node moves the arm twice.

\* The current node does not lie behind, so a node that may still move has not.
LEMMA CurrentHasNotMoved ==
  ASSUME TypeOK, Once, ~acted \/ pc \notin {"called", "observed", "ended"}
  PROVE  moved[cur] = 0
  BY DEF TypeOK, Once, Past

\* What lies behind stays behind, and a physical node that is left lies behind.
LEMMA LeftBehind ==
  ASSUME TypeOK, Control, graph' = graph, NEW n \in Targets(graph, cur), cur' = n,
         NEW p \in Nodes, Past(p) \/ (cur = p /\ IsPhysical(p))
  PROVE  Past(p)'
<1>1. CASE Past(p)
  <2>1. PICK S \in SUBSET Nodes : Closed(graph, S) /\ cur \in S /\ p \notin S
    BY <1>1 DEF Past
  <2> QED BY <2>1 DEF Closed, Past
<1>2. CASE cur = p /\ IsPhysical(p)
  <2>1. PICK S \in SUBSET Nodes : Targets(graph, p) \subseteq S /\ Closed(graph, S) /\ p \notin S
    BY <1>2 DEF Control, Valid, OffCycle, IsPhysical
  <2> QED BY <1>2, <2>1 DEF Past
<1> QED BY <1>1, <1>2

\* The runner stays at the node, and does not forget that it has moved.
LEMMA StayKeepsOnce ==
  ASSUME TypeOK, Once, graph' = graph, cur' = cur, moved' = moved,
         \/ acted' = acted /\ pc' \in {"called", "observed", "ended"}
         \/ pc \notin {"called", "observed", "ended"}
         \/ ~IsPhysical(cur)
  PROVE  Once'
<1> SUFFICES ASSUME NEW p \in Nodes, moved[p] > 0
             PROVE  /\ IsPhysical(p) /\ moved[p] = 1
                    /\ \/ Past(p)'
                       \/ acted' /\ cur' = p /\ pc' \in {"called", "observed", "ended"}
  BY DEF Once, IsPhysical
<1>1. IsPhysical(p) /\ moved[p] = 1
  BY DEF Once
<1>2. CASE Past(p)
  BY <1>1, <1>2 DEF Past
<1>3. CASE acted /\ cur = p /\ pc \in {"called", "observed", "ended"}
  BY <1>1, <1>3
<1> QED BY <1>2, <1>3 DEF Once

LEMMA FollowKeepsOnce ==
  ASSUME TypeOK, Control, Once, graph' = graph, moved' = moved, acted' = acted,
         NEW n \in Targets(graph, cur), Follow(n)
  PROVE  Once'
<1>1. CASE cur' = cur /\ pc' = "ended"
  BY <1>1, StayKeepsOnce
<1>2. CASE cur' = n /\ pc' = "node"
  <2>1. ASSUME NEW p \in Nodes, moved[p] > 0
        PROVE  IsPhysical(p) /\ moved[p] = 1 /\ Past(p)'
    BY <1>2, <2>1, LeftBehind DEF Once
  <2> QED BY <2>1 DEF Once, IsPhysical
<1> QED BY <1>1, <1>2 DEF Follow, Exhaust

LEMMA InitOnce == Init => Once
  BY DEF Init, Once

LEMMA NextOnce == TypeOK /\ Control /\ Once /\ [Next]_vars => Once'
<1> SUFFICES ASSUME TypeOK, Control, Once, [Next]_vars PROVE Once'
  OBVIOUS
<1>1. graph' = graph
  BY GraphStays
<1>2. \A n \in graph.next[cur] \cup {graph.fail[cur]} :
        pc \in {"dispatch", "attempt", "called", "observed", "routing"} =>
          n \in Targets(graph, cur)
  BY DEF Control, Targets
<1>3. CASE Enter
  BY <1>1, <1>3, StayKeepsOnce DEF Enter, Exhaust, End, world
<1>4. CASE DataError
  BY <1>1, <1>4, StayKeepsOnce DEF DataError, End, world
<1>5. CASE InvalidArguments
  BY <1>1, <1>2, <1>5, FollowKeepsOnce DEF InvalidArguments, world
<1>6. CASE Charge
  BY <1>1, <1>6, StayKeepsOnce DEF Charge, Exhaust, world
<1>7. CASE Switch
  BY <1>1, <1>7, FollowKeepsOnce DEF Switch, world
<1>8. CASE Route
  BY <1>1, <1>2, <1>8, StayKeepsOnce, FollowKeepsOnce DEF Route, world
<1>9. CASE Invoke
  BY <1>1, <1>9, StayKeepsOnce DEF Invoke, Exhaust
<1>10. ASSUME pc \in {"called", "observed"}, Retry, graph.attempts[cur] > 1,
              UNCHANGED <<moved, acted>>
       PROVE  Once'
  BY <1>1, <1>10, StayKeepsOnce DEF Retry, Control, Valid, IsPhysical, TypeOK
<1>11. CASE Concluded
  <2>1. CASE \E n \in graph.next[cur] \cup {graph.fail[cur]} : Follow(n)
    BY <1>1, <1>2, <1>11, <2>1, FollowKeepsOnce DEF Concluded, world
  <2>2. CASE attempt < graph.attempts[cur] /\ Retry
    BY <1>10, <1>11, <2>2 DEF Concluded, world, Control, TypeOK, GraphType
  <2> QED BY <1>11, <2>1, <2>2 DEF Concluded
<1>12. CASE Raised
  <2>1. CASE End("UNKNOWN_OUTCOME")
    BY <1>1, <1>12, <2>1, StayKeepsOnce DEF Raised, End, world
  <2>2. CASE graph.kind[cur] = "READ" /\ attempt < graph.attempts[cur] /\ Retry
    BY <1>10, <1>12, <2>2 DEF Raised, world, Control, TypeOK, GraphType
  <2>3. CASE Follow(graph.fail[cur])
    BY <1>1, <1>2, <1>12, <2>3, FollowKeepsOnce DEF Raised, world
  <2> QED BY <1>12, <2>1, <2>2, <2>3 DEF Raised, Failing
<1>13. CASE Returned
  BY <1>1, <1>13, StayKeepsOnce DEF Returned, Exhaust, world
<1>14. CASE NotSubmitted
  BY <1>1, <1>2, <1>14, FollowKeepsOnce DEF NotSubmitted, world
<1>15. CASE AuthorizationRequired \/ Cancelled
  BY <1>1, <1>15, StayKeepsOnce DEF AuthorizationRequired, Cancelled, End, world
<1>16. CASE Routed \/ RouteFailed
  BY <1>1, <1>2, <1>16, FollowKeepsOnce DEF Routed, RouteFailed, world
<1>17. CASE Expire
  BY <1>1, <1>17 DEF Expire, Once, Past, IsPhysical
<1>18. CASE Submit
  <2>1. moved[cur] = 0 /\ IsPhysical(cur) /\ pc \in {"called", "ended"}
    BY <1>18, CurrentHasNotMoved DEF Submit, Control
  <2>2. moved' = [moved EXCEPT ![cur] = 1] /\ cur \in Nodes
    BY <1>18, <2>1 DEF Submit, TypeOK
  <2>3. ASSUME NEW p \in Nodes, moved'[p] > 0
        PROVE  /\ IsPhysical(p)' /\ moved'[p] = 1
               /\ Past(p)' \/ (acted' /\ cur' = p /\ pc' \in {"called", "observed", "ended"})
    <3>1. CASE p = cur
      BY <1>1, <1>18, <2>1, <2>2, <3>1 DEF Submit, IsPhysical, TypeOK
    <3>2. CASE p # cur
      BY <1>1, <1>18, <2>2, <2>3, <3>2 DEF Submit, IsPhysical, TypeOK, Once, Past
    <3> QED BY <3>1, <3>2
  <2> QED BY <2>3 DEF Once
<1>19. CASE Ended \/ UNCHANGED vars
  BY <1>19 DEF Ended, vars, Once, Past, IsPhysical
<1> QED
  BY <1>3, <1>4, <1>5, <1>6, <1>7, <1>8, <1>9, <1>11, <1>12, <1>13, <1>14, <1>15, <1>16,
     <1>17, <1>18, <1>19 DEF Next, Runner, Answers

---------------------------------------------------------------------------
\* A motion without a result is reported as uncertain.

LEMMA InitReported == Init => Reported
  BY DEF Init, Reported

LEMMA NextReported ==
  TypeOK /\ Control /\ Once /\ Reported /\ [Next]_vars => Reported'
<1> SUFFICES ASSUME TypeOK, Control, Once, Reported, [Next]_vars,
                    NEW n \in Nodes, moved'[n] > 0, n \notin results'
             PROVE  \/ cur' = n /\ pc' = "called"
                    \/ status' = "UNKNOWN_OUTCOME"
                    \/ limit' = "max_retained_result_bytes"
  BY DEF Reported
<1>1. CASE pc \notin {"called", "ended"} /\ moved' = moved
  <2>1. results' = results /\ moved[n] > 0
    BY <1>1 DEF Next, Runner, Answers, Enter, DataError, InvalidArguments, Charge, Switch, Route,
       Invoke, Concluded, Raised, Returned, NotSubmitted, AuthorizationRequired, Routed,
       RouteFailed, Cancelled, Expire, Submit, Ended, vars, data
  <2>2. FALSE
    BY <1>1, <2>1 DEF Reported, Control
  <2> QED BY <2>2
<1>2. CASE Submit
  BY <1>2 DEF Submit, TypeOK, Reported, Control
<1>3. CASE UNCHANGED <<moved, cur, pc, status, limit, results>>
  BY <1>3 DEF Reported
<1>4. CASE pc = "called" /\ moved' = moved /\ results' \in {results, results \cup {cur}}
  <2>1. cur = n /\ IsPhysical(cur) /\ acted
    BY <1>4 DEF Reported, Control, Once, TypeOK, Past
  <2>2. CASE Raised
    BY <2>1, <2>2 DEF Raised, Failing, End, IsPhysical
  <2>3. CASE Returned
    BY <1>4, <2>1, <2>3 DEF Returned, Exhaust
  <2>4. CASE NotSubmitted \/ AuthorizationRequired
    BY <2>1, <2>4 DEF NotSubmitted, AuthorizationRequired
  <2>5. CASE Cancelled
    BY <1>4, <2>1, <2>5 DEF Cancelled, End
  <2>6. CASE Expire
    BY <1>4, <2>1, <2>6 DEF Expire
  <2> QED
    BY <1>2, <1>3, <1>4, <2>2, <2>3, <2>4, <2>5, <2>6
    DEF Next, Runner, Answers, Enter, DataError, InvalidArguments, Charge, Switch, Route,
        Invoke, Concluded, Routed, RouteFailed, Ended, vars
<1>5. \/ moved' = moved
      \/ Submit
  BY DEF Next, Runner, Answers, Enter, DataError, InvalidArguments, Charge, Switch, Route,
     Invoke, Concluded, Raised, Returned, NotSubmitted, AuthorizationRequired, Routed,
     RouteFailed, Cancelled, Expire, Ended, vars, world
<1>6. results' \in {results, results \cup {cur}}
  BY DEF Next, Runner, Answers, Enter, DataError, InvalidArguments, Charge, Switch, Route,
     Invoke, Concluded, Raised, Returned, NotSubmitted, AuthorizationRequired, Routed,
     RouteFailed, Cancelled, Expire, Submit, Ended, vars, data
<1>7. CASE pc = "ended"
  BY <1>2, <1>3, <1>7
  DEF Next, Runner, Answers, Enter, DataError, InvalidArguments, Charge, Switch, Route, Invoke,
      Concluded, Raised, Returned, NotSubmitted, AuthorizationRequired, Routed, RouteFailed,
      Cancelled, Expire, Ended, vars
<1> QED BY <1>1, <1>2, <1>4, <1>5, <1>6, <1>7

---------------------------------------------------------------------------
\* The count of physical actions covers the motions.

LEMMA FewerCounted ==
  ASSUME Counted, Charged' \subseteq Charged, physical' = physical, physical \in Int,
         MaxPhysical \in Nat
  PROVE  Counted'
<1>1. IsFiniteSet(Charged') /\ Cardinality(Charged') <= Cardinality(Charged)
  BY FS_Subset DEF Counted
<1>2. Cardinality(Charged') \in Nat /\ Cardinality(Charged) \in Nat
  BY <1>1, FS_CardinalityType DEF Counted
<1> QED BY <1>1, <1>2 DEF Counted

LEMMA InitCounted == Init => Counted
<1> SUFFICES ASSUME Init PROVE Counted
  OBVIOUS
<1>1. Charged = {}
  BY DEF Init, Charged, Moved
<1> QED BY <1>1, FS_EmptySet, LimitsAssumption DEF Counted, Init

LEMMA NextCounted ==
  TypeOK /\ Control /\ Once /\ Counted /\ [Next]_vars => Counted'
<1> SUFFICES ASSUME TypeOK, Control, Once, Counted, [Next]_vars PROVE Counted'
  OBVIOUS
<1>1. graph' = graph /\ physical \in Int /\ MaxPhysical \in Nat /\ cur \in Nodes
  BY GraphStays, LimitsAssumption DEF TypeOK
<1>2. CASE Charge
  <2>1. CASE IsPhysical(cur) /\ physical < MaxPhysical
    <3>1. Charged = Moved /\ Charged' = Charged \cup {cur} /\ physical' = physical + 1
      BY <1>1, <1>2, <2>1 DEF Charge, Exhaust, Charged, Moved, Control, IsPhysical, world
    <3>2. /\ IsFiniteSet(Charged')
          /\ Cardinality(Charged') <= Cardinality(Charged) + 1
      BY <3>1, FS_AddElement, FS_CardinalityType DEF Counted
    <3>3. Cardinality(Charged') \in Nat /\ Cardinality(Charged) \in Nat
      BY <3>2, FS_CardinalityType DEF Counted
    <3> QED BY <1>1, <2>1, <3>1, <3>2, <3>3 DEF Counted
  <2>2. CASE ~(IsPhysical(cur) /\ physical < MaxPhysical)
    <3>1. Charged' \subseteq Charged /\ physical' = physical
      BY <1>1, <1>2, <2>2 DEF Charge, Exhaust, Charged, Moved, Control, IsPhysical, world
    <3> QED BY <1>1, <3>1, FewerCounted
  <2> QED BY <2>1, <2>2
<1>3. CASE NotSubmitted \/ AuthorizationRequired
  <2>1. moved[cur] = 0
    BY <1>3, CurrentHasNotMoved DEF NotSubmitted, AuthorizationRequired
  <2>2. Charged' = Moved
    BY <1>1, <1>3 DEF NotSubmitted, AuthorizationRequired, End, Follow, Exhaust, Charged, Moved,
       world, Control
  <2>3. CASE IsPhysical(cur)
    <3>1. Charged = Moved \cup {cur} /\ cur \notin Moved /\ physical' = physical - 1
      BY <1>3, <2>1, <2>3 DEF NotSubmitted, AuthorizationRequired, Refund, Charged, Moved
    <3>2. Charged' = Charged \ {cur}
      BY <2>2, <3>1
    <3>3. /\ IsFiniteSet(Charged')
          /\ Cardinality(Charged') = Cardinality(Charged) - 1
      BY <3>1, <3>2, FS_RemoveElement DEF Counted
    <3>4. Cardinality(Charged) \in Nat
      BY FS_CardinalityType DEF Counted
    <3> QED BY <1>1, <3>1, <3>3, <3>4 DEF Counted
  <2>4. CASE ~IsPhysical(cur)
    <3>1. Charged' \subseteq Charged /\ physical' = physical
      BY <1>3, <2>2, <2>4 DEF NotSubmitted, AuthorizationRequired, Refund, Charged
    <3> QED BY <1>1, <3>1, FewerCounted
  <2> QED BY <2>3, <2>4
<1>4. CASE Submit
  <2>1. Charged' \subseteq Charged
    BY <1>1, <1>4 DEF Submit, Charged, Moved, IsPhysical, TypeOK
  <2> QED BY <1>1, <1>4, <2>1, FewerCounted DEF Submit
<1>5. CASE Enter \/ DataError \/ InvalidArguments \/ Switch \/ Route \/ Routed \/ RouteFailed
  <2>1. moved' = moved /\ physical' = physical
    BY <1>5 DEF Enter, DataError, InvalidArguments, Switch, Route, Routed, RouteFailed, world
  <2>2. pc' \notin {"attempt", "called", "observed"} /\ status' # "UNKNOWN_OUTCOME"
    BY <1>5 DEF Enter, DataError, InvalidArguments, Switch, Route, Routed, RouteFailed, End,
       Exhaust, Follow, Control
  <2>3. Charged' \subseteq Charged
    BY <2>1, <2>2 DEF Charged, Moved
  <2> QED BY <1>1, <2>1, <2>3, FewerCounted
<1>6. CASE Invoke \/ Concluded \/ Raised \/ Returned \/ Cancelled
  <2>1. moved' = moved /\ physical' = physical
    BY <1>6 DEF Invoke, Concluded, Raised, Returned, Cancelled, world
  <2>2. \/ pc' \notin {"attempt", "called", "observed"} /\ status' # "UNKNOWN_OUTCOME"
        \/ cur' = cur /\ (pc \in {"attempt", "called", "observed"} \/ ~IsPhysical(cur))
    BY <1>6 DEF Invoke, Concluded, Raised, Returned, Cancelled, End, Exhaust, Follow, Retry,
       Failing, Control
  <2>3. Charged' \subseteq Charged
    BY <1>1, <2>1, <2>2 DEF Charged, Moved, IsPhysical
  <2> QED BY <1>1, <2>1, <2>3, FewerCounted
<1>7. CASE Expire \/ Ended \/ UNCHANGED vars
  <2>1. UNCHANGED <<moved, physical, cur, pc, status>>
    BY <1>7 DEF Expire, Ended, vars
  <2>2. Charged' = Charged
    BY <1>1, <2>1 DEF Charged, Moved, IsPhysical
  <2> QED BY <1>1, <2>1, <2>2, FewerCounted
<1> QED BY <1>2, <1>3, <1>4, <1>5, <1>6, <1>7 DEF Next, Runner, Answers

---------------------------------------------------------------------------
\* What is invariant of the runner, and enough to prove what follows.
Invariant == TypeOK /\ Control /\ Once /\ Reported /\ Counted

LEMMA InvariantHolds == Init /\ [][Next]_vars => []Invariant
<1>1. Init => Invariant
  BY InitTypeOK, InitControl, InitOnce, InitReported, InitCounted DEF Invariant
<1>2. Invariant /\ [Next]_vars => Invariant'
  BY NextTypeOK, NextControl, NextOnce, NextReported, NextCounted DEF Invariant
<1> QED BY <1>1, <1>2, PTL

LEMMA InvariantIsEnough ==
  ASSUME Invariant
  PROVE  PhysicalOnce /\ MotionIsAccounted
<1>1. PhysicalOnce
  BY DEF Invariant, Once, PhysicalOnce, TypeOK
<1>2. UncertainIsReported
  BY DEF Invariant, Reported, UncertainIsReported
<1>3. CountCoversMotion
  <2>1. Moved \subseteq Charged /\ IsFiniteSet(Charged)
    BY DEF Invariant, Counted, Charged
  <2>2. IsFiniteSet(Moved) /\ Cardinality(Moved) <= Cardinality(Charged)
    BY <2>1, FS_Subset
  <2>3. Cardinality(Moved) \in Nat /\ Cardinality(Charged) \in Nat
    BY <2>1, <2>2, FS_CardinalityType
  <2> QED BY <2>2, <2>3 DEF Invariant, Counted, CountCoversMotion, Moved, TypeOK
<1> QED BY <1>1, <1>2, <1>3 DEF MotionIsAccounted

\* Every variable of the runner has its type.
THEOREM RunnerTypeCorrect == Spec => []TypeOK
BY InvariantHolds, PTL DEF Invariant, Spec

\* No accepted graph moves the arm twice at one node (validate_graph, run).
THEOREM PhysicalNodesActOnce == Spec => []PhysicalOnce
BY InvariantHolds, InvariantIsEnough, PTL DEF Spec

\* The physical count covers the motions and keeps its limit, and a motion that
\* has no result is reported (_run_skill, final_result).
THEOREM MotionsAreAccounted == Spec => []MotionIsAccounted
BY InvariantHolds, InvariantIsEnough, PTL DEF Spec

---------------------------------------------------------------------------
(* Approved motion.                                                         *)

\* Decision d has been approved about plan p, and its assertion is issued.
Issued(d, p) ==
  /\ d \in Decisions /\ p \in Plans
  /\ decision[d].status = "APPROVED" /\ decision[d].issued = 1 /\ decision[d].plan = p
Decided(d, p) ==
  d \in Decisions /\ p \in Plans /\ decision[d].status # "none" /\ decision[d].plan = p
DecisionsIssueOnce ==
  \A d \in Decisions : /\ decision[d].issued <= 1
                       /\ decision[d].status # "APPROVED" => decision[d].issued = 0
                       /\ decision[d].status # "none" => decision[d].plan \in Plans

\* A commit is of an issued decision; a plan consumed is one request's, and what
\* is installed has been consumed.
CommitsAreIssued ==
  \A t \in Tasks :
    /\ request[t].at # "none" => Issued(request[t].decision, request[t].plan)
    /\ request[t].at = "consumed" =>
         /\ plan[request[t].plan].state = "COMMITTING"
         /\ \A u \in Tasks : request[u].at = "consumed" /\ request[u].plan = request[t].plan => u = t
    /\ request[t].at = "EXECUTING" => plan[request[t].plan].state = "CONSUMED"
InstallsAreConsumed ==
  \A i \in installs :
    /\ Issued(i.decision, i.plan)
    /\ plan[i.plan].state \in {"CONSUMED", "REJECTED_AT_COMMIT"}
    /\ \A j \in installs : j.plan = i.plan => j = i

\* What a call has in its hands.
Moves(t) == \/ call[t].at \in {"watch", "release"}
            \/ call[t].at = "commit" /\ request[t].at = "EXECUTING"
Awaits(t) == call[t].at = "commit" \/ (call[t].at = "done" /\ call[t].result # "not submitted")
CallsHold ==
  \A t \in Tasks :
    /\ call[t].at # "done" => call[t].result = "none"
    /\ call[t].at = "staged" => Decided(call[t].decision, call[t].plan)
    /\ call[t].at = "commit" => request[t].at # "none" /\ request[t].plan = call[t].plan
    /\ call[t].at \in {"watch", "release"} \/ call[t].result = "failed" =>
         call[t].plan \in Plans /\ plan[call[t].plan].state = "CONSUMED"
    /\ call[t].result = "failed" /\ ~Motion!Occurs("lost") => current # call[t].plan

\* Unless an answer is lost, a request is served while its call waits, or was
\* cancelled; and unless a worker is late, what is installed is known of.
RequestsAreAwaited ==
  ~Motion!Occurs("lost") => \A t \in Tasks : request[t].at # "none" => Awaits(t)
InstallsAreAnswered ==
  scene.occurs \cap {"lost", "late"} = {} =>
    \A i \in installs : Moves(i.by) \/ (call[i.by].at = "done" /\ call[i.by].result # "not submitted")

\* A transit that waits or has floated has arrived.  One call at a time watches
\* the current transit, or the last one.
Watched(t) == current = call[t].plan \/ (current = Nothing /\ last = call[t].plan)
TransitsAreWatched ==
  /\ \A p \in Plans : transits[p] \in {"WAITING_NEXT", "HOLDING_FINAL", "COMPLETED_FLOAT"} => p \in arrived
  /\ Motion!Alone =>
       /\ \A t, u \in Tasks : Motion!Working(t) /\ Motion!Working(u) => t = u
       /\ \A t \in Tasks : request[t].at # "none" => call[t].at = "commit"
       /\ \A t \in Tasks : Moves(t) => Watched(t)
  /\ \A t \in Tasks : call[t].result = "completed" /\ (Motion!Kind(t) = "approach" \/ Motion!Alone) =>
       call[t].plan \in arrived

Approved ==
  /\ Motion!TypeOK /\ DecisionsIssueOnce /\ CommitsAreIssued /\ InstallsAreConsumed
  /\ CallsHold /\ RequestsAreAwaited /\ InstallsAreAnswered /\ TransitsAreWatched

\* A call that goes to `at`, with plan p in its hands and this result.
Turns(t, at, p, result) ==
  /\ call' \in [Tasks -> Motion!Call]
  /\ \A u \in Tasks \ {t} : call'[u] = call[u]
  /\ call'[t].at = at /\ call'[t].plan = p /\ call'[t].result = result

Ats == {"idle", "plan", "look", "check", "check approach", "staged", "commit",
        "watch", "release", "done"}
Results == {"none", "raised", "not submitted", "submitted", "completed", "failed", "cancelled"}

LEMMA Turning ==
  ASSUME Motion!TypeOK, NEW t \in Tasks, NEW x \in Motion!Call, call' = [call EXCEPT ![t] = x]
  PROVE  Turns(t, x.at, x.plan, x.result)
BY DEF Motion!TypeOK, Turns

LEMMA GotoTurns ==
  ASSUME Motion!TypeOK, NEW t \in Tasks, NEW at \in Ats, Motion!Goto(t, at)
  PROVE  Turns(t, at, call[t].plan, call[t].result)
<1> DEFINE x == [call[t] EXCEPT !.at = at]
<1>1. call[t] \in Motion!Call BY DEF Motion!TypeOK
<1>2. x \in Motion!Call /\ x.at = at /\ x.plan = call[t].plan /\ x.result = call[t].result
  BY <1>1 DEF Motion!Call, Ats
<1>3. call' = [call EXCEPT ![t] = x] BY DEF Motion!Goto
<1> HIDE DEF x
<1> QED BY <1>2, <1>3, Turning

LEMMA EndTurns ==
  ASSUME Motion!TypeOK, NEW t \in Tasks, NEW result \in Results, Motion!End(t, result)
  PROVE  Turns(t, "done", call[t].plan, result)
<1> DEFINE x == [call[t] EXCEPT !.at = "done", !.result = result]
<1>1. call[t] \in Motion!Call BY DEF Motion!TypeOK
<1>2. x \in Motion!Call /\ x.at = "done" /\ x.plan = call[t].plan /\ x.result = result
  BY <1>1 DEF Motion!Call, Results
<1>3. call' = [call EXCEPT ![t] = x] BY DEF Motion!End, Motion!TypeOK
<1> HIDE DEF x
<1> QED BY <1>2, <1>3, Turning

\* What was issued stays so, and a plan that was consumed is not planned again.
Stands ==
  /\ decision' \in [Decisions -> Motion!Authorization] /\ plan' \in [Plans -> Motion!Preview]
  /\ \A d \in Decisions, p \in Plans : (Issued(d, p) => Issued(d, p)') /\ (Decided(d, p) => Decided(d, p)')
  /\ DecisionsIssueOnce'
  /\ \A p \in Plans : plan[p].state \notin {"none", "PLANNED"} => plan'[p] = plan[p]
  /\ scene' = scene

LEMMA AuthorizationStands ==
  ASSUME Approved, NEW d \in Decisions, NEW x \in Motion!Authorization,
         decision' = [decision EXCEPT ![d] = x], UNCHANGED <<plan, scene>>,
         x.issued \in {0, 1}, x.status # "APPROVED" => x.issued = 0, x.status # "none", x.plan \in Plans,
         decision[d].issued = 0, decision[d].status = "none" \/ x.plan = decision[d].plan
  PROVE  Stands
<1>1. decision \in [Decisions -> Motion!Authorization] /\ plan \in [Plans -> Motion!Preview]
  BY DEF Approved, Motion!TypeOK
<1>2. decision' \in [Decisions -> Motion!Authorization] BY <1>1
<1>3. decision'[d] = x /\ \A e \in Decisions \ {d} : decision'[e] = decision[e] BY <1>1
<1>4. DecisionsIssueOnce' BY <1>3 DEF Approved, DecisionsIssueOnce
<1>5. \A e \in Decisions, p \in Plans : (Issued(e, p) => Issued(e, p)') /\ (Decided(e, p) => Decided(e, p)')
  BY <1>3 DEF Issued, Decided
<1> QED BY <1>1, <1>2, <1>4, <1>5 DEF Stands

LEMMA PreviewStands ==
  ASSUME Approved, NEW p \in Plans, NEW x \in Motion!Preview,
         plan' = [plan EXCEPT ![p] = x], UNCHANGED <<decision, scene>>,
         plan[p].state \in {"none", "PLANNED"}
  PROVE  Stands /\ plan'[p] = x
<1>1. decision \in [Decisions -> Motion!Authorization] /\ plan \in [Plans -> Motion!Preview]
  BY DEF Approved, Motion!TypeOK
<1>2. plan' \in [Plans -> Motion!Preview] /\ plan'[p] = x
      /\ \A q \in Plans \ {p} : plan'[q] = plan[q] BY <1>1
<1>3. DecisionsIssueOnce' BY DEF Approved, DecisionsIssueOnce
<1>4. \A e \in Decisions, q \in Plans : (Issued(e, q) => Issued(e, q)') /\ (Decided(e, q) => Decided(e, q)')
  BY DEF Issued, Decided
<1> QED BY <1>1, <1>2, <1>3, <1>4 DEF Stands

LEMMA BothStand ==
  ASSUME Approved, UNCHANGED <<decision, plan, scene>>
  PROVE  Stands
<1>1. decision \in [Decisions -> Motion!Authorization] /\ plan \in [Plans -> Motion!Preview]
  BY DEF Approved, Motion!TypeOK
<1>2. DecisionsIssueOnce' BY DEF Approved, DecisionsIssueOnce
<1>3. \A e \in Decisions, q \in Plans : (Issued(e, q) => Issued(e, q)') /\ (Decided(e, q) => Decided(e, q)')
  BY DEF Issued, Decided
<1> QED BY <1>1, <1>2, <1>3 DEF Stands

LEMMA StagedStands ==
  ASSUME Approved, Stands, NEW u \in Tasks, call'[u] = call[u]
  PROVE  call'[u].at = "staged" => Decided(call[u].decision, call[u].plan)'
<1> SUFFICES ASSUME call[u].at = "staged"
             PROVE  Decided(call[u].decision, call[u].plan)'
  OBVIOUS
<1>1. PICK d \in Decisions, p \in Plans :
        d = call[u].decision /\ p = call[u].plan /\ Decided(d, p)
  BY DEF Approved, CallsHold, Decided
<1>2. Decided(d, p)' BY <1>1 DEF Stands, Decided
<1> QED BY <1>1, <1>2 DEF Decided

\* The transit goes on, or ends: the one that is watched is watched on.
Flies ==
  /\ {current', last'} \subseteq Plans \cup {Nothing}
  /\ transits' \in [Plans -> {"none", "EXECUTING", "HOLDING_FINAL", "WAITING_NEXT", "COMPLETED_FLOAT",
                              "FAILED", "RELEASED", "CHAINED_TO_NEXT"}]
  /\ arrived' \subseteq Plans /\ arrived \subseteq arrived'
  /\ current' \in {current, Nothing}
  /\ current # Nothing /\ current' = Nothing => last' = current
  /\ current = Nothing => last' = last
  /\ \A p \in Plans : transits'[p] \in {"WAITING_NEXT", "HOLDING_FINAL", "COMPLETED_FLOAT"} => p \in arrived'

LEMMA FliesStill ==
  ASSUME Approved, UNCHANGED <<current, last, transits, arrived>>
  PROVE  Flies
BY DEF Approved, Motion!TypeOK, TransitsAreWatched, Flies

\* What is neither committed nor installed stays as it is.
LEMMA CommitsStand ==
  ASSUME Approved, Stands, UNCHANGED <<request, installs>>
  PROVE  CommitsAreIssued' /\ InstallsAreConsumed'
<1>1. CommitsAreIssued'
  <2> SUFFICES ASSUME NEW t \in Tasks
               PROVE  /\ request[t].at # "none" => Issued(request[t].decision, request[t].plan)'
                      /\ request[t].at = "consumed" =>
                           /\ plan'[request[t].plan].state = "COMMITTING"
                           /\ \A u \in Tasks : request[u].at = "consumed" /\ request[u].plan = request[t].plan => u = t
                      /\ request[t].at = "EXECUTING" => plan'[request[t].plan].state = "CONSUMED"
    BY DEF CommitsAreIssued, Issued
  <2> QED BY DEF Approved, Stands, CommitsAreIssued, Issued
<1>2. InstallsAreConsumed'
  BY DEF Approved, Stands, InstallsAreConsumed, Issued
<1> QED BY <1>1, <1>2

\* The bookkeeping of previews and of expiry keeps its types.
Notes == executable' \subseteq Plans /\ over' \subseteq Plans \cup Decisions

LEMMA TransitsKeep ==
  ASSUME Approved, Stands, Flies, Notes, UNCHANGED <<call, request, installs>>
  PROVE  Approved'
<1>1. Motion!TypeOK' BY DEF Approved, Motion!TypeOK, Stands, Flies, Notes
<1>2. CommitsAreIssued' /\ InstallsAreConsumed' /\ DecisionsIssueOnce' BY CommitsStand DEF Stands
<1>3. CallsHold'
  BY MotionBounds DEF Approved, CallsHold, Stands, Flies, Motion!Occurs, Decided
<1>4. RequestsAreAwaited' /\ InstallsAreAnswered'
  BY DEF Approved, RequestsAreAwaited, InstallsAreAnswered, Moves, Awaits, Motion!Occurs, Stands
<1>5. TransitsAreWatched'
  <2>1. \A t \in Tasks : Watched(t) => Watched(t)'
    BY MotionBounds DEF Flies, Watched
  <2> QED BY <2>1 DEF Approved, TransitsAreWatched, Flies, Stands, Moves, Motion!Alone,
                      Motion!Working, Motion!Kind
<1> QED BY <1>1, <1>2, <1>3, <1>4, <1>5 DEF Approved

\* A call that does not commit goes where it may: it watches or releases only the
\* transit it watched before, and does not say "not submitted" of one.
Proper(t, at, p, result) ==
  /\ at # "commit"
  /\ at # "done" => result = "none"
  /\ at = "staged" => Decided(call[t].decision, call[t].plan)'
  /\ at \in {"watch", "release"} \/ result = "failed" => p \in Plans /\ plan[p].state = "CONSUMED"
  /\ result = "failed" /\ ~Motion!Occurs("lost") => current' # p
  /\ result = "completed" /\ (Motion!Kind(t) = "approach" \/ Motion!Alone) => p \in arrived'
  /\ \/ at = "done" /\ result # "not submitted"
     \/ at \in {"watch", "release"} /\ call[t].at \in {"watch", "release"}
     \/ call[t].at \notin {"commit", "done", "watch", "release"}
     \/ at = "done" /\ Motion!Occurs("lost")
  /\ Motion!Alone =>
       /\ call[t].at # "commit"
       /\ at \notin {"idle", "done"} => \A u \in Tasks \ {t} : ~Motion!Working(u)
       /\ at \in {"watch", "release"} => call[t].at \in {"watch", "release"} /\ p = call[t].plan

LEMMA CallsKeep ==
  ASSUME Approved, Stands, Flies, Notes, UNCHANGED <<request, installs>>,
         NEW t \in Tasks, NEW at, NEW p, NEW result, Turns(t, at, p, result),
         Proper(t, at, p, result)
  PROVE  Approved'
<1>1. Motion!TypeOK' BY DEF Approved, Motion!TypeOK, Stands, Flies, Notes, Turns
<1>2. CommitsAreIssued' /\ InstallsAreConsumed' /\ DecisionsIssueOnce' BY CommitsStand DEF Stands
<1>3. CallsHold'
  <2> SUFFICES ASSUME NEW u \in Tasks
               PROVE  /\ call'[u].at # "done" => call'[u].result = "none"
                      /\ call'[u].at = "staged" => Decided(call[u].decision, call[u].plan)'
                      /\ call'[u].at = "commit" => request[u].at # "none" /\ request[u].plan = call'[u].plan
                      /\ call'[u].at \in {"watch", "release"} \/ call'[u].result = "failed" =>
                           call'[u].plan \in Plans /\ plan'[call'[u].plan].state = "CONSUMED"
                      /\ call'[u].result = "failed" /\ ~Motion!Occurs("lost") => current' # call'[u].plan
    BY DEF CallsHold, Stands, Motion!Occurs, Decided
  <2>1. CASE u = t
    BY <2>1 DEF Turns, Proper, Stands, Decided
  <2>2. CASE u # t
    <3>1. call'[u].at = "staged" => Decided(call[u].decision, call[u].plan)'
      BY <2>2, StagedStands DEF Turns
    <3> QED BY <2>2, <3>1, MotionBounds DEF Turns, Approved, CallsHold, Stands, Flies
  <2> QED BY <2>1, <2>2
<1>4. RequestsAreAwaited'
  BY DEF Approved, RequestsAreAwaited, Awaits, Turns, Proper, Motion!Occurs, Stands
<1>5. InstallsAreAnswered'
  <2> SUFFICES ASSUME scene.occurs \cap {"lost", "late"} = {}, NEW i \in installs
               PROVE  Moves(i.by)' \/ (call'[i.by].at = "done" /\ call'[i.by].result # "not submitted")
    BY DEF InstallsAreAnswered, Stands
  <2>1. Moves(i.by) \/ (call[i.by].at = "done" /\ call[i.by].result # "not submitted")
    BY DEF Approved, InstallsAreAnswered
  <2>2. i.by \in Tasks BY DEF Approved, Motion!TypeOK
  <2>3. CASE i.by = t BY <2>1, <2>3 DEF Moves, Turns, Proper, Motion!Occurs
  <2>4. CASE i.by # t BY <2>1, <2>2, <2>4 DEF Moves, Turns
  <2> QED BY <2>3, <2>4
<1>6. TransitsAreWatched'
  <2>1. \A u \in Tasks \ {t} : (Watched(u) => Watched(u)') /\ (Moves(u)' => Moves(u))
    BY MotionBounds DEF Flies, Watched, Turns, Moves
  <2>2. Motion!Alone' <=> Motion!Alone BY DEF Motion!Alone, Stands
  <2>3. ASSUME Motion!Alone
        PROVE  /\ \A u, v \in Tasks : Motion!Working(u)' /\ Motion!Working(v)' => u = v
               /\ \A u \in Tasks : request'[u].at # "none" => call'[u].at = "commit"
               /\ \A u \in Tasks : Moves(u)' => Watched(u)'
    <3>1. \A u, v \in Tasks : Motion!Working(u)' /\ Motion!Working(v)' => u = v
      <4>1. \A u \in Tasks \ {t} : Motion!Working(u)' => Motion!Working(u)
        BY DEF Turns, Motion!Working
      <4>2. Motion!Working(t)' => \A u \in Tasks \ {t} : ~Motion!Working(u)
        BY <2>3 DEF Turns, Proper, Motion!Working
      <4> QED BY <2>3, <4>1, <4>2 DEF Approved, TransitsAreWatched
    <3>2. \A u \in Tasks : request'[u].at # "none" => call'[u].at = "commit"
      BY <2>3 DEF Approved, TransitsAreWatched, Turns, Proper
    <3>3. Moves(t)' => Watched(t)'
      BY <2>3, MotionBounds DEF Approved, TransitsAreWatched, Moves, Watched, Turns, Proper, Flies
    <3>4. \A u \in Tasks : Moves(u)' => Watched(u)'
      BY <2>1, <2>3, <3>3 DEF Approved, TransitsAreWatched
    <3> QED BY <3>1, <3>2, <3>4
  <2>4. \A q \in Plans : transits'[q] \in {"WAITING_NEXT", "HOLDING_FINAL", "COMPLETED_FLOAT"} => q \in arrived'
    BY DEF Flies
  <2>5. \A u \in Tasks : call'[u].result = "completed" /\ (Motion!Kind(u)' = "approach" \/ Motion!Alone) =>
          call'[u].plan \in arrived'
    BY DEF Approved, TransitsAreWatched, Turns, Proper, Flies, Stands, Motion!Kind
  <2> QED BY <2>2, <2>3, <2>4, <2>5 DEF TransitsAreWatched
<1> QED BY <1>1, <1>2, <1>3, <1>4, <1>5, <1>6 DEF Approved

\* The request of t comes to `at`, of plan p under decision d.
Asks(t, at, p, d) ==
  /\ request' \in [Tasks -> Motion!Request]
  /\ \A u \in Tasks \ {t} : request'[u] = request[u]
  /\ request'[t].at = at /\ request'[t].plan = p /\ request'[t].decision = d

RequestAts == {"none", "sent", "verified", "consumed", "EXECUTING", "refused", "stale"}

LEMMA ServeAsks ==
  ASSUME Motion!TypeOK, NEW t \in Tasks, NEW at \in RequestAts, Motion!Serve(t, at)
  PROVE  Asks(t, at, request[t].plan, request[t].decision)
<1> DEFINE x == [request[t] EXCEPT !.at = at]
<1>1. request \in [Tasks -> Motion!Request] BY DEF Motion!TypeOK
<1>2. x \in Motion!Request /\ x.at = at /\ x.plan = request[t].plan /\ x.decision = request[t].decision
  BY <1>1 DEF Motion!Request, RequestAts
<1>3. request' = [request EXCEPT ![t] = x] BY DEF Motion!Serve
<1> HIDE DEF x
<1> QED BY <1>1, <1>2, <1>3 DEF Asks

\* A call posts a commit of p under d, which has just been issued.
LEMMA PostKeeps ==
  ASSUME Approved, Stands, Notes, UNCHANGED <<plan, installs, current, last, transits, arrived>>,
         NEW t \in Tasks, NEW p \in Plans, NEW d \in Decisions, Issued(d, p)',
         call[t].at \in {"check", "check approach", "staged"}, Motion!Post(t, p, d)
  PROVE  Approved'
<1> DEFINE x == [call[t] EXCEPT !.at = "commit", !.plan = p, !.decision = d]
           y == [at |-> "sent", plan |-> p, decision |-> d]
<1>1. call \in [Tasks -> Motion!Call] /\ request \in [Tasks -> Motion!Request]
  BY DEF Approved, Motion!TypeOK
<1>2. call[t].result = "none" BY DEF Approved, CallsHold
<1>3. x \in Motion!Call /\ x.at = "commit" /\ x.plan = p /\ x.result = "none"
  BY <1>1, <1>2 DEF Motion!Call
<1>4. call' = [call EXCEPT ![t] = x] BY <1>1 DEF Motion!Post
<1>5. y \in Motion!Request /\ y.at = "sent" /\ y.plan = p /\ y.decision = d
  BY DEF Motion!Request
<1>6. request' = [request EXCEPT ![t] = y] BY DEF Motion!Post
<1> HIDE DEF x, y
<1>7. Turns(t, "commit", p, "none") BY <1>3, <1>4, Turning DEF Approved
<1>8. Asks(t, "sent", p, d) BY <1>1, <1>5, <1>6 DEF Asks
<1>9. Motion!TypeOK'
  BY <1>7, <1>8 DEF Approved, Motion!TypeOK, Stands, Notes, Turns, Asks
<1>10. CommitsAreIssued'
  <2> SUFFICES ASSUME NEW u \in Tasks
               PROVE  /\ request'[u].at # "none" => Issued(request[u].decision, request[u].plan)'
                      /\ request'[u].at = "consumed" =>
                           /\ plan'[request'[u].plan].state = "COMMITTING"
                           /\ \A v \in Tasks : request'[v].at = "consumed" /\ request'[v].plan = request'[u].plan => v = u
                      /\ request'[u].at = "EXECUTING" => plan'[request'[u].plan].state = "CONSUMED"
    BY DEF CommitsAreIssued, Issued
  <2>1. CASE u = t BY <1>8, <2>1 DEF Asks, Issued
  <2>2. CASE u # t
    <3>1. request'[u] = request[u] BY <1>8, <2>2 DEF Asks
    <3>2. request[u].at # "none" => Issued(request[u].decision, request[u].plan)'
      <4> SUFFICES ASSUME request[u].at # "none"
                   PROVE  Issued(request[u].decision, request[u].plan)'
        OBVIOUS
      <4>1. PICK e \in Decisions, q \in Plans :
              e = request[u].decision /\ q = request[u].plan /\ Issued(e, q)
        BY DEF Approved, CommitsAreIssued, Issued
      <4>2. Issued(e, q)' BY <4>1 DEF Stands, Issued
      <4> QED BY <3>1, <4>1, <4>2 DEF Issued
    <3>3. request[u].at = "consumed" =>
            /\ plan'[request[u].plan].state = "COMMITTING"
            /\ \A v \in Tasks : request'[v].at = "consumed" /\ request'[v].plan = request[u].plan => v = u
      BY <1>8 DEF Approved, CommitsAreIssued, Asks
    <3>4. request[u].at = "EXECUTING" => plan'[request[u].plan].state = "CONSUMED"
      BY DEF Approved, CommitsAreIssued
    <3> QED BY <3>1, <3>2, <3>3, <3>4
  <2> QED BY <2>1, <2>2
<1>11. InstallsAreConsumed' /\ DecisionsIssueOnce'
  BY DEF Approved, Stands, InstallsAreConsumed, Issued
<1>12. CallsHold'
  <2> SUFFICES ASSUME NEW u \in Tasks
               PROVE  /\ call'[u].at # "done" => call'[u].result = "none"
                      /\ call'[u].at = "staged" => Decided(call[u].decision, call[u].plan)'
                      /\ call'[u].at = "commit" => request'[u].at # "none" /\ request'[u].plan = call'[u].plan
                      /\ call'[u].at \in {"watch", "release"} \/ call'[u].result = "failed" =>
                           call'[u].plan \in Plans /\ plan[call'[u].plan].state = "CONSUMED"
                      /\ call'[u].result = "failed" /\ ~Motion!Occurs("lost") => current # call'[u].plan
    BY DEF CallsHold, Stands, Motion!Occurs, Decided
  <2>1. CASE u = t BY <1>7, <1>8, <2>1 DEF Turns, Asks
  <2>2. CASE u # t
    <3>1. call'[u].at = "staged" => Decided(call[u].decision, call[u].plan)'
      BY <1>7, <2>2, StagedStands DEF Turns
    <3> QED BY <1>7, <1>8, <2>2, <3>1 DEF Turns, Asks, Approved, CallsHold
  <2> QED BY <2>1, <2>2
<1>13. RequestsAreAwaited'
  BY <1>7, <1>8 DEF Approved, RequestsAreAwaited, Awaits, Turns, Asks, Motion!Occurs, Stands
<1>14. InstallsAreAnswered'
  <2> SUFFICES ASSUME scene.occurs \cap {"lost", "late"} = {}, NEW i \in installs
               PROVE  Moves(i.by)' \/ (call'[i.by].at = "done" /\ call'[i.by].result # "not submitted")
    BY DEF InstallsAreAnswered, Stands
  <2>1. i.by \in Tasks /\ i.by # t
    BY DEF Approved, Motion!TypeOK, InstallsAreAnswered, Moves
  <2> QED BY <2>1, <1>7, <1>8 DEF Approved, InstallsAreAnswered, Moves, Turns, Asks
<1>15. TransitsAreWatched'
  <2>1. ASSUME Motion!Alone
        PROVE  /\ \A u, v \in Tasks : Motion!Working(u)' /\ Motion!Working(v)' => u = v
               /\ \A u \in Tasks : request'[u].at # "none" => call'[u].at = "commit"
               /\ \A u \in Tasks : Moves(u)' => Watched(u)'
    BY <1>7, <1>8, <2>1 DEF Approved, TransitsAreWatched, Motion!Working, Turns, Asks, Moves, Watched
  <2>2. \A u \in Tasks : call'[u].result = "completed" /\ (Motion!Kind(u)' = "approach" \/ Motion!Alone) =>
          call'[u].plan \in arrived'
    BY <1>7 DEF Approved, TransitsAreWatched, Turns, Stands, Motion!Kind
  <2> QED BY <2>1, <2>2 DEF Approved, TransitsAreWatched, Motion!Alone, Stands
<1> QED BY <1>9, <1>10, <1>11, <1>12, <1>13, <1>14, <1>15 DEF Approved

\* A request that is refused, or goes on without the plan having been consumed.
LEMMA AnswersKeep ==
  ASSUME Approved, NEW t \in Tasks, NEW at \in {"verified", "refused", "stale"},
         request[t].at \in {"sent", "verified"}, Motion!Serve(t, at),
         UNCHANGED <<call, executable, over, decision, plan, installs, current, last, transits, arrived, scene>>
  PROVE  Approved'
<1>1. Asks(t, at, request[t].plan, request[t].decision)
  BY ServeAsks DEF Approved, RequestAts
<1>2. Motion!TypeOK'
  BY <1>1 DEF Approved, Motion!TypeOK, Asks
<1>3. CommitsAreIssued'
  BY <1>1 DEF Approved, CommitsAreIssued, Asks, Issued
<1>4. DecisionsIssueOnce' /\ InstallsAreConsumed'
  BY DEF Approved, DecisionsIssueOnce, InstallsAreConsumed, Issued
<1>5. CallsHold'
  BY <1>1 DEF Approved, CallsHold, Asks, Motion!Occurs, Decided
<1>6. RequestsAreAwaited' /\ InstallsAreAnswered'
  <2>1. RequestsAreAwaited' BY <1>1 DEF Approved, RequestsAreAwaited, Asks, Motion!Occurs, Awaits
  <2>2. \A i \in installs : i.by \in Tasks BY DEF Approved, Motion!TypeOK
  <2>3. \A u \in Tasks : Moves(u) => Moves(u)' BY <1>1 DEF Moves, Asks
  <2>4. InstallsAreAnswered' BY <2>2, <2>3 DEF Approved, InstallsAreAnswered
  <2> QED BY <2>1, <2>4
<1>7. TransitsAreWatched'
  BY <1>1 DEF Approved, TransitsAreWatched, Asks, Moves, Watched, Motion!Alone, Motion!Working, Motion!Kind
<1> QED BY <1>2, <1>3, <1>4, <1>5, <1>6, <1>7 DEF Approved

\* The second look gives the plan to one request.
LEMMA ConsumeKeeps ==
  ASSUME Approved, NEW t \in Tasks, Motion!Consume(t)
  PROVE  Approved'
<1> DEFINE p == request[t].plan
           x == [plan[p] EXCEPT !.state = "COMMITTING"]
<1>1. request[t].at = "verified" /\ p \in Plans
  BY DEF Motion!Consume, Motion!Serving, Approved, CommitsAreIssued, Issued
<1>2. CASE plan[p].state = "PLANNED"
  <2>1. plan[p] \in Motion!Preview BY <1>1 DEF Approved, Motion!TypeOK
  <2>2. x \in Motion!Preview /\ x.state = "COMMITTING" BY <2>1 DEF Motion!Preview
  <2>3. plan' = [plan EXCEPT ![p] = x] BY <1>2 DEF Motion!Consume
  <2>4. UNCHANGED <<decision, scene>> BY DEF Motion!Consume, Motion!agent
  <2> HIDE DEF x
  <2>5. Stands /\ plan'[p].state = "COMMITTING"
    BY <1>1, <1>2, <2>2, <2>3, <2>4, PreviewStands
  <2> HIDE DEF p
  <2>6. Asks(t, "consumed", p, request[t].decision)
    BY <1>2, ServeAsks DEF Approved, RequestAts, Motion!Consume, p
  <2>7. UNCHANGED <<call, executable, over, installs, current, last, transits, arrived, scene>>
    BY DEF Motion!Consume, Motion!agent, Motion!transit, Motion!history
  <2>8. Motion!TypeOK'
    BY <2>5, <2>6, <2>7 DEF Approved, Motion!TypeOK, Asks, Stands
  <2>9. CommitsAreIssued'
    <3> SUFFICES ASSUME NEW u \in Tasks
                 PROVE  /\ request'[u].at # "none" => Issued(request[u].decision, request[u].plan)'
                        /\ request'[u].at = "consumed" =>
                             /\ plan'[request'[u].plan].state = "COMMITTING"
                             /\ \A v \in Tasks : request'[v].at = "consumed" /\ request'[v].plan = request'[u].plan => v = u
                        /\ request'[u].at = "EXECUTING" => plan'[request'[u].plan].state = "CONSUMED"
      BY DEF CommitsAreIssued, Issued
    <3>1. \A v \in Tasks : request[v].at = "consumed" => request[v].plan # p
      BY <1>2 DEF Approved, CommitsAreIssued
    <3>2. CASE u = t
      BY <1>1, <2>5, <2>6, <3>1, <3>2 DEF Approved, CommitsAreIssued, Asks, Stands, Issued, p
    <3>3. CASE u # t
      BY <2>5, <2>6, <3>1, <3>3 DEF Approved, CommitsAreIssued, Asks, Stands, Issued
    <3> QED BY <3>2, <3>3
  <2>10. InstallsAreConsumed' /\ DecisionsIssueOnce'
    BY <2>5, <2>7 DEF Approved, Stands, InstallsAreConsumed, Issued
  <2>11. CallsHold'
    BY <1>1, <2>5, <2>6, <2>7 DEF Approved, CallsHold, Asks, Stands, Motion!Occurs, Decided, p
  <2>12. RequestsAreAwaited' /\ InstallsAreAnswered'
    <3>1. RequestsAreAwaited'
      BY <1>1, <2>6, <2>7 DEF Approved, RequestsAreAwaited, Asks, Motion!Occurs, Awaits
    <3>2. \A i \in installs : i.by \in Tasks BY DEF Approved, Motion!TypeOK
    <3>3. \A u \in Tasks : Moves(u) => Moves(u)' BY <1>1, <2>6, <2>7 DEF Moves, Asks
    <3>4. InstallsAreAnswered' BY <2>7, <3>2, <3>3 DEF Approved, InstallsAreAnswered
    <3> QED BY <3>1, <3>4
  <2>13. TransitsAreWatched'
    BY <1>1, <2>6, <2>7 DEF Approved, TransitsAreWatched, Asks, Moves, Watched, Motion!Alone, Motion!Working, Motion!Kind
  <2> QED BY <2>8, <2>9, <2>10, <2>11, <2>12, <2>13 DEF Approved
<1>3. CASE plan[p].state # "PLANNED"
  <2>1. Motion!Serve(t, "stale") /\ plan' = plan BY <1>3 DEF Motion!Consume
  <2>2. UNCHANGED <<call, executable, over, decision, installs, current, last, transits, arrived, scene>>
    BY DEF Motion!Consume, Motion!agent, Motion!transit, Motion!history
  <2> QED BY <1>1, <2>1, <2>2, AnswersKeep
<1> QED BY <1>2, <1>3


LEMMA FreshIsUnused ==
  ASSUME NEW ids, ids # {}
  PROVE  Motion!Fresh(ids) \in ids
BY DEF Motion!Fresh

\* The request of t is answered: its plan, which was committing, is settled.
Settles(t, at, end) ==
  /\ request[t].at = "consumed" /\ Issued(request[t].decision, request[t].plan)
  /\ plan[request[t].plan].state = "COMMITTING"
  /\ plan' \in [Plans -> Motion!Preview]
  /\ plan'[request[t].plan].state = end
  /\ \A q \in Plans \ {request[t].plan} : plan'[q] = plan[q]
  /\ Asks(t, at, request[t].plan, request[t].decision)

LEMMA Settling ==
  ASSUME Approved, NEW t \in Tasks, request[t].at = "consumed",
         NEW at \in {"EXECUTING", "refused", "stale"}, NEW end \in {"CONSUMED", "REJECTED_AT_COMMIT"},
         plan' = [plan EXCEPT ![request[t].plan].state = end], Motion!Serve(t, at)
  PROVE  Settles(t, at, end)
<1> DEFINE x(p) == [plan[p] EXCEPT !.state = end]
<1>1. Issued(request[t].decision, request[t].plan) /\ plan[request[t].plan].state = "COMMITTING"
  BY DEF Approved, CommitsAreIssued
<1>2. request[t].plan \in Plans BY <1>1 DEF Issued
<1>3. plan \in [Plans -> Motion!Preview] BY DEF Approved, Motion!TypeOK
<1>4. \A p \in Plans : x(p) \in Motion!Preview /\ x(p).state = end BY <1>3 DEF Motion!Preview
<1>5. plan' = [plan EXCEPT ![request[t].plan] = x(request[t].plan)] OBVIOUS
<1> HIDE DEF x
<1>6. /\ plan' \in [Plans -> Motion!Preview]
      /\ plan'[request[t].plan].state = end
      /\ \A q \in Plans \ {request[t].plan} : plan'[q] = plan[q]
  BY <1>2, <1>3, <1>4, <1>5
<1>7. Asks(t, at, request[t].plan, request[t].decision)
  BY ServeAsks DEF Approved, RequestAts
<1> QED BY <1>1, <1>6, <1>7 DEF Settles

\* What follows from the answer alone, whatever becomes of the transit.
LEMMA SettledKeeps ==
  ASSUME Approved, NEW t \in Tasks, NEW at \in {"EXECUTING", "refused", "stale"},
         NEW end \in {"CONSUMED", "REJECTED_AT_COMMIT"}, Settles(t, at, end),
         at = "EXECUTING" => end = "CONSUMED",
         UNCHANGED <<call, decision, scene>>
  PROVE  /\ CommitsAreIssued' /\ DecisionsIssueOnce' /\ RequestsAreAwaited'
         /\ \A i \in installs : i.plan # request[t].plan
         /\ \A i \in installs : /\ Issued(i.decision, i.plan)'
                                /\ plan'[i.plan].state \in {"CONSUMED", "REJECTED_AT_COMMIT"}
         /\ \A u \in Tasks :
              /\ call[u].at = "commit" => request'[u].at # "none" /\ request'[u].plan = call[u].plan
              /\ call[u].at \in {"watch", "release"} \/ call[u].result = "failed" =>
                   /\ call[u].plan \in Plans /\ plan'[call[u].plan].state = "CONSUMED"
                   /\ call[u].plan # request[t].plan
              /\ Moves(u) => Moves(u)'
              /\ Moves(u)' => Moves(u) \/ (u = t /\ at = "EXECUTING" /\ call[t].at = "commit")
<1>1. DecisionsIssueOnce' BY DEF Approved, DecisionsIssueOnce
<1>2. CommitsAreIssued'
  <2> SUFFICES ASSUME NEW u \in Tasks
               PROVE  /\ request'[u].at # "none" => Issued(request[u].decision, request[u].plan)'
                      /\ request'[u].at = "consumed" =>
                           /\ plan'[request'[u].plan].state = "COMMITTING"
                           /\ \A v \in Tasks : request'[v].at = "consumed" /\ request'[v].plan = request'[u].plan => v = u
                      /\ request'[u].at = "EXECUTING" => plan'[request'[u].plan].state = "CONSUMED"
    BY DEF CommitsAreIssued, Issued
  <2>1. CASE u = t BY <2>1 DEF Settles, Asks, Issued
  <2>2. CASE u # t BY <2>2 DEF Approved, CommitsAreIssued, Settles, Asks, Issued
  <2> QED BY <2>1, <2>2
<1>3. RequestsAreAwaited'
  BY DEF Approved, RequestsAreAwaited, Settles, Asks, Motion!Occurs, Awaits
<1>4. \A i \in installs : i.plan # request[t].plan
  BY DEF Approved, InstallsAreConsumed, Settles
<1>5. \A i \in installs : /\ Issued(i.decision, i.plan)'
                          /\ plan'[i.plan].state \in {"CONSUMED", "REJECTED_AT_COMMIT"}
  BY <1>4 DEF Approved, InstallsAreConsumed, Settles, Issued
<1>6. \A u \in Tasks :
        /\ call[u].at = "commit" => request'[u].at # "none" /\ request'[u].plan = call[u].plan
        /\ call[u].at \in {"watch", "release"} \/ call[u].result = "failed" =>
             /\ call[u].plan \in Plans /\ plan'[call[u].plan].state = "CONSUMED"
             /\ call[u].plan # request[t].plan
  BY DEF Approved, CallsHold, Settles, Asks
<1>7. \A u \in Tasks : /\ Moves(u) => Moves(u)'
                       /\ Moves(u)' => Moves(u) \/ (u = t /\ at = "EXECUTING" /\ call[t].at = "commit")
  BY DEF Moves, Settles, Asks
<1> QED BY <1>1, <1>2, <1>3, <1>4, <1>5, <1>6, <1>7

\* The transit is installed, or the commit is refused.
LEMMA InstallKeeps ==
  ASSUME Approved, NEW t \in Tasks, Motion!Install(t)
  PROVE  Approved'
<1>1. request[t].at = "consumed" BY DEF Motion!Install, Motion!Serving
<1>2. UNCHANGED <<call, executable, over, decision, arrived, scene>>
  BY DEF Motion!Install, Motion!agent
<1>3. PICK at \in {"EXECUTING", "refused", "stale"}, end \in {"CONSUMED", "REJECTED_AT_COMMIT"} :
        /\ plan' = [plan EXCEPT ![request[t].plan].state = end] /\ Motion!Serve(t, at)
        /\ at = "EXECUTING" => end = "CONSUMED"
        /\ \/ /\ current' = request[t].plan
              /\ last' = IF current # Nothing THEN current ELSE last
              /\ transits' = [q \in Plans |-> IF q = request[t].plan THEN "EXECUTING"
                                ELSE IF q = current THEN "CHAINED_TO_NEXT" ELSE transits[q]]
              /\ installs' = installs \cup {[plan |-> request[t].plan, decision |-> request[t].decision, by |-> t]}
              /\ at # "EXECUTING" => Motion!Occurs("late")
           \/ UNCHANGED <<current, last, transits, installs>> /\ at # "EXECUTING"
  <2>1. CASE /\ current' = request[t].plan
             /\ last' = IF current # Nothing THEN current ELSE last
             /\ transits' = [q \in Plans |-> IF q = request[t].plan THEN "EXECUTING"
                               ELSE IF q = current THEN "CHAINED_TO_NEXT" ELSE transits[q]]
             /\ installs' = installs \cup {[plan |-> request[t].plan, decision |-> request[t].decision, by |-> t]}
             /\ \/ plan' = [plan EXCEPT ![request[t].plan].state = "CONSUMED"] /\ Motion!Serve(t, "EXECUTING")
                \/ /\ Motion!Occurs("late")
                   /\ plan' = [plan EXCEPT ![request[t].plan].state = "REJECTED_AT_COMMIT"]
                   /\ Motion!Serve(t, "refused")
    BY <2>1
  <2>2. CASE /\ UNCHANGED <<current, last, transits, installs>>
             /\ plan' = [plan EXCEPT ![request[t].plan].state = "REJECTED_AT_COMMIT"]
             /\ \E a_ \in {"refused", "stale"} : Motion!Serve(t, a_)
    BY <2>2
  <2> QED BY <2>1, <2>2 DEF Motion!Install, Motion!transit
<1>4. Settles(t, at, end) BY <1>1, <1>3, Settling
<1>5. [plan |-> request[t].plan, decision |-> request[t].decision, by |-> t]
        \in [plan : Plans, decision : Decisions, by : Tasks]
  BY <1>4 DEF Settles, Issued
<1>6. PICK new \in [plan : Plans, decision : Decisions, by : Tasks] :
        /\ new = [plan |-> request[t].plan, decision |-> request[t].decision, by |-> t]
        /\ new.plan = request[t].plan /\ new.decision = request[t].decision /\ new.by = t
  BY <1>5
<1>7. installs' \in {installs, installs \cup {new}}
      /\ (installs' # installs => /\ current' = request[t].plan
                                  /\ at # "EXECUTING" => Motion!Occurs("late"))
      /\ (at = "EXECUTING" => current' = request[t].plan)
      /\ ((current' = request[t].plan /\ installs' = installs \cup {new}) \/ UNCHANGED <<current, last, installs>>)
  BY <1>3, <1>6
<1>8. /\ {current', last'} \subseteq Plans \cup {Nothing}
      /\ transits' \in [Plans -> {"none", "EXECUTING", "HOLDING_FINAL", "WAITING_NEXT", "COMPLETED_FLOAT",
                                  "FAILED", "RELEASED", "CHAINED_TO_NEXT"}]
      /\ \A q \in Plans : transits'[q] \in {"WAITING_NEXT", "HOLDING_FINAL", "COMPLETED_FLOAT"} => q \in arrived
  <2>1. request[t].plan \in Plans BY <1>4 DEF Settles, Issued
  <2> QED BY <1>3, <2>1 DEF Approved, Motion!TypeOK, TransitsAreWatched
<1>9. Motion!TypeOK'
  BY <1>2, <1>4, <1>7, <1>8 DEF Approved, Motion!TypeOK, Settles, Asks
<1>10. /\ CommitsAreIssued' /\ DecisionsIssueOnce' /\ RequestsAreAwaited'
       /\ \A i \in installs : i.plan # request[t].plan
       /\ \A i \in installs : /\ Issued(i.decision, i.plan)'
                              /\ plan'[i.plan].state \in {"CONSUMED", "REJECTED_AT_COMMIT"}
       /\ \A u \in Tasks :
            /\ call[u].at = "commit" => request'[u].at # "none" /\ request'[u].plan = call[u].plan
            /\ call[u].at \in {"watch", "release"} \/ call[u].result = "failed" =>
                 /\ call[u].plan \in Plans /\ plan'[call[u].plan].state = "CONSUMED"
                 /\ call[u].plan # request[t].plan
            /\ Moves(u) => Moves(u)'
            /\ Moves(u)' => Moves(u) \/ (u = t /\ at = "EXECUTING" /\ call[t].at = "commit")
  BY <1>2, <1>3, <1>4, SettledKeeps
<1>11. InstallsAreConsumed'
  <2>1. Issued(new.decision, new.plan)' /\ plan'[new.plan].state \in {"CONSUMED", "REJECTED_AT_COMMIT"}
    BY <1>2, <1>4, <1>6 DEF Settles, Issued
  <2> QED BY <1>6, <1>7, <1>10, <2>1 DEF Approved, InstallsAreConsumed, Issued
<1>12. CallsHold'
  BY <1>2, <1>7, <1>10 DEF Approved, CallsHold, Motion!Occurs, Decided
<1>13. InstallsAreAnswered'
  <2> SUFFICES ASSUME scene.occurs \cap {"lost", "late"} = {}, NEW i \in installs'
               PROVE  Moves(i.by)' \/ (call[i.by].at = "done" /\ call[i.by].result # "not submitted")
    BY <1>2 DEF InstallsAreAnswered
  <2>1. CASE i \in installs
    BY <1>10, <2>1 DEF Approved, InstallsAreAnswered, Motion!TypeOK
  <2>2. CASE i \notin installs
    <3>1. i = new /\ at = "EXECUTING" BY <1>7, <2>2 DEF Motion!Occurs
    <3>2. Awaits(t) BY <1>1 DEF Approved, RequestsAreAwaited, Motion!Occurs
    <3> QED BY <1>2, <1>4, <1>6, <3>1, <3>2 DEF Awaits, Moves, Settles, Asks
  <2> QED BY <2>1, <2>2
<1>14. TransitsAreWatched'
  <2>1. ASSUME Motion!Alone
        PROVE  /\ \A u \in Tasks : request'[u].at # "none" => call[u].at = "commit"
               /\ \A u \in Tasks : Moves(u)' => Watched(u)'
    <3>1. call[t].at = "commit" /\ \A u \in Tasks : Motion!Working(u) => u = t
      BY <1>1, <2>1 DEF Approved, TransitsAreWatched, Motion!Working
    <3>2. call[t].plan = request[t].plan BY <3>1 DEF Approved, CallsHold
    <3>3. \A u \in Tasks : request'[u].at # "none" => call[u].at = "commit"
      BY <1>4, <2>1, <3>1 DEF Approved, TransitsAreWatched, Settles, Asks
    <3>4. \A u \in Tasks : Moves(u) => u = t BY <3>1 DEF Moves, Motion!Working
    <3>5. ~Moves(t) BY <1>1, <3>1 DEF Moves
    <3>6. \A u \in Tasks : Moves(u)' => u = t /\ current' = request[t].plan
      BY <1>7, <1>10, <3>4, <3>5
    <3> QED BY <1>2, <3>2, <3>3, <3>6 DEF Watched
  <2> QED BY <1>2, <1>8, <2>1 DEF Approved, TransitsAreWatched, Motion!Alone, Motion!Working, Motion!Kind
<1> QED BY <1>9, <1>10, <1>11, <1>12, <1>13, <1>14 DEF Approved

\* An awaiting call takes the answer: it watches, it is done, or it plans anew.
LEMMA AnsweredKeeps ==
  ASSUME Approved, NEW t \in Tasks, Motion!Answered(t)
  PROVE  Approved'
<1> DEFINE wait == request[t].at
           x == [call[t] EXCEPT !.at = "plan", !.retried = TRUE]
<1>1. call[t].at = "commit" /\ wait \in {"EXECUTING", "refused", "stale"}
  BY DEF Motion!Answered, Motion!At
<1>2. call[t].result = "none" /\ call[t].plan = request[t].plan
  BY <1>1 DEF Approved, CallsHold
<1>3. PICK at \in Ats, result \in Results :
        /\ Turns(t, at, call[t].plan, result)
        /\ at # "done" => result = "none"
        /\ wait = "EXECUTING" => at = "watch" \/ (at = "done" /\ result = "submitted")
        /\ wait # "EXECUTING" => at = "plan" \/ (at = "done" /\ result \in {"raised", "not submitted"})
  <2>1. call[t] \in Motion!Call BY DEF Approved, Motion!TypeOK
  <2>2. x \in Motion!Call /\ x.at = "plan" /\ x.plan = call[t].plan /\ x.result = "none"
    BY <1>2, <2>1 DEF Motion!Call
  <2>3. call' = [call EXCEPT ![t] = x] => Turns(t, "plan", call[t].plan, "none")
    BY <2>2, Turning DEF Approved
  <2>4. Motion!Replan(t) => Turns(t, "plan", call[t].plan, "none") \/ Turns(t, "done", call[t].plan, "not submitted")
    <3> HIDE DEF x
    <3>1. CASE call[t].retried BY <3>1, EndTurns DEF Motion!Replan, Approved, Results
    <3>2. CASE ~call[t].retried
      <4>1. Motion!Replan(t) => call' = [call EXCEPT ![t] = x]
        BY <3>2, <2>1 DEF Motion!Replan, x, Approved, Motion!TypeOK
      <4> QED BY <2>3, <4>1
    <3> QED BY <3>1, <3>2
  <2>5. \A r \in Results : Motion!End(t, r) => Turns(t, "done", call[t].plan, r)
    BY EndTurns DEF Approved
  <2>6. \A at \in Ats : Motion!Goto(t, at) => Turns(t, at, call[t].plan, "none")
    BY <1>2, GotoTurns DEF Approved
  <2>7. CASE wait = "EXECUTING"
    <3>1. Motion!End(t, "submitted") \/ Motion!Goto(t, "watch")
      BY <2>7 DEF Motion!Answered, Motion!Serving
    <3> QED BY <2>5, <2>6, <2>7, <3>1 DEF Ats, Results
  <2>8. CASE wait # "EXECUTING"
    <3>1. Motion!End(t, "raised") \/ Motion!Replan(t) \/ Motion!End(t, "not submitted")
      BY <2>8 DEF Motion!Answered, Motion!Serving
    <3> QED BY <2>4, <2>5, <2>8, <3>1 DEF Ats, Results
  <2> QED BY <2>7, <2>8
<1>4. request' = [request EXCEPT ![t] = Motion!NoRequest]
      /\ UNCHANGED <<executable, decision, plan, over, current, last, transits, installs, arrived, scene>>
  BY DEF Motion!Answered, Motion!transit, Motion!history
<1>5. Asks(t, "none", Nothing, Nothing)
  BY <1>4 DEF Asks, Approved, Motion!TypeOK, Motion!Request, Motion!NoRequest
<1>6. Stands BY <1>4, BothStand
<1>7. Motion!TypeOK'
  BY <1>3, <1>4, <1>5 DEF Approved, Motion!TypeOK, Asks, Turns
<1>8. CommitsAreIssued' /\ DecisionsIssueOnce' /\ InstallsAreConsumed'
  BY <1>4, <1>5 DEF Approved, CommitsAreIssued, DecisionsIssueOnce, InstallsAreConsumed, Asks, Issued
<1>9. CallsHold'
  <2> SUFFICES ASSUME NEW u \in Tasks
               PROVE  /\ call'[u].at # "done" => call'[u].result = "none"
                      /\ call'[u].at = "staged" => Decided(call[u].decision, call[u].plan)'
                      /\ call'[u].at = "commit" => request'[u].at # "none" /\ request'[u].plan = call'[u].plan
                      /\ call'[u].at \in {"watch", "release"} \/ call'[u].result = "failed" =>
                           call'[u].plan \in Plans /\ plan[call'[u].plan].state = "CONSUMED"
                      /\ call'[u].result = "failed" /\ ~Motion!Occurs("lost") => current # call'[u].plan
    BY <1>4 DEF CallsHold, Motion!Occurs, Decided
  <2>1. CASE u = t
    <3>1. wait = "EXECUTING" => call[t].plan \in Plans /\ plan[call[t].plan].state = "CONSUMED"
      BY <1>2 DEF Approved, CommitsAreIssued, Issued
    <3> QED BY <1>3, <2>1, <3>1 DEF Turns
  <2>2. CASE u # t
    <3>1. call'[u].at = "staged" => Decided(call[u].decision, call[u].plan)'
      BY <1>3, <1>6, <2>2, StagedStands DEF Turns
    <3> QED BY <1>3, <1>5, <2>2, <3>1 DEF Turns, Asks, Approved, CallsHold
  <2> QED BY <2>1, <2>2
<1>10. RequestsAreAwaited'
  BY <1>3, <1>4, <1>5 DEF Approved, RequestsAreAwaited, Awaits, Turns, Asks, Motion!Occurs
<1>11. \A u \in Tasks : Moves(u) => Moves(u)' \/ (u = t /\ call'[u].at = "done" /\ call'[u].result = "submitted")
  BY <1>1, <1>3, <1>5 DEF Moves, Turns, Asks
<1>12. \A u \in Tasks : Moves(u)' => Moves(u) /\ call'[u].plan = call[u].plan
  BY <1>1, <1>3, <1>5 DEF Moves, Turns, Asks
<1>13. InstallsAreAnswered'
  <2>1. \A i \in installs : i.by \in Tasks BY DEF Approved, Motion!TypeOK
  <2>2. \A u \in Tasks : call[u].at = "done" => call'[u] = call[u]
    BY <1>1, <1>3 DEF Turns
  <2> QED BY <1>4, <1>11, <2>1, <2>2 DEF Approved, InstallsAreAnswered
<1>14. TransitsAreWatched'
  <2>1. ASSUME Motion!Alone
        PROVE  /\ \A u, v \in Tasks : Motion!Working(u)' /\ Motion!Working(v)' => u = v
               /\ \A u \in Tasks : request'[u].at # "none" => call'[u].at = "commit"
               /\ \A u \in Tasks : Moves(u)' => Watched(u)'
    <3>1. \A u \in Tasks : Motion!Working(u)' => Motion!Working(u)
      BY <1>1, <1>3 DEF Turns, Motion!Working
    <3>2. \A u \in Tasks : request'[u].at # "none" => call'[u].at = "commit"
      BY <1>3, <1>5, <2>1 DEF Approved, TransitsAreWatched, Turns, Asks
    <3>3. \A u \in Tasks : Moves(u)' => Watched(u)'
      BY <1>4, <1>12, <2>1 DEF Approved, TransitsAreWatched, Watched
    <3> QED BY <2>1, <3>1, <3>2, <3>3 DEF Approved, TransitsAreWatched
  <2>2. \A u \in Tasks : call'[u].result = "completed" => call'[u] = call[u]
    BY <1>3 DEF Turns
  <2> QED BY <1>4, <2>1, <2>2 DEF Approved, TransitsAreWatched, Motion!Alone, Motion!Kind
<1> QED BY <1>7, <1>8, <1>9, <1>10, <1>13, <1>14 DEF Approved

\* Reviews are asked for, answered, and expire.
LEMMA RequestReviewKeeps ==
  ASSUME Approved, NEW p \in Plans, Motion!RequestReview(p)
  PROVE  Approved'
<1> DEFINE d == Motion!Fresh(Motion!UnusedDecisions)
<1>1. d \in Decisions /\ decision[d].status = "none" /\ decision[d].issued = 0
  BY FreshIsUnused DEF Motion!RequestReview, Motion!UnusedDecisions, Approved, DecisionsIssueOnce
<1>2. /\ decision' = [decision EXCEPT ![d] = [status |-> "PENDING", plan |-> p, issued |-> 0]]
      /\ UNCHANGED <<call, executable, over, request, current, last, transits, installs, arrived, scene>>
  BY DEF Motion!RequestReview, Motion!transit, Motion!history
<1>3. \/ UNCHANGED plan
      \/ plan[p].state = "none" /\ plan' = [plan EXCEPT ![p] = [state |-> "PLANNED", for |-> "review"]]
  <2>1. CASE UNCHANGED plan BY <2>1
  <2>2. CASE Motion!UnusedPlans # {} /\ p = Motion!Fresh(Motion!UnusedPlans) /\ Motion!Previewed(p, "review")
    <3>1. p \in Motion!UnusedPlans BY <2>2, FreshIsUnused
    <3> QED BY <2>2, <3>1 DEF Motion!UnusedPlans, Motion!Previewed
  <2> QED BY <2>1, <2>2 DEF Motion!RequestReview
<1> HIDE DEF d
<1>4. decision \in [Decisions -> Motion!Authorization] /\ plan \in [Plans -> Motion!Preview]
  BY DEF Approved, Motion!TypeOK
<1>5. plan' \in [Plans -> Motion!Preview]
      /\ \A q \in Plans : plan[q].state # "none" => plan'[q] = plan[q]
  <2>1. [state |-> "PLANNED", for |-> "review"] \in Motion!Preview BY DEF Motion!Preview, Motion!Kinds
  <2> QED BY <1>3, <1>4, <2>1
<1>6. decision' \in [Decisions -> Motion!Authorization]
  <2>1. [status |-> "PENDING", plan |-> p, issued |-> 0] \in Motion!Authorization
    BY DEF Motion!Authorization
  <2> QED BY <1>2, <1>4, <2>1
<1>7. Stands
  <2>1. DecisionsIssueOnce' BY <1>1, <1>2, <1>4 DEF Approved, DecisionsIssueOnce
  <2>2. \A e \in Decisions, q \in Plans : (Issued(e, q) => Issued(e, q)') /\ (Decided(e, q) => Decided(e, q)')
    BY <1>1, <1>2, <1>4 DEF Issued, Decided
  <2> QED BY <1>2, <1>5, <1>6, <2>1, <2>2 DEF Stands
<1> QED BY <1>2, <1>7, FliesStill, TransitsKeep DEF Notes, Approved, Motion!TypeOK

LEMMA ResolveKeeps ==
  ASSUME Approved, NEW d \in Decisions, Motion!Resolve(d) \/ Motion!HandOut(d)
  PROVE  Approved'
<1>1. decision[d] \in Motion!Authorization /\ decision[d].issued = 0
      /\ decision[d].status # "none" /\ decision[d].plan \in Plans
  BY DEF Motion!Resolve, Motion!HandOut, Motion!Issuable, Approved, Motion!TypeOK, DecisionsIssueOnce
<1>2. UNCHANGED <<call, executable, plan, over, request, current, last, transits, installs, arrived, scene>>
  BY DEF Motion!Resolve, Motion!HandOut, Motion!transit, Motion!history
<1>3. PICK x \in Motion!Authorization :
        /\ decision' = [decision EXCEPT ![d] = x]
        /\ x.issued \in {0, 1} /\ (x.status # "APPROVED" => x.issued = 0)
        /\ x.status # "none" /\ x.plan = decision[d].plan
  <2>1. CASE Motion!Resolve(d)
    <3>1. PICK r \in {"APPROVED", "DENIED"} : decision' = [decision EXCEPT ![d].status = r]
      BY <2>1 DEF Motion!Resolve
    <3> DEFINE y == [decision[d] EXCEPT !.status = r]
    <3>2. y \in Motion!Authorization /\ y.status = r /\ y.issued = 0 /\ y.plan = decision[d].plan
      BY <1>1 DEF Motion!Authorization
    <3>3. decision' = [decision EXCEPT ![d] = y] BY <3>1
    <3>4. y.issued \in {0, 1} /\ (y.status # "APPROVED" => y.issued = 0) /\ y.status # "none"
      BY <3>2
    <3> HIDE DEF y
    <3> USE <3>2
    <3> WITNESS y \in Motion!Authorization
    <3> QED BY <3>2, <3>3, <3>4
  <2>2. CASE Motion!HandOut(d)
    <3> DEFINE y == [decision[d] EXCEPT !.issued = 1]
    <3>1. decision' = [decision EXCEPT ![d] = y] BY <1>1, <2>2 DEF Motion!HandOut
    <3>2. y \in Motion!Authorization /\ y.status = decision[d].status /\ y.issued = 1
          /\ y.plan = decision[d].plan
      BY <1>1 DEF Motion!Authorization
    <3>3. decision[d].status = "APPROVED" BY <2>2 DEF Motion!HandOut, Motion!Issuable
    <3>4. y.issued \in {0, 1} /\ (y.status # "APPROVED" => y.issued = 0) /\ y.status # "none"
      BY <3>2, <3>3
    <3> HIDE DEF y
    <3> USE <3>2
    <3> WITNESS y \in Motion!Authorization
    <3> QED BY <3>1, <3>2, <3>4
  <2> QED BY <2>1, <2>2
<1>4. Stands BY <1>1, <1>2, <1>3, AuthorizationStands
<1> QED BY <1>2, <1>4, FliesStill, TransitsKeep DEF Notes, Approved, Motion!TypeOK

LEMMA ExpireKeeps ==
  ASSUME Approved, Motion!Expire
  PROVE  Approved'
<1>1. UNCHANGED <<call, executable, plan, request, current, last, transits, installs, arrived, scene>>
  BY DEF Motion!Expire, Motion!transit, Motion!history
<1>2. over' \subseteq Plans \cup Decisions BY DEF Motion!Expire, Approved, Motion!TypeOK
<1>3. Stands
  <2>1. CASE UNCHANGED decision BY <1>1, <2>1, BothStand
  <2>2. ASSUME NEW d \in Decisions,
               decision' = [decision EXCEPT ![d].status = IF @ = "PENDING" THEN "EXPIRED" ELSE @]
        PROVE  Stands
    <3>1. decision \in [Decisions -> Motion!Authorization] BY DEF Approved, Motion!TypeOK
    <3>2. CASE decision[d].status = "PENDING"
      <4> DEFINE y == [decision[d] EXCEPT !.status = "EXPIRED"]
      <4>1. y \in Motion!Authorization /\ y.status = "EXPIRED" /\ y.issued = decision[d].issued
            /\ y.plan = decision[d].plan
        BY <3>1 DEF Motion!Authorization
      <4>2. decision[d].issued = 0 /\ decision[d].plan \in Plans
        BY <3>2 DEF Approved, DecisionsIssueOnce
      <4>3. decision' = [decision EXCEPT ![d] = y] BY <2>2, <3>1, <3>2
      <4>4. /\ y.issued \in {0, 1} /\ (y.status # "APPROVED" => y.issued = 0)
            /\ y.status # "none" /\ y.plan \in Plans
        BY <4>1, <4>2
      <4> HIDE DEF y
      <4> QED BY <1>1, <4>1, <4>2, <4>3, <4>4, AuthorizationStands
    <3>3. CASE decision[d].status # "PENDING"
      <4>1. decision' = decision BY <2>2, <3>1, <3>3 DEF Motion!Authorization
      <4> QED BY <1>1, <4>1, BothStand
    <3> QED BY <3>2, <3>3
  <2> QED BY <2>1, <2>2 DEF Motion!Expire
<1> QED BY <1>1, <1>2, <1>3, FliesStill, TransitsKeep DEF Notes, Approved, Motion!TypeOK

\* The transit settles, fails, or is cancelled.
LEMMA FlyingKeeps ==
  ASSUME Approved, Motion!Arrive \/ Motion!WaitIsOver \/ Motion!Fault \/ Motion!OperatorFloat
  PROVE  Approved'
<1>1. UNCHANGED <<call, executable, decision, plan, over, request, installs, scene>>
  BY DEF Motion!Arrive, Motion!WaitIsOver, Motion!Fault, Motion!OperatorFloat, Motion!agent, Motion!history
<1>2. current \in Plans
  BY DEF Motion!Arrive, Motion!WaitIsOver, Motion!Fault, Motion!OperatorFloat, Approved, Motion!TypeOK
<1>3. Flies
  <2>1. CASE Motion!Arrive
    BY <1>2, <2>1 DEF Motion!Arrive, Approved, Motion!TypeOK, TransitsAreWatched, Flies
  <2>2. CASE Motion!WaitIsOver
    BY <1>2, <2>2 DEF Motion!WaitIsOver, Motion!history, Approved, Motion!TypeOK, TransitsAreWatched, Flies
  <2>3. CASE Motion!Fault
    BY <1>2, <2>3 DEF Motion!Fault, Motion!history, Approved, Motion!TypeOK, TransitsAreWatched, Flies
  <2>4. CASE Motion!OperatorFloat
    BY <1>2, <2>4 DEF Motion!OperatorFloat, Motion!Cancelled, Motion!history,
                      Approved, Motion!TypeOK, TransitsAreWatched, Flies
  <2> QED BY <2>1, <2>2, <2>3, <2>4
<1> QED BY <1>1, <1>3, BothStand, TransitsKeep DEF Notes, Approved, Motion!TypeOK

\* Where one call at a time moves the arm, the others are not at work.
LEMMA WorksAlone ==
  ASSUME Approved, NEW t \in Tasks, Motion!Working(t) \/ Motion!MayStart(t), Motion!Alone
  PROVE  \A u \in Tasks \ {t} : ~Motion!Working(u)
BY DEF Approved, TransitsAreWatched, Motion!MayStart, Motion!Alone

\* A call that has not committed plans, looks, or gives up.
LEMMA LookingKeeps ==
  ASSUME Approved, Stands, Flies, Notes, UNCHANGED <<request, installs>>,
         NEW t \in Tasks, call[t].at \in {"idle", "plan", "look", "check", "check approach", "staged"},
         Motion!Working(t) \/ Motion!MayStart(t),
         NEW at \in {"plan", "look", "check", "check approach", "staged", "done"}, NEW p, NEW result,
         Turns(t, at, p, result),
         at # "done" => result = "none", at = "done" => result \in {"not submitted", "raised"},
         at = "staged" => Decided(call[t].decision, call[t].plan)'
  PROVE  Approved'
<1>1. Motion!Alone => \A u \in Tasks \ {t} : ~Motion!Working(u) BY WorksAlone
<1>2. Proper(t, at, p, result) BY <1>1 DEF Proper
<1> QED BY <1>2, CallsKeep

LEMMA BeginTurnKeeps ==
  ASSUME Approved, NEW t \in Tasks, Motion!BeginTurn(t)
  PROVE  Approved'
<1>1. /\ call[t].at = "idle" /\ Motion!MayStart(t) /\ Motion!Goto(t, "plan")
      /\ executable' \subseteq executable
      /\ UNCHANGED <<decision, plan, over, request, current, last, transits, installs, arrived, scene>>
  BY DEF Motion!BeginTurn, Motion!MayStart, Motion!At, Motion!transit, Motion!history
<1>2. call[t].result = "none" BY <1>1 DEF Approved, CallsHold
<1>3. Turns(t, "plan", call[t].plan, "none") BY <1>1, <1>2, GotoTurns DEF Approved, Ats
<1>4. Stands /\ Flies /\ Notes BY <1>1, BothStand, FliesStill DEF Notes, Approved, Motion!TypeOK
<1> QED BY <1>1, <1>3, <1>4, LookingKeeps

\* A fresh plan is previewed.
LEMMA Previewing ==
  ASSUME Approved, Motion!UnusedPlans # {}, NEW kind \in Motion!Kinds,
         Motion!Previewed(Motion!Fresh(Motion!UnusedPlans), kind), UNCHANGED <<decision, scene>>
  PROVE  Stands /\ Motion!Fresh(Motion!UnusedPlans) \in Plans
<1> DEFINE p == Motion!Fresh(Motion!UnusedPlans)
           x == [state |-> "PLANNED", for |-> kind]
<1>1. p \in Plans /\ plan[p].state = "none" BY FreshIsUnused DEF Motion!UnusedPlans
<1>2. x \in Motion!Preview BY DEF Motion!Preview
<1>3. plan' = [plan EXCEPT ![p] = x] BY DEF Motion!Previewed
<1> HIDE DEF p, x
<1>4. Stands BY <1>1, <1>2, <1>3, PreviewStands
<1> QED BY <1>1, <1>4 DEF p

LEMMA PlanApproachKeeps ==
  ASSUME Approved, NEW t \in Tasks, Motion!PlanApproach(t)
  PROVE  Approved'
<1>1. /\ call[t].at = "plan" /\ Motion!Working(t)
      /\ UNCHANGED <<decision, over, request, current, last, transits, installs, arrived, scene>>
  BY DEF Motion!PlanApproach, Motion!At, Motion!Working, Motion!transit, Motion!history
<1>2. call[t].result = "none" BY <1>1 DEF Approved, CallsHold
<1>3. Flies BY <1>1, FliesStill
<1>4. CASE /\ Motion!UnusedPlans # {}
           /\ Motion!Previewed(Motion!Fresh(Motion!UnusedPlans), "approach")
           /\ executable' = {q \in executable : plan[q].for # "approach"} \cup {Motion!Fresh(Motion!UnusedPlans)}
           /\ Motion!Goto(t, "look")
  <2>1. Stands /\ Motion!Fresh(Motion!UnusedPlans) \in Plans
    BY <1>1, <1>4, Previewing DEF Motion!Kinds
  <2>2. Turns(t, "look", call[t].plan, "none") BY <1>2, <1>4, GotoTurns DEF Approved, Ats
  <2>3. Notes BY <1>1, <1>4, <2>1 DEF Notes, Approved, Motion!TypeOK
  <2> QED BY <1>1, <1>3, <2>1, <2>2, <2>3, LookingKeeps
<1>5. CASE Motion!End(t, "not submitted") /\ UNCHANGED <<executable, plan>>
  <2>1. Turns(t, "done", call[t].plan, "not submitted") BY <1>5, EndTurns DEF Approved, Results
  <2>2. Stands /\ Notes BY <1>1, <1>5, BothStand DEF Notes, Approved, Motion!TypeOK
  <2> QED BY <1>1, <1>3, <2>1, <2>2, LookingKeeps
<1> QED BY <1>4, <1>5 DEF Motion!PlanApproach

LEMMA PrepareRelativeKeeps ==
  ASSUME Approved, NEW t \in Tasks, Motion!PrepareRelative(t)
  PROVE  Approved'
<1> DEFINE p == Motion!Fresh(Motion!UnusedPlans)
           x == [call[t] EXCEPT !.at = "check", !.plan = p]
<1>1. /\ call[t].at = "idle" /\ Motion!MayStart(t) /\ Motion!UnusedPlans # {}
      /\ Motion!Previewed(p, "relative") /\ executable' = executable \cup {p}
      /\ UNCHANGED <<decision, over, request, current, last, transits, installs, arrived, scene>>
  BY DEF Motion!PrepareRelative, Motion!MayStart, Motion!At, Motion!transit, Motion!history
<1>2. Stands /\ p \in Plans BY <1>1, Previewing DEF Motion!Kinds
<1>3. call \in [Tasks -> Motion!Call] /\ call[t].result = "none"
  BY <1>1 DEF Approved, CallsHold, Motion!TypeOK
<1>4. call' = [call EXCEPT ![t] = x] BY <1>3 DEF Motion!PrepareRelative
<1> HIDE DEF p
<1>5. x \in Motion!Call /\ x.at = "check" /\ x.plan = p /\ x.result = "none"
  BY <1>2, <1>3 DEF Motion!Call
<1> HIDE DEF x
<1>6. Turns(t, "check", p, "none") BY <1>4, <1>5, Turning DEF Approved
<1>7. Flies /\ Notes BY <1>1, <1>2, FliesStill DEF Notes, Approved, Motion!TypeOK
<1> QED BY <1>1, <1>2, <1>6, <1>7, LookingKeeps

LEMMA LookForApproachKeeps ==
  ASSUME Approved, NEW t \in Tasks, Motion!LookForApproach(t)
  PROVE  Approved'
<1>1. /\ call[t].at = "look" /\ Motion!Working(t)
      /\ UNCHANGED <<executable, decision, plan, over, request, current, last, transits, installs, arrived, scene>>
  BY DEF Motion!LookForApproach, Motion!At, Motion!Working, Motion!transit, Motion!history
<1>2. Stands /\ Flies /\ Notes BY <1>1, BothStand, FliesStill DEF Notes, Approved, Motion!TypeOK
<1>3. CASE Motion!End(t, "not submitted")
  <2>1. Turns(t, "done", call[t].plan, "not submitted") BY <1>3, EndTurns DEF Approved, Results
  <2> QED BY <1>1, <1>2, <2>1, LookingKeeps
<1>4. ASSUME NEW p \in executable, call' = [call EXCEPT ![t].at = "check approach", ![t].plan = p]
      PROVE  Approved'
  <2> DEFINE x == [call[t] EXCEPT !.at = "check approach", !.plan = p]
  <2>1. call \in [Tasks -> Motion!Call] /\ call[t].result = "none" /\ p \in Plans
    BY <1>1 DEF Approved, CallsHold, Motion!TypeOK
  <2>2. call' = [call EXCEPT ![t] = x] BY <1>4, <2>1
  <2>3. x \in Motion!Call /\ x.at = "check approach" /\ x.plan = p /\ x.result = "none"
    BY <2>1 DEF Motion!Call
  <2> HIDE DEF x
  <2>4. Turns(t, "check approach", p, "none") BY <2>2, <2>3, Turning DEF Approved
  <2> QED BY <1>1, <1>2, <2>4, LookingKeeps
<1> QED BY <1>3, <1>4 DEF Motion!LookForApproach

LEMMA LookAtReviewKeeps ==
  ASSUME Approved, NEW t \in Tasks, NEW d \in Decisions, Motion!LookAtReview(t, d)
  PROVE  Approved'
<1> DEFINE p == decision[d].plan
           x == [call[t] EXCEPT !.at = "staged", !.plan = p, !.decision = d]
<1>1. /\ call[t].at = "idle" /\ Motion!MayStart(t) /\ decision[d].status # "none"
      /\ UNCHANGED <<executable, decision, plan, over, request, current, last, transits, installs, arrived, scene>>
  BY DEF Motion!LookAtReview, Motion!Reviewed, Motion!MayStart, Motion!At, Motion!transit, Motion!history
<1>2. Stands /\ Flies /\ Notes BY <1>1, BothStand, FliesStill DEF Notes, Approved, Motion!TypeOK
<1>3. call \in [Tasks -> Motion!Call] /\ call[t].result = "none" /\ p \in Plans
  BY <1>1 DEF Approved, CallsHold, Motion!TypeOK, DecisionsIssueOnce
<1>4. call' = [call EXCEPT ![t] = x] BY <1>3 DEF Motion!LookAtReview
<1>5. x \in Motion!Call /\ x.at = "staged" /\ x.plan = p /\ x.result = "none" /\ x.decision = d
  BY <1>3 DEF Motion!Call
<1>6. call'[t] = x BY <1>3, <1>4
<1>7. Decided(call[t].decision, call[t].plan)' BY <1>1, <1>3, <1>5, <1>6 DEF Decided
<1> HIDE DEF x
<1>8. Turns(t, "staged", p, "none") BY <1>4, <1>5, Turning DEF Approved
<1> QED BY <1>1, <1>2, <1>7, <1>8, LookingKeeps

\* A call that waits for an answer, or watches, comes to its end.
LEMMA WatchingKeeps ==
  ASSUME Approved, NEW t \in Tasks,
         Motion!Unanswered(t) \/ Motion!Poll(t) \/ Motion!Abandon(t) \/ Motion!Release(t) \/ Motion!CancelTask(t)
  PROVE  Approved'
<1>1. UNCHANGED <<executable, decision, plan, over, request, installs, arrived, scene>>
  BY DEF Motion!Unanswered, Motion!Poll, Motion!Abandon, Motion!Release, Motion!CancelTask, Motion!history
<1>2. Stands /\ Notes BY <1>1, BothStand DEF Notes, Approved, Motion!TypeOK
<1>3. \A r \in Results : Motion!End(t, r) => Turns(t, "done", call[t].plan, r)
  BY EndTurns DEF Approved
<1>4. CASE Motion!Unanswered(t)
  <2>1. UNCHANGED <<current, last, transits, arrived>> /\ call[t].at = "commit" /\ Motion!Occurs("lost")
    BY <1>4 DEF Motion!Unanswered, Motion!At, Motion!transit, Motion!history
  <2>2. PICK r \in {"not submitted", "raised"} : Turns(t, "done", call[t].plan, r)
    BY <1>3, <1>4 DEF Motion!Unanswered, Results
  <2>3. ~Motion!Alone BY <2>1 DEF Motion!Alone, Motion!Occurs
  <2>4. Proper(t, "done", call[t].plan, r) BY <2>1, <2>3 DEF Proper
  <2> QED BY <1>1, <1>2, <2>1, <2>2, <2>4, FliesStill, CallsKeep
<1>5. CASE Motion!CancelTask(t)
  <2>1. UNCHANGED <<current, last, transits, arrived>> /\ Motion!Occurs("cancel")
    BY <1>5 DEF Motion!CancelTask, Motion!transit, Motion!history
  <2>2. Turns(t, "done", call[t].plan, "cancelled") BY <1>3, <1>5 DEF Motion!CancelTask, Results
  <2>3. ~Motion!Alone BY <2>1 DEF Motion!Alone, Motion!Occurs
  <2>4. Proper(t, "done", call[t].plan, "cancelled") BY <2>3 DEF Proper
  <2> QED BY <1>1, <1>2, <2>1, <2>2, <2>4, FliesStill, CallsKeep
<1>6. CASE Motion!Poll(t) \/ Motion!Abandon(t)
  <2>1. UNCHANGED <<current, last, transits, arrived>> /\ call[t].at = "watch" /\ Motion!Working(t)
    BY <1>6 DEF Motion!Poll, Motion!Abandon, Motion!At, Motion!Working, Motion!transit, Motion!history
  <2>2. /\ call[t].result = "none" /\ call[t].plan \in Plans /\ plan[call[t].plan].state = "CONSUMED"
        /\ call[t].plan # Nothing
    BY <2>1, MotionBounds DEF Approved, CallsHold
  <2>3. Motion!Alone => \A u \in Tasks \ {t} : ~Motion!Working(u) BY <2>1, WorksAlone
  <2>4. CASE Motion!EndIsSeen(t) /\ Motion!End(t, "completed")
    <3>1. Turns(t, "done", call[t].plan, "completed") BY <1>3, <2>4 DEF Results
    <3>2. Motion!Kind(t) = "approach" \/ Motion!Alone => call[t].plan \in arrived
      <4>1. Motion!Alone => Watched(t) BY <2>1 DEF Approved, TransitsAreWatched, Moves
      <4> QED BY <2>2, <2>4, <4>1 DEF Motion!EndIsSeen, Motion!PlanOf, Approved, TransitsAreWatched, Watched
    <3>3. Proper(t, "done", call[t].plan, "completed") BY <2>1, <2>2, <2>3, <3>2 DEF Proper
    <3> QED BY <1>1, <1>2, <2>1, <3>1, <3>3, FliesStill, CallsKeep
  <2>5. CASE Motion!Goto(t, "release")
    <3>1. Turns(t, "release", call[t].plan, "none") BY <2>2, <2>5, GotoTurns DEF Ats, Approved
    <3>2. Proper(t, "release", call[t].plan, "none") BY <2>1, <2>2, <2>3 DEF Proper
    <3> QED BY <1>1, <1>2, <2>1, <3>1, <3>2, FliesStill, CallsKeep
  <2> QED BY <1>6, <2>4, <2>5 DEF Motion!Poll, Motion!Abandon
<1>7. CASE Motion!Release(t)
  <2>1. call[t].at = "release" BY <1>7 DEF Motion!Release, Motion!At
  <2>2. call[t].plan \in Plans /\ plan[call[t].plan].state = "CONSUMED" /\ call[t].plan # Nothing
    BY <2>1, MotionBounds DEF Approved, CallsHold
  <2>3. Motion!Cancelled \/ (Motion!Occurs("lost") /\ UNCHANGED <<current, last, transits>>)
    BY <1>7 DEF Motion!Release, Motion!transit
  <2>4. Flies
    <3>1. CASE Motion!Cancelled
      BY <1>1, <3>1 DEF Motion!Cancelled, Approved, Motion!TypeOK, TransitsAreWatched, Flies
    <3>2. CASE UNCHANGED <<current, last, transits>> BY <1>1, <3>2, FliesStill
    <3> QED BY <2>3, <3>1, <3>2
  <2>5. ~Motion!Occurs("lost") => current' # call[t].plan
    BY <2>2, <2>3 DEF Motion!Cancelled
  <2>6. Turns(t, "done", call[t].plan, "failed") BY <1>3, <1>7 DEF Motion!Release, Results
  <2>7. Proper(t, "done", call[t].plan, "failed")
    BY <2>1, <2>2, <2>5 DEF Proper
  <2> QED BY <1>1, <1>2, <2>4, <2>6, <2>7, CallsKeep
<1> QED BY <1>4, <1>5, <1>6, <1>7

\* The policy creates, approves and issues a decision, and the commit is posted.
LEMMA CommitKeeps ==
  ASSUME Approved, NEW t \in Tasks, NEW p \in Plans, Motion!Commit(t, p),
         call[t].at \in {"check", "check approach", "staged"},
         UNCHANGED <<plan, over, installs, current, last, transits, arrived, scene>>
  PROVE  Approved'
<1> DEFINE d == Motion!Fresh(Motion!UnusedDecisions)
           x == [status |-> "APPROVED", plan |-> p, issued |-> 1]
<1>1. d \in Decisions /\ decision[d].status = "none" /\ decision[d].issued = 0
  BY FreshIsUnused DEF Motion!Commit, Motion!UnusedDecisions, Approved, DecisionsIssueOnce
<1>2. decision' = [decision EXCEPT ![d] = x] /\ Motion!Post(t, p, d) /\ executable' = executable \ {p}
  BY DEF Motion!Commit
<1>3. x \in Motion!Authorization /\ x.status = "APPROVED" /\ x.plan = p /\ x.issued = 1
  BY DEF Motion!Authorization
<1>4. decision \in [Decisions -> Motion!Authorization] BY DEF Approved, Motion!TypeOK
<1> HIDE DEF d, x
<1>4a. x.issued \in {0, 1} /\ (x.status # "APPROVED" => x.issued = 0)
       /\ x.status # "none" /\ x.plan \in Plans
  BY <1>3
<1>e. PICK e \in Decisions : e = d BY <1>1
<1>5. Stands BY <1>1, <1>2, <1>3, <1>4a, AuthorizationStands
<1>6. Issued(e, p)' BY <1>e, <1>1, <1>2, <1>3, <1>4 DEF Issued
<1>7. Notes BY <1>2 DEF Notes, Approved, Motion!TypeOK
<1> QED BY <1>e, <1>2, <1>5, <1>6, <1>7, PostKeeps

LEMMA ExecuteRelativeKeeps ==
  ASSUME Approved, NEW t \in Tasks, Motion!ExecuteRelative(t)
  PROVE  Approved'
<1>1. /\ call[t].at = "check" /\ Motion!Working(t)
      /\ UNCHANGED <<plan, over, current, last, transits, installs, arrived, scene>>
  BY DEF Motion!ExecuteRelative, Motion!At, Motion!Working, Motion!transit, Motion!history
<1>2. CASE call[t].plan \in executable \ over /\ Motion!Commit(t, call[t].plan)
  <2>1. call[t].plan \in Plans BY <1>2 DEF Approved, Motion!TypeOK
  <2> QED BY <1>1, <1>2, <2>1, CommitKeeps
<1>3. CASE Motion!End(t, "raised") /\ UNCHANGED <<executable, decision, request>>
  <2>1. Turns(t, "done", call[t].plan, "raised") BY <1>3, EndTurns DEF Approved, Results
  <2>2. Stands /\ Flies /\ Notes BY <1>1, <1>3, BothStand, FliesStill DEF Notes, Approved, Motion!TypeOK
  <2> QED BY <1>1, <1>3, <2>1, <2>2, LookingKeeps
<1> QED BY <1>2, <1>3 DEF Motion!ExecuteRelative, Motion!PlanOf

LEMMA ExecuteApproachKeeps ==
  ASSUME Approved, NEW t \in Tasks, Motion!ExecuteApproach(t)
  PROVE  Approved'
<1>1. /\ call[t].at = "check approach" /\ Motion!Working(t)
      /\ UNCHANGED <<plan, over, current, last, transits, installs, arrived, scene>>
  BY DEF Motion!ExecuteApproach, Motion!At, Motion!Working, Motion!transit, Motion!history
<1>2. CASE call[t].plan \in executable /\ Motion!Commit(t, call[t].plan)
  <2>1. call[t].plan \in Plans BY <1>2 DEF Approved, Motion!TypeOK
  <2> QED BY <1>1, <1>2, <2>1, CommitKeeps
<1>3. CASE /\ Motion!End(t, "not submitted") \/ Motion!Replan(t)
           /\ executable' \subseteq executable /\ UNCHANGED <<decision, request>>
  <2>1. call[t].result = "none" /\ call[t] \in Motion!Call
    BY <1>1 DEF Approved, CallsHold, Motion!TypeOK
  <2>2. Turns(t, "done", call[t].plan, "not submitted") \/ Turns(t, "plan", call[t].plan, "none")
    <3> DEFINE x == [call[t] EXCEPT !.at = "plan", !.retried = TRUE]
    <3>1. x \in Motion!Call /\ x.at = "plan" /\ x.plan = call[t].plan /\ x.result = "none"
      BY <2>1 DEF Motion!Call
    <3>2. Motion!End(t, "not submitted") \/ call' = [call EXCEPT ![t] = x]
      BY <1>3, <2>1 DEF Motion!Replan, Approved, Motion!TypeOK
    <3> HIDE DEF x
    <3> QED BY <3>1, <3>2, EndTurns, Turning DEF Approved, Results
  <2>3. Stands /\ Flies /\ Notes BY <1>1, <1>3, BothStand, FliesStill DEF Notes, Approved, Motion!TypeOK
  <2> QED BY <1>1, <1>3, <2>2, <2>3, LookingKeeps
<1> QED BY <1>2, <1>3 DEF Motion!ExecuteApproach, Motion!PlanOf

\* A review is executed under the decision it was looked at with.
LEMMA ExecuteReviewKeeps ==
  ASSUME Approved, NEW t \in Tasks, Motion!ExecuteReview(t)
  PROVE  Approved'
<1>1. /\ call[t].at = "staged" /\ Motion!Working(t)
      /\ UNCHANGED <<executable, plan, over, current, last, transits, installs, arrived, scene>>
  BY DEF Motion!ExecuteReview, Motion!At, Motion!Working, Motion!transit, Motion!history
<1>2. PICK d \in Decisions, p \in Plans : d = call[t].decision /\ p = call[t].plan /\ Decided(d, p)
  BY <1>1 DEF Approved, CallsHold, Decided
<1>3. CASE /\ Motion!Issuable(d) /\ decision' = [decision EXCEPT ![d].issued = @ + 1]
           /\ Motion!Post(t, p, d)
  <2> DEFINE x == [decision[d] EXCEPT !.issued = 1]
  <2>1. decision \in [Decisions -> Motion!Authorization] /\ decision[d].status = "APPROVED"
        /\ decision[d].issued = 0 /\ decision[d].plan = p
    BY <1>2, <1>3 DEF Approved, Motion!TypeOK, Motion!Issuable, Decided
  <2>2. decision' = [decision EXCEPT ![d] = x] BY <1>3, <2>1
  <2>3. x \in Motion!Authorization /\ x.status = "APPROVED" /\ x.plan = p /\ x.issued = 1
    BY <2>1 DEF Motion!Authorization
  <2>3a. x.issued \in {0, 1} /\ (x.status # "APPROVED" => x.issued = 0) /\ x.status # "none" /\ x.plan \in Plans
    BY <2>3
  <2> HIDE DEF x
  <2>4. Stands BY <1>1, <2>1, <2>2, <2>3, <2>3a, AuthorizationStands
  <2>5. Issued(d, p)' BY <2>1, <2>2, <2>3 DEF Issued
  <2>6. Notes BY <1>1 DEF Notes, Approved, Motion!TypeOK
  <2> QED BY <1>1, <1>3, <2>4, <2>5, <2>6, PostKeeps
<1>4. CASE Motion!End(t, "raised") /\ UNCHANGED <<decision, request>>
  <2>1. Turns(t, "done", call[t].plan, "raised") BY <1>4, EndTurns DEF Approved, Results
  <2>2. Stands /\ Flies /\ Notes BY <1>1, <1>4, BothStand, FliesStill DEF Notes, Approved, Motion!TypeOK
  <2> QED BY <1>1, <1>4, <2>1, <2>2, LookingKeeps
<1> QED BY <1>2, <1>3, <1>4 DEF Motion!ExecuteReview, Motion!PlanOf

LEMMA VerifyKeeps ==
  ASSUME Approved, NEW t \in Tasks, Motion!Verify(t)
  PROVE  Approved'
<1>1. /\ request[t].at = "sent"
      /\ UNCHANGED <<call, executable, over, decision, plan, installs, current, last, transits, arrived, scene>>
  BY DEF Motion!Verify, Motion!Serving, Motion!agent, Motion!transit, Motion!history
<1>2. \E at \in {"verified", "refused", "stale"} : Motion!Serve(t, at)
  BY DEF Motion!Verify
<1> QED BY <1>1, <1>2, AnswersKeep

LEMMA MotionStep ==
  ASSUME Approved, Motion!Next
  PROVE  Approved'
<1>1. ASSUME NEW t \in Tasks,
             \/ Motion!BeginTurn(t) \/ Motion!PrepareRelative(t) \/ \E d \in Decisions : Motion!LookAtReview(t, d)
             \/ Motion!Executing(t) \/ Motion!Service(t) \/ Motion!Unanswered(t) \/ Motion!CancelTask(t)
      PROVE  Approved'
  <2>1. CASE Motion!Executing(t)
    BY <2>1, PlanApproachKeeps, ExecuteRelativeKeeps, LookForApproachKeeps, ExecuteApproachKeeps,
       ExecuteReviewKeeps, AnsweredKeeps, WatchingKeeps DEF Motion!Executing
  <2>2. CASE Motion!Service(t)
    BY <2>2, VerifyKeeps, ConsumeKeeps, InstallKeeps DEF Motion!Service
  <2> QED BY <1>1, <2>1, <2>2, BeginTurnKeeps, PrepareRelativeKeeps, LookAtReviewKeeps, WatchingKeeps
<1> QED BY <1>1, RequestReviewKeeps, ResolveKeeps, ExpireKeeps, FlyingKeeps DEF Motion!Next

LEMMA MotionStutters ==
  ASSUME Approved, UNCHANGED motionVars
  PROVE  Approved'
<1>1. UNCHANGED <<call, executable, decision, plan, over, request, current, last, transits, installs, arrived, scene>>
  BY DEF motionVars
<1> QED BY <1>1, BothStand, FliesStill, TransitsKeep DEF Notes, Approved, Motion!TypeOK

LEMMA MotionStart ==
  ASSUME Motion!Init
  PROVE  Approved
<1>1. Motion!TypeOK
  BY DEF Motion!Init, Motion!TypeOK, Motion!Idle, Motion!NoRequest, Motion!Unused, Motion!Call,
         Motion!Authorization, Motion!Preview, Motion!Request
<1>2. DecisionsIssueOnce /\ CommitsAreIssued /\ InstallsAreConsumed
  BY DEF Motion!Init, Motion!Unused, Motion!NoRequest, DecisionsIssueOnce, CommitsAreIssued, InstallsAreConsumed
<1>3. CallsHold /\ RequestsAreAwaited /\ InstallsAreAnswered
  BY DEF Motion!Init, Motion!Idle, Motion!NoRequest, CallsHold, RequestsAreAwaited, InstallsAreAnswered
<1>4. TransitsAreWatched
  BY DEF Motion!Init, Motion!Idle, Motion!NoRequest, TransitsAreWatched, Motion!Working, Moves
<1> QED BY <1>1, <1>2, <1>3, <1>4 DEF Approved

LEMMA ApprovedIsEnough ==
  ASSUME Approved
  PROVE  Motion!TypeOK /\ ApprovalIsSpentOnce /\ ReportsAreTruthful
<1>1. Motion!ApprovalIsSpentOnce
  BY DEF Approved, DecisionsIssueOnce, InstallsAreConsumed, Issued, Motion!ApprovalIsSpentOnce
<1>2. Motion!ReportsAreTruthful
  <2> SUFFICES ASSUME NEW t \in Tasks
               PROVE  /\ call[t].result = "completed" /\ (Motion!Kind(t) = "approach" \/ Motion!Alone) =>
                           call[t].plan \in arrived
                      /\ call[t].result = "not submitted" /\ scene.occurs \cap {"lost", "late"} = {} =>
                           \A p \in Plans : ~Motion!Installed(t, p)
                      /\ call[t].result = "failed" /\ ~Motion!Occurs("lost") => current # call[t].plan
    BY DEF Motion!ReportsAreTruthful, Motion!PlanOf
  <2>1. call[t].result = "not submitted" => call[t].at = "done" BY DEF Approved, CallsHold
  <2> QED BY <2>1 DEF Approved, TransitsAreWatched, CallsHold, InstallsAreAnswered, Moves, Motion!Installed
<1> QED BY <1>1, <1>2 DEF Approved, ApprovalIsSpentOnce, ReportsAreTruthful

\* What holds of the approvals, the requests and the calls holds in every state.
LEMMA ApprovedHolds == Motion!Init /\ [][Motion!Next]_Motion!vars => []Approved
<1>1. Approved /\ [Motion!Next]_Motion!vars => Approved'
  <2>1. UNCHANGED Motion!vars => UNCHANGED motionVars
    BY DEF Motion!vars, Motion!agent, Motion!transit, Motion!history, motionVars
  <2> QED BY <2>1, MotionStep, MotionStutters
<1> QED BY <1>1, MotionStart, PTL

\* Every variable of approved motion has its type.
THEOREM MotionTypeCorrect == Motion!Spec => []Motion!TypeOK
BY ApprovedHolds, ApprovedIsEnough, PTL DEF Motion!Spec

\* An approval is one assertion and one transit, of the plan it was given for: for
\* every number of calls that are cancelled, repeated or race one another, of plans
\* and of decisions (issue_execution_assertion,
\* _direct_commit_transit_path).
THEOREM ApprovalsAreSpentOnce == Motion!Spec => []ApprovalIsSpentOnce
BY ApprovedHolds, ApprovedIsEnough, PTL DEF Motion!Spec

\* A call that says it did not submit has installed nothing, one that says it
\* failed moves nothing, and one that says it completed has arrived, within what
\* each says of lost answers and late workers (_execute_signed_transit,
\* execute_preview).
THEOREM CallsTellTheTruth == Motion!Spec => []ReportsAreTruthful
BY ApprovedHolds, ApprovedIsEnough, PTL DEF Motion!Spec

---------------------------------------------------------------------------
(* The test agent's runs.                                                   *)

Events == {"run.started", "delta", "run.completed", "run.failed", "approval.required",
           "approval.resolved", "run.cancellation_requested", "run.cancelled"}
States == {"RUNNING", "AWAITING_APPROVAL", "COMPLETED", "FAILED", "CANCELLED"}
Entries == [run : Runs, kind : {"turn"}, value : {"none"}, at : Nat]
           \cup [run : Runs, kind : {"event"}, value : Events, at : Nat]
           \cup [run : Runs, kind : {"status"}, value : States, at : Nat]
           \cup {Agent!Entry("all", "stop", "none", 0)}
Row == [status : States \cup {"NONE", "STARTING", "INTERRUPTED"}, last : Nat,
        answer : {"none"} \cup Agent!EndEvents]
Tables == [Runs -> Row]
NoTask == (\A r \in Runs : task[r] = "none") /\ \A r \in Runs : cancels[r] = 0
RunTypes ==
  /\ server \in {"up", "stopping", "down"} /\ recording \in BOOLEAN
  /\ runStatus \in [Runs -> States \cup {"NONE"}] /\ log \in [Runs -> Seq(Events)]
  /\ task \in [Runs -> {"none", "model", "expiring", "cancelled"}]
  /\ granted \in [Runs -> SUBSET Ops] /\ executed \in [Runs -> Seq(Ops)]
  /\ decisions \in [Runs -> UNION {[D -> BOOLEAN] : D \in SUBSET Ops}]
  /\ pending \in [Runs -> Ops \cup {"none"}]
  /\ cancels \in [Runs -> Nat] /\ read \in [Runs -> Nat] /\ closed \subseteq Runs
  /\ batch \in Seq(Entries) /\ queue \in Seq(Entries) /\ rows \in Tables /\ lost \subseteq Runs

\* A task, or a cancellation that waits for it, is of a channel; a run with a task
\* is running, and what the operator owes has not been decided.
Running ==
  /\ server # "up" => NoTask
  /\ \A r \in Runs :
       /\ task[r] # "none" => runStatus[r] = "RUNNING"
       /\ cancels[r] > 0 => runStatus[r] # "NONE"
       /\ runStatus[r] # "NONE" => log[r] # <<>>
       /\ pending[r] # "none" => pending[r] \notin DOMAIN decisions[r]

\* What was executed was granted by a decision, once.
ExecutedOnce ==
  \A r \in Runs :
    /\ \A i, j \in 1..Len(executed[r]) : executed[r][i] = executed[r][j] => i = j
    /\ \A op \in granted[r] : op \in DOMAIN decisions[r] /\ decisions[r][op]
    /\ \A i \in 1..Len(executed[r]) :
         /\ executed[r][i] \in DOMAIN decisions[r] /\ decisions[r][executed[r][i]]
         /\ executed[r][i] \notin granted[r]

\* An end is in the log, and before the cursor of a reader who was told of it.
EndsAreLogged ==
  \A r \in Runs :
    /\ runStatus[r] \in Agent!Terminal => \E i \in 1..Len(log[r]) : log[r][i] \in Agent!EndEvents
    /\ r \in closed => \E i \in 1..Len(log[r]) : i <= read[r] /\ log[r][i] \in Agent!EndEvents

\* What a row shows of a run in state s with l events.
Shows(row, s, l) ==
  IF s = "NONE" THEN row.status \in Agent!Terminal \cup {"NONE"}
  ELSE row.status = s /\ row.last = l /\ (s \in Agent!Terminal => row.answer \in Agent!EndEvents)

\* A journal that is closed has nothing to write, and one that is stopping stops last.
JournalCloses ==
  /\ ~recording \/ server = "down" => queue = <<>> /\ batch = <<>>
  /\ server = "down" => ~recording
  /\ server = "up" => ~Agent!Stops(queue) /\ ~Agent!Stops(batch)
  /\ Agent!Stops(batch) => queue = <<>>

\* What is written and what is waiting to be is, together, what the channel has.
JournalFollows ==
  /\ \A r \in Runs : log[r] = <<>> => rows[r] = Agent!NoRow /\ r \notin Agent!Of(batch) \cup Agent!Of(queue)
  /\ server = "up" /\ recording =>
       \A r \in Runs \ lost : Shows(Agent!After(rows, batch \o queue)[r], runStatus[r], Len(log[r]))

LEMMA LeastNumber ==
  ASSUME NEW S \in SUBSET Nat, S # {}
  PROVE  \E m \in S : \A k \in S : m <= k
<1> DEFINE R == {ss \in Nat \X Nat : ss[1] < ss[2]}
<1>1. IsWellFoundedOn(R, Nat)
  BY NatLessThanWellFounded DEF OpToRel
<1> HIDE DEF R
<1>2. \E x \in S : \A y \in S : ~(<<y, x>> \in R)
  BY <1>1, WFMin
<1>3. PICK x \in S : \A y \in S : ~(<<y, x>> \in R)
  BY <1>2
<1>4. \A y \in S : <<y, x>> \in Nat \X Nat /\ <<y, x>>[1] = y /\ <<y, x>>[2] = x OBVIOUS
<1>5. \A y \in S : ~(y < x)
  BY <1>3, <1>4 DEF R
<1>6. \A y \in S : x <= y BY <1>5
<1> QED BY <1>6

\* One operation of the journal applied to the table.
Step(table, e) ==
  IF e.kind = "stop" THEN Agent!InterruptAll(table)
  ELSE [table EXCEPT ![e.run] = Agent!Write(table[e.run], e)]

Folds(f, table, es) ==
  f = [n \in 0..Len(es) |-> IF n = 0 THEN table ELSE Step(f[n-1], es[n])]

Upto(f, table, es, k) ==
  f = [n \in 0..k |-> IF n = 0 THEN table ELSE Step(f[n-1], es[n])]

LEMMA FoldExists ==
  ASSUME NEW table, NEW es, Len(es) \in Nat
  PROVE  \E f : Folds(f, table, es)
<1> DEFINE S == {k \in Nat : ~\E f : Upto(f, table, es, k)}
<1>1. S = {}
  <2> SUFFICES ASSUME S # {} PROVE FALSE OBVIOUS
  <2>1. PICK m \in S : \A k \in S : m <= k BY LeastNumber
  <2>2. m # 0
    <3>1. Upto([n \in 0..0 |-> table], table, es, 0) BY DEF Upto
    <3> QED BY <3>1
  <2>3. PICK g : Upto(g, table, es, m - 1) BY <2>1, <2>2
  <2> DEFINE f == [n \in 0..m |-> IF n = m THEN Step(g[m-1], es[m]) ELSE g[n]]
  <2>4. \A n \in 0..m-1 : g[n] = IF n = 0 THEN table ELSE Step(g[n-1], es[n])
    BY <2>3 DEF Upto
  <2>5. \A n \in 0..m : f[n] = IF n = 0 THEN table ELSE Step(f[n-1], es[n])
    BY <2>2, <2>4
  <2>6. Upto(f, table, es, m) BY <2>5 DEF Upto
  <2> QED BY <2>6
<1>2. \E f : Upto(f, table, es, Len(es)) BY <1>1
<1> QED BY <1>2 DEF Upto, Folds

LEMMA AfterFolds ==
  ASSUME NEW table, NEW es, Len(es) \in Nat
  PROVE  \E f : Folds(f, table, es) /\ Agent!After(table, es) = f[Len(es)]
<1> DEFINE f[n \in 0..Len(es)] == IF n = 0 THEN table ELSE Step(f[n-1], es[n])
           g == CHOOSE g : Folds(g, table, es)
<1>1. Agent!After(table, es) = f[Len(es)] BY DEF Agent!After, Step
<1>2. f = g BY DEF Folds
<1>3. \E h : Folds(h, table, es) BY FoldExists
<1>4. Folds(g, table, es)
  <2> HIDE DEF f
  <2> QED BY <1>3
<1> HIDE DEF f, g
<1> QED BY <1>1, <1>2, <1>4

LEMMA FoldsOnPrefix ==
  ASSUME NEW table, NEW es, NEW fs, NEW f, NEW g, Folds(f, table, es), Folds(g, table, fs),
         Len(es) \in Nat, Len(fs) \in Nat, Len(es) <= Len(fs),
         \A i \in 1..Len(es) : es[i] = fs[i]
  PROVE  \A n \in 0..Len(es) : f[n] = g[n]
<1> DEFINE S == {n \in Nat : n \in 0..Len(es) /\ f[n] # g[n]}
<1>1. /\ \A n \in 0..Len(es) : f[n] = IF n = 0 THEN table ELSE Step(f[n-1], es[n])
      /\ \A n \in 0..Len(fs) : g[n] = IF n = 0 THEN table ELSE Step(g[n-1], fs[n])
  BY DEF Folds
<1>2. S = {}
  <2> SUFFICES ASSUME S # {} PROVE FALSE OBVIOUS
  <2>1. PICK m \in S : \A k \in S : m <= k BY LeastNumber
  <2>2. m # 0 BY <1>1, <2>1
  <2>3. m - 1 \in 0..Len(es) /\ m \in 1..Len(es) /\ m \in 0..Len(fs) BY <2>1, <2>2
  <2>4. f[m-1] = g[m-1] BY <2>1, <2>3
  <2>5. f[m] = g[m] BY <1>1, <2>2, <2>3, <2>4
  <2> QED BY <2>1, <2>5
<1> QED BY <1>2

Continues(gs, es, fs) ==
  /\ Len(es) \in Nat /\ Len(fs) \in Nat /\ Len(gs) = Len(es) + Len(fs)
  /\ \A i \in 1..Len(es) : es[i] = gs[i]
  /\ \A i \in 1..Len(fs) : fs[i] = gs[Len(es) + i]

LEMMA FoldsShift ==
  ASSUME NEW table, NEW es, NEW fs, NEW gs, NEW h, NEW f, NEW g, NEW mid,
         Folds(h, table, es), mid = h[Len(es)], Folds(f, mid, fs), Folds(g, table, gs),
         Continues(gs, es, fs)
  PROVE  f[Len(fs)] = g[Len(gs)]
<1> USE DEF Continues
<1> DEFINE l == Len(es)
           S == {n \in Nat : n \in 0..Len(fs) /\ f[n] # g[l + n]}
<1>1. /\ \A n \in 0..Len(fs) : f[n] = IF n = 0 THEN mid ELSE Step(f[n-1], fs[n])
      /\ \A n \in 0..Len(gs) : g[n] = IF n = 0 THEN table ELSE Step(g[n-1], gs[n])
  BY DEF Folds
<1>2. mid = g[l]
  <2>1. Len(gs) \in Nat /\ Len(es) <= Len(gs) OBVIOUS
  <2>2. \A n \in 0..Len(es) : h[n] = g[n] BY <2>1, FoldsOnPrefix
  <2> QED BY <2>2
<1>3. S = {}
  <2> SUFFICES ASSUME S # {} PROVE FALSE OBVIOUS
  <2>1. PICK m \in S : \A k \in S : m <= k BY LeastNumber
  <2>2. m # 0 BY <1>1, <1>2, <2>1
  <2>3. m - 1 \in 0..Len(fs) /\ m \in 1..Len(fs) /\ l + m \in 1..Len(gs) /\ (l + m) - 1 = l + (m - 1)
    BY <2>1, <2>2
  <2>4. f[m-1] = g[l + (m-1)] BY <2>1, <2>3
  <2>5. f[m] = Step(f[m-1], fs[m]) BY <1>1, <2>2, <2>3
  <2>6. g[l+m] = Step(g[l + (m-1)], gs[l+m])
    <3>1. l + m \in 0..Len(gs) /\ l + m # 0 BY <2>3
    <3> QED BY <1>1, <2>3, <3>1
  <2>7. fs[m] = gs[l+m] BY <2>3
  <2> QED BY <2>1, <2>4, <2>5, <2>6, <2>7
<1>4. \A n \in 0..Len(fs) : f[n] = g[l + n] BY <1>3
<1> QED BY <1>4

\* The journal is applied in the order it was written, whatever the batches.
LEMMA AfterConcat ==
  ASSUME NEW table, NEW E, NEW es \in Seq(E), NEW fs \in Seq(E)
  PROVE  Agent!After(table, es \o fs) = Agent!After(Agent!After(table, es), fs)
<1>1. /\ Len(es) \in Nat /\ Len(fs) \in Nat /\ Len(es \o fs) = Len(es) + Len(fs)
      /\ \A i \in 1..Len(es) : es[i] = (es \o fs)[i]
      /\ \A i \in 1..Len(fs) : fs[i] = (es \o fs)[Len(es) + i]
  <2>1. Len(es) \in Nat /\ Len(fs) \in Nat BY LenProperties
  <2>2. Len(es \o fs) = Len(es) + Len(fs)
        /\ \A i \in 1..Len(es) + Len(fs) : (es \o fs)[i] = IF i <= Len(es) THEN es[i] ELSE fs[i - Len(es)]
    BY ConcatProperties
  <2> QED BY <2>1, <2>2
<1>2. PICK h : Folds(h, table, es) /\ Agent!After(table, es) = h[Len(es)] BY <1>1, AfterFolds
<1> DEFINE mid == h[Len(es)]
<1> HIDE DEF mid
<1>3. PICK f : Folds(f, mid, fs) /\ Agent!After(mid, fs) = f[Len(fs)] BY <1>1, AfterFolds
<1>4. PICK g : Folds(g, table, es \o fs) /\ Agent!After(table, es \o fs) = g[Len(es \o fs)]
  <2> DEFINE gs == es \o fs
  <2>1. Len(gs) \in Nat BY <1>1
  <2> HIDE DEF gs
  <2>2. \E g : Folds(g, table, gs) /\ Agent!After(table, gs) = g[Len(gs)] BY <2>1, AfterFolds
  <2> QED BY <2>2 DEF gs
<1>5. f[Len(fs)] = g[Len(es \o fs)]
  <2> DEFINE gs == es \o fs
  <2>1. Folds(h, table, es) /\ Folds(f, mid, fs) /\ Folds(g, table, gs) /\ mid = h[Len(es)]
    BY <1>2, <1>3, <1>4 DEF mid
  <2>2. Continues(gs, es, fs) BY <1>1 DEF Continues
  <2> HIDE DEF gs
  <2>3. f[Len(fs)] = g[Len(gs)] BY <2>1, <2>2, FoldsShift
  <2> QED BY <2>3 DEF gs
<1> QED BY <1>1, <1>2, <1>3, <1>4, <1>5 DEF mid

LEMMA AfterOne ==
  ASSUME NEW table, NEW e
  PROVE  Agent!After(table, <<e>>) = Step(table, e) /\ Agent!After(table, <<>>) = table
<1> DEFINE one == <<e>>
           no == <<>>
<1>1. Len(one) = 1 /\ one[1] = e /\ Len(no) = 0 /\ Len(one) \in Nat /\ Len(no) \in Nat OBVIOUS
<1> HIDE DEF one, no
<1>2. PICK f : Folds(f, table, one) /\ Agent!After(table, one) = f[Len(one)]
  BY <1>1, AfterFolds
<1>3. \A n \in 0..1 : f[n] = IF n = 0 THEN table ELSE Step(f[n-1], one[n])
  BY <1>1, <1>2 DEF Folds
<1>4. f[0] = table /\ f[1] = Step(f[0], e) BY <1>1, <1>3
<1>5. PICK g : Folds(g, table, no) /\ Agent!After(table, no) = g[Len(no)]
  BY <1>1, AfterFolds
<1>6. \A n \in 0..0 : g[n] = IF n = 0 THEN table ELSE Step(g[n-1], no[n])
  BY <1>1, <1>5 DEF Folds
<1>7. g[0] = table BY <1>6
<1> QED BY <1>1, <1>2, <1>4, <1>5, <1>7 DEF one, no

LEMMA RowsAreWritten ==
  ASSUME NEW row \in Row, NEW e \in Entries
  PROVE  /\ Agent!Interrupted(row) \in Row
         /\ e.kind # "stop" => Agent!Write(row, e) \in Row
<1>1. [row EXCEPT !.status = "INTERRUPTED"] \in Row BY DEF Row, States
<1>2. Agent!Interrupted(row) \in Row
  <2>1. Agent!Interrupted(row) = row \/ Agent!Interrupted(row) = [row EXCEPT !.status = "INTERRUPTED"]
    BY Zenon DEF Agent!Interrupted
  <2> QED BY <1>1, <2>1
<1>3. ASSUME e.kind # "stop" PROVE Agent!Write(row, e) \in Row
  <2> DEFINE known == IF row = Agent!NoRow THEN [Agent!NoRow EXCEPT !.status = "STARTING"] ELSE row
  <2>1. known \in Row
    <3>1. [Agent!NoRow EXCEPT !.status = "STARTING"] = [status |-> "STARTING", last |-> 0, answer |-> "none"]
      BY DEF Agent!NoRow
    <3>2. [status |-> "STARTING", last |-> 0, answer |-> "none"] \in Row BY DEF Row, Agent!EndEvents
    <3> QED BY <3>1, <3>2
  <2>2. /\ e.kind \in {"turn", "event", "status"} /\ e.at \in Nat
        /\ e.kind = "status" => e.value \in States
    BY <1>3 DEF Entries, Agent!Entry
  <2>3. Agent!Write(row, e) = CASE e.kind = "turn"   -> known
          [] e.kind = "event"  -> [known EXCEPT !.last = IF e.at > known.last THEN e.at ELSE known.last,
                                       !.answer = IF Agent!Answered(e.value) THEN e.value ELSE known.answer]
          [] e.kind = "status" -> [known EXCEPT !.status = e.value]
    BY DEF Agent!Write
  <2> HIDE DEF known
  <2>4. known.last \in Nat /\ known.answer \in {"none"} \cup Agent!EndEvents BY <2>1 DEF Row
  <2>5. e.kind = "status" => [known EXCEPT !.status = e.value] \in Row BY <2>1, <2>2 DEF Row
  <2>6. \A n \in Nat, w \in {"none"} \cup Agent!EndEvents : [known EXCEPT !.last = n, !.answer = w] \in Row
    BY <2>1 DEF Row
  <2>7. [known EXCEPT !.last = IF e.at > known.last THEN e.at ELSE known.last,
                      !.answer = IF Agent!Answered(e.value) THEN e.value ELSE known.answer] \in Row
    BY <2>2, <2>4, <2>6 DEF Agent!Answered
  <2> QED BY <2>1, <2>2, <2>3, <2>5, <2>7
<1> QED BY <1>2, <1>3

LEMMA StepsAreOfOne ==
  ASSUME NEW table \in Tables, NEW e \in Entries
  PROVE  /\ Step(table, e) \in Tables
         /\ e.kind = "stop" => \A r \in Runs : Step(table, e)[r] = Agent!Interrupted(table[r])
         /\ e.kind # "stop" =>
              /\ e.run \in Runs
              /\ Step(table, e)[e.run] = Agent!Write(table[e.run], e)
              /\ \A r \in Runs \ {e.run} : Step(table, e)[r] = table[r]
<1>1. CASE e.kind = "stop"
  <2>1. Step(table, e) = [r \in Runs |-> Agent!Interrupted(table[r])]
    BY <1>1 DEF Step, Agent!InterruptAll
  <2>2. \A r \in Runs : Agent!Interrupted(table[r]) \in Row BY RowsAreWritten DEF Tables
  <2> QED BY <1>1, <2>1, <2>2 DEF Tables
<1>2. CASE e.kind # "stop"
  <2>1. e.run \in Runs BY <1>2 DEF Entries, Agent!Entry
  <2>2. Step(table, e) = [table EXCEPT ![e.run] = Agent!Write(table[e.run], e)] BY <1>2 DEF Step
  <2>3. Agent!Write(table[e.run], e) \in Row BY <1>2, <2>1, RowsAreWritten DEF Tables
  <2> QED BY <1>2, <2>1, <2>2, <2>3 DEF Tables
<1> QED BY <1>1, <1>2

LEMMA StepsAreAlike ==
  ASSUME NEW one \in Tables, NEW two \in Tables, NEW e \in Entries, NEW r \in Runs, one[r] = two[r]
  PROVE  /\ Step(one, e)[r] = Step(two, e)[r]
         /\ (e.kind = "stop" => one[r] = Agent!NoRow) /\ (e.kind # "stop" => e.run # r) =>
              Step(one, e)[r] = one[r]
<1>1. CASE e.kind = "stop"
  <2>1. Step(one, e)[r] = Agent!Interrupted(one[r]) /\ Step(two, e)[r] = Agent!Interrupted(two[r])
    BY <1>1, StepsAreOfOne
  <2>2. one[r] = Agent!NoRow => Agent!Interrupted(one[r]) = one[r] BY DEF Agent!Interrupted
  <2> QED BY <1>1, <2>1, <2>2
<1>2. CASE e.kind # "stop"
  <2>1. /\ e.run = r => Step(one, e)[r] = Agent!Write(one[r], e) /\ Step(two, e)[r] = Agent!Write(two[r], e)
        /\ e.run # r => Step(one, e)[r] = one[r] /\ Step(two, e)[r] = two[r]
    BY <1>2, StepsAreOfOne
  <2> QED BY <1>2, <2>1
<1> QED BY <1>1, <1>2

LEMMA FoldsAreTables ==
  ASSUME NEW table \in Tables, NEW es \in Seq(Entries), NEW f, Folds(f, table, es)
  PROVE  /\ Len(es) \in Nat
         /\ f[0] = table
         /\ \A n \in 0..Len(es) : f[n] \in Tables
         /\ \A n \in 1..Len(es) : n - 1 \in 0..Len(es) /\ es[n] \in Entries /\ f[n] = Step(f[n-1], es[n])
<1> DEFINE S == {n \in Nat : n \in 0..Len(es) /\ f[n] \notin Tables}
<1>1. Len(es) \in Nat /\ \A n \in 1..Len(es) : es[n] \in Entries BY LenProperties, ElementOfSeq
<1>2. \A n \in 0..Len(es) : f[n] = IF n = 0 THEN table ELSE Step(f[n-1], es[n])
  BY DEF Folds
<1>3. f[0] = table /\ \A n \in 1..Len(es) : n - 1 \in 0..Len(es) /\ f[n] = Step(f[n-1], es[n])
  BY <1>1, <1>2
<1>4. S = {}
  <2> SUFFICES ASSUME S # {} PROVE FALSE OBVIOUS
  <2>1. PICK m \in S : \A k \in S : m <= k BY LeastNumber
  <2>2. m # 0 BY <1>3, <2>1
  <2>3. m - 1 \in Nat /\ m - 1 \in 0..Len(es) /\ m \in 1..Len(es) /\ ~(m <= m - 1) BY <1>1, <2>1, <2>2
  <2>4. f[m-1] \in Tables BY <2>1, <2>3
  <2>5. f[m] \in Tables BY <1>1, <1>3, <2>3, <2>4, StepsAreOfOne
  <2> QED BY <2>1, <2>5
<1> QED BY <1>1, <1>3, <1>4

LEMMA AfterIsTable ==
  ASSUME NEW table \in Tables, NEW es \in Seq(Entries)
  PROVE  Agent!After(table, es) \in Tables
<1>1. Len(es) \in Nat BY LenProperties
<1>2. PICK f : Folds(f, table, es) /\ Agent!After(table, es) = f[Len(es)] BY <1>1, AfterFolds
<1>3. \A n \in 0..Len(es) : f[n] \in Tables BY <1>2, FoldsAreTables
<1> QED BY <1>1, <1>2, <1>3

\* A run's row is what is written of it alone.
LEMMA AfterIsLocal ==
  ASSUME NEW one \in Tables, NEW two \in Tables, NEW es \in Seq(Entries), ~Agent!Stops(es),
         NEW r \in Runs, one[r] = two[r]
  PROVE  Agent!After(one, es)[r] = Agent!After(two, es)[r]
<1>1. Len(es) \in Nat BY LenProperties
<1>2. PICK f : Folds(f, one, es) /\ Agent!After(one, es) = f[Len(es)] BY <1>1, AfterFolds
<1>3. PICK g : Folds(g, two, es) /\ Agent!After(two, es) = g[Len(es)] BY <1>1, AfterFolds
<1>4. /\ f[0] = one /\ g[0] = two
      /\ \A n \in 0..Len(es) : f[n] \in Tables /\ g[n] \in Tables
      /\ \A n \in 1..Len(es) : n - 1 \in 0..Len(es) /\ es[n] \in Entries
      /\ \A n \in 1..Len(es) : f[n] = Step(f[n-1], es[n]) /\ g[n] = Step(g[n-1], es[n])
  BY <1>2, <1>3, FoldsAreTables
<1>5. \A n \in 1..Len(es) : es[n].kind # "stop" BY DEF Agent!Stops
<1> DEFINE S == {n \in Nat : n \in 0..Len(es) /\ f[n][r] # g[n][r]}
<1>6. S = {}
  <2> SUFFICES ASSUME S # {} PROVE FALSE OBVIOUS
  <2>1. PICK m \in S : \A k \in S : m <= k BY LeastNumber
  <2>2. m # 0 BY <1>4, <2>1
  <2>3. m - 1 \in Nat /\ m - 1 \in 0..Len(es) /\ m \in 1..Len(es) /\ ~(m <= m - 1) BY <1>1, <2>1, <2>2
  <2>4. f[m-1][r] = g[m-1][r] BY <2>1, <2>3
  <2>5. f[m-1] \in Tables /\ g[m-1] \in Tables /\ es[m] \in Entries /\ es[m].kind # "stop"
    BY <1>4, <1>5, <2>3
  <2>6. Step(f[m-1], es[m])[r] = Step(g[m-1], es[m])[r]
    BY <2>4, <2>5, StepsAreAlike
  <2> QED BY <1>4, <2>1, <2>3, <2>6
<1> QED BY <1>1, <1>2, <1>3, <1>6

\* Nothing written of it leaves the row; a stop leaves one that was never written.
LEMMA AfterIsQuiet ==
  ASSUME NEW table \in Tables, NEW es \in Seq(Entries), NEW r \in Runs, r \notin Agent!Of(es),
         ~Agent!Stops(es) \/ table[r] = Agent!NoRow
  PROVE  Agent!After(table, es)[r] = table[r]
<1>1. Len(es) \in Nat BY LenProperties
<1>2. PICK f : Folds(f, table, es) /\ Agent!After(table, es) = f[Len(es)] BY <1>1, AfterFolds
<1>3. /\ f[0] = table
      /\ \A n \in 0..Len(es) : f[n] \in Tables
      /\ \A n \in 1..Len(es) : n - 1 \in 0..Len(es) /\ es[n] \in Entries /\ f[n] = Step(f[n-1], es[n])
  BY <1>2, FoldsAreTables
<1>4. \A n \in 1..Len(es) : /\ es[n].kind # "stop" => es[n].run # r
                            /\ es[n].kind = "stop" => table[r] = Agent!NoRow
  BY DEF Agent!Stops, Agent!Of
<1> DEFINE S == {n \in Nat : n \in 0..Len(es) /\ f[n][r] # table[r]}
<1>5. S = {}
  <2> SUFFICES ASSUME S # {} PROVE FALSE OBVIOUS
  <2>1. PICK m \in S : \A k \in S : m <= k BY LeastNumber
  <2>2. m # 0 BY <1>3, <2>1
  <2>3. m - 1 \in Nat /\ m - 1 \in 0..Len(es) /\ m \in 1..Len(es) /\ ~(m <= m - 1) BY <1>1, <2>1, <2>2
  <2>4. f[m-1][r] = table[r] /\ f[m-1] \in Tables /\ es[m] \in Entries BY <1>3, <2>1, <2>3
  <2>5. Step(f[m-1], es[m])[r] = table[r]
    BY <1>4, <2>3, <2>4, StepsAreAlike
  <2> QED BY <1>3, <2>1, <2>3, <2>5
<1> QED BY <1>1, <1>2, <1>5

Recorded ==
  /\ RunTypes /\ Running /\ ExecutedOnce /\ EndsAreLogged /\ JournalCloses /\ JournalFollows

\* An entry that is queued comes last.
LEMMA EntryIsQueued ==
  ASSUME NEW q \in Seq(Entries), NEW e \in Entries
  PROVE  /\ q \o <<e>> \in Seq(Entries)
         /\ Agent!Stops(q \o <<e>>) => Agent!Stops(q) \/ e.kind = "stop"
         /\ Agent!Of(q \o <<e>>) \subseteq Agent!Of(q) \cup {e.run}
<1> DEFINE one == <<e>>
<1>1. one \in Seq(Entries) /\ Len(one) = 1 /\ one[1] = e OBVIOUS
<1> HIDE DEF one
<1>2. /\ q \o one \in Seq(Entries) /\ Len(q) \in Nat
      /\ Len(q \o one) = Len(q) + 1
      /\ \A i \in 1..Len(q) + 1 : (q \o one)[i] = IF i <= Len(q) THEN q[i] ELSE one[i - Len(q)]
  BY <1>1, ConcatProperties, LenProperties
<1>3. \A i \in 1..Len(q \o one) : (i \in 1..Len(q) /\ (q \o one)[i] = q[i]) \/ (q \o one)[i] = e
  BY <1>1, <1>2
<1> QED BY <1>2, <1>3 DEF Agent!Stops, Agent!Of, one

LEMMA EntryIsApplied ==
  ASSUME RunTypes, NEW q \in Seq(Entries), NEW e \in Entries
  PROVE  /\ Agent!After(rows, batch \o q) \in Tables
         /\ Agent!After(rows, batch \o (q \o <<e>>)) = Step(Agent!After(rows, batch \o q), e)
<1> DEFINE one == <<e>>
<1>1. one \in Seq(Entries) /\ rows \in Tables /\ batch \in Seq(Entries) BY DEF RunTypes
<1>2. batch \o q \in Seq(Entries) BY <1>1, ConcatProperties
<1>3. Agent!After(rows, batch \o q) \in Tables BY <1>1, <1>2, AfterIsTable
<1> HIDE DEF one
<1>4. batch \o (q \o one) = (batch \o q) \o one BY <1>1, ConcatAssociative
<1>5. \A es \in Seq(Entries) : Agent!After(rows, es \o one) = Agent!After(Agent!After(rows, es), one)
  BY <1>1, AfterConcat
<1>6. \A table : Agent!After(table, one) = Step(table, e) BY AfterOne DEF one
<1> QED BY <1>2, <1>3, <1>4, <1>5, <1>6 DEF one

\* What an event and a status do to a row that is known.
LEMMA EventIsShown ==
  ASSUME NEW table \in Tables, NEW r \in Runs, NEW s \in States \cup {"STARTING"}, NEW k \in Nat, NEW v \in Events,
         Shows(table[r], s, k), NEW e, e = Agent!Entry(r, "event", v, k + 1)
  PROVE  /\ e \in Entries /\ e.kind = "event" /\ e.run = r /\ Step(table, e) \in Tables
         /\ \A q \in Runs \ {r} : Step(table, e)[q] = table[q]
         /\ Shows(Step(table, e)[r], s, k + 1)
         /\ v \in Agent!EndEvents => Step(table, e)[r].answer \in Agent!EndEvents
<1>1. /\ e.run = r /\ e.kind = "event" /\ e.value = v /\ e.at = k + 1 /\ e \in Entries
  BY DEF Entries, Agent!Entry
<1>2. table[r] \in Row /\ table[r].status = s /\ table[r].last = k /\ table[r] # Agent!NoRow
  BY DEF Tables, Shows, States, Agent!NoRow
<1>3. Step(table, e) \in Tables /\ Step(table, e)[r] = Agent!Write(table[r], e)
      /\ \A q \in Runs \ {r} : Step(table, e)[q] = table[q]
  BY <1>1, StepsAreOfOne
<1> DEFINE w == IF Agent!Answered(v) THEN v ELSE table[r].answer
<1>4. Agent!Write(table[r], e) = [table[r] EXCEPT !.last = k + 1, !.answer = w]
  <2>1. Agent!Write(table[r], e) =
          [table[r] EXCEPT !.last = IF e.at > table[r].last THEN e.at ELSE table[r].last, !.answer = w]
    BY <1>1, <1>2 DEF Agent!Write
  <2>2. (IF e.at > table[r].last THEN e.at ELSE table[r].last) = k + 1 BY <1>1, <1>2
  <2> QED BY <2>1, <2>2
<1> HIDE DEF w
<1>5. Agent!Write(table[r], e).status = s /\ Agent!Write(table[r], e).last = k + 1
      /\ Agent!Write(table[r], e).answer = w
  BY <1>2, <1>4 DEF Row
<1> QED BY <1>1, <1>3, <1>5 DEF Shows, States, Agent!Answered, w

LEMMA StatusIsShown ==
  ASSUME NEW table \in Tables, NEW r \in Runs, table[r] # Agent!NoRow, NEW s \in States,
         s \in Agent!Terminal => table[r].answer \in Agent!EndEvents,
         NEW e, e = Agent!Entry(r, "status", s, 0)
  PROVE  /\ e \in Entries /\ e.kind = "status" /\ e.run = r /\ Step(table, e) \in Tables
         /\ \A q \in Runs \ {r} : Step(table, e)[q] = table[q]
         /\ Shows(Step(table, e)[r], s, table[r].last)
<1>1. /\ e.run = r /\ e.kind = "status" /\ e.value = s /\ e \in Entries
  BY DEF Entries, Agent!Entry
<1>2. table[r] \in Row BY DEF Tables
<1>3. Step(table, e) \in Tables /\ Step(table, e)[r] = Agent!Write(table[r], e)
      /\ \A q \in Runs \ {r} : Step(table, e)[q] = table[q]
  BY <1>1, StepsAreOfOne
<1>4. Agent!Write(table[r], e) = [table[r] EXCEPT !.status = s]
  BY <1>1 DEF Agent!Write
<1>5. Agent!Write(table[r], e).status = s /\ Agent!Write(table[r], e).last = table[r].last
      /\ Agent!Write(table[r], e).answer = table[r].answer
  BY <1>2, <1>4 DEF Row
<1> QED BY <1>1, <1>3, <1>5 DEF Shows, States

LEMMA TurnIsShown ==
  ASSUME NEW table \in Tables, NEW r \in Runs, table[r] = Agent!NoRow,
         NEW e, e = Agent!Entry(r, "turn", "none", 0)
  PROVE  /\ e \in Entries /\ e.kind = "turn" /\ e.run = r /\ Step(table, e) \in Tables
         /\ \A q \in Runs \ {r} : Step(table, e)[q] = table[q]
         /\ Shows(Step(table, e)[r], "STARTING", 0)
<1>1. /\ e.run = r /\ e.kind = "turn" /\ e \in Entries
  BY DEF Entries, Agent!Entry
<1>3. Step(table, e) \in Tables /\ Step(table, e)[r] = Agent!Write(table[r], e)
      /\ \A q \in Runs \ {r} : Step(table, e)[q] = table[q]
  BY <1>1, StepsAreOfOne
<1>4. Agent!Write(table[r], e) = [Agent!NoRow EXCEPT !.status = "STARTING"]
  BY <1>1 DEF Agent!Write
<1>5. Agent!Write(table[r], e).status = "STARTING" /\ Agent!Write(table[r], e).last = 0
  BY <1>4 DEF Agent!NoRow
<1> QED BY <1>1, <1>3, <1>5 DEF Shows, Agent!Terminal

LEMMA Together ==
  ASSUME NEW es \in Seq(Entries), NEW fs \in Seq(Entries)
  PROVE  /\ es \o fs \in Seq(Entries)
         /\ Agent!Stops(es \o fs) <=> Agent!Stops(es) \/ Agent!Stops(fs)
         /\ Agent!Of(es \o fs) = Agent!Of(es) \cup Agent!Of(fs)
<1>1. /\ es \o fs \in Seq(Entries) /\ Len(es) \in Nat /\ Len(fs) \in Nat
      /\ Len(es \o fs) = Len(es) + Len(fs)
      /\ \A i \in 1..Len(es) + Len(fs) : (es \o fs)[i] = IF i <= Len(es) THEN es[i] ELSE fs[i - Len(es)]
  BY ConcatProperties, LenProperties
<1>2. \A i \in 1..Len(es \o fs) : \/ i \in 1..Len(es) /\ (es \o fs)[i] = es[i]
                                  \/ i - Len(es) \in 1..Len(fs) /\ (es \o fs)[i] = fs[i - Len(es)]
  BY <1>1
<1>3. /\ \A i \in 1..Len(es) : i \in 1..Len(es \o fs) /\ (es \o fs)[i] = es[i]
      /\ \A i \in 1..Len(fs) : Len(es) + i \in 1..Len(es \o fs) /\ (es \o fs)[Len(es) + i] = fs[i]
  BY <1>1
<1>4. Agent!Stops(es \o fs) <=> Agent!Stops(es) \/ Agent!Stops(fs)
  BY <1>2, <1>3 DEF Agent!Stops
<1>5. Agent!Of(es \o fs) = Agent!Of(es) \cup Agent!Of(fs)
  BY <1>2, <1>3 DEF Agent!Of
<1> QED BY <1>1, <1>4, <1>5

\* With q in the place of the queue, only the row of r is another, and it shows a
\* run in state s with l events.
Written(r, q, s, l) ==
  /\ q \in Seq(Entries) /\ (Agent!Stops(q) => Agent!Stops(queue))
  /\ Agent!Of(q) \subseteq Agent!Of(queue) \cup {r}
  /\ \A u \in Runs \ {r} : Agent!After(rows, batch \o q)[u] = Agent!After(rows, batch \o queue)[u]
  /\ r \notin lost => Shows(Agent!After(rows, batch \o q)[r], s, l)

LEMMA NothingIsWritten ==
  ASSUME Recorded, server = "up", recording, NEW r \in Runs
  PROVE  Written(r, queue, runStatus[r], Len(log[r]))
BY DEF Recorded, RunTypes, JournalFollows, Written

LEMMA EventIsWritten ==
  ASSUME RunTypes, NEW r \in Runs, NEW s \in States \cup {"STARTING"}, NEW l \in Nat, NEW q,
         Written(r, q, s, l), NEW v \in Events, NEW e, e = Agent!Entry(r, "event", v, l + 1)
  PROVE  /\ Written(r, q \o <<e>>, s, l + 1)
         /\ v \in Agent!EndEvents /\ r \notin lost =>
              Agent!After(rows, batch \o (q \o <<e>>))[r].answer \in Agent!EndEvents
<1> DEFINE w == Agent!After(rows, batch \o q)
           x == Agent!After(rows, batch \o (q \o <<e>>))
<1>1. e \in Entries /\ e.kind = "event" /\ e.run = r BY DEF Entries, Agent!Entry
<1>2. q \in Seq(Entries) BY DEF Written
<1>3. /\ q \o <<e>> \in Seq(Entries)
      /\ Agent!Stops(q \o <<e>>) => Agent!Stops(q)
      /\ Agent!Of(q \o <<e>>) \subseteq Agent!Of(q) \cup {r}
  BY <1>1, <1>2, EntryIsQueued
<1>4. w \in Tables /\ x = Step(w, e) BY <1>1, <1>2, EntryIsApplied
<1> HIDE DEF w, x
<1>5. \A u \in Runs \ {r} : x[u] = w[u] BY <1>1, <1>4, StepsAreOfOne
<1>6. Shows(w[r], s, l) => Shows(x[r], s, l + 1) /\ (v \in Agent!EndEvents => x[r].answer \in Agent!EndEvents)
  BY <1>4, EventIsShown
<1> QED BY <1>3, <1>5, <1>6 DEF Written, w, x

LEMMA StatusIsWritten ==
  ASSUME RunTypes, NEW r \in Runs, NEW s \in States \cup {"STARTING"}, NEW l \in Nat, NEW q,
         Written(r, q, s, l), NEW t \in States, NEW e, e = Agent!Entry(r, "status", t, 0),
         t \in Agent!Terminal /\ r \notin lost => Agent!After(rows, batch \o q)[r].answer \in Agent!EndEvents
  PROVE  Written(r, q \o <<e>>, t, l)
<1> DEFINE w == Agent!After(rows, batch \o q)
           x == Agent!After(rows, batch \o (q \o <<e>>))
<1>1. e \in Entries /\ e.kind = "status" /\ e.run = r BY DEF Entries, Agent!Entry
<1>2. q \in Seq(Entries) BY DEF Written
<1>3. /\ q \o <<e>> \in Seq(Entries)
      /\ Agent!Stops(q \o <<e>>) => Agent!Stops(q)
      /\ Agent!Of(q \o <<e>>) \subseteq Agent!Of(q) \cup {r}
  BY <1>1, <1>2, EntryIsQueued
<1>4. w \in Tables /\ x = Step(w, e) BY <1>1, <1>2, EntryIsApplied
<1>5. t \in Agent!Terminal /\ r \notin lost => w[r].answer \in Agent!EndEvents OBVIOUS
<1>6. r \notin lost => Shows(w[r], s, l) BY DEF Written
<1> HIDE DEF w, x
<1>7. \A u \in Runs \ {r} : x[u] = w[u] BY <1>1, <1>4, StepsAreOfOne
<1>8. Shows(w[r], s, l) => w[r] # Agent!NoRow /\ w[r].last = l BY DEF Shows, Agent!NoRow, States
<1>9. r \notin lost => Shows(x[r], t, l) BY <1>4, <1>5, <1>6, <1>8, StatusIsShown
<1> QED BY <1>3, <1>7, <1>9 DEF Written, w, x

\* Sequences of two and of three entries.
LEMMA TwoIsOneAndOne ==
  ASSUME NEW E, NEW x \in E, NEW y \in E
  PROVE  <<x>> \o <<y>> = <<x, y>>
<1> DEFINE one == <<x>>
           two == <<y>>
           both == <<x, y>>
<1>1. /\ one \in Seq(E) /\ Len(one) = 1 /\ one[1] = x
      /\ two \in Seq(E) /\ Len(two) = 1 /\ two[1] = y
      /\ both \in Seq(E) /\ Len(both) = 2 /\ both[1] = x /\ both[2] = y
  OBVIOUS
<1> HIDE DEF one, two, both
<1>2. /\ one \o two \in Seq(E) /\ Len(one \o two) = 2
      /\ \A i \in 1..2 : (one \o two)[i] = IF i <= 1 THEN one[i] ELSE two[i - 1]
  BY <1>1, ConcatProperties
<1>3. \A i \in 1..2 : (one \o two)[i] = both[i] BY <1>1, <1>2
<1>4. one \o two = both BY <1>1, <1>2, <1>3, SeqEqual
<1> QED BY <1>4 DEF one, two, both

LEMMA ThreeIsTwoAndOne ==
  ASSUME NEW E, NEW x \in E, NEW y \in E, NEW w \in E
  PROVE  <<x, y>> \o <<w>> = <<x, y, w>>
<1> DEFINE one == <<x, y>>
           two == <<w>>
           both == <<x, y, w>>
<1>1. /\ one \in Seq(E) /\ Len(one) = 2 /\ one[1] = x /\ one[2] = y
      /\ two \in Seq(E) /\ Len(two) = 1 /\ two[1] = w
      /\ both \in Seq(E) /\ Len(both) = 3 /\ both[1] = x /\ both[2] = y /\ both[3] = w
  OBVIOUS
<1> HIDE DEF one, two, both
<1>2. /\ one \o two \in Seq(E) /\ Len(one \o two) = 3
      /\ \A i \in 1..3 : (one \o two)[i] = IF i <= 2 THEN one[i] ELSE two[i - 2]
  <2>1. /\ one \o two \in Seq(E) /\ Len(one \o two) = Len(one) + Len(two)
        /\ \A i \in 1..Len(one) + Len(two) : (one \o two)[i] = IF i <= Len(one) THEN one[i] ELSE two[i - Len(one)]
    BY <1>1, ConcatProperties
  <2>2. Len(one) + Len(two) = 3 BY <1>1
  <2> QED BY <1>1, <2>1, <2>2
<1>3. \A i \in 1..3 : (one \o two)[i] = both[i] BY <1>1, <1>2
<1>4. one \o two = both BY <1>1, <1>2, <1>3, SeqEqual
<1> QED BY <1>4 DEF one, two, both

\* The entries a handler records, one after the other.
LEMMA OneByOne ==
  ASSUME NEW q \in Seq(Entries), NEW x \in Entries, NEW y \in Entries, NEW w \in Entries
  PROVE  /\ q \o <<x, y>> = (q \o <<x>>) \o <<y>>
         /\ q \o <<x, y, w>> = ((q \o <<x>>) \o <<y>>) \o <<w>>
<1>1. /\ <<x>> \in Seq(Entries) /\ <<y>> \in Seq(Entries) /\ <<w>> \in Seq(Entries)
      /\ <<x, y>> \in Seq(Entries) /\ <<x, y, w>> \in Seq(Entries)
  OBVIOUS
<1>2. <<x, y>> = <<x>> \o <<y>> /\ <<x, y, w>> = <<x, y>> \o <<w>> BY TwoIsOneAndOne, ThreeIsTwoAndOne
<1>3. q \o (<<x>> \o <<y>>) = (q \o <<x>>) \o <<y>> BY <1>1, ConcatAssociative
<1>4. q \o (<<x, y>> \o <<w>>) = (q \o <<x, y>>) \o <<w>> BY <1>1, ConcatAssociative
<1> QED BY <1>2, <1>3, <1>4

\* What a channel is told: k events, the last of them v, and the state s.
Told(r, k, v, s) ==
  /\ log' \in [Runs -> Seq(Events)] /\ runStatus' \in [Runs -> States \cup {"NONE"}]
  /\ \A u \in Runs \ {r} : log'[u] = log[u] /\ runStatus'[u] = runStatus[u]
  /\ Len(log'[r]) = Len(log[r]) + k /\ log'[r][Len(log[r]) + k] = v
  /\ \A i \in 1..Len(log[r]) : log'[r][i] = log[r][i]
  /\ runStatus'[r] = s
  /\ recording => Written(r, queue', s, Len(log[r]) + k)
  /\ ~recording => queue' = queue
  /\ UNCHANGED <<recording, batch, rows, lost>>

LEMMA LogGrows ==
  ASSUME RunTypes, NEW r \in Runs, NEW v \in Events, NEW w \in Events
  PROVE  /\ log' = [log EXCEPT ![r] = log[r] \o <<v>>] \/ log' = [log EXCEPT ![r] = Append(log[r], v)] =>
              /\ log' \in [Runs -> Seq(Events)]
              /\ \A u \in Runs \ {r} : log'[u] = log[u]
              /\ Len(log'[r]) = Len(log[r]) + 1 /\ log'[r][Len(log[r]) + 1] = v
              /\ \A i \in 1..Len(log[r]) : log'[r][i] = log[r][i]
         /\ log' = [log EXCEPT ![r] = log[r] \o <<v, w>>] =>
              /\ log' \in [Runs -> Seq(Events)]
              /\ \A u \in Runs \ {r} : log'[u] = log[u]
              /\ Len(log'[r]) = Len(log[r]) + 2 /\ log'[r][Len(log[r]) + 2] = w
              /\ \A i \in 1..Len(log[r]) : log'[r][i] = log[r][i]
<1>1. log \in [Runs -> Seq(Events)] /\ log[r] \in Seq(Events) BY DEF RunTypes
<1> DEFINE l == log[r]
<1>2. /\ Append(l, v) = l \o <<v>> BY <1>1, AppendIsConcat
<1>3. l \o <<v>> \in Seq(Events) /\ Len(l \o <<v>>) = Len(l) + 1 /\ (l \o <<v>>)[Len(l) + 1] = v
      /\ \A i \in 1..Len(l) : (l \o <<v>>)[i] = l[i]
  <2>1. <<v>> \in Seq(Events) /\ Len(<<v>>) = 1 /\ <<v>>[1] = v /\ Len(l) \in Nat BY <1>1, LenProperties
  <2> QED BY <1>1, <2>1, ConcatProperties
<1>4. l \o <<v, w>> \in Seq(Events) /\ Len(l \o <<v, w>>) = Len(l) + 2 /\ (l \o <<v, w>>)[Len(l) + 2] = w
      /\ \A i \in 1..Len(l) : (l \o <<v, w>>)[i] = l[i]
  <2>1. <<v, w>> \in Seq(Events) /\ Len(<<v, w>>) = 2 /\ <<v, w>>[2] = w /\ Len(l) \in Nat BY <1>1, LenProperties
  <2> QED BY <1>1, <2>1, ConcatProperties
<1> HIDE DEF l
<1>5. \A es \in Seq(Events) : log' = [log EXCEPT ![r] = es] =>
        log' \in [Runs -> Seq(Events)] /\ log'[r] = es /\ \A u \in Runs \ {r} : log'[u] = log[u]
  BY <1>1
<1> QED BY <1>2, <1>3, <1>4, <1>5 DEF l

LEMMA PublishTells ==
  ASSUME Recorded, server = "up", NEW r \in Runs, runStatus[r] # "NONE", NEW v \in Events,
         Agent!Publish(r, v)
  PROVE  Told(r, 1, v, runStatus[r])
<1> DEFINE e == Agent!Entry(r, "event", v, Len(log[r]) + 1)
<1>1. RunTypes /\ Len(log[r]) \in Nat /\ runStatus[r] \in States
  BY LenProperties DEF Recorded, RunTypes
<1>2. recording => queue' = queue \o <<e>>
  BY DEF Agent!Publish, Agent!Record, Agent!Event
<1>3. recording => Written(r, queue \o <<e>>, runStatus[r], Len(log[r]) + 1)
  BY <1>1, NothingIsWritten, EventIsWritten
<1>4. log' = [log EXCEPT ![r] = Append(log[r], v)] /\ (~recording => queue' = queue)
      /\ UNCHANGED <<runStatus, recording, batch, rows, lost>>
  BY DEF Agent!Publish, Agent!Record
<1> HIDE DEF e
<1> QED BY <1>1, <1>2, <1>3, <1>4, LogGrows DEF Told, RunTypes

LEMMA ReportTells ==
  ASSUME Recorded, server = "up", NEW r \in Runs, runStatus[r] # "NONE", NEW v \in Events, NEW s \in States,
         s \in Agent!Terminal => v \in Agent!EndEvents, Agent!Report(r, <<v>>, s)
  PROVE  Told(r, 1, v, s)
<1> DEFINE e == Agent!Entry(r, "event", v, Len(log[r]) + 1)
           f == Agent!Entry(r, "status", s, 0)
<1>1. RunTypes /\ Len(log[r]) \in Nat /\ runStatus[r] \in States /\ queue \in Seq(Entries)
  BY LenProperties DEF Recorded, RunTypes
<1>2. e \in Entries /\ f \in Entries BY <1>1 DEF Entries, Agent!Entry
<1>3. recording => queue' = (queue \o <<e>>) \o <<f>>
  <2>1. [i \in 1..Len(<<v>>) |-> Agent!Event(r, <<v>>[i], i)] = <<e>> BY DEF Agent!Event
  <2>2. recording => queue' = queue \o ([i \in 1..Len(<<v>>) |-> Agent!Event(r, <<v>>[i], i)] \o <<f>>)
    BY DEF Agent!Report, Agent!Record
  <2> HIDE DEF e, f
  <2>3. <<e>> \o <<f>> = <<e, f>> BY <1>2, TwoIsOneAndOne
  <2>4. queue \o <<e, f>> = (queue \o <<e>>) \o <<f>> BY <1>1, <1>2, OneByOne
  <2> QED BY <2>1, <2>2, <2>3, <2>4
<1>4. /\ log' = [log EXCEPT ![r] = log[r] \o <<v>>] /\ runStatus' = [runStatus EXCEPT ![r] = s]
      /\ (~recording => queue' = queue)
      /\ UNCHANGED <<recording, batch, rows, lost>>
  BY DEF Agent!Report, Agent!Record
<1>5. recording => Written(r, (queue \o <<e>>) \o <<f>>, s, Len(log[r]) + 1)
  <2>1. recording => /\ Written(r, queue \o <<e>>, runStatus[r], Len(log[r]) + 1)
                     /\ v \in Agent!EndEvents /\ r \notin lost =>
                          Agent!After(rows, batch \o (queue \o <<e>>))[r].answer \in Agent!EndEvents
    BY <1>1, NothingIsWritten, EventIsWritten
  <2>2. f = Agent!Entry(r, "status", s, 0) /\ Len(log[r]) + 1 \in Nat BY <1>1
  <2> DEFINE q == queue \o <<e>>
             k == Len(log[r]) + 1
  <2>3. recording => /\ Written(r, q, runStatus[r], k)
                     /\ s \in Agent!Terminal /\ r \notin lost =>
                          Agent!After(rows, batch \o q)[r].answer \in Agent!EndEvents
    BY <2>1
  <2>4. k \in Nat /\ runStatus[r] \in States \cup {"STARTING"} BY <1>1, <2>2
  <2> HIDE DEF q, k, e, f
  <2>5. recording => Written(r, q \o <<f>>, s, k) BY <1>1, <2>2, <2>3, <2>4, StatusIsWritten
  <2> QED BY <2>5 DEF q, k
<1> HIDE DEF e, f
<1> QED BY <1>1, <1>3, <1>4, <1>5, LogGrows DEF Told, RunTypes

LEMMA ReportTellsTwice ==
  ASSUME Recorded, server = "up", NEW r \in Runs, runStatus[r] # "NONE", NEW v \in Events, NEW w \in Events,
         NEW s \in States, s \in Agent!Terminal => w \in Agent!EndEvents, Agent!Report(r, <<v, w>>, s)
  PROVE  Told(r, 2, w, s)
<1> DEFINE l == Len(log[r])
           d == Agent!Entry(r, "event", v, l + 1)
           e == Agent!Entry(r, "event", w, l + 2)
           f == Agent!Entry(r, "status", s, 0)
<1>1. RunTypes /\ l \in Nat /\ l + 1 \in Nat /\ l + 2 = (l + 1) + 1 /\ runStatus[r] \in States
      /\ queue \in Seq(Entries)
  BY LenProperties DEF Recorded, RunTypes
<1>2. d \in Entries /\ e \in Entries /\ f \in Entries BY <1>1 DEF Entries, Agent!Entry
<1>3. recording => queue' = ((queue \o <<d>>) \o <<e>>) \o <<f>>
  <2>1. [i \in 1..Len(<<v, w>>) |-> Agent!Event(r, <<v, w>>[i], i)] = <<d, e>> BY DEF Agent!Event
  <2>2. recording => queue' = queue \o ([i \in 1..Len(<<v, w>>) |-> Agent!Event(r, <<v, w>>[i], i)] \o <<f>>)
    BY DEF Agent!Report, Agent!Record
  <2> HIDE DEF d, e, f
  <2>3. <<d, e>> \o <<f>> = <<d, e, f>> BY <1>2, ThreeIsTwoAndOne
  <2>4. queue \o <<d, e, f>> = ((queue \o <<d>>) \o <<e>>) \o <<f>> BY <1>1, <1>2, OneByOne
  <2> QED BY <2>1, <2>2, <2>3, <2>4
<1>4. /\ log' = [log EXCEPT ![r] = log[r] \o <<v, w>>] /\ runStatus' = [runStatus EXCEPT ![r] = s]
      /\ (~recording => queue' = queue)
      /\ UNCHANGED <<recording, batch, rows, lost>>
  BY DEF Agent!Report, Agent!Record
<1>5. recording => Written(r, queue \o <<d>>, runStatus[r], l + 1)
  BY <1>1, NothingIsWritten, EventIsWritten
<1>6. recording =>
        /\ Written(r, (queue \o <<d>>) \o <<e>>, runStatus[r], (l + 1) + 1)
        /\ w \in Agent!EndEvents /\ r \notin lost =>
             Agent!After(rows, batch \o ((queue \o <<d>>) \o <<e>>))[r].answer \in Agent!EndEvents
  <2>1. e = Agent!Entry(r, "event", w, (l + 1) + 1) BY <1>1
  <2> HIDE DEF l, d, e
  <2> QED BY <1>1, <1>5, <2>1, EventIsWritten
<1>7. recording => Written(r, ((queue \o <<d>>) \o <<e>>) \o <<f>>, s, (l + 1) + 1)
  <2> HIDE DEF l, d, e
  <2> QED BY <1>1, <1>6, StatusIsWritten
<1> HIDE DEF d, e, f
<1> QED BY <1>1, <1>3, <1>4, <1>7, LogGrows DEF Told, RunTypes

LEMMA TurnIsWritten ==
  ASSUME Recorded, server = "up", recording, NEW r \in Runs, log[r] = <<>>,
         NEW e, e = Agent!Entry(r, "turn", "none", 0)
  PROVE  e \in Entries /\ Written(r, queue \o <<e>>, "STARTING", 0)
<1> DEFINE w == Agent!After(rows, batch \o queue)
           x == Agent!After(rows, batch \o (queue \o <<e>>))
<1>1. RunTypes /\ queue \in Seq(Entries) /\ batch \in Seq(Entries) /\ rows \in Tables
  BY DEF Recorded, RunTypes
<1>2. batch \o queue \in Seq(Entries) /\ ~Agent!Stops(batch \o queue) /\ r \notin Agent!Of(batch \o queue)
      /\ rows[r] = Agent!NoRow
  BY <1>1, Together DEF Recorded, JournalCloses, JournalFollows
<1>3. w[r] = Agent!NoRow
  <2> DEFINE es == batch \o queue
  <2> HIDE DEF es
  <2>1. es \in Seq(Entries) /\ ~Agent!Stops(es) /\ r \notin Agent!Of(es) BY <1>2 DEF es
  <2>2. Agent!After(rows, es)[r] = rows[r] BY <1>1, <2>1, AfterIsQuiet
  <2> QED BY <1>2, <2>2 DEF es
<1>4. e \in Entries /\ e.kind = "turn" /\ e.run = r BY DEF Entries, Agent!Entry
<1>5. /\ queue \o <<e>> \in Seq(Entries)
      /\ Agent!Stops(queue \o <<e>>) => Agent!Stops(queue)
      /\ Agent!Of(queue \o <<e>>) \subseteq Agent!Of(queue) \cup {r}
  BY <1>1, <1>4, EntryIsQueued
<1>6. w \in Tables /\ x = Step(w, e) BY <1>1, <1>4, EntryIsApplied
<1> HIDE DEF w, x
<1>7. (\A u \in Runs \ {r} : x[u] = w[u]) /\ Shows(x[r], "STARTING", 0) BY <1>3, <1>6, TurnIsShown
<1> QED BY <1>4, <1>5, <1>7 DEF Written, w, x

LEMMA StartTells ==
  ASSUME Recorded, NEW r \in Runs, Agent!StartRun(r)
  PROVE  Told(r, 1, "run.started", "RUNNING")
<1> DEFINE d == Agent!Entry(r, "turn", "none", 0)
           e == Agent!Entry(r, "event", "run.started", 0 + 1)
           f == Agent!Entry(r, "status", "RUNNING", 0)
<1>1. RunTypes /\ log[r] = <<>> /\ Len(log[r]) = 0 /\ Len(log[r]) + 1 = 0 + 1 /\ server = "up"
      /\ queue \in Seq(Entries) /\ log \in [Runs -> Seq(Events)]
  <2>1. Len(<<>>) = 0 OBVIOUS
  <2> QED BY <2>1 DEF Recorded, RunTypes, Agent!StartRun
<1>2. d \in Entries /\ e \in Entries /\ f \in Entries
  BY DEF Entries, Agent!Entry, Events, States
<1>3. recording => queue' = ((queue \o <<d>>) \o <<e>>) \o <<f>>
  <2>1. recording => queue' = queue \o <<d, e, f>>
    BY <1>1 DEF Agent!StartRun, Agent!Record, Agent!Event
  <2> HIDE DEF d, e, f
  <2>2. queue \o <<d, e, f>> = ((queue \o <<d>>) \o <<e>>) \o <<f>> BY <1>1, <1>2, OneByOne
  <2> QED BY <2>1, <2>2
<1>4. recording => Written(r, queue \o <<d>>, "STARTING", 0) BY <1>1, TurnIsWritten
<1>5. recording => Written(r, (queue \o <<d>>) \o <<e>>, "STARTING", 0 + 1)
  <2> HIDE DEF d
  <2>1. "run.started" \in Events BY DEF Events
  <2> QED BY <1>1, <1>4, <2>1, EventIsWritten
<1>6. recording => Written(r, ((queue \o <<d>>) \o <<e>>) \o <<f>>, "RUNNING", 0 + 1)
  <2> HIDE DEF d, e
  <2>1. "RUNNING" \in States /\ "RUNNING" \notin Agent!Terminal BY DEF States, Agent!Terminal
  <2>2. f = Agent!Entry(r, "status", "RUNNING", 0) /\ 0 + 1 \in Nat OBVIOUS
  <2> DEFINE q == (queue \o <<d>>) \o <<e>>
             k == 0 + 1
             s == "STARTING"
             t == "RUNNING"
  <2>3. recording => Written(r, q, s, k) BY <1>5
  <2>4. s \in States \cup {"STARTING"} /\ t \in States /\ t \notin Agent!Terminal /\ k \in Nat
        /\ f = Agent!Entry(r, "status", t, 0)
    BY <2>1, <2>2
  <2> HIDE DEF q, k, s, t, f
  <2>5. recording => Written(r, q \o <<f>>, t, k) BY <1>1, <2>3, <2>4, StatusIsWritten
  <2> QED BY <2>5 DEF q, k, t
<1>7. log' = [log EXCEPT ![r] = log[r] \o <<"run.started">>]
  <2>1. log' = [log EXCEPT ![r] = <<"run.started">>] BY DEF Agent!StartRun
  <2>2. <<"run.started">> = <<>> \o <<"run.started">>
    <3>1. <<"run.started">> \in Seq(Events) BY DEF Events
    <3> QED BY <3>1, ConcatEmptySeq
  <2> QED BY <1>1, <2>1, <2>2
<1>8. /\ runStatus' = [runStatus EXCEPT ![r] = "RUNNING"] /\ (~recording => queue' = queue)
      /\ UNCHANGED <<recording, batch, rows, lost>>
  BY DEF Agent!StartRun, Agent!Record
<1>9. "run.started" \in Events /\ "RUNNING" \in States BY DEF Events, States
<1> HIDE DEF d, e, f
<1>10. /\ log' \in [Runs -> Seq(Events)]
       /\ \A u \in Runs \ {r} : log'[u] = log[u]
       /\ Len(log'[r]) = Len(log[r]) + 1 /\ log'[r][Len(log[r]) + 1] = "run.started"
       /\ \A i \in 1..Len(log[r]) : log'[r][i] = log[r][i]
  <2> DEFINE v == "run.started"
  <2>1. v \in Events /\ log' = [log EXCEPT ![r] = log[r] \o <<v>>] BY <1>7, <1>9
  <2> HIDE DEF v
  <2>2. /\ log' \in [Runs -> Seq(Events)]
        /\ \A u \in Runs \ {r} : log'[u] = log[u]
        /\ Len(log'[r]) = Len(log[r]) + 1 /\ log'[r][Len(log[r]) + 1] = v
        /\ \A i \in 1..Len(log[r]) : log'[r][i] = log[r][i]
    BY <1>1, <2>1, LogGrows
  <2> QED BY <2>2 DEF v
<1>11. /\ runStatus' \in [Runs -> States \cup {"NONE"}] /\ runStatus'[r] = "RUNNING"
       /\ \A u \in Runs \ {r} : runStatus'[u] = runStatus[u]
  BY <1>1, <1>8, <1>9 DEF RunTypes
<1>12. recording => Written(r, queue', "RUNNING", Len(log[r]) + 1) BY <1>1, <1>3, <1>6
<1> QED BY <1>8, <1>10, <1>11, <1>12 DEF Told

\* A channel that is told keeps the journal in step with it.
LEMMA ToldIsRecorded ==
  ASSUME Recorded, server = "up", server' = "up", NEW r \in Runs, NEW k \in {1, 2}, NEW v \in Events,
         NEW s \in States, s \in Agent!Terminal => v \in Agent!EndEvents, Told(r, k, v, s),
         UNCHANGED <<read, closed>>
  PROVE  /\ queue' \in Seq(Entries) /\ log' \in [Runs -> Seq(Events)]
         /\ runStatus' \in [Runs -> States \cup {"NONE"}]
         /\ \A u \in Runs : runStatus'[u] # "NONE" => log'[u] # <<>>
         /\ EndsAreLogged' /\ JournalCloses' /\ JournalFollows'
<1>1. /\ RunTypes /\ Running /\ EndsAreLogged /\ JournalCloses /\ JournalFollows BY DEF Recorded
<1>2. /\ log' \in [Runs -> Seq(Events)] /\ runStatus' \in [Runs -> States \cup {"NONE"}]
      /\ \A u \in Runs \ {r} : log'[u] = log[u] /\ runStatus'[u] = runStatus[u]
      /\ Len(log'[r]) = Len(log[r]) + k /\ log'[r][Len(log[r]) + k] = v
      /\ \A i \in 1..Len(log[r]) : log'[r][i] = log[r][i]
      /\ runStatus'[r] = s
      /\ recording => Written(r, queue', s, Len(log[r]) + k)
      /\ ~recording => queue' = queue
      /\ recording' = recording /\ batch' = batch /\ rows' = rows /\ lost' = lost
  BY DEF Told
<1>3. Len(log[r]) \in Nat BY <1>1, LenProperties DEF RunTypes
<1>4. log'[r] # <<>>
  <2>1. Len(log'[r]) # 0 BY <1>2, <1>3
  <2>2. Len(<<>>) = 0 OBVIOUS
  <2> QED BY <2>1, <2>2
<1>5. /\ queue' \in Seq(Entries) /\ ~Agent!Stops(queue') /\ Agent!Of(queue') \subseteq Agent!Of(queue) \cup {r}
  BY <1>1, <1>2 DEF Written, JournalCloses, RunTypes
<1>6. \A u \in Runs : runStatus'[u] # "NONE" => log'[u] # <<>>
  BY <1>1, <1>2, <1>4 DEF Running
<1>7. EndsAreLogged'
  <2>1. Len(log[r]) + k \in 1..Len(log'[r]) /\ \A i \in 1..Len(log[r]) : i \in 1..Len(log'[r])
    BY <1>2, <1>3
  <2>2. runStatus'[r] \in Agent!Terminal => \E i \in 1..Len(log'[r]) : log'[r][i] \in Agent!EndEvents
    BY <1>2, <2>1
  <2>3. r \in closed => \E i \in 1..Len(log'[r]) : i <= read[r] /\ log'[r][i] \in Agent!EndEvents
    BY <1>1, <1>2, <2>1 DEF EndsAreLogged
  <2> QED BY <1>1, <1>2, <2>2, <2>3 DEF EndsAreLogged
<1>8. JournalCloses'
  <2>1. ~recording => queue' = <<>> /\ batch' = <<>> BY <1>1, <1>2 DEF JournalCloses
  <2>2. ~Agent!Stops(batch') BY <1>1, <1>2 DEF JournalCloses
  <2> QED BY <1>2, <1>5, <2>1, <2>2 DEF JournalCloses
<1>9. JournalFollows'
  <2>1. ASSUME NEW u \in Runs, log'[u] = <<>>
        PROVE  rows'[u] = Agent!NoRow /\ u \notin Agent!Of(batch') \cup Agent!Of(queue')
    <3>1. u # r /\ log[u] = <<>> BY <1>2, <1>4, <2>1
    <3> QED BY <1>1, <1>2, <1>5, <3>1 DEF JournalFollows
  <2>2. ASSUME recording, NEW u \in Runs \ lost
        PROVE  Shows(Agent!After(rows, batch \o queue')[u], runStatus'[u], Len(log'[u]))
    <3>1. CASE u = r BY <1>2, <2>2, <3>1 DEF Written
    <3>2. CASE u # r
      <4>1. Agent!After(rows, batch \o queue')[u] = Agent!After(rows, batch \o queue)[u]
        BY <1>2, <2>2, <3>2 DEF Written
      <4> QED BY <1>1, <1>2, <2>2, <3>2, <4>1 DEF JournalFollows
    <3> QED BY <3>1, <3>2
  <2> QED BY <1>2, <2>1, <2>2 DEF JournalFollows
<1> QED BY <1>2, <1>5, <1>6, <1>7, <1>8, <1>9

\* The tasks, the decisions and what is pending, when only run r is touched and is
\* left in state s.
Ran(r, s) ==
  /\ task' \in [Runs -> {"none", "model", "expiring", "cancelled"}] /\ cancels' \in [Runs -> Nat]
  /\ granted' \in [Runs -> SUBSET Ops]
  /\ decisions' \in [Runs -> UNION {[D -> BOOLEAN] : D \in SUBSET Ops}]
  /\ pending' \in [Runs -> Ops \cup {"none"}]
  /\ \A u \in Runs \ {r} : /\ task'[u] = task[u] /\ cancels'[u] = cancels[u]
                           /\ pending'[u] = pending[u] /\ decisions'[u] = decisions[u]
  /\ task'[r] # "none" => s = "RUNNING"
  /\ pending'[r] # "none" => pending'[r] \notin DOMAIN decisions'[r]

LEMMA TellingIsSafe ==
  ASSUME Recorded, server = "up", server' = "up", NEW r \in Runs, NEW k \in {1, 2}, NEW v \in Events,
         NEW s \in States, s \in Agent!Terminal => v \in Agent!EndEvents, Told(r, k, v, s),
         UNCHANGED <<executed, read, closed>>, Ran(r, s), ExecutedOnce'
  PROVE  Recorded'
<1>1. /\ queue' \in Seq(Entries) /\ log' \in [Runs -> Seq(Events)]
      /\ runStatus' \in [Runs -> States \cup {"NONE"}]
      /\ \A u \in Runs : runStatus'[u] # "NONE" => log'[u] # <<>>
      /\ EndsAreLogged' /\ JournalCloses' /\ JournalFollows'
  BY ToldIsRecorded
<1>2. /\ \A u \in Runs \ {r} : runStatus'[u] = runStatus[u]
      /\ runStatus'[r] = s /\ UNCHANGED <<recording, batch, rows, lost>>
  BY DEF Told
<1>3. RunTypes'
  BY <1>1, <1>2 DEF Recorded, RunTypes, Ran
<1>4. Running'
  <2>1. \A u \in Runs \ {r} : /\ task'[u] = task[u] /\ cancels'[u] = cancels[u]
                              /\ pending'[u] = pending[u] /\ decisions'[u] = decisions[u]
    BY DEF Ran
  <2>2. s # "NONE" BY DEF States
  <2>3. Running BY DEF Recorded
  <2>4. ASSUME NEW u \in Runs
        PROVE  /\ task'[u] # "none" => runStatus'[u] = "RUNNING"
               /\ cancels'[u] > 0 => runStatus'[u] # "NONE"
               /\ pending'[u] # "none" => pending'[u] \notin DOMAIN decisions'[u]
    <3>1. CASE u = r BY <1>2, <2>2, <3>1 DEF Ran
    <3>2. CASE u # r BY <1>2, <2>1, <2>3, <3>2 DEF Running
    <3> QED BY <3>1, <3>2
  <2> QED BY <1>1, <2>4 DEF Running
<1> QED BY <1>1, <1>3, <1>4 DEF Recorded

LEMMA StartRunKeeps ==
  ASSUME Recorded, NEW r \in Runs, Agent!StartRun(r)
  PROVE  Recorded'
<1>1. Told(r, 1, "run.started", "RUNNING") BY StartTells
<1>2. server = "up" /\ server' = "up" /\ UNCHANGED <<executed, read, closed, granted, decisions>>
      /\ task' = [task EXCEPT ![r] = "model"] /\ UNCHANGED <<cancels, pending>>
  BY DEF Agent!StartRun, Agent!readVars
<1>3. Ran(r, "RUNNING") BY <1>2 DEF Ran, Recorded, RunTypes, Running
<1>4. ExecutedOnce' BY <1>2 DEF Recorded, ExecutedOnce
<1>5. "run.started" \in Events /\ "RUNNING" \in States /\ "RUNNING" \notin Agent!Terminal /\ 1 \in {1, 2}
  BY DEF Events, States, Agent!Terminal
<1> QED BY <1>1, <1>2, <1>3, <1>4, <1>5, TellingIsSafe

\* A run with a task is running.
LEMMA TasksRun ==
  ASSUME Recorded, NEW r \in Runs, task[r] # "none"
  PROVE  server = "up" /\ runStatus[r] = "RUNNING"
BY DEF Recorded, Running, NoTask

LEMMA ProgressKeeps ==
  ASSUME Recorded, NEW r \in Runs, Agent!Progress(r)
  PROVE  Recorded'
<1>1. task[r] = "model" /\ Agent!Publish(r, "delta")
      /\ UNCHANGED <<server, executed, read, closed, granted, decisions, cancels, pending, task>>
  BY DEF Agent!Progress, Agent!readVars, Agent!taskVars
<1>2. server = "up" /\ runStatus[r] = "RUNNING" BY <1>1, TasksRun
<1>3. "delta" \in Events /\ "RUNNING" \in States /\ "RUNNING" \notin Agent!Terminal /\ 1 \in {1, 2}
  BY DEF Events, States, Agent!Terminal
<1>4. Told(r, 1, "delta", "RUNNING") BY <1>1, <1>2, <1>3, PublishTells
<1>5. Ran(r, "RUNNING") BY <1>1, <1>2 DEF Ran, Recorded, RunTypes, Running
<1>6. ExecutedOnce' BY <1>1 DEF Recorded, ExecutedOnce
<1> QED BY <1>1, <1>2, <1>3, <1>4, <1>5, <1>6, TellingIsSafe

LEMMA EndKeeps ==
  ASSUME Recorded, NEW r \in Runs, task[r] # "none", NEW v \in Agent!EndEvents, NEW s \in States, Agent!End(r, v, s)
  PROVE  Recorded'
<1>1. Agent!Report(r, <<v>>, s) /\ task' = [task EXCEPT ![r] = "none"]
      /\ UNCHANGED <<server, executed, read, closed, granted, decisions, cancels, pending>>
  BY DEF Agent!End, Agent!readVars
<1>2. server = "up" /\ runStatus[r] = "RUNNING" BY <1>1, TasksRun
<1>3. v \in Events /\ 1 \in {1, 2} BY DEF Events, Agent!EndEvents
<1>4. Told(r, 1, v, s) BY <1>1, <1>2, <1>3, ReportTells
<1>5. Ran(r, s) BY <1>1, <1>2 DEF Ran, Recorded, RunTypes, Running
<1>6. ExecutedOnce' BY <1>1 DEF Recorded, ExecutedOnce
<1> QED BY <1>1, <1>2, <1>3, <1>4, <1>5, <1>6, TellingIsSafe

LEMMA InterruptKeeps ==
  ASSUME Recorded, NEW r \in Runs, NEW op \in Ops, Agent!Interrupt(r, op)
  PROVE  Recorded'
<1>1. task[r] = "model" /\ task' = [task EXCEPT ![r] = "none"]
      /\ UNCHANGED <<server, executed, read, closed, granted, decisions, cancels>>
  BY DEF Agent!Interrupt, Agent!readVars
<1>2. server = "up" /\ runStatus[r] = "RUNNING" BY <1>1, TasksRun
<1>3. ExecutedOnce' BY <1>1 DEF Recorded, ExecutedOnce
<1>4. CASE Agent!Repeats(r, op)
  <2>1. Agent!Report(r, <<"run.completed">>, "COMPLETED") /\ UNCHANGED pending
    BY <1>4 DEF Agent!Interrupt
  <2>2. "run.completed" \in Events \cap Agent!EndEvents /\ "COMPLETED" \in States /\ 1 \in {1, 2}
    BY DEF Events, Agent!EndEvents, States
  <2>3. Told(r, 1, "run.completed", "COMPLETED") BY <1>2, <2>1, <2>2, ReportTells
  <2>4. Ran(r, "COMPLETED") BY <1>1, <2>1 DEF Ran, Recorded, RunTypes, Running
  <2> QED BY <1>1, <1>2, <1>3, <2>2, <2>3, <2>4, TellingIsSafe
<1>5. CASE ~Agent!Repeats(r, op)
  <2>1. Agent!Report(r, <<"approval.required">>, "AWAITING_APPROVAL")
        /\ pending' = [pending EXCEPT ![r] = op] /\ op \notin DOMAIN decisions[r]
    BY <1>5 DEF Agent!Interrupt, Agent!Repeats
  <2>2. "approval.required" \in Events /\ "AWAITING_APPROVAL" \in States /\ 1 \in {1, 2}
        /\ "AWAITING_APPROVAL" \notin Agent!Terminal
    BY DEF Events, States, Agent!Terminal
  <2>3. Told(r, 1, "approval.required", "AWAITING_APPROVAL") BY <1>2, <2>1, <2>2, ReportTells
  <2>4. Ran(r, "AWAITING_APPROVAL") BY <1>1, <2>1 DEF Ran, Recorded, RunTypes, Running
  <2> QED BY <1>1, <1>2, <1>3, <2>2, <2>3, <2>4, TellingIsSafe
<1> QED BY <1>4, <1>5

LEMMA DecideKeeps ==
  ASSUME Recorded, NEW r \in Runs, NEW approve \in BOOLEAN, Agent!Decide(r, approve)
  PROVE  Recorded'
<1>1. /\ server = "up" /\ server' = "up" /\ runStatus[r] = "AWAITING_APPROVAL" /\ pending[r] # "none"
      /\ pending' = [pending EXCEPT ![r] = "none"]
      /\ UNCHANGED <<executed, read, closed, cancels>>
  BY DEF Agent!Decide, Agent!readVars, Agent!None, Agent!Take
<1>2. RunTypes /\ Running /\ ExecutedOnce /\ task[r] = "none" /\ 1 \in {1, 2}
  BY <1>1 DEF Recorded, Running
<1>3. CASE r \in stale
  <2>1. Agent!Report(r, <<"run.failed">>, "FAILED") /\ UNCHANGED <<task, granted, decisions>>
    BY <1>3 DEF Agent!Decide
  <2>2. "run.failed" \in Events \cap Agent!EndEvents /\ "FAILED" \in States
    BY DEF Events, Agent!EndEvents, States
  <2>3. Told(r, 1, "run.failed", "FAILED") BY <1>1, <2>1, <2>2, ReportTells
  <2>4. Ran(r, "FAILED") BY <1>1, <1>2, <2>1 DEF Ran, RunTypes, Running
  <2>5. ExecutedOnce' BY <1>1, <1>2, <2>1 DEF ExecutedOnce
  <2> QED BY <1>1, <1>2, <2>2, <2>3, <2>4, <2>5, TellingIsSafe
<1>4. CASE r \notin stale
  <2> DEFINE op == pending[r]
             old == decisions[r]
             new == Agent!Decided(old, op, approve)
  <2>1. Agent!Report(r, <<"approval.resolved">>, "RUNNING")
        /\ decisions' = [decisions EXCEPT ![r] = new]
        /\ granted' = [granted EXCEPT ![r] = IF approve THEN {op} ELSE {}]
        /\ task' = [task EXCEPT ![r] = "model"]
    BY <1>4 DEF Agent!Decide
  <2>2. "approval.resolved" \in Events /\ "RUNNING" \in States /\ "RUNNING" \notin Agent!Terminal
    BY DEF Events, States, Agent!Terminal
  <2>3. Told(r, 1, "approval.resolved", "RUNNING") BY <1>1, <2>1, <2>2, ReportTells
  <2>4. op \in Ops /\ op \notin DOMAIN old BY <1>1, <1>2 DEF RunTypes, Running
  <2>5. PICK D \in SUBSET Ops : old \in [D -> BOOLEAN] BY <1>2 DEF RunTypes
  <2>6. new = [o \in {op} \cup D |-> IF o = op THEN approve ELSE old[o]]
    BY <2>4, <2>5 DEF Agent!Decided
  <2> HIDE DEF new
  <2>7. new \in [{op} \cup D -> BOOLEAN] /\ {op} \cup D \in SUBSET Ops BY <2>4, <2>5, <2>6
  <2>8. new \in UNION {[E -> BOOLEAN] : E \in SUBSET Ops} BY <2>7
  <2>9. Ran(r, "RUNNING")
    <3>1. decisions' \in [Runs -> UNION {[E -> BOOLEAN] : E \in SUBSET Ops}]
          /\ \A u \in Runs \ {r} : decisions'[u] = decisions[u]
      BY <1>2, <2>1, <2>8 DEF RunTypes
    <3>2. granted' \in [Runs -> SUBSET Ops] BY <1>2, <2>1, <2>4 DEF RunTypes
    <3> QED BY <1>1, <1>2, <2>1, <3>1, <3>2 DEF Ran, RunTypes, Running
  <2>10. ExecutedOnce'
    <3>1. /\ DOMAIN new = {op} \cup D /\ DOMAIN old = D /\ new[op] = approve /\ \A o \in D : new[o] = old[o]
          /\ op \notin D
      BY <2>4, <2>5, <2>6
    <3>2. decisions'[r] = new /\ granted'[r] = (IF approve THEN {op} ELSE {})
          /\ \A u \in Runs \ {r} : decisions'[u] = decisions[u] /\ granted'[u] = granted[u]
      BY <1>2, <2>1 DEF RunTypes
    <3>3. \A g \in granted'[r] : g \in DOMAIN decisions'[r] /\ decisions'[r][g] BY <3>1, <3>2
    <3>4. \A i \in 1..Len(executed[r]) : executed[r][i] \in D /\ old[executed[r][i]]
      BY <1>2, <3>1 DEF ExecutedOnce
    <3>5. \A i \in 1..Len(executed[r]) :
            /\ executed[r][i] \in DOMAIN decisions'[r] /\ decisions'[r][executed[r][i]]
            /\ executed[r][i] \notin granted'[r]
      BY <3>1, <3>2, <3>4
    <3> QED BY <1>1, <1>2, <3>2, <3>3, <3>5 DEF ExecutedOnce
  <2> QED BY <1>1, <1>2, <2>2, <2>3, <2>9, <2>10, TellingIsSafe
<1> QED BY <1>3, <1>4

LEMMA CancelKeeps ==
  ASSUME Recorded, NEW r \in Runs, Agent!Cancel(r)
  PROVE  Recorded'
<1>1. /\ server = "up" /\ server' = "up" /\ runStatus[r] \notin Agent!Terminal \cup {"NONE"}
      /\ pending' = [pending EXCEPT ![r] = "none"]
      /\ UNCHANGED <<executed, read, closed, granted, decisions>>
  BY DEF Agent!Cancel, Agent!readVars, Agent!None, Agent!Take, Agent!Live
<1>2. RunTypes /\ Running /\ ExecutedOnce BY DEF Recorded
<1>3. ExecutedOnce' BY <1>1, <1>2 DEF ExecutedOnce
<1>4. CASE task[r] = "none"
  <2>1. Agent!Report(r, <<"run.cancellation_requested", "run.cancelled">>, "CANCELLED")
        /\ UNCHANGED <<task, cancels>>
    BY <1>4 DEF Agent!Cancel
  <2>2. "run.cancelled" \in Events \cap Agent!EndEvents /\ "run.cancellation_requested" \in Events
        /\ "CANCELLED" \in States /\ 2 \in {1, 2}
    BY DEF Events, Agent!EndEvents, States
  <2>3. Told(r, 2, "run.cancelled", "CANCELLED") BY <1>1, <2>1, <2>2, ReportTellsTwice
  <2>4. Ran(r, "CANCELLED") BY <1>1, <1>2, <1>4, <2>1 DEF Ran, RunTypes, Running
  <2> QED BY <1>1, <1>3, <2>2, <2>3, <2>4, TellingIsSafe
<1>5. CASE task[r] # "none"
  <2>1. Agent!Publish(r, "run.cancellation_requested")
        /\ task' = [task EXCEPT ![r] = IF task[r] = "model" THEN "cancelled" ELSE task[r]]
        /\ cancels' = [cancels EXCEPT ![r] = cancels[r] + 1]
    BY <1>5 DEF Agent!Cancel
  <2>2. runStatus[r] = "RUNNING" BY <1>5, TasksRun
  <2>3. "run.cancellation_requested" \in Events /\ 1 \in {1, 2} /\ "RUNNING" \in States
        /\ "RUNNING" \notin Agent!Terminal
    BY DEF Events, States, Agent!Terminal
  <2>4. Told(r, 1, "run.cancellation_requested", "RUNNING") BY <1>1, <2>1, <2>2, <2>3, PublishTells
  <2>5. Ran(r, "RUNNING") BY <1>1, <1>2, <2>1, <2>2 DEF Ran, RunTypes, Running
  <2> QED BY <1>1, <1>3, <2>3, <2>4, <2>5, TellingIsSafe
<1> QED BY <1>4, <1>5

LEMMA CancelDoneKeeps ==
  ASSUME Recorded, NEW r \in Runs, Agent!CancelDone(r)
  PROVE  Recorded'
<1>1. /\ server = "up" /\ server' = "up" /\ cancels[r] > 0 /\ task[r] = "none"
      /\ cancels' = [cancels EXCEPT ![r] = cancels[r] - 1]
      /\ UNCHANGED <<executed, read, closed, granted, decisions, task, pending>>
  BY DEF Agent!CancelDone, Agent!readVars
<1>2. RunTypes /\ Running /\ ExecutedOnce /\ EndsAreLogged /\ JournalCloses /\ JournalFollows BY DEF Recorded
<1>3. ExecutedOnce' BY <1>1, <1>2 DEF ExecutedOnce
<1>4. runStatus[r] # "NONE" BY <1>1, <1>2 DEF Running
<1>5. cancels' \in [Runs -> Nat] /\ \A u \in Runs : cancels'[u] > 0 => cancels[u] > 0
  <2>1. cancels \in [Runs -> Nat] BY <1>2 DEF RunTypes
  <2>2. cancels[r] - 1 \in Nat BY <1>1, <2>1
  <2> QED BY <1>1, <2>1, <2>2
<1>6. CASE runStatus[r] \in {"COMPLETED", "FAILED"}
  <2>1. UNCHANGED <<runStatus, log, recording, queue, batch, rows, lost>>
    BY <1>6 DEF Agent!CancelDone, Agent!channelVars, Agent!journalVars
  <2>2. RunTypes' BY <1>1, <1>2, <1>5, <2>1 DEF RunTypes
  <2>3. Running' BY <1>1, <1>2, <1>5, <2>1 DEF Running
  <2>4. EndsAreLogged' BY <1>1, <1>2, <2>1 DEF EndsAreLogged
  <2>5. JournalCloses' BY <1>1, <1>2, <2>1 DEF JournalCloses
  <2>6. JournalFollows' BY <1>1, <1>2, <2>1 DEF JournalFollows
  <2> QED BY <1>3, <2>2, <2>3, <2>4, <2>5, <2>6 DEF Recorded
<1>7. CASE runStatus[r] \notin {"COMPLETED", "FAILED"}
  <2>1. Agent!Report(r, <<"run.cancelled">>, "CANCELLED") BY <1>7 DEF Agent!CancelDone
  <2>2. "run.cancelled" \in Events \cap Agent!EndEvents /\ "CANCELLED" \in States /\ 1 \in {1, 2}
    BY DEF Events, Agent!EndEvents, States
  <2>3. Told(r, 1, "run.cancelled", "CANCELLED") BY <1>1, <1>4, <2>1, <2>2, ReportTells
  <2>4. Ran(r, "CANCELLED") BY <1>1, <1>2, <1>5 DEF Ran, RunTypes, Running
  <2> QED BY <1>1, <1>3, <2>2, <2>3, <2>4, TellingIsSafe
<1> QED BY <1>6, <1>7

\* A step of a task that leaves the channel and the journal.
LEMMA QuietKeeps ==
  ASSUME Recorded, UNCHANGED <<server, runStatus, log, recording, queue, batch, rows, lost>>,
         UNCHANGED <<decisions, pending, cancels, read, closed>>,
         task' \in [Runs -> {"none", "model", "expiring", "cancelled"}],
         \A r \in Runs : task'[r] # "none" => task[r] # "none",
         granted' \in [Runs -> SUBSET Ops], executed' \in [Runs -> Seq(Ops)], ExecutedOnce'
  PROVE  Recorded'
<1>1. RunTypes /\ Running /\ EndsAreLogged /\ JournalCloses /\ JournalFollows BY DEF Recorded
<1>2. RunTypes' BY <1>1 DEF RunTypes
<1>3. Running'
  <2>1. NoTask => NoTask'
    <3>1. NoTask => \A r \in Runs : task'[r] = "none" BY DEF NoTask
    <3> QED BY <3>1 DEF NoTask
  <2> QED BY <1>1, <2>1 DEF Running
<1>4. EndsAreLogged' BY <1>1 DEF EndsAreLogged
<1>5. JournalCloses' BY <1>1 DEF JournalCloses
<1>6. JournalFollows' BY <1>1 DEF JournalFollows
<1> QED BY <1>2, <1>3, <1>4, <1>5, <1>6 DEF Recorded

LEMMA TaskStepsKeep ==
  ASSUME Recorded, NEW r \in Runs, Agent!Expire(r) \/ Agent!PassTenMinutes(r) \/ Agent!Unwind(r)
  PROVE  Recorded'
<1>1. /\ UNCHANGED <<server, runStatus, log, recording, queue, batch, rows, lost>>
      /\ UNCHANGED <<decisions, pending, cancels, read, closed, granted, executed>>
      /\ \/ task' = [task EXCEPT ![r] = "expiring"] /\ task[r] # "none"
         \/ task' = [task EXCEPT ![r] = "none"]
         \/ task' = task
  BY DEF Agent!Expire, Agent!PassTenMinutes, Agent!Unwind, Agent!channelVars, Agent!journalVars,
         Agent!readVars
<1>2. RunTypes /\ ExecutedOnce BY DEF Recorded
<1>3. /\ task' \in [Runs -> {"none", "model", "expiring", "cancelled"}]
      /\ \A u \in Runs : task'[u] # "none" => task[u] # "none"
  BY <1>1, <1>2 DEF RunTypes
<1>4. ExecutedOnce' BY <1>1, <1>2 DEF ExecutedOnce
<1>5. granted' \in [Runs -> SUBSET Ops] /\ executed' \in [Runs -> Seq(Ops)] BY <1>1, <1>2 DEF RunTypes
<1> QED BY <1>1, <1>3, <1>4, <1>5, QuietKeeps

LEMMA ExecuteKeeps ==
  ASSUME Recorded, NEW r \in Runs, NEW op \in Ops, Agent!Execute(r, op)
  PROVE  Recorded'
<1>1. /\ UNCHANGED <<server, runStatus, log, recording, queue, batch, rows, lost>>
      /\ UNCHANGED <<decisions, pending, cancels, read, closed, task>>
      /\ op \in granted[r]
      /\ granted' = [granted EXCEPT ![r] = granted[r] \ {op}]
      /\ executed' = [executed EXCEPT ![r] = Append(executed[r], op)]
  BY DEF Agent!Execute, Agent!channelVars, Agent!journalVars, Agent!readVars
<1>2. RunTypes /\ ExecutedOnce BY DEF Recorded
<1>3. executed[r] \in Seq(Ops) BY <1>2 DEF RunTypes
<1>4. /\ granted' \in [Runs -> SUBSET Ops] /\ executed' \in [Runs -> Seq(Ops)]
      /\ task' \in [Runs -> {"none", "model", "expiring", "cancelled"}]
  <2>1. Append(executed[r], op) \in Seq(Ops) BY <1>3
  <2> QED BY <1>1, <1>2, <2>1 DEF RunTypes
<1>5. ExecutedOnce'
  <2> DEFINE l == Len(executed[r])
  <2>1. /\ l \in Nat /\ Len(executed'[r]) = l + 1 /\ executed'[r][l + 1] = op
        /\ \A i \in 1..l : executed'[r][i] = executed[r][i]
        /\ granted'[r] = granted[r] \ {op}
    BY <1>1, <1>2, <1>3, LenProperties, AppendProperties DEF RunTypes
  <2>2. \A u \in Runs \ {r} : executed'[u] = executed[u] /\ granted'[u] = granted[u]
    BY <1>1, <1>2 DEF RunTypes
  <2> HIDE DEF l
  <2>3. \A i \in 1..l + 1 : i = l + 1 \/ i \in 1..l BY <2>1
  <2>4. op \in DOMAIN decisions[r] /\ decisions[r][op] /\ \A i \in 1..l : executed[r][i] # op
    BY <1>1, <1>2 DEF ExecutedOnce, l
  <2>5. \A i, j \in 1..l + 1 : executed'[r][i] = executed'[r][j] => i = j
    BY <1>2, <2>1, <2>3, <2>4 DEF ExecutedOnce, l
  <2>6. \A i \in 1..l + 1 : /\ executed'[r][i] \in DOMAIN decisions[r] /\ decisions[r][executed'[r][i]]
                            /\ executed'[r][i] \notin granted'[r]
    BY <1>2, <2>1, <2>3, <2>4 DEF ExecutedOnce, l
  <2>7. \A g \in granted'[r] : g \in DOMAIN decisions[r] /\ decisions[r][g]
    BY <1>2, <2>1 DEF ExecutedOnce
  <2> QED BY <1>1, <1>2, <2>1, <2>2, <2>5, <2>6, <2>7 DEF ExecutedOnce
<1> QED BY <1>1, <1>4, <1>5, QuietKeeps

LEMMA ReadersKeep ==
  ASSUME Recorded, NEW r \in Runs, Agent!Read(r) \/ \E n \in {0, read[r]} : Agent!Reconnect(r, n)
  PROVE  Recorded'
<1>1. /\ UNCHANGED <<server, runStatus, log, recording, queue, batch, rows, lost>>
      /\ UNCHANGED <<task, granted, decisions, pending, cancels, executed>>
      /\ \A u \in Runs \ {r} : read'[u] = read[u] /\ (u \in closed' => u \in closed)
      /\ read' \in [Runs -> Nat] /\ closed' \subseteq Runs
  <2>1. read \in [Runs -> Nat] /\ closed \subseteq Runs /\ Len(log[r]) \in Nat
    BY LenProperties DEF Recorded, RunTypes
  <2>2. CASE Agent!Read(r)
    BY <2>1, <2>2 DEF Agent!Read, Agent!channelVars, Agent!journalVars, Agent!taskVars
  <2>3. CASE \E n \in {0, read[r]} : Agent!Reconnect(r, n)
    BY <2>1, <2>3 DEF Agent!Reconnect, Agent!channelVars, Agent!journalVars, Agent!taskVars
  <2> QED BY <2>2, <2>3
<1>2. RunTypes /\ Running /\ ExecutedOnce /\ EndsAreLogged /\ JournalCloses /\ JournalFollows BY DEF Recorded
<1>3. r \in closed' => \E i \in 1..Len(log[r]) : i <= read'[r] /\ log[r][i] \in Agent!EndEvents
  <2> SUFFICES ASSUME r \in closed'
               PROVE  \E i \in 1..Len(log[r]) : i <= read'[r] /\ log[r][i] \in Agent!EndEvents
    OBVIOUS
  <2>1. /\ r \notin closed /\ Agent!Unread(r) = {} /\ runStatus[r] \in Agent!Terminal /\ read' = read
    <3>1. Agent!Read(r) BY DEF Agent!Reconnect
    <3> QED BY <3>1 DEF Agent!Read
  <2>2. PICK i \in 1..Len(log[r]) : log[r][i] \in Agent!EndEvents BY <1>2, <2>1 DEF EndsAreLogged
  <2>3. Len(log[r]) \in Nat /\ read[r] \in Nat /\ MaxEvents \in Nat \ {0}
    BY <1>2, LenProperties, AgentBounds DEF RunTypes
  <2>4. Len(log[r]) \in Agent!Retained(r)
    BY <2>2, <2>3 DEF Agent!Retained
  <2>5. Len(log[r]) <= read[r] BY <2>1, <2>3, <2>4 DEF Agent!Unread
  <2>6. i <= read[r] BY <2>2, <2>3, <2>5
  <2> QED BY <2>1, <2>2, <2>6
<1>4. RunTypes' BY <1>1, <1>2 DEF RunTypes
<1>5. Running'
  <2>1. NoTask => NoTask' BY <1>1 DEF NoTask
  <2> QED BY <1>1, <1>2, <2>1 DEF Running
<1>6. EndsAreLogged' BY <1>1, <1>2, <1>3 DEF EndsAreLogged
<1>7. ExecutedOnce' BY <1>1, <1>2 DEF ExecutedOnce
<1>8. JournalCloses' BY <1>1, <1>2 DEF JournalCloses
<1>9. JournalFollows' BY <1>1, <1>2 DEF JournalFollows
<1> QED BY <1>4, <1>5, <1>6, <1>7, <1>8, <1>9 DEF Recorded

\* The journal and the process touch no task that runs, and no reader.
TasksStill == UNCHANGED <<runStatus, log, granted, decisions, pending, executed, read, closed>>

LEMMA WriterTakeKeeps ==
  ASSUME Recorded, Agent!WriterTake
  PROVE  Recorded'
<1>1. /\ UNCHANGED <<server, recording, rows, lost, task, cancels>> /\ TasksStill
      /\ server # "down" /\ recording /\ batch = <<>> /\ batch' = queue /\ queue' = <<>>
  BY DEF Agent!WriterTake, Agent!channelVars, Agent!taskVars, Agent!readVars, TasksStill
<1>2. RunTypes /\ Running /\ ExecutedOnce /\ EndsAreLogged /\ JournalCloses /\ JournalFollows BY DEF Recorded
<1>3. queue' \in Seq(Entries) /\ Agent!Of(queue') = {} /\ ~Agent!Stops(queue')
  BY <1>1, EmptySeq DEF Agent!Of, Agent!Stops
<1>4. RunTypes' BY <1>1, <1>2, <1>3 DEF RunTypes, TasksStill
<1>5. Running'
  <2>1. NoTask => NoTask' BY <1>1 DEF NoTask
  <2> QED BY <1>1, <1>2, <2>1 DEF Running, TasksStill
<1>6. EndsAreLogged' BY <1>1, <1>2 DEF EndsAreLogged, TasksStill
<1>7. ExecutedOnce' BY <1>1, <1>2 DEF ExecutedOnce, TasksStill
<1>8. JournalCloses' BY <1>1, <1>2, <1>3 DEF JournalCloses
<1>9. JournalFollows'
  <2>1. batch \o queue = queue /\ batch' \o queue' = queue
    <3>1. queue \in Seq(Entries) BY <1>2 DEF RunTypes
    <3>2. queue \o <<>> = queue /\ <<>> \o queue = queue BY <3>1, ConcatEmptySeq
    <3> QED BY <1>1, <3>2
  <2>2. Agent!After(rows', batch' \o queue') = Agent!After(rows, batch \o queue) BY <1>1, <2>1
  <2>3. \A r \in Runs : log'[r] = <<>> => rows'[r] = Agent!NoRow /\ r \notin Agent!Of(batch') \cup Agent!Of(queue')
    BY <1>1, <1>2, <1>3 DEF JournalFollows, TasksStill
  <2> QED BY <1>1, <1>2, <2>2, <2>3 DEF JournalFollows, TasksStill
<1> QED BY <1>4, <1>5, <1>6, <1>7, <1>8, <1>9 DEF Recorded

LEMMA WriterDoneKeeps ==
  ASSUME Recorded, Agent!WriterDone
  PROVE  Recorded'
<1>1. /\ UNCHANGED <<queue, task, cancels>> /\ TasksStill
      /\ batch # <<>> /\ batch' = <<>>
      /\ \/ rows' = Agent!After(rows, batch) /\ lost' = lost
         \/ rows' = rows /\ lost' = lost \cup Agent!Of(batch) \cup (IF Agent!Stops(batch) THEN Runs ELSE {})
      /\ Agent!Stops(batch) => server' = "down" /\ recording' = FALSE
      /\ ~Agent!Stops(batch) => server' = server /\ recording' = recording
  BY DEF Agent!WriterDone, Agent!channelVars, Agent!taskVars, Agent!readVars, TasksStill
<1>2. RunTypes /\ Running /\ ExecutedOnce /\ EndsAreLogged /\ JournalCloses /\ JournalFollows BY DEF Recorded
<1>3. rows \in Tables /\ batch \in Seq(Entries) /\ queue \in Seq(Entries) /\ recording /\ server # "down"
  BY <1>1, <1>2 DEF RunTypes, JournalCloses
<1>4. rows' \in Tables BY <1>1, <1>3, AfterIsTable
<1>5. batch' \in Seq(Entries) /\ Agent!Of(batch') = {} /\ ~Agent!Stops(batch')
  BY <1>1, EmptySeq DEF Agent!Of, Agent!Stops
<1>6. lost' \subseteq Runs
  <2>1. Agent!Of(batch) \subseteq Runs
    <3>1. \A i \in 1..Len(batch) : batch[i] \in Entries BY <1>3, ElementOfSeq
    <3>2. \A e \in Entries : e.kind # "stop" => e.run \in Runs BY DEF Entries, Agent!Entry
    <3> QED BY <3>1, <3>2 DEF Agent!Of
  <2> QED BY <1>1, <1>2, <2>1 DEF RunTypes
<1>7. RunTypes' BY <1>1, <1>2, <1>4, <1>5, <1>6 DEF RunTypes, TasksStill
<1>8. Running'
  <2>1. NoTask => NoTask' BY <1>1 DEF NoTask
  <2>2. Agent!Stops(batch) => NoTask BY <1>2 DEF JournalCloses, Running, RunTypes
  <2> QED BY <1>1, <1>2, <2>1, <2>2 DEF Running, TasksStill
<1>9. EndsAreLogged' BY <1>1, <1>2 DEF EndsAreLogged, TasksStill
<1>10. ExecutedOnce' BY <1>1, <1>2 DEF ExecutedOnce, TasksStill
<1>11. JournalCloses' BY <1>1, <1>2, <1>3, <1>5 DEF JournalCloses
<1>12. ASSUME NEW r \in Runs, log[r] = <<>>
       PROVE  rows'[r] = Agent!NoRow /\ r \notin Agent!Of(batch') \cup Agent!Of(queue')
  <2>1. rows[r] = Agent!NoRow /\ r \notin Agent!Of(batch) \cup Agent!Of(queue) BY <1>2, <1>12 DEF JournalFollows
  <2>2. Agent!After(rows, batch)[r] = rows[r] BY <1>3, <2>1, AfterIsQuiet
  <2> QED BY <1>1, <1>5, <2>1, <2>2
<1>13. ASSUME server' = "up", recording', NEW r \in Runs \ lost'
       PROVE  Shows(Agent!After(rows', batch' \o queue')[r], runStatus[r], Len(log[r]))
  <2>1. ~Agent!Stops(batch) /\ server = "up" /\ recording BY <1>1, <1>3, <1>13
  <2>2. ~Agent!Stops(queue) BY <1>2, <2>1 DEF JournalCloses
  <2>3. Shows(Agent!After(rows, batch \o queue)[r], runStatus[r], Len(log[r]))
    BY <1>1, <1>2, <1>13, <2>1 DEF JournalFollows
  <2>4. Agent!After(rows, batch \o queue) = Agent!After(Agent!After(rows, batch), queue)
    BY <1>3, AfterConcat
  <2>5. batch' \o queue' = queue BY <1>1, <1>3, ConcatEmptySeq
  <2>6. CASE rows' = Agent!After(rows, batch) BY <2>3, <2>4, <2>5, <2>6
  <2>7. CASE rows' = rows /\ lost' = lost \cup Agent!Of(batch) \cup (IF Agent!Stops(batch) THEN Runs ELSE {})
    <3>1. r \notin Agent!Of(batch) BY <1>13, <2>7
    <3> DEFINE one == Agent!After(rows, batch)
    <3>2. one \in Tables /\ one[r] = rows[r] BY <1>3, <2>1, <3>1, AfterIsTable, AfterIsQuiet
    <3> HIDE DEF one
    <3>3. Agent!After(one, queue)[r] = Agent!After(rows, queue)[r] BY <1>3, <2>2, <3>2, AfterIsLocal
    <3> QED BY <2>3, <2>4, <2>5, <2>7, <3>3 DEF one
  <2> QED BY <1>1, <2>6, <2>7
<1>14. JournalFollows' BY <1>1, <1>12, <1>13 DEF JournalFollows, TasksStill
<1> QED BY <1>7, <1>8, <1>9, <1>10, <1>11, <1>14 DEF Recorded

LEMMA ShutdownKeeps ==
  ASSUME Recorded, Agent!Shutdown
  PROVE  Recorded'
<1> DEFINE e == Agent!Entry("all", "stop", "none", 0)
<1>1. /\ UNCHANGED <<cancels, recording, batch, rows, lost>> /\ TasksStill
      /\ server = "up" /\ task' = [r \in Runs |-> "none"] /\ \A r \in Runs : cancels[r] = 0
      /\ recording => server' = "stopping" /\ queue' = Append(queue, e)
      /\ ~recording => server' = "down" /\ queue' = queue
  BY DEF Agent!Shutdown, Agent!channelVars, Agent!readVars, TasksStill
<1>2. RunTypes /\ Running /\ ExecutedOnce /\ EndsAreLogged /\ JournalCloses /\ JournalFollows BY DEF Recorded
<1>3. e \in Entries /\ e.kind = "stop" BY DEF Entries, Agent!Entry
<1>4. queue' \in Seq(Entries) /\ Agent!Of(queue') = Agent!Of(queue)
  <2>1. queue \in Seq(Entries) BY <1>2 DEF RunTypes
  <2>2. CASE ~recording BY <1>1, <2>1, <2>2
  <2>3. CASE recording
    <3> DEFINE one == <<e>>
    <3>1. one \in Seq(Entries) /\ Agent!Of(one) = {}
      <4> HIDE DEF e
      <4>1. one \in Seq(Entries) /\ Len(one) = 1 /\ one[1] = e BY <1>3
      <4> HIDE DEF one
      <4>2. {j \in 1..Len(one) : one[j].kind # "stop"} = {} BY <1>3, <4>1
      <4> QED BY <4>1, <4>2 DEF Agent!Of
    <3>2. Append(queue, e) = queue \o one BY <1>3, <2>1, AppendIsConcat
    <3> HIDE DEF e, one
    <3>3. queue \o one \in Seq(Entries) /\ Agent!Of(queue \o one) = Agent!Of(queue) \cup Agent!Of(one)
      BY <2>1, <3>1, Together
    <3>4. queue' = queue \o one BY <1>1, <2>3, <3>2 DEF one, e
    <3>5. Agent!Of(queue') = Agent!Of(queue) \cup {} BY <3>1, <3>3, <3>4
    <3> QED BY <3>3, <3>4, <3>5
  <2> QED BY <2>2, <2>3
<1> HIDE DEF e
<1>5. server' \in {"up", "stopping", "down"} /\ server' # "up" BY <1>1
<1>6. RunTypes' BY <1>1, <1>2, <1>4, <1>5 DEF RunTypes, TasksStill
<1>7. Running'
  <2>1. NoTask' BY <1>1 DEF NoTask
  <2> QED BY <1>1, <1>2, <2>1 DEF Running, TasksStill
<1>8. EndsAreLogged' BY <1>1, <1>2 DEF EndsAreLogged, TasksStill
<1>9. ExecutedOnce' BY <1>1, <1>2 DEF ExecutedOnce, TasksStill
<1>10. JournalCloses'
  <2>1. ~Agent!Stops(batch') BY <1>1, <1>2 DEF JournalCloses
  <2>2. ~recording' \/ server' = "down" => ~recording /\ queue' = <<>> /\ batch' = <<>>
    BY <1>1, <1>2 DEF JournalCloses
  <2> QED BY <1>1, <1>5, <2>1, <2>2 DEF JournalCloses
<1>11. JournalFollows' BY <1>1, <1>2, <1>4, <1>5 DEF JournalFollows, TasksStill
<1> QED BY <1>6, <1>7, <1>8, <1>9, <1>10, <1>11 DEF Recorded

LEMMA CrashKeeps ==
  ASSUME Recorded, Agent!Crash
  PROVE  Recorded'
<1>1. /\ rows' = rows /\ TasksStill /\ server' = "down" /\ recording' = FALSE
      /\ lost' = lost \cup Agent!Of(queue \o batch) /\ queue' = <<>> /\ batch' = <<>>
      /\ task' = [r \in Runs |-> "none"] /\ cancels' = [r \in Runs |-> 0]
  BY DEF Agent!Crash, Agent!channelVars, Agent!readVars, TasksStill
<1>2. RunTypes /\ Running /\ ExecutedOnce /\ EndsAreLogged /\ JournalCloses /\ JournalFollows BY DEF Recorded
<1>3. /\ queue' \in Seq(Entries) /\ batch' \in Seq(Entries)
      /\ Agent!Of(queue') = {} /\ Agent!Of(batch') = {} /\ ~Agent!Stops(batch')
  BY <1>1, EmptySeq DEF Agent!Of, Agent!Stops
<1>4. lost' \subseteq Runs
  <2> DEFINE es == queue \o batch
  <2>1. es \in Seq(Entries) BY <1>2, Together DEF RunTypes
  <2> HIDE DEF es
  <2>2. \A i \in 1..Len(es) : es[i] \in Entries BY <2>1, ElementOfSeq
  <2>3. \A e \in Entries : e.kind # "stop" => e.run \in Runs BY DEF Entries, Agent!Entry
  <2>4. Agent!Of(es) \subseteq Runs BY <2>2, <2>3 DEF Agent!Of
  <2> QED BY <1>1, <1>2, <2>4 DEF RunTypes, es
<1>5. RunTypes' BY <1>1, <1>2, <1>3, <1>4 DEF RunTypes, TasksStill
<1>6. Running'
  <2>1. NoTask' BY <1>1 DEF NoTask
  <2>2. \A r \in Runs : task'[r] = "none" /\ ~(cancels'[r] > 0) BY <1>1
  <2> QED BY <1>1, <1>2, <2>1, <2>2 DEF Running, TasksStill
<1>7. EndsAreLogged' BY <1>1, <1>2 DEF EndsAreLogged, TasksStill
<1>8. ExecutedOnce' BY <1>1, <1>2 DEF ExecutedOnce, TasksStill
<1>9. JournalCloses' BY <1>1, <1>3 DEF JournalCloses
<1>10. JournalFollows' BY <1>1, <1>2, <1>3 DEF JournalFollows, TasksStill
<1> QED BY <1>5, <1>6, <1>7, <1>8, <1>9, <1>10 DEF Recorded

LEMMA RestartKeeps ==
  ASSUME Recorded, Agent!Restart
  PROVE  Recorded'
<1>1. /\ UNCHANGED <<log, task, granted, decisions, cancels, executed, read, closed, queue, batch, lost>>
      /\ server = "down" /\ server' = "up"
      /\ \/ recording' = TRUE /\ rows' = Agent!InterruptAll(rows)
         \/ recording' = FALSE /\ rows' = rows
      /\ runStatus' = [r \in Runs |-> "NONE"] /\ pending' = [r \in Runs |-> "none"]
  BY DEF Agent!Restart, Agent!readVars, Agent!None
<1>2. RunTypes /\ Running /\ ExecutedOnce /\ EndsAreLogged /\ JournalCloses /\ JournalFollows BY DEF Recorded
<1>3. /\ \A r \in Runs : Agent!InterruptAll(rows)[r] = Agent!Interrupted(rows[r])
      /\ Agent!InterruptAll(rows) \in Tables
  <2>1. \A r \in Runs : Agent!Interrupted(rows[r]) \in Row
    <3>1. \E e : e \in Entries BY DEF Entries
    <3> QED BY <1>2, <3>1, RowsAreWritten DEF RunTypes, Tables
  <2> QED BY <2>1 DEF Agent!InterruptAll, Tables
<1>4. queue = <<>> /\ batch = <<>> /\ NoTask BY <1>1, <1>2 DEF JournalCloses, Running
<1>5. ~Agent!Stops(queue) /\ ~Agent!Stops(batch) BY <1>4, EmptySeq DEF Agent!Stops
<1>6. RunTypes' BY <1>1, <1>2, <1>3 DEF RunTypes
<1>7. Running'
  <2>1. \A r \in Runs : task[r] = "none" /\ cancels[r] = 0 BY <1>4 DEF NoTask
  <2>2. \A r \in Runs : ~(cancels[r] > 0) BY <2>1
  <2> QED BY <1>1, <2>1, <2>2 DEF Running
<1>8. EndsAreLogged'
  <2>1. "NONE" \notin Agent!Terminal BY DEF Agent!Terminal
  <2> QED BY <1>1, <1>2, <2>1 DEF EndsAreLogged
<1>9. ExecutedOnce' BY <1>1, <1>2 DEF ExecutedOnce
<1>10. JournalCloses' BY <1>1, <1>4, <1>5 DEF JournalCloses
<1>11. JournalFollows'
  <2>1. Agent!Interrupted(Agent!NoRow) = Agent!NoRow BY DEF Agent!Interrupted
  <2>2. \A r \in Runs : log'[r] = <<>> => rows'[r] = Agent!NoRow /\ r \notin Agent!Of(batch') \cup Agent!Of(queue')
    BY <1>1, <1>2, <1>3, <2>1 DEF JournalFollows
  <2>3. Agent!After(rows', batch' \o queue') = rows'
    <3>1. batch' \o queue' = <<>>
      <4>1. <<>> \o <<>> = <<>> BY EmptySeq, ConcatEmptySeq
      <4> QED BY <1>1, <1>4, <4>1
    <3> QED BY <3>1, AfterOne
  <2>4. \A row \in Row : Agent!Interrupted(row).status \in Agent!Terminal \cup {"NONE"}
    BY DEF Agent!Interrupted, Row, Agent!Terminal, Agent!NoRow
  <2>5. recording' => \A r \in Runs : rows'[r].status \in Agent!Terminal \cup {"NONE"}
    BY <1>1, <1>2, <1>3, <2>4 DEF RunTypes, Tables
  <2> QED BY <1>1, <2>2, <2>3, <2>5 DEF JournalFollows, Shows
<1> QED BY <1>6, <1>7, <1>8, <1>9, <1>10, <1>11 DEF Recorded

LEMMA AgentStart ==
  ASSUME Agent!Init
  PROVE  Recorded
<1> USE DEF Agent!Init
<1>1. queue \in Seq(Entries) /\ batch \in Seq(Entries) /\ Agent!Of(queue) = {} /\ Agent!Of(batch) = {}
      /\ ~Agent!Stops(queue) /\ ~Agent!Stops(batch) /\ Len(<<>>) = 0
  BY EmptySeq DEF Agent!Of, Agent!Stops
<1>2. <<>> \in Seq(Events) /\ <<>> \in Seq(Ops) /\ Agent!NoRow \in Row BY DEF Row, Agent!NoRow
<1>3. <<>> \in UNION {[D -> BOOLEAN] : D \in SUBSET Ops}
  <2>1. <<>> \in [{} -> BOOLEAN] /\ {} \in SUBSET Ops OBVIOUS
  <2> QED BY <2>1
<1>4. RunTypes BY <1>1, <1>2, <1>3 DEF RunTypes, Tables, Agent!None
<1>5. Running
  <2>1. \A r \in Runs : ~(cancels[r] > 0) OBVIOUS
  <2> QED BY <2>1 DEF Running, Agent!None
<1>6. ExecutedOnce BY <1>1 DEF ExecutedOnce
<1>7. EndsAreLogged BY DEF EndsAreLogged, Agent!Terminal
<1>8. JournalCloses BY <1>1 DEF JournalCloses
<1>9. JournalFollows
  <2>1. Agent!After(rows, batch \o queue) = rows
    <3>1. batch \o queue = <<>> BY EmptySeq, ConcatEmptySeq
    <3> QED BY <3>1, AfterOne
  <2>2. Agent!NoRow.status = "NONE" BY DEF Agent!NoRow
  <2> QED BY <1>1, <2>1, <2>2 DEF JournalFollows, Shows
<1> QED BY <1>4, <1>5, <1>6, <1>7, <1>8, <1>9 DEF Recorded

LEMMA AgentStutters ==
  ASSUME Recorded, UNCHANGED agentVars
  PROVE  Recorded'
<1> USE DEF agentVars
<1>1. RunTypes /\ Running /\ ExecutedOnce /\ EndsAreLogged /\ JournalCloses /\ JournalFollows BY DEF Recorded
<1>2. RunTypes' BY <1>1 DEF RunTypes
<1>3. Running' BY <1>1 DEF Running, NoTask
<1>4. ExecutedOnce' BY <1>1 DEF ExecutedOnce
<1>5. EndsAreLogged' BY <1>1 DEF EndsAreLogged
<1>6. JournalCloses' BY <1>1 DEF JournalCloses
<1>7. JournalFollows' BY <1>1 DEF JournalFollows
<1> QED BY <1>2, <1>3, <1>4, <1>5, <1>6, <1>7 DEF Recorded

LEMMA AgentStep ==
  ASSUME Recorded, Agent!Next
  PROVE  Recorded'
<1>1. ASSUME NEW r \in Runs,
             \/ Agent!Complete(r) \/ Agent!Fail(r) \/ Agent!Expired(r)
      PROVE  Recorded'
  <2>1. task[r] # "none" BY <1>1 DEF Agent!Complete, Agent!Fail, Agent!Expired
  <2>2. \/ Agent!End(r, "run.completed", "COMPLETED")
        \/ Agent!End(r, "run.failed", "FAILED")
    BY <1>1 DEF Agent!Complete, Agent!Fail, Agent!Expired
  <2>3. /\ "run.completed" \in Agent!EndEvents /\ "COMPLETED" \in States
        /\ "run.failed" \in Agent!EndEvents /\ "FAILED" \in States
    BY DEF Agent!EndEvents, States
  <2> QED BY <2>1, <2>2, <2>3, EndKeeps
<1>2. ASSUME NEW r \in Runs,
             \/ Agent!StartRun(r) \/ Agent!Progress(r) \/ Agent!Cancel(r) \/ Agent!CancelDone(r)
      PROVE  Recorded'
  BY <1>2, StartRunKeeps, ProgressKeeps, CancelKeeps, CancelDoneKeeps
<1>3. ASSUME NEW r \in Runs,
             \/ Agent!Expire(r) \/ Agent!PassTenMinutes(r) \/ Agent!Unwind(r) \/ Agent!Read(r)
             \/ \E n \in {0, read[r]} : Agent!Reconnect(r, n)
      PROVE  Recorded'
  BY <1>3, TaskStepsKeep, ReadersKeep
<1>4. ASSUME NEW r \in Runs, NEW op \in Ops, Agent!Execute(r, op) \/ Agent!Interrupt(r, op)
      PROVE  Recorded'
  BY <1>4, ExecuteKeeps, InterruptKeeps
<1>5. ASSUME NEW r \in Runs, NEW approve \in BOOLEAN, Agent!Decide(r, approve)
      PROVE  Recorded'
  BY <1>5, DecideKeeps
<1>6. ASSUME Agent!WriterTake \/ Agent!WriterDone \/ Agent!Shutdown \/ Agent!Crash \/ Agent!Restart
      PROVE  Recorded'
  BY <1>6, WriterTakeKeeps, WriterDoneKeeps, ShutdownKeeps, CrashKeeps, RestartKeeps
<1> QED BY <1>1, <1>2, <1>3, <1>4, <1>5, <1>6 DEF Agent!Next

LEMMA RecordedIsEnough ==
  ASSUME Recorded
  PROVE  ProtectedOnce /\ StreamsEndWithTheRun /\ HistoryAgrees
<1>1. RunTypes /\ ExecutedOnce /\ EndsAreLogged /\ JournalCloses /\ JournalFollows BY DEF Recorded
<1>2. Agent!ProtectedOnce
  <2>1. ASSUME NEW uses, \A i, j \in uses : i = j PROVE Cardinality(uses) <= 1
    <3>1. CASE uses = {} BY <3>1, FS_EmptySet
    <3>2. CASE uses # {}
      <4>1. PICK i \in uses : TRUE BY <3>2
      <4>2. uses = {i} BY <2>1, <4>1
      <4>3. Cardinality({i}) = 1 BY FS_Singleton
      <4>4. Cardinality(uses) = 1 BY <4>2, <4>3
      <4> QED BY <4>4
    <3> QED BY <3>1, <3>2
  <2>2. ASSUME NEW r \in Runs, NEW op \in Ops
        PROVE  /\ Cardinality({i \in 1..Len(executed[r]) : executed[r][i] = op}) <= 1
               /\ {i \in 1..Len(executed[r]) : executed[r][i] = op} # {} =>
                    op \in DOMAIN decisions[r] /\ decisions[r][op]
    <3> DEFINE uses == {i \in 1..Len(executed[r]) : executed[r][i] = op}
    <3>1. \A i, j \in uses : i = j BY <1>1 DEF ExecutedOnce
    <3>2. uses # {} => op \in DOMAIN decisions[r] /\ decisions[r][op] BY <1>1 DEF ExecutedOnce
    <3> HIDE DEF uses
    <3>3. Cardinality(uses) <= 1 BY <2>1, <3>1
    <3> QED BY <3>2, <3>3 DEF uses
  <2> SUFFICES ASSUME NEW r \in Runs, NEW op \in Ops
               PROVE  LET uses == {i \in 1..Len(executed[r]) : executed[r][i] = op}
                      IN  /\ Cardinality(uses) <= 1
                          /\ uses # {} => op \in DOMAIN decisions[r] /\ decisions[r][op]
    BY Zenon DEF Agent!ProtectedOnce, Agent!Cardinality, Cardinality
  <2> QED BY <2>2
<1>3. Agent!StreamsEndWithTheRun
  <2>1. ASSUME NEW r \in closed PROVE \E i \in 1..read[r] : log[r][i] \in Agent!EndEvents
    <3>1. r \in Runs /\ Len(log[r]) \in Nat /\ read[r] \in Nat BY <1>1, <2>1, LenProperties DEF RunTypes
    <3>2. PICK i \in 1..Len(log[r]) : i <= read[r] /\ log[r][i] \in Agent!EndEvents
      BY <1>1, <2>1, <3>1 DEF EndsAreLogged
    <3>3. i \in 1..read[r] BY <3>1, <3>2
    <3> QED BY <3>2, <3>3
  <2> QED BY <2>1 DEF Agent!StreamsEndWithTheRun
<1>4. Agent!HistoryAgrees
  <2>1. ASSUME NEW r \in Runs, server = "up", recording, r \notin lost \cup Agent!Of(queue \o batch)
        PROVE  Shows(rows[r], runStatus[r], Len(log[r]))
    <3> DEFINE es == batch \o queue
    <3>1. batch \in Seq(Entries) /\ queue \in Seq(Entries) /\ rows \in Tables BY <1>1 DEF RunTypes
    <3>2. es \in Seq(Entries) /\ r \notin Agent!Of(es) /\ ~Agent!Stops(es)
      <4>1. Agent!Of(queue \o batch) = Agent!Of(queue) \cup Agent!Of(batch) BY <3>1, Together
      <4>2. Agent!Of(es) = Agent!Of(batch) \cup Agent!Of(queue) BY <3>1, Together
      <4>3. es \in Seq(Entries) /\ ~Agent!Stops(es) BY <1>1, <2>1, <3>1, Together DEF JournalCloses
      <4> QED BY <2>1, <4>1, <4>2, <4>3
    <3>3. Shows(Agent!After(rows, es)[r], runStatus[r], Len(log[r])) BY <1>1, <2>1 DEF JournalFollows
    <3> HIDE DEF es
    <3>4. Agent!After(rows, es)[r] = rows[r] BY <3>1, <3>2, AfterIsQuiet
    <3> QED BY <3>3, <3>4
  <2> QED BY <2>1 DEF Agent!HistoryAgrees, Shows
<1> QED BY <1>2, <1>3, <1>4 DEF ProtectedOnce, StreamsEndWithTheRun, HistoryAgrees

\* A run that has ended is given no other end.
LEMMA EndStays ==
  ASSUME Recorded, Agent!Next, NEW r \in Runs, runStatus[r] \in Agent!Terminal
  PROVE  runStatus'[r] \in {runStatus[r], "NONE"}
<1>1. runStatus \in [Runs -> States \cup {"NONE"}] BY DEF Recorded, RunTypes
<1>2. runStatus[r] \in {"COMPLETED", "FAILED", "CANCELLED"} /\ task[r] = "none"
  BY <1>1, TasksRun DEF States, Agent!Terminal
<1>3. \A u \in Runs : \A s : runStatus' = [runStatus EXCEPT ![u] = s] /\ u # r => runStatus'[r] = runStatus[r]
  BY <1>1
<1>4. ASSUME NEW u \in Runs,
             \/ Agent!StartRun(u) \/ Agent!Progress(u) \/ Agent!Complete(u) \/ Agent!Fail(u)
             \/ Agent!Expired(u) \/ \E op \in Ops : Agent!Interrupt(u, op)
      PROVE  runStatus'[r] = runStatus[r]
  <2>1. u # r
    BY <1>2, <1>4 DEF Agent!StartRun, Agent!Progress, Agent!Complete, Agent!Fail, Agent!Expired, Agent!Interrupt
  <2>2. runStatus' = runStatus \/ \E s : runStatus' = [runStatus EXCEPT ![u] = s]
    BY <1>4 DEF Agent!StartRun, Agent!Progress, Agent!Complete, Agent!Fail, Agent!Expired, Agent!Interrupt,
                Agent!End, Agent!Report, Agent!Publish
  <2> QED BY <1>3, <2>1, <2>2
<1>5. ASSUME NEW u \in Runs, Agent!Cancel(u) \/ \E approve \in BOOLEAN : Agent!Decide(u, approve)
      PROVE  runStatus'[r] = runStatus[r]
  <2>1. u # r BY <1>2, <1>5 DEF Agent!Cancel, Agent!Live, Agent!Decide, Agent!Terminal
  <2>2. runStatus' = runStatus \/ \E s : runStatus' = [runStatus EXCEPT ![u] = s]
    BY <1>5 DEF Agent!Cancel, Agent!Decide, Agent!Report, Agent!Publish
  <2> QED BY <1>3, <2>1, <2>2
<1>6. ASSUME NEW u \in Runs, Agent!CancelDone(u)
      PROVE  runStatus'[r] = runStatus[r]
  <2>1. \/ runStatus' = runStatus
        \/ runStatus' = [runStatus EXCEPT ![u] = "CANCELLED"] /\ runStatus[u] \notin {"COMPLETED", "FAILED"}
    BY <1>6 DEF Agent!CancelDone, Agent!channelVars, Agent!Report
  <2>2. CASE u = r BY <1>1, <1>2, <2>1, <2>2
  <2> QED BY <1>3, <2>1, <2>2
<1>7. ASSUME NEW u \in Runs,
             \/ Agent!Expire(u) \/ Agent!PassTenMinutes(u) \/ Agent!Unwind(u) \/ Agent!Read(u)
             \/ (\E op \in Ops : Agent!Execute(u, op)) \/ \E n \in {0, read[u]} : Agent!Reconnect(u, n)
      PROVE  runStatus'[r] = runStatus[r]
  BY <1>7 DEF Agent!Expire, Agent!PassTenMinutes, Agent!Unwind, Agent!Read, Agent!Execute, Agent!Reconnect,
              Agent!channelVars
<1>8. ASSUME Agent!WriterTake \/ Agent!WriterDone \/ Agent!Shutdown \/ Agent!Crash
      PROVE  runStatus'[r] = runStatus[r]
  BY <1>8 DEF Agent!WriterTake, Agent!WriterDone, Agent!Shutdown, Agent!Crash, Agent!channelVars
<1>9. ASSUME Agent!Restart
      PROVE  runStatus'[r] = "NONE"
  BY <1>9 DEF Agent!Restart
<1> QED BY <1>4, <1>5, <1>6, <1>7, <1>8, <1>9 DEF Agent!Next

\* What is decided, executed, logged and recorded of the runs holds in every state.
LEMMA RecordedHolds == Agent!Init /\ [][Agent!Next]_Agent!vars => []Recorded
<1>1. Recorded /\ [Agent!Next]_Agent!vars => Recorded'
  <2>1. UNCHANGED Agent!vars => UNCHANGED agentVars
    BY DEF Agent!vars, Agent!channelVars, Agent!taskVars, Agent!readVars, Agent!journalVars, agentVars
  <2> QED BY <2>1, AgentStep, AgentStutters
<1> QED BY <1>1, AgentStart, PTL

\* A protected operation is executed at most once in a run, and only when the
\* operator approved it, for every number of runs and of operations and whatever is
\* cancelled, expired, repeated or decided again (decide_streaming_run,
\* _repeated_approval_response).
THEOREM OperationsExecuteOnce == Agent!Spec => []ProtectedOnce
BY RecordedHolds, RecordedIsEnough, PTL DEF Agent!Spec

\* A reader is told the stream is over only after the event that ended the run has
\* been returned to it, however many events the channel retains (events_after).
THEOREM ReadersSeeTheEnd == Agent!Spec => []StreamsEndWithTheRun
BY RecordedHolds, RecordedIsEnough, PTL DEF Agent!Spec

\* When nothing of a run is left to write and nothing was lost, its row is what the
\* channel has: however the writer's batches were cut, whichever of them failed, and
\* over every restart (_writer_loop, _apply_operations, _interrupt_active_runs).
THEOREM JournalAgrees == Agent!Spec => []HistoryAgrees
BY RecordedHolds, RecordedIsEnough, PTL DEF Agent!Spec

\* A run keeps the end it was given: a timeout, the cancellation's own report and a
\* second Stop never replace it (cancel_streaming_run).
THEOREM EndsAreKept == Agent!Spec => Agent!EndIsFinal
<1>1. Recorded /\ [Agent!Next]_Agent!vars =>
        [\A r \in Runs : runStatus[r] \in Agent!Terminal =>
           runStatus'[r] \in {runStatus[r], "NONE"}]_Agent!vars
  BY EndStays
<1> QED BY <1>1, RecordedHolds, PTL DEF Agent!Spec, Agent!EndIsFinal

---------------------------------------------------------------------------
(* The instances side by side.                                              *)

\* Every part is a behaviour of its own specification.
LEMMA PartsAreTheirOwn ==
  MCSpec => /\ Init /\ [][Next]_vars
            /\ Agent!Init /\ [][Agent!Next]_Agent!vars
            /\ Motion!Init /\ [][Motion!Next]_Motion!vars
<1>1. MCInit => Init /\ Agent!Init /\ Motion!Init BY DEF MCInit
<1>2. [MCNext]_mcVars => [Next]_vars BY DEF MCNext, OfGraph, OfAgent, OfMotion, mcVars
<1>3. [MCNext]_mcVars => [Agent!Next]_Agent!vars
  <2>1. UNCHANGED agentVars => UNCHANGED Agent!vars
    BY DEF Agent!vars, Agent!channelVars, Agent!taskVars, Agent!readVars, Agent!journalVars, agentVars
  <2> QED BY <2>1 DEF MCNext, OfGraph, OfAgent, OfMotion, mcVars
<1>4. [MCNext]_mcVars => [Motion!Next]_Motion!vars
  <2>1. UNCHANGED motionVars => UNCHANGED Motion!vars
    BY DEF Motion!vars, Motion!agent, Motion!transit, Motion!history, motionVars
  <2> QED BY <2>1 DEF MCNext, OfGraph, OfAgent, OfMotion, mcVars
<1> QED BY <1>1, <1>2, <1>3, <1>4, PTL DEF MCSpec

\* Work that moves the arm is accounted for in every instance: what a graph, a run or
\* a call did is done once, under the decision it was given, and is reported as it was.
THEOREM WorkIsAccounted ==
  MCSpec => [](/\ PhysicalOnce /\ MotionIsAccounted
               /\ ApprovalIsSpentOnce /\ ReportsAreTruthful
               /\ ProtectedOnce /\ StreamsEndWithTheRun /\ HistoryAgrees)
BY PartsAreTheirOwn, InvariantHolds, InvariantIsEnough, ApprovedHolds, ApprovedIsEnough,
   RecordedHolds, RecordedIsEnough, PTL
=============================================================================
