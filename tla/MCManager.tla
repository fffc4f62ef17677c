------------------------------ MODULE MCManager ------------------------------
(***************************************************************************)
(* Instances of what serves requests in the Manager and the Fabric, side   *)
(* by side: a behaviour is one of its "part", the others stand still.      *)
(*   "life"     ProviderLifecycle;                                         *)
(*   "order"    DependencyOrder, every graph of a few Providers;           *)
(*   "bracket"  BracketWait, publications against a waiting query.         *)
(* Each keeps the fairness of its own specification.                       *)
(***************************************************************************)
EXTENDS ProviderLifecycle

CONSTANTS
  Configured, Unknown, MaxDependencies,
  Authorities, Times, Limits, TransformHistoryPerEdge, Publishers, Queries, MaxAccepted

ASSUME IdsAreApart == Configured \cap Unknown = {}
ASSUME RequestsAreHandled == Queries \subseteq Handlers
ASSUME QueryBounds ==
  /\ Times \subseteq Nat /\ Limits \subseteq Nat
  /\ {MaxAccepted, MaxDependencies} \subseteq Nat /\ TransformHistoryPerEdge \in Nat \ {0}

VARIABLES
  part,
  configs, target, path, left, order, error,
  edge, accepted, post, query

orderVars == <<configs, target, path, left, order, error>>
bracketVars == <<edge, accepted, post, query>>
mcVars == <<part, vars, orderVars, bracketVars>>

Order == INSTANCE DependencyOrder
Bracket == INSTANCE BracketWait

\* A part that stands still has one initial state.
LifeInit == Init /\ (part # "life" => hardships = {})
OrderInit ==
  IF part = "order" THEN Order!Init
  ELSE /\ configs = <<>> /\ target = None
       /\ path = <<>> /\ left = <<>> /\ order = <<>> /\ error = TRUE

MCInit ==
  /\ part \in {"life", "order", "bracket"}
  /\ LifeInit /\ OrderInit /\ Bracket!Init

Life(A) == part = "life" /\ A /\ UNCHANGED <<part, orderVars, bracketVars>>
Ordering(A) == part = "order" /\ A /\ UNCHANGED <<part, vars, bracketVars>>
Bracketing(A) == part = "bracket" /\ A /\ UNCHANGED <<part, vars, orderVars>>

MCNext ==
  \/ Life(Next)
  \/ Ordering(Order!Next)
  \/ Bracketing(Bracket!Next)

\* A behaviour has one part, so that one condition can state the fairness of an
\* action of each part; what the conditions say is FairSpec of each module.
MCSpec ==
  /\ MCInit /\ [][MCNext]_mcVars
  /\ WF_mcVars(Life(Age) \/ Ordering(Order!Next))
  /\ WF_mcVars(Life(ExpireReport))
  /\ \A h \in Handlers :
       /\ WF_mcVars(Life(Serve(h)) \/ (h \in Queries /\ Bracketing(Bracket!Serve(h))))
       /\ WF_mcVars(\/ Life(DeadlinePasses(h))
                    \/ h \in Queries /\ Bracketing(Bracket!DeadlinePasses(h)))
  /\ \A q \in Publishers : WF_mcVars(Bracketing(Bracket!NotifyWaiters(q)))

---------------------------------------------------------------------------
\* DependencyOrder: an error exactly for the targets that cannot be resolved, and
\* otherwise each reachable Provider once, after all that it depends on.
OrderIsResolved ==
  part = "order" => Order!RejectsExactlyUnresolvable /\ Order!OrderIsTopological

\* BracketWait!BracketIsServed: with time to spare, a query whose bracket has
\* been published is answered.
BracketIsServed == Bracket!BracketIsServed

\* Requests are answered: to start, stop or use a Provider that hangs, to bring
\* up what depends on others, and to look up a pose in a limited time.
Busy(h) ==
  \/ handler[h].at # "idle"
  \/ part = "order" /\ ~Order!Returned
  \/ h \in Queries /\ query[h].pc # "idle" /\ ~query[h].patient
RequestsAreAnswered == \A h \in Handlers : Busy(h) ~> ~Busy(h)
=============================================================================
