-------------------------- MODULE DependencyOrder --------------------------
(***************************************************************************)
(* provider_dependency_order: the order in which a HOT request brings up   *)
(* the Providers its target depends on, as the depth-first visit of the    *)
(* source computes it, for every configuration.  A step is a call of visit *)
(* that the loop over the dependencies makes, or the return of one.        *)
(***************************************************************************)
EXTENDS Naturals, Sequences, SequencesExt

CONSTANTS
  Configured,       \* ids with a ProviderConfig
  Unknown,          \* ids a dependency list may name by mistake
  MaxDependencies   \* bound: length of a dependency list

VARIABLES
  configs,  \* dependencies of each configured Provider
  target,   \* the Provider asked to be HOT
  path,     \* visiting: the calls that have not returned, the outermost first
  left,     \* what provider_dependency_order, and then each of these, has yet to visit
  order,    \* visited, in the order of the visits
  error     \* the visit has failed, which ends every call

vars == <<configs, target, path, left, order, error>>

Ids == Configured \cup Unknown
Lists == UNION {[1 .. n -> Ids] : n \in 0 .. MaxDependencies}

Init ==
  /\ configs \in [Configured -> Lists]
  /\ target \in Ids
  /\ path = <<>>
  /\ left = << <<target>> >>
  /\ order = <<>>
  /\ error = FALSE

Visited == Range(order)
Visiting == Range(path)

\* Some call has another id to visit.
Pending == ~error /\ Last(left) # <<>>
Id == Head(Last(left))
Rest == [left EXCEPT ![Len(left)] = Tail(@)]

\* Mutant: a cycle is taken for a dependency already brought up.
KnownOrBegun(id) == id \in Visited \cup Visiting

\* The visit of such an id returns at once.
Known(id) == id \in Visited

Skip ==
  /\ Pending /\ Known(Id)
  /\ left' = Rest
  /\ UNCHANGED <<path, order, error>>

\* An unknown Provider, or a cycle.
Reject ==
  /\ Pending /\ ~Known(Id)
  /\ Id \notin Configured \/ Id \in Visiting
  /\ error' = TRUE
  /\ UNCHANGED <<path, left, order>>

Enter ==
  /\ Pending /\ ~Known(Id)
  /\ Id \in Configured \ Visiting
  /\ path' = Append(path, Id)
  /\ left' = Append(Rest, configs[Id])
  /\ UNCHANGED <<order, error>>

\* All that the innermost call depends on has been visited.
Leave ==
  /\ ~error /\ path # <<>> /\ Last(left) = <<>>
  /\ order' = Append(order, Last(path))
  /\ path' = Front(path)
  /\ left' = Front(left)
  /\ UNCHANGED error

ProviderDependencyOrder ==
  (Skip \/ Reject \/ Enter \/ Leave) /\ UNCHANGED <<configs, target>>

Next == ProviderDependencyOrder

Spec == Init /\ [][Next]_vars

\* The visit is a computation: it goes on as long as it can.
FairSpec == Spec /\ WF_vars(Next)

---------------------------------------------------------------------------
\* The reference: what is reachable from an id is in every set that contains it
\* and is closed under dependencies.
Dependencies(id) == IF id \in Configured THEN Range(configs[id]) ELSE {}
Reachable(id) ==
  {n \in Ids : \A S \in SUBSET Ids :
     (id \in S /\ \A m \in S : Dependencies(m) \subseteq S) => n \in S}

Resolvable ==
  /\ Reachable(target) \subseteq Configured
  /\ \A n \in Reachable(target) : \A d \in Dependencies(n) : n \notin Reachable(d)

Found == ~error /\ left = << <<>> >>
Returned == error \/ Found

\* http_api.md: a HOT transition "rejects unknown IDs or dependency cycles", and
\* nothing else: an error is returned exactly for the unresolvable targets.
RejectsExactlyUnresolvable == Returned => (error <=> ~Resolvable)

\* It starts the dependencies "before the requested provider" and "deduplicates
\* shared dependencies": the order holds each reachable id once, after all that
\* it depends on, and the target last.
OrderIsTopological ==
  Found =>
    /\ IsInjective(order)
    /\ Range(order) = Reachable(target)
    /\ order[Len(order)] = target
    /\ \A i \in DOMAIN order :
         Dependencies(order[i]) \subseteq {order[j] : j \in 1 .. i - 1}
=============================================================================
