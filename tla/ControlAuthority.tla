------------------------- MODULE ControlAuthority -------------------------
(***************************************************************************)
(* The advisory control-authority leases of the Resource Provider Manager: *)
(* POST /v1/control-authority/leases, .../renew, .../release, the GET view *)
(* and the expiry sweep of heartbeat_expiry_loop, at the granularity of    *)
(* the tokio mutexes they take.  AuthorityPublication adds the publication *)
(* to the World State Fabric that follows each change.                     *)
(*                                                                         *)
(* One step of a handler lies between two awaits of the source.  A request *)
(* handler reads the shutdown fence and the clock before it waits for the  *)
(* lease mutex, so that both may be stale when it gets it.  Permissions,   *)
(* policies and reasons are left out: nothing here branches on them.       *)
(***************************************************************************)
EXTENDS Naturals, FiniteSets, SequencesExt

CONSTANTS
  Segments,    \* path segments
  Resources,   \* resource scopes: canonical paths, as sequences of segments
  Owners,      \* owner_id values
  LeaseIds,    \* uuids a run may issue (bound)
  Handlers,    \* concurrent HTTP requests
  Durations,   \* duration_ms values, in clock ticks
  MaxClock,    \* bound: the clock stops here
  None         \* no request in hand

ASSUME ScopesArePaths == Resources \subseteq Seq(Segments) \ {<<>>}
ASSUME DurationsPositive == Durations \subseteq Nat \ {0}
ASSUME ClockBound == MaxClock \in Nat

VARIABLES
  clock,        \* Utc::now()
  fenced,       \* shutdown_fence is Some
  leases,       \* control_authority_leases: uuid -> lease
  generations,  \* control_authority_generations
  pc, call      \* where each handler waits, and the request it serves

authorityVars == <<clock, fenced, leases, generations, pc, call>>

LeaseStates == {"ACTIVE", "PREEMPTED", "RELEASED", "EXPIRED"}
Lease == [resource : Resources, owner : Owners, expires : Nat,
          generation : Nat, state : LeaseStates]
AcquireCall == [resource : Resources, owner : Owners, preempt : BOOLEAN,
                duration : Durations, at : Nat]
RenewCall == [lease : LeaseIds, owner : Owners, duration : Durations, at : Nat]

Init ==
  /\ clock = 0
  /\ fenced = FALSE
  /\ leases = [id \in {} |-> None]
  /\ generations = [r \in Resources |-> 0]
  /\ pc = [h \in Handlers |-> "idle"]
  /\ call = [h \in Handlers |-> None]

---------------------------------------------------------------------------
\* resource_scopes_overlap: equal, or one is an ancestor path of the other.
ScopesOverlap(left, right) == IsPrefix(left, right) \/ IsPrefix(right, left)

Issued == DOMAIN leases
Active(ls) == {id \in DOMAIN ls : ls[id].state = "ACTIVE"}

\* Mutant: a lease outlives the instant of its expiry.
LapsedLate(ls, at) == {id \in Active(ls) : ls[id].expires < at}

\* expire_control_authority_locked: whom a sweep at time `at` ends.
Lapsed(ls, at) == {id \in Active(ls) : ls[id].expires <= at}
Swept(ls, at) ==
  [id \in DOMAIN ls |->
     IF id \in Lapsed(ls, at) THEN [ls[id] EXCEPT !.state = "EXPIRED"] ELSE ls[id]]

\* Mutant: only the very same scope competes.
RivalsSameScope(ls, r) == {id \in Active(ls) : ls[id].resource = r}

\* Mutant: an ancestor scope does not compete.
RivalsBelow(ls, r) == {id \in Active(ls) : IsPrefix(r, ls[id].resource)}

\* The active leases whose scope overlaps resource r.
Rivals(ls, r) == {id \in Active(ls) : ScopesOverlap(ls[id].resource, r)}

\* Handler h takes a request and waits for the lease mutex.
Admit(h, step, request) ==
  /\ pc[h] = "idle"
  /\ pc' = [pc EXCEPT ![h] = step]
  /\ call' = [call EXCEPT ![h] = request]
  /\ UNCHANGED <<clock, fenced, leases, generations>>

\* The handler h leaves the lease mutex with the table `table`.
Finish(h, table) ==
  /\ leases' = table
  /\ pc' = [pc EXCEPT ![h] = "idle"]
  /\ call' = [call EXCEPT ![h] = None]
  /\ UNCHANGED <<clock, fenced>>

---------------------------------------------------------------------------
Tick ==
  /\ clock < MaxClock
  /\ clock' = clock + 1
  /\ UNCHANGED <<fenced, leases, generations, pc, call>>

\* execute_shutdown_plan sets the fence; nothing clears it.
RaiseFence ==
  /\ ~fenced
  /\ fenced' = TRUE
  /\ UNCHANGED <<clock, leases, generations, pc, call>>

\* acquire_control_authority up to the lease mutex.  The bound LeaseIds leaves
\* an id for every acquisition under way.
AdmitAcquire(h, r, o, preempt, d) ==
  /\ ~fenced
  /\ Cardinality(LeaseIds \ Issued) > Cardinality({g \in Handlers : pc[g] = "acquire"})
  /\ Admit(h, "acquire", [resource |-> r, owner |-> o, preempt |-> preempt,
                          duration |-> d, at |-> clock])

\* 409 on an overlapping active lease; the sweep has happened.
RefuseAcquire(h) ==
  LET c == call[h]
      swept == Swept(leases, c.at)
  IN  /\ pc[h] = "acquire"
      /\ ~c.preempt
      /\ Rivals(swept, c.resource) # {}
      /\ Finish(h, swept)
      /\ UNCHANGED generations

\* Mutant: the counter saturates.
NextGenerationStuck(r) == IF generations[r] = 0 THEN 1 ELSE generations[r]

NextGeneration(r) == generations[r] + 1

Bumped(r) == [generations EXCEPT ![r] = NextGeneration(r)]

\* The lease table after call c is granted under id, its rivals preempted.
Granted(swept, id, c) ==
  [i \in DOMAIN swept \cup {id} |->
     IF i = id
     THEN [resource |-> c.resource, owner |-> c.owner,
           expires |-> c.at + c.duration,
           generation |-> NextGeneration(c.resource), state |-> "ACTIVE"]
     ELSE IF i \in Rivals(swept, c.resource)
     THEN [swept[i] EXCEPT !.state = "PREEMPTED"] ELSE swept[i]]

GrantAcquire(h, id) ==
  LET c == call[h]
      swept == Swept(leases, c.at)
  IN  /\ pc[h] = "acquire"
      /\ id \notin Issued
      /\ Rivals(swept, c.resource) = {} \/ c.preempt
      /\ Finish(h, Granted(swept, id, c))
      /\ generations' = Bumped(c.resource)

---------------------------------------------------------------------------
\* renew_control_authority up to the lease mutex; the fence is not consulted.
AdmitRenew(h, id, o, d) ==
  Admit(h, "renew", [lease |-> id, owner |-> o, duration |-> d, at |-> clock])

Renewable(ls, c) ==
  /\ c.lease \in Active(ls)
  /\ ls[c.lease].owner = c.owner

\* 404, 403 and 409: the sweep has happened all the same.
RefuseRenew(h) ==
  LET swept == Swept(leases, call[h].at)
  IN  /\ pc[h] = "renew"
      /\ ~Renewable(swept, call[h])
      /\ Finish(h, swept)
      /\ UNCHANGED generations

Renew(h) ==
  LET c == call[h]
      swept == Swept(leases, c.at)
  IN  /\ pc[h] = "renew"
      /\ Renewable(swept, c)
      /\ Finish(h, [swept EXCEPT ![c.lease].expires = c.at + c.duration])
      /\ UNCHANGED generations

\* Mutant: a release rewrites how an ended lease ended.
ReleaseAnyState(h, id, o) ==
  /\ pc[h] = "idle"
  /\ id \in Issued
  /\ leases[id].owner = o
  /\ leases' = [leases EXCEPT ![id].state = "RELEASED"]
  /\ UNCHANGED <<clock, fenced, generations, pc, call>>

\* release_control_authority: no sweep; an ended lease keeps its state.
Release(h, id, o) ==
  /\ pc[h] = "idle"
  /\ id \in Issued
  /\ leases[id].owner = o
  /\ leases' = IF leases[id].state = "ACTIVE"
               THEN [leases EXCEPT ![id].state = "RELEASED"] ELSE leases
  /\ UNCHANGED <<clock, fenced, generations, pc, call>>

\* A sweep at the present time: the GET view, and heartbeat_expiry_loop.
Sweep ==
  /\ Lapsed(leases, clock) # {}
  /\ leases' = Swept(leases, clock)
  /\ UNCHANGED <<clock, fenced, generations, pc, call>>

---------------------------------------------------------------------------
AcquireStep(h) == RefuseAcquire(h) \/ \E id \in LeaseIds : GrantAcquire(h, id)
RenewStep(h) == RefuseRenew(h) \/ Renew(h)

Request(h) ==
  \/ \E r \in Resources, o \in Owners, p \in BOOLEAN, d \in Durations :
       AdmitAcquire(h, r, o, p, d)
  \/ \E id \in LeaseIds, o \in Owners :
       \/ Release(h, id, o)
       \/ \E d \in Durations : AdmitRenew(h, id, o, d)

Next ==
  \/ Tick
  \/ RaiseFence
  \/ Sweep
  \/ \E h \in Handlers : Request(h) \/ AcquireStep(h) \/ RenewStep(h)

Spec == Init /\ [][Next]_authorityVars

\* Time passes, and an admitted handler and the expiry loop run on; requests
\* need not come.
FairSpec ==
  /\ Spec
  /\ WF_authorityVars(Tick)
  /\ WF_authorityVars(Sweep)
  /\ \A h \in Handlers :
       WF_authorityVars(AcquireStep(h)) /\ WF_authorityVars(RenewStep(h))

---------------------------------------------------------------------------
\* Every variable has its type, and a waiting handler holds its request.
TypeOK ==
  /\ clock \in Nat
  /\ fenced \in BOOLEAN
  /\ Issued \subseteq LeaseIds
  /\ leases \in [Issued -> Lease]
  /\ generations \in [Resources -> Nat]
  /\ pc \in [Handlers -> {"idle", "acquire", "renew"}]
  /\ call \in [Handlers -> AcquireCall \cup RenewCall \cup {None}]
  /\ \A h \in Handlers :
       /\ pc[h] = "acquire" => call[h] \in AcquireCall
       /\ pc[h] = "renew" => call[h] \in RenewCall

\* "Only one active advisory lease is retained for an overlapping resource
\* scope": two active leases never overlap, whatever stale times the handlers
\* that issued or renewed them worked with.
ExclusiveScopes ==
  \A i, j \in Active(leases) :
    i # j => ~ScopesOverlap(leases[i].resource, leases[j].resource)

\* An active lease carries the current fencing generation of its resource, and
\* no two leases of a resource ever share one.
CurrentGeneration ==
  /\ \A id \in Active(leases) : leases[id].generation = generations[leases[id].resource]
  /\ \A i, j \in Issued :
       (i # j /\ leases[i].resource = leases[j].resource)
         => leases[i].generation # leases[j].generation

\* A released, preempted or expired lease stays exactly as it ended: no late
\* renewal, release or sweep revives it or rewrites how it ended.
EndedLeasesStayEnded ==
  [][\A id \in Issued :
       leases[id].state # "ACTIVE" => id \in Issued' /\ leases'[id] = leases[id]]_authorityVars

\* The endpoints implement ExclusiveGrants: every step that issues a lease ends
\* what it conflicts with in that same step, and no other step ever adds to the
\* active leases.
Grants == INSTANCE ExclusiveGrants WITH
            Ids <- LeaseIds, Scopes <- Resources, Conflict <- ScopesOverlap,
            granted <- Issued,
            held <- [id \in Active(leases) |-> leases[id].resource]
ImplementsGrants == Grants!Spec

\* A lease nobody renews does not hold its scope for ever: by its expiry it has
\* ended, or it has been renewed past the horizon of the clock.
AbandonedScopesAreFreed ==
  \A id \in LeaseIds :
    (id \in Active(leases) /\ leases[id].expires <= MaxClock)
      ~> (id \notin Active(leases) \/ leases[id].expires > MaxClock)
=============================================================================
