---------------------- MODULE ControlAuthorityProofs ----------------------
(***************************************************************************)
(* What ControlAuthority guarantees for every set of scopes, leases and    *)
(* handlers: its types, the exclusion of overlapping scopes, the fencing   *)
(* generations, and that an ended lease never changes again.               *)
(***************************************************************************)
EXTENDS ControlAuthority, TLAPS

\* It does not matter which of two scopes is asked about the other.
LEMMA OverlapSymmetric ==
  ASSUME NEW a, NEW b
  PROVE  ScopesOverlap(a, b) <=> ScopesOverlap(b, a)
  BY DEF ScopesOverlap

\* A scope competes with itself.
LEMMA OverlapReflexive ==
  ASSUME NEW r \in Resources
  PROVE  ScopesOverlap(r, r)
  BY ScopesArePaths DEF ScopesOverlap, IsPrefix

\* A sweep changes nothing but the state of the leases it ends.
LEMMA SweptFacts ==
  ASSUME TypeOK, NEW at \in Nat
  PROVE  /\ DOMAIN Swept(leases, at) = Issued
         /\ Swept(leases, at) \in [Issued -> Lease]
         /\ \A id \in Issued :
              /\ Swept(leases, at)[id].resource = leases[id].resource
              /\ Swept(leases, at)[id].generation = leases[id].generation
              /\ leases[id].state # "ACTIVE" => Swept(leases, at)[id] = leases[id]
         /\ Active(Swept(leases, at)) \subseteq Active(leases)
  BY DEF TypeOK, Swept, Lapsed, Active, Issued, Lease, LeaseStates

---------------------------------------------------------------------------
\* A step on the lease table is one of three: it ends or prolongs leases, it
\* issues one, or it does nothing.  The invariants depend on no more than that.

\* No lease is issued: scopes and generations stand, ended leases stay ended.
Retires(table) ==
  /\ table \in [Issued -> Lease]
  /\ \A id \in Issued :
       /\ table[id].resource = leases[id].resource
       /\ table[id].generation = leases[id].generation
       /\ leases[id].state # "ACTIVE" => table[id] = leases[id]

\* Lease id is issued for scope r, and no active lease overlaps it any more.
Issues(table, id, r) ==
  /\ id \in LeaseIds \ Issued
  /\ r \in Resources
  /\ table \in [Issued \cup {id} -> Lease]
  /\ table[id].resource = r
  /\ table[id].generation = NextGeneration(r)
  /\ table[id].state = "ACTIVE"
  /\ \A i \in Issued :
       /\ table[i].resource = leases[i].resource
       /\ table[i].generation = leases[i].generation
       /\ leases[i].state # "ACTIVE" => table[i] = leases[i]
       /\ table[i].state = "ACTIVE" => ~ScopesOverlap(table[i].resource, r)

LEMMA SweepRetires ==
  ASSUME TypeOK, NEW at \in Nat
  PROVE  Retires(Swept(leases, at))
  BY SweptFacts DEF Retires

LEMMA GrantIssues ==
  ASSUME TypeOK, NEW c \in AcquireCall, NEW id \in LeaseIds, id \notin Issued
  PROVE  Issues(Granted(Swept(leases, c.at), id, c), id, c.resource)
<1> DEFINE swept == Swept(leases, c.at)
           table == Granted(swept, id, c)
<1>1. c.at \in Nat /\ c.resource \in Resources /\ c.owner \in Owners /\ c.duration \in Nat
  BY DurationsPositive DEF AcquireCall
<1>2. /\ DOMAIN swept = Issued
      /\ swept \in [Issued -> Lease]
      /\ \A i \in Issued :
           /\ swept[i].resource = leases[i].resource
           /\ swept[i].generation = leases[i].generation
           /\ leases[i].state # "ACTIVE" => swept[i] = leases[i]
      /\ Active(swept) \subseteq Active(leases)
  BY <1>1, SweptFacts
<1> HIDE DEF swept
<1>3. NextGeneration(c.resource) \in Nat
  BY <1>1 DEF NextGeneration, TypeOK
<1>4. table[id] = [resource |-> c.resource, owner |-> c.owner, expires |-> c.at + c.duration,
                   generation |-> NextGeneration(c.resource), state |-> "ACTIVE"]
  BY <1>2 DEF Granted
<1>5. table[id] \in Lease
  BY <1>1, <1>3, <1>4 DEF Lease, LeaseStates
<1>6. ASSUME NEW i \in Issued
      PROVE  /\ table[i] = IF i \in Rivals(swept, c.resource)
                           THEN [swept[i] EXCEPT !.state = "PREEMPTED"] ELSE swept[i]
  BY <1>2, <1>6 DEF Granted
<1>7. ASSUME NEW i \in Issued
      PROVE  /\ table[i] \in Lease
             /\ table[i].resource = leases[i].resource
             /\ table[i].generation = leases[i].generation
             /\ leases[i].state # "ACTIVE" => table[i] = leases[i]
             /\ table[i].state = "ACTIVE" => ~ScopesOverlap(table[i].resource, c.resource)
  <2>1. CASE i \in Rivals(swept, c.resource)
    <3>1. leases[i].state = "ACTIVE"
      BY <1>2, <2>1 DEF Rivals, Active
    <3> QED BY <1>2, <1>6, <2>1, <3>1 DEF Lease, LeaseStates
  <2>2. CASE i \notin Rivals(swept, c.resource)
    BY <1>2, <1>6, <2>2 DEF Rivals, Active
  <2> QED BY <2>1, <2>2
<1>8. table \in [Issued \cup {id} -> Lease]
  BY <1>2, <1>5, <1>7 DEF Granted
<1> QED BY <1>1, <1>4, <1>7, <1>8 DEF Issues, swept

---------------------------------------------------------------------------
\* Types.

LEMMA InitTypeOK == Init => TypeOK
<1> SUFFICES ASSUME Init PROVE TypeOK
  OBVIOUS
<1>1. Issued = {} /\ leases \in [Issued -> Lease]
  BY DEF Init, Issued
<1>2. /\ clock \in Nat /\ fenced \in BOOLEAN /\ generations \in [Resources -> Nat]
      /\ pc \in [Handlers -> {"idle", "acquire", "renew"}]
      /\ call \in [Handlers -> AcquireCall \cup RenewCall \cup {None}]
      /\ \A h \in Handlers : pc[h] = "idle"
  BY DEF Init
<1> QED BY <1>1, <1>2 DEF TypeOK

LEMMA AdmitTypeOK ==
  ASSUME TypeOK, NEW h \in Handlers, Request(h)
  PROVE  TypeOK' /\ Retires(leases') /\ UNCHANGED generations
<1>1. ASSUME NEW r \in Resources, NEW o \in Owners, NEW p \in BOOLEAN, NEW d \in Durations,
             AdmitAcquire(h, r, o, p, d)
      PROVE  TypeOK' /\ Retires(leases') /\ UNCHANGED generations
  <2>1. [resource |-> r, owner |-> o, preempt |-> p, duration |-> d, at |-> clock] \in AcquireCall
    BY DEF AcquireCall, TypeOK
  <2> QED BY <1>1, <2>1 DEF AdmitAcquire, Admit, TypeOK, Issued, Retires
<1>2. ASSUME NEW id \in LeaseIds, NEW o \in Owners, NEW d \in Durations, AdmitRenew(h, id, o, d)
      PROVE  TypeOK' /\ Retires(leases') /\ UNCHANGED generations
  <2>1. [lease |-> id, owner |-> o, duration |-> d, at |-> clock] \in RenewCall
    BY DEF RenewCall, TypeOK
  <2> QED BY <1>2, <2>1 DEF AdmitRenew, Admit, TypeOK, Issued, Retires
<1>3. ASSUME NEW id \in LeaseIds, NEW o \in Owners, Release(h, id, o)
      PROVE  TypeOK' /\ Retires(leases') /\ UNCHANGED generations
  <2>1. Retires(leases')
    BY <1>3 DEF Release, TypeOK, Issued, Lease, LeaseStates, Retires
  <2>2. Issued' = Issued
    BY <2>1 DEF Retires, Issued
  <2> QED BY <1>3, <2>1, <2>2 DEF Release, TypeOK, Retires
<1> QED BY <1>1, <1>2, <1>3 DEF Request

\* A handler that leaves the mutex with a well-typed table keeps the types.
LEMMA FinishTypeOK ==
  ASSUME TypeOK, NEW h \in Handlers, NEW table, Finish(h, table),
         DOMAIN table \subseteq LeaseIds, table \in [DOMAIN table -> Lease],
         generations' \in [Resources -> Nat]
  PROVE  TypeOK'
  BY DEF Finish, TypeOK, Issued

LEMMA RenewStepRetires ==
  ASSUME TypeOK, NEW h \in Handlers, RenewStep(h)
  PROVE  TypeOK' /\ Retires(leases') /\ UNCHANGED generations
<1> DEFINE c == call[h]
           swept == Swept(leases, c.at)
<1>1. c \in RenewCall /\ c.at \in Nat /\ c.duration \in Nat
  BY DurationsPositive DEF RenewStep, RefuseRenew, Renew, TypeOK, RenewCall
<1>2. Retires(swept) /\ DOMAIN swept = Issued /\ Active(swept) \subseteq Active(leases)
  BY <1>1, SweepRetires, SweptFacts
<1>3. CASE RefuseRenew(h)
  BY <1>2, <1>3, FinishTypeOK DEF RefuseRenew, Finish, Retires, TypeOK
<1>4. CASE Renew(h)
  <2> DEFINE table == [swept EXCEPT ![c.lease].expires = c.at + c.duration]
  <2>1. c.lease \in Issued /\ leases[c.lease].state = "ACTIVE"
    BY <1>2, <1>4 DEF Renew, Renewable, Active, Issued
  <2>2. Retires(table)
    BY <1>1, <1>2, <2>1 DEF Retires, Lease
  <2> QED BY <1>4, <2>2, FinishTypeOK DEF Renew, Finish, Retires, TypeOK
<1> QED BY <1>3, <1>4 DEF RenewStep

LEMMA AcquireStepSplits ==
  ASSUME TypeOK, NEW h \in Handlers, AcquireStep(h)
  PROVE  /\ TypeOK'
         /\ \/ Retires(leases') /\ UNCHANGED generations
            \/ \E id \in LeaseIds, r \in Resources :
                 Issues(leases', id, r) /\ generations' = Bumped(r)
<1> DEFINE c == call[h]
           swept == Swept(leases, c.at)
<1>1. c \in AcquireCall /\ c.at \in Nat /\ c.resource \in Resources
  BY DEF AcquireStep, RefuseAcquire, GrantAcquire, TypeOK, AcquireCall
<1>2. CASE RefuseAcquire(h)
  <2>1. Retires(swept) /\ DOMAIN swept = Issued
    BY <1>1, SweepRetires, SweptFacts
  <2> QED BY <1>2, <2>1, FinishTypeOK DEF RefuseAcquire, Finish, Retires, TypeOK
<1>3. ASSUME NEW id \in LeaseIds, GrantAcquire(h, id)
      PROVE  /\ TypeOK'
             /\ Issues(leases', id, c.resource) /\ generations' = Bumped(c.resource)
  <2> DEFINE table == Granted(swept, id, c)
  <2>1. Issues(table, id, c.resource)
    BY <1>1, <1>3, GrantIssues DEF GrantAcquire
  <2>2. generations' \in [Resources -> Nat]
    BY <1>1, <1>3 DEF GrantAcquire, Bumped, NextGeneration, TypeOK
  <2>3. DOMAIN table \subseteq LeaseIds /\ table \in [DOMAIN table -> Lease]
    BY <2>1 DEF Issues, TypeOK
  <2>4. Finish(h, table)
    BY <1>3 DEF GrantAcquire
  <2> QED BY <1>3, <2>1, <2>2, <2>3, <2>4, FinishTypeOK DEF GrantAcquire, Finish
<1> QED BY <1>1, <1>2, <1>3 DEF AcquireStep

---------------------------------------------------------------------------
\* The inductive invariant, and its preservation by the three kinds of step.

\* No generation of a resource lies above its counter, so that the next one is
\* new: the fact CurrentGeneration needs to be inductive.
CounterCoversLeases ==
  \A id \in Issued : leases[id].generation <= generations[leases[id].resource]

AuthorityInv == TypeOK /\ ExclusiveScopes /\ CurrentGeneration /\ CounterCoversLeases

LEMMA RetiringPreserves ==
  ASSUME AuthorityInv, Retires(leases'), UNCHANGED generations
  PROVE  (ExclusiveScopes /\ CurrentGeneration /\ CounterCoversLeases)'
<1>1. Issued' = Issued /\ leases' \in [Issued -> Lease]
  BY DEF Retires, Issued
<1>2. /\ \A id \in Issued : /\ leases'[id].resource = leases[id].resource
                            /\ leases'[id].generation = leases[id].generation
      /\ Active(leases') \subseteq Active(leases)
  BY <1>1 DEF Retires, Active, Issued
<1>3. Active(leases) \subseteq Issued
  BY DEF Active, Issued
<1>4. ExclusiveScopes'
  BY <1>2, <1>3 DEF ExclusiveScopes, AuthorityInv
<1>5. CurrentGeneration'
  BY <1>1, <1>2, <1>3 DEF CurrentGeneration, AuthorityInv
<1>6. CounterCoversLeases'
  BY <1>1, <1>2 DEF CounterCoversLeases, AuthorityInv
<1> QED BY <1>4, <1>5, <1>6

LEMMA IssuingPreserves ==
  ASSUME AuthorityInv, NEW id \in LeaseIds, NEW r \in Resources,
         Issues(leases', id, r), generations' = Bumped(r)
  PROVE  (ExclusiveScopes /\ CurrentGeneration /\ CounterCoversLeases)'
<1>1. /\ Issued' = Issued \cup {id} /\ id \notin Issued
      /\ leases'[id].resource = r /\ leases'[id].generation = generations[r] + 1
  BY DEF Issues, Issued, NextGeneration
<1>2. \A i \in Issued : /\ leases'[i].resource = leases[i].resource
                        /\ leases'[i].generation = leases[i].generation
                        /\ leases'[i].state = "ACTIVE" =>
                             leases[i].state = "ACTIVE" /\ ~ScopesOverlap(leases[i].resource, r)
  BY DEF Issues
<1>3. /\ generations \in [Resources -> Nat]
      /\ generations' = [generations EXCEPT ![r] = generations[r] + 1]
      /\ \A i \in Issued : leases[i].resource \in Resources /\ leases[i].generation \in Nat
  BY DEF AuthorityInv, TypeOK, Bumped, NextGeneration, Lease
<1>4. \A i \in Active(leases') :
        i = id \/ (/\ i \in Active(leases) /\ i \in Issued
                  /\ ~ScopesOverlap(leases[i].resource, r) /\ leases[i].resource # r)
  BY <1>1, <1>2, OverlapReflexive DEF Active, Issued
<1>5. ExclusiveScopes'
  <2> SUFFICES ASSUME NEW i \in Active(leases'), NEW j \in Active(leases'), i # j
               PROVE  ~ScopesOverlap(leases'[i].resource, leases'[j].resource)
    BY DEF ExclusiveScopes
  <2> QED BY <1>1, <1>2, <1>4, OverlapSymmetric DEF ExclusiveScopes, AuthorityInv
<1>6. CurrentGeneration'
  <2>1. ASSUME NEW i \in Active(leases')
        PROVE  leases'[i].generation = generations'[leases'[i].resource]
    BY <1>1, <1>2, <1>3, <1>4 DEF CurrentGeneration, AuthorityInv
  <2>2. ASSUME NEW i \in Issued', NEW j \in Issued', i # j,
               leases'[i].resource = leases'[j].resource
        PROVE  leases'[i].generation # leases'[j].generation
    BY <1>1, <1>2, <1>3, <2>2 DEF CurrentGeneration, CounterCoversLeases, AuthorityInv
  <2> QED BY <2>1, <2>2 DEF CurrentGeneration
<1>7. CounterCoversLeases'
  BY <1>1, <1>2, <1>3 DEF CounterCoversLeases, AuthorityInv
<1> QED BY <1>5, <1>6, <1>7

\* Every step of the specification is of one of the three kinds.
LEMMA StepKinds ==
  ASSUME TypeOK, [Next]_authorityVars
  PROVE  /\ TypeOK'
         /\ \/ Retires(leases') /\ UNCHANGED generations
            \/ \E id \in LeaseIds, r \in Resources :
                 Issues(leases', id, r) /\ generations' = Bumped(r)
<1>1. CASE Tick
  BY <1>1 DEF Tick, TypeOK, Issued, Retires
<1>2. CASE RaiseFence
  BY <1>2 DEF RaiseFence, TypeOK, Issued, Retires
<1>3. CASE Sweep
  <2>1. Retires(leases')
    BY <1>3, SweepRetires DEF Sweep, TypeOK
  <2>2. Issued' = Issued
    BY <2>1 DEF Retires, Issued
  <2> QED BY <1>3, <2>1, <2>2 DEF Sweep, TypeOK, Retires
<1>4. CASE \E h \in Handlers : Request(h)
  BY <1>4, AdmitTypeOK
<1>5. CASE \E h \in Handlers : AcquireStep(h)
  BY <1>5, AcquireStepSplits
<1>6. CASE \E h \in Handlers : RenewStep(h)
  BY <1>6, RenewStepRetires
<1>7. CASE UNCHANGED authorityVars
  BY <1>7 DEF authorityVars, TypeOK, Issued, Retires
<1> QED BY <1>1, <1>2, <1>3, <1>4, <1>5, <1>6, <1>7 DEF Next

LEMMA AuthorityInductive == AuthorityInv /\ [Next]_authorityVars => AuthorityInv'
<1> SUFFICES ASSUME AuthorityInv, [Next]_authorityVars PROVE AuthorityInv'
  OBVIOUS
<1> QED BY StepKinds, RetiringPreserves, IssuingPreserves DEF AuthorityInv

LEMMA AuthorityInitially == Init => AuthorityInv
<1> SUFFICES ASSUME Init PROVE AuthorityInv
  OBVIOUS
<1>1. Issued = {} /\ Active(leases) = {}
  BY DEF Init, Issued, Active
<1> QED BY <1>1, InitTypeOK
        DEF AuthorityInv, ExclusiveScopes, CurrentGeneration, CounterCoversLeases

LEMMA AuthorityInvariant == Spec => []AuthorityInv
  BY AuthorityInitially, AuthorityInductive, PTL DEF Spec

---------------------------------------------------------------------------
\* Every reachable state is well typed: in particular a handler that waits for
\* the lease mutex holds the request it is to carry out.
THEOREM TypeCorrectness == Spec => []TypeOK
  BY AuthorityInvariant, PTL DEF AuthorityInv

\* Two active leases never overlap: the promise of the acquisition endpoint,
\* for every interleaving of handlers working with stale clocks.
THEOREM ScopeExclusion == Spec => []ExclusiveScopes
  BY AuthorityInvariant, PTL DEF AuthorityInv

\* An active lease holds the current generation of its resource, and no
\* generation of a resource is issued twice.
THEOREM FencingByGeneration == Spec => []CurrentGeneration
  BY AuthorityInvariant, PTL DEF AuthorityInv

\* No late renewal, release, sweep or preemption changes an ended lease.
THEOREM EndedIsFinal == Spec => EndedLeasesStayEnded
<1>1. ASSUME AuthorityInv, [Next]_authorityVars
      PROVE  [\A id \in Issued : leases[id].state # "ACTIVE" =>
                id \in Issued' /\ leases'[id] = leases[id]]_authorityVars
  <2>1. CASE Retires(leases')
    BY <2>1 DEF Retires, Issued
  <2>2. CASE \E id \in LeaseIds, r \in Resources : Issues(leases', id, r)
    BY <2>2 DEF Issues, Issued
  <2> QED BY <1>1, <2>1, <2>2, StepKinds DEF AuthorityInv
<1> QED BY <1>1, AuthorityInvariant, PTL DEF Spec, EndedLeasesStayEnded

---------------------------------------------------------------------------
\* ControlAuthority implements ExclusiveGrants: an ended lease is never held
\* again, and a grant ends all it overlaps in one step.
THEOREM AuthorityRefinesGrants == Spec => ImplementsGrants
<1> DEFINE held == [id \in Active(leases) |-> leases[id].resource]
<1>1. Init => Grants!Init
  <2> SUFFICES ASSUME Init PROVE Grants!Init
    OBVIOUS
  <2>1. Issued = {} /\ Active(leases) = {}
    BY DEF Init, Issued, Active
  <2> QED BY <2>1 DEF Grants!Init
<1>2. ASSUME AuthorityInv, [Next]_authorityVars
      PROVE  [Grants!Next]_Grants!grantVars
  <2>1. CASE Retires(leases')
    <3>1. Issued' = Issued
      BY <2>1 DEF Retires, Issued
    <3>2. Active(leases') \in SUBSET DOMAIN held
      BY <2>1, <3>1 DEF Retires, Active, Issued
    <3>3. held' = [i \in Active(leases') |-> held[i]]
      BY <2>1, <3>2 DEF Retires, Active, Issued
    <3> QED BY <3>1, <3>2, <3>3 DEF Grants!Next, Grants!End
  <2>2. ASSUME NEW id \in LeaseIds, NEW r \in Resources, Issues(leases', id, r)
        PROVE  Grants!Grant(id, r)
    <3> DEFINE kept == {i \in Active(leases') : i # id}
    <3>1. Issued' = Issued \cup {id} /\ id \notin Issued
      BY <2>2 DEF Issues, Issued
    <3>2. kept \in SUBSET DOMAIN held
      BY <2>2, <3>1 DEF Issues, Active, Issued
    <3>3. \A i \in kept : /\ leases'[i].resource = leases[i].resource
                         /\ ~ScopesOverlap(held[i], r)
      BY <2>2, <3>1, <3>2 DEF Issues, Active, Issued
    <3>4. Active(leases') = kept \cup {id}
      BY <2>2 DEF Issues, Active
    <3> QED BY <2>2, <3>1, <3>2, <3>3, <3>4 DEF Grants!Grant, Issues
  <2> QED BY <1>2, <2>1, <2>2, StepKinds DEF AuthorityInv, Grants!Next
<1> QED BY <1>1, <1>2, AuthorityInvariant, PTL DEF Spec, Grants!Spec, ImplementsGrants
=============================================================================
