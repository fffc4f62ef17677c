----------------------- MODULE BasicControllerProofs -----------------------
(***************************************************************************)
(* What the two locks of the Basic arm Provider guarantee for every set of *)
(* groups, handlers and deployments: who may own the arm at once, and that *)
(* no command survives its owner.                                          *)
(***************************************************************************)
EXTENDS BasicController, TLAPS

\* What is guarded by ingress_lock has its type.
AuthorityTypeOK ==
  /\ lease \in [Targets -> Lease \cup {None}]
  /\ pending \in [Targets -> 1 .. MaxGeneration \cup {None}]
  /\ generation \in 0 .. MaxGeneration
  /\ served \in Deployments

\* The inductive invariant.
Authority == AuthorityTypeOK /\ CommandsAreHeld /\ RootExcludesGroups /\ BlockedMeansIdle

---------------------------------------------------------------------------
\* A section under ingress_lock ends leases, or drops commands, or leaves both as
\* they are; or it issues a lease where no other stands in the way, or admits a
\* command of a lease in force.  A block is imposed only when every lease ends.

Ends ==
  \E ended, late \in SUBSET Targets :
    /\ lease' = [t \in Targets |-> IF t \in ended THEN None ELSE lease[t]]
    /\ pending' = [t \in Targets |-> IF t \in ended \cup late THEN None ELSE pending[t]]
    /\ block' \in {block, None} \/ ended = Targets
    /\ generation' \in {generation, Raised}
    /\ served' = served

\* Commands of these targets are dropped, their leases stay.
Drops(targets) ==
  /\ UNCHANGED <<lease, generation, block, served>>
  /\ pending' = [t \in Targets |-> IF t \in targets THEN None ELSE pending[t]]

\* Nothing is done to the leases; a block may be lifted.
Leaves ==
  /\ UNCHANGED <<lease, pending, generation, served>>
  /\ block' \in {block, None}

LEMMA EndsKeeps == ASSUME Authority, Ends PROVE Authority'
<1>1. PICK ended \in SUBSET Targets, late \in SUBSET Targets :
        /\ lease' = [t \in Targets |-> IF t \in ended THEN None ELSE lease[t]]
        /\ pending' = [t \in Targets |-> IF t \in ended \cup late THEN None ELSE pending[t]]
        /\ block' \in {block, None} \/ ended = Targets
        /\ generation' \in {generation, Raised}
        /\ served' = served
  BY DEF Ends
<1>2. \A t \in Targets :
        /\ lease'[t] = IF t \in ended THEN None ELSE lease[t]
        /\ pending'[t] = IF t \in ended \cup late THEN None ELSE pending[t]
  BY <1>1
<1>3. AuthorityTypeOK'
  BY <1>1, Bounds DEF Authority, AuthorityTypeOK, Raised
<1>4. CommandsAreHeld'
  BY <1>2 DEF Authority, CommandsAreHeld, Held
<1>5. RootExcludesGroups'
  BY <1>2 DEF Authority, RootExcludesGroups, Held, Targets
<1>6. BlockedMeansIdle'
  BY <1>1, <1>2 DEF Authority, BlockedMeansIdle, Held
<1> QED BY <1>3, <1>4, <1>5, <1>6 DEF Authority

LEMMA LeavesKeeps == ASSUME Authority, Leaves PROVE Authority'
<1>1. AuthorityTypeOK' BY DEF Authority, AuthorityTypeOK, Leaves
<1>2. CommandsAreHeld' BY DEF Authority, CommandsAreHeld, Leaves, Held
<1>3. RootExcludesGroups' BY DEF Authority, RootExcludesGroups, Leaves, Held
<1>4. BlockedMeansIdle' BY DEF Authority, BlockedMeansIdle, Leaves, Held
<1> QED BY <1>1, <1>2, <1>3, <1>4 DEF Authority

LEMMA DropsKeeps == ASSUME Authority, NEW targets, Drops(targets) PROVE Authority'
<1>1. \A t \in Targets : pending'[t] = IF t \in targets THEN None ELSE pending[t]
  BY DEF Drops
<1>2. AuthorityTypeOK' BY DEF Authority, AuthorityTypeOK, Drops
<1>3. CommandsAreHeld' BY <1>1 DEF Authority, CommandsAreHeld, Drops, Held
<1>4. RootExcludesGroups' BY DEF Authority, RootExcludesGroups, Drops, Held
<1>5. BlockedMeansIdle' BY <1>1 DEF Authority, BlockedMeansIdle, Drops, Held
<1> QED BY <1>2, <1>3, <1>4, <1>5 DEF Authority

LEMMA LapseKeeps == ASSUME Authority, NEW t \in Targets, Lapse(t) PROVE Authority'
<1>1. /\ lease[t] \in Lease /\ lease[t] # None
      /\ lease' = [lease EXCEPT ![t].lapsed = TRUE]
      /\ UNCHANGED <<pending, generation, block, served>>
  BY DEF Lapse, Authority, AuthorityTypeOK, Held
<1>2. lease'[t] = [lease[t] EXCEPT !.lapsed = TRUE]
  BY <1>1 DEF Authority, AuthorityTypeOK
<1>3. lease'[t] \in Lease /\ lease'[t].gen = lease[t].gen
  BY <1>1, <1>2 DEF Lease
<1>4. \A u \in Targets \ {t} : lease'[u] = lease[u]
  BY <1>1 DEF Authority, AuthorityTypeOK
<1>5. AuthorityTypeOK'
  BY <1>1, <1>2, <1>3 DEF Authority, AuthorityTypeOK
<1>6. Held' = Held
  BY <1>1, <1>3, <1>4, NoneIsNothing DEF Held
<1>7. CommandsAreHeld'
  BY <1>1, <1>3, <1>4, <1>6 DEF Authority, CommandsAreHeld
<1>8. RootExcludesGroups' /\ BlockedMeansIdle'
  BY <1>1, <1>6 DEF Authority, RootExcludesGroups, BlockedMeansIdle
<1> QED BY <1>5, <1>7, <1>8 DEF Authority

LEMMA DeliverKeeps == ASSUME Authority, NEW h \in Handlers, Deliver(h) PROVE Authority'
<1>1. CASE UNCHANGED pending
  BY <1>1, LeavesKeeps DEF Deliver, Ingress, Leaves
<1>2. CASE Matches(h) /\ pending' = [pending EXCEPT ![handler[h].target] = handler[h].gen]
  <2> DEFINE t == handler[h].target
  <2>1. t \in Held /\ lease[t].gen = handler[h].gen /\ t \in Targets
    BY <1>2 DEF Matches, Held
  <2>2. lease[t] \in Lease
    BY <2>1 DEF Authority, AuthorityTypeOK, Held
  <2>3. handler[h].gen \in 1 .. MaxGeneration
    BY <2>1, <2>2 DEF Lease
  <2>4. pending' = [pending EXCEPT ![t] = handler[h].gen]
    BY <1>2
  <2>5. UNCHANGED <<lease, generation, block, served>>
    BY DEF Deliver, Ingress
  <2>6. AuthorityTypeOK'
    BY <2>1, <2>3, <2>4, <2>5 DEF Authority, AuthorityTypeOK
  <2>7. Held' = Held
    BY <2>5 DEF Held
  <2>8. CommandsAreHeld'
    BY <2>1, <2>4, <2>5, <2>7 DEF Authority, AuthorityTypeOK, CommandsAreHeld
  <2>9. block = None
    BY <2>1 DEF Authority, BlockedMeansIdle
  <2>10. RootExcludesGroups'
    BY <2>7 DEF Authority, RootExcludesGroups
  <2>11. BlockedMeansIdle'
    BY <2>5, <2>9 DEF BlockedMeansIdle
  <2> QED BY <2>6, <2>8, <2>10, <2>11 DEF Authority
<1> QED BY <1>1, <1>2 DEF Deliver

LEMMA GrantKeeps == ASSUME Authority, NEW h \in Handlers, Grant(h) PROVE Authority'
<1> DEFINE t == handler[h].target
           ended == Related(t) \cap Lapsed
           new == [gen |-> generation + 1, lapsed |-> FALSE]
<1>1. /\ block = None /\ Related(t) \cap Held \subseteq Lapsed
      /\ generation < served.leases
      /\ lease' = [u \in Targets |-> IF u = t THEN new ELSE IF u \in ended THEN None ELSE lease[u]]
      /\ pending' = [u \in Targets |-> IF u \in ended THEN None ELSE pending[u]]
      /\ generation' = generation + 1
      /\ block' = block /\ served' = served
  BY DEF Grant, Ingress, Blocks
<1>2. generation + 1 \in 1 .. MaxGeneration
  BY <1>1, Bounds DEF Authority, AuthorityTypeOK, Deployment
<1>3. new \in Lease /\ new # None
  <2>1. new \in Lease
    BY <1>2 DEF Lease
  <2> HIDE DEF new
  <2> QED BY <2>1, NoneIsNothing
<1>4. AuthorityTypeOK'
  BY <1>1, <1>2, <1>3 DEF Authority, AuthorityTypeOK
<1>5. \A u \in Targets :
        /\ lease'[u] = IF u = t THEN new ELSE IF u \in ended THEN None ELSE lease[u]
        /\ pending'[u] = IF u \in ended THEN None ELSE pending[u]
  BY <1>1
<1>6. \A u \in Held : u \in Related(t) => u \in ended
  BY <1>1
<1>7. Held' \subseteq (Held \ ended) \cup {t}
  BY <1>5 DEF Held
<1>8. t \in Related(t) \/ t \notin Targets
  BY DEF Related, Targets
<1>9. CommandsAreHeld'
  <2> SUFFICES ASSUME NEW u \in Targets, pending'[u] # None
               PROVE  u \in Held' /\ lease'[u].gen = pending'[u]
    BY DEF CommandsAreHeld
  <2>1. u \notin ended /\ pending'[u] = pending[u]
    BY <1>5
  <2>2. u \in Held /\ lease[u].gen = pending[u]
    BY <2>1 DEF Authority, CommandsAreHeld
  <2>3. u # t
    BY <1>6, <1>8, <2>1, <2>2
  <2>4. lease'[u] = lease[u]
    BY <1>5, <2>1, <2>3
  <2> QED BY <2>1, <2>2, <2>4 DEF Held
<1>10. RootExcludesGroups'
  <2> SUFFICES ASSUME Root \in Held' PROVE Held' = {Root}
    BY DEF RootExcludesGroups
  <2>1. CASE t = Root
    <3>1. Held \subseteq ended
      BY <1>6, <2>1 DEF Related, Held
    <3> QED BY <1>7, <2>1, <3>1
  <2>2. CASE t # Root
    <3>1. Root \in Held \ ended
      BY <1>7, <2>2
    <3> QED BY <1>6, <2>2, <3>1 DEF Related
  <2> QED BY <2>1, <2>2
<1>11. BlockedMeansIdle'
  BY <1>1 DEF BlockedMeansIdle
<1> QED BY <1>4, <1>9, <1>10, <1>11 DEF Authority

---------------------------------------------------------------------------
LEMMA InitAuthority == Init => Authority
<1> SUFFICES ASSUME Init PROVE Authority
  OBVIOUS
<1>1. AuthorityTypeOK
  BY Bounds DEF Init, AuthorityTypeOK
<1>2. Held = {} /\ block = None
  BY DEF Init, Held
<1>3. CommandsAreHeld
  BY DEF Init, CommandsAreHeld
<1> QED BY <1>1, <1>2, <1>3 DEF Authority, RootExcludesGroups, BlockedMeansIdle, Root

\* What a request does to the leases, action by action.
LEMMA ServeKeeps == ASSUME Authority, NEW h \in Handlers, Serve(h) PROVE Authority'
<1> USE DEF Ingress, Hardware, authority
<1>1. CASE \/ Prepare(h) \/ Start(h) \/ Enable(h) \/ Ask(h) \/ Validate(h) \/ Fallback(h)
           \/ Disable(h) \/ Requalify(h) \/ Show(h)
  <2>1. UNCHANGED <<lease, pending, generation, block, served>>
    BY <1>1 DEF Prepare, Start, Enable, Ask, Validate, Fallback, Disable, Requalify, Show
  <2> QED BY <2>1, LeavesKeeps DEF Leaves
<1>2. CASE \/ Warm(h) \/ Home(h) \/ Begin(h) \/ ClaimBlocked(h) \/ Blocked(h) \/ Observe(h)
           \/ Handover(h) \/ Arrived(h) \/ Settle(h) \/ GiveUp(h) \/ HomingFails(h)
           \/ Degrade(h) \/ StopLoop(h) \/ Disconnect(h)
  <2>1. UNCHANGED <<lease, pending, generation, block, served>>
    BY <1>2 DEF Warm, Home, Begin, ClaimBlocked, Blocked, Observe, Handover, Arrived,
                Settle, GiveUp, HomingFails, Degrade, StopLoop, Disconnect
  <2> QED BY <2>1, LeavesKeeps DEF Leaves
<1>3. CASE Unblock(h) \/ Finish(h)
  <2>1. /\ UNCHANGED <<lease, pending, generation, served>>
        /\ block' \in {block, None}
    BY <1>3 DEF Unblock, Finish
  <2> QED BY <2>1, LeavesKeeps DEF Leaves
<1>4. CASE Grant(h)
  BY <1>4, GrantKeeps
<1>5. CASE Deliver(h)
  BY <1>5, DeliverKeeps
<1>6. CASE RefuseAcquire(h)
  <2>1. UNCHANGED <<generation, block, served>>
    BY <1>6 DEF RefuseAcquire
  <2>2. CASE UNCHANGED <<lease, pending>>
    BY <2>1, <2>2, LeavesKeeps DEF Leaves
  <2>3. CASE Clear(Groups \cap Lapsed)
    <3>1. Groups \cap Lapsed \in SUBSET Targets
      BY DEF Targets
    <3> QED BY <2>1, <2>3, <3>1, EndsKeeps, Zenon DEF Ends, Clear
  <2> QED BY <1>6, <2>2, <2>3 DEF RefuseAcquire
<1>7. CASE Present(h)
  <2>1. UNCHANGED <<generation, block, served>>
    BY <1>7 DEF Present
  <2>2. CASE UNCHANGED <<lease, pending>>
    BY <2>1, <2>2, LeavesKeeps DEF Leaves
  <2>3. CASE Clear({Root})
    <3>1. {Root} \in SUBSET Targets
      BY DEF Targets
    <3> QED BY <2>1, <2>3, <3>1, EndsKeeps, Zenon DEF Ends, Clear
  <2> QED BY <1>7, <2>2, <2>3 DEF Present
<1>8. CASE Release(h)
  <2> DEFINE t == handler[h].target
  <2>1. UNCHANGED <<block, served>>
    BY <1>8 DEF Release
  <2>2. CASE Matches(h)
    <3>1. {t} \in SUBSET Targets
      BY <2>2 DEF Matches, Held
    <3>2. Clear({t}) /\ generation' = Raised
      BY <1>8, <2>2 DEF Release
    <3> QED BY <2>1, <3>1, <3>2, EndsKeeps, Zenon DEF Ends, Clear
  <2>3. CASE ~Matches(h)
    <3>1. UNCHANGED <<lease, pending, generation>>
      BY <1>8, <2>3 DEF Release
    <3> QED BY <2>1, <3>1, LeavesKeeps DEF Leaves
  <2> QED BY <2>2, <2>3
<1>9. CASE GroupFloat(h)
  <2> DEFINE t == handler[h].target
  <2>1. UNCHANGED <<lease, generation, block, served>>
    BY <1>9 DEF GroupFloat
  <2>2. CASE t \in Held
    <3>1. pending' = [pending EXCEPT ![t] = None] /\ t \in Targets
      BY <1>9, <2>2 DEF GroupFloat, Held
    <3>2. Drops({t})
      BY <2>1, <3>1 DEF Drops, Authority, AuthorityTypeOK
    <3> QED BY <3>2, DropsKeeps
  <2>3. CASE t \notin Held
    <3>1. UNCHANGED pending
      BY <1>9, <2>3 DEF GroupFloat
    <3> QED BY <2>1, <3>1, LeavesKeeps DEF Leaves
  <2> QED BY <2>2, <2>3
<1>10. CASE Float(h) \/ Relinquish(h)
  <2>1. Drops(Targets)
    BY <1>10 DEF Float, Relinquish, Drops
  <2> QED BY <2>1, DropsKeeps
<1>11. CASE Revoke(h) \/ Recover(h) \/ Claim(h) \/ Drop(h)
  <2>1. /\ \/ Clear(Targets) /\ generation' \in {generation, Raised}
           \/ UNCHANGED <<lease, pending, generation, block>>
        /\ served' = served
    BY <1>11 DEF Revoke, Recover, Claim, Drop
  <2>2. CASE Clear(Targets) /\ generation' \in {generation, Raised}
    <3>1. Ends
      BY <2>1, <2>2, Zenon DEF Ends, Clear
    <3> QED BY <3>1, EndsKeeps
  <2>3. CASE UNCHANGED <<lease, pending, generation, block>>
    BY <2>1, <2>3, LeavesKeeps DEF Leaves
  <2> QED BY <2>1, <2>2, <2>3
<1> QED BY <1>1, <1>2, <1>3, <1>4, <1>5, <1>6, <1>7, <1>8, <1>9, <1>10, <1>11 DEF Serve

\* What the control loop does to them.
LEMMA LoopKeeps == ASSUME Authority, ControlLoop PROVE Authority'
<1> USE DEF authority
<1>1. CASE Act \/ ReadFails \/ ShowState \/ EnterFault \/ FaultFallback
  <2>1. UNCHANGED <<lease, pending, generation, block, served>>
    BY <1>1 DEF Act, ReadFails, ShowState, EnterFault, FaultFallback
  <2> QED BY <2>1, LeavesKeeps DEF Leaves
<1>2. CASE FenceFault
  <2>1. /\ Clear(Targets) /\ generation' \in {generation, Raised}
        /\ served' = served
    BY <1>2 DEF FenceFault
  <2>2. Ends
    BY <2>1, Zenon DEF Ends, Clear
  <2> QED BY <2>2, EndsKeeps
<1>3. CASE Look
  <2>1. PICK late \in SUBSET {t \in Targets : pending[t] # None} :
          /\ lease' = [t \in Targets |-> IF t \in Lapsed THEN None ELSE lease[t]]
          /\ pending' = [t \in Targets |-> IF t \in Lapsed \cup late THEN None ELSE pending[t]]
    BY <1>3, Zenon DEF Look
  <2>2. UNCHANGED <<generation, block, served>>
    BY <1>3 DEF Look
  <2>3. Lapsed \in SUBSET Targets /\ late \in SUBSET Targets
    BY DEF Lapsed, Held
  <2>4. Ends
    BY <2>1, <2>2, <2>3, Zenon DEF Ends
  <2> QED BY <2>4, EndsKeeps
<1> QED BY <1>1, <1>2, <1>3 DEF ControlLoop

\* Leases, commands and blocks fit together whatever happens.
THEOREM AuthorityInvariant == Spec => []Authority
<1>1. Authority /\ [Next]_vars => Authority'
  <2> SUFFICES ASSUME Authority, [Next]_vars PROVE Authority'
    OBVIOUS
  <2>1. CASE ControlLoop
    BY <2>1, LoopKeeps
  <2>2. CASE \E t \in Targets : Lapse(t)
    BY <2>2, LapseKeeps
  <2>3. CASE \E h \in Handlers : Serve(h)
    BY <2>3, ServeKeeps
  <2>4. CASE \E h \in Handlers : \E op \in Requests : Admit(h, op)
    <3>1. UNCHANGED <<lease, pending, generation, block, served>>
      BY <2>4 DEF Admit, authority
    <3> QED BY <3>1, LeavesKeeps DEF Leaves
  <2>5. CASE UNCHANGED vars
    <3>1. UNCHANGED <<lease, pending, generation, block, served>>
      BY <2>5 DEF vars, authority
    <3> QED BY <3>1, LeavesKeeps DEF Leaves
  <2> QED BY <2>1, <2>2, <2>3, <2>4, <2>5 DEF Next
<1> QED BY <1>1, InitAuthority, PTL DEF Spec

\* Whatever the requests, the I/O faults and the timing, the arm as a whole and
\* a group never have owners at once, and nobody owns anything while safe-home
\* or a recovery has the arm.
THEOREM OwnersExcludeEachOther == Spec => []OwnersExclude
<1>1. Authority => OwnersExclude
  BY DEF Authority, OwnersExclude
<1> QED BY <1>1, AuthorityInvariant, PTL

\* A command that waits for the control loop is one of the lease in force.
THEOREM CommandsBelongToTheOwner == Spec => []CommandsAreHeld
<1>1. Authority => CommandsAreHeld
  BY DEF Authority
<1> QED BY <1>1, AuthorityInvariant, PTL

---------------------------------------------------------------------------
\* What is not guarded by ingress_lock has its type.
ArmTypeOK ==
  /\ block \in {None, "safe-home", "recovery"}
  /\ state \in States
  /\ {healthy, feedback, retry, alone, cancel, stopped} \subseteq BOOLEAN
  /\ homing \in Handlers \cup {None}
  /\ ingress \in Handlers \cup {None}
  /\ hardware \in Handlers \cup {Loop, None}
  /\ loop \in [at : {"idle", "act", "show", "fault", "faulted", "fall back"}, order : Orders]

\* What a step of a request does to the request itself.
Moves(h) ==
  \/ \E at \in Ats : Goto(h, at) \/ Forget(h, at) \/ \E yes \in BOOLEAN : Decide(h, at, yes)
  \/ Reply(h)

LEMMA MovesKeep ==
  ASSUME handler \in [Handlers -> Handler], NEW h \in Handlers, Moves(h)
  PROVE  handler' \in [Handlers -> Handler]
<1>0. Root \in Targets /\ 0 \in 0 .. MaxGeneration /\ "none" \in Ops /\ "idle" \in Ats
  BY Bounds DEF Targets, Ops, Ats
<1>1. handler[h] \in Handler /\ Idle \in Handler
  BY <1>0 DEF Handler, Idle
<1>2. CASE Reply(h)
  BY <1>1, <1>2 DEF Reply
<1>3. CASE \E at \in Ats : Goto(h, at)
  BY <1>1, <1>3 DEF Goto, Handler
<1>4. CASE \E at \in Ats : Forget(h, at)
  BY <1>0, <1>1, <1>4 DEF Forget, Handler
<1>5. ASSUME NEW at \in Ats, NEW yes \in BOOLEAN, Decide(h, at, yes)
      PROVE  handler' \in [Handlers -> Handler]
  <2>1. handler' = [handler EXCEPT ![h] = [[handler[h] EXCEPT !.at = at] EXCEPT !.yes = yes]]
    BY <1>5 DEF Decide
  <2>2. [[handler[h] EXCEPT !.at = at] EXCEPT !.yes = yes] \in Handler
    BY <1>1 DEF Handler
  <2> QED BY <2>1, <2>2
<1> QED BY <1>2, <1>3, <1>4, <1>5 DEF Moves

\* Every step of a request is such a move, and keeps the other types.
LEMMA ServeTypes ==
  ASSUME ArmTypeOK, handler \in [Handlers -> Handler], NEW h \in Handlers, Serve(h)
  PROVE  Moves(h) /\ ArmTypeOK'
<1> USE DEF Ingress, Hardware, authority, arm, events, locks, ArmTypeOK, At, Moves, Ats
<1>0. handler[h].yes \in BOOLEAN
  BY DEF Handler
<1>1. CASE Prepare(h) \/ Start(h) \/ Enable(h)
  BY <1>1 DEF Prepare, Start, Enable, States
<1>2. CASE Ask(h) \/ RefuseAcquire(h) \/ Grant(h) \/ Present(h) \/ Validate(h) \/ Deliver(h)
  BY <1>2 DEF Ask, RefuseAcquire, Grant, Present, Validate, Deliver
<1>3. CASE Release(h) \/ GroupFloat(h) \/ Float(h) \/ Revoke(h)
  BY <1>3 DEF Release, GroupFloat, Float, Revoke
<1>4. CASE Fallback(h) \/ Disable(h) \/ Recover(h) \/ Requalify(h) \/ Show(h) \/ Unblock(h)
  BY <1>4 DEF Fallback, Disable, Recover, Requalify, Show, Unblock, States
<1>5. CASE Warm(h) \/ Relinquish(h) \/ Home(h) \/ Begin(h) \/ Claim(h) \/ ClaimBlocked(h)
           \/ Blocked(h) \/ Observe(h)
  BY <1>5 DEF Warm, Relinquish, Home, Begin, Claim, ClaimBlocked, Blocked, Observe, States
<1>6. CASE Handover(h) \/ Arrived(h) \/ Settle(h) \/ GiveUp(h) \/ HomingFails(h) \/ Finish(h)
  BY <1>6 DEF Handover, Arrived, Settle, GiveUp, HomingFails, Finish, States
<1>7. CASE Degrade(h) \/ StopLoop(h) \/ Disconnect(h) \/ Drop(h)
  BY <1>7 DEF Degrade, StopLoop, Disconnect, Drop, States
<1> QED BY <1>1, <1>2, <1>3, <1>4, <1>5, <1>6, <1>7 DEF Serve

\* So does every step of the control loop.
LEMMA LoopTypes ==
  ASSUME ArmTypeOK, ControlLoop
  PROVE  ArmTypeOK' /\ UNCHANGED handler
<1> USE DEF authority, arm, events, locks, ArmTypeOK, Orders, States
<1>1. CASE Look
  <2>1. UNCHANGED <<block, arm, events, locks, handler>>
    BY <1>1 DEF Look
  <2>2. PICK order \in Orders : loop' = [at |-> "act", order |-> order]
    <3>1. PICK late \in SUBSET {t \in Targets : pending[t] # None} :
        LET ended == Lapsed
            dropped == {t \in ended \cup late : pending[t] # None}
            left == [t \in Targets |-> IF t \in ended \cup late THEN None ELSE pending[t]]
            frame == \E t \in Targets : left[t] # None
        IN  loop' = [at |-> "act",
                     order |-> CASE Root \in ended -> "float"
                                 [] Root \notin ended /\ frame -> "apply"
                                 [] Root \notin ended /\ ~frame /\ dropped # {} -> "float"
                                 [] OTHER -> IF Held \subseteq ended THEN "orphan" ELSE "keep"]
      BY <1>1 DEF Look
    <3> QED BY <3>1
  <2> QED BY <2>1, <2>2
<1>2. CASE Act
  <2>1. state' \in States
    BY <1>2 DEF Act, Ordered
  <2>2. alone' \in BOOLEAN /\ feedback' \in BOOLEAN
    BY <1>2, Zenon DEF Act
  <2>3. hardware' \in Handlers \cup {Loop, None} /\ loop' \in
          [at : {"idle", "act", "show", "fault", "faulted", "fall back"}, order : Orders]
    BY <1>2 DEF Act
  <2>4. UNCHANGED <<block, healthy, retry, cancel, stopped, homing, ingress, handler>>
    BY <1>2 DEF Act
  <2>5. {healthy, feedback', retry, alone', cancel, stopped} \subseteq BOOLEAN
    BY <2>2, Zenon
  <2> QED BY <2>1, <2>3, <2>4, <2>5
<1>3. CASE ReadFails \/ ShowState
  <2>1. CASE ReadFails
    <3>1. {healthy, FALSE, retry, alone, cancel, stopped} \subseteq BOOLEAN /\ feedback' = FALSE
      BY <2>1, Zenon DEF ReadFails
    <3> QED BY <2>1, <3>1 DEF ReadFails
  <2>2. CASE ShowState
    BY <2>2 DEF ShowState
  <2> QED BY <1>3, <2>1, <2>2
<1>4. CASE FenceFault
  BY <1>4 DEF FenceFault
<1>5. CASE EnterFault
  <2>1. {FALSE, feedback, retry, alone, cancel, stopped} \subseteq BOOLEAN /\ healthy' = FALSE
    BY <1>5, Zenon DEF EnterFault
  <2>2. loop' \in [at : {"idle", "act", "show", "fault", "faulted", "fall back"}, order : Orders]
    <3>1. \/ loop' = [loop EXCEPT !.at = "fall back"]
          \/ loop' = [at |-> "idle", order |-> "keep"]
      BY <1>5, Zenon DEF EnterFault
    <3>2. loop \in [at : {"idle", "act", "show", "fault", "faulted", "fall back"}, order : Orders]
      OBVIOUS
    <3>3. "keep" \in Orders
      OBVIOUS
    <3> HIDE DEF ArmTypeOK, Orders, States
    <3>4. CASE loop' = [loop EXCEPT !.at = "fall back"]
      BY <3>2, <3>4
    <3>5. CASE loop' = [at |-> "idle", order |-> "keep"]
      BY <3>3, <3>5
    <3> QED BY <3>1, <3>4, <3>5
  <2>3. state' \in States /\ hardware' \in Handlers \cup {Loop, None}
    BY <1>5 DEF EnterFault
  <2>4. UNCHANGED <<block, feedback, retry, alone, cancel, stopped, homing, ingress, handler>>
    BY <1>5 DEF EnterFault
  <2>5. {healthy', feedback, retry, alone, cancel, stopped} \subseteq BOOLEAN
    BY <2>1, Zenon
  <2> QED BY <2>2, <2>3, <2>4, <2>5
<1>6. CASE FaultFallback
  BY <1>6 DEF FaultFallback
<1> QED BY <1>1, <1>2, <1>3, <1>4, <1>5, <1>6 DEF ControlLoop

LEMMA AdmitTypes ==
  ASSUME ArmTypeOK, AuthorityTypeOK, handler \in [Handlers -> Handler],
         NEW h \in Handlers, NEW op \in Requests, Admit(h, op)
  PROVE  ArmTypeOK' /\ handler' \in [Handlers -> Handler]
<1>1. ArmTypeOK'
  BY DEF Admit, ArmTypeOK, authority, arm, events, locks
<1>2. PICK call \in Calls(op) :
        handler' = [handler EXCEPT ![h] =
          [op |-> IF op \in {"acquire", "hot", "home", "warm"} THEN op ELSE "none",
           at |-> IF op \in {"acquire", "hot"} THEN "prepare" ELSE op,
           target |-> call[1], gen |-> call[2], yes |-> FALSE]]
  BY DEF Admit
<1>3. call[1] \in Targets /\ call[2] \in 0 .. MaxGeneration
  <2>1. served.targets \subseteq Targets /\ Root \in Targets
    BY Bounds DEF AuthorityTypeOK, Deployment, Targets
  <2>2. generation \in Nat /\ generation <= MaxGeneration /\ MaxGeneration \in Nat
    BY Bounds DEF AuthorityTypeOK
  <2>3. 0 \in 0 .. MaxGeneration /\ 1 .. generation \subseteq 0 .. MaxGeneration
    BY <2>2
  <2>4. Calls(op) \in {served.targets \X {0}, served.targets \X (1 .. generation),
                      (served.targets \cap Groups) \X {0}, {<<Root, 0>>}}
    BY DEF Calls
  <2> QED BY <2>1, <2>3, <2>4
<1> QED BY <1>1, <1>2, <1>3 DEF Handler, Ops, Ats, Requests

LEMMA InitTypes == Init => TypeOK
<1> SUFFICES ASSUME Init PROVE TypeOK
  OBVIOUS
<1>1. Root \in Targets /\ 0 \in 0 .. MaxGeneration /\ "none" \in Ops /\ "idle" \in Ats
  BY Bounds DEF Targets, Ops, Ats
<1>2. handler \in [Handlers -> Handler]
  BY <1>1 DEF Init, Handler, Idle
<1>3. {healthy, feedback, retry, alone, cancel, stopped} \subseteq BOOLEAN
  BY Zenon DEF Init
<1>4. /\ lease \in [Targets -> Lease \cup {None}]
      /\ pending \in [Targets -> 1 .. MaxGeneration \cup {None}]
      /\ generation \in 0 .. MaxGeneration
  BY <1>1 DEF Init
<1>5. /\ block = None /\ state \in States /\ homing = None /\ ingress = None /\ hardware = None
      /\ loop \in [at : {"idle", "act", "show", "fault", "faulted", "fall back"}, order : Orders]
      /\ served \in Deployments
  BY DEF Init, States, Orders
<1> QED BY <1>2, <1>3, <1>4, <1>5 DEF TypeOK

\* Every variable of the controller has its type.
THEOREM ControllerTypeCorrect == Spec => []TypeOK
<1>1. TypeOK <=> AuthorityTypeOK /\ ArmTypeOK /\ handler \in [Handlers -> Handler]
  BY DEF TypeOK, AuthorityTypeOK, ArmTypeOK
<1>2. TypeOK /\ Authority' /\ [Next]_vars => TypeOK'
  <2> SUFFICES ASSUME TypeOK, Authority', [Next]_vars PROVE TypeOK'
    OBVIOUS
  <2> USE <1>1
  <2>1. AuthorityTypeOK'
    BY DEF Authority
  <2>2. ArmTypeOK' /\ handler' \in [Handlers -> Handler]
    <3>1. CASE ControlLoop
      BY <3>1, LoopTypes
    <3>2. CASE \E t \in Targets : Lapse(t)
      BY <3>2 DEF Lapse, arm, events, locks, ArmTypeOK
    <3>3. CASE \E h \in Handlers : Serve(h)
      BY <3>3, ServeTypes, MovesKeep
    <3>4. CASE \E h \in Handlers : \E op \in Requests : Admit(h, op)
      BY <3>4, AdmitTypes
    <3>5. CASE UNCHANGED vars
      BY <3>5 DEF vars, authority, arm, events, locks, ArmTypeOK
    <3> QED BY <3>1, <3>2, <3>3, <3>4, <3>5 DEF Next
  <2> QED BY <2>1, <2>2 DEF TypeOK, AuthorityTypeOK, ArmTypeOK
<1> QED BY <1>2, InitTypes, AuthorityInvariant, PTL DEF Spec

---------------------------------------------------------------------------
\* The arm is given to safe-home only as long as no command has been applied, and
\* a request that waits for the movement has no answer yet.
Homing ==
  /\ state = "SAFE_HOME" => alone
  /\ \A h \in Handlers : At(h, "homing") \/ At(h, "handover") => ~handler[h].yes

\* A move that does not lead to the movement.
MovesElsewhere(h) ==
  \/ \E at \in Ats \ {"homing", "handover"} :
       Goto(h, at) \/ Forget(h, at) \/ \E yes \in BOOLEAN : Decide(h, at, yes)
  \/ Reply(h)

LEMMA MovesAway ==
  ASSUME handler \in [Handlers -> Handler], NEW h \in Handlers, MovesElsewhere(h)
  PROVE  handler'[h].at \notin {"homing", "handover"}
<1>1. CASE Reply(h)
  BY <1>1 DEF Reply, Idle
<1>2. ASSUME NEW at \in Ats, Goto(h, at) \/ Forget(h, at)
      PROVE  handler'[h].at = at
  BY <1>2 DEF Goto, Forget, Handler
<1>3. ASSUME NEW at \in Ats, NEW yes \in BOOLEAN, Decide(h, at, yes)
      PROVE  handler'[h].at = at
  <2>1. handler' = [handler EXCEPT ![h] = [[handler[h] EXCEPT !.at = at] EXCEPT !.yes = yes]]
    BY <1>3 DEF Decide
  <2> QED BY <2>1 DEF Handler
<1> QED BY <1>1, <1>2, <1>3 DEF MovesElsewhere

LEMMA HomingKept ==
  ASSUME TypeOK, Homing, [Next]_vars
  PROVE  Homing'
<1> USE DEF Homing, At
<1>1. CASE ControlLoop
  <2> USE DEF authority, arm, events, locks
  <2>1. UNCHANGED handler
    BY <1>1, LoopTypes DEF TypeOK, ArmTypeOK
  <2>2. CASE Look \/ ReadFails \/ ShowState \/ FenceFault
    BY <2>1, <2>2 DEF Look, ReadFails, ShowState, FenceFault
  <2>3. CASE Act
    <3>1. state' = "SAFE_HOME" => state = "SAFE_HOME" /\ loop.order # "apply"
      BY <2>3 DEF Act, Ordered
    <3> QED BY <2>1, <2>3, <3>1 DEF Act
  <2>4. CASE EnterFault \/ FaultFallback
    BY <2>1, <2>4 DEF EnterFault, FaultFallback
  <2> QED BY <1>1, <2>2, <2>3, <2>4 DEF ControlLoop
<1>2. CASE \E t \in Targets : Lapse(t)
  BY <1>2 DEF Lapse, arm
<1>3. ASSUME NEW h \in Handlers, Serve(h)
      PROVE  Homing'
  <2> USE DEF Ingress, Hardware, authority, arm, events, locks
  <2>1. \A u \in Handlers \ {h} : handler'[u] = handler[u]
    BY <1>3, ServeTypes DEF TypeOK, ArmTypeOK, Moves, Goto, Forget, Decide, Reply
  <2>2. handler \in [Handlers -> Handler] /\ handler[h].yes \in BOOLEAN
    BY DEF TypeOK, Handler
  <2>3. ASSUME handler'[h].at \in {"homing", "handover"}
        PROVE  handler'[h].yes = FALSE
    <3>1. CASE Claim(h)
      <4>1. handler' = [handler EXCEPT ![h].at = IF handler[h].yes THEN "observe" ELSE "handover"]
        BY <3>1 DEF Claim, Goto
      <4>2. CASE handler[h].yes
        <5>1. handler'[h].at = "observe"
          BY <2>2, <4>1, <4>2 DEF Handler
        <5> QED BY <2>3, <5>1
      <4>3. CASE ~handler[h].yes
        <5>1. handler'[h].yes = handler[h].yes
          BY <2>2, <4>1 DEF Handler
        <5>2. handler[h].yes = FALSE
          BY <2>2, <4>3, Zenon
        <5> QED BY <5>1, <5>2
      <4> QED BY <4>2, <4>3
    <3>2. CASE Observe(h)
      <4>1. Decide(h, "handover", FALSE) \/ Goto(h, "finish")
        BY <3>2 DEF Observe
      <4>2. CASE Goto(h, "finish")
        BY <2>2, <2>3, <4>2 DEF Goto, Handler
      <4>3. CASE Decide(h, "handover", FALSE)
        BY <2>2, <4>3 DEF Decide, Handler
      <4> QED BY <4>1, <4>2, <4>3
    <3>3. CASE Handover(h)
      <4>1. Goto(h, "homing") \/ Goto(h, "arrived") \/ Decide(h, "finish", FALSE)
        BY <3>3 DEF Handover
      <4>2. CASE Goto(h, "homing") \/ Goto(h, "arrived")
        <5>1. handler'[h].yes = handler[h].yes
          BY <2>2, <4>2 DEF Goto, Handler
        <5>2. ~handler[h].yes
          BY <3>3, Zenon DEF Handover
        <5>3. handler[h].yes = FALSE
          BY <2>2, <5>2, Zenon
        <5> QED BY <5>1, <5>3
      <4>3. CASE Decide(h, "finish", FALSE)
        BY <2>2, <4>3 DEF Decide, Handler
      <4> QED BY <4>1, <4>2, <4>3
    <3>4. ~(Claim(h) \/ Observe(h) \/ Handover(h)) => MovesElsewhere(h)
      <4> USE DEF MovesElsewhere, Ats
      <4>1. CASE \/ Prepare(h) \/ Start(h) \/ Enable(h) \/ Ask(h)
                 \/ Present(h) \/ Validate(h) \/ Deliver(h)
        BY <2>2, <4>1 DEF Prepare, Start, Enable, Ask, Present, Validate, Deliver
      <4>2. CASE RefuseAcquire(h) \/ Grant(h) \/ Release(h) \/ GroupFloat(h)
        BY <4>2 DEF RefuseAcquire, Grant, Release, GroupFloat
      <4>3. CASE Float(h) \/ Revoke(h) \/ Fallback(h) \/ Disable(h)
        BY <4>3 DEF Float, Revoke, Fallback, Disable
      <4>4. CASE \/ Recover(h) \/ Requalify(h) \/ Show(h) \/ Unblock(h) \/ Warm(h) \/ Relinquish(h)
        BY <2>2, <4>4 DEF Recover, Requalify, Show, Unblock, Warm, Relinquish
      <4>5. CASE Home(h) \/ Begin(h) \/ ClaimBlocked(h) \/ Blocked(h)
        <5>1. retry \in BOOLEAN
          BY Zenon DEF TypeOK
        <5> QED BY <4>5, <5>1 DEF Home, Begin, ClaimBlocked, Blocked
      <4>6. CASE \/ Arrived(h) \/ Settle(h) \/ GiveUp(h) \/ HomingFails(h) \/ Finish(h)
                 \/ Degrade(h) \/ StopLoop(h) \/ Disconnect(h) \/ Drop(h)
        BY <2>2, <4>6 DEF Arrived, Settle, GiveUp, HomingFails, Finish, Degrade, StopLoop,
             Disconnect, Drop
      <4> QED BY <1>3, <4>1, <4>2, <4>3, <4>4, <4>5, <4>6 DEF Serve
    <3>5. ~(Claim(h) \/ Observe(h) \/ Handover(h)) => handler'[h].at \notin {"homing", "handover"}
      BY <2>2, <3>4, MovesAway
    <3> QED BY <2>3, <3>1, <3>2, <3>3, <3>5
  <2>4. state' = "SAFE_HOME" => alone' = TRUE
    <3>1. CASE Handover(h)
      BY <3>1 DEF Handover, TypeOK
    <3>2. ~Handover(h) => alone' = alone /\ (state' = "SAFE_HOME" => state = "SAFE_HOME")
      <4>1. CASE \/ Prepare(h) \/ Start(h) \/ Enable(h) \/ Ask(h) \/ RefuseAcquire(h) \/ Grant(h)
                 \/ Present(h) \/ Validate(h) \/ Deliver(h) \/ Release(h) \/ GroupFloat(h) \/ Float(h)
                 \/ Revoke(h) \/ Fallback(h) \/ Disable(h)
        BY <4>1 DEF Prepare, Start, Enable, Ask, RefuseAcquire, Grant, Present, Validate,
             Deliver, Release, GroupFloat, Float, Revoke, Fallback, Disable
      <4>2. CASE \/ Recover(h) \/ Requalify(h) \/ Show(h) \/ Unblock(h) \/ Warm(h) \/ Relinquish(h)
                 \/ Home(h) \/ Begin(h) \/ Claim(h) \/ ClaimBlocked(h) \/ Blocked(h) \/ Observe(h)
        BY <4>2 DEF Recover, Requalify, Show, Unblock, Warm, Relinquish, Home, Begin, Claim,
             ClaimBlocked, Blocked, Observe
      <4>3. CASE \/ Arrived(h) \/ Settle(h) \/ GiveUp(h) \/ HomingFails(h) \/ Finish(h)
                 \/ Degrade(h) \/ StopLoop(h) \/ Disconnect(h) \/ Drop(h)
        BY <4>3 DEF Arrived, Settle, GiveUp, HomingFails, Finish, Degrade, StopLoop,
             Disconnect, Drop
      <4> QED BY <1>3, <4>1, <4>2, <4>3 DEF Serve
    <3> QED BY <3>1, <3>2 DEF TypeOK
  <2> QED BY <2>1, <2>3, <2>4
<1>4. CASE \E h \in Handlers : \E op \in Requests : Admit(h, op)
  <2>1. PICK h \in Handlers, op \in Requests : Admit(h, op)
    BY <1>4
  <2>2. UNCHANGED <<state, alone>>
    BY <2>1 DEF Admit, arm
  <2>3. PICK call \in Calls(op) :
          handler' = [handler EXCEPT ![h] =
            [op |-> IF op \in {"acquire", "hot", "home", "warm"} THEN op ELSE "none",
             at |-> IF op \in {"acquire", "hot"} THEN "prepare" ELSE op,
             target |-> call[1], gen |-> call[2], yes |-> FALSE]]
    BY <2>1 DEF Admit
  <2>4. handler'[h].yes = FALSE /\ \A u \in Handlers \ {h} : handler'[u] = handler[u]
    BY <2>3 DEF TypeOK
  <2> QED BY <2>2, <2>4
<1>5. CASE UNCHANGED vars
  BY <1>5 DEF vars, arm
<1> QED BY <1>1, <1>2, <1>3, <1>4, <1>5 DEF Next

LEMMA HomingStarts == Init => Homing
BY DEF Init, Homing, At, Idle

\* A movement that ends in the home position had the arm to itself, whatever a late
\* tick, a cancelled float or a failing motor does meanwhile (safe_home, _tick).
THEOREM HomeIsReachedAlone == Spec => HomedAlone
<1>1. TypeOK /\ Homing /\ [Next]_vars =>
        [\A h \in Handlers : At(h, "homing") /\ handler'[h].yes => alone]_vars
  <2> SUFFICES ASSUME TypeOK, Homing, [Next]_vars, NEW h \in Handlers,
                      At(h, "homing"), handler'[h].yes
               PROVE  alone
    OBVIOUS
  <2>1. handler'[h] # handler[h]
    BY DEF Homing
  <2>2. Serve(h)
    <3>1. CASE ControlLoop
      BY <2>1, <3>1, LoopTypes DEF TypeOK, ArmTypeOK
    <3>2. CASE \E t \in Targets : Lapse(t)
      BY <2>1, <3>2 DEF Lapse
    <3>3. ASSUME NEW u \in Handlers, Serve(u), u # h
          PROVE  FALSE
      BY <2>1, <3>3, ServeTypes DEF TypeOK, ArmTypeOK, Moves, Goto, Forget, Decide, Reply
    <3>4. CASE \E u \in Handlers : \E op \in Requests : Admit(u, op)
      BY <2>1, <3>4 DEF Admit, At, TypeOK
    <3>5. CASE UNCHANGED vars
      BY <2>1, <3>5 DEF vars
    <3> QED BY <3>1, <3>2, <3>3, <3>4, <3>5 DEF Next
  <2>3. Settle(h) \/ GiveUp(h) \/ HomingFails(h)
    BY <2>2 DEF Serve, At, Prepare, Start, Enable, Ask, RefuseAcquire, Grant, Present, Validate,
         Deliver, Release, GroupFloat, Float, Revoke, Fallback, Disable, Recover, Requalify,
         Show, Unblock, Warm, Relinquish, Home, Begin, Claim, ClaimBlocked, Blocked, Observe,
         Handover, Arrived, Finish, Degrade, StopLoop, Disconnect, Drop
  <2>4. CASE Settle(h)
    BY <2>4 DEF Settle, Homing
  <2>5. CASE GiveUp(h) \/ HomingFails(h)
    BY <2>5 DEF GiveUp, HomingFails, Decide, TypeOK, Handler
  <2> QED BY <2>3, <2>4, <2>5
<1>2. Spec => []Homing
  BY HomingStarts, HomingKept, ControllerTypeCorrect, PTL DEF Spec
<1> QED BY <1>1, <1>2, ControllerTypeCorrect, PTL DEF Spec, HomedAlone
=============================================================================
