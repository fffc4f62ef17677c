--------------------------- MODULE BasicController ---------------------------
(***************************************************************************)
(* ArmController of the Basic arm Provider, the sole owner of the motors:  *)
(* leases of the whole arm or of its actuator groups, the command waiting  *)
(* for each, the control loop, safe-home, fault recovery and WARM.         *)
(*                                                                         *)
(* Two locks guard it.  ingress_lock guards leases, waiting commands, the  *)
(* generation and the block reason; lock guards the motors and the state.  *)
(* A section under one lock is a step; a section that takes the other lock *)
(* inside keeps the first in "ingress" or "hardware" until it has it.      *)
(***************************************************************************)
EXTENDS Naturals

CONSTANTS
  Groups,         \* the actuator groups
  Handlers,       \* concurrent HTTP requests
  Deployments,    \* the requests made of the arm, and of what they are made
  MaxGeneration,  \* bound: no lease is issued beyond this generation
  None

Root == "root"
Loop == "loop"
Targets == Groups \cup {Root}
Requests == {"acquire", "renew", "submit", "release", "float", "group float", "revoke",
             "disable", "hot", "home", "warm"}

\* A deployment: which requests come, of which leases, how many leases are
\* issued, and whether reads and writes of the motors may fail.
Deployment == [requests : SUBSET Requests, targets : SUBSET Targets,
               leases : 0 .. MaxGeneration, ioFails : BOOLEAN]

ASSUME Names == Root \notin Groups /\ Loop \notin Handlers /\ None \notin Handlers \cup {Loop}
ASSUME Bounds == /\ MaxGeneration \in Nat \ {0}
                 /\ Deployments \subseteq Deployment

VARIABLES
  \* guarded by ingress_lock
  lease,       \* lease and group_leases; lapsed once expires_monotonic has passed
  pending,     \* pending and group_pending: the generation of the waiting command
  generation,  \* fencing_generation
  block,       \* operational_control_block_reason
  \* guarded by lock
  state,       \* ProviderState
  healthy,     \* health is not FAULTED
  feedback,    \* feedback is not None
  retry,       \* last_safe_home_result lets the next safe-home be content with rest
  alone,       \* history: no command was applied since safe-home took the arm
  \* events, locks and threads
  cancel,      \* safe_home_cancel_event
  stopped,     \* stop_event
  homing,      \* the holder of safe_home_operation_lock
  ingress,     \* the request that keeps ingress_lock while it waits for lock
  hardware,    \* the thread that keeps lock while it waits for ingress_lock
  loop,        \* the control loop: where its tick is, and what it decided
  handler,     \* the requests being served
  served       \* the deployment, a constant of each behaviour

authority == <<lease, pending, generation, block>>
arm == <<state, healthy, feedback, retry, alone>>
events == <<cancel, stopped, homing>>
locks == <<ingress, hardware>>
vars == <<authority, arm, events, locks, loop, handler, served>>

States == {"READ_ONLY", "FLOAT", "MANUAL", "SAFE_HOME", "FAULTED", "EMERGENCY_DISABLED",
           "DISCONNECTED"}
Lease == [gen : 1 .. MaxGeneration, lapsed : BOOLEAN]

ASSUME NoneIsNothing == None \notin Lease \cup 1 .. MaxGeneration

Ops == {"none", "acquire", "hot", "home", "warm"}
Ats == {"idle", "prepare", "start", "enable", "ask", "acquire", "renew", "submit",
        "validate", "deliver", "release", "float", "group float", "revoke",
        "fallback", "disable", "disabling", "recover", "requalify", "show",
        "unblock", "warm", "relinquish", "home", "begin", "claim", "blocked",
        "observe", "handover", "arrived", "homing", "give up", "finish", "degrade",
        "settle", "disconnect", "drop"}
Handler == [op : Ops, at : Ats, target : Targets, gen : 0 .. MaxGeneration,
            yes : BOOLEAN]  \* the answer a later step of the request depends on
\* Of other requests "at" says which it is.
Idle == [op |-> "none", at |-> "idle", target |-> Root, gen |-> 0, yes |-> FALSE]
Orders == {"float", "apply", "orphan", "keep"}

Init ==
  /\ lease = [t \in Targets |-> None]
  /\ pending = [t \in Targets |-> None]
  /\ generation = 0
  /\ block = None
  /\ state = "FLOAT"
  /\ healthy = TRUE
  /\ feedback = TRUE
  /\ retry = FALSE
  /\ alone = FALSE
  /\ cancel = FALSE
  /\ stopped = FALSE
  /\ homing = None
  /\ ingress = None
  /\ hardware = None
  /\ loop = [at |-> "idle", order |-> "keep"]
  /\ handler = [h \in Handlers |-> Idle]
  /\ served \in Deployments

---------------------------------------------------------------------------
At(h, at) == handler[h].at = at
\* From here on, it does not matter what lease the request was about.
Forget(h, at) ==
  handler' = [handler EXCEPT ![h] = [@ EXCEPT !.at = at, !.target = Root, !.gen = 0]]
Goto(h, at) == handler' = [handler EXCEPT ![h].at = at]
Decide(h, at, yes) == handler' = [handler EXCEPT ![h].at = at, ![h].yes = yes]
Reply(h) == handler' = [handler EXCEPT ![h] = Idle]
\* A section under ingress_lock, or under lock, that needs no other lock.
Ingress == ingress = None /\ UNCHANGED <<arm, locks, loop, served>>
Hardware == hardware = None /\ UNCHANGED <<authority, locks, loop, served>>

Held == {t \in Targets : lease[t] # None}
Lapsed == {t \in Held : lease[t].lapsed}
Commanded(p) == {t \in Groups : p[t] # None}
\* The leases of some targets end, and their waiting commands with them.
Clear(targets) ==
  /\ lease' = [t \in Targets |-> IF t \in targets THEN None ELSE lease[t]]
  /\ pending' = [t \in Targets |-> IF t \in targets THEN None ELSE pending[t]]
Raised == IF generation < MaxGeneration THEN generation + 1 ELSE generation
Matches(h) == handler[h].target \in Held /\ lease[handler[h].target].gen = handler[h].gen

Calls(op) ==
  CASE op = "acquire" -> served.targets \X {0}
    [] op \in {"renew", "submit", "release"} -> served.targets \X (1 .. generation)
    [] op = "group float" -> (served.targets \cap Groups) \X {0}
    [] OTHER -> {<<Root, 0>>}

Admit(h, op) ==
  /\ At(h, "idle")
  /\ op \in served.requests
  /\ \E call \in Calls(op) :
       handler' = [handler EXCEPT ![h] =
         [op |-> IF op \in {"acquire", "hot", "home", "warm"} THEN op ELSE "none",
          at |-> IF op \in {"acquire", "hot"} THEN "prepare" ELSE op,
          target |-> call[1], gen |-> call[2], yes |-> FALSE]]
  /\ UNCHANGED <<authority, arm, events, locks, loop, served>>

\* expires_monotonic passes without a renewal.
Lapse(t) ==
  /\ t \in Held \ Lapsed
  /\ lease' = [lease EXCEPT ![t].lapsed = TRUE]
  /\ UNCHANGED <<pending, generation, block, arm, events, locks, loop, handler, served>>

---------------------------------------------------------------------------
\* acquire_operational_lease and the HOT route: connect and enable the motors
\* as the state, read without a lock, asks for.
Prepare(h) ==
  /\ At(h, "prepare")
  /\ CASE state = "DISCONNECTED" -> Goto(h, "start")
       [] handler[h].op = "hot" /\ state # "DISCONNECTED"
            /\ (state = "FAULTED" \/ ~healthy) -> Goto(h, "recover")
       [] state = "READ_ONLY" /\ (handler[h].op = "acquire" \/ healthy) -> Goto(h, "enable")
       [] OTHER -> IF handler[h].op = "acquire" THEN Goto(h, "ask") ELSE Reply(h)
  /\ UNCHANGED <<authority, arm, events, locks, loop, served>>

\* start, unless the control thread is alive.
Start(h) ==
  /\ At(h, "start") /\ Hardware
  /\ IF ~stopped \/ loop.at # "idle"
     THEN UNCHANGED <<state, feedback, stopped>>
     ELSE state' = "READ_ONLY" /\ feedback' = TRUE /\ stopped' = FALSE
  /\ Goto(h, "prepare")
  /\ UNCHANGED <<healthy, retry, alone, cancel, homing>>

Enable(h) ==
  /\ At(h, "enable") /\ Hardware
  /\ IF state = "DISCONNECTED" \/ handler[h].op = "hot" THEN Reply(h) ELSE Goto(h, "ask")
  /\ state' = IF state = "DISCONNECTED" THEN state ELSE "FLOAT"
  /\ UNCHANGED <<healthy, feedback, retry, alone, events>>

\* control_was_active
Ask(h) ==
  /\ At(h, "ask") /\ Ingress
  /\ Decide(h, "acquire", Held # {})
  /\ UNCHANGED <<authority, events>>

Blocks == block # None \/ state = "SAFE_HOME"
\* The leases an acquisition has to do with: a root lease excludes all others.
Related(t) == IF t = Root THEN Targets ELSE {t, Root}

RefuseAcquire(h) ==
  LET t == handler[h].target
      live == (Related(t) \cap Held) \ Lapsed
  IN  /\ At(h, "acquire") /\ Ingress
      /\ Blocks \/ live # {} \/ generation >= served.leases
      /\ IF ~Blocks /\ t = Root THEN Clear(Groups \cap Lapsed) ELSE UNCHANGED <<lease, pending>>
      /\ Reply(h)
      /\ UNCHANGED <<generation, block, events>>

\* acquire_lease, acquire_group_lease: what has lapsed is cleared, and the arm
\* floats if that leaves no command in force.
Grant(h) ==
  LET t == handler[h].target
      ended == Related(t) \cap Lapsed
      silenced == {u \in ended : pending[u] # None}
      left == Commanded(pending) \ ended
  IN  /\ At(h, "acquire") /\ Ingress
      /\ ~Blocks /\ Related(t) \cap Held \subseteq Lapsed /\ generation < served.leases
      /\ lease' = [u \in Targets |->
                     IF u = t THEN [gen |-> generation + 1, lapsed |-> FALSE]
                     ELSE IF u \in ended THEN None ELSE lease[u]]
      /\ pending' = [u \in Targets |-> IF u \in ended THEN None ELSE pending[u]]
      /\ generation' = generation + 1
      /\ IF \/ t = Root /\ (Root \in ended \/ silenced # {})
            \/ t # Root /\ (Root \in silenced \/ (t \in silenced /\ left = {}))
         THEN Forget(h, "fallback")
         ELSE IF handler[h].yes THEN Reply(h) ELSE Forget(h, "float")
      /\ UNCHANGED <<block, events>>

\* renew_lease, renew_group_lease, and the first half of submit: a lapsed root
\* lease is cleared.  Renewing in time changes nothing kept here.
Present(h) ==
  LET t == handler[h].target
  IN  /\ (At(h, "renew") \/ At(h, "submit")) /\ Ingress
      /\ IF block = None /\ t = Root /\ Root \in Lapsed
         THEN Clear({Root}) /\ Forget(h, "fallback")
         ELSE /\ UNCHANGED <<lease, pending>>
              /\ IF At(h, "submit") /\ block = None /\ Matches(h) /\ t \notin Lapsed
                 THEN Goto(h, "validate") ELSE Reply(h)
      /\ UNCHANGED <<generation, block, events>>

Validate(h) ==
  /\ At(h, "validate")
  /\ IF state \in {"SAFE_HOME", "FAULTED", "EMERGENCY_DISABLED", "DISCONNECTED"}
     THEN Reply(h) ELSE Goto(h, "deliver")
  /\ UNCHANGED <<authority, arm, events, locks, loop, served>>

\* Mutant: the lease is not looked at again once the command is validated.
DeliverUnchecked(h) ==
  /\ At(h, "deliver") /\ Ingress
  /\ pending' = [pending EXCEPT ![handler[h].target] = handler[h].gen]
  /\ Reply(h)
  /\ UNCHANGED <<lease, generation, block, events>>

\* The second half: the deadline may have passed, the lease may have changed.
Deliver(h) ==
  /\ At(h, "deliver") /\ Ingress
  /\ \/ Matches(h) /\ pending' = [pending EXCEPT ![handler[h].target] = handler[h].gen]
     \/ UNCHANGED pending
  /\ Reply(h)
  /\ UNCHANGED <<lease, generation, block, events>>

\* release_lease, release_group_lease
Release(h) ==
  LET t == handler[h].target
  IN  /\ At(h, "release") /\ Ingress
      /\ IF Matches(h)
         THEN /\ Clear({t})
              /\ generation' = Raised
              /\ IF t = Root \/ Commanded(pending) \subseteq {t}
                 THEN Forget(h, "fallback") ELSE Reply(h)
         ELSE Reply(h) /\ UNCHANGED <<lease, pending, generation>>
      /\ UNCHANGED <<block, events>>

\* request_group_float: whoever asks, the group's command is dropped.
GroupFloat(h) ==
  LET t == handler[h].target
  IN  /\ At(h, "group float") /\ Ingress
      /\ IF t \in Held
         THEN /\ pending' = [pending EXCEPT ![t] = None]
              /\ IF Commanded(pending) \subseteq {t} THEN Forget(h, "fallback") ELSE Reply(h)
         ELSE Reply(h) /\ UNCHANGED pending
      /\ UNCHANGED <<lease, generation, block, events>>

\* request_gravity_float cancels a safe-home; also the end of an acquisition
\* that found no control active.
Float(h) ==
  /\ At(h, "float") /\ Ingress
  /\ cancel' = (cancel \/ block # None)
  /\ pending' = [t \in Targets |-> None]
  /\ Decide(h, "fallback", TRUE)
  /\ UNCHANGED <<lease, generation, block, stopped, homing>>

\* revoke_lease, and the first half of emergency_disable.
Revoke(h) ==
  /\ (At(h, "revoke") \/ At(h, "disable")) /\ Ingress
  /\ Clear(Targets)
  /\ generation' = Raised
  /\ Goto(h, IF At(h, "revoke") THEN "fallback" ELSE "disabling")
  /\ UNCHANGED <<block, events>>

\* _enter_gravity_float_locked at the end of a request.  A write to a motor may
\* fail, and then the state is as it was.
Fallback(h) ==
  /\ At(h, "fallback") /\ Hardware
  /\ \/ state' = "FLOAT" /\ IF handler[h].op = "acquire" /\ ~handler[h].yes
                            THEN Forget(h, "float") ELSE Reply(h)
     \/ served.ioFails /\ state' = state /\ Reply(h)
  /\ UNCHANGED <<healthy, feedback, retry, alone, events>>

Disable(h) ==
  /\ At(h, "disabling") /\ Hardware
  /\ state' = "EMERGENCY_DISABLED"
  /\ healthy' = FALSE
  /\ Reply(h)
  /\ UNCHANGED <<feedback, retry, alone, events>>

---------------------------------------------------------------------------
\* recover_fault_to_gravity_float
Recover(h) ==
  /\ At(h, "recover") /\ Ingress
  /\ IF block \in {None, "recovery"}
     THEN /\ block' = "recovery"
          /\ Clear(Targets)
          /\ generation' = Raised
          /\ Goto(h, "requalify")
     ELSE Reply(h) /\ UNCHANGED authority
  /\ UNCHANGED events

\* Not faulted any more, no fresh feedback, powered support again, or a write
\* that fails.  Support shows itself in the snapshot, which takes ingress_lock.
Requalify(h) ==
  /\ At(h, "requalify")
  /\ hardware = None
  /\ \/ /\ state # "FAULTED" /\ healthy
        /\ Decide(h, "unblock", TRUE)
        /\ UNCHANGED <<state, healthy, hardware>>
     \/ /\ state = "FAULTED" \/ ~healthy
        /\ \/ /\ Decide(h, "unblock", FALSE)
              /\ UNCHANGED <<state, healthy, hardware>>
           \/ /\ feedback
              /\ state' = "FLOAT" /\ healthy' = TRUE
              /\ hardware' = h
              /\ Decide(h, "show", TRUE)
           \/ /\ feedback /\ served.ioFails
              /\ state' = "FAULTED" /\ healthy' = FALSE
              /\ Decide(h, "unblock", FALSE)
              /\ UNCHANGED hardware
  /\ UNCHANGED <<authority, feedback, retry, alone, events, ingress, loop, served>>

Show(h) ==
  /\ At(h, "show")
  /\ ingress = None
  /\ hardware' = None
  /\ Goto(h, "unblock")
  /\ UNCHANGED <<authority, arm, events, ingress, loop, served>>

Unblock(h) ==
  /\ At(h, "unblock") /\ Ingress
  /\ block' = IF block = "recovery" THEN None ELSE block
  /\ IF handler[h].yes /\ state = "READ_ONLY" THEN Goto(h, "enable") ELSE Reply(h)
  /\ UNCHANGED <<lease, pending, generation, events>>

---------------------------------------------------------------------------
\* enter_warm, and the WARM route that answers an arm which is not enabled.
Warm(h) ==
  /\ At(h, "warm") /\ Hardware
  /\ \/ state \in {"DISCONNECTED", "READ_ONLY"} /\ Reply(h)
     \/ state # "DISCONNECTED" /\ Goto(h, "relinquish")
  /\ UNCHANGED <<arm, events>>

Relinquish(h) ==
  /\ At(h, "relinquish") /\ Ingress
  /\ pending' = [t \in Targets |-> None]
  /\ Goto(h, "home")
  /\ UNCHANGED <<lease, generation, block, events>>

\* safe_home: one at a time.
Home(h) ==
  /\ At(h, "home") /\ Hardware
  /\ IF homing = None
     THEN homing' = h /\ Goto(h, "begin") /\ UNCHANGED retry
     ELSE /\ retry' = FALSE
          /\ IF handler[h].op = "warm" THEN Goto(h, "degrade") ELSE Reply(h)
          /\ UNCHANGED homing
  /\ UNCHANGED <<state, healthy, feedback, alone, cancel, stopped>>

Begin(h) ==
  /\ At(h, "begin") /\ Hardware
  /\ Decide(h, "claim", retry)
  /\ retry' = FALSE
  /\ cancel' = FALSE
  /\ UNCHANGED <<state, healthy, feedback, alone, stopped, homing>>

\* Mutant: safe-home fences the root lease and leaves the groups.
ClaimRoot(h) ==
  /\ At(h, "claim") /\ Ingress /\ block = None
  /\ block' = "safe-home"
  /\ Clear({Root})
  /\ generation' = IF Held = {} THEN generation ELSE Raised
  /\ Goto(h, IF handler[h].yes THEN "observe" ELSE "handover")
  /\ UNCHANGED events

Claim(h) ==
  /\ At(h, "claim") /\ Ingress /\ block = None
  /\ block' = "safe-home"
  /\ Clear(Targets)
  /\ generation' = IF Held = {} THEN generation ELSE Raised
  /\ Goto(h, IF handler[h].yes THEN "observe" ELSE "handover")
  /\ UNCHANGED events

\* Control is blocked: the result is recorded, under lock, with ingress_lock held.
ClaimBlocked(h) ==
  /\ At(h, "claim")
  /\ ingress = None /\ block # None
  /\ ingress' = h
  /\ Decide(h, "blocked", FALSE)
  /\ UNCHANGED <<authority, arm, events, hardware, loop, served>>

Blocked(h) ==
  /\ At(h, "blocked")
  /\ hardware = None
  /\ retry' = FALSE
  /\ ingress' = None
  /\ Goto(h, "finish")
  /\ UNCHANGED <<authority, state, healthy, feedback, alone, events, hardware, loop, served>>

\* A retry is content with an arm that is stationary or beyond control.
Observe(h) ==
  /\ At(h, "observe") /\ Hardware
  /\ \/ /\ feedback \/ state \in {"FAULTED", "EMERGENCY_DISABLED"}
        /\ retry' = TRUE
        /\ Goto(h, "finish")
     \/ /\ state \notin {"FAULTED", "EMERGENCY_DISABLED"}
        /\ retry' = retry
        /\ Decide(h, "handover", FALSE)
  /\ UNCHANGED <<state, healthy, feedback, alone, events>>

Handover(h) ==
  /\ At(h, "handover") /\ Hardware
  /\ IF feedback
     THEN /\ state' = "SAFE_HOME" /\ alone' = TRUE
          /\ Goto(h, "homing") \/ Goto(h, "arrived")
          /\ UNCHANGED retry
     ELSE /\ retry' = TRUE
          /\ Decide(h, "finish", FALSE)
          /\ UNCHANGED <<state, alone>>
  /\ UNCHANGED <<healthy, feedback, events>>

Arrived(h) ==
  /\ At(h, "arrived") /\ Hardware
  /\ state' = "FLOAT"
  /\ retry' = FALSE
  /\ Decide(h, "finish", TRUE)
  /\ UNCHANGED <<healthy, feedback, alone, events>>

\* Mutant: the homing loop does not look at the state before it goes on.
SettleAnyhow(h) ==
  /\ At(h, "homing") /\ Hardware
  /\ feedback /\ ~cancel
  /\ state' = "FLOAT"
  /\ retry' = FALSE
  /\ Decide(h, "finish", TRUE)
  /\ UNCHANGED <<healthy, feedback, alone, events>>

\* Home within tolerance, and settled, with the arm still given to safe-home.
Settle(h) ==
  /\ At(h, "homing") /\ Hardware
  /\ feedback /\ ~cancel /\ state = "SAFE_HOME"
  /\ state' = "FLOAT"
  /\ retry' = FALSE
  /\ Decide(h, "finish", TRUE)
  /\ UNCHANGED <<healthy, feedback, alone, events>>

\* The loop ends: the state has changed, it was cancelled, or time is up.
GiveUp(h) ==
  /\ At(h, "homing") /\ Hardware
  /\ state' = IF state = "SAFE_HOME" THEN "FLOAT" ELSE state
  /\ retry' = ~cancel
  /\ Decide(h, "finish", FALSE)
  /\ UNCHANGED <<healthy, feedback, alone, events>>

\* A write that fails while safe-home has the arm ends it as it stands.
HomingFails(h) ==
  /\ served.ioFails
  /\ (At(h, "arrived") \/ At(h, "homing")) /\ Hardware
  /\ Decide(h, "finish", FALSE)
  /\ UNCHANGED <<arm, events>>

Finish(h) ==
  /\ At(h, "finish") /\ Ingress
  /\ block' = IF block = "safe-home" THEN None ELSE block
  /\ homing' = None
  /\ IF handler[h].op = "home" THEN Reply(h)
     ELSE Goto(h, IF handler[h].yes THEN "settle" ELSE "degrade")
  /\ UNCHANGED <<lease, pending, generation, cancel, stopped>>

\* health becomes DEGRADED, whatever it was.
Degrade(h) ==
  /\ At(h, "degrade") /\ Hardware
  /\ healthy' = TRUE
  /\ Reply(h)
  /\ UNCHANGED <<state, feedback, retry, alone, events>>

StopLoop(h) ==
  /\ At(h, "settle")
  /\ stopped' = TRUE
  /\ Goto(h, "disconnect")
  /\ UNCHANGED <<authority, arm, cancel, homing, locks, loop, served>>

\* Once the control loop has ended, within the two seconds it is given.
Disconnect(h) ==
  /\ At(h, "disconnect") /\ Hardware
  /\ loop.at = "idle"
  /\ state' = "DISCONNECTED" /\ feedback' = FALSE
  /\ Goto(h, "drop")
  /\ UNCHANGED <<healthy, retry, alone, events>>

Drop(h) ==
  /\ At(h, "drop") /\ Ingress
  /\ Clear(Targets)
  /\ Reply(h)
  /\ UNCHANGED <<generation, block, events>>

---------------------------------------------------------------------------
\* _tick, the first half: leases that lapsed and commands that came too late
\* are cleared, and what the motors are to do is decided.
Look ==
  /\ loop.at = "idle" /\ ~stopped
  /\ ingress = None
  /\ \E late \in SUBSET {t \in Targets : pending[t] # None} :
       LET ended == Lapsed
           dropped == {t \in ended \cup late : pending[t] # None}
           left == [t \in Targets |-> IF t \in ended \cup late THEN None ELSE pending[t]]
           frame == \E t \in Targets : left[t] # None
       IN  /\ lease' = [t \in Targets |-> IF t \in ended THEN None ELSE lease[t]]
           /\ pending' = left
           /\ loop' = [at |-> "act",
                       order |-> CASE Root \in ended -> "float"
                                   [] Root \notin ended /\ frame -> "apply"
                                   [] Root \notin ended /\ ~frame /\ dropped # {} -> "float"
                                   [] OTHER -> IF Held \subseteq ended THEN "orphan" ELSE "keep"]
  /\ UNCHANGED <<generation, block, arm, events, locks, handler, served>>

\* Mutant: an arm that moves without an owner is left as it is.
OrderedUnlessOrphan ==
  CASE loop.order = "float" -> "FLOAT"
    [] loop.order = "apply" -> "MANUAL"
    [] OTHER -> state

\* The state the order asks for.
Ordered ==
  CASE loop.order = "float" -> "FLOAT"
    [] loop.order = "apply" -> "MANUAL"
    [] loop.order = "orphan" /\ state = "MANUAL" -> "FLOAT"
    [] OTHER -> state

\* The second half, under lock: fresh feedback, and the order is carried out,
\* whatever has happened to the leases meanwhile.
Act ==
  /\ loop.at = "act"
  /\ hardware = None /\ state # "DISCONNECTED"
  /\ feedback' = TRUE
  /\ alone' = (alone /\ loop.order # "apply")
  /\ \/ /\ state' = Ordered
        /\ hardware' = Loop
        /\ loop' = [loop EXCEPT !.at = "show"]
     \/ /\ served.ioFails
        /\ state' = IF loop.order = "apply" THEN "MANUAL" ELSE state   \* a write fails
        /\ hardware' = None
        /\ loop' = [loop EXCEPT !.at = "fault"]
  /\ UNCHANGED <<authority, healthy, retry, events, ingress, handler, served>>

ReadFails ==
  /\ loop.at = "act"
  /\ hardware = None
  /\ served.ioFails \/ state = "DISCONNECTED"
  /\ feedback' = FALSE
  /\ loop' = [loop EXCEPT !.at = "fault"]
  /\ UNCHANGED <<authority, state, healthy, retry, alone, events, locks, handler, served>>

\* snapshot_locked takes ingress_lock under lock.
ShowState ==
  /\ loop.at = "show"
  /\ ingress = None
  /\ hardware' = None
  /\ loop' = [at |-> "idle", order |-> "keep"]
  /\ UNCHANGED <<authority, arm, events, ingress, handler, served>>

\* _run, when the tick raised: every lease is fenced.
FenceFault ==
  /\ loop.at = "fault"
  /\ ingress = None
  /\ Clear(Targets)
  /\ generation' = IF Held = {} THEN generation ELSE Raised
  /\ loop' = [loop EXCEPT !.at = "faulted"]
  /\ UNCHANGED <<block, arm, events, locks, handler, served>>

\* Without feedback the outputs are left as they are; with it there is a
\* snapshot, and then the fallback.
EnterFault ==
  /\ loop.at = "faulted"
  /\ hardware = None
  /\ healthy' = FALSE
  /\ IF feedback
     THEN hardware' = Loop /\ loop' = [loop EXCEPT !.at = "fall back"] /\ UNCHANGED state
     ELSE /\ state' = "FAULTED"
          /\ loop' = [at |-> "idle", order |-> "keep"]
          /\ UNCHANGED hardware
  /\ UNCHANGED <<authority, feedback, retry, alone, events, ingress, handler, served>>

FaultFallback ==
  /\ loop.at = "fall back"
  /\ ingress = None
  /\ state' \in {"FLOAT", "FAULTED"}
  /\ hardware' = None
  /\ loop' = [at |-> "idle", order |-> "keep"]
  /\ UNCHANGED <<authority, healthy, feedback, retry, alone, events, ingress, handler, served>>

---------------------------------------------------------------------------
ControlLoop ==
  Look \/ Act \/ ReadFails \/ ShowState \/ FenceFault \/ EnterFault \/ FaultFallback

Serve(h) ==
  \/ Prepare(h) \/ Start(h) \/ Enable(h) \/ Ask(h) \/ RefuseAcquire(h) \/ Grant(h)
  \/ Present(h) \/ Validate(h) \/ Deliver(h) \/ Release(h) \/ GroupFloat(h) \/ Float(h)
  \/ Revoke(h) \/ Fallback(h) \/ Disable(h)
  \/ Recover(h) \/ Requalify(h) \/ Show(h) \/ Unblock(h)
  \/ Warm(h) \/ Relinquish(h) \/ Home(h) \/ Begin(h) \/ Claim(h) \/ ClaimBlocked(h)
  \/ Blocked(h) \/ Observe(h) \/ Handover(h) \/ Arrived(h) \/ Settle(h) \/ GiveUp(h)
  \/ HomingFails(h) \/ Finish(h) \/ Degrade(h) \/ StopLoop(h) \/ Disconnect(h) \/ Drop(h)

Next ==
  \/ ControlLoop
  \/ \E t \in Targets : Lapse(t)
  \/ \E h \in Handlers : Serve(h) \/ \E op \in Requests : Admit(h, op)

Spec == Init /\ [][Next]_vars

\* The control loop runs on, and so do requests that have been admitted.
FairSpec ==
  /\ Spec
  /\ WF_vars(ControlLoop)
  /\ \A h \in Handlers : WF_vars(Serve(h))

---------------------------------------------------------------------------
\* Every variable has its type.
TypeOK ==
  /\ lease \in [Targets -> Lease \cup {None}]
  /\ pending \in [Targets -> 1 .. MaxGeneration \cup {None}]
  /\ generation \in 0 .. MaxGeneration
  /\ block \in {None, "safe-home", "recovery"}
  /\ state \in States
  /\ {healthy, feedback, retry, alone, cancel, stopped} \subseteq BOOLEAN
  /\ homing \in Handlers \cup {None}
  /\ ingress \in Handlers \cup {None}
  /\ hardware \in Handlers \cup {Loop, None}
  /\ loop \in [at : {"idle", "act", "show", "fault", "faulted", "fall back"}, order : Orders]
  /\ handler \in [Handlers -> Handler]
  /\ served \in Deployments

\* The arm as a whole and a group of its actuators never have owners at once,
\* lapsed ones included.
RootExcludesGroups ==
  Root \in Held => Held = {Root}

\* While safe-home or a recovery has the arm, nobody owns it and nothing waits.
BlockedMeansIdle ==
  block # None => Held = {} /\ \A t \in Targets : pending[t] = None

\* Owners exclude each other, and exclude the operations that need the arm to
\* themselves.
OwnersExclude == RootExcludesGroups /\ BlockedMeansIdle

\* A waiting command is one of the lease in force: whatever ends the lease
\* between the two halves of submit, no command survives its owner.
CommandsAreHeld ==
  \A t \in Targets : pending[t] # None => t \in Held /\ lease[t].gen = pending[t]

\* A movement that ends in the home position had the arm to itself: a tick that
\* still applies a fenced command makes it fail.
HomedAlone ==
  [][\A h \in Handlers : At(h, "homing") /\ handler'[h].yes => alone]_vars

\* An arm that moves on command without an owner comes to rest, whatever
\* command a late tick has applied and whichever fallback has failed.
LeaselessMotionEnds ==
  (state = "MANUAL" /\ Held = {}) ~> (state # "MANUAL" \/ Held # {})

\* rebot_arm_dm_provider/controller.py: lease renewals and command submissions
\* must never wait for serial I/O, which the control loop does under lock.
IngressNeverWaitsForLoop ==
  ~(ingress # None /\ hardware = Loop)
=============================================================================
