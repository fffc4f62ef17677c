-------------------------- MODULE ContactController --------------------------
(***************************************************************************)
(* ContactController of the Contact Work Provider (providers/              *)
(* rebot_arm_contact): the one signed session it streams to the arm group  *)
(* of the Basic Provider, its watchdog, and the carry that outlives the    *)
(* session.  With it, the arm group as Basic keeps it: a fenced lease, a   *)
(* mode guard, and the last command with its deadline.                     *)
(*                                                                         *)
(* A section under operation_lock is one step with every HTTP call it      *)
(* makes, except a move that sets the mode guard: Basic may let a command  *)
(* or a lease lapse between the two calls.  Where calls may fail, any one  *)
(* may be lost before Basic sees it or after Basic has served it.          *)
(***************************************************************************)
EXTENDS Naturals, FiniteSets

CONSTANTS
  Plans,          \* signed plans: an assertion is consumed once
  Steps,          \* the steps of each plan
  Behaviour,      \* "NONE", "PREPARE" or "CONTINUE", of each plan
  CarryId,        \* the carry_id of each plan with a carry
  Settings,       \* deployments: which plans are signed, whether the Grip Provider runs,
                  \* whether calls may fail, authorizations expire and loops keep their rate
  CommandLife,    \* command_timeout_ms, in units of time
  LeaseLife,      \* lease_duration_ms; the renewal interval is one unit
  MaxGeneration,  \* bound: no lease of the arm is issued beyond this generation
  Foreign,        \* a command of another Provider
  None

ASSUME PlansAssumption ==
  /\ Steps \in [Plans -> Nat \ {0}]
  /\ Behaviour \in [Plans -> {"NONE", "PREPARE", "CONTINUE"}]
  /\ \A p \in Plans : Behaviour[p] # "NONE" => CarryId[p] # None
ASSUME SettingsAssumption ==
  Settings \subseteq [plans : SUBSET Plans, grip : BOOLEAN,
                      fails : BOOLEAN, expires : BOOLEAN, timely : BOOLEAN]
ASSUME LivesAssumption == {CommandLife, LeaseLife, MaxGeneration} \subseteq Nat \ {0}

VARIABLES
  \* ContactController
  session,    \* session: its plan, the number of accepted steps, deadline and authorization
  endpoint,   \* endpoint; complete once no segment is left to stream
  carry,      \* carry_id
  confirmed,  \* carry_confirmed
  guard,      \* position_effort_guard_active
  lease,      \* basic.lease: its fencing generation, 0 for none
  used,       \* consumed_assertion_ids
  inhibited,  \* motion_inhibited
  residency,  \* residency
  stopping,   \* the stop request: "no", "asked", "done"
  moving,     \* the endpoint a move has sent and not yet guarded
  \* Basic and time
  arm,        \* the arm group: owner, generation, mode guard and waiting command
  quiet,      \* units of time since the last command and the last renewal
  ticked,     \* the control loop ran in this unit of time
  setting     \* constant of each behaviour

contact == <<session, endpoint, carry, confirmed, guard, lease, used, inhibited, residency,
             stopping, moving>>
basic == <<arm, quiet>>
vars == <<contact, basic, ticked, setting>>

Sessions == [plan : Plans, accepted : Nat, expired : BOOLEAN,
             due : {"running", "passed", "never"}]
Endpoints == [plan : Plans, step : Nat, complete : BOOLEAN]
ASSUME NothingAssumption ==
  /\ None # Foreign
  /\ \A n \in {None, Foreign} : n \notin Sessions /\ n \notin Endpoints

TypeOK ==
  /\ session \in {None} \cup Sessions
  /\ endpoint \in {None} \cup Endpoints
  /\ carry \in {None} \cup {CarryId[p] : p \in Plans}
  /\ {confirmed, guard, inhibited, ticked} \subseteq BOOLEAN
  /\ lease \in 0 .. MaxGeneration
  /\ used \subseteq Plans
  /\ residency \in {"HOT", "WARM"}
  /\ stopping \in {"no", "asked", "done"}
  /\ moving \in {None} \cup Endpoints
  /\ arm \in [owner : {"none", "contact", "other"}, gen : 0 .. MaxGeneration,
              guard : BOOLEAN, cmd : {None, Foreign} \cup Endpoints]
  /\ quiet \in [command : 0 .. CommandLife, lease : 0 .. LeaseLife]
  /\ setting \in Settings

Init ==
  /\ session = None
  /\ endpoint = None
  /\ carry = None
  /\ confirmed = FALSE
  /\ guard = FALSE
  /\ lease = 0
  /\ used = {}
  /\ inhibited \in BOOLEAN
  /\ residency = "WARM"
  /\ stopping = "no"
  /\ moving = None
  /\ arm = [owner |-> "none", gen |-> 0, guard |-> FALSE, cmd |-> None]
  /\ quiet = [command |-> 0, lease |-> 0]
  /\ ticked = FALSE
  /\ setting \in Settings

-----------------------------------------------------------------------------
(* The arm group of Basic.                                                  *)

Held(a, l) == l # 0 /\ a.owner = "contact" /\ a.gen = l
Commanded(a, e) == [a EXCEPT !.cmd = e]
Free(a) == [a EXCEPT !.owner = "none", !.guard = FALSE, !.cmd = None]

\* A group float names no lease: the guard alone protects a command from it.
Floats(a) == IF a.owner # "none" /\ ~ a.guard THEN Commanded(a, None) ELSE a
Unguarded(a, l) == IF Held(a, l) THEN [a EXCEPT !.guard = FALSE] ELSE a
Released(a, l) == IF Held(a, l) /\ ~ a.guard THEN Free(a) ELSE a

\* A call whose answer decides nothing, when Basic's group may be any of arms.
Call(effect(_), arms) ==
  {effect(a) : a \in arms} \cup (IF setting.fails THEN arms ELSE {})
\* The groups a lost call may leave.
Lost(effect) == IF setting.fails THEN {arm, effect} ELSE {}

Take(owner) ==
  /\ arm.owner = "none" /\ arm.gen < MaxGeneration
  /\ arm' = [arm EXCEPT !.owner = owner, !.gen = @ + 1]
  /\ quiet' = [quiet EXCEPT !.lease = 0]

\* Another Provider of the arm takes, commands and releases the group.
Other ==
  /\ \/ Take("other")
     \/ arm.owner = "other" /\ arm' \in {Commanded(arm, Foreign), Free(arm)} /\ UNCHANGED quiet
  /\ UNCHANGED <<contact, ticked, setting>>

Overdue(clock, life) == setting.timely /\ arm.owner = "contact" => quiet[clock] = life

LeaseExpires ==
  /\ arm.owner # "none" /\ Overdue("lease", LeaseLife)
  /\ arm' = Free(arm)
  /\ UNCHANGED <<contact, quiet, ticked, setting>>

CommandExpires ==
  /\ arm.cmd # None /\ Overdue("command", CommandLife)
  /\ arm' = Commanded(arm, None)
  /\ UNCHANGED <<contact, quiet, ticked, setting>>

-----------------------------------------------------------------------------
(* Relaxation.                                                              *)

\* Mutant: the guard is cleared after the float and the release.
RelaxedGuarded(l, arms) ==
  LET unguard(a) == Unguarded(a, l)
      release(a) == Released(a, l)
      last == Call(release, Call(Floats, arms))
  IN IF guard THEN Call(unguard, last) ELSE last

Relaxed(l, arms) ==
  LET unguard(a) == Unguarded(a, l)
      release(a) == Released(a, l)
      first == IF guard THEN Call(unguard, arms) ELSE arms
  IN Call(release, Call(Floats, first))

\* Relaxation with the local lease l, when Basic's group may be any of arms.
Relax(l, arms) ==
  /\ session' = None /\ endpoint' = None
  /\ carry' = None /\ confirmed' = FALSE
  /\ guard' = FALSE /\ lease' = 0
  /\ arm' \in IF session = None /\ endpoint = None /\ l = 0 THEN arms ELSE Relaxed(l, arms)

Hold ==
  /\ endpoint' = [endpoint EXCEPT !.complete = TRUE]
  /\ session' = [session EXCEPT !.due = "never"]
  /\ UNCHANGED <<carry, confirmed, guard, lease, arm>>

Locked == moving = None
-----------------------------------------------------------------------------
(* Requests of Skills, of the Manager and of the operator.                  *)

Continues(p) == confirmed /\ Behaviour[p] = "CONTINUE" /\ CarryId[p] = carry

Admits(p) ==
  /\ stopping # "done" /\ residency = "HOT" /\ ~ inhibited /\ p \in setting.plans \ used
  /\ IF session = None THEN Behaviour[p] # "CONTINUE" ELSE Continues(p)

\* Mutant: a session that continues a carry forgets its endpoint.
BeginAnew(p) ==
  /\ Locked /\ Admits(p)
  /\ IF session = None THEN Take("contact") /\ lease' = arm'.gen
                       ELSE lease # 0 /\ UNCHANGED <<basic, lease>>
  /\ endpoint' = None
  /\ session' = [plan |-> p, accepted |-> 0, expired |-> FALSE, due |-> "running"]
  /\ used' = used \cup {p}
  /\ carry' = IF Behaviour[p] = "PREPARE" THEN CarryId[p] ELSE carry
  /\ UNCHANGED <<confirmed, guard, inhibited, residency, stopping, moving, ticked, setting>>

\* A signed plan becomes the session.  An acquisition that is refused or
\* lost changes nothing here; one lost after Basic served it leaves the arm
\* leased to nobody who knows.
Begin(p) ==
  /\ Locked /\ Admits(p)
  /\ \/ /\ IF session = None
           THEN Take("contact") /\ lease' = arm'.gen /\ endpoint' = None
           ELSE lease # 0 /\ UNCHANGED <<basic, lease, endpoint>>
        /\ session' = [plan |-> p, accepted |-> 0, expired |-> FALSE, due |-> "running"]
        /\ used' = used \cup {p}
        /\ carry' = IF Behaviour[p] = "PREPARE" THEN CarryId[p] ELSE carry
        /\ UNCHANGED confirmed
     \/ /\ setting.fails /\ session = None /\ Take("contact")
        /\ UNCHANGED <<session, endpoint, carry, confirmed, lease, used>>
  /\ UNCHANGED <<guard, inhibited, residency, stopping, moving, ticked, setting>>

Accept(e) ==
  /\ endpoint' = e
  /\ session' = [session EXCEPT !.accepted = @ + 1, !.due = "running"]

\* One accepted step replaces the endpoint.  A refusal drops the local
\* lease; a lost answer leaves the old endpoint in charge.
Move ==
  /\ Locked /\ session # None
  /\ ~ session.expired /\ session.accepted < Steps[session.plan]
  /\ \E complete \in BOOLEAN :
       LET e == [plan |-> session.plan, step |-> session.accepted, complete |-> complete]
       IN \/ /\ Held(arm, lease)
             /\ arm' = Commanded(arm, e) /\ quiet' = [quiet EXCEPT !.command = 0]
             /\ IF guard THEN Accept(e) /\ UNCHANGED moving
                         ELSE moving' = e /\ UNCHANGED <<session, endpoint>>
             /\ UNCHANGED lease
          \/ /\ ~ Held(arm, lease) /\ lease' = 0
             /\ UNCHANGED <<basic, session, endpoint, moving>>
          \/ /\ Held(arm, lease) /\ arm' \in Lost(Commanded(arm, e))
             /\ quiet' = [quiet EXCEPT !.command = 0]
             /\ UNCHANGED <<session, endpoint, lease, moving>>
  /\ UNCHANGED <<carry, confirmed, guard, used, inhibited, residency, stopping, ticked, setting>>

\* The first endpoint of a session sets the mode guard, or is relaxed.
Guard ==
  LET guarded == [arm EXCEPT !.guard = TRUE]
      primed == Held(arm, lease) /\ arm.cmd # None
  IN /\ moving # None
     /\ \/ /\ primed /\ arm' = guarded /\ guard' = TRUE
           /\ Accept(moving)
           /\ UNCHANGED <<carry, confirmed, lease>>
        \/ ~ primed /\ Relax(lease, {arm})
        \/ primed /\ setting.fails /\ Relax(lease, {arm, guarded})
     /\ moving' = None
     /\ UNCHANGED <<used, inhibited, residency, stopping, quiet, ticked, setting>>

ConfirmCarry ==
  /\ Locked /\ session # None /\ Behaviour[session.plan] = "PREPARE"
  /\ endpoint # None /\ session.accepted = Steps[session.plan] /\ endpoint.complete
  /\ guard /\ lease # 0
  /\ confirmed' = TRUE
  /\ session' = [session EXCEPT !.due = "never"]
  /\ UNCHANGED <<endpoint, carry, guard, lease, used, inhibited, residency, stopping, moving,
                 basic, ticked, setting>>

\* RELAX of the Skill, and SAFE_RELINQUISH of the Manager.
RelaxRequest ==
  /\ Locked /\ session # None
  /\ Relax(lease, {arm})
  /\ UNCHANGED <<used, inhibited, residency, stopping, moving, quiet, ticked, setting>>

EnterHot ==
  /\ Locked /\ stopping # "done" /\ residency' = "HOT"
  /\ UNCHANGED <<session, endpoint, carry, confirmed, guard, lease, used, inhibited, stopping,
                 moving, basic, ticked, setting>>

EnterWarm ==
  /\ Locked /\ ~ confirmed
  /\ residency' = "WARM"
  /\ Relax(lease, {arm})
  /\ UNCHANGED <<used, inhibited, stopping, moving, quiet, ticked, setting>>

\* Only a change to inhibited relaxes or holds.
SetMotionInhibited ==
  /\ Locked /\ inhibited' = ~ inhibited
  /\ CASE inhibited' /\ session # None /\ confirmed -> Hold
       [] inhibited' /\ session # None /\ ~ confirmed -> Relax(lease, {arm})
       [] OTHER -> UNCHANGED <<session, endpoint, carry, confirmed, guard, lease, arm>>
  /\ UNCHANGED <<used, residency, stopping, moving, quiet, ticked, setting>>

\* The stop request looks at a snapshot; its thread stops the controller later.
AskStop ==
  /\ stopping = "no" /\ ~ confirmed
  /\ stopping' = "asked"
  /\ UNCHANGED <<session, endpoint, carry, confirmed, guard, lease, used, inhibited, residency,
                 moving, basic, ticked, setting>>

Stop ==
  /\ Locked /\ stopping = "asked"
  /\ stopping' = "done"
  /\ Relax(lease, {arm})
  /\ UNCHANGED <<used, inhibited, residency, moving, quiet, ticked, setting>>

-----------------------------------------------------------------------------
(* The control loop.                                                        *)

RenewalDue == IF setting.timely THEN {quiet.lease > 0} ELSE BOOLEAN

\* The lease is renewed when that is due, and the endpoint sent again.
Serve ==
  \/ /\ Held(arm, lease) /\ endpoint # None
     /\ arm' = Commanded(arm, endpoint) /\ quiet' = [command |-> 0, lease |-> 0]
     /\ endpoint' \in {endpoint, [endpoint EXCEPT !.complete = TRUE]}
     /\ UNCHANGED <<session, carry, confirmed, guard, lease>>
  \/ \E due \in RenewalDue :
       /\ endpoint = None /\ (due => Held(arm, lease))
       /\ quiet' = IF due THEN [quiet EXCEPT !.lease = 0] ELSE quiet
       /\ UNCHANGED <<session, endpoint, carry, confirmed, guard, lease, arm>>
  \/ \E due \in RenewalDue :
       /\ ~ Held(arm, lease) /\ (due \/ endpoint # None)
       /\ Relax(0, {arm}) /\ UNCHANGED quiet
  \/ /\ setting.fails /\ Held(arm, lease)
     /\ Relax(lease, {arm} \cup IF endpoint = None THEN {} ELSE {Commanded(arm, endpoint)})
     /\ UNCHANGED quiet

\* Once the authorization of a carry has expired, every turn of the loop
\* only holds.  A unit of time has many turns: one that answers the watchdog
\* is followed by others.
Tick ==
  /\ Locked /\ stopping # "done"
  /\ ticked' = ~ (session # None /\ session.due = "passed" /\ confirmed)
  /\ CASE session = None ->
            UNCHANGED <<session, endpoint, carry, confirmed, guard, lease, basic>>
       [] session # None /\ (session.due = "passed" \/ session.expired) ->
            /\ IF confirmed THEN Hold ELSE Relax(lease, {arm})
            /\ UNCHANGED quiet
       [] OTHER -> Serve
  /\ UNCHANGED <<used, inhibited, residency, stopping, moving, setting>>

-----------------------------------------------------------------------------
(* Time.                                                                    *)

WatchdogPasses ==
  /\ session # None /\ session.due = "running"
  /\ session' = [session EXCEPT !.due = "passed"]
  /\ UNCHANGED <<endpoint, carry, confirmed, guard, lease, used, inhibited, residency, stopping,
                 moving, basic, ticked, setting>>

AuthorizationExpires ==
  /\ setting.expires /\ session # None /\ ~ session.expired
  /\ session' = [session EXCEPT !.expired = TRUE]
  /\ UNCHANGED <<endpoint, carry, confirmed, guard, lease, used, inhibited, residency, stopping,
                 moving, basic, ticked, setting>>

Later(clock, life) == IF quiet[clock] < life THEN quiet[clock] + 1 ELSE life

Pass ==
  /\ setting.timely /\ Locked /\ (ticked \/ stopping = "done")
  /\ ticked' = FALSE
  /\ quiet' = [command |-> Later("command", CommandLife), lease |-> Later("lease", LeaseLife)]
  /\ UNCHANGED <<contact, arm, setting>>

Next ==
  \/ \E p \in Plans : Begin(p)
  \/ Move \/ Guard \/ ConfirmCarry \/ RelaxRequest
  \/ EnterHot \/ EnterWarm \/ SetMotionInhibited \/ AskStop \/ Stop
  \/ Tick \/ WatchdogPasses \/ AuthorizationExpires \/ Pass
  \/ Other \/ LeaseExpires \/ CommandExpires

\* The loop and the passing of time, and Basic's own control loop.
Fairness ==
  /\ WF_vars(Tick) /\ WF_vars(Pass) /\ WF_vars(Guard) /\ WF_vars(Stop)
  /\ WF_vars(LeaseExpires) /\ WF_vars(CommandExpires)

Spec == Init /\ [][Next]_vars /\ Fairness
-----------------------------------------------------------------------------
(* Properties.                                                              *)

CarryIsWhole ==
  /\ session # None /\ endpoint # None /\ carry # None /\ guard
  /\ Held(arm, lease) => arm.guard

Reliable == setting.timely /\ ~ setting.fails /\ ~ setting.expires

\* A confirmed carry is whole: it has its session, an endpoint, a carry id and
\* the mode guard, which Basic enforces as long as the lease is Contact's.
\* When no call is lost, no authorization expires and the loop keeps its rate,
\* Basic also holds its endpoint, through watchdogs, inhibits and replacements
\* of the session (confirm_carry, begin_session, _hold_carrying, _relax).
CarryIsKept ==
  confirmed => /\ CarryIsWhole
               /\ Reliable => Held(arm, lease) /\ arm.cmd # None

\* Under a motion inhibit the only session left is that of a confirmed carry.
InhibitEndsSessions == inhibited /\ session # None => confirmed

\* When no call is lost, an arm without a session follows no command of Contact.
UnattendedArmFloats ==
  ~ setting.fails /\ session = None => arm.cmd \in {None, Foreign}

\* Under the session's lease the arm follows no command of an earlier session,
\* unless it is the carry this one continues.
ArmServesTheSession ==
  session # None /\ Held(arm, lease) /\ arm.cmd # None =>
    arm.cmd.plan = session.plan \/ (confirmed /\ CarryId[arm.cmd.plan] = carry)

\* The arm follows the one admitted session or none: however a session ends,
\* by request, watchdog, inhibit, WARM, stop, expiry or fault, its command does
\* not outlive it, and none but a carry's survives an inhibit (_relax,
\* set_motion_inhibited, Basic's lease and mode guard).
ArmFollowsItsSession ==
  InhibitEndsSessions /\ UnattendedArmFloats /\ ArmServesTheSession

\* "While confirmed, inactivity, authorization expiry, and endpoint replacement
\* gaps hold the last arm target rather than selecting gravity float."
CarryIsHeld == confirmed => arm.cmd # None
=============================================================================
