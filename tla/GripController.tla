--------------------------- MODULE GripController ---------------------------
(***************************************************************************)
(* GripController of the Grip Provider (providers/rebot_arm_grip) beside   *)
(* the Contact Provider: the 50 Hz command stream to Basic's gripper       *)
(* group, contact inference, and the object it binds to a carry that the   *)
(* Contact Provider has confirmed.                                         *)
(*                                                                         *)
(* A command under operation_lock is one step with every call it makes; a  *)
(* call that fails raises there and leaves what the earlier calls did.     *)
(* The client keeps its local lease whatever a call answers, and drops it  *)
(* only once it has asked for its release.                                 *)
(***************************************************************************)
EXTENDS ContactController

VARIABLES
  drive,      \* what the loop sends: target, float or position transition, or position hold
  inferred,   \* contact_inferred
  bound,      \* carry: the carry_id of the bound object
  gripLease,  \* basic.lease: its fencing generation, 0 for none
  healthy,    \* health is HEALTHY
  read,       \* the carry_id that CONFIRM_CARRY has read from the Contact Provider
  ending,     \* the stop request: "no", "asked", "floats", "done"
  group       \* the gripper group in Basic: holder's generation, mode guard, command mode

grip == <<drive, inferred, bound, gripLease, healthy, read, ending, group>>
allVars == <<vars, grip>>

GripTypeOK ==
  /\ drive \in {"none", "grip", "open", "float", "opening", "hold"}
  /\ {inferred, healthy} \subseteq BOOLEAN
  /\ {bound, read} \subseteq {None} \cup {CarryId[p] : p \in Plans}
  /\ gripLease \in 0 .. MaxGeneration
  /\ ending \in {"no", "asked", "floats", "done"}
  /\ group \in [held : 0 .. MaxGeneration, gen : 0 .. MaxGeneration, guard : BOOLEAN,
                cmd : {"none", "effort", "mit"}]

GripInit ==
  /\ Init
  /\ drive = "none"
  /\ inferred = FALSE
  /\ bound = None
  /\ gripLease = 0
  /\ healthy = TRUE
  /\ read = None
  /\ ending = "no"
  /\ group = [held |-> 0, gen |-> 0, guard |-> FALSE, cmd |-> "none"]

-----------------------------------------------------------------------------
(* Calls to Basic: an outcome is the local lease and the group they leave,  *)
(* and whether no call has failed so far.                                   *)

Outcome(l, g, ok) == [lease |-> l, group |-> g, ok |-> ok]
Holds(l, g) == l # 0 /\ g.held = l

Freed(g) == [g EXCEPT !.held = 0, !.guard = FALSE, !.cmd = "none"]

\* _ensure_lease: a local lease is not asked about.
Ensured ==
  LET taken == [group EXCEPT !.held = group.gen + 1, !.gen = @ + 1]
  IN CASE gripLease # 0 -> {Outcome(gripLease, group, TRUE)}
       [] gripLease = 0 /\ (group.held # 0 \/ group.gen = MaxGeneration) ->
            {Outcome(0, group, FALSE)}
       [] OTHER -> {Outcome(taken.gen, taken, TRUE)}
                   \cup IF setting.fails THEN {Outcome(0, g, FALSE) : g \in {group, taken}}
                                         ELSE {}

\* One more call, which Basic serves where may holds, with the effect do.
Then(outcomes, may(_), do(_)) ==
  LET next(o) ==
        LET served == Holds(o.lease, o.group) /\ may(o.group)
            after == IF served THEN do(o.group) ELSE o.group
        IN IF ~ o.ok THEN {o}
           ELSE {Outcome(o.lease, after, served)}
                \cup IF setting.fails
                     THEN {Outcome(o.lease, g, FALSE) : g \in {o.group, after}} ELSE {}
  IN UNION {next(o) : o \in outcomes}

Always(g) == TRUE
Open(g) == ~ g.guard
Primed(g) == g.cmd = "effort"
ToEffort(g) == [g EXCEPT !.cmd = "effort"]
ToMit(g) == [g EXCEPT !.cmd = "mit"]
Guarded(g) == [g EXCEPT !.guard = TRUE]
Clear(g) == [g EXCEPT !.guard = FALSE]
Floating(g) == [g EXCEPT !.cmd = "none"]

\* A target is sent and its mode guarded; or the guard is cleared for MIT.
Efforts == Then(Then(Ensured, Always, ToEffort), Primed, Guarded)
Clearings == Then(Ensured, Always, Clear)

\* The release drops the local lease, whatever it answers.
Releases(outcomes) ==
  UNION {IF o.ok
         THEN {Outcome(0, Freed(o.group), TRUE)}
              \cup IF setting.fails
                   THEN {Outcome(0, g, FALSE) : g \in {o.group, Freed(o.group)}} ELSE {}
         ELSE {o} : o \in outcomes}

\* _finish_float: guard, float, lease.
Finishes ==
  IF gripLease = 0 THEN {Outcome(0, group, TRUE)}
  ELSE Releases(Then(Then({Outcome(gripLease, group, TRUE)}, Always, Clear), Open, Floating))

Leaves(o) == gripLease' = o.lease /\ group' = o.group
-----------------------------------------------------------------------------
(* Commands, under operation_lock.                                          *)

GripLocked == setting.grip /\ read = None /\ ending # "done"

\* A target for the grip, for an expansion, or to open; also while carrying.
SetPositionEffort ==
  /\ GripLocked
  /\ \E o \in Efforts, intent \in {"grip", "open"} :
       /\ Leaves(o)
       /\ IF o.ok THEN drive' = intent /\ inferred' = FALSE ELSE UNCHANGED <<drive, inferred>>
  /\ UNCHANGED <<vars, bound, healthy, read, ending>>

\* Mutant: an opening in MIT is not refused while carrying.
SetMitPositionCarrying ==
  /\ GripLocked
  /\ \E o \in Clearings :
       /\ Leaves(o)
       /\ IF o.ok THEN drive' = "opening" /\ inferred' = FALSE ELSE UNCHANGED <<drive, inferred>>
  /\ UNCHANGED <<vars, bound, healthy, read, ending>>

SetMitPosition ==
  /\ GripLocked /\ bound = None
  /\ \E o \in Clearings :
       /\ Leaves(o)
       /\ IF o.ok THEN drive' = "opening" /\ inferred' = FALSE ELSE UNCHANGED <<drive, inferred>>
  /\ UNCHANGED <<vars, bound, healthy, read, ending>>

EnterMitFloat ==
  /\ GripLocked /\ bound = None
  /\ \E o \in Clearings :
       /\ Leaves(o)
       /\ drive' = IF o.ok THEN "float" ELSE drive
  /\ UNCHANGED <<vars, inferred, bound, healthy, read, ending>>

\* CONFIRM_CARRY reads the carry of the Contact Provider, then the modes of
\* the joints from Basic, and binds the object: the Contact Provider may end
\* its carry in between.
ReadCarry ==
  /\ GripLocked /\ inferred /\ drive \in {"grip", "open"} /\ confirmed
  /\ read' = carry
  /\ UNCHANGED <<vars, drive, inferred, bound, gripLease, healthy, ending, group>>

PosTor == arm.cmd \notin {None, Foreign} /\ group.cmd = "effort"

BindCarry ==
  /\ read # None
  /\ bound' = IF PosTor THEN read ELSE bound
  /\ read' = None
  /\ UNCHANGED <<vars, drive, inferred, gripLease, healthy, ending, group>>

ReleaseObject ==
  /\ GripLocked /\ bound # None
  /\ \E o \in Efforts :
       /\ Leaves(o)
       /\ IF o.ok THEN drive' = "open" /\ bound' = None /\ inferred' = FALSE
                  ELSE UNCHANGED <<drive, bound, inferred>>
  /\ UNCHANGED <<vars, healthy, read, ending>>

GripWarm ==
  /\ GripLocked /\ bound = None
  /\ \E o \in Finishes : Leaves(o) /\ drive' = IF o.ok THEN "none" ELSE drive
  /\ UNCHANGED <<vars, inferred, bound, healthy, read, ending>>

\* The stop request looks at a snapshot; its thread ends the loop, looks
\* again, and floats without operation_lock.
AskGripStop ==
  /\ setting.grip /\ ending = "no" /\ bound = None
  /\ ending' = "asked"
  /\ UNCHANGED <<vars, drive, inferred, bound, gripLease, healthy, read, group>>

GripStop ==
  /\ \/ /\ ending = "asked"
        /\ ending' = IF bound = None THEN "floats" ELSE "done"
        /\ UNCHANGED <<drive, gripLease, group>>
     \/ /\ ending = "floats" /\ ending' = "done"
        /\ \E o \in Finishes : Leaves(o) /\ drive' = IF o.ok THEN "none" ELSE drive
  /\ UNCHANGED <<vars, inferred, bound, healthy, read>>

-----------------------------------------------------------------------------
(* The 50 Hz loop.                                                          *)

Wanted == IF drive \in {"grip", "open"} THEN "effort" ELSE "mit"
Sendable == Holds(gripLease, group) /\ (group.guard => Wanted = "effort")
Sent == [group EXCEPT !.cmd = Wanted]

\* The audit of a bound carry looks at the modes before this turn's command.
\* Mutant: the audit asks the gripper alone.
AuditGripper == IF bound = None THEN healthy ELSE group.cmd = "effort"

Audit == IF bound = None THEN healthy ELSE PosTor

GripTick ==
  /\ setting.grip /\ read = None /\ ending \in {"no", "asked"}
  /\ \/ /\ drive \in {"grip", "open"} /\ Sendable
        /\ group' = Sent /\ healthy' = Audit
        /\ inferred' \in IF drive = "grip" THEN {inferred, TRUE} ELSE {inferred}
        /\ UNCHANGED <<drive, gripLease>>
     \/ /\ drive \in {"opening", "hold"} /\ Sendable
        /\ group' = Sent /\ drive' \in {drive, "hold"}
        /\ UNCHANGED <<inferred, gripLease, healthy>>
     \/ /\ drive = "float" /\ Sendable
        /\ group' = Sent
        /\ UNCHANGED <<drive, inferred, gripLease, healthy>>
     \/ /\ drive = "float" /\ Sendable  \* the last turn of the transition
        /\ \E o \in Finishes :
             /\ Leaves(o)
             /\ IF o.ok THEN drive' = "none" /\ UNCHANGED healthy
                        ELSE healthy' = FALSE /\ UNCHANGED drive
        /\ UNCHANGED inferred
     \/ /\ IF drive = "none" THEN gripLease # 0 /\ ~ Holds(gripLease, group) ELSE ~ Sendable
        /\ healthy' = FALSE
        /\ UNCHANGED <<drive, inferred, gripLease, group>>
     \/ /\ setting.fails
        /\ healthy' = FALSE /\ group' \in {group} \cup IF Sendable THEN {Sent} ELSE {}
        /\ UNCHANGED <<drive, inferred, gripLease>>
  /\ UNCHANGED <<vars, bound, read, ending>>

\* Basic ends a command or a lease that is no longer renewed.
Lapses == ~ setting.timely \/ ending \in {"floats", "done"}

GroupExpires ==
  /\ Lapses
  /\ \/ group.held # 0 /\ group' = Freed(group)
     \/ group.cmd # "none" /\ group' = Floating(group)
  /\ UNCHANGED <<vars, drive, inferred, bound, gripLease, healthy, read, ending>>

GripNext ==
  \/ SetPositionEffort \/ SetMitPosition \/ EnterMitFloat \/ ReadCarry \/ BindCarry
  \/ ReleaseObject \/ GripWarm \/ AskGripStop \/ GripStop \/ GripTick \/ GroupExpires

CarryNext == (Next /\ UNCHANGED grip) \/ GripNext

CarryFairness ==
  /\ WF_allVars(Tick /\ UNCHANGED grip) /\ WF_allVars(Pass /\ UNCHANGED grip)
  /\ WF_allVars(Guard /\ UNCHANGED grip) /\ WF_allVars(Stop /\ UNCHANGED grip)
  /\ WF_allVars(LeaseExpires /\ UNCHANGED grip) /\ WF_allVars(CommandExpires /\ UNCHANGED grip)
  /\ WF_allVars(GripTick) /\ WF_allVars(BindCarry)

CarrySpec == GripInit /\ [][CarryNext]_allVars /\ CarryFairness
-----------------------------------------------------------------------------
(* Properties.                                                              *)

\* A bound object is never driven in MIT: unless a stop has begun to float,
\* the loop sends a position/effort target, and when no call is lost Basic
\* enforces that mode as long as the lease is Grip's (_set_mit_position,
\* _enter_mit_float, enter_warm, _confirm_carry).
BoundIsGripped ==
  bound # None /\ ending \in {"no", "asked"} =>
    /\ drive \in {"grip", "open"}
    /\ ~ setting.fails /\ Holds(gripLease, group) => group.guard

\* A bound object that no Contact session holds any more is noticed: the
\* audit, which sees only the modes of the joints, reports degraded health,
\* unless the object is released or Contact serves a session again.
LooseCarryIsNoticed ==
  bound # None /\ session = None ~>
    ~ healthy \/ bound = None \/ session # None \/ ending # "no"
=============================================================================
