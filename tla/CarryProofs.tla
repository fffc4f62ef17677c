---------------------------- MODULE CarryProofs ----------------------------
(***************************************************************************)
(* What the Contact and the Grip Provider guarantee for any plans,         *)
(* deployments, failures and timing: a confirmed carry is whole, the arm   *)
(* follows the admitted session or none, and a bound object is gripped.    *)
(***************************************************************************)
EXTENDS GripController, TLAPS

\* Without a session nothing is left of one.
NothingIsLeft ==
  /\ session = None => /\ endpoint = None /\ carry = None /\ ~ confirmed /\ ~ guard
                       /\ lease = 0 /\ moving = None
  /\ stopping = "done" => session = None

\* The carry is that of the session's plan; a move that is not yet guarded is the
\* session's.
CarryIsTheSessions ==
  /\ session # None =>
       \/ CarryId[session.plan] = carry
       \/ Behaviour[session.plan] = "NONE" /\ ~ confirmed
  /\ moving # None => ~ guard /\ moving.plan = session.plan
  /\ confirmed => session # None /\ endpoint # None /\ carry # None /\ guard

\* What Basic keeps of the arm group for its holder.
GroupIsItsHolders ==
  /\ lease <= arm.gen
  /\ arm.owner = "none" => ~ arm.guard /\ arm.cmd = None
  /\ arm.owner = "other" => ~ arm.guard /\ arm.cmd \in {None, Foreign}
  /\ arm.owner = "contact" => arm.cmd # Foreign
  /\ guard /\ Held(arm, lease) => arm.guard

\* The commands of plan p are the session's, or those of the carry it continues.
Serves(p) == p = session.plan \/ (confirmed /\ CarryId[p] = carry)
CommandsServe ==
  session # None =>
    /\ endpoint # None => Serves(endpoint.plan)
    /\ Held(arm, lease) /\ arm.cmd # None => Serves(arm.cmd.plan)

\* When no call is lost, the two sides agree on the lease and on the guard.
SidesAgree ==
  ~ setting.fails =>
    /\ arm.owner = "contact" => Held(arm, lease)
    /\ Held(arm, lease) /\ arm.guard => guard

\* Nor does an authorization expire or the loop fall behind: the session's lease
\* and command are younger than their lives.
CommandsAreFresh ==
  Reliable /\ session # None =>
    /\ Held(arm, lease) /\ ~ session.expired
    /\ quiet.lease <= 1 /\ (ticked => quiet.lease = 0)
    /\ moving # None => arm.cmd # None /\ quiet.command = 0
    /\ endpoint # None => /\ arm.cmd # None
                          /\ quiet.command <= 1 /\ (ticked => quiet.command = 0)

\* The inductive invariant of the Contact Provider.
Contact ==
  /\ TypeOK /\ NothingIsLeft /\ CarryIsTheSessions /\ GroupIsItsHolders
  /\ CommandsServe /\ SidesAgree /\ CommandsAreFresh /\ InhibitEndsSessions

\* The inductive invariant of the Grip Provider.
Gripped ==
  /\ GripTypeOK
  /\ (bound # None \/ read # None) /\ ending \in {"no", "asked"} => drive \in {"grip", "open"}
  /\ ~ setting.fails /\ drive \in {"grip", "open"} /\ Holds(gripLease, group) => group.guard

---------------------------------------------------------------------------
\* A group of Basic, and one in which only what its holder commands is in force.
Groups == [owner : {"none", "contact", "other"}, gen : 0 .. MaxGeneration,
           guard : BOOLEAN, cmd : {None, Foreign} \cup Endpoints]
Proper(a) ==
  /\ a \in Groups
  /\ a.owner = "none" => ~ a.guard /\ a.cmd = None
  /\ a.owner = "other" => ~ a.guard /\ a.cmd \in {None, Foreign}
  /\ a.owner = "contact" => a.cmd # Foreign

LEMMA ArmIsProper == ASSUME Contact PROVE Proper(arm)
BY DEF Contact, TypeOK, GroupIsItsHolders, Proper, Groups

\* The effects that Contact's calls and the lapses have on a group.
LEMMA EffectsAreProper ==
  ASSUME NEW a, Proper(a), NEW l
  PROVE  /\ Proper(Free(a)) /\ Free(a).gen = a.gen /\ Free(a).owner = "none"
         /\ Proper(Floats(a)) /\ Floats(a).gen = a.gen /\ Floats(a).owner = a.owner
         /\ Floats(a).guard = a.guard
         /\ Proper(Unguarded(a, l)) /\ Unguarded(a, l).gen = a.gen /\ Unguarded(a, l).owner = a.owner
         /\ Proper(Released(a, l)) /\ Released(a, l).gen = a.gen
         /\ Released(a, l).owner \in {a.owner, "none"}
<1>1. a \in Groups BY DEF Proper
<1>2. Proper(Free(a)) /\ Free(a).gen = a.gen /\ Free(a).owner = "none"
  BY <1>1 DEF Proper, Groups, Free
<1>3. Proper(Floats(a)) /\ Floats(a).gen = a.gen /\ Floats(a).owner = a.owner
      /\ Floats(a).guard = a.guard
  BY <1>1, NothingAssumption DEF Proper, Groups, Floats, Commanded
<1>4. Proper(Unguarded(a, l)) /\ Unguarded(a, l).gen = a.gen /\ Unguarded(a, l).owner = a.owner
  BY <1>1 DEF Proper, Groups, Unguarded, Held
<1>5. Proper(Released(a, l)) /\ Released(a, l).gen = a.gen /\ Released(a, l).owner \in {a.owner, "none"}
  BY <1>1, <1>2 DEF Released
<1> QED BY <1>2, <1>3, <1>4, <1>5

\* Relaxation leaves a proper group.
LEMMA RelaxedIsProper ==
  ASSUME NEW l, NEW arms, \A a \in arms : Proper(a) /\ a.gen = arm.gen
  PROVE  \A a \in Relaxed(l, arms) : Proper(a) /\ a.gen = arm.gen
<1> DEFINE unguard(a) == Unguarded(a, l)
           release(a) == Released(a, l)
           first == IF guard THEN Call(unguard, arms) ELSE arms
           second == Call(Floats, first)
<1>1. \A a \in first : Proper(a) /\ a.gen = arm.gen BY EffectsAreProper DEF Call
<1> HIDE DEF first
<1>2. \A a \in second : Proper(a) /\ a.gen = arm.gen BY <1>1, EffectsAreProper DEF Call
<1> HIDE DEF second
<1>3. \A a \in Call(release, second) : Proper(a) /\ a.gen = arm.gen BY <1>2, EffectsAreProper DEF Call
<1> QED BY <1>3 DEF Relaxed, first, second

\* When no call is lost and the lease, if Contact's, is l, it gives the arm up.
LEMMA RelaxedGivesUp ==
  ASSUME NEW l, ~ setting.fails, Proper(arm), arm.owner = "contact" => Held(arm, l),
         Held(arm, l) /\ arm.guard => guard
  PROVE  \A a \in Relaxed(l, {arm}) : a.owner # "contact"
<1> DEFINE b == IF guard THEN Unguarded(arm, l) ELSE arm
           c == Floats(b)
<1>1. Relaxed(l, {arm}) = {Released(c, l)}
  BY DEF Relaxed, Call
<1>2. Proper(b) /\ b.owner = arm.owner /\ b.gen = arm.gen /\ (Held(arm, l) => ~ b.guard)
  <2>1. arm \in Groups BY DEF Proper
  <2>2. CASE guard BY <2>1, <2>2, EffectsAreProper DEF Unguarded, Groups
  <2>3. CASE ~ guard BY <2>3
  <2> QED BY <2>2, <2>3
<1> HIDE DEF b
<1>3. Proper(c) /\ c.owner = arm.owner /\ c.gen = arm.gen /\ (Held(arm, l) => ~ c.guard)
  BY <1>2, EffectsAreProper
<1> HIDE DEF c
<1>4. CASE Held(arm, l)
  <2>1. Held(c, l) /\ ~ c.guard BY <1>3, <1>4 DEF Held
  <2>2. Released(c, l) = Free(c) BY <2>1 DEF Released
  <2> QED BY <1>1, <1>3, <2>2, EffectsAreProper
<1>5. CASE ~ Held(arm, l) BY <1>1, <1>3, <1>5, EffectsAreProper
<1> QED BY <1>4, <1>5

---------------------------------------------------------------------------
\* Every way in which a session is relaxed.
LEMMA RelaxKeeps ==
  ASSUME Contact, NEW l \in {lease, 0}, NEW arms, Relax(l, arms),
         \A a \in arms : Proper(a) /\ a.gen = arm.gen,
         ~ setting.fails => arms = {arm} /\ (arm.owner = "contact" => Held(arm, l)),
         moving' = None, used' \subseteq Plans, inhibited' \in BOOLEAN, residency' \in {"HOT", "WARM"},
         stopping' \in {"no", "asked", "done"}, ticked' \in BOOLEAN, UNCHANGED <<quiet, setting>>
  PROVE  Contact'
<1>1. /\ session' = None /\ endpoint' = None /\ carry' = None /\ confirmed' = FALSE
      /\ guard' = FALSE /\ lease' = 0
      /\ arm' \in arms \cup Relaxed(l, arms)
      /\ ~ (session = None /\ endpoint = None /\ l = 0) => arm' \in Relaxed(l, arms)
  BY DEF Relax
<1>2. Proper(arm') /\ arm'.gen = arm.gen
  <2>1. \A a \in Relaxed(l, arms) : Proper(a) /\ a.gen = arm.gen BY RelaxedIsProper
  <2> QED BY <1>1, <2>1
<1>3. TypeOK'
  <2>1. arm' \in Groups BY <1>2 DEF Proper
  <2>2. lease' \in 0 .. MaxGeneration BY <1>1, LivesAssumption
  <2>3. /\ {confirmed', guard', inhibited', ticked'} \subseteq BOOLEAN
        /\ quiet' \in [command : 0 .. CommandLife, lease : 0 .. LeaseLife] /\ setting' \in Settings
    BY <1>1 DEF Contact, TypeOK
  <2> QED BY <1>1, <2>1, <2>2, <2>3 DEF TypeOK, Groups
<1>4. NothingIsLeft' BY <1>1 DEF NothingIsLeft
<1>5. CarryIsTheSessions' BY <1>1 DEF CarryIsTheSessions
<1>6. GroupIsItsHolders' BY <1>1, <1>2 DEF GroupIsItsHolders, Proper, Groups
<1>7. CommandsServe' /\ CommandsAreFresh' /\ InhibitEndsSessions'
  BY <1>1 DEF CommandsServe, CommandsAreFresh, InhibitEndsSessions
<1>8. ASSUME ~ setting.fails PROVE arm'.owner # "contact"
  <2>1. CASE session = None /\ endpoint = None /\ l = 0
    <3>1. lease = 0 BY <2>1 DEF Contact, NothingIsLeft
    <3>2. arm.owner # "contact" BY <3>1, <1>8 DEF Contact, SidesAgree, Held
    <3> QED BY <1>8, <2>1, <3>2 DEF Relax
  <2>2. CASE ~ (session = None /\ endpoint = None /\ l = 0)
    <3>1. Held(arm, l) => Held(arm, lease) BY DEF Held
    <3>2. Held(arm, l) /\ arm.guard => guard BY <1>8, <3>1 DEF Contact, SidesAgree
    <3> QED BY <1>1, <1>8, <2>2, <3>2, RelaxedGivesUp, ArmIsProper
  <2> QED BY <2>1, <2>2
<1>9. SidesAgree' BY <1>8 DEF SidesAgree, Held
<1> QED BY <1>3, <1>4, <1>5, <1>6, <1>7, <1>9 DEF Contact

\* A step that only Basic or time takes.
LEMMA BasicKeeps ==
  ASSUME Contact, UNCHANGED <<contact, setting>>, ticked' \in BOOLEAN,
         quiet' \in [command : 0 .. CommandLife, lease : 0 .. LeaseLife],
         Proper(arm'), arm'.gen >= arm.gen,
         Held(arm, lease)' => Held(arm, lease) /\ arm'.guard = arm.guard /\ arm'.cmd \in {arm.cmd, None},
         arm'.owner = "contact" => arm.owner = "contact" /\ arm'.gen = arm.gen,
         CommandsAreFresh'
  PROVE  Contact'
<1>1. UNCHANGED <<session, endpoint, carry, confirmed, guard, lease, used, inhibited, residency,
                  stopping, moving, setting>>
  BY DEF contact
<1>2. TypeOK' BY <1>1 DEF Contact, TypeOK, Proper, Groups
<1>3. NothingIsLeft' /\ CarryIsTheSessions' /\ InhibitEndsSessions'
  BY <1>1 DEF Contact, NothingIsLeft, CarryIsTheSessions, InhibitEndsSessions
<1>4. GroupIsItsHolders'
  <2>1. lease' <= arm'.gen BY <1>1 DEF Contact, TypeOK, GroupIsItsHolders, Proper, Groups
  <2> QED BY <1>1, <2>1 DEF Contact, GroupIsItsHolders, Proper, Held
<1>5. CommandsServe' BY <1>1 DEF Contact, CommandsServe, Serves, Held
<1>6. SidesAgree' BY <1>1 DEF Contact, SidesAgree, Held
<1> QED BY <1>2, <1>3, <1>4, <1>5, <1>6 DEF Contact

LEMMA LapsesKeep ==
  ASSUME Contact, CommandLife > 1, LeaseLife > 1, LeaseExpires \/ CommandExpires
  PROVE  Contact'
<1>1. Proper(arm) BY ArmIsProper
<1>2. UNCHANGED <<contact, quiet, ticked, setting>> BY DEF LeaseExpires, CommandExpires
<1>3. UNCHANGED <<session, endpoint, lease, moving>> BY <1>2 DEF contact
<1>4. CASE LeaseExpires
  <2>1. arm' = Free(arm) /\ Overdue("lease", LeaseLife) BY <1>4 DEF LeaseExpires
  <2>2. Proper(arm') /\ arm'.gen = arm.gen /\ arm'.owner = "none" BY <1>1, <2>1, EffectsAreProper
  <2>3. CommandsAreFresh'
    <3>1. ~ (Reliable /\ session # None)
      BY <2>1, LivesAssumption DEF Contact, CommandsAreFresh, Reliable, Overdue, Held
    <3> QED BY <1>2, <1>3, <3>1 DEF CommandsAreFresh, Reliable
  <2> QED BY <1>1, <1>2, <2>2, <2>3, BasicKeeps DEF Contact, TypeOK, Proper, Groups, Held
<1>5. CASE CommandExpires
  <2>1. arm' = Commanded(arm, None) /\ Overdue("command", CommandLife) BY <1>5 DEF CommandExpires
  <2>2. /\ Proper(arm') /\ arm'.gen = arm.gen /\ arm'.owner = arm.owner /\ arm'.guard = arm.guard
        /\ arm'.cmd = None
    BY <1>1, <2>1, NothingAssumption DEF Proper, Groups, Commanded
  <2>3. CommandsAreFresh'
    <3>1. Reliable /\ session # None => endpoint = None /\ moving = None
      BY <2>1, LivesAssumption DEF Contact, CommandsAreFresh, Reliable, Overdue, Held
    <3> QED BY <1>2, <1>3, <2>2, <3>1 DEF Contact, CommandsAreFresh, Reliable, Held
  <2> QED BY <1>1, <1>2, <1>3, <2>2, <2>3, BasicKeeps DEF Contact, TypeOK, Proper, Groups, Held
<1> QED BY <1>4, <1>5

LEMMA TakeFacts ==
  ASSUME Contact, NEW owner \in {"contact", "other"}, Take(owner)
  PROVE  /\ Proper(arm') /\ arm'.gen = arm.gen + 1 /\ arm'.owner = owner /\ arm'.cmd = None /\ ~ arm'.guard
         /\ quiet' \in [command : 0 .. CommandLife, lease : 0 .. LeaseLife] /\ quiet'.lease = 0
         /\ quiet'.command = quiet.command
         /\ arm.owner = "none" /\ arm'.gen \in 0 .. MaxGeneration /\ lease < arm'.gen
<1>1. arm \in Groups /\ Proper(arm) BY ArmIsProper DEF Proper
<1>2. /\ arm.owner = "none" /\ arm.gen < MaxGeneration
      /\ arm' = [arm EXCEPT !.owner = owner, !.gen = @ + 1] /\ quiet' = [quiet EXCEPT !.lease = 0]
  BY DEF Take
<1>3. arm.gen + 1 \in 0 .. MaxGeneration BY <1>1, <1>2, LivesAssumption DEF Groups
<1>4. arm' \in Groups /\ arm'.gen = arm.gen + 1 /\ arm'.owner = owner /\ arm'.cmd = None /\ ~ arm'.guard
  BY <1>1, <1>2, <1>3 DEF Groups, Proper
<1>5. Proper(arm') BY <1>4, NothingAssumption DEF Proper
<1>6. /\ quiet' \in [command : 0 .. CommandLife, lease : 0 .. LeaseLife] /\ quiet'.lease = 0
      /\ quiet'.command = quiet.command
  BY <1>2, LivesAssumption DEF Contact, TypeOK
<1>7. lease < arm'.gen
  BY <1>1, <1>4 DEF Contact, GroupIsItsHolders, TypeOK, Groups
<1> QED BY <1>2, <1>3, <1>4, <1>5, <1>6, <1>7

LEMMA OtherKeeps == ASSUME Contact, Other PROVE Contact'
<1>1. Proper(arm) /\ UNCHANGED <<contact, ticked, setting>> BY ArmIsProper DEF Other
<1>2. ~ Held(arm, lease) BY DEF Other, Take, Held
<1>3. UNCHANGED <<session, lease>> BY <1>1 DEF contact
<1>4. CommandsAreFresh'
  BY <1>1, <1>2, <1>3 DEF Contact, CommandsAreFresh, Reliable
<1>5. CASE Take("other")
  BY <1>1, <1>4, <1>5, TakeFacts, BasicKeeps DEF Held, Proper, Groups, Contact, TypeOK
<1>6. CASE arm.owner = "other" /\ arm' \in {Commanded(arm, Foreign), Free(arm)} /\ UNCHANGED quiet
  <2>1. Proper(arm') /\ arm'.gen = arm.gen /\ arm'.owner # "contact"
    BY <1>1, <1>6, EffectsAreProper, NothingAssumption DEF Proper, Groups, Commanded
  <2> QED BY <1>1, <1>4, <1>6, <2>1, BasicKeeps DEF Held, Contact, TypeOK, Proper, Groups
<1> QED BY <1>5, <1>6 DEF Other

LEMMA PassKeeps == ASSUME Contact, CommandLife > 1, LeaseLife > 1, Pass PROVE Contact'
<1>1. /\ ticked \/ stopping = "done"
      /\ moving = None /\ ticked' = FALSE /\ UNCHANGED <<contact, arm, setting>>
      /\ quiet' = [command |-> Later("command", CommandLife), lease |-> Later("lease", LeaseLife)]
  BY DEF Pass, Locked
<1>2. UNCHANGED <<session, endpoint, lease, moving>> BY <1>1 DEF contact
<1>3. quiet.command \in 0 .. CommandLife /\ quiet.lease \in 0 .. LeaseLife BY DEF Contact, TypeOK
<1>4. /\ quiet'.command \in 0 .. CommandLife /\ quiet'.lease \in 0 .. LeaseLife
      /\ quiet.command = 0 => quiet'.command = 1
      /\ quiet.lease = 0 => quiet'.lease = 1
  BY <1>1, <1>3, LivesAssumption DEF Later
<1>5. quiet' \in [command : 0 .. CommandLife, lease : 0 .. LeaseLife] BY <1>1, <1>4
<1>6. CommandsAreFresh'
  BY <1>1, <1>2, <1>4 DEF Contact, NothingIsLeft, CommandsAreFresh, Reliable, Held
<1>7. Proper(arm') /\ arm'.gen >= arm.gen /\ (Held(arm, lease)' => Held(arm, lease))
  <2>1. Proper(arm) /\ arm.gen \in Nat BY ArmIsProper DEF Proper, Groups
  <2> QED BY <1>1, <1>2, <2>1 DEF Held
<1> QED BY <1>1, <1>5, <1>6, <1>7, BasicKeeps

---------------------------------------------------------------------------
\* A plan becomes the session, or Basic serves an acquisition that is lost.
LEMMA BeginKeeps ==
  ASSUME Contact, CommandLife > 1, LeaseLife > 1, NEW p \in Plans, Begin(p) PROVE Contact'
<1>1. /\ moving = None /\ stopping # "done" /\ ~ inhibited
      /\ UNCHANGED <<guard, inhibited, residency, stopping, moving, ticked, setting>>
      /\ session = None => Behaviour[p] # "CONTINUE"
      /\ session # None => Continues(p)
  BY DEF Begin, Locked, Admits
<1>2. arm.gen \in Nat /\ Proper(arm) BY ArmIsProper DEF Proper, Groups
<1>3. CASE setting.fails /\ session = None /\ Take("contact")
           /\ UNCHANGED <<session, endpoint, carry, confirmed, lease, used>>
  <2>1. ~ Reliable BY <1>3 DEF Reliable
  <2>2. lease = 0 BY <1>3 DEF Contact, NothingIsLeft
  <2>3. Proper(arm') /\ quiet' \in [command : 0 .. CommandLife, lease : 0 .. LeaseLife]
    BY <1>3, TakeFacts
  <2>4. TypeOK' BY <1>1, <1>3, <2>3 DEF Contact, TypeOK, Proper, Groups
  <2>5. NothingIsLeft' /\ CarryIsTheSessions' /\ InhibitEndsSessions' /\ CommandsServe'
    BY <1>1, <1>3 DEF Contact, NothingIsLeft, CarryIsTheSessions, InhibitEndsSessions, CommandsServe
  <2>6. GroupIsItsHolders'
    BY <1>1, <1>3, <2>2, <2>3, TakeFacts DEF GroupIsItsHolders, Proper, Held
  <2>7. SidesAgree' /\ CommandsAreFresh'
    BY <1>1, <1>3 DEF SidesAgree, CommandsAreFresh, Reliable
  <2> QED BY <2>4, <2>5, <2>6, <2>7 DEF Contact
<1>4. CASE /\ IF session = None
              THEN Take("contact") /\ lease' = arm'.gen /\ endpoint' = None
              ELSE lease # 0 /\ UNCHANGED <<basic, lease, endpoint>>
           /\ session' = [plan |-> p, accepted |-> 0, expired |-> FALSE, due |-> "running"]
           /\ used' = used \cup {p}
           /\ carry' = IF Behaviour[p] = "PREPARE" THEN CarryId[p] ELSE carry
           /\ UNCHANGED confirmed
  <2>1. /\ session' \in Sessions /\ session' # None /\ session'.plan = p /\ ~ session'.expired
        /\ used' \subseteq Plans
        /\ carry' \in {None} \cup {CarryId[q] : q \in Plans}
    <3>1. session' \in Sessions BY <1>4 DEF Sessions
    <3>2. used' \subseteq Plans BY <1>4 DEF Contact, TypeOK
    <3>3. carry' \in {None} \cup {CarryId[q] : q \in Plans} BY <1>4 DEF Contact, TypeOK
    <3> QED BY <1>4, <3>1, <3>2, <3>3, NothingAssumption
  <2>2. CASE session = None
    <3>1. Take("contact") /\ lease' = arm'.gen /\ endpoint' = None BY <1>4, <2>2
    <3>2. /\ Proper(arm') /\ arm'.gen = arm.gen + 1 /\ arm'.owner = "contact" /\ arm'.cmd = None /\ ~ arm'.guard
          /\ quiet' \in [command : 0 .. CommandLife, lease : 0 .. LeaseLife] /\ quiet'.lease = 0
          /\ arm'.gen \in 0 .. MaxGeneration
      BY <3>1, TakeFacts
    <3>3. ~ guard /\ ~ confirmed BY <2>2 DEF Contact, NothingIsLeft
    <3>4. TypeOK' BY <1>1, <1>4, <2>1, <3>1, <3>2 DEF Contact, TypeOK, Proper, Groups
    <3>5. NothingIsLeft' BY <1>1, <2>1 DEF NothingIsLeft
    <3>6. CarryIsTheSessions'
      BY <1>1, <1>4, <2>1, <2>2, <3>3, PlansAssumption DEF CarryIsTheSessions
    <3>7. GroupIsItsHolders' BY <1>1, <3>1, <3>2, <3>3 DEF GroupIsItsHolders, Proper
    <3>8. CommandsServe' BY <3>1, <3>2 DEF CommandsServe
    <3>9. Held(arm, lease)' BY <1>2, <3>1, <3>2 DEF Held
    <3>10. SidesAgree' BY <3>2, <3>9 DEF SidesAgree
    <3>11. CommandsAreFresh' BY <1>1, <2>1, <3>1, <3>2, <3>9 DEF CommandsAreFresh
    <3>12. InhibitEndsSessions' BY <1>1 DEF InhibitEndsSessions
    <3> QED BY <3>4, <3>5, <3>6, <3>7, <3>8, <3>10, <3>11, <3>12 DEF Contact
  <2>3. CASE session # None
    <3>1. /\ UNCHANGED <<arm, quiet, lease, endpoint, confirmed>>
          /\ confirmed /\ Behaviour[p] = "CONTINUE" /\ CarryId[p] = carry /\ carry' = carry
      BY <1>1, <1>4, <2>3 DEF basic, Continues
    <3>2. TypeOK' BY <1>1, <2>1, <3>1 DEF Contact, TypeOK
    <3>3. NothingIsLeft' BY <1>1, <2>1 DEF NothingIsLeft
    <3>4. CarryIsTheSessions'
      BY <1>1, <2>1, <3>1 DEF Contact, CarryIsTheSessions
    <3>5. GroupIsItsHolders' /\ SidesAgree'
      BY <1>1, <3>1 DEF Contact, GroupIsItsHolders, SidesAgree, Held
    <3>6. CommandsServe'
      <4>1. CarryId[session.plan] = carry BY <2>3, <3>1 DEF Contact, CarryIsTheSessions
      <4> QED BY <2>3, <3>1, <4>1 DEF Contact, CommandsServe, Serves, Held
    <3>7. CommandsAreFresh'
      BY <1>1, <2>1, <2>3, <3>1 DEF Contact, CommandsAreFresh, Reliable, Held
    <3>8. InhibitEndsSessions' BY <1>1 DEF InhibitEndsSessions
    <3> QED BY <3>2, <3>3, <3>4, <3>5, <3>6, <3>7, <3>8 DEF Contact
  <2> QED BY <2>2, <2>3
<1> QED BY <1>3, <1>4 DEF Begin

---------------------------------------------------------------------------
\* A step is accepted under the session's lease, to the endpoint e.
LEMMA AcceptFacts ==
  ASSUME Contact, session # None, NEW e, Accept(e)
  PROVE  /\ session' \in Sessions /\ session' # None /\ session'.plan = session.plan
         /\ session'.expired = session.expired /\ endpoint' = e
<1>1. session \in Sessions BY DEF Contact, TypeOK
<1>2. session' = [session EXCEPT !.accepted = @ + 1, !.due = "running"] /\ endpoint' = e BY DEF Accept
<1>3. session' \in Sessions
  <2>1. session.accepted + 1 \in Nat BY <1>1 DEF Sessions
  <2> QED BY <1>1, <1>2, <2>1 DEF Sessions
<1>4. session'.plan = session.plan /\ session'.expired = session.expired
  BY <1>1, <1>2 DEF Sessions
<1> QED BY <1>2, <1>3, <1>4, NothingAssumption

\* A step that leaves the carry, the guard and the plan of the session as they
\* are, and what Basic has of it.
LEMMA SessionKeeps ==
  ASSUME Contact, session # None, session' \in Sessions, session'.plan = session.plan,
         session'.expired = session.expired \/ ~ Reliable,
         endpoint' \in {None} \cup Endpoints, endpoint # None => endpoint' # None,
         endpoint' # None => Serves(endpoint'.plan),
         moving' \in {None} \cup Endpoints, moving' # None => ~ guard /\ moving'.plan = session.plan,
         lease' \in {lease, 0}, lease' = 0 => lease = 0 \/ ~ Held(arm, lease),
         Proper(arm'), arm'.gen = arm.gen, arm'.owner = arm.owner, arm'.guard = arm.guard,
         Held(arm, lease) /\ arm'.cmd # None => arm.cmd = arm'.cmd \/ Serves(arm'.cmd.plan),
         quiet' \in [command : 0 .. CommandLife, lease : 0 .. LeaseLife], ticked' \in BOOLEAN,
         CommandsAreFresh',
         inhibited' \in BOOLEAN, inhibited' => inhibited \/ confirmed,
         UNCHANGED <<carry, confirmed, guard, used, residency, stopping, setting>>
  PROVE  Contact'
<1>1. session' # None BY NothingAssumption
<1>2. TypeOK' BY LivesAssumption DEF Contact, TypeOK, Proper, Groups
<1>3. NothingIsLeft' BY <1>1 DEF Contact, NothingIsLeft
<1>4. CarryIsTheSessions' BY <1>1 DEF Contact, CarryIsTheSessions
<1>5. Held(arm, lease)' => Held(arm, lease) BY DEF Held
<1>6. GroupIsItsHolders'
  BY <1>5, LivesAssumption DEF Contact, TypeOK, GroupIsItsHolders, Proper, Groups
<1>7. CommandsServe' BY <1>5 DEF Contact, CommandsServe, Serves
<1>8. SidesAgree'
  <2>1. Held(arm, lease) => Held(arm, lease)' BY DEF Held
  <2> QED BY <1>5, <2>1 DEF Contact, SidesAgree
<1>9. InhibitEndsSessions' BY DEF Contact, InhibitEndsSessions
<1> QED BY <1>2, <1>3, <1>4, <1>6, <1>7, <1>8, <1>9 DEF Contact

\* A step that touches neither the session nor Basic.
LEMMA StillKeeps ==
  ASSUME Contact, UNCHANGED <<session, endpoint, carry, confirmed, guard, lease, moving, arm, quiet, used, setting>>,
         inhibited' \in BOOLEAN, inhibited' /\ session # None => inhibited \/ confirmed,
         residency' \in {"HOT", "WARM"}, stopping' \in {"no", "asked", "done"},
         stopping' = "done" => stopping = "done",
         ticked' \in BOOLEAN, ticked' => ticked \/ session = None
  PROVE  Contact'
<1>1. TypeOK' BY DEF Contact, TypeOK
<1>2. NothingIsLeft' /\ CarryIsTheSessions' /\ GroupIsItsHolders'
  BY DEF Contact, NothingIsLeft, CarryIsTheSessions, GroupIsItsHolders, Held
<1>3. CommandsServe' /\ SidesAgree' BY DEF Contact, CommandsServe, Serves, SidesAgree, Held
<1>4. CommandsAreFresh' BY DEF Contact, CommandsAreFresh, Reliable, Held
<1>5. InhibitEndsSessions' BY DEF Contact, InhibitEndsSessions
<1> QED BY <1>1, <1>2, <1>3, <1>4, <1>5 DEF Contact

LEMMA MoveKeeps == ASSUME Contact, Move PROVE Contact'
<1>1. /\ moving = None /\ session # None
      /\ UNCHANGED <<carry, confirmed, guard, used, inhibited, residency, stopping, ticked, setting>>
  BY DEF Move, Locked
<1>2. PICK complete \in BOOLEAN :
        LET e == [plan |-> session.plan, step |-> session.accepted, complete |-> complete]
        IN \/ /\ Held(arm, lease)
              /\ arm' = Commanded(arm, e) /\ quiet' = [quiet EXCEPT !.command = 0]
              /\ IF guard THEN Accept(e) /\ UNCHANGED moving
                          ELSE moving' = e /\ UNCHANGED <<session, endpoint>>
              /\ UNCHANGED lease
           \/ /\ ~ Held(arm, lease) /\ lease' = 0
              /\ UNCHANGED <<basic, session, endpoint, moving>>
           \/ /\ Held(arm, lease) /\ arm' \in Lost(Commanded(arm, e))
              /\ quiet' = [quiet EXCEPT !.command = 0]
              /\ UNCHANGED <<session, endpoint, lease, moving>>
  BY DEF Move
<1> DEFINE e == [plan |-> session.plan, step |-> session.accepted, complete |-> complete]
<1>3. session \in Sessions BY <1>1 DEF Contact, TypeOK
<1>4. e \in Endpoints /\ e.plan = session.plan BY <1>3 DEF Sessions, Endpoints
<1>5. e # None /\ e # Foreign BY <1>4, NothingAssumption
<1>6. /\ \/ /\ Held(arm, lease)
            /\ arm' = Commanded(arm, e) /\ quiet' = [quiet EXCEPT !.command = 0]
            /\ IF guard THEN Accept(e) /\ UNCHANGED moving
                        ELSE moving' = e /\ UNCHANGED <<session, endpoint>>
            /\ UNCHANGED lease
         \/ /\ ~ Held(arm, lease) /\ lease' = 0
            /\ UNCHANGED <<basic, session, endpoint, moving>>
         \/ /\ Held(arm, lease) /\ arm' \in Lost(Commanded(arm, e))
            /\ quiet' = [quiet EXCEPT !.command = 0]
            /\ UNCHANGED <<session, endpoint, lease, moving>>
  BY <1>2
<1> HIDE DEF e
<1>7. Proper(arm) /\ arm \in Groups BY ArmIsProper DEF Proper
<1>8. Held(arm, lease) =>
        /\ Proper(Commanded(arm, e)) /\ Commanded(arm, e).gen = arm.gen
        /\ Commanded(arm, e).owner = arm.owner /\ Commanded(arm, e).guard = arm.guard
        /\ Commanded(arm, e).cmd = e
  BY <1>4, <1>5, <1>7 DEF Proper, Groups, Commanded, Held
<1>9. Serves(e.plan) BY <1>4 DEF Serves
<1>10. [quiet EXCEPT !.command = 0] \in [command : 0 .. CommandLife, lease : 0 .. LeaseLife]
       /\ [quiet EXCEPT !.command = 0].command = 0 /\ [quiet EXCEPT !.command = 0].lease = quiet.lease
  BY LivesAssumption DEF Contact, TypeOK
<1>11. endpoint # None => Serves(endpoint.plan) BY <1>1 DEF Contact, CommandsServe
<1>12. endpoint \in {None} \cup Endpoints /\ ticked \in BOOLEAN /\ inhibited \in BOOLEAN
       /\ quiet \in [command : 0 .. CommandLife, lease : 0 .. LeaseLife]
  BY DEF Contact, TypeOK
<1>13. CASE Held(arm, lease) /\ arm' = Commanded(arm, e) /\ quiet' = [quiet EXCEPT !.command = 0]
            /\ guard /\ Accept(e) /\ UNCHANGED <<moving, lease>>
  <2>1. /\ session' \in Sessions /\ session'.plan = session.plan
        /\ session'.expired = session.expired /\ endpoint' = e
    BY <1>1, <1>13, AcceptFacts
  <2>2. CommandsAreFresh'
    BY <1>1, <1>5, <1>8, <1>10, <1>13, <2>1 DEF Contact, CommandsAreFresh, Reliable, Held
  <2> QED BY <1>1, <1>4, <1>5, <1>8, <1>9, <1>10, <1>12, <1>13, <2>1, <2>2, SessionKeeps
<1>14. CASE Held(arm, lease) /\ arm' = Commanded(arm, e) /\ quiet' = [quiet EXCEPT !.command = 0]
            /\ ~ guard /\ moving' = e /\ UNCHANGED <<session, endpoint, lease>>
  <2>1. CommandsAreFresh'
    BY <1>1, <1>5, <1>8, <1>10, <1>14 DEF Contact, CommandsAreFresh, Reliable, Held
  <2> QED BY <1>1, <1>3, <1>4, <1>5, <1>8, <1>9, <1>10, <1>11, <1>12, <1>14, <2>1, SessionKeeps
<1>15. CASE ~ Held(arm, lease) /\ lease' = 0 /\ UNCHANGED <<basic, session, endpoint, moving>>
  <2>1. UNCHANGED <<arm, quiet>> BY <1>15 DEF basic
  <2>2. CommandsAreFresh'
    BY <1>1, <1>15, <2>1 DEF Contact, CommandsAreFresh, Reliable
  <2> QED BY <1>1, <1>3, <1>7, <1>11, <1>12, <1>15, <2>1, <2>2, SessionKeeps
<1>16. CASE Held(arm, lease) /\ arm' \in Lost(Commanded(arm, e))
            /\ quiet' = [quiet EXCEPT !.command = 0] /\ UNCHANGED <<session, endpoint, lease, moving>>
  <2>1. setting.fails /\ arm' \in {arm, Commanded(arm, e)} BY <1>16 DEF Lost
  <2>2. CommandsAreFresh' BY <1>1, <2>1 DEF CommandsAreFresh, Reliable
  <2>3. /\ Proper(arm') /\ arm'.gen = arm.gen /\ arm'.owner = arm.owner /\ arm'.guard = arm.guard
        /\ arm'.cmd # None => arm.cmd = arm'.cmd \/ Serves(arm'.cmd.plan)
    BY <1>7, <1>8, <1>9, <1>16, <2>1
  <2> QED BY <1>1, <1>3, <1>10, <1>11, <1>12, <1>16, <2>2, <2>3, SessionKeeps
<1> QED BY <1>6, <1>13, <1>14, <1>15, <1>16

LEMMA GuardKeeps == ASSUME Contact, Guard PROVE Contact'
<1> DEFINE guarded == [arm EXCEPT !.guard = TRUE]
           primed == Held(arm, lease) /\ arm.cmd # None
<1>1. /\ moving # None /\ moving' = None
      /\ UNCHANGED <<used, inhibited, residency, stopping, quiet, ticked, setting>>
      /\ \/ /\ primed /\ arm' = guarded /\ guard' = TRUE
            /\ Accept(moving)
            /\ UNCHANGED <<carry, confirmed, lease>>
         \/ ~ primed /\ Relax(lease, {arm})
         \/ primed /\ setting.fails /\ Relax(lease, {arm, guarded})
  BY DEF Guard
<1>2. /\ session # None /\ ~ guard /\ ~ confirmed /\ moving.plan = session.plan
      /\ moving \in Endpoints
  BY <1>1 DEF Contact, NothingIsLeft, CarryIsTheSessions, TypeOK
<1>3. Proper(arm) /\ arm \in Groups BY ArmIsProper DEF Proper
<1>4. primed => /\ Proper(guarded) /\ guarded.gen = arm.gen /\ guarded.owner = arm.owner
                /\ guarded.guard /\ guarded.cmd = arm.cmd
  BY <1>3 DEF Proper, Groups, Held
<1> HIDE DEF guarded
<1>5. CASE primed /\ arm' = guarded /\ guard' = TRUE /\ Accept(moving) /\ UNCHANGED <<carry, confirmed, lease>>
  <2>1. /\ session' \in Sessions /\ session' # None /\ session'.plan = session.plan
        /\ session'.expired = session.expired /\ endpoint' = moving
    BY <1>2, <1>5, AcceptFacts
  <2>2. Held(arm, lease)' BY <1>4, <1>5 DEF Held
  <2>3. TypeOK' BY <1>1, <1>2, <1>4, <1>5, <2>1 DEF Contact, TypeOK, Proper, Groups
  <2>4. NothingIsLeft' BY <1>1, <1>2, <2>1 DEF Contact, NothingIsLeft
  <2>5. CarryIsTheSessions' BY <1>1, <1>2, <1>5, <2>1 DEF Contact, CarryIsTheSessions
  <2>6. GroupIsItsHolders' BY <1>4, <1>5 DEF Contact, GroupIsItsHolders, Proper
  <2>7. CommandsServe' BY <1>2, <1>4, <1>5, <2>1 DEF Contact, CommandsServe, Serves, Held
  <2>8. SidesAgree' BY <1>4, <1>5, <2>2, <1>1 DEF SidesAgree
  <2>9. CommandsAreFresh'
    BY <1>1, <1>2, <1>4, <1>5, <2>1, <2>2 DEF Contact, CommandsAreFresh, Reliable
  <2>10. InhibitEndsSessions' BY <1>1, <1>2 DEF Contact, InhibitEndsSessions
  <2> QED BY <2>3, <2>4, <2>5, <2>6, <2>7, <2>8, <2>9, <2>10 DEF Contact
<1>6. CASE ~ primed /\ Relax(lease, {arm})
  BY <1>1, <1>3, <1>6, RelaxKeeps DEF Contact, TypeOK, SidesAgree
<1>7. CASE primed /\ setting.fails /\ Relax(lease, {arm, guarded})
  BY <1>1, <1>3, <1>4, <1>7, RelaxKeeps DEF Contact, TypeOK
<1> QED BY <1>1, <1>5, <1>6, <1>7

LEMMA ConfirmCarryKeeps == ASSUME Contact, ConfirmCarry PROVE Contact'
<1>1. /\ session # None /\ Behaviour[session.plan] = "PREPARE" /\ endpoint # None /\ guard
      /\ confirmed' = TRUE /\ session' = [session EXCEPT !.due = "never"] /\ moving = None
      /\ UNCHANGED <<endpoint, carry, guard, lease, used, inhibited, residency, stopping, moving,
                     arm, quiet, ticked, setting>>
  BY DEF ConfirmCarry, basic, Locked
<1>2. session \in Sessions BY <1>1 DEF Contact, TypeOK
<1>3. /\ session' \in Sessions /\ session'.plan = session.plan /\ session'.expired = session.expired
  BY <1>1, <1>2 DEF Sessions
<1>4. session' # None BY <1>3, NothingAssumption
<1>5. carry # None /\ CarryId[session.plan] = carry
  <2>1. session.plan \in Plans BY <1>2 DEF Sessions
  <2> QED BY <1>1, <2>1, PlansAssumption DEF Contact, CarryIsTheSessions
<1>6. TypeOK' BY <1>1, <1>3 DEF Contact, TypeOK
<1>7. NothingIsLeft' BY <1>1, <1>4 DEF Contact, NothingIsLeft
<1>8. CarryIsTheSessions' BY <1>1, <1>3, <1>4, <1>5 DEF CarryIsTheSessions
<1>9. GroupIsItsHolders' /\ SidesAgree' BY <1>1 DEF Contact, GroupIsItsHolders, SidesAgree, Held
<1>10. CommandsServe' BY <1>1, <1>3 DEF Contact, CommandsServe, Serves, Held
<1>11. CommandsAreFresh' BY <1>1, <1>3 DEF Contact, CommandsAreFresh, Reliable, Held
<1>12. InhibitEndsSessions' BY <1>1 DEF InhibitEndsSessions
<1> QED BY <1>6, <1>7, <1>8, <1>9, <1>10, <1>11, <1>12 DEF Contact

\* What is left of a session that only holds.
LEMMA HoldKeeps ==
  ASSUME Contact, confirmed, Hold, UNCHANGED <<used, residency, stopping, moving, quiet, setting>>,
         inhibited' \in BOOLEAN, ticked' \in BOOLEAN, Reliable /\ ticked' => ticked
  PROVE  Contact'
<1>1. session # None /\ endpoint # None BY DEF Contact, CarryIsTheSessions
<1>2. session \in Sessions /\ endpoint \in Endpoints BY <1>1 DEF Contact, TypeOK
<1>3. /\ endpoint' = [endpoint EXCEPT !.complete = TRUE] /\ session' = [session EXCEPT !.due = "never"]
      /\ UNCHANGED <<carry, confirmed, guard, lease, arm>>
  BY DEF Hold
<1>4. /\ session' \in Sessions /\ session'.plan = session.plan /\ session'.expired = session.expired
  BY <1>2, <1>3 DEF Sessions
<1>5. endpoint' \in Endpoints /\ endpoint'.plan = endpoint.plan BY <1>2, <1>3 DEF Endpoints
<1>6. endpoint' # None /\ session' # None BY <1>4, <1>5, NothingAssumption
<1>7. Serves(endpoint'.plan) BY <1>1, <1>5 DEF Contact, CommandsServe, Serves
<1>8. CommandsAreFresh' BY <1>1, <1>3, <1>4 DEF Contact, CommandsAreFresh, Reliable, Held
<1>9. /\ moving \in {None} \cup Endpoints /\ quiet \in [command : 0 .. CommandLife, lease : 0 .. LeaseLife]
      /\ moving # None => ~ guard /\ moving.plan = session.plan
  BY DEF Contact, TypeOK, CarryIsTheSessions
<1> QED BY <1>1, <1>3, <1>4, <1>5, <1>6, <1>7, <1>8, <1>9, ArmIsProper, SessionKeeps

LEMMA RequestsKeep ==
  ASSUME Contact, RelaxRequest \/ EnterHot \/ EnterWarm \/ SetMotionInhibited \/ AskStop \/ Stop
  PROVE  Contact'
<1>1. ~ setting.fails => (arm.owner = "contact" => Held(arm, lease)) BY DEF Contact, SidesAgree
<1>2. /\ used \subseteq Plans /\ inhibited \in BOOLEAN /\ residency \in {"HOT", "WARM"}
      /\ stopping \in {"no", "asked", "done"} /\ ticked \in BOOLEAN
  BY DEF Contact, TypeOK
<1>3. CASE RelaxRequest
  BY <1>1, <1>2, <1>3, ArmIsProper, RelaxKeeps DEF RelaxRequest, Locked
<1>4. CASE EnterWarm
  BY <1>1, <1>2, <1>4, ArmIsProper, RelaxKeeps DEF EnterWarm, Locked
<1>5. CASE Stop
  BY <1>1, <1>2, <1>5, ArmIsProper, RelaxKeeps DEF Stop, Locked
<1>6. CASE EnterHot
  BY <1>2, <1>6, StillKeeps DEF EnterHot, basic
<1>7. CASE AskStop
  BY <1>2, <1>7, StillKeeps DEF AskStop, basic
<1>8. CASE SetMotionInhibited
  <2>1. /\ moving = None /\ inhibited' = ~ inhibited /\ moving' = None
        /\ UNCHANGED <<used, residency, stopping, quiet, ticked, setting>>
    BY <1>8 DEF SetMotionInhibited, Locked
  <2>2. inhibited' \in BOOLEAN BY <2>1
  <2>3. CASE inhibited' /\ session # None /\ confirmed
    <3>1. Hold BY <1>8, <2>3 DEF SetMotionInhibited
    <3> QED BY <1>2, <2>1, <2>2, <2>3, <3>1, HoldKeeps
  <2>4. CASE inhibited' /\ session # None /\ ~ confirmed
    <3>1. Relax(lease, {arm}) BY <1>8, <2>4 DEF SetMotionInhibited
    <3> QED BY <1>1, <1>2, <2>1, <2>2, <3>1, ArmIsProper, RelaxKeeps
  <2>5. CASE ~ (inhibited' /\ session # None)
    <3>1. UNCHANGED <<session, endpoint, carry, confirmed, guard, lease, arm>>
      BY <1>8, <2>5 DEF SetMotionInhibited
    <3> QED BY <1>2, <2>1, <2>2, <2>5, <3>1, StillKeeps
  <2> QED BY <2>3, <2>4, <2>5
<1> QED BY <1>3, <1>4, <1>5, <1>6, <1>7, <1>8

LEMMA ServeKeeps ==
  ASSUME Contact, session # None, Serve, moving = None, ticked' \in BOOLEAN,
         UNCHANGED <<used, inhibited, residency, stopping, moving, setting>>
  PROVE  Contact'
<1>1. Proper(arm) /\ arm \in Groups BY ArmIsProper DEF Proper
<1>2. /\ session \in Sessions /\ quiet \in [command : 0 .. CommandLife, lease : 0 .. LeaseLife]
      /\ used \subseteq Plans /\ inhibited \in BOOLEAN /\ residency \in {"HOT", "WARM"}
      /\ stopping \in {"no", "asked", "done"}
  BY DEF Contact, TypeOK
<1>3. CASE /\ Held(arm, lease) /\ endpoint # None
           /\ arm' = Commanded(arm, endpoint) /\ quiet' = [command |-> 0, lease |-> 0]
           /\ endpoint' \in {endpoint, [endpoint EXCEPT !.complete = TRUE]}
           /\ UNCHANGED <<session, carry, confirmed, guard, lease>>
  <2>1. endpoint \in Endpoints /\ endpoint # Foreign BY <1>3, NothingAssumption DEF Contact, TypeOK
  <2>2. endpoint' \in Endpoints /\ endpoint'.plan = endpoint.plan BY <1>3, <2>1 DEF Endpoints
  <2>3. endpoint' # None BY <2>2, NothingAssumption
  <2>4. Serves(endpoint.plan) /\ Serves(endpoint'.plan) BY <1>3, <2>2 DEF Contact, CommandsServe
  <2>5. /\ Proper(arm') /\ arm'.gen = arm.gen /\ arm'.owner = arm.owner /\ arm'.guard = arm.guard
        /\ arm'.cmd = endpoint
    BY <1>1, <1>3, <2>1 DEF Proper, Groups, Commanded, Held
  <2>6. quiet' \in [command : 0 .. CommandLife, lease : 0 .. LeaseLife] /\ quiet'.command = 0 /\ quiet'.lease = 0
    BY <1>3, LivesAssumption
  <2>7. CommandsAreFresh'
    BY <1>3, <2>5, <2>6 DEF Contact, CommandsAreFresh, Reliable, Held
  <2> QED BY <1>2, <1>3, <2>2, <2>3, <2>4, <2>5, <2>6, <2>7, SessionKeeps
<1>4. ASSUME NEW due \in RenewalDue, endpoint = None, due => Held(arm, lease),
             quiet' = IF due THEN [quiet EXCEPT !.lease = 0] ELSE quiet,
             UNCHANGED <<session, endpoint, carry, confirmed, guard, lease, arm>>
      PROVE  Contact'
  <2>1. /\ quiet' \in [command : 0 .. CommandLife, lease : 0 .. LeaseLife]
        /\ quiet'.command = quiet.command /\ (due => quiet'.lease = 0) /\ (~ due => quiet' = quiet)
    BY <1>2, <1>4, LivesAssumption
  <2>2. setting.timely => quiet'.lease = 0
    <3> SUFFICES ASSUME setting.timely PROVE quiet'.lease = 0 OBVIOUS
    <3>1. due = (quiet.lease > 0) BY <1>4 DEF RenewalDue
    <3>2. CASE due BY <2>1, <3>2
    <3>3. CASE ~ due
      <4>1. ~ (quiet.lease > 0) BY <3>1, <3>3
      <4>2. quiet.lease \in 0 .. LeaseLife BY <1>2
      <4> QED BY <2>1, <3>3, <4>1, <4>2, LivesAssumption
    <3> QED BY <3>2, <3>3
  <2>3. CommandsAreFresh'
    BY <1>4, <2>1, <2>2 DEF Contact, CommandsAreFresh, Reliable, Held
  <2> QED BY <1>1, <1>2, <1>4, <2>1, <2>3, SessionKeeps
<1>5. ASSUME ~ Held(arm, lease), Relax(0, {arm}), UNCHANGED quiet PROVE Contact'
  <2>1. ~ setting.fails => arm.owner # "contact" BY <1>5 DEF Contact, SidesAgree
  <2> QED BY <1>1, <1>2, <1>5, <2>1, RelaxKeeps
<1>6. ASSUME setting.fails, Held(arm, lease), UNCHANGED quiet,
             Relax(lease, {arm} \cup IF endpoint = None THEN {} ELSE {Commanded(arm, endpoint)})
      PROVE  Contact'
  <2> DEFINE arms == {arm} \cup IF endpoint = None THEN {} ELSE {Commanded(arm, endpoint)}
  <2>1. \A a \in arms : Proper(a) /\ a.gen = arm.gen
    <3>1. CASE endpoint = None BY <1>1, <3>1
    <3>2. CASE endpoint # None
      <4>1. endpoint \in Endpoints /\ endpoint # Foreign BY <3>2, NothingAssumption DEF Contact, TypeOK
      <4> QED BY <1>1, <1>6, <3>2, <4>1 DEF Proper, Groups, Commanded, Held
    <3> QED BY <3>1, <3>2
  <2>2. Relax(lease, arms) BY <1>6
  <2> HIDE DEF arms
  <2> QED BY <1>2, <1>6, <2>1, <2>2, RelaxKeeps
<1> QED BY <1>3, <1>4, <1>5, <1>6 DEF Serve

LEMMA TickKeeps == ASSUME Contact, Tick PROVE Contact'
<1>1. /\ moving = None /\ ticked' = ~ (session # None /\ session.due = "passed" /\ confirmed)
      /\ UNCHANGED <<used, inhibited, residency, stopping, moving, setting>>
  BY DEF Tick, Locked
<1>2. ticked' \in BOOLEAN BY <1>1
<1>3. /\ used \subseteq Plans /\ inhibited \in BOOLEAN /\ residency \in {"HOT", "WARM"}
      /\ stopping \in {"no", "asked", "done"}
  BY DEF Contact, TypeOK
<1>4. CASE session = None
  <2>1. UNCHANGED <<session, endpoint, carry, confirmed, guard, lease, arm, quiet>>
    BY <1>4 DEF Tick, basic
  <2> QED BY <1>1, <1>2, <1>3, <1>4, <2>1, StillKeeps
<1>5. CASE session # None /\ (session.due = "passed" \/ session.expired)
  <2>1. IF confirmed THEN Hold ELSE Relax(lease, {arm}) BY <1>5 DEF Tick
  <2>2. UNCHANGED quiet BY <1>5 DEF Tick
  <2>3. CASE confirmed
    <3>1. Reliable => ~ ticked' BY <1>1, <1>5, <2>3 DEF Contact, CommandsAreFresh
    <3> QED BY <1>1, <1>2, <1>3, <2>1, <2>2, <2>3, <3>1, HoldKeeps
  <2>4. CASE ~ confirmed
    BY <1>1, <1>2, <1>3, <2>1, <2>2, <2>4, ArmIsProper, RelaxKeeps DEF Contact, SidesAgree
  <2> QED BY <2>3, <2>4
<1>6. CASE session # None /\ ~ (session.due = "passed" \/ session.expired)
  <2>1. Serve BY <1>6 DEF Tick
  <2> QED BY <1>1, <1>2, <1>6, <2>1, ServeKeeps
<1> QED BY <1>4, <1>5, <1>6

LEMMA ClocksKeep == ASSUME Contact, WatchdogPasses \/ AuthorizationExpires PROVE Contact'
<1>1. /\ session # None
      /\ \/ session' = [session EXCEPT !.due = "passed"]
         \/ session' = [session EXCEPT !.expired = TRUE] /\ setting.expires
      /\ UNCHANGED <<endpoint, carry, confirmed, guard, lease, used, inhibited, residency, stopping,
                     moving, arm, quiet, ticked, setting>>
  BY DEF WatchdogPasses, AuthorizationExpires, basic
<1>2. session \in Sessions BY <1>1 DEF Contact, TypeOK
<1>3. /\ session' \in Sessions /\ session'.plan = session.plan
      /\ session'.expired = session.expired \/ ~ Reliable
  BY <1>1, <1>2 DEF Sessions, Reliable
<1>4. CommandsAreFresh' BY <1>1, <1>3 DEF Contact, CommandsAreFresh, Reliable, Held
<1>5. /\ endpoint \in {None} \cup Endpoints /\ moving \in {None} \cup Endpoints
      /\ quiet \in [command : 0 .. CommandLife, lease : 0 .. LeaseLife]
      /\ inhibited \in BOOLEAN /\ ticked \in BOOLEAN
      /\ moving # None => ~ guard /\ moving.plan = session.plan
      /\ endpoint # None => Serves(endpoint.plan)
  BY <1>1 DEF Contact, TypeOK, CarryIsTheSessions, CommandsServe
<1> QED BY <1>1, <1>3, <1>4, <1>5, ArmIsProper, SessionKeeps

---------------------------------------------------------------------------
LEMMA ContactNext ==
  ASSUME CommandLife > 1, LeaseLife > 1, Contact, Next PROVE Contact'
BY BeginKeeps, MoveKeeps, GuardKeeps, ConfirmCarryKeeps, RequestsKeep, TickKeeps, ClocksKeep,
   PassKeeps, OtherKeeps, LapsesKeep DEF Next

LEMMA ContactIsStill == ASSUME Contact, UNCHANGED vars PROVE Contact'
<1>1. UNCHANGED <<session, endpoint, carry, confirmed, guard, lease, moving, arm, quiet, used, setting,
                  inhibited, residency, stopping, ticked>>
  BY DEF vars, contact, basic
<1> QED BY <1>1, StillKeeps DEF Contact, TypeOK

LEMMA ContactInit == ASSUME Init PROVE Contact
<1>1. session = None /\ arm.owner = "none" /\ arm.gen = 0 /\ ~ arm.guard /\ arm.cmd = None BY DEF Init
<1>2. TypeOK
  <2>1. 0 \in 0 .. MaxGeneration /\ 0 \in 0 .. CommandLife /\ 0 \in 0 .. LeaseLife BY LivesAssumption
  <2>2. arm \in [owner : {"none", "contact", "other"}, gen : 0 .. MaxGeneration,
                 guard : BOOLEAN, cmd : {None, Foreign} \cup Endpoints]
    BY <2>1 DEF Init
  <2>3. quiet \in [command : 0 .. CommandLife, lease : 0 .. LeaseLife] BY <2>1 DEF Init
  <2>4. {confirmed, guard, inhibited, ticked} \subseteq BOOLEAN BY DEF Init
  <2> QED BY <2>1, <2>2, <2>3, <2>4 DEF Init, TypeOK
<1>3. NothingIsLeft /\ CarryIsTheSessions /\ GroupIsItsHolders
  BY <1>1 DEF Init, NothingIsLeft, CarryIsTheSessions, GroupIsItsHolders, Held
<1>4. CommandsServe /\ SidesAgree /\ CommandsAreFresh /\ InhibitEndsSessions
  BY <1>1 DEF Init, CommandsServe, SidesAgree, CommandsAreFresh, InhibitEndsSessions, Held
<1> QED BY <1>2, <1>3, <1>4 DEF Contact

\* What holds of the Contact Provider and its arm beside the Grip Provider, if a
\* command and a lease live longer than a unit of time (ContactController).
THEOREM ContactHolds ==
  ASSUME CommandLife > 1, LeaseLife > 1
  PROVE  CarrySpec => []Contact
<1>1. GripInit => Contact BY ContactInit DEF GripInit
<1>2. Contact /\ [CarryNext]_allVars => Contact'
  <2> SUFFICES ASSUME Contact, [CarryNext]_allVars PROVE Contact' OBVIOUS
  <2>1. CASE Next BY <2>1, ContactNext
  <2>2. CASE UNCHANGED vars BY <2>2, ContactIsStill
  <2>3. GripNext => UNCHANGED vars
    BY DEF GripNext, SetPositionEffort, SetMitPosition, EnterMitFloat, ReadCarry, BindCarry, ReleaseObject,
           GripWarm, AskGripStop, GripStop, GripTick, GroupExpires
  <2> QED BY <2>1, <2>2, <2>3 DEF CarryNext, allVars
<1> QED BY <1>1, <1>2, PTL DEF CarrySpec

\* Every variable of the Contact Provider has its type.
THEOREM ContactTypeCorrect ==
  ASSUME CommandLife > 1, LeaseLife > 1
  PROVE  CarrySpec => []TypeOK
<1>1. Contact => TypeOK BY DEF Contact
<1> QED BY <1>1, ContactHolds, PTL

\* A confirmed carry is whole, whatever is lost or late, and held by Basic when
\* nothing is (confirm_carry, begin_session, _hold_carrying, _relax).
THEOREM ConfirmedCarryIsKept ==
  ASSUME CommandLife > 1, LeaseLife > 1
  PROVE  CarrySpec => []CarryIsKept
<1>1. Contact => CarryIsKept
  BY DEF Contact, CarryIsKept, CarryIsWhole, CarryIsTheSessions, GroupIsItsHolders, CommandsAreFresh
<1> QED BY <1>1, ContactHolds, PTL

\* The arm follows the admitted session or none (_relax, set_motion_inhibited).
THEOREM TheArmFollowsItsSession ==
  ASSUME CommandLife > 1, LeaseLife > 1
  PROVE  CarrySpec => []ArmFollowsItsSession
<1>1. Contact => ArmFollowsItsSession
  <2> SUFFICES ASSUME Contact PROVE UnattendedArmFloats /\ ArmServesTheSession
    BY DEF ArmFollowsItsSession, Contact
  <2>1. UnattendedArmFloats
    <3> SUFFICES ASSUME ~ setting.fails, session = None PROVE arm.cmd \in {None, Foreign}
      BY DEF UnattendedArmFloats
    <3>1. arm.owner # "contact" BY DEF Contact, SidesAgree, NothingIsLeft, Held
    <3>2. arm.owner \in {"none", "other"} BY <3>1 DEF Contact, TypeOK
    <3> QED BY <3>2 DEF Contact, GroupIsItsHolders
  <2>2. ArmServesTheSession BY DEF Contact, CommandsServe, Serves, ArmServesTheSession
  <2> QED BY <2>1, <2>2
<1> QED BY <1>1, ContactHolds, PTL

---------------------------------------------------------------------------
\* The gripper group, and the outcomes of a command's calls.
GripGroups == [held : 0 .. MaxGeneration, gen : 0 .. MaxGeneration, guard : BOOLEAN,
               cmd : {"none", "effort", "mit"}]
Outcomes == [lease : 0 .. MaxGeneration, group : GripGroups, ok : BOOLEAN]

\* When no call is lost, one that fails has changed nothing.
Whole(o) ==
  /\ o \in Outcomes
  /\ ~ setting.fails =>
       \/ o.lease = gripLease /\ o.group = group
       \/ o.ok /\ Holds(o.lease, o.group)

\* What one more call makes of an outcome.
Served(o, next, served, after) ==
  IF ~ o.ok THEN next = o
  ELSE \/ next = Outcome(o.lease, IF served THEN after ELSE o.group, served)
       \/ setting.fails /\ next \in {Outcome(o.lease, o.group, FALSE), Outcome(o.lease, after, FALSE)}

LEMMA OutcomeFacts ==
  ASSUME NEW l \in 0 .. MaxGeneration, NEW g \in GripGroups, NEW ok \in BOOLEAN
  PROVE  /\ Outcome(l, g, ok) \in Outcomes /\ Outcome(l, g, ok).lease = l
         /\ Outcome(l, g, ok).group = g /\ Outcome(l, g, ok).ok = ok
BY DEF Outcome, Outcomes

LEMMA GroupFacts ==
  ASSUME NEW g \in GripGroups
  PROVE  /\ {ToEffort(g), Guarded(g), Clear(g), Floating(g), Freed(g)} \subseteq GripGroups
         /\ ToEffort(g).held = g.held /\ ToEffort(g).guard = g.guard /\ ToEffort(g).cmd = "effort"
         /\ Guarded(g).held = g.held /\ Guarded(g).guard
         /\ Clear(g).held = g.held /\ ~ Clear(g).guard
         /\ Floating(g).held = g.held /\ Floating(g).guard = g.guard
         /\ Freed(g).held = 0
<1>1. ToEffort(g) \in GripGroups BY DEF GripGroups, ToEffort
<1>2. Guarded(g) \in GripGroups BY DEF GripGroups, Guarded
<1>3. Clear(g) \in GripGroups BY DEF GripGroups, Clear
<1>4. Floating(g) \in GripGroups BY DEF GripGroups, Floating
<1>5. Freed(g) \in GripGroups
  <2>1. 0 \in 0 .. MaxGeneration BY LivesAssumption
  <2> QED BY <2>1 DEF GripGroups, Freed
<1>6. /\ ToEffort(g).held = g.held /\ ToEffort(g).guard = g.guard /\ ToEffort(g).cmd = "effort"
      /\ Guarded(g).held = g.held /\ Guarded(g).guard
      /\ Clear(g).held = g.held /\ ~ Clear(g).guard
  BY DEF GripGroups, ToEffort, Guarded, Clear
<1>7. Floating(g).held = g.held /\ Floating(g).guard = g.guard /\ Freed(g).held = 0
  BY DEF GripGroups, Floating, Freed
<1> QED BY <1>1, <1>2, <1>3, <1>4, <1>5, <1>6, <1>7

LEMMA EnsuredIsWhole ==
  ASSUME GripTypeOK
  PROVE  \A o \in Ensured : Whole(o)
<1>1. gripLease \in 0 .. MaxGeneration /\ group \in GripGroups BY DEF GripTypeOK, GripGroups
<1>2. CASE gripLease # 0
  <2>1. Ensured = {Outcome(gripLease, group, TRUE)} BY <1>2 DEF Ensured
  <2>2. /\ Outcome(gripLease, group, TRUE) \in Outcomes
        /\ Outcome(gripLease, group, TRUE).lease = gripLease /\ Outcome(gripLease, group, TRUE).group = group
    BY <1>1 DEF Outcome, Outcomes
  <2> QED BY <2>1, <2>2 DEF Whole
<1>3. CASE gripLease = 0 /\ (group.held # 0 \/ group.gen = MaxGeneration)
  <2>1. Ensured = {Outcome(gripLease, group, FALSE)} BY <1>3 DEF Ensured
  <2>2. /\ Outcome(gripLease, group, FALSE) \in Outcomes
        /\ Outcome(gripLease, group, FALSE).lease = gripLease /\ Outcome(gripLease, group, FALSE).group = group
    BY <1>1 DEF Outcome, Outcomes
  <2> QED BY <2>1, <2>2 DEF Whole
<1>4. CASE gripLease = 0 /\ ~ (group.held # 0 \/ group.gen = MaxGeneration)
  <2> DEFINE taken == [group EXCEPT !.held = group.gen + 1, !.gen = @ + 1]
  <2>1. group.gen + 1 \in 0 .. MaxGeneration BY <1>1, <1>4, LivesAssumption DEF GripGroups
  <2>2. taken \in GripGroups /\ taken.held = taken.gen /\ taken.gen = group.gen + 1
    BY <1>1, <2>1 DEF GripGroups
  <2>3. taken.gen # 0 /\ taken.gen \in 0 .. MaxGeneration BY <1>1, <2>1, <2>2 DEF GripGroups
  <2>4. Ensured = {Outcome(taken.gen, taken, TRUE)}
                   \cup IF setting.fails THEN {Outcome(0, g, FALSE) : g \in {group, taken}} ELSE {}
    BY <1>4 DEF Ensured
  <2> HIDE DEF taken
  <2>5. Holds(taken.gen, taken) BY <2>2, <2>3 DEF Holds
  <2>6. Whole(Outcome(taken.gen, taken, TRUE)) BY <2>2, <2>3, <2>5, OutcomeFacts DEF Whole
  <2>7. setting.fails => Whole(Outcome(0, group, FALSE)) /\ Whole(Outcome(0, taken, FALSE))
    BY <1>1, <1>4, <2>2, OutcomeFacts DEF Whole
  <2> QED BY <2>4, <2>6, <2>7
<1> QED BY <1>2, <1>3, <1>4

\* The calls one by one.
LEMMA ThenServes ==
  ASSUME NEW S
  PROVE  /\ \A n \in Then(S, Always, ToEffort) :
              \E o \in S : Served(o, n, Holds(o.lease, o.group) /\ Always(o.group), ToEffort(o.group))
         /\ \A n \in Then(S, Primed, Guarded) :
              \E o \in S : Served(o, n, Holds(o.lease, o.group) /\ Primed(o.group), Guarded(o.group))
         /\ \A n \in Then(S, Always, Clear) :
              \E o \in S : Served(o, n, Holds(o.lease, o.group) /\ Always(o.group), Clear(o.group))
         /\ \A n \in Then(S, Open, Floating) :
              \E o \in S : Served(o, n, Holds(o.lease, o.group) /\ Open(o.group), Floating(o.group))
<1>1. \A n \in Then(S, Always, ToEffort) :
        \E o \in S : Served(o, n, Holds(o.lease, o.group) /\ Always(o.group), ToEffort(o.group))
  BY DEF Then, Served
<1>2. \A n \in Then(S, Primed, Guarded) :
        \E o \in S : Served(o, n, Holds(o.lease, o.group) /\ Primed(o.group), Guarded(o.group))
  BY DEF Then, Served
<1>3. \A n \in Then(S, Always, Clear) :
        \E o \in S : Served(o, n, Holds(o.lease, o.group) /\ Always(o.group), Clear(o.group))
  BY DEF Then, Served
<1>4. \A n \in Then(S, Open, Floating) :
        \E o \in S : Served(o, n, Holds(o.lease, o.group) /\ Open(o.group), Floating(o.group))
  BY DEF Then, Served
<1> QED BY <1>1, <1>2, <1>3, <1>4

LEMMA ServedFacts ==
  ASSUME NEW o \in Outcomes, NEW n, NEW served \in BOOLEAN, NEW after \in GripGroups,
         Served(o, n, served, after)
  PROVE  /\ n \in Outcomes
         /\ ~ setting.fails => IF ~ o.ok THEN n = o
                               ELSE (n.ok <=> served) /\ n.lease = o.lease
                                    /\ n.group = IF served THEN after ELSE o.group
<1>1. o.lease \in 0 .. MaxGeneration /\ o.group \in GripGroups BY DEF Outcomes
<1> DEFINE g == IF served THEN after ELSE o.group
<1>2. g \in GripGroups BY <1>1
<1> HIDE DEF g
<1>3. /\ Outcome(o.lease, g, served) \in Outcomes /\ Outcome(o.lease, g, served).lease = o.lease
      /\ Outcome(o.lease, g, served).group = g /\ Outcome(o.lease, g, served).ok = served
  BY <1>1, <1>2 DEF Outcome, Outcomes
<1>4. Outcome(o.lease, o.group, FALSE) \in Outcomes /\ Outcome(o.lease, after, FALSE) \in Outcomes
  BY <1>1 DEF Outcome, Outcomes
<1>5. CASE ~ o.ok BY <1>5 DEF Served
<1>6. CASE o.ok
  <2>1. \/ n = Outcome(o.lease, g, served)
        \/ setting.fails /\ n \in {Outcome(o.lease, o.group, FALSE), Outcome(o.lease, after, FALSE)}
    BY <1>6 DEF Served, g
  <2>2. n \in Outcomes BY <1>3, <1>4, <2>1
  <2>3. ~ setting.fails => n = Outcome(o.lease, g, served) BY <2>1
  <2> QED BY <1>3, <1>6, <2>2, <2>3 DEF g
<1> QED BY <1>5, <1>6

\* When no call is lost, a target that is sent is guarded; a command that
\* fails has changed nothing.
Unchanged(o) == o.lease = gripLease /\ o.group = group

LEMMA EffortsFacts ==
  ASSUME GripTypeOK, NEW n \in Efforts
  PROVE  n \in Outcomes /\ (~ setting.fails => IF n.ok THEN n.group.guard ELSE Unchanged(n))
<1>1. PICK m \in Then(Ensured, Always, ToEffort) :
        Served(m, n, Holds(m.lease, m.group) /\ Primed(m.group), Guarded(m.group))
  BY ThenServes DEF Efforts
<1>2. PICK o \in Ensured :
        Served(o, m, Holds(o.lease, o.group) /\ Always(o.group), ToEffort(o.group))
  BY ThenServes
<1>3. Whole(o) /\ o \in Outcomes /\ o.group \in GripGroups BY EnsuredIsWhole DEF Whole, Outcomes
<1> DEFINE first == Holds(o.lease, o.group) /\ Always(o.group)
           second == Holds(m.lease, m.group) /\ Primed(m.group)
<1>4. first \in BOOLEAN /\ second \in BOOLEAN BY DEF Holds, Primed
<1>5. first <=> Holds(o.lease, o.group) BY DEF Always
<1>6. second <=> Holds(m.lease, m.group) /\ m.group.cmd = "effort" BY DEF Primed
<1>7. Served(o, m, first, ToEffort(o.group)) /\ Served(m, n, second, Guarded(m.group)) BY <1>1, <1>2
<1> HIDE DEF first, second
<1>8. /\ m \in Outcomes
      /\ ~ setting.fails => IF ~ o.ok THEN m = o
                            ELSE (m.ok <=> first) /\ m.lease = o.lease
                                 /\ m.group = IF first THEN ToEffort(o.group) ELSE o.group
  BY <1>3, <1>4, <1>7, GroupFacts, ServedFacts
<1>9. m.group \in GripGroups BY <1>8 DEF Outcomes
<1>10. /\ n \in Outcomes
       /\ ~ setting.fails => IF ~ m.ok THEN n = m
                             ELSE (n.ok <=> second) /\ n.lease = m.lease
                                  /\ n.group = IF second THEN Guarded(m.group) ELSE m.group
  BY <1>4, <1>7, <1>8, <1>9, GroupFacts, ServedFacts
<1>11. ASSUME ~ setting.fails PROVE IF n.ok THEN n.group.guard ELSE Unchanged(n)
  <2>1. CASE ~ o.ok BY <1>3, <1>8, <1>10, <1>11, <2>1 DEF Whole, Unchanged
  <2>2. CASE o.ok /\ ~ first
    BY <1>3, <1>5, <1>8, <1>10, <1>11, <2>2 DEF Whole, Unchanged
  <2>3. CASE o.ok /\ first
    <3>1. m.ok /\ m.lease = o.lease /\ m.group = ToEffort(o.group) BY <1>8, <1>11, <2>3
    <3>2. second BY <1>3, <1>5, <1>6, <2>3, <3>1, GroupFacts DEF Holds
    <3>3. n.ok /\ n.group = Guarded(m.group) BY <1>10, <1>11, <3>1, <3>2
    <3> QED BY <1>9, <3>3, GroupFacts
  <2> QED BY <2>1, <2>2, <2>3
<1> QED BY <1>10, <1>11

LEMMA ClearingsFacts ==
  ASSUME GripTypeOK, NEW n \in Clearings
  PROVE  n \in Outcomes /\ (~ setting.fails /\ ~ n.ok => Unchanged(n))
<1>1. PICK o \in Ensured :
        Served(o, n, Holds(o.lease, o.group) /\ Always(o.group), Clear(o.group))
  BY ThenServes DEF Clearings
<1>2. Whole(o) /\ o \in Outcomes /\ o.group \in GripGroups BY EnsuredIsWhole DEF Whole, Outcomes
<1> DEFINE served == Holds(o.lease, o.group) /\ Always(o.group)
<1>3. served \in BOOLEAN /\ (served <=> Holds(o.lease, o.group)) BY DEF Holds, Always
<1>4. Served(o, n, served, Clear(o.group)) BY <1>1
<1>6. Clear(o.group) \in GripGroups BY <1>2, GroupFacts
<1> HIDE DEF served
<1>5. /\ n \in Outcomes
      /\ ~ setting.fails => IF ~ o.ok THEN n = o
                            ELSE (n.ok <=> served) /\ n.lease = o.lease
                                 /\ n.group = IF served THEN Clear(o.group) ELSE o.group
  BY <1>2, <1>3, <1>4, <1>6, ServedFacts
<1> QED BY <1>2, <1>3, <1>5 DEF Whole, Unchanged

LEMMA FinishesFacts ==
  ASSUME GripTypeOK, NEW n \in Finishes
  PROVE  n \in Outcomes /\ (~ setting.fails /\ ~ n.ok => Unchanged(n))
<1>1. gripLease \in 0 .. MaxGeneration /\ group \in GripGroups BY DEF GripTypeOK, GripGroups
<1>2. 0 \in 0 .. MaxGeneration BY LivesAssumption
<1>3. CASE gripLease = 0
  <2>1. n = Outcome(gripLease, group, TRUE) BY <1>3 DEF Finishes
  <2> QED BY <1>1, <2>1 DEF Outcome, Outcomes
<1>4. CASE gripLease # 0
  <2> DEFINE start == Outcome(gripLease, group, TRUE)
             cleared == Then({start}, Always, Clear)
             floated == Then(cleared, Open, Floating)
  <2>1. n \in Releases(floated) BY <1>4 DEF Finishes
  <2>2. start \in Outcomes /\ start.ok /\ start.lease = gripLease /\ start.group = group
    BY <1>1 DEF Outcome, Outcomes
  <2> HIDE DEF start
  <2>3. PICK f \in floated :
          IF f.ok THEN n \in {Outcome(0, Freed(f.group), TRUE)}
                             \cup IF setting.fails
                                  THEN {Outcome(0, g, FALSE) : g \in {f.group, Freed(f.group)}} ELSE {}
                  ELSE n = f
    BY <2>1 DEF Releases
  <2>4. PICK c \in cleared : Served(c, f, Holds(c.lease, c.group) /\ Open(c.group), Floating(c.group))
    BY ThenServes
  <2>5. Served(start, c, Holds(start.lease, start.group) /\ Always(start.group), Clear(start.group))
    <3> DEFINE starts == {start}
    <3> HIDE DEF starts
    <3>1. \A d \in Then(starts, Always, Clear) :
            \E o \in starts : Served(o, d, Holds(o.lease, o.group) /\ Always(o.group), Clear(o.group))
      BY ThenServes
    <3>2. c \in Then(starts, Always, Clear) BY DEF starts
    <3>3. PICK o \in starts : Served(o, c, Holds(o.lease, o.group) /\ Always(o.group), Clear(o.group))
      BY <3>1, <3>2
    <3>4. o = start BY DEF starts
    <3> QED BY <3>3, <3>4
  <2> DEFINE first == Holds(start.lease, start.group) /\ Always(start.group)
             second == Holds(c.lease, c.group) /\ Open(c.group)
  <2>6. first \in BOOLEAN /\ second \in BOOLEAN BY DEF Holds, Open
  <2>7. first <=> Holds(gripLease, group) BY <2>2 DEF Always
  <2>8. second <=> Holds(c.lease, c.group) /\ ~ c.group.guard BY DEF Open
  <2>9. Served(start, c, first, Clear(start.group)) /\ Served(c, f, second, Floating(c.group)) BY <2>4, <2>5
  <2> HIDE DEF first, second, cleared, floated
  <2>17. Clear(start.group) \in GripGroups BY <1>1, <2>2, GroupFacts
  <2>10. /\ c \in Outcomes
         /\ ~ setting.fails => (c.ok <=> first) /\ c.lease = gripLease
                               /\ c.group = IF first THEN Clear(group) ELSE group
    BY <1>1, <2>2, <2>6, <2>9, <2>17, ServedFacts
  <2>11. c.group \in GripGroups /\ Floating(c.group) \in GripGroups BY <2>10, GroupFacts DEF Outcomes
  <2>12. /\ f \in Outcomes
         /\ ~ setting.fails => IF ~ c.ok THEN f = c
                               ELSE (f.ok <=> second) /\ f.lease = c.lease
                                    /\ f.group = IF second THEN Floating(c.group) ELSE c.group
    BY <2>6, <2>9, <2>10, <2>11, ServedFacts
  <2>13. f.group \in GripGroups /\ Freed(f.group) \in GripGroups BY <2>12, GroupFacts DEF Outcomes
  <2>14. /\ Outcome(0, Freed(f.group), TRUE) \in Outcomes /\ Outcome(0, Freed(f.group), TRUE).ok
         /\ Outcome(0, f.group, FALSE) \in Outcomes /\ Outcome(0, Freed(f.group), FALSE) \in Outcomes
    BY <1>2, <2>13 DEF Outcome, Outcomes
  <2>15. n \in Outcomes BY <2>3, <2>12, <2>14
  <2>16. ASSUME ~ setting.fails, ~ n.ok PROVE Unchanged(n)
    <3>1. ~ f.ok /\ n = f BY <2>3, <2>14, <2>16
    <3>2. CASE first
      <4>1. c.ok /\ c.lease = gripLease /\ c.group = Clear(group) BY <2>10, <2>16, <3>2
      <4>2. second BY <1>1, <2>7, <2>8, <3>2, <4>1, GroupFacts DEF Holds
      <4> QED BY <2>12, <2>16, <3>1, <4>1, <4>2
    <3>3. CASE ~ first
      <4>1. ~ c.ok /\ c.lease = gripLease /\ c.group = group BY <2>10, <2>16, <3>3
      <4> QED BY <2>12, <2>16, <3>1, <4>1 DEF Unchanged
    <3> QED BY <3>2, <3>3
  <2> QED BY <2>15, <2>16
<1> QED BY <1>3, <1>4
---------------------------------------------------------------------------
\* What a step may do to the Grip Provider without undoing its invariant.
Bindings == {None} \cup {CarryId[p] : p \in Plans}
Drives == {"none", "grip", "open", "float", "opening", "hold"}
Endings == {"no", "asked", "floats", "done"}

LEMMA CarryIsABinding ==
  ASSUME Contact
  PROVE  carry \in Bindings
BY DEF Contact, TypeOK, Bindings

\* A command that has failed leaves what it promised; one that is served
\* leaves the group guarded for the effort it drives.
LEMMA LeavesKeeps ==
  ASSUME Gripped, NEW o \in Outcomes, Leaves(o), setting' = setting,
         healthy' = healthy, read' = read, ending' = ending,
         bound' \in {bound, None}, inferred' \in BOOLEAN, drive' \in Drives,
         o.ok \/ drive' = drive,
         (bound' # None \/ read # None) /\ ending \in {"no", "asked"} => drive' \in {"grip", "open"},
         ~ setting.fails => IF o.ok THEN drive' \in {"grip", "open"} => o.group.guard
                                    ELSE Unchanged(o)
  PROVE  Gripped'
<1>1. /\ gripLease' \in 0 .. MaxGeneration /\ group' \in GripGroups
      /\ gripLease' = o.lease /\ group' = o.group
  BY DEF Leaves, Outcomes
<1>2. GripTypeOK' BY <1>1 DEF Gripped, GripTypeOK, GripGroups, Drives
<1>3. (bound' # None \/ read' # None) /\ ending' \in {"no", "asked"} => drive' \in {"grip", "open"}
  OBVIOUS
<1>4. ASSUME ~ setting'.fails, drive' \in {"grip", "open"}, Holds(gripLease', group') PROVE group'.guard
  <2>1. CASE o.ok BY <1>1, <1>4, <2>1
  <2>2. CASE ~ o.ok
    <3>1. gripLease' = gripLease /\ group' = group /\ drive' = drive
      BY <1>1, <1>4, <2>2 DEF Unchanged
    <3> QED BY <1>4, <3>1 DEF Gripped
  <2> QED BY <2>1, <2>2
<1> QED BY <1>2, <1>3, <1>4 DEF Gripped

LEMMA SetPositionEffortGrips == ASSUME Gripped, SetPositionEffort PROVE Gripped'
<1>1. setting' = setting BY DEF SetPositionEffort, vars
<1>2. PICK o \in Efforts, intent \in {"grip", "open"} :
        /\ Leaves(o)
        /\ IF o.ok THEN drive' = intent /\ inferred' = FALSE ELSE UNCHANGED <<drive, inferred>>
  BY DEF SetPositionEffort
<1>3. o \in Outcomes /\ (~ setting.fails => IF o.ok THEN o.group.guard ELSE Unchanged(o))
  BY EffortsFacts DEF Gripped
<1>4. /\ drive \in Drives /\ inferred \in BOOLEAN
      /\ (bound # None \/ read # None) /\ ending \in {"no", "asked"} => drive \in {"grip", "open"}
  BY DEF Gripped, GripTypeOK, Drives
<1>5. bound' = bound /\ healthy' = healthy /\ read' = read /\ ending' = ending BY DEF SetPositionEffort
<1>6. drive' \in Drives /\ inferred' \in BOOLEAN /\ (o.ok \/ drive' = drive) BY <1>2, <1>4 DEF Drives
<1>7. (bound' # None \/ read # None) /\ ending \in {"no", "asked"} => drive' \in {"grip", "open"}
  BY <1>2, <1>4, <1>5
<1> QED BY <1>1, <1>2, <1>3, <1>5, <1>6, <1>7, LeavesKeeps

LEMMA ReleaseObjectGrips == ASSUME Gripped, ReleaseObject PROVE Gripped'
<1>1. setting' = setting BY DEF ReleaseObject, vars
<1>2. PICK o \in Efforts :
        /\ Leaves(o)
        /\ IF o.ok THEN drive' = "open" /\ bound' = None /\ inferred' = FALSE
                   ELSE UNCHANGED <<drive, bound, inferred>>
  BY DEF ReleaseObject
<1>3. o \in Outcomes /\ (~ setting.fails => IF o.ok THEN o.group.guard ELSE Unchanged(o))
  BY EffortsFacts DEF Gripped
<1>4. /\ drive \in Drives /\ inferred \in BOOLEAN
      /\ (bound # None \/ read # None) /\ ending \in {"no", "asked"} => drive \in {"grip", "open"}
  BY DEF Gripped, GripTypeOK, Drives
<1>5. bound' \in {bound, None} /\ healthy' = healthy /\ read' = read /\ ending' = ending
  BY <1>2 DEF ReleaseObject
<1>6. drive' \in Drives /\ inferred' \in BOOLEAN /\ (o.ok \/ drive' = drive) BY <1>2, <1>4 DEF Drives
<1>7. (bound' # None \/ read # None) /\ ending \in {"no", "asked"} => drive' \in {"grip", "open"}
  BY <1>2, <1>4, <1>5
<1> QED BY <1>1, <1>2, <1>3, <1>5, <1>6, <1>7, LeavesKeeps

\* Without a bound object the mode guard may be cleared.
LEMMA SetMitPositionGrips == ASSUME Gripped, SetMitPosition PROVE Gripped'
<1>1. setting' = setting /\ bound = None /\ read = None BY DEF SetMitPosition, GripLocked, vars
<1>2. PICK o \in Clearings :
        /\ Leaves(o)
        /\ IF o.ok THEN drive' = "opening" /\ inferred' = FALSE ELSE UNCHANGED <<drive, inferred>>
  BY DEF SetMitPosition
<1>3. o \in Outcomes /\ (~ setting.fails /\ ~ o.ok => Unchanged(o)) BY ClearingsFacts DEF Gripped
<1>4. drive \in Drives /\ inferred \in BOOLEAN BY DEF Gripped, GripTypeOK, Drives
<1>5. bound' = bound /\ healthy' = healthy /\ read' = read /\ ending' = ending BY DEF SetMitPosition
<1>6. drive' \in Drives /\ inferred' \in BOOLEAN /\ (o.ok \/ drive' = drive) BY <1>2, <1>4 DEF Drives
<1>7. ~ setting.fails => IF o.ok THEN drive' \in {"grip", "open"} => o.group.guard ELSE Unchanged(o)
  BY <1>2, <1>3
<1> QED BY <1>1, <1>2, <1>3, <1>5, <1>6, <1>7, LeavesKeeps

LEMMA EnterMitFloatGrips == ASSUME Gripped, EnterMitFloat PROVE Gripped'
<1>1. setting' = setting /\ bound = None /\ read = None BY DEF EnterMitFloat, GripLocked, vars
<1>2. PICK o \in Clearings : Leaves(o) /\ drive' = IF o.ok THEN "float" ELSE drive
  BY DEF EnterMitFloat
<1>3. o \in Outcomes /\ (~ setting.fails /\ ~ o.ok => Unchanged(o)) BY ClearingsFacts DEF Gripped
<1>4. drive \in Drives /\ inferred \in BOOLEAN BY DEF Gripped, GripTypeOK, Drives
<1>5. bound' = bound /\ healthy' = healthy /\ read' = read /\ ending' = ending /\ inferred' = inferred
  BY DEF EnterMitFloat
<1>6. drive' \in Drives /\ inferred' \in BOOLEAN /\ (o.ok \/ drive' = drive)
  BY <1>2, <1>4, <1>5 DEF Drives
<1>7. ~ setting.fails => IF o.ok THEN drive' \in {"grip", "open"} => o.group.guard ELSE Unchanged(o)
  BY <1>2, <1>3
<1> QED BY <1>1, <1>2, <1>3, <1>5, <1>6, <1>7, LeavesKeeps

LEMMA GripWarmGrips == ASSUME Gripped, GripWarm PROVE Gripped'
<1>1. setting' = setting /\ bound = None /\ read = None BY DEF GripWarm, GripLocked, vars
<1>2. PICK o \in Finishes : Leaves(o) /\ drive' = IF o.ok THEN "none" ELSE drive BY DEF GripWarm
<1>3. o \in Outcomes /\ (~ setting.fails /\ ~ o.ok => Unchanged(o)) BY FinishesFacts DEF Gripped
<1>4. drive \in Drives /\ inferred \in BOOLEAN BY DEF Gripped, GripTypeOK, Drives
<1>5. bound' = bound /\ healthy' = healthy /\ read' = read /\ ending' = ending /\ inferred' = inferred
  BY DEF GripWarm
<1>6. drive' \in Drives /\ inferred' \in BOOLEAN /\ (o.ok \/ drive' = drive)
  BY <1>2, <1>4, <1>5 DEF Drives
<1>7. ~ setting.fails => IF o.ok THEN drive' \in {"grip", "open"} => o.group.guard ELSE Unchanged(o)
  BY <1>2, <1>3
<1> QED BY <1>1, <1>2, <1>3, <1>5, <1>6, <1>7, LeavesKeeps

\* What touches neither the calls to Basic nor the drive.
LEMMA StillGrips ==
  ASSUME Gripped, setting' = setting, UNCHANGED <<drive, gripLease>>,
         group' \in GripGroups, inferred' \in BOOLEAN, healthy' \in BOOLEAN,
         bound' \in Bindings, read' \in Bindings, ending' \in Endings,
         (bound' # None \/ read' # None) /\ ending' \in {"no", "asked"} => drive \in {"grip", "open"},
         Holds(gripLease, group') => Holds(gripLease, group) /\ (group.guard => group'.guard)
  PROVE  Gripped'
<1>1. GripTypeOK' BY DEF Gripped, GripTypeOK, GripGroups, Bindings, Endings
<1>2. ~ setting'.fails /\ drive' \in {"grip", "open"} /\ Holds(gripLease', group') => group'.guard
  BY DEF Gripped, Holds
<1> QED BY <1>1, <1>2 DEF Gripped

LEMMA GripTypes ==
  ASSUME Gripped
  PROVE  /\ drive \in Drives /\ inferred \in BOOLEAN /\ healthy \in BOOLEAN
         /\ bound \in Bindings /\ read \in Bindings /\ ending \in Endings
         /\ gripLease \in 0 .. MaxGeneration /\ group \in GripGroups
         /\ (bound # None \/ read # None) /\ ending \in {"no", "asked"} => drive \in {"grip", "open"}
BY DEF Gripped, GripTypeOK, Drives, Bindings, Endings, GripGroups

LEMMA ReadCarryGrips == ASSUME Contact, Gripped, ReadCarry PROVE Gripped'
<1>1. /\ setting' = setting /\ read' = carry /\ drive \in {"grip", "open"}
      /\ UNCHANGED <<drive, inferred, bound, gripLease, healthy, ending, group>>
  BY DEF ReadCarry, vars
<1>2. carry \in Bindings BY CarryIsABinding
<1> QED BY <1>1, <1>2, GripTypes, StillGrips

LEMMA BindCarryGrips == ASSUME Gripped, BindCarry PROVE Gripped'
<1>1. /\ setting' = setting /\ read # None /\ bound' \in {bound, read} /\ read' = None
      /\ UNCHANGED <<drive, inferred, gripLease, healthy, ending, group>>
  BY DEF BindCarry, vars
<1>2. None \in Bindings BY DEF Bindings
<1>3. bound' \in Bindings BY <1>1, GripTypes
<1>4. (bound' # None \/ read' # None) /\ ending' \in {"no", "asked"} => drive \in {"grip", "open"}
  BY <1>1, GripTypes
<1> QED BY <1>1, <1>2, <1>3, <1>4, GripTypes, StillGrips

LEMMA AskGripStopGrips == ASSUME Gripped, AskGripStop PROVE Gripped'
<1>1. /\ setting' = setting /\ ending = "no" /\ ending' = "asked"
      /\ UNCHANGED <<drive, inferred, bound, gripLease, healthy, read, group>>
  BY DEF AskGripStop, vars
<1>2. "asked" \in Endings BY DEF Endings
<1> QED BY <1>1, <1>2, GripTypes, StillGrips

LEMMA GripStopGrips == ASSUME Gripped, GripStop PROVE Gripped'
<1>1. setting' = setting /\ UNCHANGED <<inferred, bound, healthy, read>> BY DEF GripStop, vars
<1>2. CASE /\ ending = "asked" /\ ending' = IF bound = None THEN "floats" ELSE "done"
           /\ UNCHANGED <<drive, gripLease, group>>
  <2>1. ending' \in Endings BY <1>2 DEF Endings
  <2> QED BY <1>1, <1>2, <2>1, GripTypes, StillGrips
<1>3. CASE /\ ending = "floats" /\ ending' = "done"
           /\ \E o \in Finishes : Leaves(o) /\ drive' = IF o.ok THEN "none" ELSE drive
  <2>1. PICK o \in Finishes : Leaves(o) /\ drive' = IF o.ok THEN "none" ELSE drive BY <1>3
  <2>2. o \in Outcomes /\ (~ setting.fails /\ ~ o.ok => Unchanged(o)) BY FinishesFacts DEF Gripped
  <2>3. gripLease' = o.lease /\ group' = o.group /\ o.lease \in 0 .. MaxGeneration /\ o.group \in GripGroups
    BY <2>1, <2>2 DEF Leaves, Outcomes
  <2>4. drive' \in Drives BY <2>1, GripTypes DEF Drives
  <2>5. GripTypeOK'
    BY <1>1, <1>3, <2>3, <2>4 DEF Gripped, GripTypeOK, GripGroups, Drives
  <2>6. ASSUME ~ setting'.fails, drive' \in {"grip", "open"}, Holds(gripLease', group') PROVE group'.guard
    <3>1. ~ o.ok BY <2>1, <2>6
    <3>2. gripLease' = gripLease /\ group' = group /\ drive' = drive
      BY <1>1, <2>1, <2>2, <2>3, <2>6, <3>1 DEF Unchanged
    <3> QED BY <1>1, <2>6, <3>2 DEF Gripped
  <2> QED BY <1>3, <2>5, <2>6 DEF Gripped
<1> QED BY <1>2, <1>3 DEF GripStop

LEMMA SentIsAGroup ==
  ASSUME Gripped
  PROVE  Sent \in GripGroups /\ Sent.held = group.held /\ Sent.guard = group.guard
<1>1. group \in GripGroups BY GripTypes
<1>2. Wanted \in {"none", "effort", "mit"} BY DEF Wanted
<1> QED BY <1>1, <1>2 DEF Sent, GripGroups

LEMMA GripTickGrips == ASSUME Gripped, GripTick PROVE Gripped'
<1>1. setting' = setting /\ read = None /\ UNCHANGED <<bound, read, ending>> /\ ending \in {"no", "asked"}
  BY DEF GripTick, vars
<1>2. group' \in {group, Sent} => /\ group' \in GripGroups
                                  /\ Holds(gripLease, group') => Holds(gripLease, group)
                                  /\ group.guard => group'.guard
  BY GripTypes, SentIsAGroup DEF Holds
<1>3. Audit \in BOOLEAN BY GripTypes DEF Audit, PosTor
<1>4. CASE /\ group' \in {group, Sent} /\ healthy' \in BOOLEAN /\ inferred' \in BOOLEAN
           /\ UNCHANGED <<drive, gripLease>>
  BY <1>1, <1>2, <1>4, GripTypes, StillGrips
<1>5. CASE /\ drive \in {"opening", "hold"} /\ Sendable
           /\ group' = Sent /\ drive' \in {drive, "hold"}
           /\ UNCHANGED <<inferred, gripLease, healthy>>
  <2>1. bound = None BY <1>1, <1>5, GripTypes
  <2>2. drive' \in {"opening", "hold"} BY <1>5
  <2>3. GripTypeOK'
    BY <1>1, <1>2, <1>5, <2>2, GripTypes DEF Gripped, GripTypeOK, GripGroups
  <2> QED BY <1>1, <2>1, <2>2, <2>3 DEF Gripped
<1>6. CASE /\ drive = "float"
           /\ \E o \in Finishes :
                /\ Leaves(o)
                /\ IF o.ok THEN drive' = "none" /\ UNCHANGED healthy
                           ELSE healthy' = FALSE /\ UNCHANGED drive
           /\ UNCHANGED inferred
  <2>1. PICK o \in Finishes :
          /\ Leaves(o)
          /\ IF o.ok THEN drive' = "none" /\ UNCHANGED healthy
                     ELSE healthy' = FALSE /\ UNCHANGED drive
    BY <1>6
  <2>2. o \in Outcomes BY FinishesFacts DEF Gripped
  <2>3. gripLease' = o.lease /\ group' = o.group /\ o.lease \in 0 .. MaxGeneration /\ o.group \in GripGroups
    BY <2>1, <2>2 DEF Leaves, Outcomes
  <2>4. drive' \in {"none", "float"} /\ healthy' \in BOOLEAN /\ bound = None
    BY <1>1, <1>6, <2>1, GripTypes
  <2>5. GripTypeOK'
    BY <1>1, <1>6, <2>3, <2>4 DEF Gripped, GripTypeOK, GripGroups
  <2> QED BY <1>1, <2>4, <2>5 DEF Gripped
<1> QED BY <1>3, <1>4, <1>5, <1>6, GripTypes DEF GripTick

LEMMA GroupExpiresGrips == ASSUME Gripped, GroupExpires PROVE Gripped'
<1>1. setting' = setting /\ UNCHANGED <<drive, inferred, bound, gripLease, healthy, read, ending>>
  BY DEF GroupExpires, vars
<1>2. group' \in {Freed(group), Floating(group)} BY DEF GroupExpires
<1>3. /\ group' \in GripGroups
      /\ Holds(gripLease, group') => Holds(gripLease, group) /\ (group.guard => group'.guard)
  BY <1>2, GripTypes, GroupFacts DEF Holds
<1> QED BY <1>1, <1>3, GripTypes, StillGrips

\* The Contact Provider does not touch Grip's state.
LEMMA SettingStays == ASSUME [Next]_vars PROVE setting' = setting
<1>1. \A p \in Plans : Begin(p) => setting' = setting BY DEF Begin, BeginAnew
<1>2. Move \/ Guard \/ ConfirmCarry \/ RelaxRequest => setting' = setting
  BY DEF Move, Guard, ConfirmCarry, RelaxRequest
<1>3. EnterHot \/ EnterWarm \/ SetMotionInhibited \/ AskStop \/ Stop => setting' = setting
  BY DEF EnterHot, EnterWarm, SetMotionInhibited, AskStop, Stop
<1>4. Tick \/ WatchdogPasses \/ AuthorizationExpires \/ Pass => setting' = setting
  BY DEF Tick, WatchdogPasses, AuthorizationExpires, Pass
<1>5. Other \/ LeaseExpires \/ CommandExpires => setting' = setting
  BY DEF Other, LeaseExpires, CommandExpires
<1> QED BY <1>1, <1>2, <1>3, <1>4, <1>5 DEF Next, vars

LEMMA GrippedStays ==
  ASSUME Contact, Gripped, [CarryNext]_allVars
  PROVE  Gripped'
<1>1. CASE UNCHANGED grip /\ [Next]_vars
  <2>1. setting' = setting BY <1>1, SettingStays
  <2> QED BY <1>1, <2>1 DEF Gripped, GripTypeOK, Holds, grip
<1>2. CASE GripNext
  BY <1>2, SetPositionEffortGrips, SetMitPositionGrips, EnterMitFloatGrips, ReadCarryGrips,
     BindCarryGrips, ReleaseObjectGrips, GripWarmGrips, AskGripStopGrips, GripStopGrips,
     GripTickGrips, GroupExpiresGrips
  DEF GripNext
<1> QED BY <1>1, <1>2 DEF CarryNext, allVars

---------------------------------------------------------------------------
\* The Grip Provider keeps its invariant beside any behaviour of the Contact
\* Provider, for any number of plans and of generations.
THEOREM GrippedHolds ==
  ASSUME CommandLife > 1, LeaseLife > 1
  PROVE  CarrySpec => []Gripped
<1>1. GripInit => Gripped
  <2> SUFFICES ASSUME GripInit PROVE Gripped OBVIOUS
  <2>1. 0 \in 0 .. MaxGeneration BY LivesAssumption
  <2>2. GripTypeOK BY <2>1 DEF GripInit, GripTypeOK
  <2> QED BY <2>2 DEF GripInit, Gripped
<1>2. Contact /\ Gripped /\ [CarryNext]_allVars => Gripped' BY GrippedStays
<1> QED BY <1>1, <1>2, ContactHolds, PTL DEF CarrySpec

\* Every state of Grip and of the gripper group is of its type.
THEOREM GripTypeCorrect ==
  ASSUME CommandLife > 1, LeaseLife > 1
  PROVE  CarrySpec => []GripTypeOK
<1>1. Gripped => GripTypeOK BY DEF Gripped
<1> QED BY <1>1, GrippedHolds, PTL

\* A bound object is never driven in MIT, and its group is guarded when no
\* call is lost (_set_mit_position, _enter_mit_float, enter_warm,
\* _confirm_carry).
THEOREM BoundIsHeld ==
  ASSUME CommandLife > 1, LeaseLife > 1
  PROVE  CarrySpec => []BoundIsGripped
<1>1. Gripped => BoundIsGripped BY DEF Gripped, BoundIsGripped
<1> QED BY <1>1, GrippedHolds, PTL
=============================================================================
