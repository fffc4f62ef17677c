----------------------- MODULE ManagerShutdownProofs -----------------------
(***************************************************************************)
(* What the shutdown sequence guarantees for any Providers, plans and      *)
(* executions: Basic is stopped last and only after it agreed, and a       *)
(* record that says complete is true.                                      *)
(***************************************************************************)
EXTENDS ManagerShutdown, TLAPS

\* A plan lists every Provider configured, Basic and the named motion ones in
\* their own parts.
Drawn(q) ==
  /\ q.basic = BasicPart
  /\ NamedIntegrated \cap deployment.configured \subseteq q.motion \cup q.basic
  /\ q.motion \cup q.basic \cup q.other = deployment.configured
PlansAreDrawn ==
  /\ plan # None => Drawn(plan)
  /\ \A h \in Handlers : handler[h].at # "idle" =>
       handler[h].request # None /\ handler[h].plan # None /\ Drawn(handler[h].plan)

\* No execution is under way without the fence.
FencedFirst ==
  /\ \A e \in Executions : run[e] # None => fenced
  /\ \A h \in Handlers : handler[h].at = "record" => fenced
  /\ record # None => fenced

\* The Manager does not take p to be running: nothing but a start changes that.
Quiet(p) == ~(p \in up /\ tracked[p] = "running")

\* Without Providers of an earlier Manager or failing waits, every process is tracked.
ProcessesAreTracked ==
  ~deployment.waitFails /\ deployment.adopted = {} =>
    \A p \in up : p \in deployment.configured /\ tracked[p] = "running"

\* What the steps of execution e have established of the Providers they are done with.
Sound(e) ==
  LET r == run[e] IN
  /\ Drawn(r.plan)
  /\ r.busy # None => r.busy \in r.todo
  /\ r.at \in {"start", "end"} => r.busy = None
  /\ r.at = "basic" => r.todo \subseteq r.plan.basic
  /\ ~deployment.lateStarts =>
       /\ r.at = "relinquish" => \A p \in r.plan.motion \ r.todo : r.failed \/ Quiet(p)
       /\ r.at \in {"confirm", "others", "basic"} => \A p \in r.plan.motion : Quiet(p)
       /\ r.at = "confirm" => \A p \in r.plan.basic \ r.todo : r.failed \/ p \in r.acked \/ Quiet(p)
       /\ r.at \in {"others", "basic"} => \A p \in r.plan.basic : p \in r.acked \/ Quiet(p)
       /\ r.at = "others" => \A p \in r.plan.other \ r.todo : r.failed \/ Quiet(p)
       /\ r.at = "basic" =>
            /\ \A p \in r.plan.other : r.ordinary \/ Quiet(p)
            /\ \A p \in r.plan.basic \ r.todo : r.failed \/ Quiet(p)
            /\ r.busy # None => r.busy \in r.acked
RunsAreSound == \A e \in Executions : run[e] # None => Sound(e)

\* The record of an execution that has ended.
EndIsQuiet ==
  ~deployment.lateStarts /\ record # None =>
    /\ record.state = "AWAITING_SUPERVISOR" => \A p \in deployment.configured : Quiet(p)
    /\ record.state = "PARTIAL_FAILURE" =>
         \A p \in deployment.configured \cap (BasicArm \cup NamedIntegrated) : Quiet(p)

\* The inductive invariant.
Shutdown ==
  /\ TypeOK /\ PlansAreDrawn /\ FencedFirst /\ ProcessesAreTracked
  /\ RunsAreSound /\ EndIsQuiet

\* Where only one execute request is served at a time, it is served when no
\* execution is under way.
AcceptedAlone ==
  \A h \in Handlers : handler[h].at \in {"fence", "record"} => \A e \in Executions : ~Running(e)
RecordsRuns ==
  /\ \A e \in Executions : Running(e) => record # None
  /\ RunsAreRecorded /\ AcceptedAlone
---------------------------------------------------------------------------
\* What a step under the fence may do to the processes and to what the Manager
\* tracks of them: look again, or see one go.
Watched ==
  /\ up' \subseteq up
  /\ tracked' \in [Providers -> {"none", "running", "exited", "error"}]
  /\ \A p \in Providers : \/ tracked'[p] \in Refreshed(p) \cup {tracked[p]}
                          \/ tracked'[p] = "exited" /\ p \notin up'
  /\ deployment' = deployment

LEMMA RefreshedFacts ==
  ASSUME TypeOK, NEW p \in Providers, NEW s \in Refreshed(p)
  PROVE  /\ s \in {"none", "running", "exited", "error"}
         /\ s = "running" => p \in up /\ tracked[p] = "running"
         /\ ~deployment.waitFails => s = tracked[p] \/ p \notin up
BY DEF TypeOK, Refreshed

LEMMA Unwatched ==
  ASSUME TypeOK, UNCHANGED <<up, tracked, deployment>>
  PROVE  Watched
BY DEF TypeOK, Watched

LEMMA QuietStays ==
  ASSUME TypeOK, Watched, NEW p \in Providers, Quiet(p)
  PROVE  Quiet(p)'
<1>1. \A s \in Refreshed(p) : s = "running" => p \in up /\ tracked[p] = "running"
  BY RefreshedFacts
<1> QED BY <1>1 DEF Watched, Quiet

LEMMA TrackedStay ==
  ASSUME TypeOK, Watched, ProcessesAreTracked
  PROVE  ProcessesAreTracked'
<1>1. \A p \in Providers : \A s \in Refreshed(p) : ~deployment.waitFails => s = tracked[p] \/ p \notin up
  BY RefreshedFacts
<1> QED BY <1>1 DEF Watched, ProcessesAreTracked, TypeOK

LEMMA PlanParts ==
  ASSUME TypeOK, NEW e \in Executions, run[e] # None
  PROVE  /\ run[e] \in Run
         /\ run[e].plan.basic \subseteq Providers /\ run[e].plan.motion \subseteq Providers
         /\ run[e].plan.other \subseteq Providers
BY DEF TypeOK, Run, Plan

LEMMA RunStaysSound ==
  ASSUME TypeOK, Watched, NEW e \in Executions, run[e] # None, Sound(e), run'[e] = run[e]
  PROVE  Sound(e)'
<1>1. \A p \in Providers : Quiet(p) => Quiet(p)' BY QuietStays
<1>2. Drawn(run[e].plan) => Drawn(run[e].plan)' BY DEF Drawn, BasicPart, Watched
<1>3. deployment' = deployment BY DEF Watched
<1>4. run[e].plan.basic \subseteq Providers /\ run[e].plan.motion \subseteq Providers
      /\ run[e].plan.other \subseteq Providers
  BY PlanParts
<1> DEFINE r == run[e]
<1>5. Drawn(r.plan)' BY <1>2 DEF Sound
<1> QED BY <1>1, <1>3, <1>4, <1>5 DEF Sound

LEMMA EndStaysQuiet ==
  ASSUME TypeOK, Watched, EndIsQuiet, record' = record
  PROVE  EndIsQuiet'
<1>1. \A p \in Providers : Quiet(p) => Quiet(p)' BY QuietStays
<1>2. deployment.configured \subseteq Providers BY DeploymentsAreTyped DEF TypeOK, Deployment
<1> QED BY <1>1, <1>2 DEF EndIsQuiet, Watched

LEMMA DrawnStays ==
  ASSUME NEW q, Drawn(q), deployment' = deployment
  PROVE  Drawn(q)'
BY DEF Drawn, BasicPart

\* A step that touches no execution, and of the requests at most the plans they hold.
LEMMA CallsKeep ==
  ASSUME Shutdown, Watched, UNCHANGED <<run, record>>, report' \in [Providers -> {"none", "ready", "unready", "expired"}],
         fenced' \in BOOLEAN, fenced => fenced', plan' \in Plan \cup {None}, handler' \in [Handlers -> Handler],
         PlansAreDrawn', \A h \in Handlers : handler'[h].at = "record" => fenced'
  PROVE  Shutdown'
<1>1. TypeOK' BY DEF Shutdown, TypeOK, Watched
<1>2. FencedFirst' BY DEF Shutdown, FencedFirst
<1>3. ProcessesAreTracked' BY TrackedStay DEF Shutdown
<1>4. RunsAreSound'
  <2> SUFFICES ASSUME NEW e \in Executions, run'[e] # None PROVE Sound(e)' BY DEF RunsAreSound
  <2> QED BY RunStaysSound DEF Shutdown, RunsAreSound
<1>5. EndIsQuiet' BY EndStaysQuiet DEF Shutdown
<1> QED BY <1>1, <1>2, <1>3, <1>4, <1>5 DEF Shutdown

\* A step of execution e.
LEMMA TaskKeeps ==
  ASSUME Shutdown, Watched, NEW e \in Executions, run[e] # None,
         NEW x \in Run, run' = [run EXCEPT ![e] = x], Sound(e)',
         record' \in Record \cup {None}, record' # None => record # None, EndIsQuiet',
         UNCHANGED <<report, fenced, plan, handler>>
  PROVE  Shutdown'
<1>1. TypeOK' BY DEF Shutdown, TypeOK, Watched
<1>2. FencedFirst' BY DEF Shutdown, FencedFirst, TypeOK
<1>3. ProcessesAreTracked' BY TrackedStay DEF Shutdown
<1>4. RunsAreSound'
  <2> SUFFICES ASSUME NEW f \in Executions, run'[f] # None PROVE Sound(f)' BY DEF RunsAreSound
  <2>1. CASE f = e BY <2>1
  <2>2. CASE f # e
    <3>1. run'[f] = run[f] BY <2>2 DEF Shutdown, TypeOK
    <3> QED BY <3>1, RunStaysSound DEF Shutdown, RunsAreSound
  <2> QED BY <2>1, <2>2
<1>5. PlansAreDrawn' BY DrawnStays DEF Shutdown, PlansAreDrawn, Watched
<1> QED BY <1>1, <1>2, <1>3, <1>4, <1>5 DEF Shutdown
---------------------------------------------------------------------------
\* The Providers.
LEMMA StartKeeps == ASSUME Shutdown, NEW p \in Providers, Start(p) PROVE Shutdown'
<1> USE DEF Shutdown
<1>1. /\ p \in deployment.configured /\ (fenced => deployment.lateStarts)
      /\ up' = up \cup {p} /\ tracked' = [tracked EXCEPT ![p] = "running"]
      /\ UNCHANGED <<report, fenced, plan, record, handler, run, deployment>>
  BY DEF Start
<1>2. TypeOK' BY <1>1 DEF TypeOK
<1>3. FencedFirst' BY <1>1 DEF FencedFirst
<1>4. PlansAreDrawn' BY <1>1, DrawnStays DEF PlansAreDrawn
<1>5. ProcessesAreTracked' BY <1>1 DEF ProcessesAreTracked, TypeOK
<1>6. RunsAreSound'
  <2> SUFFICES ASSUME NEW e \in Executions, run'[e] # None PROVE Sound(e)' BY DEF RunsAreSound
  <2>1. deployment.lateStarts /\ Sound(e) BY <1>1 DEF FencedFirst, RunsAreSound
  <2>2. Drawn(run[e].plan)' BY <2>1, <1>1, DrawnStays DEF Sound, Drawn, BasicPart
  <2> QED BY <2>1, <2>2, <1>1 DEF Sound
<1>7. EndIsQuiet' BY <1>1 DEF EndIsQuiet, FencedFirst
<1> QED BY <1>2, <1>3, <1>4, <1>5, <1>6, <1>7

LEMMA ReportsKeep ==
  ASSUME Shutdown, NEW p \in Providers,
         Exit(p) \/ Expire(p) \/ \E r \in {"ready", "unready"} : SendReport(p, r)
  PROVE  Shutdown'
<1>1. /\ up' \subseteq up /\ UNCHANGED <<tracked, fenced, plan, record, handler, run, deployment>>
      /\ report' \in [Providers -> {"none", "ready", "unready", "expired"}]
  BY DEF Exit, Expire, SendReport, Shutdown, TypeOK
<1>2. Watched BY <1>1 DEF Watched, Shutdown, TypeOK
<1>3. PlansAreDrawn' BY <1>1, DrawnStays DEF PlansAreDrawn, Shutdown
<1> QED BY <1>1, <1>2, <1>3, CallsKeep DEF Shutdown, TypeOK, FencedFirst

LEMMA CreatePlanKeeps == ASSUME Shutdown, CreatePlan PROVE Shutdown'
<1>1. /\ tracked' \in [Providers -> {"none", "running", "exited", "error"}]
      /\ \A p \in Providers : tracked'[p] \in Refreshed(p)
      /\ UNCHANGED <<up, report, fenced, record, handler, run, deployment>>
  BY DEF CreatePlan
<1>2. Watched BY <1>1 DEF Watched
<1>3. PICK n \in 1 .. MaxPlans, b \in BOOLEAN :
        plan' = [id |-> n, motion |-> MotionPart, basic |-> BasicPart, other |-> OtherPart, blocked |-> b]
  BY DEF CreatePlan
<1>4. MotionPart \subseteq Providers /\ BasicPart \subseteq Providers /\ OtherPart \subseteq Providers
  BY DeploymentsAreTyped DEF MotionPart, BasicPart, OtherPart, Deployment, Shutdown, TypeOK
<1>5. plan' \in Plan BY <1>3, <1>4 DEF Plan
<1>6. /\ NamedIntegrated \cap deployment.configured \subseteq MotionPart \cup BasicPart
      /\ MotionPart \cup BasicPart \cup OtherPart = deployment.configured
  BY DEF MotionPart, BasicPart, OtherPart, MotionCapable
<1>7. Drawn(plan)' BY <1>1, <1>3, <1>6 DEF Drawn, BasicPart
<1>8. PlansAreDrawn' BY <1>1, <1>7, DrawnStays DEF PlansAreDrawn, Shutdown
<1> QED BY <1>1, <1>2, <1>5, <1>8, CallsKeep DEF Shutdown, TypeOK, FencedFirst

---------------------------------------------------------------------------
\* The execute requests.
LEMMA HandlersKeep ==
  ASSUME Shutdown, NEW h \in Handlers, NEW x \in Handler, handler' = [handler EXCEPT ![h] = x],
         x.at # "idle" => x.request # None /\ x.plan # None /\ Drawn(x.plan),
         x.at = "record" => fenced', fenced => fenced', fenced' \in BOOLEAN,
         UNCHANGED <<up, tracked, report, plan, record, run, deployment>>
  PROVE  Shutdown'
<1>1. Watched BY Unwatched DEF Shutdown
<1>2. handler' \in [Handlers -> Handler] BY DEF Shutdown, TypeOK
<1>3. \A g \in Handlers : handler'[g] = IF g = h THEN x ELSE handler[g] BY DEF Shutdown, TypeOK
<1>4. PlansAreDrawn'
  <2>1. plan' # None => Drawn(plan)' BY DrawnStays DEF Shutdown, PlansAreDrawn
  <2>2. ASSUME NEW g \in Handlers, handler'[g].at # "idle"
        PROVE  handler'[g].request # None /\ handler'[g].plan # None /\ Drawn(handler[g].plan)'
    <3>1. PICK q : q = handler'[g].plan OBVIOUS
    <3>2. handler'[g].request # None /\ q # None /\ Drawn(q) BY <3>1, <1>3, <2>2 DEF Shutdown, PlansAreDrawn
    <3>3. Drawn(q)' BY <3>2, DrawnStays
    <3> QED BY <3>1, <3>2, <3>3 DEF Drawn, BasicPart
  <2> QED BY <2>1, <2>2 DEF PlansAreDrawn
<1>5. \A g \in Handlers : handler'[g].at = "record" => fenced'
  BY <1>3 DEF Shutdown, FencedFirst
<1> QED BY <1>1, <1>2, <1>4, <1>5, CallsKeep DEF Shutdown, TypeOK

LEMMA RequestsKeep ==
  ASSUME Shutdown, NEW h \in Handlers,
         Decline(h) \/ Accept(h) \/ RaiseFence(h) \/ \E r \in Requests : FetchPlan(h, r)
  PROVE  Shutdown'
<1>1. handler[h] \in Handler /\ Idle \in Handler /\ Idle.at = "idle" BY DEF Shutdown, TypeOK, Idle, Handler
<1>2. CASE Decline(h)
  BY <1>1, <1>2, HandlersKeep DEF Decline, Shutdown, TypeOK
<1>3. CASE \E r \in Requests : FetchPlan(h, r)
  <2>1. PICK r \in Requests : FetchPlan(h, r) BY <1>3
  <2> DEFINE x == [at |-> "check", plan |-> plan, request |-> r]
  <2>2. plan # None /\ Drawn(plan) BY <2>1 DEF FetchPlan, Shutdown, PlansAreDrawn
  <2>3. x \in Handler /\ x.request # None /\ x.plan # None /\ Drawn(x.plan) /\ x.at = "check"
    BY <2>2, NoneIsNothing DEF Handler, Shutdown, TypeOK
  <2>4. handler' = [handler EXCEPT ![h] = x] BY <2>1 DEF FetchPlan
  <2> HIDE DEF x
  <2> QED BY <2>1, <2>3, <2>4, HandlersKeep DEF FetchPlan, Shutdown, TypeOK
<1>4. CASE Accept(h) \/ RaiseFence(h)
  <2>1. PICK at \in {"fence", "record"} :
          handler' = [handler EXCEPT ![h] = [handler[h] EXCEPT !.at = at]] /\ (at = "record" => fenced')
    BY <1>4 DEF Accept, RaiseFence
  <2> DEFINE x == [handler[h] EXCEPT !.at = at]
  <2>2. handler[h].request # None /\ handler[h].plan # None /\ Drawn(handler[h].plan)
    BY <1>4 DEF Accept, RaiseFence, Shutdown, PlansAreDrawn
  <2>3. x \in Handler /\ x.plan = handler[h].plan /\ x.request = handler[h].request /\ x.at = at BY <1>1 DEF Handler
  <2>4. /\ fenced' \in BOOLEAN /\ (fenced => fenced')
        /\ UNCHANGED <<up, tracked, report, plan, record, run, deployment>>
    BY <1>4 DEF Accept, RaiseFence, Shutdown, TypeOK
  <2> HIDE DEF x
  <2>5. handler' = [handler EXCEPT ![h] = x] BY <2>1 DEF x
  <2> QED BY <2>1, <2>2, <2>3, <2>4, <2>5, HandlersKeep
<1> QED BY <1>2, <1>3, <1>4

LEMMA RecordedFacts ==
  ASSUME TypeOK, NEW e \in Executions, NEW s \in Terminal \cup {"ACCEPTED", "RUNNING"}
  PROVE  /\ Recorded(e, s) \in Record \cup {None}
         /\ Recorded(e, s) # None => record # None
         /\ \/ Recorded(e, s) = record
            \/ record # None /\ record.execution = e /\ Recorded(e, s).state = s
BY NoneIsNothing DEF TypeOK, Recorded, Record

\* The record cannot speak of the end until it has come.
LEMMA RecordedKeepsEnd ==
  ASSUME TypeOK, Watched, EndIsQuiet, NEW e \in Executions, NEW s \in Terminal \cup {"ACCEPTED", "RUNNING"},
         s \notin {"AWAITING_SUPERVISOR", "PARTIAL_FAILURE"}, record' = Recorded(e, s)
  PROVE  EndIsQuiet'
<1>1. CASE Recorded(e, s) = record BY <1>1, EndStaysQuiet
<1>2. CASE Recorded(e, s).state = s BY <1>2 DEF EndIsQuiet
<1> QED BY <1>1, <1>2, RecordedFacts

---------------------------------------------------------------------------
\* The executions.
LEMMA SetRecordKeeps == ASSUME Shutdown, NEW h \in Handlers, SetRecord(h) PROVE Shutdown'
<1>1. PICK e \in Executions :
        /\ run[e] = None
        /\ record' = [execution |-> e, plan |-> handler[h].plan.id,
                      request |-> handler[h].request, state |-> "ACCEPTED"]
        /\ run' = [run EXCEPT ![e] =
                     [plan |-> handler[h].plan, at |-> "start", todo |-> {}, busy |-> None,
                      failed |-> FALSE, ordinary |-> FALSE, acked |-> {}]]
  BY DEF SetRecord
<1> DEFINE x == [plan |-> handler[h].plan, at |-> "start", todo |-> {}, busy |-> None,
                 failed |-> FALSE, ordinary |-> FALSE, acked |-> {}]
<1>2. /\ handler[h].at = "record" /\ handler' = [handler EXCEPT ![h] = Idle]
      /\ UNCHANGED <<up, tracked, report, fenced, plan, deployment>>
  BY DEF SetRecord
<1>3. /\ handler[h] \in Handler /\ handler[h].plan # None /\ Drawn(handler[h].plan) /\ fenced
      /\ handler[h].request # None
  BY <1>2 DEF Shutdown, TypeOK, PlansAreDrawn, FencedFirst
<1>4. x \in Run /\ x.plan = handler[h].plan /\ x.at = "start" /\ x.busy = None /\ x.todo = {}
  BY <1>3 DEF Handler, Run, Plan
<1>5. record' \in Record /\ record'.state = "ACCEPTED"
  BY <1>1, <1>3 DEF Handler, Record, Plan
<1> HIDE DEF x
<1>6. run' = [run EXCEPT ![e] = x] BY <1>1 DEF x
<1>7. Watched BY <1>2, Unwatched DEF Shutdown
<1>8. Idle \in Handler /\ Idle.at = "idle" BY DEF Idle, Handler
<1>9. \A g \in Handlers : handler'[g] = IF g = h THEN Idle ELSE handler[g] BY <1>2 DEF Shutdown, TypeOK
<1>10. TypeOK' BY <1>2, <1>4, <1>5, <1>6, <1>8 DEF Shutdown, TypeOK
<1>11. FencedFirst' BY <1>2, <1>3, <1>8, <1>9 DEF Shutdown, FencedFirst
<1>12. ProcessesAreTracked' BY <1>7, TrackedStay DEF Shutdown
<1>13. PlansAreDrawn'
  BY <1>2, <1>8, <1>9, DrawnStays DEF Shutdown, PlansAreDrawn
<1>14. RunsAreSound'
  <2> SUFFICES ASSUME NEW f \in Executions, run'[f] # None PROVE Sound(f)' BY DEF RunsAreSound
  <2>1. CASE f = e
    <3>1. run'[f] = x BY <2>1, <1>6 DEF Shutdown, TypeOK
    <3>3. Drawn(run[f].plan)' BY <3>1, <1>2, <1>3, <1>4 DEF Drawn, BasicPart
    <3> QED BY <3>1, <3>3, <1>4 DEF Sound
  <2>2. CASE f # e
    <3>1. run'[f] = run[f] BY <2>2, <1>6 DEF Shutdown, TypeOK
    <3> QED BY <3>1, <1>7, RunStaysSound DEF Shutdown, RunsAreSound
  <2> QED BY <2>1, <2>2
<1>15. EndIsQuiet' BY <1>5 DEF EndIsQuiet
<1> QED BY <1>10, <1>11, <1>12, <1>13, <1>14, <1>15 DEF Shutdown

LEMMA BeginKeeps == ASSUME Shutdown, NEW e \in Executions, Begin(e) PROVE Shutdown'
<1> DEFINE r == run[e]
           x == [r EXCEPT !.at = "relinquish", !.todo = r.plan.motion]
<1>1. /\ r # None /\ r.at = "start" /\ record' = Recorded(e, "RUNNING")
      /\ run' = [run EXCEPT ![e] = x]
      /\ UNCHANGED <<up, tracked, report, fenced, plan, handler, deployment>>
  BY DEF Begin
<1>2. r \in Run /\ Sound(e) BY <1>1 DEF Shutdown, TypeOK, RunsAreSound
<1>3. r.busy = None BY <1>1, <1>2 DEF Sound
<1>4. /\ x \in Run /\ x.at = "relinquish" /\ x.todo = r.plan.motion /\ x.plan = r.plan
      /\ x.busy = None
  BY <1>2, <1>3 DEF Run, Plan, Steps
<1> HIDE DEF x
<1>5. Watched BY <1>1, Unwatched DEF Shutdown
<1>6. run'[e] = x BY <1>1 DEF Shutdown, TypeOK
<1>7. Drawn(run[e].plan)' BY <1>1, <1>2, <1>4, <1>6 DEF Sound, Drawn, BasicPart
<1>8. Sound(e)' BY <1>4, <1>6, <1>7 DEF Sound
<1>9. EndIsQuiet' BY <1>1, <1>5, RecordedKeepsEnd DEF Shutdown
<1> QED BY <1>1, <1>4, <1>5, <1>8, <1>9, TaskKeeps, RecordedFacts DEF Shutdown

\* A look at a Provider, the end of its turn, and the answers it may give.
Turned(e, p, x) ==
  \/ x = [run[e] EXCEPT !.busy = p]
  \/ x = [run[e] EXCEPT !.todo = @ \ {p}, !.busy = None]
  \/ x = [run[e] EXCEPT !.todo = @ \ {p}, !.busy = None, !.acked = @ \cup {p}]
  \/ x = [run[e] EXCEPT !.todo = @ \ {p}, !.busy = None, !.failed = TRUE]

LEMMA TurnedFacts ==
  ASSUME TypeOK, NEW e \in Executions, NEW p \in Providers, run[e] # None, NEW x, Turned(e, p, x)
  PROVE  /\ x \in Run /\ x.plan = run[e].plan /\ x.at = run[e].at /\ x.ordinary = run[e].ordinary
         /\ run[e].acked \subseteq x.acked /\ (run[e].failed => x.failed)
         /\ \/ x.busy = p /\ x.todo = run[e].todo
            \/ x.busy = None /\ x.todo = run[e].todo \ {p}
<1> DEFINE r == run[e]
<1>1. r \in Run BY PlanParts
<1>0. r.failed \in BOOLEAN BY <1>1 DEF Run
<1>2. PICK busy \in {p, None}, todo \in SUBSET r.todo, acked \in SUBSET (r.acked \cup {p}), failed \in BOOLEAN :
        /\ x = [r EXCEPT !.busy = busy, !.todo = todo, !.acked = acked, !.failed = failed]
        /\ (busy = p /\ todo = r.todo) \/ (busy = None /\ todo = r.todo \ {p})
        /\ r.acked \subseteq acked /\ (r.failed => failed)
  <2>1. CASE x = [r EXCEPT !.busy = p]
    <3>1. x = [r EXCEPT !.busy = p, !.todo = r.todo, !.acked = r.acked, !.failed = r.failed]
      BY <1>1, <2>1 DEF Run
    <3> QED BY <1>0, <3>1
  <2>2. CASE x = [r EXCEPT !.todo = r.todo \ {p}, !.busy = None]
    <3>1. x = [r EXCEPT !.busy = None, !.todo = r.todo \ {p}, !.acked = r.acked, !.failed = r.failed]
      BY <1>1, <2>2 DEF Run
    <3> QED BY <1>0, <3>1
  <2>3. CASE x = [r EXCEPT !.todo = r.todo \ {p}, !.busy = None, !.acked = r.acked \cup {p}]
    <3>1. x = [r EXCEPT !.busy = None, !.todo = r.todo \ {p}, !.acked = r.acked \cup {p}, !.failed = r.failed]
      BY <1>1, <2>3 DEF Run
    <3> WITNESS None \in {p, None}, r.todo \ {p} \in SUBSET r.todo,
                r.acked \cup {p} \in SUBSET (r.acked \cup {p}), r.failed \in BOOLEAN
    <3> QED BY <3>1
  <2>4. CASE x = [r EXCEPT !.todo = r.todo \ {p}, !.busy = None, !.failed = TRUE]
    <3>1. x = [r EXCEPT !.busy = None, !.todo = r.todo \ {p}, !.acked = r.acked, !.failed = TRUE]
      BY <1>1, <2>4 DEF Run
    <3> QED BY <1>0, <3>1
  <2> QED BY <2>1, <2>2, <2>3, <2>4 DEF Turned
<1> HIDE DEF r
<1>3. x \in Run BY <1>1, <1>2 DEF Run
<1>4. /\ x.plan = r.plan /\ x.at = r.at /\ x.ordinary = r.ordinary /\ x.busy = busy /\ x.todo = todo
      /\ x.acked = acked /\ x.failed = failed
  BY <1>1, <1>2 DEF Run
<1> QED BY <1>2, <1>3, <1>4 DEF r

\* A turn keeps what is established, if whoever leaves the list is quiet, agreed
\* or counted as a failure, and Basic is called in the last step only.
LEMMA TurnKeeps ==
  ASSUME Shutdown, Watched, NEW e \in Executions, NEW p \in Providers, run[e] # None, run[e].at \in Steps,
         p \in run[e].todo, NEW x, Turned(e, p, x), run' = [run EXCEPT ![e] = x],
         x.busy # p => x.failed \/ Quiet(p)' \/ (run[e].at = "confirm" /\ p \in x.acked),
         x.busy = p => ~Quiet(p),
         UNCHANGED <<report, fenced, plan, record, handler>>
  PROVE  Shutdown'
<1> DEFINE r == run[e]
<1>1. /\ x \in Run /\ x.plan = r.plan /\ x.at = r.at /\ x.ordinary = r.ordinary
      /\ r.acked \subseteq x.acked /\ (r.failed => x.failed)
      /\ \/ x.busy = p /\ x.todo = r.todo
         \/ x.busy = None /\ x.todo = r.todo \ {p}
  BY TurnedFacts DEF Shutdown
<1>2. run'[e] = x BY DEF Shutdown, TypeOK
<1>3. \A q \in Providers : Quiet(q) => Quiet(q)' BY QuietStays DEF Shutdown
<1>4. Sound(e) /\ deployment' = deployment BY DEF Shutdown, RunsAreSound, Watched
<1>5. r.plan.basic \subseteq Providers /\ r.plan.motion \subseteq Providers /\ r.plan.other \subseteq Providers
  BY PlanParts DEF Shutdown
<1>6. Drawn(run[e].plan)' BY <1>1, <1>2, <1>4 DEF Sound, Drawn, BasicPart
<1>7. x.busy # None => x.busy \in x.todo BY <1>1, NoneIsNothing
<1>8. x.at \notin {"start", "end"} BY <1>1 DEF Steps
<1>9. x.at = "basic" => x.todo \subseteq x.plan.basic BY <1>1, <1>4 DEF Sound
<1>10. ASSUME ~deployment.lateStarts
       PROVE  /\ x.at = "relinquish" => \A q \in x.plan.motion \ x.todo : x.failed \/ Quiet(q)'
              /\ x.at \in {"confirm", "others", "basic"} => \A q \in x.plan.motion : Quiet(q)'
              /\ x.at = "confirm" => \A q \in x.plan.basic \ x.todo : x.failed \/ q \in x.acked \/ Quiet(q)'
              /\ x.at \in {"others", "basic"} => \A q \in x.plan.basic : q \in x.acked \/ Quiet(q)'
              /\ x.at = "others" => \A q \in x.plan.other \ x.todo : x.failed \/ Quiet(q)'
  BY <1>1, <1>3, <1>4, <1>5, <1>10, NoneIsNothing DEF Sound
<1>11. ASSUME ~deployment.lateStarts, x.at = "basic"
       PROVE  /\ \A q \in x.plan.other : x.ordinary \/ Quiet(q)'
              /\ \A q \in x.plan.basic \ x.todo : x.failed \/ Quiet(q)'
              /\ x.busy # None => x.busy \in x.acked
  BY <1>1, <1>3, <1>4, <1>5, <1>11, NoneIsNothing DEF Sound
<1>12. Sound(e)' BY <1>2, <1>4, <1>6, <1>7, <1>8, <1>9, <1>10, <1>11 DEF Sound
<1>13. EndIsQuiet' BY EndStaysQuiet DEF Shutdown
<1> QED BY <1>1, <1>12, <1>13, TaskKeeps DEF Shutdown, TypeOK

\* The ends of a turn, as updates of one execution.
LEMMA TurnsOver ==
  ASSUME TypeOK, NEW e \in Executions, NEW p \in Providers
  PROVE  /\ Confirm(e, p) = [run EXCEPT ![e] = [run[e] EXCEPT !.todo = @ \ {p}, !.busy = None]]
         /\ Fail(e, p) =
              [run EXCEPT ![e] = [run[e] EXCEPT !.todo = @ \ {p}, !.busy = None, !.failed = TRUE]]
         /\ [Confirm(e, p) EXCEPT ![e].acked = @ \cup {p}] =
              [run EXCEPT ![e] = [run[e] EXCEPT !.todo = @ \ {p}, !.busy = None, !.acked = @ \cup {p}]]
<1>1. run \in [Executions -> Run \cup {None}] BY DEF TypeOK
<1>2. Confirm(e, p) = [run EXCEPT ![e] = [run[e] EXCEPT !.todo = @ \ {p}, !.busy = None]]
  BY <1>1 DEF Confirm
<1>3. Fail(e, p) = [run EXCEPT ![e] = [run[e] EXCEPT !.todo = @ \ {p}, !.busy = None, !.failed = TRUE]]
  BY <1>1 DEF Fail
<1>4. [Confirm(e, p) EXCEPT ![e].acked = @ \cup {p}] =
        [run EXCEPT ![e] = [run[e] EXCEPT !.todo = @ \ {p}, !.busy = None, !.acked = @ \cup {p}]]
  BY <1>1, <1>2
<1> QED BY <1>2, <1>3, <1>4

LEMMA FailedIs ==
  ASSUME TypeOK, NEW e \in Executions, NEW p \in Providers, run[e] # None
  PROVE  /\ [run[e] EXCEPT !.todo = @ \ {p}, !.busy = None, !.failed = TRUE].failed
         /\ [run[e] EXCEPT !.todo = @ \ {p}, !.busy = None, !.failed = TRUE].busy = None
         /\ [run[e] EXCEPT !.todo = @ \ {p}, !.busy = None].busy = None
         /\ [run[e] EXCEPT !.busy = p].busy = p
         /\ p \in [run[e] EXCEPT !.todo = @ \ {p}, !.busy = None, !.acked = @ \cup {p}].acked
BY PlanParts DEF Run

LEMMA LookKeeps ==
  ASSUME Shutdown, NEW e \in Executions, NEW p \in Providers, Look(e, p) PROVE Shutdown'
<1>1. /\ run[e] # None /\ run[e].at \in Steps /\ p \in run[e].todo
      /\ UNCHANGED <<up, report, fenced, plan, record, handler, deployment>>
  BY DEF Look, At
<1>2. PICK s \in Refreshed(p) :
        /\ tracked' = [tracked EXCEPT ![p] = s]
        /\ run' = CASE s = "running" -> [run EXCEPT ![e].busy = p]
                    [] s = "none" /\ report[p] = "ready" -> Fail(e, p)
                    [] OTHER -> Confirm(e, p)
  BY DEF Look
<1>3. /\ s \in {"none", "running", "exited", "error"}
      /\ s = "running" => p \in up /\ tracked[p] = "running"
  BY RefreshedFacts DEF Shutdown
<1>4. Watched BY <1>1, <1>2, <1>3 DEF Watched, Shutdown, TypeOK
<1>5. s # "running" => Quiet(p)' BY <1>1, <1>2 DEF Quiet, Shutdown, TypeOK
<1>6. s = "running" => ~Quiet(p) BY <1>3 DEF Quiet
<1>7. CASE s = "running"
  <2> DEFINE x == [run[e] EXCEPT !.busy = p]
  <2>1. run' = [run EXCEPT ![e] = x] BY <1>2, <1>7 DEF Shutdown, TypeOK
  <2>2. Turned(e, p, x) BY DEF Turned
  <2>3. x.busy = p BY <1>1, FailedIs DEF Shutdown
  <2> HIDE DEF x
  <2> QED BY <1>1, <1>4, <1>6, <1>7, <2>1, <2>2, <2>3, TurnKeeps
<1>8. CASE s = "none" /\ report[p] = "ready"
  <2> DEFINE x == [run[e] EXCEPT !.todo = @ \ {p}, !.busy = None, !.failed = TRUE]
  <2>1. run' = [run EXCEPT ![e] = x] BY <1>2, <1>8, TurnsOver DEF Shutdown
  <2>2. Turned(e, p, x) BY DEF Turned
  <2>3. x.failed /\ x.busy = None BY <1>1, FailedIs DEF Shutdown
  <2> HIDE DEF x
  <2> QED BY <1>1, <1>4, <2>1, <2>2, <2>3, TurnKeeps, NoneIsNothing
<1>9. CASE s # "running" /\ ~(s = "none" /\ report[p] = "ready")
  <2> DEFINE x == [run[e] EXCEPT !.todo = @ \ {p}, !.busy = None]
  <2>1. run' = [run EXCEPT ![e] = x] BY <1>2, <1>9, TurnsOver DEF Shutdown
  <2>2. Turned(e, p, x) BY DEF Turned
  <2>3. x.busy = None BY <1>1, FailedIs DEF Shutdown
  <2> HIDE DEF x
  <2> QED BY <1>1, <1>4, <1>5, <1>9, <2>1, <2>2, <2>3, TurnKeeps, NoneIsNothing
<1> QED BY <1>7, <1>8, <1>9

LEMMA AnswersKeep ==
  ASSUME Shutdown, NEW e \in Executions, NEW p \in Providers,
         Acknowledge(e, p) \/ Refuse(e, p) \/ StopFails(e, p)
  PROVE  Shutdown'
<1>1. /\ run[e] # None /\ run[e].at \in Steps /\ run[e].busy = p
      /\ UNCHANGED <<up, report, fenced, plan, record, handler, deployment>>
  BY DEF Acknowledge, Refuse, StopFails, At, Steps
<1>2. p \in run[e].todo BY <1>1, NoneIsNothing DEF Shutdown, RunsAreSound, Sound
<1>3. Watched
  <2>1. CASE UNCHANGED tracked BY <1>1, <2>1, Unwatched DEF Shutdown
  <2>2. CASE \E s \in Refreshed(p) : tracked' = [tracked EXCEPT ![p] = s]
    BY <1>1, <2>2, RefreshedFacts DEF Watched, Shutdown, TypeOK
  <2> QED BY <2>1, <2>2 DEF Acknowledge, Refuse, StopFails
<1>4. CASE Acknowledge(e, p)
  <2> DEFINE x == [run[e] EXCEPT !.todo = @ \ {p}, !.busy = None, !.acked = @ \cup {p}]
  <2>1. run' = [run EXCEPT ![e] = x] BY <1>4, TurnsOver DEF Shutdown, Acknowledge
  <2>2. Turned(e, p, x) BY DEF Turned
  <2>3. p \in x.acked /\ run[e].at = "confirm" BY <1>1, <1>4, FailedIs DEF Shutdown, Acknowledge, At
  <2>4. x.busy = None BY <1>1, PlanParts DEF Shutdown, Run
  <2> HIDE DEF x
  <2> QED BY <1>1, <1>2, <1>3, <2>1, <2>2, <2>3, <2>4, TurnKeeps, NoneIsNothing
<1>5. CASE Refuse(e, p) \/ StopFails(e, p)
  <2> DEFINE x == [run[e] EXCEPT !.todo = @ \ {p}, !.busy = None, !.failed = TRUE]
  <2>1. run' = [run EXCEPT ![e] = x] BY <1>5, TurnsOver DEF Shutdown, Refuse, StopFails
  <2>2. Turned(e, p, x) BY DEF Turned
  <2>3. x.failed /\ x.busy = None BY <1>1, FailedIs DEF Shutdown
  <2> HIDE DEF x
  <2> QED BY <1>1, <1>2, <1>3, <2>1, <2>2, <2>3, TurnKeeps, NoneIsNothing
<1> QED BY <1>4, <1>5

LEMMA StopsKeep ==
  ASSUME Shutdown, NEW e \in Executions, NEW p \in Providers, Stopped(e, p) \/ Killed(e, p)
  PROVE  Shutdown'
<1>1. /\ run[e] # None /\ run[e].at \in Steps /\ run[e].busy = p /\ run' = Confirm(e, p)
      /\ up' \subseteq up /\ p \notin up' /\ tracked' = [tracked EXCEPT ![p] = "exited"]
      /\ UNCHANGED <<report, fenced, plan, record, handler, deployment>>
  BY DEF Stopped, Killed, At, Steps
<1>2. p \in run[e].todo BY <1>1, NoneIsNothing DEF Shutdown, RunsAreSound, Sound
<1>3. Watched BY <1>1 DEF Watched, Shutdown, TypeOK
<1>4. Quiet(p)' BY <1>1 DEF Quiet
<1> DEFINE x == [run[e] EXCEPT !.todo = @ \ {p}, !.busy = None]
<1>5. run' = [run EXCEPT ![e] = x] BY <1>1, TurnsOver DEF Shutdown
<1>6. Turned(e, p, x) BY DEF Turned
<1>7. x.busy = None BY <1>1, FailedIs DEF Shutdown
<1> HIDE DEF x
<1> QED BY <1>1, <1>2, <1>3, <1>4, <1>5, <1>6, <1>7, TurnKeeps, NoneIsNothing

\* What a step that has passed has established.
LEMMA PassedFacts ==
  ASSUME Shutdown, NEW e \in Executions, Passed(e)
  PROVE  /\ run[e] # None /\ run[e] \in Run /\ run[e].at \in Steps /\ Sound(e)
         /\ run[e].busy = None /\ run[e].todo = {}
         /\ run[e].failed => run[e].at = "others"
BY PlanParts DEF Shutdown, RunsAreSound, Passed, StepDone, At, SafetySteps, Steps

LEMMA NextStepKeeps == ASSUME Shutdown, NEW e \in Executions, NextStep(e) PROVE Shutdown'
<1> DEFINE r == run[e]
<1>1. /\ r # None /\ r \in Run /\ r.at \in Steps /\ Sound(e) /\ r.busy = None /\ r.todo = {}
      /\ r.failed => r.at = "others"
  BY PassedFacts DEF NextStep
<1>2. PICK step \in Steps, todo \in {r.plan.basic, r.plan.other} :
        /\ Enter(e, step, todo)
        /\ \/ r.at = "relinquish" /\ step = "confirm" /\ todo = r.plan.basic
           \/ r.at = "confirm" /\ step = "others" /\ todo = r.plan.other
           \/ r.at = "others" /\ step = "basic" /\ todo = r.plan.basic
  BY DEF NextStep, Steps
<1>3. UNCHANGED <<up, tracked, report, fenced, plan, record, handler, deployment>> BY DEF NextStep
<1> DEFINE x == [r EXCEPT !.at = step, !.todo = todo, !.failed = FALSE, !.ordinary = @ \/ r.failed]
<1>4. run' = [run EXCEPT ![e] = x] BY <1>2 DEF Enter, Shutdown, TypeOK
<1>5. r.plan.basic \subseteq Providers /\ r.plan.motion \subseteq Providers /\ r.plan.other \subseteq Providers
  BY <1>1, PlanParts DEF Shutdown
<1>6. x \in Run BY <1>1, <1>5 DEF Run, Steps
<1>7. x.at = step /\ x.todo = todo /\ x.plan = r.plan /\ x.busy = None /\ x.acked = r.acked BY <1>1 DEF Run
<1>8. x.ordinary = (r.ordinary \/ r.failed) /\ x.failed = FALSE BY <1>1 DEF Run
<1> HIDE DEF x
<1>9. Watched BY <1>3, Unwatched DEF Shutdown
<1>10. run'[e] = x BY <1>4 DEF Shutdown, TypeOK
<1>11. Drawn(run[e].plan)' BY <1>1, <1>3, <1>7, <1>10 DEF Sound, Drawn, BasicPart
<1>12. \A q \in Providers : Quiet(q)' = Quiet(q) BY <1>3 DEF Quiet
<1>13. ASSUME ~deployment.lateStarts
       PROVE  /\ \A q \in x.plan.motion : Quiet(q)'
              /\ step = "confirm" => \A q \in x.plan.basic \ x.todo : Quiet(q)'
              /\ step \in {"others", "basic"} => \A q \in x.plan.basic : q \in x.acked \/ Quiet(q)'
              /\ step = "others" => \A q \in x.plan.other \ x.todo : Quiet(q)'
              /\ step = "basic" => /\ \A q \in x.plan.other : x.ordinary \/ Quiet(q)'
                                   /\ \A q \in x.plan.basic \ x.todo : Quiet(q)'
  BY <1>1, <1>2, <1>5, <1>7, <1>8, <1>12, <1>13 DEF Sound
<1>14. Sound(e)' BY <1>2, <1>3, <1>7, <1>10, <1>11, <1>13 DEF Sound
<1>15. EndIsQuiet' BY <1>3, <1>9, EndStaysQuiet DEF Shutdown
<1> QED BY <1>1, <1>3, <1>4, <1>6, <1>9, <1>14, <1>15, TaskKeeps DEF Shutdown, TypeOK

LEMMA EndKeeps == ASSUME Shutdown, NEW e \in Executions, Block(e) \/ Complete(e) PROVE Shutdown'
<1> DEFINE r == run[e]
           x == [r EXCEPT !.at = "end"]
<1>1. /\ r # None /\ r \in Run /\ Sound(e) /\ r.busy = None
      /\ run' = [run EXCEPT ![e] = x]
      /\ UNCHANGED <<up, tracked, report, fenced, plan, handler, deployment>>
  BY PlanParts DEF Block, Complete, Passed, StepDone, At, Shutdown, RunsAreSound
<1>2. x \in Run /\ x.at = "end" /\ x.plan = r.plan /\ x.busy = None BY <1>1 DEF Run
<1> HIDE DEF x
<1>3. run'[e] = x BY <1>1 DEF Shutdown, TypeOK
<1>4. Drawn(run[e].plan)' BY <1>1, <1>2, <1>3 DEF Sound, Drawn, BasicPart
<1>5. Sound(e)' BY <1>2, <1>3, <1>4 DEF Sound
<1>6. Watched BY <1>1, Unwatched DEF Shutdown
<1>7. PICK s \in Terminal : record' = Recorded(e, s) /\
        (s # "BLOCKED" => Complete(e) /\ s = IF r.ordinary THEN "PARTIAL_FAILURE" ELSE "AWAITING_SUPERVISOR")
  BY DEF Block, Complete, Terminal
<1>8. EndIsQuiet'
  <2>1. CASE s = "BLOCKED" BY <1>6, <1>7, <2>1, RecordedKeepsEnd DEF Shutdown, Terminal
  <2>2. CASE s # "BLOCKED" /\ record' = record BY <1>6, <2>2, EndStaysQuiet DEF Shutdown
  <2>3. CASE s # "BLOCKED" /\ record'.state = s
    <3>1. r.at = "basic" /\ ~r.failed /\ r.todo = {}
      BY <1>7, <2>3, PassedFacts DEF Complete
    <3>2. ASSUME ~deployment.lateStarts
          PROVE  /\ \A q \in r.plan.motion \cup r.plan.basic : Quiet(q)
                 /\ ~r.ordinary => \A q \in r.plan.other : Quiet(q)
      BY <1>1, <3>1, <3>2 DEF Sound
    <3>3. Drawn(r.plan) BY <1>1 DEF Sound
    <3>4. ASSUME ~deployment.lateStarts
          PROVE  /\ s = "AWAITING_SUPERVISOR" => \A q \in deployment.configured : Quiet(q)
                 /\ \A q \in deployment.configured \cap (BasicArm \cup NamedIntegrated) : Quiet(q)
      BY <1>7, <2>3, <3>2, <3>3, <3>4 DEF Drawn, BasicPart
    <3>5. \A q : Quiet(q)' = Quiet(q) BY <1>1 DEF Quiet
    <3> QED BY <1>1, <2>3, <3>4, <3>5 DEF EndIsQuiet
  <2> QED BY <1>7, <2>1, <2>2, <2>3, RecordedFacts DEF Shutdown, Terminal
<1> QED BY <1>1, <1>2, <1>5, <1>6, <1>7, <1>8, TaskKeeps, RecordedFacts DEF Shutdown, Terminal

---------------------------------------------------------------------------
LEMMA TaskStepsKeep == ASSUME Shutdown, NEW e \in Executions, Task(e) PROVE Shutdown'
BY BeginKeeps, EndKeeps, NextStepKeeps, LookKeeps, AnswersKeep, StopsKeep DEF Task

LEMMA NextKeeps == ASSUME Shutdown, [Next]_vars PROVE Shutdown'
<1>1. CASE \E p \in Providers :
             Start(p) \/ Expire(p) \/ Exit(p) \/ \E r \in {"ready", "unready"} : SendReport(p, r)
  BY <1>1, StartKeeps, ReportsKeep
<1>2. CASE CreatePlan BY <1>2, CreatePlanKeeps
<1>3. CASE \E h \in Handlers : Serve(h) \/ \E r \in Requests : FetchPlan(h, r)
  BY <1>3, RequestsKeep, SetRecordKeeps DEF Serve
<1>4. CASE \E e \in Executions : Task(e) BY <1>4, TaskStepsKeep
<1>5. CASE UNCHANGED vars
  <2>1. Watched /\ UNCHANGED <<report, fenced, plan, record, handler, run, deployment>>
    BY <1>5, Unwatched DEF vars, Shutdown
  <2>2. PlansAreDrawn' BY <2>1 DEF Shutdown, PlansAreDrawn, Drawn, BasicPart
  <2> QED BY <2>1, <2>2, CallsKeep DEF Shutdown, TypeOK, FencedFirst
<1> QED BY <1>1, <1>2, <1>3, <1>4, <1>5 DEF Next

\* What is known of the Providers, the plans and the executions on which the
\* order of the sequence rests (build_shutdown_plan, execute_shutdown_plan,
\* run_shutdown_execution).
THEOREM ShutdownHolds == Spec => []Shutdown
<1>1. Init => Shutdown
  <2> SUFFICES ASSUME Init PROVE Shutdown OBVIOUS
  <2>1. deployment \in Deployment /\ deployment.adopted \subseteq Providers
    BY DeploymentsAreTyped DEF Init, Deployment
  <2>2. Idle \in Handler /\ Idle.at = "idle" BY DEF Idle, Handler
  <2>3. TypeOK BY <2>1, <2>2 DEF Init, TypeOK
  <2>4. PlansAreDrawn /\ FencedFirst BY <2>2 DEF Init, PlansAreDrawn, FencedFirst
  <2>5. ProcessesAreTracked /\ RunsAreSound /\ EndIsQuiet
    BY <2>1 DEF Init, ProcessesAreTracked, RunsAreSound, EndIsQuiet
  <2> QED BY <2>3, <2>4, <2>5 DEF Shutdown
<1> QED BY <1>1, NextKeeps, PTL DEF Spec

\* Every variable has its type.
THEOREM ShutdownTypeCorrect == Spec => []TypeOK
<1>1. Shutdown => TypeOK BY DEF Shutdown
<1> QED BY <1>1, ShutdownHolds, PTL

\* Basic is asked to stop only after it allowed its termination in this very
\* execution, whatever the Providers are, however many plans, requests and
\* executions there are, and whatever is reported (run_shutdown_execution).
THEOREM BasicAgreesFirst == Spec => []AckBeforeBasicStop
<1>1. Shutdown => AckBeforeBasicStop
  BY DEF Shutdown, RunsAreSound, Sound, AckBeforeBasicStop, At
<1> QED BY <1>1, ShutdownHolds, PTL

\* Nor is it asked, or anything else stopped, while a Provider that commands
\* motion runs, if all of those are known by their id (is_motion_provider).
THEOREM BasicIsLast ==
  ASSUME Moving \subseteq NamedIntegrated
  PROVE  Spec => []BasicStopsLast
<1>1. Shutdown => AckBeforeBasicStop
  BY DEF Shutdown, RunsAreSound, Sound, AckBeforeBasicStop, At
<1>2. Shutdown => MotionRelinquishedFirst
  <2> SUFFICES ASSUME Shutdown, ~deployment.lateStarts, ~deployment.waitFails, deployment.adopted = {},
                      NEW e \in Executions, At(e, {"confirm", "others", "basic"}),
                      NEW p \in Moving, p \in up
               PROVE  FALSE
    BY DEF MotionRelinquishedFirst
  <2>1. p \in deployment.configured /\ tracked[p] = "running"
    BY DEF Shutdown, ProcessesAreTracked
  <2>2. Sound(e) BY DEF At, Shutdown, RunsAreSound
  <2>3. p \in run[e].plan.motion BY <2>1, <2>2, Roles DEF Sound, Drawn, BasicPart
  <2> QED BY <2>1, <2>2, <2>3 DEF Sound, At, Quiet
<1> QED BY <1>1, <1>2, ShutdownHolds, PTL DEF BasicStopsLast

---------------------------------------------------------------------------
\* A step of an execution is of one that runs, and touches no other.
LEMMA TaskIsOfOne ==
  ASSUME TypeOK, NEW e \in Executions, Task(e)
  PROVE  /\ Running(e) /\ handler' = handler
         /\ \A f \in Executions \ {e} : run'[f] = run[f]
         /\ record' = record \/ record' = Recorded(e, "RUNNING") \/ (run'[e] # None /\ run'[e].at = "end")
<1>1. CASE Begin(e) BY <1>1 DEF Begin, Running, TypeOK
<1>2. CASE Block(e) \/ Complete(e)
  <2>1. run[e] # None /\ run[e].at \in Steps /\ run' = [run EXCEPT ![e].at = "end"] /\ handler' = handler
    BY <1>2 DEF Block, Complete, Passed, StepDone, At
  <2> DEFINE x == [run[e] EXCEPT !.at = "end"]
  <2>2. x \in Run /\ x.at = "end" BY <2>1, PlanParts DEF Run
  <2>3. run' = [run EXCEPT ![e] = x] BY <2>1
  <2> HIDE DEF x
  <2> QED BY <2>1, <2>2, <2>3, NoneIsNothing DEF TypeOK, Running, Steps
<1>3. CASE NextStep(e)
  BY <1>3 DEF NextStep, Enter, Passed, StepDone, At, Running, Steps, TypeOK
<1>4. ASSUME NEW p \in Providers,
             Look(e, p) \/ Acknowledge(e, p) \/ Refuse(e, p) \/ Stopped(e, p) \/ Killed(e, p) \/ StopFails(e, p)
      PROVE  Running(e) /\ handler' = handler /\ record' = record /\ \A f \in Executions \ {e} : run'[f] = run[f]
  <2>1. Running(e) /\ handler' = handler /\ record' = record
    BY <1>4 DEF Look, Acknowledge, Refuse, Stopped, Killed, StopFails, At, Running, Steps
  <2>2. /\ run' \in {[run EXCEPT ![e].busy = p], Confirm(e, p), Fail(e, p),
                     [Confirm(e, p) EXCEPT ![e].acked = @ \cup {p}]}
    <3>1. CASE Look(e, p)
      <4>1. PICK s : run' = CASE s = "running" -> [run EXCEPT ![e].busy = p]
                              [] s = "none" /\ report[p] = "ready" -> Fail(e, p)
                              [] OTHER -> Confirm(e, p)
        BY <3>1 DEF Look
      <4> QED BY <4>1
    <3> QED BY <1>4, <3>1 DEF Acknowledge, Refuse, Stopped, Killed, StopFails
  <2>3. \A f \in Executions \ {e} : run'[f] = run[f]
    <3>1. PICK x : run' = [run EXCEPT ![e] = x]
      <4>1. CASE run' = [run EXCEPT ![e].busy = p] BY <4>1
      <4>2. CASE run' = Confirm(e, p)
        <5> DEFINE x == [run[e] EXCEPT !.todo = @ \ {p}, !.busy = None]
        <5>1. run' = [run EXCEPT ![e] = x] BY <4>2, TurnsOver
        <5> HIDE DEF x
        <5> QED BY <5>1
      <4>3. CASE run' = Fail(e, p)
        <5> DEFINE x == [run[e] EXCEPT !.todo = @ \ {p}, !.busy = None, !.failed = TRUE]
        <5>1. run' = [run EXCEPT ![e] = x] BY <4>3, TurnsOver
        <5> HIDE DEF x
        <5> QED BY <5>1
      <4>4. CASE run' = [Confirm(e, p) EXCEPT ![e].acked = @ \cup {p}]
        <5> DEFINE x == [run[e] EXCEPT !.todo = @ \ {p}, !.busy = None, !.acked = @ \cup {p}]
        <5>1. run' = [run EXCEPT ![e] = x] BY <4>4, TurnsOver
        <5> HIDE DEF x
        <5> QED BY <5>1
      <4> QED BY <2>2, <4>1, <4>2, <4>3, <4>4
    <3> QED BY <3>1 DEF TypeOK
  <2> QED BY <2>1, <2>3
<1> QED BY <1>1, <1>2, <1>3, <1>4 DEF Task

\* Where one execute request is served at a time, executions do not overlap and
\* the record shows the one under way.
LEMMA RecordsKeep ==
  ASSUME \A g, h \in Handlers : g = h, Shutdown, RecordsRuns, [Next]_vars
  PROVE  RecordsRuns'
<1> USE DEF RecordsRuns
<1>1. TypeOK BY DEF Shutdown
<1>2. ASSUME UNCHANGED <<run, record>>,
             \A h \in Handlers : handler'[h].at \in {"fence", "record"} =>
               handler[h].at \in {"fence", "record"} \/ ~Active
      PROVE  RecordsRuns'
  <2>1. ~Active => \A e \in Executions : ~Running(e)
    BY <1>1 DEF Active, RunsAreRecorded, Terminal, TypeOK, Record
  <2>2. \A e \in Executions : Running(e)' = Running(e) BY <1>2 DEF Running
  <2> QED BY <1>2, <2>1, <2>2 DEF RunsAreRecorded, AcceptedAlone
<1>3. CASE \E p \in Providers :
             Start(p) \/ Expire(p) \/ Exit(p) \/ \E r \in {"ready", "unready"} : SendReport(p, r)
  BY <1>2, <1>3 DEF Start, Expire, Exit, SendReport
<1>4. CASE CreatePlan BY <1>2, <1>4 DEF CreatePlan
<1>5. ASSUME NEW h \in Handlers, Decline(h) \/ Accept(h) \/ RaiseFence(h) \/ \E r \in Requests : FetchPlan(h, r)
      PROVE  RecordsRuns'
  <2>1. UNCHANGED <<run, record>> BY <1>5 DEF Decline, Accept, RaiseFence, FetchPlan
  <2>2. Idle.at = "idle" BY DEF Idle
  <2>3. CASE Decline(h) BY <1>2, <2>1, <2>2, <2>3, <1>1 DEF Decline, TypeOK
  <2>4. CASE Accept(h) BY <1>2, <2>1, <2>4, <1>1 DEF Accept, TypeOK
  <2>5. CASE RaiseFence(h) BY <1>2, <2>1, <2>5, <1>1 DEF RaiseFence, TypeOK
  <2>6. CASE \E r \in Requests : FetchPlan(h, r) BY <1>2, <2>1, <2>6, <1>1 DEF FetchPlan, TypeOK
  <2> QED BY <1>5, <2>3, <2>4, <2>5, <2>6
<1>6. ASSUME NEW h \in Handlers, SetRecord(h) PROVE RecordsRuns'
  <2>1. PICK e \in Executions :
          /\ record' = [execution |-> e, plan |-> handler[h].plan.id,
                        request |-> handler[h].request, state |-> "ACCEPTED"]
          /\ \E x : run' = [run EXCEPT ![e] = x]
    BY <1>6 DEF SetRecord
  <2>2. handler[h].at = "record" /\ handler' = [handler EXCEPT ![h] = Idle] BY <1>6 DEF SetRecord
  <2>3. \A f \in Executions : ~Running(f) BY <2>2 DEF AcceptedAlone
  <2>4. \A f \in Executions : Running(f)' => f = e BY <2>1, <2>3, <1>1 DEF Running, TypeOK
  <2>5. record' \in Record
    BY NextKeeps, <2>1, NoneIsNothing, <2>2 DEF Shutdown, TypeOK, PlansAreDrawn, Handler, Plan, Record
  <2>6. record'.execution = e /\ record'.state \notin Terminal BY <2>1 DEF Terminal
  <2>7. AcceptedAlone' BY <2>2, <1>1 DEF AcceptedAlone, TypeOK, Idle
  <2> QED BY <2>4, <2>5, <2>6, <2>7, NoneIsNothing DEF RunsAreRecorded
<1>7. ASSUME NEW e \in Executions, Task(e) PROVE RecordsRuns'
  <2>1. /\ Running(e) /\ handler' = handler
        /\ \A f \in Executions \ {e} : run'[f] = run[f]
        /\ record' = record \/ record' = Recorded(e, "RUNNING") \/ (run'[e] # None /\ run'[e].at = "end")
    BY <1>1, <1>7, TaskIsOfOne
  <2>2. record # None /\ record.execution = e /\ record.state \notin Terminal BY <2>1 DEF RunsAreRecorded
  <2>3. \A f \in Executions \ {e} : ~Running(f) BY <2>2 DEF RunsAreRecorded
  <2>4. \A f \in Executions : Running(f)' => f = e BY <2>1, <2>3 DEF Running
  <2>5. \A h \in Handlers : handler'[h].at \notin {"fence", "record"} BY <2>1 DEF AcceptedAlone
  <2>6. AcceptedAlone' BY <2>5 DEF AcceptedAlone
  <2>7. Running(e)' => record' # None /\ record'.execution = e /\ record'.state \notin Terminal
    <3>1. record \in Record BY <1>1, <2>2 DEF TypeOK
    <3>2. CASE record' = record BY <2>2, <3>2
    <3>3. CASE record' = Recorded(e, "RUNNING")
      <4>1. record' = [record EXCEPT !.state = "RUNNING"] BY <2>2, <3>3 DEF Recorded
      <4>2. record' \in Record /\ record'.execution = e /\ record'.state = "RUNNING"
        BY <2>2, <3>1, <4>1 DEF Record
      <4> QED BY <4>2, NoneIsNothing DEF Terminal
    <3>4. CASE run'[e] # None /\ run'[e].at = "end" BY <3>4 DEF Running
    <3> QED BY <2>1, <3>2, <3>3, <3>4
  <2> QED BY <2>4, <2>6, <2>7 DEF RunsAreRecorded
<1>8. CASE UNCHANGED vars BY <1>2, <1>8 DEF vars
<1> QED BY <1>3, <1>4, <1>5, <1>6, <1>7, <1>8 DEF Next, Serve

\* While one execute request is served at a time, the record shows the execution
\* under way and, once it has ended, what became of the Providers: of those that
\* command motion if all are known by their id (execute_shutdown_plan).
THEOREM RecordTellsTheTruth ==
  ASSUME \A g, h \in Handlers : g = h, Moving \subseteq NamedIntegrated
  PROVE  Spec => []RecordIsTruthful
<1>1. Init => RecordsRuns
  BY DEF Init, RecordsRuns, RunsAreRecorded, AcceptedAlone, Running
<1>2. Shutdown /\ RecordsRuns /\ [Next]_vars => RecordsRuns' BY RecordsKeep
<1>3. Shutdown /\ RecordsRuns => RecordIsTruthful
  <2> SUFFICES ASSUME Shutdown, RecordsRuns PROVE CompletionIsTruthful
    BY DEF RecordIsTruthful, RecordsRuns
  <2> SUFFICES ASSUME ~deployment.lateStarts, ~deployment.waitFails, deployment.adopted = {}, record # None
               PROVE  /\ record.state = "AWAITING_SUPERVISOR" => up = {}
                      /\ record.state = "PARTIAL_FAILURE" => up \cap (BasicArm \cup Moving) = {}
    BY DEF CompletionIsTruthful
  <2>1. \A p \in up : p \in deployment.configured /\ ~Quiet(p)
    BY DEF Shutdown, ProcessesAreTracked, Quiet
  <2> QED BY <2>1 DEF Shutdown, EndIsQuiet
<1> QED BY <1>1, <1>2, <1>3, ShutdownHolds, PTL DEF Spec
=============================================================================
