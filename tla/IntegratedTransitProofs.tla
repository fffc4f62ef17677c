----------------------- MODULE IntegratedTransitProofs -----------------------
(***************************************************************************)
(* What the Integrated Provider guarantees of its transits for any plans,  *)
(* requests and deployments: a plan is installed once, an ended transit    *)
(* that has been floated stays silent, and recovery is idle.               *)
(***************************************************************************)
EXTENDS IntegratedTransit, TLAPS

\* A request whose plan is being committed, and one whose plan is not installed yet.
Committing(h) == handler[h].at \in {"lease", "preflight", "commit", "start"}
Uninstalled(h) == handler[h].at \in {"lease", "preflight", "commit"}

\* The locked look at a plan gives it to one request.
CommitsAreAlone ==
  \A h \in Handlers :
    /\ At(h, "consume") => handler[h].plan \in Plans
    /\ Committing(h) =>
         /\ handler[h].plan \in Plans /\ plan[handler[h].plan] = "COMMITTING"
         /\ \A g \in Handlers : Committing(g) /\ handler[g].plan = handler[h].plan => g = h

\* A plan that is not yet installed has no transit.
TransitsAreFresh ==
  /\ \A p \in Plans : plan[p] \in {"none", "PLANNED"} => status[p] = "none"
  /\ \A h \in Handlers : Uninstalled(h) => status[handler[h].plan] = "none"

\* One that has been keeps it, ended or not.
TransitsAreKept ==
  /\ current # None => status[current] # "none"
  /\ \A h \in Handlers : handler[h].chain # None => status[handler[h].chain] # "none"

\* A frame is on its way to Basic only under the gate, of a transit that is not
\* silenced; and no silenced transit is the current one again.
SilenceIsKept ==
  /\ SilencedStaysSilent
  /\ \A p \in silenced : p # current /\ status[p] # "none"
  /\ worker.at = "send" => worker.plan \in Plans
  /\ worker.at = "sending" => gate /\ worker.plan \in Plans /\ worker.plan \notin silenced

\* The inductive invariant.
Transits ==
  /\ TypeOK /\ CommitsAreAlone /\ TransitsAreFresh /\ TransitsAreKept
  /\ SilenceIsKept /\ RecoveryIsIdle

---------------------------------------------------------------------------
\* Steps of a request.
LEMMA HandlerGoes ==
  ASSUME TypeOK, NEW h \in Handlers, NEW at, Goto(h, at),
         at \in {"idle", "consume", "lease", "preflight", "commit", "start",
                 "cancel", "float", "clear", "warm", "hot", "verify"}
  PROVE  /\ handler' \in [Handlers -> Handler]
         /\ handler'[h].at = at
         /\ \A g \in Handlers : /\ handler'[g].plan = handler[g].plan
                                /\ handler'[g].chain = handler[g].chain
                                /\ g # h => handler'[g] = handler[g]
<1>1. handler \in [Handlers -> Handler] BY DEF TypeOK
<1> DEFINE x == [handler[h] EXCEPT !.at = at]
<1>2. handler' = [handler EXCEPT ![h] = x] BY DEF Goto
<1>3. x \in Handler /\ x.at = at /\ x.plan = handler[h].plan /\ x.chain = handler[h].chain
  BY <1>1 DEF Handler
<1> HIDE DEF x
<1> QED BY <1>1, <1>2, <1>3

LEMMA HandlerRests ==
  ASSUME TypeOK, NEW h \in Handlers, Done(h)
  PROVE  /\ handler' \in [Handlers -> Handler]
         /\ handler'[h].at = "idle" /\ handler'[h].chain = None
         /\ \A g \in Handlers : g # h => handler'[g] = handler[g]
<1>1. handler \in [Handlers -> Handler] BY DEF TypeOK
<1>2. Idle \in Handler /\ Idle.at = "idle" /\ Idle.chain = None BY DEF Idle, Handler
<1> QED BY <1>1, <1>2 DEF Done

\* What the requests other than commits, the threads and the network do to the
\* transits: they may end one or change its status, and never begin one.
Lasting == \A p \in Plans : status'[p] = "none" <=> status[p] = "none"
Following(g) ==
  /\ handler'[g].at = "consume" => handler[g].at = "consume" /\ handler'[g].plan = handler[g].plan
  /\ Committing(g)' => Committing(g) /\ handler'[g].plan = handler[g].plan
  /\ Uninstalled(g)' => Uninstalled(g)
  /\ handler'[g].chain \in {None, handler[g].chain}

LEMMA CommitsStay ==
  ASSUME TypeOK, CommitsAreAlone, TransitsAreFresh, TransitsAreKept, TypeOK',
         plan' = plan, Lasting, current' \in {None, current},
         \A g \in Handlers : Following(g)
  PROVE  CommitsAreAlone' /\ TransitsAreFresh' /\ TransitsAreKept'
<1>1. CommitsAreAlone' BY DEF CommitsAreAlone, Following, Committing, At
<1>2. TransitsAreFresh'
  <2>1. \A p \in Plans : plan'[p] \in {"none", "PLANNED"} => status'[p] = "none"
    BY DEF TransitsAreFresh, Lasting
  <2>2. ASSUME NEW h \in Handlers, Uninstalled(h)' PROVE status'[handler'[h].plan] = "none"
    <3>1. Uninstalled(h) /\ Committing(h) /\ handler'[h].plan = handler[h].plan
      BY <2>2 DEF Following, Uninstalled, Committing
    <3>2. handler[h].plan \in Plans /\ status[handler[h].plan] = "none"
      BY <3>1 DEF CommitsAreAlone, TransitsAreFresh
    <3> QED BY <3>1, <3>2 DEF Lasting
  <2> QED BY <2>1, <2>2 DEF TransitsAreFresh
<1>3. TransitsAreKept'
  <2>1. current' # None => status'[current'] # "none"
    BY DEF TransitsAreKept, Lasting, TypeOK
  <2>2. ASSUME NEW h \in Handlers, handler'[h].chain # None PROVE status'[handler'[h].chain] # "none"
    <3>1. handler'[h].chain = handler[h].chain BY <2>2 DEF Following
    <3>2. handler[h].chain \in Plans BY <2>2, <3>1 DEF TypeOK, Handler
    <3> QED BY <2>2, <3>1, <3>2 DEF TransitsAreKept, Lasting
  <2> QED BY <2>1, <2>2 DEF TransitsAreKept
<1> QED BY <1>1, <1>2, <1>3

\* The silence: a step that sends nothing new may float Basic, or leave it.
LEMMA SilenceStays ==
  ASSUME TypeOK, SilenceIsKept, Lasting, current' \in {None, current},
         silenced' = silenced, mode' \in {mode, "float", "hold"},
         worker'.at = "send" => worker'.plan \in Plans,
         worker'.at = "sending" => worker' = worker /\ gate' = gate
  PROVE  SilenceIsKept'
<1>1. SilencedStaysSilent'
  <2>1. "float" \notin silenced /\ "hold" \notin silenced BY Names DEF TypeOK
  <2> QED BY <2>1 DEF SilenceIsKept, SilencedStaysSilent
<1>2. \A p \in silenced' : p # current' /\ status'[p] # "none"
  BY Names DEF SilenceIsKept, Lasting, TypeOK
<1> QED BY <1>1, <1>2 DEF SilenceIsKept

LEMMA FloatTypes ==
  ASSUME TypeOK, NEW ok \in BOOLEAN, Float(ok)
  PROVE  mode' \in Plans \cup {"float", "hold"} /\ silenced' \subseteq Plans /\ owned' = owned
BY DEF TypeOK, Float, Ended

LEMMA FloatSilences ==
  ASSUME TypeOK, SilenceIsKept, NEW ok \in BOOLEAN, Float(ok), UNCHANGED <<current, status, gate>>,
         worker'.at = "send" => worker'.plan \in Plans,
         worker'.at = "sending" => worker' = worker
  PROVE  SilenceIsKept'
<1>1. Lasting BY DEF Lasting
<1>2. CASE silenced' = silenced
  <2>1. mode' \in {mode, "float"} BY DEF Float
  <2> QED BY <1>1, <1>2, <2>1, SilenceStays
<1>3. CASE held /\ ~ gate /\ mode' = "float" /\ silenced' = silenced \cup Ended
  <2>1. "float" \notin silenced' BY <1>3, Names DEF TypeOK, Ended
  <2>2. \A p \in silenced' : p # current' /\ status'[p] # "none"
    BY <1>3 DEF SilenceIsKept, Ended
  <2>3. worker'.at # "sending" BY <1>3 DEF SilenceIsKept
  <2> QED BY <1>3, <2>1, <2>2, <2>3 DEF SilenceIsKept, SilencedStaysSilent
<1> QED BY <1>2, <1>3 DEF Float

\* The end of the current transit.
LEMMA EndingLasts ==
  ASSUME TypeOK, TransitsAreKept, NEW s \in Statuses \ {"none"}, EndWith(s)
  PROVE  /\ status' \in [Plans -> Statuses] /\ Lasting /\ current' = None /\ plan' = plan
<1>1. plan' = plan /\ current' = None BY DEF EndWith
<1>2. CASE current = None BY <1>1, <1>2 DEF EndWith, Lasting, TypeOK
<1>3. CASE current # None
  <2>1. status' = [status EXCEPT ![current] = s] BY <1>3 DEF EndWith
  <2> QED BY <1>1, <1>3, <2>1 DEF Lasting, TypeOK, TransitsAreKept
<1> QED BY <1>2, <1>3

\* A step that leaves the requests alone.
LEMMA Unhandled ==
  ASSUME handler' = handler
  PROVE  \A g \in Handlers : Following(g)
BY DEF Following, Committing, Uninstalled

\* A request that is not a commit moves on, or rests.
LEMMA Moving ==
  ASSUME TypeOK, NEW h \in Handlers, NEW at \in {"float", "clear", "warm", "verify"}, Goto(h, at)
  PROVE  handler' \in [Handlers -> Handler] /\ \A g \in Handlers : Following(g)
<1>1. /\ handler' \in [Handlers -> Handler] /\ handler'[h].at = at
      /\ \A g \in Handlers : /\ handler'[g].plan = handler[g].plan
                             /\ handler'[g].chain = handler[g].chain
                             /\ g # h => handler'[g] = handler[g]
  BY HandlerGoes
<1> QED BY <1>1 DEF Following, Committing, Uninstalled

LEMMA Resting ==
  ASSUME TypeOK, NEW h \in Handlers, Done(h)
  PROVE  handler' \in [Handlers -> Handler] /\ \A g \in Handlers : Following(g)
BY HandlerRests DEF Following, Committing, Uninstalled

---------------------------------------------------------------------------
\* Plans and commits.
LEMMA StepKeeps ==
  ASSUME Transits, TypeOK', plan' = plan, Lasting, current' \in {None, current},
         \A g \in Handlers : Following(g), SilenceIsKept', RecoveryIsIdle'
  PROVE  Transits'
BY CommitsStay DEF Transits

\* Neither Basic nor the transits change.
LEMMA QuietKeeps ==
  ASSUME Transits, TypeOK', UNCHANGED <<transit, residency, mode, silenced, gate>>,
         \A g \in Handlers : Following(g),
         worker'.at = "send" => worker'.plan \in Plans,
         worker'.at = "sending" => worker' = worker
  PROVE  Transits'
<1>1. Lasting /\ current' = current /\ plan' = plan BY DEF Lasting, transit
<1>2. SilenceIsKept' BY <1>1, SilenceStays DEF Transits
<1>3. RecoveryIsIdle' BY DEF Transits, RecoveryIsIdle, transit
<1> QED BY <1>1, <1>2, <1>3, StepKeeps

LEMMA PlanPathKeeps == ASSUME Transits, NEW p \in Plans, PlanPath(p) PROVE Transits'
<1>1. /\ plan[p] = "none" /\ plan' = [plan EXCEPT ![p] = "PLANNED"]
      /\ UNCHANGED <<status, current, residency, profile, held, platform, gate, leaseOp, handler,
                     worker, tick, poll, owned, mode, silenced, served>>
  BY DEF PlanPath, controller, locks, basic
<1>2. TypeOK' BY <1>1 DEF Transits, TypeOK
<1>3. CommitsAreAlone' BY <1>1 DEF Transits, TypeOK, CommitsAreAlone, Committing, At
<1>4. TransitsAreFresh'
  BY <1>1 DEF Transits, TypeOK, TransitsAreFresh, Uninstalled
<1>5. TransitsAreKept' /\ SilenceIsKept' /\ RecoveryIsIdle'
  BY <1>1 DEF Transits, TransitsAreKept, SilenceIsKept, SilencedStaysSilent, RecoveryIsIdle
<1> QED BY <1>2, <1>3, <1>4, <1>5 DEF Transits

LEMMA VerifyKeeps ==
  ASSUME Transits, NEW h \in Handlers, NEW p \in Plans, Verify(h, p)
  PROVE  Transits'
<1> DEFINE x == [op |-> "commit", at |-> "consume", plan |-> p, chain |-> None]
<1>1. /\ handler' = [handler EXCEPT ![h] = x]
      /\ UNCHANGED <<plan, status, current, residency, profile, held, platform, gate, leaseOp,
                     worker, tick, poll, owned, mode, silenced, served>>
  BY DEF Verify, transit, controller, locks, basic
<1>2. x \in Handler /\ x.at = "consume" /\ x.plan = p /\ x.chain = None BY DEF Handler
<1> HIDE DEF x
<1>3. /\ handler' \in [Handlers -> Handler] /\ handler'[h] = x
      /\ \A g \in Handlers : g # h => handler'[g] = handler[g]
  BY <1>1, <1>2 DEF Transits, TypeOK
<1>4. TypeOK' BY <1>1, <1>3 DEF Transits, TypeOK
<1>5. CommitsAreAlone' BY <1>1, <1>2, <1>3 DEF Transits, CommitsAreAlone, Committing, At
<1>6. TransitsAreFresh' BY <1>1, <1>2, <1>3 DEF Transits, TransitsAreFresh, Uninstalled
<1>7. TransitsAreKept' BY <1>1, <1>2, <1>3 DEF Transits, TransitsAreKept
<1>8. SilenceIsKept' /\ RecoveryIsIdle'
  BY <1>1 DEF Transits, SilenceIsKept, SilencedStaysSilent, RecoveryIsIdle
<1> QED BY <1>4, <1>5, <1>6, <1>7, <1>8 DEF Transits

LEMMA ConsumeKeeps == ASSUME Transits, NEW h \in Handlers, Consume(h) PROVE Transits'
<1> DEFINE p == handler[h].plan
           x == [handler[h] EXCEPT !.at = "lease", !.chain = Chain]
<1>1. /\ handler[h].at = "consume" /\ p \in Plans
      /\ UNCHANGED <<status, current, residency, profile, held, platform, gate, leaseOp,
                     worker, tick, poll, owned, mode, silenced, served>>
  BY DEF Consume, Transits, CommitsAreAlone, At, controller, locks, basic
<1>2. CASE plan[p] # "PLANNED"
  <2>1. Done(h) /\ plan' = plan BY <1>2 DEF Consume
  <2>2. handler' \in [Handlers -> Handler] /\ \A g \in Handlers : Following(g)
    BY <2>1, Resting DEF Transits
  <2>3. TypeOK' BY <1>1, <2>1, <2>2 DEF Transits, TypeOK
  <2>4. worker'.at = "send" => worker'.plan \in Plans BY <1>1 DEF Transits, SilenceIsKept
  <2> QED BY <1>1, <2>1, <2>2, <2>3, <2>4, QuietKeeps DEF transit
<1>3. CASE plan[p] = "PLANNED"
  <2>1. plan' = [plan EXCEPT ![p] = "COMMITTING"] /\ handler' = [handler EXCEPT ![h] = x]
    BY <1>3 DEF Consume
  <2>2. Chain \in Plans \cup {None} /\ (Chain # None => status[Chain] = "WAITING_NEXT")
    BY DEF Chain, Transits, TypeOK
  <2>3. handler[h] \in Handler BY DEF Transits, TypeOK
  <2>4. x \in Handler BY <2>2, <2>3 DEF Handler
  <2>5. x.at = "lease" /\ x.plan = p /\ x.chain = Chain BY <2>3 DEF Handler
  <2> HIDE DEF x
  <2>6. /\ handler' \in [Handlers -> Handler] /\ handler'[h] = x
        /\ \A g \in Handlers : g # h => handler'[g] = handler[g]
    BY <2>1, <2>4 DEF Transits, TypeOK
  <2>7. /\ plan'[p] = "COMMITTING" /\ \A q \in Plans : q # p => plan'[q] = plan[q]
        /\ plan' \in [Plans -> {"none", "PLANNED", "COMMITTING", "REJECTED_AT_COMMIT", "CONSUMED"}]
    BY <1>1, <2>1 DEF Transits, TypeOK
  <2> HIDE DEF p
  <2>8. TypeOK' BY <1>1, <2>6, <2>7 DEF Transits, TypeOK
  <2>9. \A g \in Handlers : Committing(g) => handler[g].plan # p /\ handler[g].plan \in Plans
    BY <1>3 DEF Transits, CommitsAreAlone
  <2>10. CommitsAreAlone'
    <3>1. ASSUME NEW g \in Handlers, At(g, "consume")' PROVE handler'[g].plan \in Plans
      BY <2>5, <2>6, <3>1 DEF Transits, CommitsAreAlone, At
    <3>2. ASSUME NEW g \in Handlers, Committing(g)', g # h
          PROVE  Committing(g) /\ handler'[g].plan = handler[g].plan
      BY <2>6, <3>2 DEF Committing
    <3>3. handler'[h].plan = p BY <2>5, <2>6
    <3> QED BY <1>1, <2>7, <2>9, <3>1, <3>2, <3>3 DEF Transits, CommitsAreAlone
  <2>11. TransitsAreFresh'
    <3>1. status[p] = "none" BY <1>1, <1>3 DEF Transits, TransitsAreFresh
    <3>2. \A g \in Handlers : g # h /\ Uninstalled(g)' => Uninstalled(g) BY <2>6 DEF Uninstalled
    <3> QED BY <1>1, <2>5, <2>6, <2>7, <3>1, <3>2 DEF Transits, TransitsAreFresh
  <2>12. TransitsAreKept' BY <1>1, <2>2, <2>5, <2>6 DEF Transits, TransitsAreKept
  <2>13. SilenceIsKept' /\ RecoveryIsIdle'
    BY <1>1 DEF Transits, SilenceIsKept, SilencedStaysSilent, RecoveryIsIdle
  <2> QED BY <2>8, <2>10, <2>11, <2>12, <2>13 DEF Transits
<1> QED BY <1>2, <1>3

\* The answer to a commit: its plan is settled.
LEMMA AnswerKeeps ==
  ASSUME Transits, NEW h \in Handlers, NEW s \in {"REJECTED_AT_COMMIT", "CONSUMED"},
         Committing(h), Answer(h, s), UNCHANGED <<status, current>>
  PROVE  /\ plan' \in [Plans -> {"none", "PLANNED", "COMMITTING", "REJECTED_AT_COMMIT", "CONSUMED"}]
         /\ handler' \in [Handlers -> Handler]
         /\ CommitsAreAlone' /\ TransitsAreFresh' /\ TransitsAreKept'
<1> DEFINE p == handler[h].plan
<1>1. p \in Plans BY DEF Transits, CommitsAreAlone
<1>2. plan' = [plan EXCEPT ![p] = s] /\ Done(h) BY DEF Answer
<1>3. handler' \in [Handlers -> Handler] /\ \A g \in Handlers : Following(g)
  BY <1>2, Resting DEF Transits
<1>4. handler'[h].at = "idle" BY <1>2, HandlerRests DEF Transits
<1>5. /\ plan'[p] = s /\ \A q \in Plans : q # p => plan'[q] = plan[q]
      /\ plan' \in [Plans -> {"none", "PLANNED", "COMMITTING", "REJECTED_AT_COMMIT", "CONSUMED"}]
  BY <1>1, <1>2 DEF Transits, TypeOK
<1>6. \A g \in Handlers : Committing(g)' =>
        Committing(g) /\ g # h /\ handler'[g].plan = handler[g].plan /\ handler[g].plan # p
  BY <1>3, <1>4 DEF Following, Committing, Transits, CommitsAreAlone
<1> HIDE DEF p
<1>7. CommitsAreAlone' BY <1>3, <1>5, <1>6 DEF Transits, CommitsAreAlone, Following, At
<1>8. TransitsAreFresh'
  <2>1. \A g \in Handlers : Uninstalled(g)' => Uninstalled(g) /\ handler'[g].plan = handler[g].plan
    BY <1>3 DEF Following, Uninstalled, Committing
  <2> QED BY <1>5, <2>1 DEF Transits, TransitsAreFresh
<1>9. TransitsAreKept' BY <1>3 DEF Following, Transits, TransitsAreKept
<1> QED BY <1>3, <1>5, <1>7, <1>8, <1>9

\* A commit that goes on.
LEMMA ProceedKeeps ==
  ASSUME Transits, NEW h \in Handlers, NEW at \in {"preflight", "commit"},
         Uninstalled(h), Proceed(h, at)
  PROVE  plan' = plan /\ handler' \in [Handlers -> Handler] /\ \A g \in Handlers : Following(g)
<1>1. plan' = plan /\ Goto(h, at) BY DEF Proceed
<1>2. /\ handler' \in [Handlers -> Handler] /\ handler'[h].at = at
      /\ \A g \in Handlers : /\ handler'[g].plan = handler[g].plan
                             /\ handler'[g].chain = handler[g].chain
                             /\ g # h => handler'[g] = handler[g]
  BY <1>1, HandlerGoes DEF Transits
<1> QED BY <1>1, <1>2 DEF Following, Committing, Uninstalled

LEMMA EnsureLeaseKeeps == ASSUME Transits, NEW h \in Handlers, EnsureLease(h) PROVE Transits'
<1>1. /\ Uninstalled(h) /\ Committing(h)
      /\ UNCHANGED <<status, current, residency, profile, platform, gate, leaseOp,
                     worker, tick, poll, mode, silenced, served>>
  BY DEF EnsureLease, Uninstalled, Committing, At, locks
<1>2. held' \in BOOLEAN /\ owned' \in BOOLEAN BY DEF EnsureLease, Transits, TypeOK
<1>3. worker'.at = "send" => worker'.plan \in Plans BY <1>1 DEF Transits, SilenceIsKept
<1>4. CASE Proceed(h, IF handler[h].chain = None THEN "preflight" ELSE "commit")
  <2>1. plan' = plan /\ handler' \in [Handlers -> Handler] /\ \A g \in Handlers : Following(g)
    BY <1>1, <1>4, ProceedKeeps
  <2>2. TypeOK' BY <1>1, <1>2, <2>1 DEF Transits, TypeOK
  <2> QED BY <1>1, <1>3, <2>1, <2>2, QuietKeeps DEF transit
<1>5. CASE Answer(h, "REJECTED_AT_COMMIT")
  <2>1. /\ plan' \in [Plans -> {"none", "PLANNED", "COMMITTING", "REJECTED_AT_COMMIT", "CONSUMED"}]
        /\ handler' \in [Handlers -> Handler]
        /\ CommitsAreAlone' /\ TransitsAreFresh' /\ TransitsAreKept'
    BY <1>1, <1>5, AnswerKeeps
  <2>2. TypeOK' BY <1>1, <1>2, <2>1 DEF Transits, TypeOK
  <2>3. SilenceIsKept' /\ RecoveryIsIdle'
    BY <1>1 DEF Transits, SilenceIsKept, SilencedStaysSilent, RecoveryIsIdle
  <2> QED BY <2>1, <2>2, <2>3 DEF Transits
<1> QED BY <1>4, <1>5 DEF EnsureLease, Reject

LEMMA PreflightKeeps == ASSUME Transits, NEW h \in Handlers, Preflight(h) PROVE Transits'
<1>1. /\ Uninstalled(h) /\ Committing(h)
      /\ UNCHANGED <<status, current, residency, profile, held, platform, gate, leaseOp,
                     worker, tick, poll, served>>
  BY DEF Preflight, Uninstalled, Committing, At, controller, locks
<1>2. PICK ok \in BOOLEAN : Float(ok) BY DEF Preflight
<1>3. mode' \in Plans \cup {"float", "hold"} /\ silenced' \subseteq Plans /\ owned' = owned
  BY <1>2, FloatTypes DEF Transits
<1>4. worker'.at = "send" => worker'.plan \in Plans BY <1>1 DEF Transits, SilenceIsKept
<1>5. SilenceIsKept' BY <1>1, <1>2, <1>4, FloatSilences DEF Transits
<1>6. RecoveryIsIdle' /\ Lasting BY <1>1 DEF Transits, RecoveryIsIdle, Lasting
<1>7. CASE Proceed(h, "commit")
  <2>1. plan' = plan /\ handler' \in [Handlers -> Handler] /\ \A g \in Handlers : Following(g)
    BY <1>1, <1>7, ProceedKeeps
  <2>2. TypeOK' BY <1>1, <1>3, <2>1 DEF Transits, TypeOK
  <2> QED BY <1>1, <1>5, <1>6, <2>1, <2>2, StepKeeps
<1>8. CASE Answer(h, "REJECTED_AT_COMMIT")
  <2>1. /\ plan' \in [Plans -> {"none", "PLANNED", "COMMITTING", "REJECTED_AT_COMMIT", "CONSUMED"}]
        /\ handler' \in [Handlers -> Handler]
        /\ CommitsAreAlone' /\ TransitsAreFresh' /\ TransitsAreKept'
    BY <1>1, <1>8, AnswerKeeps
  <2>2. TypeOK' BY <1>1, <1>3, <2>1 DEF Transits, TypeOK
  <2> QED BY <1>5, <1>6, <2>1, <2>2 DEF Transits
<1> QED BY <1>7, <1>8 DEF Preflight, Reject

\* The plan of the request becomes the current transit, its first one.
LEMMA InstallKeeps ==
  ASSUME Transits, NEW h \in Handlers, At(h, "commit"),
         LET p == handler[h].plan
             chain == handler[h].chain
         IN  /\ Admissible(chain)
             /\ status' = [q \in Plans |-> IF q = p THEN "EXECUTING"
                                           ELSE IF q = chain THEN "CHAINED_TO_NEXT" ELSE status[q]]
             /\ current' = p
             /\ Proceed(h, "start"),
         UNCHANGED <<controller, locks, worker, tick, poll, basic, served>>
  PROVE  Transits'
<1> DEFINE p == handler[h].plan
           chain == handler[h].chain
<1>1. /\ p \in Plans /\ plan[p] = "COMMITTING" /\ status[p] = "none" /\ p # None
      /\ \A g \in Handlers : Committing(g) /\ handler[g].plan = p => g = h
  BY Names DEF Transits, CommitsAreAlone, TransitsAreFresh, Committing, Uninstalled, At
<1>2. chain # None => chain \in Plans /\ status[chain] # "none"
  BY DEF Transits, TypeOK, Handler, TransitsAreKept
<1>3. current # None => current = chain BY DEF Admissible
<1>4. /\ current' = p /\ plan' = plan /\ Goto(h, "start") /\ residency = "HOT"
      /\ status' = [q \in Plans |-> IF q = p THEN "EXECUTING"
                                    ELSE IF q = chain THEN "CHAINED_TO_NEXT" ELSE status[q]]
      /\ UNCHANGED <<residency, profile, held, platform, gate, leaseOp, worker, tick, poll,
                     owned, mode, silenced, served>>
  BY DEF Proceed, Admissible, controller, locks, basic
<1>5. /\ handler' \in [Handlers -> Handler] /\ handler'[h].at = "start"
      /\ \A g \in Handlers : /\ handler'[g].plan = handler[g].plan
                             /\ handler'[g].chain = handler[g].chain
                             /\ g # h => handler'[g] = handler[g]
  BY <1>4, HandlerGoes DEF Transits
<1> HIDE DEF p, chain
<1>6. status' \in [Plans -> Statuses] BY <1>4 DEF Transits, TypeOK, Statuses
<1>7. \A q \in Plans : /\ status[q] # "none" => status'[q] # "none"
                       /\ status[q] = "none" /\ q # p => status'[q] = "none"
  BY <1>2, <1>4, Names
<1>8. status'[p] # "none" BY <1>1, <1>4
<1>9. TypeOK' BY <1>1, <1>4, <1>5, <1>6 DEF Transits, TypeOK
<1>10. CommitsAreAlone'
  <2>1. \A g \in Handlers : /\ Committing(g)' => Committing(g) \/ g = h
                            /\ At(g, "consume")' => At(g, "consume")
    BY <1>5 DEF Committing, At
  <2>2. Committing(h) BY DEF Committing, At
  <2> QED BY <1>4, <1>5, <2>1, <2>2 DEF Transits, CommitsAreAlone
<1>11. TransitsAreFresh'
  <2>1. \A q \in Plans : plan'[q] \in {"none", "PLANNED"} => status'[q] = "none"
    BY <1>1, <1>4, <1>7 DEF Transits, TransitsAreFresh
  <2>2. ASSUME NEW g \in Handlers, Uninstalled(g)' PROVE status'[handler'[g].plan] = "none"
    <3>1. g # h /\ Uninstalled(g) /\ Committing(g) /\ handler'[g].plan = handler[g].plan
      BY <1>5, <2>2 DEF Uninstalled, Committing
    <3>2. handler[g].plan \in Plans /\ handler[g].plan # p /\ status[handler[g].plan] = "none"
      BY <1>1, <3>1 DEF Transits, CommitsAreAlone, TransitsAreFresh
    <3> QED BY <1>7, <3>1, <3>2
  <2> QED BY <2>1, <2>2 DEF TransitsAreFresh
<1>12. TransitsAreKept'
  <2>1. \A g \in Handlers : handler[g].chain # None => handler[g].chain \in Plans /\ status[handler[g].chain] # "none"
    BY DEF Transits, TypeOK, Handler, TransitsAreKept
  <2> QED BY <1>4, <1>5, <1>7, <1>8, <2>1 DEF TransitsAreKept
<1>13. SilenceIsKept'
  <2>1. \A q \in silenced : q \in Plans /\ q # p /\ status[q] # "none"
    BY <1>1 DEF Transits, TypeOK, SilenceIsKept
  <2> QED BY <1>4, <1>7, <2>1 DEF Transits, SilenceIsKept, SilencedStaysSilent
<1>14. RecoveryIsIdle' BY <1>4 DEF RecoveryIsIdle
<1> QED BY <1>9, <1>10, <1>11, <1>12, <1>13, <1>14 DEF Transits

LEMMA CommitKeeps == ASSUME Transits, NEW h \in Handlers, Commit(h) PROVE Transits'
<1>1. At(h, "commit") /\ UNCHANGED <<controller, locks, worker, tick, poll, basic, served>> BY DEF Commit
<1>2. CASE LET p == handler[h].plan
               chain == handler[h].chain
           IN  /\ Admissible(chain)
               /\ status' = [q \in Plans |-> IF q = p THEN "EXECUTING"
                                             ELSE IF q = chain THEN "CHAINED_TO_NEXT" ELSE status[q]]
               /\ current' = p
               /\ Proceed(h, "start")
  BY <1>1, <1>2, InstallKeeps
<1>3. CASE Answer(h, "REJECTED_AT_COMMIT") /\ UNCHANGED <<status, current>>
  <2>1. /\ plan' \in [Plans -> {"none", "PLANNED", "COMMITTING", "REJECTED_AT_COMMIT", "CONSUMED"}]
        /\ handler' \in [Handlers -> Handler]
        /\ CommitsAreAlone' /\ TransitsAreFresh' /\ TransitsAreKept'
    BY <1>1, <1>3, AnswerKeeps DEF At, Committing
  <2>2. TypeOK' BY <1>1, <1>3, <2>1 DEF Transits, TypeOK, controller, locks, basic
  <2>3. SilenceIsKept' /\ RecoveryIsIdle'
    BY <1>1, <1>3 DEF Transits, SilenceIsKept, SilencedStaysSilent, RecoveryIsIdle, controller, locks, basic
  <2> QED BY <2>1, <2>2, <2>3 DEF Transits
<1> QED BY <1>2, <1>3 DEF Commit, Reject

LEMMA StartWorkerKeeps == ASSUME Transits, NEW h \in Handlers, StartWorker(h) PROVE Transits'
<1>1. /\ Committing(h)
      /\ UNCHANGED <<status, current, residency, profile, held, platform, gate, leaseOp,
                     tick, poll, owned, mode, silenced, served>>
  BY DEF StartWorker, Committing, At, controller, locks, basic
<1>2. PICK s \in {"REJECTED_AT_COMMIT", "CONSUMED"} : Answer(h, s) BY DEF StartWorker, Reject
<1>3. /\ plan' \in [Plans -> {"none", "PLANNED", "COMMITTING", "REJECTED_AT_COMMIT", "CONSUMED"}]
      /\ handler' \in [Handlers -> Handler]
      /\ CommitsAreAlone' /\ TransitsAreFresh' /\ TransitsAreKept'
  BY <1>1, <1>2, AnswerKeeps
<1>4. worker' = worker \/ worker' = [Gone EXCEPT !.at = "top"] BY DEF StartWorker
<1>5. [Gone EXCEPT !.at = "top"] \in Worker /\ [Gone EXCEPT !.at = "top"].at = "top" BY DEF Gone, Worker
<1>6. TypeOK' BY <1>1, <1>3, <1>4, <1>5 DEF Transits, TypeOK
<1>7. SilenceIsKept' BY <1>1, <1>4, <1>5 DEF Transits, SilenceIsKept, SilencedStaysSilent
<1>8. RecoveryIsIdle' BY <1>1 DEF Transits, RecoveryIsIdle
<1> QED BY <1>3, <1>6, <1>7, <1>8 DEF Transits

---------------------------------------------------------------------------
\* The operator's requests.
LEMMA AskKeeps ==
  ASSUME Transits, NEW h \in Handlers, NEW op \in {"float", "release", "warm", "hot"}, Ask(h, op)
  PROVE  Transits'
<1> DEFINE x == [Idle EXCEPT !.op = op, !.at = IF op = "hot" THEN "hot" ELSE "cancel"]
<1>1. /\ handler' = [handler EXCEPT ![h] = x]
      /\ UNCHANGED <<transit, residency, profile, held, platform, gate, leaseOp, worker, tick,
                     poll, owned, mode, silenced, served>>
  BY DEF Ask, controller, locks, basic
<1>2. x \in Handler /\ x.at \in {"hot", "cancel"} /\ x.chain = None BY DEF Idle, Handler
<1> HIDE DEF x
<1>3. /\ handler' \in [Handlers -> Handler] /\ handler'[h] = x
      /\ \A g \in Handlers : g # h => handler'[g] = handler[g]
  BY <1>1, <1>2 DEF Transits, TypeOK
<1>4. \A g \in Handlers : Following(g) BY <1>2, <1>3 DEF Following, Committing, Uninstalled
<1>5. TypeOK' BY <1>1, <1>3 DEF Transits, TypeOK, transit
<1>6. worker'.at = "send" => worker'.plan \in Plans BY <1>1 DEF Transits, SilenceIsKept
<1> QED BY <1>1, <1>4, <1>5, <1>6, QuietKeeps

\* A step that ends the current transit and does nothing at Basic.
LEMMA EndKeeps ==
  ASSUME Transits, NEW s \in Statuses \ {"none"}, EndWith(s), UNCHANGED <<residency, mode, silenced, gate>>,
         TypeOK', \A g \in Handlers : Following(g),
         worker'.at = "send" => worker'.plan \in Plans,
         worker'.at = "sending" => worker' = worker
  PROVE  Transits'
<1>1. status' \in [Plans -> Statuses] /\ Lasting /\ current' = None /\ plan' = plan
  BY EndingLasts DEF Transits
<1>2. SilenceIsKept' BY <1>1, SilenceStays DEF Transits
<1>3. RecoveryIsIdle' BY <1>1 DEF RecoveryIsIdle
<1> QED BY <1>1, <1>2, <1>3, StepKeeps

\* CancelActive ends it as failed or as released.
LEMMA CancelEnds ==
  ASSUME CancelActive
  PROVE  /\ \E s \in {"FAILED", "RELEASED"} : EndWith(s)
         /\ profile' = FALSE /\ UNCHANGED <<residency, held, platform>>
BY DEF CancelActive

LEMMA CancelKeeps == ASSUME Transits, NEW h \in Handlers, Cancel(h) PROVE Transits'
<1>1. /\ CancelActive /\ Goto(h, "float")
      /\ UNCHANGED <<gate, leaseOp, worker, tick, poll, owned, mode, silenced, served>>
  BY DEF Cancel, locks, basic
<1>2. PICK s \in {"FAILED", "RELEASED"} : EndWith(s) BY <1>1, CancelEnds
<1>3. s \in Statuses \ {"none"} BY DEF Statuses
<1>4. profile' = FALSE /\ UNCHANGED <<residency, held, platform>> BY <1>1, CancelEnds
<1>5. handler' \in [Handlers -> Handler] /\ \A g \in Handlers : Following(g) BY <1>1, Moving DEF Transits
<1>6. status' \in [Plans -> Statuses] /\ current' = None /\ plan' = plan
  BY <1>2, <1>3, EndingLasts DEF Transits
<1>7. TypeOK' BY <1>1, <1>4, <1>5, <1>6 DEF Transits, TypeOK
<1>8. worker'.at = "send" => worker'.plan \in Plans BY <1>1 DEF Transits, SilenceIsKept
<1> QED BY <1>1, <1>2, <1>3, <1>4, <1>5, <1>7, <1>8, EndKeeps

\* A step that floats, and leaves the transits alone.
LEMMA FloatKeeps ==
  ASSUME Transits, NEW ok \in BOOLEAN, Float(ok), UNCHANGED <<transit, residency, gate>>, TypeOK',
         \A g \in Handlers : Following(g),
         worker'.at = "send" => worker'.plan \in Plans,
         worker'.at = "sending" => worker' = worker
  PROVE  Transits'
<1>1. Lasting /\ current' = current /\ plan' = plan /\ status' = status BY DEF Lasting, transit
<1>2. SilenceIsKept' BY <1>1, FloatSilences DEF Transits
<1>3. RecoveryIsIdle' BY <1>1 DEF Transits, RecoveryIsIdle
<1> QED BY <1>1, <1>2, <1>3, StepKeeps

LEMMA CancelFloatKeeps == ASSUME Transits, NEW h \in Handlers, CancelFloat(h) PROVE Transits'
<1>1. UNCHANGED <<transit, residency, profile, held, platform, gate, leaseOp, worker, tick, poll, served>>
  BY DEF CancelFloat, controller, locks
<1>2. PICK ok \in BOOLEAN :
        /\ Float(ok)
        /\ \/ Done(h)
           \/ \E at \in {"warm", "clear"} : Goto(h, at)
  BY DEF CancelFloat
<1>3. handler' \in [Handlers -> Handler] /\ \A g \in Handlers : Following(g)
  BY <1>2, Moving, Resting DEF Transits
<1>4. mode' \in Plans \cup {"float", "hold"} /\ silenced' \subseteq Plans /\ owned' = owned
  BY <1>2, FloatTypes DEF Transits
<1>5. TypeOK' BY <1>1, <1>3, <1>4 DEF Transits, TypeOK, transit
<1>6. worker'.at = "send" => worker'.plan \in Plans BY <1>1 DEF Transits, SilenceIsKept
<1> QED BY <1>1, <1>2, <1>3, <1>5, <1>6, FloatKeeps

LEMMA ClearKeeps == ASSUME Transits, NEW h \in Handlers, Clear(h) PROVE Transits'
<1>1. /\ Done(h) /\ profile' = FALSE
      /\ UNCHANGED <<transit, residency, held, platform, gate, leaseOp, worker, tick, poll,
                     owned, mode, silenced, served>>
  BY DEF Clear, locks, basic
<1>2. handler' \in [Handlers -> Handler] /\ \A g \in Handlers : Following(g) BY <1>1, Resting DEF Transits
<1>3. TypeOK' BY <1>1, <1>2 DEF Transits, TypeOK, transit
<1>4. worker'.at = "send" => worker'.plan \in Plans BY <1>1 DEF Transits, SilenceIsKept
<1> QED BY <1>1, <1>2, <1>3, <1>4, QuietKeeps

LEMMA WarmKeeps == ASSUME Transits, NEW h \in Handlers, Warm(h) PROVE Transits'
<1>1. /\ residency' = "WARM" /\ held' = FALSE /\ Done(h)
      /\ UNCHANGED <<transit, profile, platform, gate, leaseOp, worker, tick, poll, mode, silenced, served>>
  BY DEF Warm, locks
<1>2. owned' \in BOOLEAN BY DEF Warm, Transits, TypeOK
<1>3. handler' \in [Handlers -> Handler] /\ \A g \in Handlers : Following(g) BY <1>1, Resting DEF Transits
<1>4. TypeOK' BY <1>1, <1>2, <1>3 DEF Transits, TypeOK, transit
<1>5. Lasting /\ current' = current /\ plan' = plan BY <1>1 DEF Lasting, transit
<1>6. SilenceIsKept' BY <1>1, <1>5, SilenceStays DEF Transits, SilenceIsKept
<1>7. RecoveryIsIdle' BY <1>1 DEF RecoveryIsIdle
<1> QED BY <1>3, <1>4, <1>5, <1>6, <1>7, StepKeeps

LEMMA HotKeeps == ASSUME Transits, NEW h \in Handlers, Hot(h) PROVE Transits'
<1>1. UNCHANGED <<plan, status, profile, platform, gate, worker, tick, poll, mode, silenced, served>>
  BY DEF Hot
<1>2. Lasting BY <1>1 DEF Lasting
<1>3. worker'.at = "send" => worker'.plan \in Plans BY <1>1 DEF Transits, SilenceIsKept
<1>4. CASE Done(h) /\ UNCHANGED <<residency, held, current, owned, leaseOp>>
  <2>1. handler' \in [Handlers -> Handler] /\ \A g \in Handlers : Following(g) BY <1>4, Resting DEF Transits
  <2>2. TypeOK' BY <1>1, <1>4, <2>1 DEF Transits, TypeOK
  <2> QED BY <1>1, <1>3, <1>4, <2>1, <2>2, QuietKeeps DEF transit
<1>5. CASE /\ residency' = "HOT" /\ held' = TRUE /\ current' = None
           /\ owned' = TRUE
           /\ leaseOp' = h /\ Goto(h, "verify")
  <2>1. handler' \in [Handlers -> Handler] /\ \A g \in Handlers : Following(g) BY <1>5, Moving DEF Transits
  <2>2. TypeOK' BY <1>1, <1>5, <2>1 DEF Transits, TypeOK
  <2>3. SilenceIsKept' BY <1>1, <1>2, <1>3, <1>5, SilenceStays DEF Transits
  <2>4. RecoveryIsIdle' BY <1>5 DEF RecoveryIsIdle
  <2> QED BY <1>1, <1>2, <1>5, <2>1, <2>2, <2>3, <2>4, StepKeeps
<1> QED BY <1>4, <1>5 DEF Hot

LEMMA HotVerifyKeeps == ASSUME Transits, NEW h \in Handlers, HotVerify(h) PROVE Transits'
<1>1. /\ leaseOp' = None /\ Done(h)
      /\ UNCHANGED <<transit, residency, profile, platform, gate, worker, tick, poll, mode, silenced, served>>
  BY DEF HotVerify
<1>2. held' \in BOOLEAN /\ owned' \in BOOLEAN BY DEF HotVerify, Transits, TypeOK
<1>3. handler' \in [Handlers -> Handler] /\ \A g \in Handlers : Following(g) BY <1>1, Resting DEF Transits
<1>4. TypeOK' BY <1>1, <1>2, <1>3 DEF Transits, TypeOK, transit
<1>5. worker'.at = "send" => worker'.plan \in Plans BY <1>1 DEF Transits, SilenceIsKept
<1> QED BY <1>1, <1>3, <1>4, <1>5, QuietKeeps

LEMMA ServeKeeps == ASSUME Transits, NEW h \in Handlers, Serve(h) PROVE Transits'
BY ConsumeKeeps, EnsureLeaseKeeps, PreflightKeeps, CommitKeeps, StartWorkerKeeps, CancelKeeps,
   CancelFloatKeeps, ClearKeeps, WarmKeeps, HotKeeps, HotVerifyKeeps DEF Serve

---------------------------------------------------------------------------
\* The worker.
LEMMA WorkGoes ==
  ASSUME TypeOK, NEW at \in {"dead", "top", "send", "sending", "lost", "float", "floated", "afloat",
                             "failed", "faulted"}, Work(at)
  PROVE  worker' \in Worker /\ worker'.at = at /\ worker'.plan = worker.plan
BY DEF TypeOK, Worker, Work

\* The current transit passes to another status of its life.
LEMMA StatusKeeps ==
  ASSUME Transits, NEW s \in Statuses \ {"none"},
         status' = IF current = None THEN status ELSE [status EXCEPT ![current] = s],
         UNCHANGED <<plan, current, residency, silenced, handler>>, TypeOK',
         gate' = gate \/ worker'.at # "sending",
         mode' \in {mode} \cup IF worker.at = "sending" THEN {worker.plan} ELSE {},
         worker'.at = "send" => worker'.plan \in Plans,
         worker'.at = "sending" => worker' = worker
  PROVE  Transits'
<1>1. Lasting
  <2>1. CASE current = None BY <2>1 DEF Lasting
  <2>2. CASE current # None BY <2>2 DEF Lasting, Transits, TypeOK, TransitsAreKept
  <2> QED BY <2>1, <2>2
<1>2. SilenceIsKept'
  <2>1. mode' \notin silenced
    BY DEF Transits, SilenceIsKept, SilencedStaysSilent
  <2>2. \A p \in silenced : p # current /\ status'[p] # "none"
    BY <1>1 DEF Transits, TypeOK, SilenceIsKept, Lasting
  <2>3. worker'.at = "sending" => gate' /\ worker'.plan \in Plans /\ worker'.plan \notin silenced
    BY DEF Transits, SilenceIsKept
  <2> QED BY <2>1, <2>2, <2>3 DEF SilenceIsKept, SilencedStaysSilent
<1>3. RecoveryIsIdle' BY DEF Transits, RecoveryIsIdle
<1>4. \A g \in Handlers : Following(g) BY Unhandled
<1> QED BY <1>1, <1>2, <1>3, <1>4, StepKeeps

LEMMA StreamKeeps == ASSUME Transits, Stream PROVE Transits'
<1>1. /\ current # None /\ worker' = [at |-> "send", plan |-> current]
      /\ UNCHANGED <<transit, residency, profile, held, platform, gate, leaseOp, handler, tick,
                     poll, owned, mode, silenced, served>>
  BY DEF Stream, controller, locks, basic
<1>2. current \in Plans BY <1>1 DEF Transits, TypeOK
<1>3. worker' \in Worker /\ worker'.at = "send" /\ worker'.plan \in Plans BY <1>1, <1>2 DEF Worker
<1>4. TypeOK' BY <1>1, <1>3 DEF Transits, TypeOK, transit
<1>5. \A g \in Handlers : Following(g) BY <1>1, Unhandled
<1> QED BY <1>1, <1>3, <1>4, <1>5, QuietKeeps

LEMMA ArriveKeeps == ASSUME Transits, Arrive PROVE Transits'
<1>1. PICK s \in {"COMPLETING_FLOAT", "HOLDING_FINAL", "WAITING_NEXT"},
           at \in {"float", "send"} :
        status' = [status EXCEPT ![current] = s] /\ worker' = [at |-> at, plan |-> current]
  BY DEF Arrive
<1>2. /\ current # None
      /\ UNCHANGED <<plan, current, residency, profile, held, platform, gate, leaseOp, handler, tick,
                     poll, owned, mode, silenced, served>>
  BY DEF Arrive, controller, locks, basic
<1>3. current \in Plans BY <1>2 DEF Transits, TypeOK
<1>4. s \in Statuses \ {"none"} BY DEF Statuses
<1>5. worker' \in Worker /\ worker'.at \in {"float", "send"} /\ worker'.plan \in Plans BY <1>1, <1>3 DEF Worker
<1>6. status' \in [Plans -> Statuses] BY <1>1, <1>3, <1>4 DEF Transits, TypeOK
<1>7. TypeOK' BY <1>2, <1>5, <1>6 DEF Transits, TypeOK
<1>8. status' = IF current = None THEN status ELSE [status EXCEPT ![current] = s] BY <1>1, <1>2
<1> QED BY <1>2, <1>4, <1>5, <1>7, <1>8, StatusKeeps

\* Failing: the status of the current transit, if there is one.
LEMMA FailingTypes ==
  ASSUME TypeOK, Failing
  PROVE  /\ status' \in [Plans -> Statuses] /\ worker' \in Worker /\ worker'.at = "failed"
         /\ status' = IF current = None THEN status ELSE [status EXCEPT ![current] = "FAILED"]
<1>1. worker' \in Worker /\ worker'.at = "failed" BY WorkGoes DEF Failing
<1>2. status' = IF current = None THEN status ELSE [status EXCEPT ![current] = "FAILED"] BY DEF Failing
<1>3. status' \in [Plans -> Statuses] BY <1>2 DEF TypeOK, Statuses
<1> QED BY <1>1, <1>2, <1>3

LEMMA FaultKeeps == ASSUME Transits, Fault PROVE Transits'
<1>1. /\ Failing
      /\ UNCHANGED <<plan, current, residency, profile, held, platform, gate, leaseOp, handler, tick,
                     poll, owned, mode, silenced, served>>
  BY DEF Fault, controller, locks, basic
<1>2. /\ status' \in [Plans -> Statuses] /\ worker' \in Worker /\ worker'.at = "failed"
      /\ status' = IF current = None THEN status ELSE [status EXCEPT ![current] = "FAILED"]
  BY <1>1, FailingTypes DEF Transits
<1>3. TypeOK' BY <1>1, <1>2 DEF Transits, TypeOK
<1>4. "FAILED" \in Statuses \ {"none"} BY DEF Statuses
<1> QED BY <1>1, <1>2, <1>3, <1>4, StatusKeeps

LEMMA NothingLeftKeeps == ASSUME Transits, NothingLeft PROVE Transits'
<1>1. /\ worker' = Gone
      /\ UNCHANGED <<transit, residency, profile, held, platform, gate, leaseOp, handler, tick,
                     poll, owned, mode, silenced, served>>
  BY DEF NothingLeft, controller, locks, basic
<1>2. worker' \in Worker /\ worker'.at = "dead" BY <1>1 DEF Gone, Worker
<1>3. TypeOK' BY <1>1, <1>2 DEF Transits, TypeOK, transit
<1>4. \A g \in Handlers : Following(g) BY <1>1, Unhandled
<1> QED BY <1>1, <1>2, <1>3, <1>4, QuietKeeps

\* The frame that is sent is of the transit that is current under the gate.
LEMMA SendKeeps == ASSUME Transits, Send PROVE Transits'
<1>1. /\ worker.at = "send" /\ worker.plan \in Plans
      /\ UNCHANGED <<transit, residency, profile, held, platform, leaseOp, handler, tick,
                     poll, owned, mode, silenced, served>>
  BY DEF Send, Transits, SilenceIsKept, controller, basic
<1>2. \A g \in Handlers : Following(g) BY <1>1, Unhandled
<1>3. CASE current = worker.plan /\ platform
  <2>1. gate' = TRUE /\ Work("sending") BY <1>3 DEF Send
  <2>2. worker' \in Worker /\ worker'.at = "sending" /\ worker'.plan = worker.plan
    BY <2>1, WorkGoes DEF Transits
  <2>3. TypeOK' BY <1>1, <2>1, <2>2 DEF Transits, TypeOK, transit
  <2>4. Lasting /\ current' = current /\ plan' = plan BY <1>1 DEF Lasting, transit
  <2>5. SilenceIsKept'
    BY <1>1, <1>3, <2>1, <2>2 DEF Transits, SilenceIsKept, SilencedStaysSilent, transit
  <2>6. RecoveryIsIdle' BY <1>1 DEF Transits, RecoveryIsIdle, transit
  <2> QED BY <1>2, <2>3, <2>4, <2>5, <2>6, StepKeeps
<1>4. CASE ~ (current = worker.plan /\ platform)
  <2>1. gate' = gate /\ Work("top") BY <1>4 DEF Send
  <2>2. worker' \in Worker /\ worker'.at = "top" BY <2>1, WorkGoes DEF Transits
  <2>3. TypeOK' BY <1>1, <2>1, <2>2 DEF Transits, TypeOK, transit
  <2> QED BY <1>1, <1>2, <2>1, <2>2, <2>3, QuietKeeps
<1> QED BY <1>3, <1>4

LEMMA SentKeeps == ASSUME Transits, Sent PROVE Transits'
<1>1. /\ worker.at = "sending" /\ gate' = FALSE /\ held' \in BOOLEAN
      /\ UNCHANGED <<plan, current, residency, profile, platform, leaseOp, handler, tick,
                     poll, owned, silenced, served>>
  BY DEF Sent, Transits, TypeOK
<1>2. \/ /\ mode' \in {mode, worker.plan} /\ status' = status
         /\ \E at \in {"top", "lost"} : Work(at)
      \/ mode' \in {mode, worker.plan} /\ Failing
  BY DEF Sent
<1>3. mode' \in Plans \cup {"float", "hold"} BY <1>1, <1>2 DEF Transits, TypeOK, SilenceIsKept
<1>4. CASE Failing
  <2>1. /\ status' \in [Plans -> Statuses] /\ worker' \in Worker /\ worker'.at = "failed"
        /\ status' = IF current = None THEN status ELSE [status EXCEPT ![current] = "FAILED"]
    BY <1>4, FailingTypes DEF Transits
  <2>2. TypeOK' BY <1>1, <1>3, <2>1 DEF Transits, TypeOK
  <2>3. "FAILED" \in Statuses \ {"none"} BY DEF Statuses
  <2>4. mode' \in {mode} \cup IF worker.at = "sending" THEN {worker.plan} ELSE {} BY <1>1, <1>2
  <2> QED BY <1>1, <2>1, <2>2, <2>3, <2>4, StatusKeeps
<1>5. CASE status' = status /\ \E at \in {"top", "lost"} : Work(at)
  <2>1. worker' \in Worker /\ worker'.at \in {"top", "lost"} BY <1>5, WorkGoes DEF Transits
  <2>2. TypeOK' BY <1>1, <1>3, <1>5, <2>1 DEF Transits, TypeOK
  <2>3. Lasting BY <1>5 DEF Lasting
  <2>4. SilenceIsKept'
    BY <1>1, <1>2, <1>5, <2>1 DEF Transits, SilenceIsKept, SilencedStaysSilent
  <2>5. RecoveryIsIdle' BY <1>1 DEF Transits, RecoveryIsIdle
  <2>6. \A g \in Handlers : Following(g) BY <1>1, Unhandled
  <2> QED BY <1>1, <2>2, <2>3, <2>4, <2>5, <2>6, StepKeeps
<1> QED BY <1>2, <1>4, <1>5

\* A lost lease ends the transit of a HOT controller.
LEMMA LossKeeps ==
  ASSUME Transits, LoseLease,
         UNCHANGED <<mode, silenced, handler, leaseOp, tick, poll, owned, served>>,
         (worker' = worker /\ gate' = gate) \/ (worker' = Gone /\ gate' = FALSE)
  PROVE  Transits'
<1>1. held' = FALSE /\ UNCHANGED <<profile, platform>> BY DEF LoseLease
<1>2. Gone \in Worker /\ Gone.at = "dead" BY DEF Gone, Worker
<1>3. \A g \in Handlers : Following(g) BY Unhandled
<1>4. worker'.at = "send" => worker'.plan \in Plans BY <1>2 DEF Transits, SilenceIsKept
<1>5. worker'.at = "sending" => worker' = worker /\ gate' = gate BY <1>2
<1>6. CASE residency = "HOT"
  <2>1. residency' = "RECOVERY_REQUIRED" /\ EndWith("FAILED") BY <1>6 DEF LoseLease
  <2>2. "FAILED" \in Statuses \ {"none"} BY DEF Statuses
  <2>3. status' \in [Plans -> Statuses] /\ Lasting /\ current' = None /\ plan' = plan
    BY <2>1, <2>2, EndingLasts DEF Transits
  <2>4. TypeOK' BY <1>1, <1>2, <2>1, <2>3 DEF Transits, TypeOK
  <2>5. SilenceIsKept' BY <1>4, <1>5, <2>3, SilenceStays DEF Transits
  <2>6. RecoveryIsIdle' BY <2>3 DEF RecoveryIsIdle
  <2> QED BY <1>3, <2>3, <2>4, <2>5, <2>6, StepKeeps
<1>7. CASE residency # "HOT"
  <2>1. UNCHANGED <<residency, plan, status, current>> BY <1>7 DEF LoseLease, transit
  <2>2. TypeOK' BY <1>1, <1>2, <2>1 DEF Transits, TypeOK
  <2>3. Lasting BY <2>1 DEF Lasting
  <2>4. SilenceIsKept' BY <1>4, <1>5, <2>1, <2>3, SilenceStays DEF Transits
  <2>5. RecoveryIsIdle' BY <2>1 DEF Transits, RecoveryIsIdle
  <2> QED BY <1>3, <2>1, <2>2, <2>3, <2>4, <2>5, StepKeeps
<1> QED BY <1>6, <1>7

LEMMA WorkerLostKeeps == ASSUME Transits, WorkerLost PROVE Transits'
BY LossKeeps DEF WorkerLost, basic

\* A float by a thread.
LEMMA ThreadFloatKeeps ==
  ASSUME Transits, NEW ok \in BOOLEAN, Float(ok),
         UNCHANGED <<transit, controller, locks, handler, served>>,
         worker' \in Worker, worker'.at # "send" \/ worker' = worker,
         worker'.at = "sending" => worker' = worker,
         tick' \in {"idle", tick}, poll' \in {"idle", poll}
  PROVE  Transits'
<1>1. mode' \in Plans \cup {"float", "hold"} /\ silenced' \subseteq Plans /\ owned' = owned
  BY FloatTypes DEF Transits
<1>2. UNCHANGED <<residency, profile, held, platform, gate, leaseOp>> BY DEF controller, locks
<1>3. TypeOK' BY <1>1, <1>2 DEF Transits, TypeOK, transit
<1>4. \A g \in Handlers : Following(g) BY Unhandled
<1>5. worker'.at = "send" => worker'.plan \in Plans BY DEF Transits, SilenceIsKept
<1> QED BY <1>2, <1>3, <1>4, <1>5, FloatKeeps

LEMMA WorkerFloatKeeps == ASSUME Transits, WorkerFloat PROVE Transits'
<1>1. PICK ok \in BOOLEAN : Float(ok) /\ Work(IF ok THEN "floated" ELSE "afloat") BY DEF WorkerFloat
<1>2. worker' \in Worker /\ worker'.at \in {"floated", "afloat"} BY <1>1, WorkGoes DEF Transits
<1> QED BY <1>1, <1>2, ThreadFloatKeeps DEF WorkerFloat

LEMMA WorkerFaultFloatKeeps == ASSUME Transits, WorkerFaultFloat PROVE Transits'
<1>1. PICK ok \in BOOLEAN : Float(ok) BY DEF WorkerFaultFloat
<1>2. worker' \in Worker /\ worker'.at = "dead" BY DEF WorkerFaultFloat, Gone, Worker
<1> QED BY <1>1, <1>2, ThreadFloatKeeps DEF WorkerFaultFloat

\* The end of the current transit by a thread.
LEMMA ThreadEndKeeps ==
  ASSUME Transits, NEW s \in Statuses \ {"none"}, EndWith(s),
         UNCHANGED <<residency, held, platform, locks, handler, basic, served>>, profile' \in {FALSE, profile},
         worker' \in Worker, worker'.at # "send" \/ worker' = worker,
         worker'.at = "sending" => worker' = worker,
         tick' \in {"float", tick}, poll' \in {"float", poll}
  PROVE  Transits'
<1>1. status' \in [Plans -> Statuses] /\ current' = None /\ plan' = plan BY EndingLasts DEF Transits
<1>2. UNCHANGED <<gate, leaseOp, owned, mode, silenced>> BY DEF locks, basic
<1>3. TypeOK' BY <1>1, <1>2 DEF Transits, TypeOK
<1>4. \A g \in Handlers : Following(g) BY Unhandled
<1>5. worker'.at = "send" => worker'.plan \in Plans BY DEF Transits, SilenceIsKept
<1> QED BY <1>2, <1>3, <1>4, <1>5, EndKeeps

LEMMA WorkerEndsKeeps == ASSUME Transits, WorkerEnds PROVE Transits'
<1>1. worker' = Gone /\ UNCHANGED <<controller, locks, handler, tick, poll, basic, served>> BY DEF WorkerEnds
<1>2. worker' \in Worker /\ worker'.at = "dead" BY <1>1 DEF Gone, Worker
<1>3. UNCHANGED <<residency, profile, held, platform, gate, leaseOp, owned, mode, silenced>>
  BY <1>1 DEF controller, locks, basic
<1>4. CASE current = worker.plan
  <2>1. PICK s \in {"COMPLETED_FLOAT", "FAILED"} : EndWith(s) BY <1>4 DEF WorkerEnds
  <2>2. s \in Statuses \ {"none"} BY DEF Statuses
  <2> QED BY <1>1, <1>2, <1>3, <2>1, <2>2, ThreadEndKeeps
<1>5. CASE current # worker.plan
  <2>1. UNCHANGED transit BY <1>5 DEF WorkerEnds
  <2>2. TypeOK' BY <1>1, <1>2, <1>3, <2>1 DEF Transits, TypeOK, transit
  <2>3. \A g \in Handlers : Following(g) BY <1>1, Unhandled
  <2> QED BY <1>2, <1>3, <2>1, <2>2, <2>3, QuietKeeps
<1> QED BY <1>4, <1>5

LEMMA WorkerFaultsKeeps == ASSUME Transits, WorkerFaults PROVE Transits'
<1>1. /\ EndWith("FAILED") /\ Work("faulted") /\ UNCHANGED <<controller, locks, handler, tick, poll, basic, served>>
  BY DEF WorkerFaults
<1>2. worker' \in Worker /\ worker'.at = "faulted" BY <1>1, WorkGoes DEF Transits
<1>3. "FAILED" \in Statuses \ {"none"} BY DEF Statuses
<1> QED BY <1>1, <1>2, <1>3, ThreadEndKeeps DEF controller

LEMMA RunKeeps == ASSUME Transits, Run PROVE Transits'
BY StreamKeeps, ArriveKeeps, FaultKeeps, NothingLeftKeeps, SendKeeps, SentKeeps, WorkerLostKeeps,
   WorkerFloatKeeps, WorkerEndsKeeps, WorkerFaultsKeeps, WorkerFaultFloatKeeps DEF Run

---------------------------------------------------------------------------
\* The control loop, the lease loop, the platform and Basic.
LEMMA LoopKeeps ==
  ASSUME Transits, UNCHANGED <<transit, residency, gate, leaseOp, handler, worker, silenced, served>>,
         {profile', held', platform', owned'} \subseteq BOOLEAN, mode' \in {mode, "float", "hold"},
         tick' \in {"idle", "hold", "fault", "float"}, poll' \in {"idle", "cancel", "float"}
  PROVE  Transits'
<1>1. Lasting /\ current' = current /\ plan' = plan BY DEF Lasting, transit
<1>2. TypeOK' BY DEF Transits, TypeOK, transit
<1>3. \A g \in Handlers : Following(g) BY Unhandled
<1>4. SilenceIsKept' BY <1>1, SilenceStays DEF Transits, SilenceIsKept
<1>5. RecoveryIsIdle' BY <1>1 DEF Transits, RecoveryIsIdle
<1> QED BY <1>1, <1>2, <1>3, <1>4, <1>5, StepKeeps

LEMMA TypesOfTheLoop ==
  ASSUME Transits
  PROVE  /\ {profile, held, platform, owned} \subseteq BOOLEAN
         /\ tick \in {"idle", "hold", "fault", "float"} /\ poll \in {"idle", "cancel", "float"}
BY DEF Transits, TypeOK

LEMMA TickKeeps == ASSUME Transits, Tick PROVE Transits'
<1>1. /\ UNCHANGED <<transit, residency, held, platform, locks, handler, worker, poll, basic, served>>
      /\ profile' \in {FALSE, profile} /\ tick' \in {"hold", "fault", "float"}
  BY DEF Tick
<1> QED BY <1>1, TypesOfTheLoop, LoopKeeps DEF locks, basic

LEMMA TickHoldKeeps == ASSUME Transits, TickHold PROVE Transits'
<1>1. /\ UNCHANGED <<transit, residency, platform, locks, handler, worker, poll, owned, silenced, served>>
      /\ profile' \in {FALSE, profile} /\ tick' \in {"idle", "float"} /\ mode' \in {mode, "hold"}
      /\ held' = (held /\ owned)
  BY DEF TickHold
<1>2. held' \in BOOLEAN BY <1>1
<1> QED BY <1>1, <1>2, TypesOfTheLoop, LoopKeeps DEF locks

LEMMA TickFaultKeeps == ASSUME Transits, TickFault PROVE Transits'
<1>1. "FAILED" \in Statuses \ {"none"} BY DEF Statuses
<1>2. worker \in Worker BY DEF Transits, TypeOK
<1> QED BY <1>1, <1>2, ThreadEndKeeps DEF TickFault, controller

LEMMA TickFloatKeeps == ASSUME Transits, TickFloat PROVE Transits'
<1>1. PICK ok \in BOOLEAN : Float(ok) BY DEF TickFloat
<1>2. worker \in Worker BY DEF Transits, TypeOK
<1> QED BY <1>1, <1>2, ThreadFloatKeeps DEF TickFloat

LEMMA ReacquireKeeps == ASSUME Transits, Reacquire PROVE Transits'
BY TypesOfTheLoop, LoopKeeps DEF Reacquire, locks

LEMMA RenewKeeps == ASSUME Transits, Renew PROVE Transits'
<1>1. LoseLease /\ UNCHANGED <<mode, silenced, handler, leaseOp, tick, poll, owned, served>> BY DEF Renew, locks
<1>2. (worker' = worker /\ gate' = gate) \/ (worker' = Gone /\ gate' = FALSE) BY DEF Renew, locks
<1>3. LoseLease BY <1>1
<1>4. UNCHANGED <<mode, silenced, handler, leaseOp, tick, poll, owned, served>> BY <1>1
<1> QED BY <1>2, <1>3, <1>4, LossKeeps

LEMMA PollCancelKeeps == ASSUME Transits, PollCancel PROVE Transits'
<1>1. PICK s \in {"FAILED", "RELEASED"} : EndWith(s) BY CancelEnds DEF PollCancel
<1>2. profile' = FALSE /\ UNCHANGED <<residency, held, platform>> BY CancelEnds DEF PollCancel
<1>3. s \in Statuses \ {"none"} BY DEF Statuses
<1>4. worker \in Worker BY DEF Transits, TypeOK
<1> QED BY <1>1, <1>2, <1>3, <1>4, ThreadEndKeeps DEF PollCancel

LEMMA PollFloatKeeps == ASSUME Transits, PollFloat PROVE Transits'
<1>1. PICK ok \in BOOLEAN : Float(ok) BY DEF PollFloat
<1>2. worker \in Worker BY DEF Transits, TypeOK
<1> QED BY <1>1, <1>2, ThreadFloatKeeps DEF PollFloat

LEMMA SetIdleProfileKeeps == ASSUME Transits, SetIdleProfile PROVE Transits'
BY TypesOfTheLoop, LoopKeeps DEF SetIdleProfile, locks, basic

LEMMA BasicTakesKeeps == ASSUME Transits, BasicTakes PROVE Transits'
BY TypesOfTheLoop, LoopKeeps DEF BasicTakes, controller, locks

LEMMA PollKeeps == ASSUME Transits, NEW ready \in BOOLEAN, Poll(ready) PROVE Transits'
<1>1. poll' \in {"cancel", "idle"} /\ platform' \in BOOLEAN BY DEF Poll
<1> QED BY <1>1, TypesOfTheLoop, LoopKeeps DEF Poll, locks, basic

---------------------------------------------------------------------------
\* The transits, the requests that commit them and the frames sent have the form
\* on which the rest relies, for any plans, requests and deployments.
THEOREM TransitsHold == Spec => []Transits
<1>1. Init => Transits
  <2> SUFFICES ASSUME Init PROVE Transits OBVIOUS
  <2>1. Idle \in Handler /\ Idle.at = "idle" /\ Idle.chain = None BY DEF Idle, Handler
  <2>2. Gone \in Worker /\ Gone.at = "dead" BY DEF Gone, Worker
  <2>3. served \in Deployments /\ residency \in {"WARM", "HOT"}
    BY DeploymentsAssumption DEF Init, Deployment
  <2>4. TypeOK BY <2>1, <2>2, <2>3 DEF Init, TypeOK, Statuses
  <2>5. CommitsAreAlone /\ TransitsAreFresh /\ TransitsAreKept
    BY <2>1 DEF Init, CommitsAreAlone, TransitsAreFresh, TransitsAreKept, Committing, Uninstalled, At
  <2>6. SilenceIsKept /\ RecoveryIsIdle
    BY <2>2 DEF Init, SilenceIsKept, SilencedStaysSilent, RecoveryIsIdle
  <2> QED BY <2>4, <2>5, <2>6 DEF Transits
<1>2. Transits /\ [Next]_vars => Transits'
  <2> SUFFICES ASSUME Transits, [Next]_vars PROVE Transits' OBVIOUS
  <2>1. CASE UNCHANGED vars
    <3>1. UNCHANGED <<transit, residency, profile, held, platform, gate, leaseOp, handler, worker,
                      tick, poll, owned, mode, silenced, served>>
      BY <2>1 DEF vars, controller, locks, basic
    <3> QED BY <3>1, TypesOfTheLoop, LoopKeeps
  <2>2. CASE Background
    BY <2>2, TickKeeps, TickHoldKeeps, TickFaultKeeps, TickFloatKeeps, ReacquireKeeps, RenewKeeps,
       PollCancelKeeps, PollFloatKeeps DEF Background
  <2>3. CASE \E p \in Plans : PlanPath(p) \/ \E h \in Handlers : Verify(h, p)
    BY <2>3, PlanPathKeeps, VerifyKeeps
  <2>4. CASE \E h \in Handlers : Serve(h) \/ \E op \in {"float", "release", "warm", "hot"} : Ask(h, op)
    BY <2>4, ServeKeeps, AskKeeps
  <2> QED BY <2>1, <2>2, <2>3, <2>4, RunKeeps, SetIdleProfileKeeps, BasicTakesKeeps, PollKeeps DEF Next
<1> QED BY <1>1, <1>2, PTL DEF Spec

\* Every variable has its type.
THEOREM TransitTypeCorrect == Spec => []TypeOK
<1>1. Transits => TypeOK BY DEF Transits
<1> QED BY <1>1, TransitsHold, PTL

\* Once a float was confirmed after a transit ended, no frame of it reaches Basic,
\* whatever the worker was about to send (_authorized_transit_loop, _float_operation).
THEOREM EndedTransitsAreSilent == Spec => []SilencedStaysSilent
<1>1. Transits => SilencedStaysSilent BY DEF Transits, SilenceIsKept
<1> QED BY <1>1, TransitsHold, PTL

\* After a lost lease no transit runs until HOT is asked for (_handle_lease_loss).
THEOREM LossLeavesIdle == Spec => []RecoveryIsIdle
<1>1. Transits => RecoveryIsIdle BY DEF Transits
<1> QED BY <1>1, TransitsHold, PTL

\* A plan becomes the current transit at most once, whatever requests commit it
\* (_direct_commit_transit_path, execute_authorized_transit).
THEOREM PlansInstallOnce == Spec => InstalledOnce
<1>1. Transits /\ [Next]_vars => [\A p \in Plans : current # p /\ current' = p => status[p] = "none"]_vars
  <2> SUFFICES ASSUME Transits, [Next]_vars, NEW p \in Plans, current # p, current' = p
               PROVE status[p] = "none"
    OBVIOUS
  <2>1. CASE \E h \in Handlers : Commit(h)
    <3>1. PICK h \in Handlers : Commit(h) BY <2>1
    <3>2. At(h, "commit") /\ p = handler[h].plan BY <3>1 DEF Commit
    <3> QED BY <3>2 DEF Transits, TransitsAreFresh, Uninstalled, At
  <2>2. CASE current' \in {current, None} BY <2>2, Names
  <2>3. CASE UNCHANGED vars BY <2>3 DEF vars, transit
  <2>4. ASSUME NEW h \in Handlers, Serve(h), ~ Commit(h) PROVE current' \in {current, None}
    BY <2>4 DEF Serve, Consume, EnsureLease, Preflight, StartWorker, Cancel, CancelActive, EndWith,
                CancelFloat, Clear, Warm, Hot, HotVerify, transit
  <2>5. Run => current' \in {current, None}
    BY DEF Run, Stream, Arrive, Fault, NothingLeft, Send, Sent, WorkerLost, LoseLease, WorkerFloat,
           WorkerEnds, EndWith, WorkerFaults, WorkerFaultFloat, transit
  <2>6. Background => current' \in {current, None}
    BY DEF Background, Tick, TickHold, TickFault, EndWith, TickFloat, Reacquire, Renew, LoseLease,
           PollCancel, CancelActive, PollFloat, transit
  <2>7. ASSUME \E q \in Plans : PlanPath(q) \/ \E h \in Handlers : Verify(h, q) PROVE current' = current
    BY <2>7 DEF PlanPath, Verify, transit
  <2>8. ASSUME NEW h \in Handlers, \E op \in {"float", "release", "warm", "hot"} : Ask(h, op)
        PROVE  current' = current
    BY <2>8 DEF Ask, transit
  <2>9. SetIdleProfile \/ BasicTakes \/ (\E ready \in BOOLEAN : Poll(ready)) => current' = current
    BY DEF SetIdleProfile, BasicTakes, Poll, transit
  <2> QED BY <2>1, <2>2, <2>3, <2>4, <2>5, <2>6, <2>7, <2>8, <2>9 DEF Next
<1> QED BY <1>1, TransitsHold, PTL DEF Spec, InstalledOnce
=============================================================================
