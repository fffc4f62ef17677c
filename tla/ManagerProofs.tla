---------------------------- MODULE ManagerProofs ----------------------------
(***************************************************************************)
(* What serving requests in the Manager guarantees.  For any number of     *)
(* requests and processes of one Provider: no second process where         *)
(* requests do not overlap and kills kill, and no process that is called   *)
(* exited and runs.  For any configuration: Providers are brought up after *)
(* what they depend on, or refused.                                        *)
(***************************************************************************)
EXTENDS MCManager, FiniteSetTheorems, Sequences, TLAPS

---------------------------------------------------------------------------
(* The lifecycle of one Provider.                                           *)

\* Where requests do not overlap only one of the handlers is ever at work.
OneAtATime == "overlap" \notin hardships => \A h \in Handlers \ {First} : handler[h].at = "idle"

\* Requests do not overlap and a kill is not ignored: a kill is aimed at the
\* tracked process, and has killed it when its entry is marked.
Sure == hardships \cap {"overlap", "soft kill"} = {}
KillsAreAimed ==
  Sure => \A h \in Handlers :
    /\ handler[h].at = "kill" => handler[h].pid = IF tracked = None THEN None ELSE tracked.pid
    /\ handler[h].at = "mark" /\ tracked # None => os[tracked.pid] = "dead"

\* Nor does try_wait fail or the Manager restart: every process alive is tracked,
\* or is about to be, and there is none when the next one is spawned.
Calm == hardships \subseteq {"no forced stop"}
ProcessesAreKnown ==
  Calm =>
    /\ tracked # None => tracked.state # "error"
    /\ \A p \in Alive : \/ tracked # None /\ tracked.pid = p
                        \/ \E h \in Handlers : handler[h].at = "insert" /\ handler[h].pid = p
    /\ \A h \in Handlers : /\ handler[h].at = "report" => Alive = {}
                           /\ handler[h].at = "insert" => Alive \subseteq {handler[h].pid}

\* A call that enters a process has spawned one.
SpawnedIsEntered == \A h \in Handlers : handler[h].at = "insert" => handler[h].pid # None

\* The inductive invariant.
Lifecycle ==
  /\ TypeOK /\ hardships \in SUBSET Hardships /\ SpawnedIsEntered
  /\ OneAtATime /\ TrackedIsTruthful /\ KillsAreAimed /\ ProcessesAreKnown

---------------------------------------------------------------------------
\* A step of h in its request: where it goes, and with which pid.
Turn(h, at, pid) ==
  /\ handler' \in [Handlers -> Handler]
  /\ \A g \in Handlers \ {h} : handler'[g] = handler[g]
  /\ handler'[h].at = at /\ handler'[h].pid = pid

Ats == {"idle", "ensure", "check", "report", "insert", "call", "failed",
        "graceful", "poll", "pid", "kill", "mark"}

LEMMA Turning ==
  ASSUME TypeOK, NEW h \in Handlers, NEW x \in Handler, handler' = [handler EXCEPT ![h] = x]
  PROVE  Turn(h, x.at, x.pid)
BY DEF TypeOK, Turn

LEMMA GoToTurns ==
  ASSUME TypeOK, NEW h \in Handlers, NEW at \in Ats, GoTo(h, at)
  PROVE  Turn(h, at, handler[h].pid)
<1> DEFINE x == [handler[h] EXCEPT !.at = at]
<1>1. handler[h] \in Handler BY DEF TypeOK
<1>2. x \in Handler /\ x.at = at /\ x.pid = handler[h].pid BY <1>1 DEF Handler, Ats
<1>3. handler' = [handler EXCEPT ![h] = x] BY DEF GoTo
<1> HIDE DEF x
<1> QED BY <1>2, <1>3, Turning

LEMMA ReplyTurns ==
  ASSUME TypeOK, NEW h \in Handlers, Reply(h)
  PROVE  Turn(h, "idle", None)
<1>1. Idle \in Handler /\ Idle.at = "idle" /\ Idle.pid = None BY DEF Idle, Handler, Operations
<1>2. handler' = [handler EXCEPT ![h] = Idle] BY DEF Reply
<1> QED BY <1>1, <1>2, Turning

LEMMA StartedTurns ==
  ASSUME TypeOK, NEW h \in Handlers, Started(h)
  PROVE  \E at \in {"idle", "call"} : Turn(h, at, None)
<1>1. CASE handler[h].op = "start" BY <1>1, ReplyTurns DEF Started
<1>2. CASE handler[h].op # "start"
  <2> DEFINE x == [handler[h] EXCEPT !.at = "call", !.pid = None]
  <2>1. handler[h] \in Handler BY DEF TypeOK
  <2>2. x \in Handler /\ x.at = "call" /\ x.pid = None BY <2>1 DEF Handler
  <2>3. handler' = [handler EXCEPT ![h] = x] BY <1>2 DEF Started
  <2> HIDE DEF x
  <2> QED BY <2>2, <2>3, Turning
<1> QED BY <1>1, <1>2

---------------------------------------------------------------------------
\* Where requests do not overlap, the one at work is alone.
LEMMA Alone ==
  ASSUME OneAtATime, "overlap" \notin hardships, NEW h \in Handlers, handler[h].at # "idle"
  PROVE  \A g \in Handlers \ {h} : handler[g].at = "idle"
BY DEF OneAtATime

\* A look at the process keeps its pid; under the invariant it does not call a
\* living one exited.
LEMMA RefreshedFacts ==
  ASSUME Lifecycle, NEW t \in Refreshed(tracked) \cup {tracked}
  PROVE  /\ t \in Managed \cup {None}
         /\ t = None <=> tracked = None
         /\ tracked # None => t.pid = tracked.pid
         /\ t # None /\ t.state = "exited" =>
              os[tracked.pid] = "dead" \/ tracked.state = "exited"
         /\ Calm /\ t # None => t.state # "error"
         /\ Calm /\ t # None /\ ~Up(t) => os[t.pid] = "dead"
<1> USE DEF Lifecycle, TypeOK
<1>1. CASE t = tracked
  BY <1>1 DEF ProcessesAreKnown, TrackedIsTruthful, Calm, Managed, Up
<1>2. CASE t # tracked
  <2>1. tracked # None /\ t \in Refreshed(tracked) BY <1>2 DEF Refreshed
  <2>2. tracked \in Managed BY <2>1
  <2> DEFINE states ==
        IF os[tracked.pid] = "dead" THEN {"exited"}
        ELSE {IF tracked.state = "starting" THEN "running" ELSE tracked.state}
             \cup (IF "wait fails" \in hardships THEN {"error"} ELSE {})
  <2>3. PICK s \in states : t = [tracked EXCEPT !.state = s]
    BY <2>1 DEF Refreshed
  <2>6. /\ s \in {"exited", "running", "error", tracked.state}
        /\ s = "exited" => os[tracked.pid] = "dead" \/ tracked.state = "exited"
        /\ s = "error" => "wait fails" \in hardships \/ tracked.state = "error"
    OBVIOUS
  <2> HIDE DEF states
  <2>4. t \in Managed /\ t.pid = tracked.pid /\ t.state = s
    BY <2>2, <2>3, <2>6 DEF Managed
  <2>5. t # None BY <2>4, NoneIsNothing
  <2> QED BY <2>1, <2>2, <2>3, <2>4, <2>5, <2>6 DEF ProcessesAreKnown, TrackedIsTruthful, Calm, Managed, Up
<1> QED BY <1>1, <1>2

\* What is left alone by a step of a handler that starts or kills no process.
Rest == <<os, report, mail, fenced, hardships>>

\* A step that goes on with a request, with or without a look at the process.
LEMMA MovesKeep ==
  ASSUME Lifecycle, NEW h \in Handlers, NEW at \in Ats \ {"insert", "kill", "mark"}, NEW pid,
         Turn(h, at, pid), UNCHANGED Rest, tracked' \in Refreshed(tracked) \cup {tracked},
         handler[h].at # "idle" \/ h = First \/ "overlap" \in hardships,
         handler[h].at # "insert",
         at = "report" => tracked' = None \/ ~Up(tracked')
  PROVE  Lifecycle'
<1> USE DEF Rest
<1>1. /\ tracked' \in Managed \cup {None}
      /\ tracked' = None <=> tracked = None
      /\ tracked # None => tracked'.pid = tracked.pid
      /\ tracked' # None /\ tracked'.state = "exited" =>
           os[tracked.pid] = "dead" \/ tracked.state = "exited"
      /\ Calm /\ tracked' # None => tracked'.state # "error"
      /\ Calm /\ tracked' # None /\ ~Up(tracked') => os[tracked'.pid] = "dead"
  BY RefreshedFacts
<1>2. /\ handler' \in [Handlers -> Handler]
      /\ \A g \in Handlers \ {h} : handler'[g] = handler[g]
      /\ handler'[h].at = at
  BY DEF Turn
<1>3. TypeOK' /\ hardships' \in SUBSET Hardships
  BY <1>1, <1>2 DEF Lifecycle, TypeOK
<1>4. "overlap" \notin hardships => \A g \in Handlers \ {h} : handler[g].at = "idle"
  BY DEF Lifecycle, OneAtATime
<1>5. OneAtATime'
  BY <1>2, <1>4 DEF Lifecycle, OneAtATime
<1>6. TrackedIsTruthful'
  BY <1>1 DEF Lifecycle, TrackedIsTruthful
<1>7. KillsAreAimed'
  BY <1>1, <1>2 DEF Lifecycle, KillsAreAimed, Sure
<1>8. ProcessesAreKnown'
  <2> SUFFICES ASSUME Calm PROVE ProcessesAreKnown' BY DEF ProcessesAreKnown, Calm
  <2>1. "overlap" \notin hardships BY DEF Calm
  <2>2. Alive' = Alive BY DEF Alive
  <2>3. \A g \in Handlers : handler[g].at = "insert" => FALSE
    BY <2>1, <1>4
  <2>4. \A p \in Alive : tracked' # None /\ tracked'.pid = p
    BY <1>1, <2>3 DEF Lifecycle, ProcessesAreKnown
  <2>5. at = "report" => Alive = {}
    BY <1>1, <2>4 DEF Alive
  <2> QED BY <1>1, <1>2, <1>4, <2>1, <2>2, <2>4, <2>5 DEF ProcessesAreKnown
<1>9. SpawnedIsEntered'
  BY <1>2 DEF Lifecycle, SpawnedIsEntered
<1> QED BY <1>3, <1>5, <1>6, <1>7, <1>8, <1>9 DEF Lifecycle

LEMMA AdmitKeeps ==
  ASSUME Lifecycle, NEW h \in Handlers, NEW op \in Operations, Admit(h, op)
  PROVE  Lifecycle'
<1> DEFINE at == CASE op = "start" -> "check" [] op \in {"hot", "request"} -> "ensure"
                   [] op = "stop" -> "graceful" [] op = "kill" -> "poll"
           x == [at |-> at, op |-> op, pid |-> None, late |-> FALSE]
<1>1. at \in Ats \ {"idle", "report", "insert", "kill", "mark"} BY DEF Operations, Ats
<1>2. x \in Handler /\ x.at = at BY <1>1 DEF Handler, Ats
<1>3. handler' = [handler EXCEPT ![h] = x] /\ UNCHANGED <<tracked, Rest>>
  BY DEF Admit, Rest
<1>4. handler[h].at = "idle" /\ (h = First \/ "overlap" \in hardships) BY DEF Admit
<1> HIDE DEF x, at
<1>5. Turn(h, at, x.pid) BY <1>2, <1>3, Turning DEF Lifecycle
<1> QED BY <1>1, <1>3, <1>4, <1>5, MovesKeep

LEMMA EnsureKeeps == ASSUME Lifecycle, NEW h \in Handlers, Ensure(h) PROVE Lifecycle'
<1>1. tracked' \in Refreshed(tracked) /\ UNCHANGED Rest /\ handler[h].at = "ensure"
  BY DEF Ensure, Rest
<1>2. \E at \in {"call", "check"} : GoTo(h, at) BY DEF Ensure
<1>3. \E at \in {"call", "check"} : Turn(h, at, handler[h].pid)
  BY <1>2, GoToTurns DEF Lifecycle, Ats
<1> QED BY <1>1, <1>3, MovesKeep DEF Ats

LEMMA CheckTrackedKeeps == ASSUME Lifecycle, NEW h \in Handlers, CheckTracked(h) PROVE Lifecycle'
<1>1. tracked' \in Refreshed(tracked) /\ UNCHANGED Rest /\ handler[h].at = "check"
  BY DEF CheckTracked, Rest
<1>2. Started(h) \/ (~Up(tracked') /\ GoTo(h, "report")) BY DEF CheckTracked
<1>3. CASE Started(h)
  BY <1>1, <1>3, StartedTurns, MovesKeep DEF Lifecycle, Ats
<1>4. CASE ~Up(tracked') /\ GoTo(h, "report")
  BY <1>1, <1>4, GoToTurns, MovesKeep DEF Lifecycle, Ats
<1> QED BY <1>2, <1>3, <1>4

LEMMA AlreadyRegisteredKeeps ==
  ASSUME Lifecycle, NEW h \in Handlers, AlreadyRegistered(h) PROVE Lifecycle'
<1>1. Started(h) /\ UNCHANGED <<tracked, Rest>> /\ handler[h].at = "report"
  BY DEF AlreadyRegistered, Rest
<1> QED BY <1>1, StartedTurns, MovesKeep DEF Lifecycle, Ats

LEMMA HotFailedKeeps == ASSUME Lifecycle, NEW h \in Handlers, HotFailed(h) PROVE Lifecycle'
<1>1. tracked' \in Refreshed(tracked) /\ UNCHANGED Rest /\ handler[h].at = "failed"
  BY DEF HotFailed, Rest
<1>2. Reply(h) \/ GoTo(h, "call") BY DEF HotFailed
<1> QED BY <1>1, <1>2, ReplyTurns, GoToTurns, MovesKeep DEF Lifecycle, Ats

LEMMA PollKeeps == ASSUME Lifecycle, NEW h \in Handlers, Poll(h) PROVE Lifecycle'
<1>1. tracked' \in Refreshed(tracked) /\ UNCHANGED Rest /\ handler[h].at = "poll"
  BY DEF Poll, Rest
<1>2. Reply(h) \/ GoTo(h, "pid") \/ UNCHANGED handler BY DEF Poll
<1>3. UNCHANGED handler => Turn(h, "poll", handler[h].pid)
  BY <1>1 DEF Lifecycle, TypeOK, Turn
<1> QED BY <1>1, <1>2, <1>3, ReplyTurns, GoToTurns, MovesKeep DEF Lifecycle, Ats

\* Steps that answer the request, or wait, or call, and look at nothing.
LEMMA AnswersKeep ==
  ASSUME Lifecycle, NEW h \in Handlers,
         SpawnFails(h) \/ CallAnswered(h) \/ CallFails(h) \/ AskToStop(h) \/ KillFails(h)
  PROVE  Lifecycle'
<1>1. UNCHANGED <<tracked, Rest>> /\ handler[h].at \in {"report", "call", "graceful", "kill"}
  BY DEF SpawnFails, CallAnswered, CallFails, AskToStop, KillFails, Rest
<1>2. Reply(h) \/ GoTo(h, "failed") \/ GoTo(h, "poll")
  BY DEF SpawnFails, CallAnswered, CallFails, AskToStop, KillFails
<1> QED BY <1>1, <1>2, ReplyTurns, GoToTurns, MovesKeep DEF Lifecycle, Ats

LEMMA DeadlinePassesKeeps ==
  ASSUME Lifecycle, NEW h \in Handlers, DeadlinePasses(h) PROVE Lifecycle'
<1> DEFINE x == [handler[h] EXCEPT !.late = TRUE]
<1>1. handler[h] \in Handler BY DEF Lifecycle, TypeOK
<1>2. x \in Handler /\ x.at = handler[h].at /\ x.pid = handler[h].pid BY <1>1 DEF Handler
<1>3. handler' = [handler EXCEPT ![h] = x] /\ UNCHANGED <<tracked, Rest>>
      /\ handler[h].at \in {"failed", "poll", "call"}
  BY DEF DeadlinePasses, Rest
<1> HIDE DEF x
<1>4. Turn(h, handler[h].at, x.pid) BY <1>2, <1>3, Turning DEF Lifecycle
<1> QED BY <1>3, <1>4, MovesKeep DEF Ats

---------------------------------------------------------------------------
\* Steps that start a process, or kill one.

LEMMA SpawnKeeps == ASSUME Lifecycle, NEW h \in Handlers, Spawn(h) PROVE Lifecycle'
<1>1. PICK p \in Unborn :
        /\ os' = [os EXCEPT ![p] = "alive"]
        /\ handler' = [handler EXCEPT ![h].at = "insert", ![h].pid = p]
  BY DEF Spawn
<1>2. handler[h].at = "report" /\ UNCHANGED <<tracked, report, mail, fenced, hardships>>
  BY DEF Spawn
<1> DEFINE x == [handler[h] EXCEPT !.at = "insert", !.pid = p]
<1>3. handler[h] \in Handler /\ p \in Pids BY DEF Lifecycle, TypeOK, Unborn
<1>4. x \in Handler /\ x.at = "insert" /\ x.pid = p BY <1>3 DEF Handler
<1>5. handler' = [handler EXCEPT ![h] = x] BY <1>1
<1> HIDE DEF x
<1>6. /\ handler' \in [Handlers -> Handler]
      /\ \A g \in Handlers \ {h} : handler'[g] = handler[g]
      /\ handler'[h].at = "insert" /\ handler'[h].pid = p
  BY <1>4, <1>5, Turning DEF Turn, Lifecycle
<1>7. os' \in [Pids -> {"unborn", "alive", "dead"}] /\ Alive' = Alive \cup {p}
      /\ \A q \in Pids : os[q] = "dead" => os'[q] = "dead"
  BY <1>1, <1>3 DEF Lifecycle, TypeOK, Alive, Unborn
<1>8. TypeOK' /\ hardships' \in SUBSET Hardships
  BY <1>2, <1>6, <1>7 DEF Lifecycle, TypeOK
<1>9. "overlap" \notin hardships => \A g \in Handlers \ {h} : handler[g].at = "idle"
  BY <1>2, Alone DEF Lifecycle
<1>10. "overlap" \notin hardships => h = First
  BY <1>2 DEF Lifecycle, OneAtATime
<1>11. OneAtATime'
  BY <1>2, <1>6, <1>9, <1>10 DEF OneAtATime
<1>12. tracked # None => tracked.pid \in Pids
  BY DEF Lifecycle, TypeOK, Managed
<1>13. TrackedIsTruthful'
  BY <1>2, <1>7, <1>12 DEF Lifecycle, TrackedIsTruthful
<1>14. KillsAreAimed'
  BY <1>2, <1>6, <1>7, <1>12 DEF Lifecycle, KillsAreAimed, Sure
<1>15. Calm => Alive = {} /\ "overlap" \notin hardships
  BY <1>2 DEF Lifecycle, ProcessesAreKnown, Calm
<1>16. ProcessesAreKnown'
  <2> SUFFICES ASSUME Calm PROVE ProcessesAreKnown' BY <1>2 DEF ProcessesAreKnown, Calm
  <2>1. Alive' = {p} BY <1>7, <1>15
  <2>2. \A g \in Handlers \ {h} : handler'[g].at = "idle" BY <1>6, <1>9, <1>15
  <2>3. tracked # None => tracked.state # "error" BY DEF Lifecycle, ProcessesAreKnown
  <2> QED BY <1>2, <1>6, <2>1, <2>2, <2>3 DEF ProcessesAreKnown
<1>17. SpawnedIsEntered'
  BY <1>3, <1>6, NoneIsNothing DEF Lifecycle, SpawnedIsEntered
<1> QED BY <1>8, <1>11, <1>13, <1>14, <1>16, <1>17 DEF Lifecycle

LEMMA InsertKeeps == ASSUME Lifecycle, NEW h \in Handlers, Insert(h) PROVE Lifecycle'
<1> DEFINE p == handler[h].pid
<1>1. tracked' = [pid |-> p, state |-> "starting"] /\ UNCHANGED Rest /\ handler[h].at = "insert"
  BY DEF Insert, Rest
<1>2. PICK at \in {"idle", "call"} : Turn(h, at, None)
  BY StartedTurns DEF Insert, Lifecycle
<1>3. "overlap" \notin hardships => /\ h = First
                                    /\ \A g \in Handlers \ {h} : handler[g].at = "idle"
  BY <1>1, Alone DEF Lifecycle, OneAtATime
<1>4. OneAtATime'
  BY <1>1, <1>2, <1>3 DEF OneAtATime, Turn, Rest
<1>5. TrackedIsTruthful'
  BY <1>1 DEF TrackedIsTruthful
<1>6. KillsAreAimed'
  <2> SUFFICES ASSUME Sure, NEW g \in Handlers
               PROVE  handler'[g].at \notin {"kill", "mark"}
    BY <1>1 DEF KillsAreAimed, Sure, Rest
  <2> QED BY <1>2, <1>3 DEF Sure, Turn
<1>7. p \in Pids
  BY <1>1 DEF Lifecycle, TypeOK, Handler, SpawnedIsEntered
<1>8. tracked' \in Managed /\ tracked' # None
  BY <1>1, <1>7, NoneIsNothing DEF Managed
<1>9. TypeOK' /\ hardships' \in SUBSET Hardships
  BY <1>1, <1>2, <1>8 DEF Lifecycle, TypeOK, Turn, Rest
<1>10. ProcessesAreKnown'
  <2> SUFFICES ASSUME Calm PROVE ProcessesAreKnown' BY <1>1 DEF ProcessesAreKnown, Calm, Rest
  <2>1. "overlap" \notin hardships BY DEF Calm
  <2>2. Alive' = Alive /\ Alive \subseteq {p}
    BY <1>1 DEF Lifecycle, ProcessesAreKnown, Alive, Rest
  <2>3. \A g \in Handlers : handler'[g].at \notin {"report", "insert"}
    BY <1>2, <1>3, <2>1 DEF Turn
  <2> QED BY <1>1, <1>8, <2>2, <2>3 DEF ProcessesAreKnown
<1>11. SpawnedIsEntered'
  BY <1>2 DEF Lifecycle, SpawnedIsEntered, Turn
<1> QED BY <1>4, <1>5, <1>6, <1>9, <1>10, <1>11 DEF Lifecycle

LEMMA TakePidKeeps == ASSUME Lifecycle, NEW h \in Handlers, TakePid(h) PROVE Lifecycle'
<1> DEFINE p == IF tracked = None THEN None ELSE tracked.pid
           x == [handler[h] EXCEPT !.at = "kill", !.pid = p]
<1>1. handler[h] \in Handler /\ p \in Pids \cup {None} BY DEF Lifecycle, TypeOK, Managed
<1>2. x \in Handler /\ x.at = "kill" /\ x.pid = p BY <1>1 DEF Handler
<1>3. handler' = [handler EXCEPT ![h] = x] /\ UNCHANGED <<tracked, Rest>> /\ handler[h].at = "pid"
  BY DEF TakePid, Rest
<1> HIDE DEF x
<1>4. /\ handler' \in [Handlers -> Handler]
      /\ \A g \in Handlers \ {h} : handler'[g] = handler[g]
      /\ handler'[h].at = "kill" /\ handler'[h].pid = p
  BY <1>2, <1>3, Turning DEF Turn, Lifecycle
<1>5. "overlap" \notin hardships => /\ h = First
                                    /\ \A g \in Handlers \ {h} : handler[g].at = "idle"
  BY <1>3, Alone DEF Lifecycle, OneAtATime
<1>6. TypeOK' /\ hardships' \in SUBSET Hardships
  BY <1>3, <1>4 DEF Lifecycle, TypeOK, Rest
<1>7. OneAtATime' /\ SpawnedIsEntered'
  BY <1>3, <1>4, <1>5 DEF Lifecycle, OneAtATime, SpawnedIsEntered, Rest
<1>8. TrackedIsTruthful'
  BY <1>3 DEF Lifecycle, TrackedIsTruthful, Rest
<1>9. KillsAreAimed'
  BY <1>3, <1>4, <1>5 DEF Lifecycle, KillsAreAimed, Sure, Rest
<1>10. ProcessesAreKnown'
  <2> SUFFICES ASSUME Calm PROVE ProcessesAreKnown' BY <1>3 DEF ProcessesAreKnown, Calm, Rest
  <2>1. \A g \in Handlers : handler[g].at # "insert" /\ handler'[g].at \notin {"insert", "report"}
    BY <1>3, <1>4, <1>5 DEF Calm
  <2>2. Alive' = Alive BY <1>3 DEF Alive, Rest
  <2> QED BY <1>3, <2>1, <2>2 DEF Lifecycle, ProcessesAreKnown, Rest
<1> QED BY <1>6, <1>7, <1>8, <1>9, <1>10 DEF Lifecycle

\* Fewer processes are alive, or none has died; a handler may be at "mark".
LEMMA KillKeeps == ASSUME Lifecycle, NEW h \in Handlers, Kill(h) PROVE Lifecycle'
<1> DEFINE p == handler[h].pid
<1>1. /\ handler[h].at = "kill" /\ GoTo(h, "mark")
      /\ UNCHANGED <<tracked, report, mail, fenced, hardships>>
      /\ os' = (IF p = None THEN os ELSE [os EXCEPT ![p] = "dead"])
         \/ ("soft kill" \in hardships /\ os' = os)
  BY DEF Kill
<1>2. /\ handler' \in [Handlers -> Handler]
      /\ \A g \in Handlers \ {h} : handler'[g] = handler[g]
      /\ handler'[h].at = "mark" /\ handler'[h].pid = p
  BY <1>1, GoToTurns DEF Turn, Lifecycle, Ats
<1>3. "overlap" \notin hardships => /\ h = First
                                    /\ \A g \in Handlers \ {h} : handler[g].at = "idle"
  BY <1>1, Alone DEF Lifecycle, OneAtATime
<1>4. p \in Pids \cup {None} BY DEF Lifecycle, TypeOK, Handler
<1>5. /\ os' \in [Pids -> {"unborn", "alive", "dead"}] /\ Alive' \subseteq Alive
      /\ \A q \in Pids : os[q] = "dead" => os'[q] = "dead"
      /\ "soft kill" \notin hardships /\ p # None => os'[p] = "dead"
  BY <1>1, <1>4 DEF Lifecycle, TypeOK, Alive
<1>6. tracked # None => tracked.pid \in Pids
  BY DEF Lifecycle, TypeOK, Managed
<1>7. TypeOK' /\ hardships' \in SUBSET Hardships
  BY <1>1, <1>2, <1>5 DEF Lifecycle, TypeOK
<1>8. OneAtATime' /\ SpawnedIsEntered'
  BY <1>1, <1>2, <1>3 DEF Lifecycle, OneAtATime, SpawnedIsEntered
<1>9. TrackedIsTruthful'
  BY <1>1, <1>5, <1>6 DEF Lifecycle, TrackedIsTruthful
<1>10. KillsAreAimed'
  <2> SUFFICES ASSUME Sure PROVE KillsAreAimed' BY <1>1 DEF KillsAreAimed, Sure
  <2>1. p = IF tracked = None THEN None ELSE tracked.pid
    BY <1>1 DEF Lifecycle, KillsAreAimed
  <2>2. tracked # None => os'[tracked.pid] = "dead"
    BY <1>5, <1>6, <2>1, NoneIsNothing DEF Sure
  <2> QED BY <1>1, <1>2, <1>3, <2>2 DEF KillsAreAimed, Sure
<1>11. ProcessesAreKnown'
  <2> SUFFICES ASSUME Calm PROVE ProcessesAreKnown' BY <1>1 DEF ProcessesAreKnown, Calm
  <2>1. \A g \in Handlers : handler[g].at # "insert" /\ handler'[g].at \notin {"insert", "report"}
    BY <1>1, <1>2, <1>3 DEF Calm
  <2> QED BY <1>1, <1>5, <2>1 DEF Lifecycle, ProcessesAreKnown
<1> QED BY <1>7, <1>8, <1>9, <1>10, <1>11 DEF Lifecycle

LEMMA MarkExitedKeeps == ASSUME Lifecycle, NEW h \in Handlers, MarkExited(h) PROVE Lifecycle'
<1>1. /\ tracked' = IF tracked = None THEN None ELSE [tracked EXCEPT !.state = "exited"]
      /\ UNCHANGED Rest /\ handler[h].at = "mark"
  BY DEF MarkExited, Rest
<1>2. Turn(h, "idle", None) BY ReplyTurns DEF MarkExited, Lifecycle
<1>3. /\ tracked' = None <=> tracked = None
      /\ tracked' \in Managed \cup {None}
      /\ tracked # None => tracked'.pid = tracked.pid /\ tracked'.state = "exited"
  <2>1. CASE tracked = None BY <1>1, <2>1
  <2>2. CASE tracked # None
    <3>1. tracked \in Managed BY <2>2 DEF Lifecycle, TypeOK
    <3>2. tracked' \in Managed /\ tracked'.pid = tracked.pid /\ tracked'.state = "exited"
      BY <1>1, <2>2, <3>1 DEF Managed
    <3> QED BY <2>2, <3>2, NoneIsNothing
  <2> QED BY <2>1, <2>2
<1>4. "overlap" \notin hardships => /\ h = First
                                    /\ \A g \in Handlers \ {h} : handler[g].at = "idle"
  BY <1>1, Alone DEF Lifecycle, OneAtATime
<1>5. TypeOK' /\ hardships' \in SUBSET Hardships
  BY <1>1, <1>2, <1>3 DEF Lifecycle, TypeOK, Turn, Rest
<1>6. OneAtATime' /\ SpawnedIsEntered'
  BY <1>1, <1>2, <1>4 DEF Lifecycle, OneAtATime, SpawnedIsEntered, Turn, Rest
<1>7. TrackedIsTruthful'
  BY <1>1, <1>3 DEF Lifecycle, TrackedIsTruthful, KillsAreAimed, Sure, Rest
<1>8. KillsAreAimed'
  BY <1>1, <1>2, <1>3 DEF Lifecycle, KillsAreAimed, Sure, Turn, Rest
<1>9. ProcessesAreKnown'
  <2> SUFFICES ASSUME Calm PROVE ProcessesAreKnown' BY <1>1 DEF ProcessesAreKnown, Calm, Rest
  <2>1. \A g \in Handlers : handler[g].at # "insert" /\ handler'[g].at \notin {"insert", "report"}
    BY <1>1, <1>2, <1>4 DEF Calm, Turn
  <2>2. Alive' = Alive BY <1>1 DEF Alive, Rest
  <2> QED BY <1>3, <2>1, <2>2 DEF Lifecycle, ProcessesAreKnown
<1> QED BY <1>5, <1>6, <1>7, <1>8, <1>9 DEF Lifecycle

---------------------------------------------------------------------------
\* The Provider's process and the clock.

LEMMA ExitKeeps == ASSUME Lifecycle, NEW p \in Pids, Exit(p) PROVE Lifecycle'
<1>1. os' = [os EXCEPT ![p] = "dead"] /\ UNCHANGED <<tracked, report, mail, fenced, handler, hardships>>
  BY DEF Exit
<1>2. /\ os' \in [Pids -> {"unborn", "alive", "dead"}] /\ Alive' \subseteq Alive
      /\ \A q \in Pids : os[q] = "dead" => os'[q] = "dead"
  BY <1>1 DEF Lifecycle, TypeOK, Alive
<1>3. tracked # None => tracked.pid \in Pids
  BY DEF Lifecycle, TypeOK, Managed
<1>4. TypeOK' /\ hardships' \in SUBSET Hardships
  BY <1>1, <1>2 DEF Lifecycle, TypeOK
<1>5. OneAtATime' /\ SpawnedIsEntered'
  BY <1>1 DEF Lifecycle, OneAtATime, SpawnedIsEntered
<1>6. TrackedIsTruthful' /\ KillsAreAimed'
  BY <1>1, <1>2, <1>3 DEF Lifecycle, TrackedIsTruthful, KillsAreAimed, Sure
<1>7. ProcessesAreKnown'
  BY <1>1, <1>2 DEF Lifecycle, ProcessesAreKnown, Calm
<1> QED BY <1>4, <1>5, <1>6, <1>7 DEF Lifecycle

\* What the Manager is told changes no process and no request.
LEMMA ReportsKeep ==
  ASSUME Lifecycle, UNCHANGED <<os, tracked, handler, hardships>>,
         report' \in Report \cup {None}, mail' \subseteq Pids, fenced' \in BOOLEAN
  PROVE  Lifecycle'
<1>1. TypeOK' /\ hardships' \in SUBSET Hardships BY DEF Lifecycle, TypeOK
<1>2. OneAtATime' /\ SpawnedIsEntered' /\ TrackedIsTruthful' /\ KillsAreAimed'
  BY DEF Lifecycle, OneAtATime, SpawnedIsEntered, TrackedIsTruthful, KillsAreAimed, Sure
<1>3. Alive' = Alive BY DEF Alive
<1>4. ProcessesAreKnown' BY <1>3 DEF Lifecycle, ProcessesAreKnown, Calm
<1> QED BY <1>1, <1>2, <1>4 DEF Lifecycle

LEMMA HandleReportKeeps ==
  ASSUME Lifecycle, NEW p \in Pids, NEW ready \in BOOLEAN, HandleReport(p, ready)
  PROVE  Lifecycle'
<1>1. [instance |-> p, ready |-> ready, aged |-> FALSE, expired |-> FALSE] \in Report
  BY DEF Report
<1>2. report' \in Report \cup {None}
  BY <1>1 DEF HandleReport, Lifecycle, TypeOK
<1> QED BY <1>2, ReportsKeep DEF HandleReport, Lifecycle, TypeOK

LEMMA AgingKeeps == ASSUME Lifecycle, Age \/ ExpireReport PROVE Lifecycle'
<1>1. report \in Report BY DEF Lifecycle, TypeOK, Age, ExpireReport
<1>2. report' \in Report BY <1>1 DEF Age, ExpireReport, Report
<1> QED BY <1>2, ReportsKeep DEF Age, ExpireReport, Lifecycle, TypeOK

LEMMA ManagerRestartKeeps == ASSUME Lifecycle, ManagerRestart PROVE Lifecycle'
<1>1. /\ tracked' = None /\ report' = None /\ mail' = {} /\ fenced' = FALSE
      /\ handler' = [h \in Handlers |-> Idle] /\ UNCHANGED <<os, hardships>>
      /\ "restart" \in hardships
  BY DEF ManagerRestart
<1>2. Idle \in Handler /\ Idle.at = "idle" BY DEF Idle, Handler, Operations
<1>3. \A h \in Handlers : handler'[h] = Idle BY <1>1
<1>4. TypeOK' /\ hardships' \in SUBSET Hardships
  BY <1>1, <1>2 DEF Lifecycle, TypeOK
<1>5. OneAtATime' /\ SpawnedIsEntered' /\ TrackedIsTruthful' /\ KillsAreAimed'
  BY <1>1, <1>2, <1>3 DEF OneAtATime, SpawnedIsEntered, TrackedIsTruthful, KillsAreAimed
<1>6. ProcessesAreKnown' BY <1>1 DEF ProcessesAreKnown, Calm
<1> QED BY <1>4, <1>5, <1>6 DEF Lifecycle

---------------------------------------------------------------------------
LEMMA ServeKeeps == ASSUME Lifecycle, NEW h \in Handlers, Serve(h) PROVE Lifecycle'
BY EnsureKeeps, CheckTrackedKeeps, AlreadyRegisteredKeeps, SpawnKeeps, InsertKeeps, HotFailedKeeps,
   AnswersKeep, PollKeeps, TakePidKeeps, KillKeeps, MarkExitedKeeps DEF Serve

\* The processes, the table and the requests have the form on which the lifecycle
\* rests, whatever requests, reports, exits and restarts come (main.rs:4264-4600).
THEOREM LifecycleHolds == Spec => []Lifecycle
<1>1. Init => Lifecycle
  <2> SUFFICES ASSUME Init PROVE Lifecycle OBVIOUS
  <2>1. Idle \in Handler /\ Idle.at = "idle" BY DEF Idle, Handler, Operations
  <2>2. \A h \in Handlers : handler[h] = Idle BY DEF Init
  <2>3. TypeOK /\ hardships \in SUBSET Hardships
    BY <2>1, DeploymentsAreHardships DEF Init, TypeOK
  <2>4. Alive = {} BY DEF Init, Alive
  <2>5. OneAtATime /\ SpawnedIsEntered /\ TrackedIsTruthful /\ KillsAreAimed /\ ProcessesAreKnown
    BY <2>1, <2>2, <2>4 DEF Init, OneAtATime, SpawnedIsEntered, TrackedIsTruthful, KillsAreAimed,
                            ProcessesAreKnown
  <2> QED BY <2>3, <2>5 DEF Lifecycle
<1>2. Lifecycle /\ [Next]_vars => Lifecycle'
  <2> SUFFICES ASSUME Lifecycle, [Next]_vars PROVE Lifecycle' OBVIOUS
  <2>1. CASE \E h \in Handlers : Serve(h) \/ DeadlinePasses(h) \/ \E op \in Operations : Admit(h, op)
    BY <2>1, ServeKeeps, DeadlinePassesKeeps, AdmitKeeps
  <2>2. CASE \E p \in Pids : Exit(p) \/ \E b \in BOOLEAN : HandleReport(p, b)
    BY <2>2, ExitKeeps, HandleReportKeeps
  <2>3. CASE (\E p \in Pids : SendReport(p)) \/ RaiseFence
    BY <2>3, ReportsKeep DEF SendReport, RaiseFence, Lifecycle, TypeOK
  <2>4. CASE Age \/ ExpireReport \/ ManagerRestart
    BY <2>4, AgingKeeps, ManagerRestartKeeps
  <2>5. CASE UNCHANGED vars
    BY <2>5, ReportsKeep DEF vars, Lifecycle, TypeOK
  <2> QED BY <2>1, <2>2, <2>3, <2>4, <2>5 DEF Next
<1> QED BY <1>1, <1>2, PTL DEF Spec

\* Every variable has its type.
THEOREM LifecycleTypeCorrect == Spec => []TypeOK
<1>1. Lifecycle => TypeOK BY DEF Lifecycle
<1> QED BY <1>1, LifecycleHolds, PTL

\* Requests served one at a time, with a kill that kills and a try_wait that
\* answers, never have two processes of the Provider alive at once, however many
\* it may start (start_provider_inner, stop_provider_inner).
THEOREM OneProcessAtMost == Spec => []SingleInstance
<1>1. Lifecycle => SingleInstance
  <2> SUFFICES ASSUME Lifecycle, Calm PROVE Cardinality(Alive) <= 1 BY DEF SingleInstance, Calm
  <2>1. PICK q : Alive \subseteq {q}
    <3>1. CASE \E h \in Handlers : handler[h].at = "insert"
      BY <3>1 DEF Lifecycle, ProcessesAreKnown
    <3>2. CASE ~\E h \in Handlers : handler[h].at = "insert"
      BY <3>2 DEF Lifecycle, ProcessesAreKnown
    <3> QED BY <3>1, <3>2
  <2>2. IsFiniteSet({q}) /\ Cardinality({q}) = 1 BY FS_Singleton
  <2> QED BY <2>1, <2>2, FS_Subset
<1> QED BY <1>1, LifecycleHolds, PTL

\* Unless requests overlap or a kill is ignored, what the Manager calls exited has
\* exited, across its restarts and failing calls of try_wait (refresh_process_state,
\* stop_provider_inner).
THEOREM ExitedHasExited == Spec => []TrackedIsTruthful
<1>1. Lifecycle => TrackedIsTruthful BY DEF Lifecycle
<1> QED BY <1>1, LifecycleHolds, PTL

---------------------------------------------------------------------------
(* The order in which dependencies are brought up.                          *)

VisitTypeOK ==
  /\ configs \in [Configured -> Order!Lists]
  /\ target \in Order!Ids
  /\ path \in Seq(Configured) /\ order \in Seq(Configured)
  /\ left \in Seq(Seq(Order!Ids)) /\ Len(left) = Len(path) + 1
  /\ error \in BOOLEAN

\* What the k-th of the calls, the request itself being the first, has to visit.
Wanted(k) == IF k = 1 THEN {target} ELSE Order!Dependencies(path[k - 1])

\* What a call has to visit is still left, visited, or being visited by the next.
CallsNest ==
  /\ \A k \in 1 .. Len(left) : Order!Range(left[k]) \subseteq Wanted(k)
  /\ \A k \in 1 .. Len(left) : \A d \in Wanted(k) :
       d \in Order!Range(left[k]) \cup Order!Range(order) \/ (k <= Len(path) /\ d = path[k])
  /\ \A k \in 1 .. Len(path) : path[k] \in Wanted(k)

\* Every call depends on those it is nested in.
CallsReach ==
  \A j, k \in 1 .. Len(path) : j <= k => path[k] \in Order!Reachable(path[j])

\* No id is visited twice, or again while it is being visited.
VisitedOnce ==
  /\ \A i, j \in 1 .. Len(order) : order[i] = order[j] => i = j
  /\ \A i, j \in 1 .. Len(path) : path[i] = path[j] => i = j
  /\ \A i \in 1 .. Len(order), j \in 1 .. Len(path) : order[i] # path[j]

\* The ids visited come after what they depend on, and the target needs them.
DependenciesFirst ==
  \A i \in 1 .. Len(order) :
    /\ order[i] \in Order!Reachable(target)
    /\ \A d \in Order!Dependencies(order[i]) : \E j \in 1 .. i - 1 : order[j] = d

\* The target is the first id to be entered, and the last to be left.
TargetIsLast ==
  \/ path = <<>> /\ left[1] = <<target>> /\ order = <<>>
  \/ path # <<>> /\ left[1] = <<>>
  \/ path = <<>> /\ left[1] = <<>> /\ order # <<>> /\ order[Len(order)] = target

\* The inductive invariant of the visit.
Visit ==
  /\ VisitTypeOK /\ CallsNest /\ CallsReach /\ VisitedOnce /\ DependenciesFirst /\ TargetIsLast
  /\ error => ~Order!Resolvable

\* Configurations name ids only.
LEMMA DependenciesAreIds ==
  ASSUME VisitTypeOK, NEW id \in Configured
  PROVE  /\ configs[id] \in Seq(Order!Ids)
         /\ Order!Dependencies(id) = Order!Range(configs[id])
         /\ Order!Dependencies(id) \subseteq Order!Ids
<1>1. configs[id] \in Order!Lists
  BY DEF VisitTypeOK
<1>2. PICK n \in 0 .. MaxDependencies : configs[id] \in [1 .. n -> Order!Ids]
  BY <1>1 DEF Order!Lists
<1>3. n \in Nat
  BY QueryBounds
<1>4. configs[id] \in Seq(Order!Ids)
  BY <1>2, <1>3
<1>5. Order!Range(configs[id]) \subseteq Order!Ids
  BY <1>2 DEF Order!Range
<1> QED BY <1>4, <1>5 DEF Order!Dependencies

\* An id reaches itself.
LEMMA ReachesItself == \A id \in Order!Ids : id \in Order!Reachable(id)
BY DEF Order!Reachable

\* What is reached reaches what it depends on.
LEMMA ReachesOn ==
  ASSUME NEW id, NEW n \in Order!Reachable(id), NEW d \in Order!Dependencies(n), d \in Order!Ids
  PROVE  d \in Order!Reachable(id)
BY DEF Order!Reachable

\* What is reached lies in every closed set.
LEMMA ReachIsLeast ==
  ASSUME NEW S \in SUBSET Order!Ids, NEW id \in S,
         \A m \in S : Order!Dependencies(m) \subseteq S
  PROVE  Order!Reachable(id) \subseteq S
BY DEF Order!Reachable

LEMMA ReachedAreIds == \A id : Order!Reachable(id) \subseteq Order!Ids
BY DEF Order!Reachable

---------------------------------------------------------------------------
LEMMA VisitStarts == Order!Init => Visit
<1> SUFFICES ASSUME Order!Init PROVE Visit
  OBVIOUS
<1> USE DEF Order!Init
<1>1. VisitTypeOK
  <2>1. <<target>> \in Seq(Order!Ids)
    OBVIOUS
  <2>2. << <<target>> >> \in Seq(Seq(Order!Ids)) /\ Len(<< <<target>> >>) = 1
    BY <2>1
  <2>3. <<>> \in Seq(Configured) /\ Len(<<>>) = 0
    OBVIOUS
  <2>4. /\ configs \in [Configured -> Order!Lists] /\ target \in Order!Ids
        /\ path = <<>> /\ left = << <<target>> >> /\ order = <<>> /\ error = FALSE
    OBVIOUS
  <2>5. left \in Seq(Seq(Order!Ids)) /\ Len(left) = Len(path) + 1
    BY <2>2, <2>3, <2>4
  <2> QED BY <2>3, <2>4, <2>5, Zenon DEF VisitTypeOK
<1>2. Len(left) = 1 /\ left[1] = <<target>> /\ Order!Range(left[1]) = {target}
  BY DEF Order!Range
<1>3. CallsNest
  <2>1. Len(path) = 0 /\ \A k \in 1 .. Len(left) : k = 1
    BY <1>2
  <2>2. Wanted(1) = {target}
    BY DEF Wanted
  <2> HIDE DEF Order!Init
  <2> QED BY <1>2, <2>1, <2>2 DEF CallsNest
<1>4. CallsReach /\ VisitedOnce /\ DependenciesFirst
  BY DEF CallsReach, VisitedOnce, DependenciesFirst
<1>5. TargetIsLast
  BY <1>2 DEF TargetIsLast
<1> QED BY <1>1, <1>3, <1>4, <1>5 DEF Visit

\* The list a step looks at, and what it leaves of it.
LEMMA PendingList ==
  ASSUME VisitTypeOK, Order!Pending
  PROVE  /\ Order!Id \in Order!Ids /\ Order!Id \in Order!Range(left[Len(left)])
         /\ Order!Rest \in Seq(Seq(Order!Ids)) /\ Len(Order!Rest) = Len(left)
         /\ \A k \in 1 .. Len(left) - 1 : Order!Rest[k] = left[k]
         /\ Order!Range(Order!Rest[Len(left)]) \subseteq Order!Range(left[Len(left)])
         /\ Order!Range(left[Len(left)]) \subseteq
              Order!Range(Order!Rest[Len(left)]) \cup {Order!Id}
<1> DEFINE n == Len(left)
           s == left[n]
<1>1. n \in Nat \ {0} /\ s \in Seq(Order!Ids) /\ s # <<>> /\ Order!Id = s[1]
  BY DEF VisitTypeOK, Order!Pending, Order!Id, Order!Last
<1>2. Order!Rest = [left EXCEPT ![n] = Tail(s)]
  BY DEF Order!Rest
<1>8. s = left[n] /\ n = Len(left)
  OBVIOUS
<1> HIDE DEF n, s
<1>3. Tail(s) \in Seq(Order!Ids) /\ Len(Tail(s)) = Len(s) - 1 /\ Len(s) \in Nat \ {0}
      /\ \A i \in 1 .. Len(s) - 1 : Tail(s)[i] = s[i + 1]
  BY <1>1
<1>4. Order!Rest \in Seq(Seq(Order!Ids)) /\ Len(Order!Rest) = n /\ Order!Rest[n] = Tail(s)
      /\ \A k \in 1 .. n - 1 : Order!Rest[k] = left[k]
  BY <1>1, <1>2, <1>3, <1>8 DEF VisitTypeOK
<1>5. Order!Range(Tail(s)) = {s[i] : i \in 2 .. Len(s)}
  <2>1. DOMAIN Tail(s) = 1 .. Len(s) - 1
    BY <1>3
  <2>2. \A i \in 2 .. Len(s) : i - 1 \in 1 .. Len(s) - 1 /\ s[i] = Tail(s)[i - 1]
    BY <1>3
  <2>3. \A i \in 1 .. Len(s) - 1 : i + 1 \in 2 .. Len(s) /\ Tail(s)[i] = s[i + 1]
    BY <1>3
  <2> DEFINE R == Order!Range(Tail(s))
             T == {s[i] : i \in 2 .. Len(s)}
  <2>4. R \subseteq T
    BY <2>1, <2>3 DEF Order!Range
  <2>5. T \subseteq R
    BY <2>1, <2>2 DEF Order!Range
  <2> QED BY <2>4, <2>5, Zenon
<1>6. Order!Range(s) = {s[i] : i \in 1 .. Len(s)}
  BY <1>1 DEF Order!Range
<1>7. 1 \in 1 .. Len(s) /\ \A i \in 1 .. Len(s) : i = 1 \/ i \in 2 .. Len(s)
  BY <1>3
<1> QED BY <1>1, <1>4, <1>5, <1>6, <1>7 DEF n, s

\* A step changes neither the configuration nor what follows from it.
LEMMA ConfigurationStands ==
  ASSUME UNCHANGED <<configs, target>>
  PROVE  /\ \A id : /\ Order!Dependencies(id)' = Order!Dependencies(id)
                    /\ Order!Reachable(id)' = Order!Reachable(id)
         /\ Order!Resolvable' = Order!Resolvable
<1>1. \A id : Order!Dependencies(id)' = Order!Dependencies(id)
  BY DEF Order!Dependencies
<1>2. \A id : Order!Reachable(id)' = Order!Reachable(id)
  BY <1>1 DEF Order!Reachable
<1> QED BY <1>1, <1>2 DEF Order!Resolvable

\* Each id in the calls is one that the target needs.
LEMMA CallsAreNeeded ==
  ASSUME Visit
  PROVE  /\ target \in Order!Ids
         /\ \A k \in 1 .. Len(path) : path[k] \in Order!Reachable(target)
         /\ path # <<>> => path[1] = target
<1>1. CASE path = <<>>
  BY <1>1 DEF Visit, VisitTypeOK
<1>2. CASE path # <<>>
  <2>1. 1 \in 1 .. Len(path) /\ target \in Order!Ids
    BY <1>2 DEF Visit, VisitTypeOK
  <2>2. path[1] = target
    BY <2>1 DEF Visit, CallsNest, Wanted
  <2>3. \A k \in 1 .. Len(path) : 1 <= k
    BY DEF Visit, VisitTypeOK
  <2> QED BY <2>1, <2>2, <2>3 DEF Visit, CallsReach
<1> QED BY <1>1, <1>2

\* What a list of the calls names is an id of the configuration, and needed.
LEMMA NextIsNeeded ==
  ASSUME Visit, Order!Pending
  PROVE  /\ Order!Id \in Wanted(Len(left))
         /\ Order!Id \in Order!Reachable(target)
         /\ \A j \in 1 .. Len(path) : Order!Id \in Order!Reachable(path[j])
<1>1. Len(left) \in 1 .. Len(left) /\ Len(left) = Len(path) + 1 /\ Len(path) \in Nat
  BY DEF Visit, VisitTypeOK
<1>2. Order!Id \in Wanted(Len(left)) /\ Order!Id \in Order!Ids
  BY <1>1, PendingList DEF Visit, CallsNest
<1>3. CASE path = <<>>
  <2>1. Order!Id = target
    BY <1>1, <1>2, <1>3 DEF Wanted
  <2> QED BY <1>2, <1>3, <2>1, ReachesItself
<1>4. CASE path # <<>>
  <2>1. Len(path) \in 1 .. Len(path) /\ Len(left) # 1 /\ Len(left) - 1 = Len(path)
    BY <1>1, <1>4 DEF Visit, VisitTypeOK
  <2>2. Order!Id \in Order!Dependencies(path[Len(path)])
    BY <1>2, <2>1 DEF Wanted
  <2>3. path[Len(path)] \in Order!Reachable(target)
    BY <2>1, CallsAreNeeded
  <2>4. \A j \in 1 .. Len(path) : path[Len(path)] \in Order!Reachable(path[j])
    BY <1>1, <2>1 DEF Visit, CallsReach
  <2> QED BY <1>2, <2>2, <2>3, <2>4, ReachesOn
<1> QED BY <1>3, <1>4

LEMMA SkipKeeps ==
  ASSUME Visit, Order!Skip, UNCHANGED <<configs, target>>
  PROVE  Visit'
<1> DEFINE n == Len(left)
<1>1. left' = Order!Rest /\ UNCHANGED <<path, order, error>> /\ Order!Pending
      /\ Order!Id \in Order!Range(order)
  BY DEF Order!Skip, Order!Known, Order!Visited
<1>2. n \in Nat \ {0} /\ Len(left) = Len(path) + 1 /\ Len(path) \in Nat /\ left[n] # <<>>
  BY <1>1 DEF Visit, VisitTypeOK, Order!Pending, Order!Last
<1>3. Order!Rest \in Seq(Seq(Order!Ids)) /\ Len(left') = n /\ \A k \in 1 .. n - 1 : left'[k] = left[k]
  BY <1>1, PendingList DEF Visit
<1>4. VisitTypeOK'
  BY <1>1, <1>3 DEF Visit, VisitTypeOK
<1>5. \A k : Wanted(k)' = Wanted(k)
  BY <1>1, ConfigurationStands DEF Wanted
<1>6. CallsNest'
  <2>1. Order!Range(left'[n]) \subseteq Order!Range(left[n])
        /\ Order!Range(left[n]) \subseteq Order!Range(left'[n]) \cup {Order!Id}
    BY <1>1, PendingList DEF Visit
  <2>2. \A k \in 1 .. n : k = n \/ left'[k] = left[k]
    BY <1>2, <1>3
  <2> HIDE DEF n
  <2>3. \A k \in 1 .. n : Order!Range(left'[k]) \subseteq Wanted(k)
    BY <2>1, <2>2 DEF Visit, CallsNest, n
  <2>4. \A k \in 1 .. n : \A d \in Wanted(k) :
          d \in Order!Range(left'[k]) \cup Order!Range(order) \/ (k <= Len(path) /\ d = path[k])
    BY <1>1, <2>1, <2>2 DEF Visit, CallsNest, n
  <2>5. \A k \in 1 .. Len(path) : path[k] \in Wanted(k)
    BY DEF Visit, CallsNest
  <2>6. Len(left') = n /\ path' = path /\ order' = order
    BY <1>1, <1>3
  <2> QED BY <1>5, <2>3, <2>4, <2>5, <2>6 DEF CallsNest, Order!Range
<1>7. CallsReach' /\ VisitedOnce' /\ DependenciesFirst'
  BY <1>1, ConfigurationStands DEF Visit, CallsReach, VisitedOnce, DependenciesFirst
<1>8. TargetIsLast'
  <2>1. CASE n = 1
    <3>1. path = <<>> /\ left[1] = <<target>> /\ order = <<>>
      BY <1>2, <2>1 DEF Visit, VisitTypeOK, TargetIsLast
    <3> QED BY <1>1, <3>1 DEF Order!Range
  <2>2. CASE n # 1
    <3>1. left'[1] = left[1]
      BY <1>2, <1>3, <2>2
    <3> QED BY <1>1, <3>1 DEF Visit, TargetIsLast
  <2> QED BY <2>1, <2>2
<1> QED BY <1>1, <1>4, <1>6, <1>7, <1>8, ConfigurationStands DEF Visit

LEMMA RejectKeeps ==
  ASSUME Visit, Order!Reject, UNCHANGED <<configs, target>>
  PROVE  Visit'
<1>1. error' = TRUE /\ UNCHANGED <<path, left, order>> /\ Order!Pending
      /\ (Order!Id \notin Configured \/ Order!Id \in Order!Range(path))
  BY DEF Order!Reject, Order!Visiting
<1>2. VisitTypeOK'
  BY <1>1 DEF Visit, VisitTypeOK
<1>3. CallsNest'
  <2>1. \A k : Wanted(k)' = Wanted(k)
    BY <1>1, ConfigurationStands DEF Wanted
  <2> QED BY <1>1, <2>1 DEF Visit, CallsNest, Order!Range
<1>4. CallsReach' /\ VisitedOnce' /\ DependenciesFirst'
  BY <1>1, ConfigurationStands DEF Visit, CallsReach, VisitedOnce, DependenciesFirst
<1>6. TargetIsLast'
  BY <1>1 DEF Visit, TargetIsLast
<1>5. ~Order!Resolvable
  <2>1. CASE Order!Id \notin Configured
    BY <1>1, <2>1, NextIsNeeded DEF Order!Resolvable
  <2>2. CASE Order!Id \in Order!Range(path)
    <3>1. PICK j \in 1 .. Len(path) : path[j] = Order!Id
      BY <2>2 DEF Order!Range, Visit, VisitTypeOK
    <3>2. Len(path) \in 1 .. Len(path) /\ Len(left) # 1 /\ Len(left) - 1 = Len(path)
          /\ j <= Len(path)
      BY <3>1 DEF Visit, VisitTypeOK
    <3>3. Order!Id \in Order!Dependencies(path[Len(path)])
      BY <1>1, <3>2, NextIsNeeded DEF Wanted
    <3>4. path[Len(path)] \in Order!Reachable(Order!Id)
      BY <3>1, <3>2 DEF Visit, CallsReach
    <3> QED BY <3>2, <3>3, <3>4, CallsAreNeeded DEF Order!Resolvable
  <2> QED BY <1>1, <2>1, <2>2
<1> QED BY <1>2, <1>3, <1>4, <1>5, <1>6, ConfigurationStands DEF Visit

LEMMA EnterKeeps ==
  ASSUME Visit, Order!Enter, UNCHANGED <<configs, target>>
  PROVE  Visit'
<1>0. PICK m \in Nat, n \in Nat : m = Len(path) /\ n = Len(left)
  BY DEF Visit, VisitTypeOK
<1>1. /\ path' = Append(path, Order!Id) /\ left' = Append(Order!Rest, configs[Order!Id])
      /\ UNCHANGED <<order, error>> /\ Order!Pending
      /\ Order!Id \notin Order!Range(order) /\ Order!Id \notin Order!Range(path)
      /\ Order!Id \in Configured
  BY DEF Order!Enter, Order!Known, Order!Visited, Order!Visiting
<1>2. m \in Nat /\ n = m + 1 /\ left[n] # <<>>
  BY <1>0, <1>1 DEF Visit, VisitTypeOK, Order!Pending, Order!Last
<1>3. Order!Rest \in Seq(Seq(Order!Ids)) /\ Len(Order!Rest) = n
      /\ \A k \in 1 .. n - 1 : Order!Rest[k] = left[k]
  BY <1>0, <1>1, PendingList DEF Visit
<1>4. configs[Order!Id] \in Seq(Order!Ids)
      /\ Order!Dependencies(Order!Id) = Order!Range(configs[Order!Id])
  BY <1>0, <1>1, DependenciesAreIds DEF Visit
<1>5. path \in Seq(Configured) /\ order \in Seq(Configured)
  BY DEF Visit, VisitTypeOK
<1>6. /\ path' \in Seq(Configured) /\ Len(path') = n
      /\ \A k \in 1 .. m : path'[k] = path[k]
      /\ path'[n] = Order!Id
  BY <1>0, <1>1, <1>2, <1>5
<1>7. /\ left' \in Seq(Seq(Order!Ids)) /\ Len(left') = n + 1
      /\ \A k \in 1 .. m : left'[k] = left[k]
      /\ left'[n] = Order!Rest[n] /\ left'[n + 1] = configs[Order!Id]
  BY <1>0, <1>1, <1>2, <1>3, <1>4
<1>8. /\ Order!Range(left'[n]) \subseteq Order!Range(left[n])
      /\ Order!Range(left[n]) \subseteq Order!Range(left'[n]) \cup {Order!Id}
  BY <1>0, <1>1, <1>7, PendingList DEF Visit
<1>9. VisitTypeOK'
  BY <1>0, <1>1, <1>6, <1>7 DEF Visit, VisitTypeOK
<1>10. CallsNest'
  <2>1. \A k \in 1 .. n : Wanted(k)' = Wanted(k)
    <3>1. \A k \in 1 .. n : k # 1 => k - 1 \in 1 .. m
      BY <1>0, <1>2
    <3> QED BY <1>0, <1>6, <3>1, ConfigurationStands DEF Wanted
  <2>2. Wanted(n + 1)' = Order!Range(left'[n + 1])
    BY <1>0, <1>2, <1>4, <1>6, <1>7, ConfigurationStands DEF Wanted
  <2>3. \A k \in 1 .. n + 1 : k \in 1 .. m \/ k = n \/ k = n + 1
    BY <1>0, <1>2
  <2>4. \A k \in 1 .. m : k \in 1 .. n /\ k <= m /\ k <= n
    BY <1>0, <1>2
  <2>5. n \in 1 .. n /\ ~(n <= m) /\ n <= n
    BY <1>0, <1>2
  <2>6. ASSUME NEW k \in 1 .. m
        PROVE  /\ Order!Range(left'[k]) \subseteq Wanted(k)'
               /\ \A d \in Wanted(k)' : \/ d \in Order!Range(left'[k]) \cup Order!Range(order)
                                        \/ d = path'[k]
               /\ path'[k] \in Wanted(k)'
    BY <1>0, <1>6, <1>7, <2>1, <2>4 DEF Visit, CallsNest
  <2>7. /\ Order!Range(left'[n]) \subseteq Wanted(n)'
        /\ \A d \in Wanted(n)' : \/ d \in Order!Range(left'[n]) \cup Order!Range(order)
                                 \/ d = path'[n]
        /\ path'[n] \in Wanted(n)'
    <3>1. /\ Order!Range(left[n]) \subseteq Wanted(n)
          /\ \A d \in Wanted(n) : d \in Order!Range(left[n]) \cup Order!Range(order)
      BY <1>0, <2>5 DEF Visit, CallsNest
    <3>2. Order!Id \in Wanted(n)
      BY <1>0, <1>1, NextIsNeeded
    <3> QED BY <1>0, <1>6, <1>8, <2>1, <2>5, <3>1, <3>2
  <2>8. \A k \in 1 .. n + 1 : Order!Range(left'[k]) \subseteq Wanted(k)'
    BY <1>0, <2>2, <2>3, <2>6, <2>7
  <2>9. \A k \in 1 .. n + 1 : \A d \in Wanted(k)' :
          d \in Order!Range(left'[k]) \cup Order!Range(order) \/ (k <= n /\ d = path'[k])
    BY <1>0, <2>2, <2>3, <2>4, <2>5, <2>6, <2>7
  <2>10. \A k \in 1 .. n : path'[k] \in Wanted(k)'
    <3>1. \A k \in 1 .. n : k \in 1 .. m \/ k = n
      BY <1>0, <1>2
    <3> QED BY <1>0, <2>6, <2>7, <3>1
  <2>11. Len(left') = n + 1 /\ Len(path') = n /\ order' = order
    BY <1>0, <1>1, <1>6, <1>7
  <2> QED BY <1>0, <2>8, <2>9, <2>10, <2>11 DEF CallsNest, Order!Range
<1>11. CallsReach'
  <2> SUFFICES ASSUME NEW j \in 1 .. n, NEW k \in 1 .. n, j <= k
               PROVE  path'[k] \in Order!Reachable(path'[j])
    BY <1>0, <1>6, ConfigurationStands DEF CallsReach
  <2>1. CASE k # n
    <3>1. k \in 1 .. m /\ j \in 1 .. m
      BY <1>0, <1>2, <2>1
    <3> QED BY <1>0, <1>6, <3>1 DEF Visit, CallsReach
  <2>2. CASE k = n /\ j # n
    <3>1. j \in 1 .. m
      BY <1>0, <1>2, <2>2
    <3> QED BY <1>0, <1>1, <1>6, <2>2, <3>1, NextIsNeeded
  <2>3. CASE k = n /\ j = n
    BY <1>0, <1>1, <1>6, <2>3, PendingList, ReachesItself DEF Visit
  <2> QED BY <1>0, <2>1, <2>2, <2>3
<1>12. VisitedOnce'
  <2>1. \A k \in 1 .. n : k \in 1 .. m \/ k = n
    BY <1>0, <1>2
  <2>2. \A k \in 1 .. m : path[k] # Order!Id
    BY <1>0, <1>1, <1>5 DEF Order!Range
  <2>3. \A i \in 1 .. Len(order) : order[i] # Order!Id
    BY <1>0, <1>1, <1>5 DEF Order!Range
  <2>4. \A i, j \in 1 .. n : path'[i] = path'[j] => i = j
    BY <1>0, <1>6, <2>1, <2>2 DEF Visit, VisitedOnce
  <2>5. \A i \in 1 .. Len(order), j \in 1 .. n : order[i] # path'[j]
    BY <1>0, <1>6, <2>1, <2>3 DEF Visit, VisitedOnce
  <2> QED BY <1>0, <1>1, <1>6, <2>4, <2>5 DEF Visit, VisitedOnce
<1>13. DependenciesFirst'
  <2>1. UNCHANGED order
    BY <1>1
  <2> QED BY <2>1, ConfigurationStands DEF Visit, DependenciesFirst
<1>14. TargetIsLast'
  <2>1. path' # <<>>
    BY <1>0, <1>1, <1>5
  <2>2. left'[1] = <<>>
    <3>1. CASE m = 0
      <4>1. left[1] = <<target>> /\ n = 1
        BY <1>0, <1>2, <1>5, <3>1 DEF Visit, TargetIsLast
      <4>2. Order!Rest[1] = Tail(left[1])
        BY <1>0, <1>2, <4>1 DEF Order!Rest, Visit, VisitTypeOK
      <4> QED BY <1>0, <1>7, <4>1, <4>2
    <3>2. CASE m # 0
      <4>1. 1 \in 1 .. m /\ path # <<>>
        BY <1>0, <1>2, <3>2
      <4> QED BY <1>0, <1>7, <4>1 DEF Visit, TargetIsLast
    <3> QED BY <3>1, <3>2
  <2> QED BY <1>0, <2>1, <2>2 DEF TargetIsLast
<1> QED BY <1>0, <1>1, <1>9, <1>10, <1>11, <1>12, <1>13, <1>14, ConfigurationStands DEF Visit

\* The beginning of a sequence.
LEMMA Beginning ==
  ASSUME NEW S, NEW s \in Seq(S), NEW k \in 0 .. Len(s)
  PROVE  /\ SubSeq(s, 1, k) \in Seq(S) /\ Len(SubSeq(s, 1, k)) = k
         /\ \A i \in 1 .. k : SubSeq(s, 1, k)[i] = s[i]
OBVIOUS

LEMMA LeaveKeeps ==
  ASSUME Visit, Order!Leave, UNCHANGED <<configs, target>>
  PROVE  Visit'
<1>0. PICK m \in Nat, n \in Nat, o \in Nat : m = Len(path) /\ n = Len(left) /\ o = Len(order)
  BY DEF Visit, VisitTypeOK
<1>1. /\ order' = Append(order, path[m]) /\ left[n] = <<>> /\ path # <<>>
      /\ path' = SubSeq(path, 1, m - 1) /\ left' = SubSeq(left, 1, n - 1)
      /\ UNCHANGED error /\ error = FALSE
  BY <1>0 DEF Order!Leave, Order!Last, Order!Front, Visit, VisitTypeOK
<1>2. /\ path \in Seq(Configured) /\ order \in Seq(Configured) /\ left \in Seq(Seq(Order!Ids))
      /\ n = m + 1 /\ m >= 1
  BY <1>0, <1>1 DEF Visit, VisitTypeOK
<1>3. /\ path' \in Seq(Configured) /\ Len(path') = m - 1
      /\ \A k \in 1 .. m - 1 : path'[k] = path[k]
  BY <1>0, <1>1, <1>2
<1>4. /\ left' \in Seq(Seq(Order!Ids)) /\ Len(left') = m
      /\ \A k \in 1 .. m : left'[k] = left[k]
  <2>1. n - 1 = m /\ m \in 0 .. Len(left)
    BY <1>0, <1>2
  <2> QED BY <1>1, <1>2, <2>1, Beginning
<1>5. m \in 1 .. m /\ path[m] \in Configured
  BY <1>0, <1>2
<1>6. /\ order' \in Seq(Configured) /\ Len(order') = o + 1 /\ order'[o + 1] = path[m]
      /\ \A i \in 1 .. o : order'[i] = order[i]
  BY <1>0, <1>1, <1>2, <1>5
<1>7. VisitTypeOK'
  <2>1. Len(left') = Len(path') + 1
    BY <1>2, <1>3, <1>4
  <2>2. UNCHANGED <<configs, target, error>>
    BY <1>1
  <2> QED BY <1>3, <1>4, <1>6, <2>1, <2>2 DEF Visit, VisitTypeOK
<1>8. CallsNest'
  <2>1. \A k \in 1 .. m : k \in 1 .. n /\ (k = m \/ k \in 1 .. m - 1)
    BY <1>2
  <2>2. \A k \in 1 .. m : Wanted(k)' = Wanted(k)
    <3>1. \A k \in 1 .. m : k # 1 => k - 1 \in 1 .. m - 1
      BY <1>2
    <3> QED BY <1>3, <3>1, ConfigurationStands DEF Wanted
  <2>3. Order!Range(order) \subseteq Order!Range(order') /\ path[m] \in Order!Range(order')
    <3>1. DOMAIN order = 1 .. o /\ DOMAIN order' = 1 .. o + 1 /\ o + 1 \in 1 .. o + 1
          /\ \A i \in 1 .. o : i \in 1 .. o + 1
      BY <1>0, <1>2, <1>6
    <3> QED BY <1>6, <3>1 DEF Order!Range
  <2>4. \A k \in 1 .. m : Order!Range(left'[k]) \subseteq Wanted(k)
    BY <1>0, <1>4, <2>1 DEF Visit, CallsNest
  <2>5. ASSUME NEW k \in 1 .. m, NEW d \in Wanted(k)
        PROVE  d \in Order!Range(left'[k]) \cup Order!Range(order') \/ (k <= m - 1 /\ d = path'[k])
    <3>1. d \in Order!Range(left[k]) \cup Order!Range(order) \/ d = path[k]
      BY <1>0, <2>1 DEF Visit, CallsNest
    <3>2. k \in 1 .. m - 1 => k <= m - 1
      OBVIOUS
    <3> QED BY <1>3, <1>4, <2>1, <2>3, <3>1, <3>2
  <2>6. \A k \in 1 .. m - 1 : path'[k] \in Wanted(k)
    <3>1. \A k \in 1 .. m - 1 : k \in 1 .. m
      BY <1>2
    <3> QED BY <1>0, <1>3, <3>1 DEF Visit, CallsNest
  <2>7. Len(left') = m /\ Len(path') = m - 1 /\ \A k \in 1 .. m - 1 : k \in 1 .. m
    BY <1>2, <1>3, <1>4
  <2>8. \A k \in 1 .. m : \A d \in Wanted(k) :
          d \in Order!Range(left'[k]) \cup Order!Range(order') \/ (k <= m - 1 /\ d = path'[k])
    BY <2>5
  <2> QED BY <2>2, <2>4, <2>6, <2>7, <2>8 DEF CallsNest, Order!Range
<1>9. \A k \in 1 .. m - 1 : k \in 1 .. m /\ k # m
  BY <1>2
<1>10. CallsReach'
  BY <1>0, <1>3, <1>9, ConfigurationStands DEF Visit, CallsReach
<1>11. \A i \in 1 .. o + 1 : i \in 1 .. o \/ i = o + 1
  BY <1>0
<1>12. VisitedOnce'
  <2>1. \A i, j \in 1 .. o + 1 : order'[i] = order'[j] => i = j
    BY <1>0, <1>5, <1>6, <1>11 DEF Visit, VisitedOnce
  <2>2. \A i, j \in 1 .. m - 1 : path'[i] = path'[j] => i = j
    BY <1>0, <1>3, <1>9 DEF Visit, VisitedOnce
  <2>3. \A i \in 1 .. o + 1, j \in 1 .. m - 1 : order'[i] # path'[j]
    <3> SUFFICES ASSUME NEW i \in 1 .. o + 1, NEW j \in 1 .. m - 1
                 PROVE  order'[i] # path'[j]
      OBVIOUS
    <3>1. j \in 1 .. m /\ j # m /\ path'[j] = path[j]
      BY <1>3, <1>9
    <3>2. CASE i \in 1 .. o
      BY <1>0, <1>6, <3>1, <3>2 DEF Visit, VisitedOnce
    <3>3. CASE i = o + 1
      BY <1>0, <1>5, <1>6, <3>1, <3>3 DEF Visit, VisitedOnce
    <3> QED BY <1>11, <3>2, <3>3
  <2> QED BY <1>3, <1>6, <2>1, <2>2, <2>3 DEF VisitedOnce
<1>13. DependenciesFirst'
  <2>1. ASSUME NEW i \in 1 .. o
        PROVE  /\ order'[i] \in Order!Reachable(target)
               /\ \A d \in Order!Dependencies(order'[i]) : \E j \in 1 .. i - 1 : order'[j] = d
    <3>1. \A j \in 1 .. i - 1 : j \in 1 .. o
      BY <1>0
    <3>2. /\ order[i] \in Order!Reachable(target)
          /\ \A d \in Order!Dependencies(order[i]) : \E j \in 1 .. i - 1 : order[j] = d
      BY <1>0 DEF Visit, DependenciesFirst
    <3> QED BY <1>6, <3>1, <3>2
  <2>2. path[m] \in Order!Reachable(target)
    BY <1>0, <1>5, CallsAreNeeded
  <2>3. \A d \in Order!Dependencies(path[m]) : \E j \in 1 .. o : order'[j] = d
    <3> SUFFICES ASSUME NEW d \in Order!Dependencies(path[m])
                 PROVE  \E j \in 1 .. o : order'[j] = d
      OBVIOUS
    <3>1. Wanted(n) = Order!Dependencies(path[m]) /\ n \in 1 .. n /\ ~(n <= m)
      BY <1>2 DEF Wanted
    <3>2. d \in Order!Range(left[n]) \cup Order!Range(order)
      BY <1>0, <3>1 DEF Visit, CallsNest
    <3>3. d \in Order!Range(order)
      BY <1>1, <3>2 DEF Order!Range
    <3> QED BY <1>0, <1>2, <1>6, <3>3 DEF Order!Range
  <2>4. (o + 1) - 1 = o
    BY <1>0
  <2>5. ASSUME NEW i \in 1 .. o + 1
        PROVE  /\ order'[i] \in Order!Reachable(target)
               /\ \A d \in Order!Dependencies(order'[i]) : \E j \in 1 .. i - 1 : order'[j] = d
    <3>1. CASE i \in 1 .. o
      BY <2>1, <3>1
    <3>2. CASE i = o + 1
      BY <1>6, <2>2, <2>3, <2>4, <3>2
    <3> QED BY <1>11, <3>1, <3>2
  <2>6. \A id : /\ Order!Dependencies(id)' = Order!Dependencies(id)
                /\ Order!Reachable(target)' = Order!Reachable(target)
    BY ConfigurationStands DEF Order!Reachable
  <2>7. Len(order') = o + 1
    BY <1>6
  <2> QED BY <2>5, <2>6, <2>7 DEF DependenciesFirst
<1>14. TargetIsLast'
  <2>1. left'[1] = <<>>
    <3>1. 1 \in 1 .. m
      BY <1>2
    <3> QED BY <1>1, <1>4, <3>1 DEF Visit, TargetIsLast
  <2>2. CASE m = 1
    <3>1. path' = <<>> /\ order' # <<>>
      BY <1>0, <1>3, <1>6, <2>2
    <3>2. order'[Len(order')] = target
      BY <1>1, <1>6, <2>2, CallsAreNeeded
    <3> QED BY <2>1, <3>1, <3>2 DEF TargetIsLast
  <2>3. CASE m # 1
    <3>1. path' # <<>>
      BY <1>2, <1>3, <2>3
    <3> QED BY <2>1, <3>1 DEF TargetIsLast
  <2> QED BY <2>2, <2>3
<1> QED BY <1>1, <1>7, <1>8, <1>10, <1>12, <1>13, <1>14 DEF Visit

\* A step elsewhere.
LEMMA VisitStands ==
  ASSUME Visit, UNCHANGED <<configs, target, path, left, order, error>>
  PROVE  Visit'
<1>1. \A k : Wanted(k)' = Wanted(k)
  BY ConfigurationStands DEF Wanted
<1>2. VisitTypeOK' /\ TargetIsLast'
  BY DEF Visit, VisitTypeOK, TargetIsLast
<1>3. CallsNest'
  BY <1>1 DEF Visit, CallsNest, Order!Range
<1>4. CallsReach' /\ VisitedOnce'
  BY ConfigurationStands DEF Visit, CallsReach, VisitedOnce
<1>5. DependenciesFirst'
  <2>1. DependenciesFirst /\ UNCHANGED order
    BY DEF Visit
  <2>2. \A id : /\ Order!Dependencies(id)' = Order!Dependencies(id)
                /\ Order!Reachable(target)' = Order!Reachable(target)
    BY ConfigurationStands DEF Order!Reachable
  <2> QED BY <2>1, <2>2 DEF DependenciesFirst
<1> QED BY <1>2, <1>3, <1>4, <1>5, ConfigurationStands DEF Visit

\* What each id of a finished order reaches has been visited up to it.
LEMMA OrderIsClosed ==
  ASSUME Visit, NEW i \in 1 .. Len(order)
  PROVE  Order!Reachable(order[i]) \subseteq {order[j] : j \in 1 .. i}
<1> DEFINE S == {order[j] : j \in 1 .. i}
<1>1. order \in Seq(Configured) /\ i \in 1 .. i /\ \A j \in 1 .. i : j \in 1 .. Len(order)
  BY DEF Visit, VisitTypeOK
<1>2. S \in SUBSET Order!Ids /\ order[i] \in S
  <2>1. \A j \in 1 .. i : order[j] \in Order!Ids
    BY <1>1 DEF Order!Ids
  <2> QED BY <1>1, <2>1
<1>3. ASSUME NEW m \in S
      PROVE  Order!Dependencies(m) \subseteq S
  <2>1. PICK j \in 1 .. i : m = order[j]
    OBVIOUS
  <2>2. \A d \in Order!Dependencies(m) : \E k \in 1 .. j - 1 : order[k] = d
    BY <1>1, <2>1 DEF Visit, DependenciesFirst
  <2>3. \A k \in 1 .. j - 1 : k \in 1 .. i
    BY <1>1, <2>1
  <2> QED BY <2>2, <2>3
<1> HIDE DEF S
<1>4. Order!Reachable(order[i]) \subseteq S
  BY <1>2, <1>3, ReachIsLeast
<1> QED BY <1>4 DEF S

LEMMA VisitAnswers ==
  ASSUME Visit
  PROVE  Order!RejectsExactlyUnresolvable /\ Order!OrderIsTopological
<1>1. order \in Seq(Configured) /\ Len(order) \in Nat /\ DOMAIN order = 1 .. Len(order)
  BY DEF Visit, VisitTypeOK
<1>2. ASSUME Order!Found
      PROVE  order # <<>> /\ order[Len(order)] = target
  <2>1. Len(left) = 1 /\ left[1] = <<>>
    BY <1>2 DEF Order!Found
  <2>2. path = <<>> /\ left[1] # <<target>>
    BY <2>1 DEF Visit, VisitTypeOK
  <2> QED BY <2>2 DEF Visit, TargetIsLast
<1>3. ASSUME Order!Found
      PROVE  Order!Range(order) = Order!Reachable(target)
  <2>1. Len(order) \in 1 .. Len(order)
    BY <1>1, <1>2, <1>3
  <2>2. Order!Reachable(target) \subseteq Order!Range(order)
    <3>1. Order!Reachable(target) \subseteq {order[j] : j \in 1 .. Len(order)}
      BY <1>2, <1>3, <2>1, OrderIsClosed
    <3> QED BY <1>1, <3>1 DEF Order!Range
  <2>3. Order!Range(order) \subseteq Order!Reachable(target)
    BY <1>1 DEF Order!Range, Visit, DependenciesFirst
  <2> QED BY <2>2, <2>3
<1>4. ASSUME Order!Found
      PROVE  Order!Resolvable
  <2>1. Order!Reachable(target) \subseteq Configured
    BY <1>1, <1>3, <1>4 DEF Order!Range
  <2>2. ASSUME NEW n \in Order!Reachable(target), NEW d \in Order!Dependencies(n)
        PROVE  n \notin Order!Reachable(d)
    <3>1. PICK i \in 1 .. Len(order) : order[i] = n
      BY <1>1, <1>3, <1>4 DEF Order!Range
    <3>2. PICK j \in 1 .. i - 1 : order[j] = d
      BY <3>1 DEF Visit, DependenciesFirst
    <3>3. j \in 1 .. Len(order) /\ \A k \in 1 .. j : k \in 1 .. Len(order) /\ k # i
      BY <1>1, <3>1, <3>2
    <3>4. Order!Reachable(d) \subseteq {order[k] : k \in 1 .. j}
      BY <3>2, <3>3, OrderIsClosed
    <3> QED BY <3>1, <3>3, <3>4 DEF Visit, VisitedOnce
  <2> QED BY <2>1, <2>2 DEF Order!Resolvable
<1>5. Order!RejectsExactlyUnresolvable
  BY <1>4 DEF Order!RejectsExactlyUnresolvable, Order!Returned, Order!Found, Visit
<1>6. Order!IsInjective(order)
  BY <1>1 DEF Order!IsInjective, Visit, VisitedOnce
<1>7. \A i \in DOMAIN order :
        Order!Dependencies(order[i]) \subseteq {order[j] : j \in 1 .. i - 1}
  BY <1>1 DEF Visit, DependenciesFirst
<1> QED BY <1>2, <1>3, <1>5, <1>6, <1>7 DEF Order!OrderIsTopological

LEMMA VisitKept ==
  ASSUME Visit, Order!Next
  PROVE  Visit'
BY SkipKeeps, RejectKeeps, EnterKeeps, LeaveKeeps DEF Order!Next, Order!ProviderDependencyOrder

\* For every configuration, whatever its Providers and the length of its lists, the
\* request fails exactly if the target needs an unknown Provider or a cycle, and
\* otherwise brings up all that it needs, each once and after its own dependencies
\* (provider_dependency_order).
THEOREM DependenciesAreResolved == MCSpec => []OrderIsResolved
<1> DEFINE I == part = "order" => Visit
<1>1. MCInit => I
  BY VisitStarts DEF MCInit, OrderInit
<1>2. I /\ [MCNext]_mcVars => I'
  <2> SUFFICES ASSUME I, [MCNext]_mcVars, part' = "order" PROVE Visit'
    OBVIOUS
  <2>1. CASE Life(Next) \/ Bracketing(Bracket!Next)
    BY <2>1 DEF Life, Bracketing
  <2>2. CASE Ordering(Order!Next)
    BY <2>2, VisitKept DEF Ordering
  <2>3. CASE UNCHANGED mcVars
    <3>1. UNCHANGED <<part, configs, target, path, left, order, error>>
      BY <2>3 DEF mcVars, orderVars
    <3> QED BY <3>1, VisitStands
  <2> QED BY <2>1, <2>2, <2>3 DEF MCNext
<1>3. I => OrderIsResolved
  BY VisitAnswers DEF OrderIsResolved
<1> QED BY <1>1, <1>2, <1>3, PTL DEF MCSpec

---------------------------------------------------------------------------
\* The instances that the runs check keep what each part guarantees: the processes
\* of a Provider, and the order of dependencies (hot_provider).
THEOREM RequestsAreSound == MCSpec => [](SingleInstance /\ TrackedIsTruthful /\ OrderIsResolved)
<1>1. MCInit => Init
  BY DEF MCInit, LifeInit
<1>2. [MCNext]_mcVars => [Next]_vars
  BY DEF MCNext, Life, Ordering, Bracketing, mcVars
<1>3. MCSpec => Spec
  BY <1>1, <1>2, PTL DEF MCSpec, Spec
<1> QED BY <1>3, OneProcessAtMost, ExitedHasExited, DependenciesAreResolved, PTL
=============================================================================
