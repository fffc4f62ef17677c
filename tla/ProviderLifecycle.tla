------------------------- MODULE ProviderLifecycle -------------------------
(***************************************************************************)
(* One Provider of the Resource Provider Manager: its operating-system     *)
(* processes, the process the Manager tracks, the report it keeps from     *)
(* registrations and heartbeats, and the start, hot, request, stop and     *)
(* kill endpoints, one step per mutex acquisition or external call.  The   *)
(* Manager may itself restart: it forgets everything, the processes live.  *)
(*                                                                         *)
(* Time is abstract: a report ages past heartbeat_timeout_ms, and a call   *)
(* past its deadline, at any moment.  A process reports under an instance  *)
(* and boot id of its own, here its pid, counted in order of birth.        *)
(***************************************************************************)
EXTENDS Naturals, FiniteSets

CONSTANTS
  MaxSpawns,               \* bound: processes ever started
  Handlers,                \* HTTP requests served
  Deployments,             \* the deployments looked at, each a set of Hardships
  Overlapping,             \* bound: the operations that may overlap another
  None

\* What makes a deployment hard: requests overlap; kill -TERM may be ignored
\* (taskkill /F may not); try_wait may answer an error; the Manager may restart;
\* force_kill_on_stop_timeout is not set for the Provider.
Hardships == {"overlap", "soft kill", "wait fails", "restart", "no forced stop"}

ASSUME SpawnBound == MaxSpawns \in Nat \ {0}
ASSUME DeploymentsAreHardships == Deployments \subseteq SUBSET Hardships

Pids == 1 .. MaxSpawns

VARIABLES
  os,       \* what the operating system knows of each process
  tracked,  \* processes[id]: the process the Manager spawned last
  report,   \* reports[id]
  mail,     \* heartbeats sent and not yet handled
  fenced,   \* shutdown_fence is Some
  handler,  \* the requests being served
  hardships \* the deployment: a constant of each behaviour

vars == <<os, tracked, report, mail, fenced, handler, hardships>>

Operations == {"start", "hot", "request", "stop", "kill"}
First == CHOOSE h \in Handlers : TRUE
Managed == [pid : Pids, state : {"starting", "running", "exited", "error"}]
Report == [instance : Pids, ready : BOOLEAN, aged : BOOLEAN, expired : BOOLEAN]
Handler == [at : {"idle", "ensure", "check", "report", "insert", "call", "failed",
                  "graceful", "poll", "pid", "kill", "mark"},
            op : Operations, pid : Pids \cup {None}, late : BOOLEAN]
Idle == [at |-> "idle", op |-> "start", pid |-> None, late |-> FALSE]

ASSUME NoneIsNothing == None \notin Managed \cup Report \cup Pids

Alive == {p \in Pids : os[p] = "alive"}
Unborn == {p \in Pids : os[p] = "unborn"}

\* provider_report_is_fresh
Fresh(r) == r # None /\ ~r.expired /\ ~r.aged

Init ==
  /\ os = [p \in Pids |-> "unborn"]
  /\ tracked = None
  /\ report = None
  /\ mail = {}
  /\ fenced = FALSE
  /\ handler = [h \in Handlers |-> Idle]
  /\ hardships \in Deployments

\* refresh_process_state: the states an entry may have after try_wait.
Refreshed(t) ==
  IF t = None THEN {None}
  ELSE LET states ==
             IF os[t.pid] = "dead" THEN {"exited"}
             ELSE {IF t.state = "starting" THEN "running" ELSE t.state}
                  \cup (IF "wait fails" \in hardships THEN {"error"} ELSE {})
       IN  {[t EXCEPT !.state = s] : s \in states}

Up(t) == t # None /\ t.state \in {"starting", "running"}

GoTo(h, at) == handler' = [handler EXCEPT ![h].at = at]
Reply(h) == handler' = [handler EXCEPT ![h] = Idle]

---------------------------------------------------------------------------
\* start_provider, hot_provider: fenced.  provider_request, stop and kill: not.
Admit(h, op) ==
  /\ handler[h].at = "idle"
  /\ op \in {"start", "hot"} => ~fenced
  /\ h = First \/ ("overlap" \in hardships /\ op \in Overlapping)
  /\ handler' = [handler EXCEPT
       ![h] = [at |-> CASE op = "start" -> "check"
                        [] op \in {"hot", "request"} -> "ensure"
                        [] op = "stop" -> "graceful"
                        [] op = "kill" -> "poll",
               op |-> op, pid |-> None, late |-> FALSE]]
  /\ UNCHANGED <<os, tracked, report, mail, fenced, hardships>>

\* ensure_started looks at the tracked process, and drops the mutex.
Ensure(h) ==
  /\ handler[h].at = "ensure"
  /\ \E t \in Refreshed(tracked) :
       /\ tracked' = t
       /\ GoTo(h, IF Up(t) THEN "call" ELSE "check")
  /\ UNCHANGED <<os, report, mail, fenced, hardships>>

\* start_provider_inner has returned Ok: ensure_started goes on to the Provider.
Started(h) ==
  IF handler[h].op = "start" THEN Reply(h)
  ELSE handler' = [handler EXCEPT ![h].at = "call", ![h].pid = None]

CheckTracked(h) ==
  /\ handler[h].at = "check"
  /\ \E t \in Refreshed(tracked) :
       /\ tracked' = t
       /\ IF Up(t) THEN Started(h) ELSE GoTo(h, "report")
  /\ UNCHANGED <<os, report, mail, fenced, hardships>>

AlreadyRegistered(h) ==
  /\ handler[h].at = "report"
  /\ Fresh(report)
  /\ Started(h)
  /\ UNCHANGED <<os, tracked, report, mail, fenced, hardships>>

\* No await lies between reading the report and spawn.
Spawn(h) ==
  /\ handler[h].at = "report"
  /\ ~Fresh(report)
  /\ \E p \in Unborn :
       /\ \A q \in Unborn : p <= q
       /\ os' = [os EXCEPT ![p] = "alive"]
       /\ handler' = [handler EXCEPT ![h].at = "insert", ![h].pid = p]
  /\ UNCHANGED <<tracked, report, mail, fenced, hardships>>

\* The command is missing or cannot be run.
SpawnFails(h) ==
  /\ handler[h].at = "report"
  /\ ~Fresh(report)
  /\ Reply(h)
  /\ UNCHANGED <<os, tracked, report, mail, fenced, hardships>>

\* Mutant: the child is never entered in the process table.
InsertForgotten(h) ==
  /\ handler[h].at = "insert"
  /\ Started(h)
  /\ UNCHANGED <<os, tracked, report, mail, fenced, hardships>>

\* processes.insert: an entry of another process is dropped, not killed.
Insert(h) ==
  /\ handler[h].at = "insert"
  /\ tracked' = [pid |-> handler[h].pid, state |-> "starting"]
  /\ Started(h)
  /\ UNCHANGED <<os, report, mail, fenced, hardships>>

---------------------------------------------------------------------------
\* POST /v1/control/hot or /request: whichever process serves the control URL
\* answers, if any does.
CallAnswered(h) ==
  /\ handler[h].at = "call"
  /\ Alive # {}
  /\ Reply(h)
  /\ UNCHANGED <<os, tracked, report, mail, fenced, hardships>>

CallFails(h) ==
  /\ handler[h].at = "call"
  /\ IF handler[h].op = "hot" THEN GoTo(h, "failed") ELSE Reply(h)
  /\ UNCHANGED <<os, tracked, report, mail, fenced, hardships>>

\* Mutant: only the failure of a tracked process ends the attempts.
HotRetriesForever(h) ==
  /\ handler[h].at = "failed"
  /\ \E t \in Refreshed(tracked) :
       /\ tracked' = t
       /\ IF t # None /\ ~Up(t) THEN Reply(h) ELSE GoTo(h, "call")
  /\ UNCHANGED <<os, report, mail, fenced, hardships>>

\* ensure_single_provider_hot gives up on a process known to have failed, then
\* at the deadline, and otherwise calls again.
HotFailed(h) ==
  /\ handler[h].at = "failed"
  /\ \E t \in Refreshed(tracked) :
       /\ tracked' = t
       /\ IF (t # None /\ ~Up(t)) \/ handler[h].late
          THEN Reply(h) ELSE GoTo(h, "call")
  /\ UNCHANGED <<os, report, mail, fenced, hardships>>

\* The 15 s of a HOT request, or graceful_stop_timeout_ms, have passed.
DeadlinePasses(h) ==
  /\ handler[h].at \in {"failed", "poll"} \/ (handler[h].at = "call" /\ handler[h].op = "hot")
  /\ ~handler[h].late
  /\ handler' = [handler EXCEPT ![h].late = TRUE]
  /\ UNCHANGED <<os, tracked, report, mail, fenced, hardships>>

---------------------------------------------------------------------------
\* POST /v1/control/stop: its outcome is not looked at.
AskToStop(h) ==
  /\ handler[h].at = "graceful"
  /\ GoTo(h, "poll")
  /\ UNCHANGED <<os, tracked, report, mail, fenced, hardships>>

\* should_force_terminate
ForceNow(h) == handler[h].op = "kill" \/ (handler[h].late /\ "no forced stop" \notin hardships)

\* What the stop endpoint takes for stopped.
Gone(t) == t = None \/ (t # None /\ t.state = "exited")

\* One round of the polling loop of stop_provider_inner.
Poll(h) ==
  /\ handler[h].at = "poll"
  /\ \E t \in Refreshed(tracked) :
       /\ tracked' = t
       /\ IF Gone(t) THEN Reply(h)
          ELSE IF ForceNow(h) THEN GoTo(h, "pid")
          ELSE IF handler[h].late THEN Reply(h) ELSE UNCHANGED handler
  /\ UNCHANGED <<os, report, mail, fenced, hardships>>

TakePid(h) ==
  /\ handler[h].at = "pid"
  /\ handler' = [handler EXCEPT ![h].at = "kill",
                                ![h].pid = IF tracked = None THEN None ELSE tracked.pid]
  /\ UNCHANGED <<os, tracked, report, mail, fenced, hardships>>

Kill(h) ==
  LET p == handler[h].pid
  IN  /\ handler[h].at = "kill"
      /\ p # None => os[p] = "alive"
      /\ os' \in {IF p = None THEN os ELSE [os EXCEPT ![p] = "dead"]}
                \cup (IF "soft kill" \in hardships THEN {os} ELSE {})
      /\ GoTo(h, "mark")
      /\ UNCHANGED <<tracked, report, mail, fenced, hardships>>

\* Mutant: the outcome of the kill command is not looked at.
KillFailureIgnored(h) ==
  /\ handler[h].at = "kill"
  /\ handler[h].pid # None
  /\ GoTo(h, "mark")
  /\ UNCHANGED <<os, tracked, report, mail, fenced, hardships>>

\* The process is gone, or the kill command is refused.
KillFails(h) ==
  /\ handler[h].at = "kill"
  /\ handler[h].pid # None
  /\ Reply(h)
  /\ UNCHANGED <<os, tracked, report, mail, fenced, hardships>>

\* The entry marked is the one found now, whichever process it stands for.
MarkExited(h) ==
  /\ handler[h].at = "mark"
  /\ tracked' = IF tracked = None THEN None ELSE [tracked EXCEPT !.state = "exited"]
  /\ Reply(h)
  /\ UNCHANGED <<os, report, mail, fenced, hardships>>

---------------------------------------------------------------------------
\* The Provider's process, and what it tells the Manager.
Exit(p) ==
  /\ os[p] = "alive"
  /\ os' = [os EXCEPT ![p] = "dead"]
  /\ UNCHANGED <<tracked, report, mail, fenced, handler, hardships>>

SendReport(p) ==
  /\ os[p] = "alive"
  /\ p \notin mail
  /\ mail' = mail \cup {p}
  /\ UNCHANGED <<os, tracked, report, fenced, handler, hardships>>

\* register_provider, provider_heartbeat: accepted unless another instance's
\* report is fresh, and then the report is replaced as a whole.
HandleReport(p, ready) ==
  /\ p \in mail
  /\ mail' = mail \ {p}
  /\ report' = IF Fresh(report) /\ report.instance # p THEN report
               ELSE [instance |-> p, ready |-> ready, aged |-> FALSE, expired |-> FALSE]
  /\ UNCHANGED <<os, tracked, fenced, handler, hardships>>

\* heartbeat_timeout_ms passes after the last report.
Age ==
  /\ report # None
  /\ ~report.aged
  /\ report' = [report EXCEPT !.aged = TRUE]
  /\ UNCHANGED <<os, tracked, mail, fenced, handler, hardships>>

\* Mutant: an expired report keeps the readiness it reported.
ExpireReportStillReady ==
  /\ report # None
  /\ report.aged /\ ~report.expired
  /\ report' = [report EXCEPT !.expired = TRUE]
  /\ UNCHANGED <<os, tracked, mail, fenced, handler, hardships>>

\* heartbeat_expiry_loop
ExpireReport ==
  /\ report # None
  /\ report.aged /\ ~report.expired
  /\ report' = [report EXCEPT !.expired = TRUE, !.ready = FALSE]
  /\ UNCHANGED <<os, tracked, mail, fenced, handler, hardships>>

\* execute_shutdown_plan sets the fence; nothing but a restart clears it.
RaiseFence ==
  /\ ~fenced
  /\ fenced' = TRUE
  /\ UNCHANGED <<os, tracked, report, mail, handler, hardships>>

\* The Manager crashes and starts again: kill_on_drop is false.
ManagerRestart ==
  /\ "restart" \in hardships
  /\ tracked' = None
  /\ report' = None
  /\ mail' = {}
  /\ fenced' = FALSE
  /\ handler' = [h \in Handlers |-> Idle]
  /\ UNCHANGED <<os, hardships>>

---------------------------------------------------------------------------
Serve(h) ==
  \/ Ensure(h) \/ CheckTracked(h) \/ AlreadyRegistered(h) \/ Spawn(h)
  \/ SpawnFails(h) \/ Insert(h) \/ CallAnswered(h) \/ CallFails(h) \/ HotFailed(h)
  \/ AskToStop(h) \/ Poll(h) \/ TakePid(h) \/ Kill(h) \/ KillFails(h) \/ MarkExited(h)

Next ==
  \/ \E h \in Handlers : Serve(h) \/ DeadlinePasses(h) \/ \E op \in Operations : Admit(h, op)
  \/ \E p \in Pids : Exit(p) \/ SendReport(p) \/ \E b \in BOOLEAN : HandleReport(p, b)
  \/ Age
  \/ ExpireReport
  \/ RaiseFence
  \/ ManagerRestart

Spec == Init /\ [][Next]_vars

\* Handlers and the expiry loop run on, every wait has a timeout, and a report
\* ages.  Nothing obliges a process to answer, to exit or to report.
FairSpec ==
  /\ Spec
  /\ WF_vars(Age) /\ WF_vars(ExpireReport)
  /\ \A h \in Handlers : WF_vars(Serve(h)) /\ WF_vars(DeadlinePasses(h))

---------------------------------------------------------------------------
\* Every variable has its type.
TypeOK ==
  /\ os \in [Pids -> {"unborn", "alive", "dead"}]
  /\ tracked \in Managed \cup {None}
  /\ report \in Report \cup {None}
  /\ mail \subseteq Pids
  /\ fenced \in BOOLEAN
  /\ handler \in [Handlers -> Handler]

\* Requests served one at a time, with a kill that kills and a try_wait that
\* answers, never have two processes of the Provider alive at once, although
\* stops time out and Providers exit on their own.
SingleInstance ==
  hardships \subseteq {"no forced stop"} => Cardinality(Alive) <= 1

\* Unless requests overlap or a kill is ignored, what the Manager calls exited
\* has exited, across its restarts and failing calls of try_wait.
TrackedIsTruthful ==
  hardships \cap {"overlap", "soft kill"} = {} =>
    (tracked # None /\ tracked.state = "exited" => os[tracked.pid] = "dead")

\* Every request is answered, although a Provider may never answer, never exit
\* and ignore every signal.
EveryRequestAnswered ==
  \A h \in Handlers : handler[h].at # "idle" ~> handler[h].at = "idle"

\* A process that has died does not stay registered as ready.
DeathIsNoticed ==
  \A p \in Pids :
    LET offered == report # None /\ report.instance = p /\ report.ready
    IN  (os[p] = "dead" /\ offered) ~> ~offered
=============================================================================
