------------------------------- MODULE AgentRun -------------------------------
(***************************************************************************)
(* The streaming runs of the test agent (test_agent/python): a run is a    *)
(* channel of numbered events with a status, a task that drives the model, *)
(* a decision the operator owes to a protected operation, readers of the   *)
(* event stream, and the SQLite journal a writer thread fills behind them. *)
(*                                                                         *)
(* The server is one asyncio loop, so a handler is one action up to the    *)
(* awaits that really suspend: the model's turn, the gather a cancellation *)
(* waits in, and the journal's writer.  The journal queue is taken never   *)
(* to be full (8192 entries), so recording does not suspend.               *)
(***************************************************************************)
EXTENDS Naturals, Sequences, FiniteSets

CONSTANTS Runs,        \* run ids (uuid4: one is never used twice)
          Ops,         \* protected operations, told apart by fingerprint
          MaxEvents,   \* events a channel retains
          MaxDeltas,   \* bound: progress events a run publishes
          MaxCrashes   \* bound: restarts of the server

VARIABLES server,      \* "up", "stopping", "down"
          restarts,
          status,      \* run -> channel.status, "NONE" where there is no channel
          log,         \* run -> the types of every event published, in order
          task,        \* run -> "none", "model", "expiring", "cancelled" (both not yet unwound)
          granted,     \* run -> the approved operations its RunState still holds
          decisions,   \* run -> approval_decisions, operation -> BOOLEAN
          pending,     \* run -> the entry of pending_agent_runs
          stale,       \* runs whose pending entry is older than 600 s
          cancels,     \* run -> cancel handlers waiting in registry.cancel
          executed,    \* history: run -> operations executed, in order
          read,        \* run -> where the reader's cursor stands
          closed,      \* runs whose reader was told the stream had ended
          recording,   \* the journal's connection is open
          queue,       \* journal operations not yet taken by the writer
          batch,       \* the batch the writer's thread is applying
          rows,        \* run -> its row in the runs table
          lost         \* history: runs with an operation that never was applied

channelVars == <<status, log>>
taskVars == <<task, granted, decisions, pending, stale, cancels, executed>>
readVars == <<read, closed>>
journalVars == <<recording, queue, batch, rows, lost>>
vars == <<server, restarts, channelVars, taskVars, readVars, journalVars>>

Terminal == {"COMPLETED", "FAILED", "CANCELLED", "INTERRUPTED"}
EndEvents == {"run.completed", "run.failed", "run.cancelled"}
None == "none"
NoRow == [status |-> "NONE", last |-> 0, answer |-> "none"]
Live(r) == server = "up" /\ status[r] \notin Terminal \cup {"NONE"}

Init ==
    /\ server = "up" /\ restarts = 0
    /\ status = [r \in Runs |-> "NONE"] /\ log = [r \in Runs |-> <<>>]
    /\ task = [r \in Runs |-> "none"] /\ granted = [r \in Runs |-> {}]
    /\ decisions = [r \in Runs |-> <<>>] /\ pending = [r \in Runs |-> None]
    /\ stale = {} /\ cancels = [r \in Runs |-> 0] /\ executed = [r \in Runs |-> <<>>]
    /\ read = [r \in Runs |-> 0] /\ closed = {}
    /\ recording = TRUE /\ queue = <<>> /\ batch = <<>> /\ lost = {}
    /\ rows = [r \in Runs |-> NoRow]

-----------------------------------------------------------------------------
(* The channel.  Entry e of the journal queue is a record                   *)
(* [run, kind, value, at]; a handler's publications are recorded in order.  *)

Entry(r, kind, value, at) == [run |-> r, kind |-> kind, value |-> value, at |-> at]

Event(r, e, n) == Entry(r, "event", e, Len(log[r]) + n)

Record(entries) == queue' = IF recording THEN queue \o entries ELSE queue

\* publish the events es, then set_status: the order of every handler.
Report(r, es, s) ==
    /\ log' = [log EXCEPT ![r] = @ \o es]
    /\ status' = [status EXCEPT ![r] = s]
    /\ Record([i \in 1..Len(es) |-> Event(r, es[i], i)] \o <<Entry(r, "status", s, 0)>>)
    /\ UNCHANGED <<recording, batch, rows, lost>>

\* publish alone, the status kept.
Publish(r, e) ==
    /\ log' = [log EXCEPT ![r] = Append(@, e)]
    /\ Record(<<Event(r, e, 1)>>)
    /\ UNCHANGED <<status, recording, batch, rows, lost>>

\* POST /api/streaming-runs: the turn, the channel, run.started, RUNNING, the task.
StartRun(r) ==
    /\ server = "up" /\ status[r] = "NONE" /\ log[r] = <<>>
    /\ log' = [log EXCEPT ![r] = <<"run.started">>]
    /\ status' = [status EXCEPT ![r] = "RUNNING"]
    /\ Record(<<Entry(r, "turn", "none", 0), Event(r, "run.started", 1),
                Entry(r, "status", "RUNNING", 0)>>)
    /\ task' = [task EXCEPT ![r] = "model"]
    /\ UNCHANGED <<server, restarts, readVars, recording, batch, rows, lost, granted,
                   decisions, pending, stale, cancels, executed>>

-----------------------------------------------------------------------------
(* The task.                                                                *)

\* A progress event of the model or of a tool.
Progress(r) ==
    /\ task[r] = "model" /\ Cardinality({i \in 1..Len(log[r]) : log[r][i] = "delta"}) < MaxDeltas
    /\ Publish(r, "delta")
    /\ UNCHANGED <<server, restarts, taskVars, readVars>>

\* A resumed run executes the operations its state holds approvals for, before
\* the model is asked again.
Execute(r, op) ==
    /\ task[r] = "model" /\ op \in granted[r]
    /\ granted' = [granted EXCEPT ![r] = @ \ {op}]
    /\ executed' = [executed EXCEPT ![r] = Append(@, op)]
    /\ UNCHANGED <<server, restarts, channelVars, task, decisions, pending, stale, cancels,
                   readVars, journalVars>>

\* The run task ends with event e and status s.
End(r, e, s) ==
    /\ Report(r, <<e>>, s)
    /\ task' = [task EXCEPT ![r] = "none"]
    /\ UNCHANGED <<server, restarts, granted, decisions, pending, stale, cancels, executed, readVars>>

Complete(r) == task[r] = "model" /\ granted[r] = {} /\ End(r, "run.completed", "COMPLETED")

Fail(r) == task[r] = "model" /\ End(r, "run.failed", "FAILED")

\* OperationRegistry.run past its hard or idle deadline: the model's task is
\* cancelled and awaited, and a cancellation of the run arriving meanwhile is
\* swallowed with it; then TimeoutError is reported.
Expire(r) ==
    /\ task[r] = "model"
    /\ task' = [task EXCEPT ![r] = "expiring"]
    /\ UNCHANGED <<server, restarts, channelVars, granted, decisions, pending, stale, cancels,
                   executed, readVars, journalVars>>

Expired(r) == task[r] = "expiring" /\ End(r, "run.failed", "FAILED")

\* Mutant: the decisions of earlier turns are not carried along.
RepeatsNever(r, op) == FALSE

Repeats(r, op) == op \in DOMAIN decisions[r]

\* The turn ends at a protected operation: the run waits for a decision, or is
\* completed because this run already decided the same operation.
Interrupt(r, op) ==
    /\ task[r] = "model" /\ granted[r] = {}
    /\ task' = [task EXCEPT ![r] = "none"]
    /\ IF Repeats(r, op)
         THEN /\ Report(r, <<"run.completed">>, "COMPLETED")
              /\ UNCHANGED <<pending, stale>>
         ELSE /\ pending' = [pending EXCEPT ![r] = op]
              /\ stale' = stale \ {r}
              /\ Report(r, <<"approval.required">>, "AWAITING_APPROVAL")
    /\ UNCHANGED <<server, restarts, granted, decisions, cancels, executed, readVars>>

PassTenMinutes(r) ==
    /\ pending[r] # None /\ r \notin stale
    /\ stale' = stale \cup {r}
    /\ UNCHANGED <<server, restarts, channelVars, task, granted, decisions, pending, cancels,
                   executed, readVars, journalVars>>

-----------------------------------------------------------------------------
(* The operator.                                                            *)

Take(r) == pending' = [pending EXCEPT ![r] = None]

\* approval_decisions with this one recorded in it.
Decided(taken, op, approve) ==
    [o \in DOMAIN taken \cup {op} |-> IF o = op THEN approve ELSE taken[o]]

\* POST .../decision, refused unless the run is awaiting and its entry is there.
Decide(r, approve) ==
    /\ server = "up" /\ status[r] = "AWAITING_APPROVAL" /\ pending[r] # None
    /\ Take(r)
    /\ IF r \in stale
         THEN /\ Report(r, <<"run.failed">>, "FAILED")
              /\ UNCHANGED <<task, granted, decisions>>
         ELSE /\ decisions' = [decisions EXCEPT ![r] = Decided(@, pending[r], approve)]
              /\ granted' = [granted EXCEPT ![r] = IF approve THEN {pending[r]} ELSE {}]
              /\ Report(r, <<"approval.resolved">>, "RUNNING")
              /\ task' = [task EXCEPT ![r] = "model"]
    /\ UNCHANGED <<server, restarts, stale, cancels, executed, readVars>>

\* Mutant: the status is set with the request, before the tasks have ended.
CancelEarly(r) ==
    /\ Live(r) /\ cancels[r] < 2
    /\ Take(r)
    /\ Report(r, <<"run.cancellation_requested">>, "CANCELLED")
    /\ task' = [task EXCEPT ![r] = IF @ = "model" THEN "cancelled" ELSE @]
    /\ cancels' = [cancels EXCEPT ![r] = @ + 1]
    /\ UNCHANGED <<server, restarts, granted, decisions, stale, executed, readVars>>

\* POST .../cancel up to its gather: the pending decision is gone, the tasks are
\* told, and the handler waits where there is a task to wait for.
Cancel(r) ==
    /\ Live(r) /\ cancels[r] < 2
    /\ Take(r)
    /\ IF task[r] = "none"
         THEN /\ Report(r, <<"run.cancellation_requested", "run.cancelled">>, "CANCELLED")
              /\ UNCHANGED <<task, cancels>>
         ELSE /\ Publish(r, "run.cancellation_requested")
              /\ task' = [task EXCEPT ![r] = IF @ = "model" THEN "cancelled" ELSE @]
              /\ cancels' = [cancels EXCEPT ![r] = @ + 1]
    /\ UNCHANGED <<server, restarts, granted, decisions, stale, executed, readVars>>

\* CancelledError unwinds the task; nothing in it catches it.
Unwind(r) ==
    /\ task[r] = "cancelled"
    /\ task' = [task EXCEPT ![r] = "none"]
    /\ UNCHANGED <<server, restarts, channelVars, granted, decisions, pending, stale, cancels,
                   executed, readVars, journalVars>>

\* The rest of the handler, after the gather.
CancelDone(r) ==
    /\ server = "up" /\ cancels[r] > 0 /\ task[r] = "none"
    /\ cancels' = [cancels EXCEPT ![r] = @ - 1]
    /\ IF status[r] \in {"COMPLETED", "FAILED"}
         THEN UNCHANGED <<channelVars, journalVars>>
         ELSE Report(r, <<"run.cancelled">>, "CANCELLED")
    /\ UNCHANGED <<server, restarts, task, granted, decisions, pending, stale, executed, readVars>>

-----------------------------------------------------------------------------
(* A reader of GET .../events: events_after, then the events it returns.     *)

Retained(r) == {i \in 1..Len(log[r]) : i > Len(log[r]) - MaxEvents}

Unread(r) == {i \in Retained(r) : i > read[r]}

Read(r) ==
    /\ server = "up" /\ status[r] # "NONE" /\ r \notin closed
    /\ \/ /\ Unread(r) # {}
          /\ read' = [read EXCEPT ![r] = Len(log[r])]
          /\ UNCHANGED closed
       \/ /\ Unread(r) = {} /\ status[r] \in Terminal
          /\ closed' = closed \cup {r}
          /\ UNCHANGED read
    /\ UNCHANGED <<server, restarts, channelVars, taskVars, journalVars>>

\* The browser's EventSource comes back with an older cursor (Last-Event-ID or after).
Reconnect(r, n) ==
    /\ server = "up" /\ status[r] # "NONE"
    /\ read' = [read EXCEPT ![r] = n]
    /\ closed' = closed \ {r}
    /\ UNCHANGED <<server, restarts, channelVars, taskVars, journalVars>>

-----------------------------------------------------------------------------
(* The journal.                                                             *)

Answered(e) == e \in EndEvents

Write(row, e) ==
    LET known == IF row = NoRow THEN [NoRow EXCEPT !.status = "STARTING"] ELSE row
    IN  CASE e.kind = "turn"   -> known
          [] e.kind = "event"  -> [known EXCEPT !.last = IF e.at > @ THEN e.at ELSE @,
                                                !.answer = IF Answered(e.value) THEN e.value ELSE @]
          [] e.kind = "status" -> [known EXCEPT !.status = e.value]

\* Mutant: only running rows are reconciled.
InterruptedRunning(row) == IF row.status # "RUNNING" THEN row ELSE [row EXCEPT !.status = "INTERRUPTED"]

\* _interrupt_active_runs, at the stop operation and at every start.
Interrupted(row) ==
    IF row = NoRow \/ row.status \in {"COMPLETED", "FAILED", "INTERRUPTED"}
      THEN row ELSE [row EXCEPT !.status = "INTERRUPTED"]

InterruptAll(table) == [r \in Runs |-> Interrupted(table[r])]

\* The table after the first n entries of es, one transaction.
After(table, es) ==
    LET f[n \in 0..Len(es)] ==
            IF n = 0 THEN table
            ELSE IF es[n].kind = "stop" THEN InterruptAll(f[n-1])
            ELSE [f[n-1] EXCEPT ![es[n].run] = Write(@, es[n])]
    IN  f[Len(es)]

Stops(es) == \E i \in 1..Len(es) : es[i].kind = "stop"

Of(es) == {es[i].run : i \in {j \in 1..Len(es) : es[j].kind # "stop"}}

WriterTake ==
    /\ server # "down" /\ recording /\ batch = <<>> /\ queue # <<>>
    /\ batch' = queue /\ queue' = <<>>
    /\ UNCHANGED <<server, restarts, channelVars, taskVars, readVars, recording, rows, lost>>

\* The batch is committed, or fails as a whole and is not retried; after a stop
\* operation the writer returns and close() closes the connection.
WriterDone ==
    /\ batch # <<>>
    /\ \/ rows' = After(rows, batch) /\ UNCHANGED lost
       \/ lost' = lost \cup Of(batch) \cup (IF Stops(batch) THEN Runs ELSE {}) /\ UNCHANGED rows
    /\ batch' = <<>>
    /\ IF Stops(batch)
         THEN server' = "down" /\ recording' = FALSE
         ELSE UNCHANGED <<server, recording>>
    /\ UNCHANGED <<restarts, channelVars, taskVars, readVars, queue>>

-----------------------------------------------------------------------------
(* The process.                                                             *)

\* _close_lifespan_resources: the tasks are cancelled, then the journal closes.
Shutdown ==
    /\ server = "up" /\ \A r \in Runs : cancels[r] = 0
    /\ task' = [r \in Runs |-> "none"]
    /\ IF recording
         THEN server' = "stopping" /\ queue' = Append(queue, Entry("all", "stop", "none", 0))
         ELSE server' = "down" /\ UNCHANGED queue
    /\ UNCHANGED <<restarts, channelVars, granted, decisions, pending, stale, cancels, executed,
                   readVars, recording, batch, rows, lost>>

Crash ==
    /\ server # "down"
    /\ server' = "down" /\ recording' = FALSE
    /\ lost' = lost \cup Of(queue \o batch)
    /\ queue' = <<>> /\ batch' = <<>>
    /\ task' = [r \in Runs |-> "none"] /\ cancels' = [r \in Runs |-> 0]
    /\ UNCHANGED <<restarts, channelVars, granted, decisions, pending, stale, executed, readVars, rows>>

\* lifespan: every channel is gone; the database opens and its rows are
\* reconciled, or it does not open and the server runs on without a journal.
Restart ==
    /\ server = "down" /\ restarts < MaxCrashes
    /\ server' = "up" /\ restarts' = restarts + 1
    /\ \/ recording' = TRUE /\ rows' = InterruptAll(rows)
       \/ recording' = FALSE /\ UNCHANGED rows
    /\ status' = [r \in Runs |-> "NONE"]
    /\ pending' = [r \in Runs |-> None] /\ stale' = {}
    /\ UNCHANGED <<log, task, granted, decisions, cancels, executed, readVars, queue, batch, lost>>

-----------------------------------------------------------------------------
Next ==
    \/ \E r \in Runs :
          \/ StartRun(r) \/ Progress(r) \/ Complete(r) \/ Fail(r) \/ Expire(r) \/ Expired(r)
          \/ \E op \in Ops : Execute(r, op) \/ Interrupt(r, op)
          \/ PassTenMinutes(r) \/ Cancel(r) \/ Unwind(r) \/ CancelDone(r) \/ Read(r)
          \/ \E approve \in BOOLEAN : Decide(r, approve)
          \/ \E n \in {0, read[r]} : Reconnect(r, n)
    \/ WriterTake \/ WriterDone \/ Shutdown \/ Crash \/ Restart

\* The registry's deadlines are polled until the task ends, and the loop resumes
\* every handler whose await is over.
Fairness ==
    \A r \in Runs : /\ WF_vars(Expire(r)) /\ WF_vars(Expired(r))
                    /\ WF_vars(Unwind(r)) /\ WF_vars(CancelDone(r))

Spec == Init /\ [][Next]_vars /\ Fairness

-----------------------------------------------------------------------------
\* A run that has ended keeps the end it was given: a timeout that swallows the
\* cancellation, the cancellation's own report and a second Stop never replace it.
EndIsFinal ==
    [][\A r \in Runs : status[r] \in Terminal => status'[r] \in {status[r], "NONE"}]_vars

\* A protected operation is executed at most once in a run, and only when the
\* operator approved it: whatever is cancelled, expired, repeated or decided again.
ProtectedOnce ==
    \A r \in Runs, op \in Ops :
        LET uses == {i \in 1..Len(executed[r]) : executed[r][i] = op}
        IN  /\ Cardinality(uses) <= 1
            /\ uses # {} => op \in DOMAIN decisions[r] /\ decisions[r][op]

\* A reader is told the stream is over only after it has received the event that
\* ended the run, though the status and the events are read together and the
\* channel forgets old events.
StreamsEndWithTheRun ==
    \A r \in closed : status[r] \in Terminal => \E i \in 1..read[r] : log[r][i] \in EndEvents

\* What the journal shows when nothing is left to write: the channel's status, its
\* last event and, for an ended run, the answer that came with that end; and a
\* run of an earlier process is never shown as still running.
HistoryAgrees ==
    \A r \in Runs :
        server = "up" /\ recording /\ r \notin lost \cup Of(queue \o batch) =>
            IF status[r] = "NONE"
              THEN rows[r].status \in Terminal \cup {"NONE"}
              ELSE /\ rows[r].status = status[r]
                   /\ rows[r].last = Len(log[r])
                   /\ status[r] \in Terminal => rows[r].answer \in EndEvents

\* A running run ends, or comes to wait for the operator, also when its model hangs
\* and when a cancellation races the deadline.
Unfinished == server = "up" /\ \E r \in Runs : status[r] = "RUNNING"
RunsSettle == Unfinished ~> ~Unfinished
==============================================================================
