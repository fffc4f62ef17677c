---------------------------- MODULE BracketWait ----------------------------
(***************************************************************************)
(* GET /v1/transform with wait_for_bracket_ms against concurrent           *)
(* publications: batches are committed under the store's write lock and    *)
(* announced through a Notify after it is released, queries register with  *)
(* the Notify before they read the store.  The path queried is one edge of *)
(* dynamic samples, TransformEdge; FabricStore has the rest of the store.  *)
(***************************************************************************)
EXTENDS TransformEdge, FiniteSets

CONSTANTS
  Authorities,              \* publishers of the edge
  Times,                    \* bound: the observation times in play
  Limits,                   \* max_extrapolation_us of a query
  TransformHistoryPerEdge,  \* FABRIC_TRANSFORM_HISTORY_PER_EDGE
  Publishers,               \* concurrent POSTs
  Queries,                  \* concurrent GETs
  MaxAccepted,              \* bound: samples accepted
  None

VARIABLES
  edge,      \* the samples of the edge
  accepted,  \* samples accepted so far
  post,      \* the publications being served
  query      \* the queries being served

vars == <<edge, accepted, post, query>>

Outcomes == {"exact", "extrapolated", "missing", "conflict"}
\* A query is about the pose "at" a time, with a limit to what may be
\* extrapolated.  Once it has "enabled" its Notified future it is woken by any
\* notification that follows; "woken" is that notification.  A "patient" one
\* has a wait_for_bracket_ms that does not run out; of another, "late" says
\* that it has.  "outcome" is what its last look at the store answered.
Idle == [pc |-> "idle", at |-> CHOOSE t \in Times : TRUE, limit |-> CHOOSE l \in Limits : TRUE,
         enabled |-> FALSE, woken |-> FALSE, patient |-> FALSE, late |-> FALSE,
         outcome |-> None]

Init ==
  /\ edge = EmptyEdge(Authorities)
  /\ accepted = 0
  /\ post = [p \in Publishers |-> "idle"]
  /\ query = [q \in Queries |-> Idle]

\* resolve_transform_once, for a path of this one edge.
Outcome(at, limit) ==
  LET speaking == Answering(edge, at, limit, {1})
  IN  CASE speaking = {} -> "missing"
        [] Cardinality(speaking) > 1 -> "conflict"
        [] OTHER ->
             IF \A a \in speaking : Answer(edge.index[a], at, limit, {1}).reach = 0
             THEN "exact" ELSE "extrapolated"

\* transform_query_needs_bracket
NeedsBracket(outcome) == outcome \in {"missing", "extrapolated"}

---------------------------------------------------------------------------
Malformed == [by |-> None, at |-> None]
Entries == [by : Authorities, at : Times] \cup {Malformed}
Batches == {<<e>> : e \in Entries} \cup {<<e, f>> : e, f \in Entries}

\* publish_batch commits what precedes the first malformed observation.
Prefix(batch) == IF batch[1] = Malformed THEN <<>> ELSE SelectSeq(batch, LAMBDA e : e # Malformed)

Commit(samples) ==
  edge' = FoldLeftDomain(
            LAMBDA acc, i : Inserted(acc, [by |-> samples[i].by, at |-> samples[i].at,
                                           id |-> accepted + i, static |-> FALSE,
                                           usable |-> TRUE, epoch |-> 1],
                                     TransformHistoryPerEdge),
            edge, samples)

\* transform_accepted, on the way out through Ok or Err.
Announced(batch) == Prefix(batch) # <<>>

PublishBatch(p, batch) ==
  /\ post[p] = "idle"
  /\ accepted + Len(Prefix(batch)) <= MaxAccepted
  /\ Commit(Prefix(batch))
  /\ accepted' = accepted + Len(Prefix(batch))
  /\ post' = [post EXCEPT ![p] = IF Announced(batch) THEN "notify" ELSE "idle"]
  /\ UNCHANGED query

\* notify_waiters, once the write lock is released.
NotifyWaiters(p) ==
  /\ post[p] = "notify"
  /\ post' = [post EXCEPT ![p] = "idle"]
  /\ query' = [q \in Queries |->
       IF query[q].enabled THEN [query[q] EXCEPT !.woken = TRUE] ELSE query[q]]
  /\ UNCHANGED <<edge, accepted>>

---------------------------------------------------------------------------
Ask(q, at, limit, patient) ==
  /\ query[q].pc = "idle"
  /\ query' = [query EXCEPT ![q] = [Idle EXCEPT !.pc = "enable", !.at = at, !.limit = limit,
                                                !.patient = patient]]
  /\ UNCHANGED <<edge, accepted, post>>

\* Mutant: the future is made and not enabled, so it registers when first polled.
EnableNothing(q) ==
  /\ query[q].pc = "enable"
  /\ query' = [query EXCEPT ![q].pc = "resolve", ![q].enabled = FALSE, ![q].woken = FALSE]
  /\ UNCHANGED <<edge, accepted, post>>

Enable(q) ==
  /\ query[q].pc = "enable"
  /\ query' = [query EXCEPT ![q].pc = "resolve", ![q].enabled = TRUE, ![q].woken = FALSE]
  /\ UNCHANGED <<edge, accepted, post>>

Resolve(q) ==
  /\ query[q].pc = "resolve"
  /\ LET outcome == Outcome(query[q].at, query[q].limit)
     IN  query' = [query EXCEPT ![q] =
           IF NeedsBracket(outcome) THEN [@ EXCEPT !.pc = "decide", !.outcome = outcome]
           ELSE Idle]
  /\ UNCHANGED <<edge, accepted, post>>

\* The deadline is looked at, and the notification awaited.
Decide(q) ==
  /\ query[q].pc = "decide"
  /\ query' = [query EXCEPT ![q] =
       IF @.late THEN Idle ELSE [@ EXCEPT !.pc = "wait", !.enabled = TRUE]]
  /\ UNCHANGED <<edge, accepted, post>>

Wake(q) ==
  /\ query[q].pc = "wait"
  /\ query[q].woken
  /\ query' = [query EXCEPT ![q].pc = "enable", ![q].enabled = FALSE]
  /\ UNCHANGED <<edge, accepted, post>>

\* The timeout polls the notification first.
TimeOut(q) ==
  /\ query[q].pc = "wait"
  /\ query[q].late /\ ~query[q].woken
  /\ query' = [query EXCEPT ![q] = Idle]
  /\ UNCHANGED <<edge, accepted, post>>

DeadlinePasses(q) ==
  /\ query[q].pc # "idle"
  /\ ~query[q].patient /\ ~query[q].late
  /\ query' = [query EXCEPT ![q].late = TRUE]
  /\ UNCHANGED <<edge, accepted, post>>

Serve(q) == Enable(q) \/ Resolve(q) \/ Decide(q) \/ Wake(q) \/ TimeOut(q)

Next ==
  \/ \E p \in Publishers : NotifyWaiters(p) \/ \E batch \in Batches : PublishBatch(p, batch)
  \/ \E q \in Queries :
       \/ Serve(q) \/ DeadlinePasses(q)
       \/ \E at \in Times, limit \in Limits, patient \in BOOLEAN : Ask(q, at, limit, patient)

Spec == Init /\ [][Next]_vars

\* Requests being served run on.  Nothing obliges anyone to publish.
FairSpec ==
  /\ Spec
  /\ \A p \in Publishers : WF_vars(NotifyWaiters(p))
  /\ \A q \in Queries : WF_vars(Serve(q)) /\ WF_vars(DeadlinePasses(q))

---------------------------------------------------------------------------
\* No wake-up is lost: a query that sleeps although the store could answer it
\* now is about to be woken.
NoLostWakeup ==
  \A q \in Queries :
    query[q].pc = "wait" /\ ~query[q].woken /\ ~NeedsBracket(Outcome(query[q].at, query[q].limit))
      => \E p \in Publishers : post[p] = "notify"

\* With time to spare, a query whose bracket has been published is answered.
BracketIsServed ==
  \A q \in Queries :
    LET bracketed == Outcome(query[q].at, query[q].limit) = "exact"
    IN  query[q].pc # "idle" /\ query[q].patient /\ bracketed
          ~> query[q].pc = "idle" \/ ~bracketed

\* A query whose wait may run out is answered, published to or not.
EveryQueryAnswered ==
  \A q \in Queries : query[q].pc # "idle" /\ ~query[q].patient ~> query[q].pc = "idle"
=============================================================================
