--------------------------- MODULE TransformEdge ---------------------------
(***************************************************************************)
(* One directed edge of the Fabric's transform graph, as data: the samples *)
(* kept of it, their index by authority, the eviction of the oldest, and   *)
(* how the edge is resolved at an instant.  A sample is a record           *)
(* [by, at, id, static, usable, epoch]: its authority, observed_at_us,     *)
(* insertion id, and whether the graph may use it.                         *)
(***************************************************************************)
EXTENDS Integers, Sequences, SequencesExt

\* TransformAuthorityHistory: samples in the order of (observed_at_us,
\* insertion_id), the static ones apart.
EmptyHistory == [static |-> <<>>, dynamic |-> <<>>]
Part(s) == IF s.static THEN "static" ELSE "dynamic"
Precedes(x, y) == x.at < y.at \/ (x.at = y.at /\ x.id < y.id)

\* partition_point: how many samples precede this one.
PartitionPoint(samples, s) ==
  CHOOSE k \in 0 .. Len(samples) :
    \A i \in DOMAIN samples : i <= k <=> Precedes(samples[i], s)

\* TransformAuthorityHistory::insert, remove
InsertedInOrder(samples, s) == InsertAt(samples, 1 + PartitionPoint(samples, s), s)
Removed(samples, s) ==
  LET found == {i \in DOMAIN samples : samples[i].id = s.id}
  IN  IF found = {} THEN samples ELSE RemoveAt(samples, Min(found))

\* TransformEdgeHistory: "order" is the order of arrival, "index" the samples
\* by authority.
EmptyEdge(authorities) == [order |-> <<>>, index |-> [a \in authorities |-> EmptyHistory]]

\* The sample that arrived first leaves the order and the index.
Evicted(edge) ==
  LET s == Head(edge.order)
  IN  [order |-> Tail(edge.order),
       index |-> [edge.index EXCEPT
          ![s.by][Part(s)] = Removed(@, s)]]

\* TransformEdgeHistory::insert
Inserted(edge, s, maximum) ==
  LET grown == [order |-> Append(edge.order, s),
                index |-> [edge.index EXCEPT ![s.by][Part(s)] = InsertedInOrder(@, s)]]
  IN  IF Len(grown.order) > maximum THEN Evicted(grown) ELSE grown

---------------------------------------------------------------------------
\* What an authority says of the edge: nothing, one sample, or two to
\* interpolate between; "reach" is how far it was extrapolated.
Silent == [samples |-> {}, reach |-> 0]

\* The latest static sample decides, and if it may not be used the authority
\* says nothing.
StaticAnswer(history) == {s \in {Last(history.static)} : s.usable}

\* An instant between two such samples is interpolated.
Bracketed(left, right) == left.at # right.at /\ left.epoch = right.epoch

\* resolve_authority_samples: interpolated, or else the sample before, or else
\* the one after, if it is near enough.
DynamicAnswer(samples, at, limit, epochs) ==
  LET eligible == {i \in DOMAIN samples : samples[i].usable /\ samples[i].epoch \in epochs}
      before == {i \in eligible : samples[i].at <= at}
      after == {i \in eligible : samples[i].at >= at}
      left == samples[Max(before)]
      right == samples[Min(after)]
      Single(s, distance) ==
        IF distance > limit THEN Silent ELSE [samples |-> {s}, reach |-> distance]
  IN  IF before # {} /\ after # {} /\ Bracketed(left, right)
      THEN [samples |-> {left, right}, reach |-> 0]
      ELSE CASE before # {} -> Single(left, at - left.at)
             [] before = {} /\ after # {} -> Single(right, right.at - at)
             [] OTHER -> Silent

\* resolve_edge, the answer of one authority.
Answer(history, at, limit, epochs) ==
  IF history.static # <<>>
  THEN [samples |-> StaticAnswer(history), reach |-> 0]
  ELSE DynamicAnswer(history.dynamic, at, limit, epochs)

\* The authorities that answer: more than one is a conflict.
Answering(edge, at, limit, epochs) ==
  {a \in DOMAIN edge.index : Answer(edge.index[a], at, limit, epochs).samples # {}}
=============================================================================
