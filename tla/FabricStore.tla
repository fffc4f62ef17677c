---------------------------- MODULE FabricStore ----------------------------
(***************************************************************************)
(* The World State Fabric as its publishers see it: observations arrive    *)
(* lost, late, repeated or out of order, a stream drops what it has        *)
(* already passed, and the accepted samples of one directed edge are kept  *)
(* and evicted in the order of their arrival.                              *)
(*                                                                         *)
(* Each authority publishes the edge on a stream of its own, with sequence *)
(* numbers and observation times that grow together; after a restart it    *)
(* has a new boot id and counts from one again, here "n" counts on.        *)
(***************************************************************************)
EXTENDS TransformEdge, FiniteSets

CONSTANTS
  Authorities,              \* the publishers of the edge
  Publishes,                \* the kinds of sample each of them publishes
  HistoryPerStream,         \* FABRIC_HISTORY_PER_STREAM
  TransformHistoryPerEdge,  \* FABRIC_TRANSFORM_HISTORY_PER_EDGE
  MaxSent,                  \* bound: observations of an authority
  MaxBoot,                  \* bound: boots of an authority
  MaxAccepted,              \* bound: observations accepted
  None

Kinds == UNION {Publishes[a] : a \in Authorities}
Observation == [by : Authorities, boot : 1 .. MaxBoot, n : 1 .. MaxSent, kind : Kinds]

VARIABLES
  boot,      \* the current boot of each authority
  sent,      \* observations published, which may arrive at any time
  latest,    \* store.latest, by stream
  history,   \* store.history, by stream
  edge,      \* store.transforms[key]
  accepted,  \* store.accepted and next_transform_insertion_id
  newest     \* history variable: the newest observation accepted of each authority

vars == <<boot, sent, latest, history, edge, accepted, newest>>

Init ==
  /\ boot = [a \in Authorities |-> 1]
  /\ sent = {}
  /\ latest = [a \in Authorities |-> None]
  /\ history = [a \in Authorities |-> <<>>]
  /\ edge = EmptyEdge(Authorities)
  /\ accepted = 0
  /\ newest = [a \in Authorities |-> None]

Restart(a) ==
  /\ boot[a] < MaxBoot
  /\ boot' = [boot EXCEPT ![a] = @ + 1]
  /\ UNCHANGED <<sent, latest, history, edge, accepted, newest>>

Publish(a, kind) ==
  /\ \E n \in 1 .. MaxSent :
       /\ n = 1 + Cardinality({m \in sent : m.by = a})
       /\ sent' = sent \cup {[by |-> a, boot |-> boot[a], n |-> n, kind |-> kind]}
  /\ UNCHANGED <<boot, latest, history, edge, accepted, newest>>

\* Mutant: only an exact repetition is recognised.
PassedExactly(m) ==
  /\ latest[m.by] # None
  /\ latest[m.by].boot = m.boot
  /\ m.n = latest[m.by].n

\* The stream has already passed this sequence number in this boot.
Passed(m) ==
  /\ latest[m.by] # None
  /\ latest[m.by].boot = m.boot
  /\ m.n <= latest[m.by].n

Recent(seq) ==
  IF Len(seq) > HistoryPerStream THEN Tail(seq) ELSE seq

SampleOf(m, id) == [by |-> m.by, at |-> m.n, id |-> id, static |-> m.kind.static,
                    usable |-> m.kind.usable, epoch |-> m.kind.epoch]

\* insert_observation_locked, of an observation that is well formed.
Accept(m) ==
  /\ m \in sent
  /\ ~Passed(m)
  /\ accepted < MaxAccepted
  /\ latest' = [latest EXCEPT ![m.by] = m]
  /\ history' = [history EXCEPT ![m.by] = Recent(Append(@, m))]
  /\ edge' = Inserted(edge, SampleOf(m, accepted), TransformHistoryPerEdge)
  /\ accepted' = accepted + 1
  /\ newest' = [newest EXCEPT ![m.by] = IF @ = None \/ @.n < m.n THEN m ELSE @]
  /\ UNCHANGED <<boot, sent>>

Next ==
  \/ \E a \in Authorities : Restart(a) \/ \E kind \in Publishes[a] : Publish(a, kind)
  \/ \E m \in sent : Accept(m)

Spec == Init /\ [][Next]_vars

---------------------------------------------------------------------------
\* Every variable has its type, and nothing is kept beyond its bound.
TypeOK ==
  /\ boot \in [Authorities -> 1 .. MaxBoot]
  /\ sent \subseteq Observation
  /\ \A a \in Authorities :
       /\ latest[a] \in Observation \cup {None}
       /\ history[a] \in Seq(Observation) /\ Len(history[a]) <= HistoryPerStream
       /\ newest[a] \in Observation \cup {None}
  /\ Len(edge.order) <= TransformHistoryPerEdge
  /\ accepted \in 0 .. MaxAccepted

Elements(seq) == {seq[i] : i \in DOMAIN seq}

\* The index by authority never parts from the samples retained: it holds
\* those and no others, each in its part and in the order of observation,
\* whatever arrives late and whatever is evicted.
IndexIsTheOrder ==
  \A a \in Authorities, part \in {"static", "dynamic"} :
    LET samples == edge.index[a][part]
    IN  /\ Elements(samples) = {s \in Elements(edge.order) : s.by = a /\ Part(s) = part}
        /\ \A i, j \in DOMAIN samples : i < j => Precedes(samples[i], samples[j])

\* http_api.md: a withdrawn static edge suppresses the older ones.  Late
\* samples, other authorities, their restarts and eviction do not bring it back;
\* a restart of its own publisher might.  (The largest limit silences least.)
WithdrawalHolds ==
  \A a \in Authorities :
    boot[a] = 1 /\ newest[a] # None /\ newest[a].kind.static /\ ~newest[a].kind.usable =>
      \A at \in 1 .. MaxSent :
        Answer(edge.index[a], at, MaxSent, {k.epoch : k \in Kinds}).samples = {}

\* No answer blends two session epochs, or uses a sample that may not be used.
EpochsAreNotBlended ==
  \A a \in Authorities, at \in 1 .. MaxSent :
    LET used == Answer(edge.index[a], at, MaxSent, {k.epoch : k \in Kinds}).samples
    IN  \A s, t \in used : s.usable /\ s.epoch = t.epoch
=============================================================================
