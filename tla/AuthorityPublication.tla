----------------------- MODULE AuthorityPublication -----------------------
(***************************************************************************)
(* ControlAuthority composed with what every handler and the expiry loop   *)
(* do after they drop the lease mutex: publish_control_authority_resource  *)
(* of each changed resource, one after the other, to the World State       *)
(* Fabric, which keeps the observation of the greatest sequence.  The      *)
(* sequence is taken before the view is read, and the view is read under   *)
(* two mutexes in turn.                                                    *)
(***************************************************************************)
EXTENDS ControlAuthority

CONSTANTS
  Sweeper,     \* the heartbeat_expiry_loop task
  MaxStamp     \* bound: no new publishing request after this many publications

ASSUME SweeperIsNoHandler == Sweeper \notin Handlers
ASSUME StampBound == MaxStamp \in Nat

Workers == Handlers \cup {Sweeper}

VARIABLES
  stage,        \* what a worker does about the Fabric
  ahead, last,  \* the resources it has to publish, and the one it ends with
  stamp,        \* number of sequences taken from timestamp_micros()
  draft,        \* the observation it is composing
  fabric,       \* the Fabric's latest observation of each resource's stream
  lost          \* history: the greatest sequence of each whose POST failed

vars == <<authorityVars, stage, ahead, last, stamp, draft, fabric, lost>>
publication == <<stage, ahead, last, stamp, draft, fabric, lost>>

Observation == [resource : Resources, sequence : Nat,
                active : SUBSET LeaseIds, generation : Nat]

PInit ==
  /\ Init
  /\ stage = [w \in Workers |-> "none"]
  /\ ahead = [w \in Workers |-> {}]
  /\ last = [w \in Workers |-> {}]
  /\ stamp = 0
  /\ draft = [w \in Workers |-> None]
  /\ fabric = [r \in Resources |-> [resource |-> r, sequence |-> 0,
                                    active |-> {}, generation |-> 0]]
  /\ lost = [r \in Resources |-> 0]

---------------------------------------------------------------------------
\* Worker w goes on to publish the resources `before`, in any order, then `own`.
Publish(w, before, own) ==
  /\ stage' = [stage EXCEPT ![w] = "stamp"]
  /\ ahead' = [ahead EXCEPT ![w] = before]
  /\ last' = [last EXCEPT ![w] = own]
  /\ UNCHANGED <<stamp, draft, fabric, lost>>

\* A handler takes a request when it has published what the last one changed.
PRequest(h) ==
  /\ stage[h] = "none"
  /\ stamp < MaxStamp
  /\ \/ /\ \/ \E r \in Resources, o \in Owners, p \in BOOLEAN, d \in Durations :
               AdmitAcquire(h, r, o, p, d)
           \/ \E id \in LeaseIds, o \in Owners, d \in Durations : AdmitRenew(h, id, o, d)
        /\ UNCHANGED publication
     \/ \E id \in LeaseIds, o \in Owners :
          /\ Release(h, id, o)
          /\ Publish(h, {}, {leases[id].resource})

PRefuse(h) == (RefuseAcquire(h) \/ RefuseRenew(h)) /\ UNCHANGED publication

PGrant(h) ==
  LET c == call[h]
      swept == Swept(leases, c.at)
  IN  /\ \E id \in LeaseIds : GrantAcquire(h, id)
      /\ Publish(h, {swept[i].resource : i \in Rivals(swept, c.resource)}, {c.resource})

PRenew(h) == Renew(h) /\ Publish(h, {}, {leases[call[h].lease].resource})

\* get_control_authority_resource drops the set of resources its sweep changed.
PView == Sweep /\ UNCHANGED publication

\* heartbeat_expiry_loop publishes it.
PSweep ==
  /\ stage[Sweeper] = "none"
  /\ Sweep
  /\ Publish(Sweeper, {leases[id].resource : id \in Lapsed(leases, clock)}, {})

PClock == (Tick \/ RaiseFence) /\ UNCHANGED publication

---------------------------------------------------------------------------
Remaining(w) == IF ahead[w] # {} THEN ahead[w] ELSE last[w]

\* sequence = now_us, taken before the view.
Stamp(w) ==
  /\ stage[w] = "stamp"
  /\ stage' = [stage EXCEPT ![w] = "leases"]
  /\ stamp' = stamp + 1
  /\ \E r \in Remaining(w) :
       /\ draft' = [draft EXCEPT ![w] = [resource |-> r, sequence |-> stamp + 1,
                                         active |-> {}, generation |-> 0]]
       /\ ahead' = [ahead EXCEPT ![w] = @ \ {r}]
       /\ last' = [last EXCEPT ![w] = IF ahead[w] # {} THEN @ ELSE {}]
  /\ UNCHANGED <<authorityVars, fabric, lost>>

\* active_lease: the newest active lease of exactly this resource, if any.
ActiveLease(r) ==
  LET held == {id \in Active(leases) : leases[id].resource = r}
  IN  {id \in held : \A other \in held : leases[other].generation <= leases[id].generation}

ReadLeases(w) ==
  /\ stage[w] = "leases"
  /\ stage' = [stage EXCEPT ![w] = "generation"]
  /\ draft' = [draft EXCEPT ![w].active = ActiveLease(draft[w].resource)]
  /\ UNCHANGED <<authorityVars, ahead, last, stamp, fabric, lost>>

\* Mutant: the sequence is taken when the observation is complete.
ReadGenerationThenStamp(w) ==
  /\ stage[w] = "generation"
  /\ stage' = [stage EXCEPT ![w] = "post"]
  /\ stamp' = stamp + 1
  /\ draft' = [draft EXCEPT ![w].generation = generations[draft[w].resource],
                            ![w].sequence = stamp + 1]
  /\ UNCHANGED <<authorityVars, ahead, last, fabric, lost>>

\* latest_fencing_generation is read after the lease mutex is dropped.
ReadGeneration(w) ==
  /\ stage[w] = "generation"
  /\ stage' = [stage EXCEPT ![w] = "post"]
  /\ draft' = [draft EXCEPT ![w].generation = generations[draft[w].resource]]
  /\ UNCHANGED <<authorityVars, ahead, last, stamp, fabric, lost>>

\* The POST has been answered, or given up; the next resource follows.
Posted(w) ==
  /\ stage[w] = "post"
  /\ stage' = [stage EXCEPT ![w] = IF ahead[w] \cup last[w] = {} THEN "none" ELSE "stamp"]
  /\ draft' = [draft EXCEPT ![w] = None]
  /\ UNCHANGED <<authorityVars, ahead, last, stamp>>

\* insert_observation_locked: within one boot a stream's latest observation is
\* replaced only by one of a greater sequence.
Supersedes(new, old) == new.sequence > old.sequence

Post(w) ==
  LET d == draft[w]
  IN  /\ Posted(w)
      /\ fabric' = IF Supersedes(d, fabric[d.resource])
                   THEN [fabric EXCEPT ![d.resource] = d] ELSE fabric
      /\ UNCHANGED lost

\* The Fabric is unreachable or answers an error: a warning is logged.
PostFails(w) ==
  LET d == draft[w]
  IN  /\ Posted(w)
      /\ lost' = [lost EXCEPT ![d.resource] = IF d.sequence > @ THEN d.sequence ELSE @]
      /\ UNCHANGED fabric

---------------------------------------------------------------------------
PublishStep(w) == Stamp(w) \/ ReadLeases(w) \/ ReadGeneration(w) \/ Post(w) \/ PostFails(w)

PNext ==
  \/ PClock
  \/ PView
  \/ PSweep
  \/ \E h \in Handlers : PRequest(h) \/ PRefuse(h) \/ PGrant(h) \/ PRenew(h)
  \/ \E w \in Workers : PublishStep(w)

PSpec == PInit /\ [][PNext]_vars

---------------------------------------------------------------------------
\* Every publication variable has its type, and a worker past its stamp holds
\* the observation it is composing.
PublicationTypeOK ==
  /\ TypeOK
  /\ stage \in [Workers -> {"none", "stamp", "leases", "generation", "post"}]
  /\ ahead \in [Workers -> SUBSET Resources]
  /\ last \in [Workers -> SUBSET Resources]
  /\ stamp \in Nat
  /\ draft \in [Workers -> Observation \cup {None}]
  /\ fabric \in [Resources -> Observation]
  /\ lost \in [Resources -> Nat]
  /\ \A w \in Workers :
       stage[w] \in {"leases", "generation", "post"} => draft[w] \in Observation

\* A view that reaches the Fabric never shows an active lease newer than the
\* latest generation of the same view, although the two are read under
\* different mutexes.
ViewsAreCoherent ==
  \A r \in Resources : \A id \in fabric[r].active :
    leases[id].generation <= fabric[r].generation

\* Once every publication in flight has ended, the Fabric shows every active
\* lease of a resource, and shows none that was released or preempted, whatever
\* order the stamped views were read and posted in, and whatever POSTs failed
\* before the latest one that arrived.  An expired one may linger: the sweeps of
\* acquire, renew and GET are not published.
FabricConverges ==
  (\A w \in Workers : stage[w] = "none") =>
    \A r \in Resources : fabric[r].sequence >= lost[r] =>
      /\ \A id \in Active(leases) : leases[id].resource = r => id \in fabric[r].active
      /\ \A id \in fabric[r].active : leases[id].state \in {"ACTIVE", "EXPIRED"}
=============================================================================
