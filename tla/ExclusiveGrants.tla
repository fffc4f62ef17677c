------------------------- MODULE ExclusiveGrants -------------------------
(***************************************************************************)
(* What the control-authority endpoints promise, without clocks, owners or *)
(* handlers: scopes are held under grants; a new grant takes an unused id  *)
(* and ends every grant it conflicts with in the same step; a grant that   *)
(* has ended is never held again.                                          *)
(***************************************************************************)
CONSTANTS Ids, Scopes, Conflict(_, _)

VARIABLES
  granted,  \* the ids ever granted
  held      \* the grants in force: id -> scope

grantVars == <<granted, held>>

Init == granted = {} /\ held = [id \in {} |-> {}]

\* Some grants end; the rest stay as they are.
End ==
  /\ granted' = granted
  /\ \E kept \in SUBSET DOMAIN held : held' = [i \in kept |-> held[i]]

Grant(id, scope) ==
  /\ id \notin granted
  /\ granted' = granted \cup {id}
  /\ \E kept \in SUBSET DOMAIN held :
       /\ \A i \in kept : ~Conflict(held[i], scope)
       /\ held' = [i \in kept \cup {id} |-> IF i = id THEN scope ELSE held[i]]

Next == End \/ \E id \in Ids, scope \in Scopes : Grant(id, scope)

Spec == Init /\ [][Next]_grantVars
=============================================================================
