------------------------- MODULE MCManagerShutdown -------------------------
(***************************************************************************)
(* Instances of ManagerShutdown: a Basic arm Provider, a motion Provider   *)
(* and an ordinary one.                                                    *)
(***************************************************************************)
EXTENDS ManagerShutdown
CONSTANTS basic, integrated, other

MCPlain == [configured |-> {basic, integrated, other}, adopted |-> {},
            lateStarts |-> FALSE, waitFails |-> FALSE]
MCAdopted == [configured |-> {basic, integrated}, adopted |-> {integrated},
              lateStarts |-> FALSE, waitFails |-> TRUE]
MCLate == [configured |-> {basic, integrated}, adopted |-> {},
           lateStarts |-> TRUE, waitFails |-> FALSE]
MCDeployments == {MCPlain, MCAdopted, MCLate}
MCPlainOnly == {MCPlain}
=============================================================================
