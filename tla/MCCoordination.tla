--------------------------- MODULE MCCoordination ---------------------------
(***************************************************************************)
(* An instance of Coordination: two processes that send, receive and       *)
(* consume, up to two messages, one handoff and two identities, one of     *)
(* them the producer's.                                                    *)
(***************************************************************************)
EXTENDS Coordination, TLC

MCIds == ({"send", "receive"} \X Messages) \cup ({"passed", "denied"} \X Handoffs)

ProcSymm == Permutations(Procs)
=============================================================================
