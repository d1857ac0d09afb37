----------------------------- MODULE MCHookGate -----------------------------
(***************************************************************************)
(* An instance of HookGate: two tool calls made in parallel, the stdin     *)
(* loop and one operator at a command line.  A bound on the receipts keeps *)
(* it small; it takes no step from the bridge, its clients or the session. *)
(* With two of them a call can be answered twice, or both calls once.      *)
(***************************************************************************)
EXTENDS HookGate

CONSTANT MaxReceipts  \* how many receipts are stored

FewReceipts == Cardinality(receipts) <= MaxReceipts

MCSpec == Init /\ [][Next /\ FewReceipts']_vars /\ Fairness
=============================================================================
