---------------------------- MODULE Coordination ----------------------------
(***************************************************************************)
(* Agents that work on one store: the mailbox and the consumption of       *)
(* handoffs, which meet in the one chain of receipts.  A process does one  *)
(* thing at a time.                                                        *)
(***************************************************************************)
EXTENDS Mailbox, HandoffConsumption

vars == <<chainVars, mail, consumption>>

Init == ChainInit /\ MailInit /\ ConsumptionInit

Next ==
  \/ \E p \in Procs : Correspond(p) /\ UNCHANGED consumption
  \/ \E p \in Consumers : Consume(p) /\ UNCHANGED mail
  \/ \E p \in Procs : Putting(p) /\ UNCHANGED <<mail, consumption>>

Spec == Init /\ [][Next]_vars

TypeOK == ChainTypeOK /\ MailTypeOK /\ ConsumptionTypeOK
=============================================================================
