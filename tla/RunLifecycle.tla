---------------------------- MODULE RunLifecycle ----------------------------
(***************************************************************************)
(* What docs/reference/run-state.md promises of a task run: it is created  *)
(* pending, moves only while it is active, completes each step once, and   *)
(* leaves a terminal status only by being resumed from "interrupted" or    *)
(* executed afresh.                                                        *)
(***************************************************************************)
CONSTANTS Tasks, Steps

VARIABLES status, done

vars == <<status, done>>

Active == {"pending", "running"}
Stopped == {"completed", "blocked", "failed", "interrupted"}

Init ==
  /\ status = [t \in Tasks |-> "absent"]
  /\ done = [t \in Tasks |-> {}]

Create(t) ==
  /\ status' = [status EXCEPT ![t] = "pending"]
  /\ done' = [done EXCEPT ![t] = {}]

CompleteStep(t, s) ==
  /\ status[t] \in Active
  /\ s \notin done[t]
  /\ status' = [status EXCEPT ![t] = "running"]
  /\ done' = [done EXCEPT ![t] = @ \cup {s}]

End(t, how) ==
  /\ status[t] \in Active
  /\ status' = [status EXCEPT ![t] = how]
  /\ UNCHANGED done

Reopen(t) ==
  /\ status[t] = "interrupted"
  /\ status' = [status EXCEPT ![t] = "running"]
  /\ UNCHANGED done

Next ==
  \E t \in Tasks :
    \/ Create(t)
    \/ \E s \in Steps : CompleteStep(t, s)
    \/ \E how \in Stopped : End(t, how)
    \/ Reopen(t)

Spec == Init /\ [][Next]_vars
=============================================================================
