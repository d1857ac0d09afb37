--------------------------- MODULE ScopeDecisions ---------------------------
(***************************************************************************)
(* The protocol that scope_changes.py keeps: a run asks before it works    *)
(* outside its lock, an operator answers a request once, the run's lock    *)
(* becomes a wider one only when all of its expansions were answered so,   *)
(* and outside work waits for an answer that accepts it.  Which answers    *)
(* those are is a parameter.  The code takes three for it; its             *)
(* documentation lets two of them move the work out of the run, which      *)
(* HumanDecisions!AdjacentWorkLeaves states.                               *)
(***************************************************************************)
CONSTANTS
  Requests,
  Locks,
  TaskLock,     \* the lock the task was given
  ExpansionsOf, \* ExpansionsOf[lock]: the requests whose expansion led to it
  Decisions,    \* the answers
  Accepting     \* those that let the run work outside its lock

VARIABLES
  answer,  \* answer[id]: "unasked", "open" or what was decided
  lock,    \* the lock the run names
  working  \* the request whose items are worked on, if any

vars == <<answer, lock, working>>

Init ==
  /\ answer = [id \in Requests |-> "unasked"]
  /\ lock = TaskLock
  /\ working = {}

Ask(id) ==
  /\ answer[id] = "unasked"
  /\ answer' = [answer EXCEPT ![id] = "open"]
  /\ UNCHANGED <<lock, working>>

Answer(id, decision) ==
  /\ answer[id] = "open"
  /\ answer' = [answer EXCEPT ![id] = decision]
  /\ UNCHANGED <<lock, working>>

\* Also back to an earlier lock of the run.
Name(new) ==
  /\ \A id \in ExpansionsOf[new] : answer[id] = "expand"
  /\ lock' = new
  /\ UNCHANGED <<answer, working>>

Begin(id) ==
  /\ working = {}
  /\ answer[id] \in Accepting
  /\ working' = {id}
  /\ UNCHANGED <<answer, lock>>

End ==
  /\ working' = {}
  /\ UNCHANGED <<answer, lock>>

Next ==
  \/ End
  \/ \E new \in Locks : Name(new)
  \/ \E id \in Requests :
       \/ Ask(id) \/ Begin(id)
       \/ \E decision \in Decisions : Answer(id, decision)

Spec == Init /\ [][Next]_vars
=============================================================================
