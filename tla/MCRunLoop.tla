----------------------------- MODULE MCRunLoop -----------------------------
(***************************************************************************)
(* Instances of RunLoop for TLC: two tasks of one project, one locked to   *)
(* the directory src/ and one to a file below it.                          *)
(***************************************************************************)
EXTENDS RunLoop, TLC

CONSTANTS t1, t2

S == INSTANCE Scopes

MCTasks == {t1, t2}

\* The intent lock of each task.
LockOf(t) ==
  [project |-> "craik",
   inScope |-> IF t = t1 THEN {S!Item(<<"src">>, TRUE)}
               ELSE {S!Item(<<"src", "main.py">>, FALSE)}]

MCConflicts ==
  {p \in MCTasks \X MCTasks : p[1] # p[2] /\ S!LocksConflict(LockOf(p[1]), LockOf(p[2]))}

ASSUME MCConflicts # {}

MCNoBudget == NoBudget

\* The tasks are interchangeable (they conflict with each other and nothing
\* else tells them apart), and so are the executors.
Symm == Permutations(MCTasks) \cup Permutations(Execs)
=============================================================================
