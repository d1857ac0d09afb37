------------------------------ MODULE TaskRuns ------------------------------
(***************************************************************************)
(* The durable task-run record and the three ways                          *)
(* craik.runtime.work.runs.TaskRunManager changes it: create, transition   *)
(* and prepare_resume.  The module has no variables: RunLoop and           *)
(* HumanDecisions store the records and decide when each write happens.    *)
(*                                                                         *)
(* Kept of the record: status, the iteration counter and its limit, the    *)
(* provider-token meter and the completed step keys.  Left out: timing     *)
(* fields, phases (no decision reads them), identities and receipt ids.    *)
(***************************************************************************)
EXTENDS Integers

CONSTANTS
  NSteps,      \* length of the step plan handed to the loop
  TokenBudget  \* provider_token_budget, or NoBudget

NoBudget == -1

ASSUME TaskRunsAssumption ==
  /\ NSteps \in Nat
  /\ TokenBudget \in (Nat \ {0}) \cup {NoBudget}

Steps == 1 .. NSteps

\* Statuses of the contract, and the ones TaskRunManager treats as terminal.
Active   == {"pending", "running"}
Terminal == {"completed", "blocked", "failed", "interrupted"}
Statuses == {"absent"} \cup Active \cup Terminal

RunRecord == [status    : Statuses,
              iteration : Nat,
              max       : Nat,
              used      : Nat,
              remaining : Nat \cup {NoBudget},
              done      : SUBSET Steps]

\* The value of a run id the store does not know.
NoRun == [status |-> "absent", iteration |-> 0, max |-> 0, used |-> 0,
          remaining |-> NoBudget, done |-> {}]

\* TaskRunManager.create: a fresh pending record with a full token meter.
NewRun(max) ==
  [status |-> "pending", iteration |-> 0, max |-> max, used |-> 0,
   remaining |-> TokenBudget, done |-> {}]

(***************************************************************************)
(* A requested mutation (RunTransition).  Keep stands for a field the      *)
(* caller left at None, and step 0 for a mutation that completes no step.  *)
(***************************************************************************)
KeepStatus == "keep"
KeepIteration == -1

Transition == [status : {KeepStatus, "running"} \cup Terminal,
               iter   : Nat \cup {KeepIteration},
               delta  : Nat,
               step   : 0 .. NSteps]

Stop(status, iter) == [status |-> status, iter |-> iter, delta |-> 0, step |-> 0]
SpendTokens(n) ==
  [status |-> KeepStatus, iter |-> KeepIteration, delta |-> n, step |-> 0]
StepDone(iter, step) ==
  [status |-> "running", iter |-> iter, delta |-> 0, step |-> step]

NextIteration(run, tr) == IF tr.iter = KeepIteration THEN run.iteration ELSE tr.iter

\* The checks transition makes before it writes: the run exists, is not
\* terminal, and its iteration stays within its limit.
Accepts(run, tr) ==
  /\ run.status \in Active
  /\ NextIteration(run, tr) <= run.max

TokensLeft(used) ==
  IF TokenBudget = NoBudget THEN NoBudget
  ELSE IF used >= TokenBudget THEN 0 ELSE TokenBudget - used

\* The record transition writes, computed from the record it read.
Transitioned(run, tr) ==
  [status    |-> IF tr.status = KeepStatus THEN run.status ELSE tr.status,
   iteration |-> NextIteration(run, tr),
   max       |-> run.max,
   used      |-> run.used + tr.delta,
   remaining |-> TokensLeft(run.used + tr.delta),
   done      |-> IF tr.step = 0 THEN run.done ELSE run.done \cup {tr.step}]

\* (A bug: reopening whatever has stopped short of completion.)
ResumableUnlessCompleted(run) == run.status \in Terminal \ {"completed"}

\* TaskRunManager.prepare_resume: reopens an interrupted run and never lowers
\* its iteration limit.
Resumable(run) == run.status = "interrupted"
Reopened(run, max) ==
  [run EXCEPT !.status = "running", !.max = IF max > run.max THEN max ELSE run.max]
=============================================================================
