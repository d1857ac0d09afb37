------------------------------ MODULE RunLoop ------------------------------
(***************************************************************************)
(* The governed single-agent loop (runtime/work/loop.py) and the handoff   *)
(* its caller leaves behind, as a set of executor processes that share one *)
(* store.                                                                  *)
(*                                                                         *)
(* One action is one write to the store or one decision; the reads a       *)
(* decision rests on are taken together.  TaskRunManager reads a run and   *)
(* writes it back without a transaction around the two, so every           *)
(* transition is a TransitionRead followed by a TransitionWrite, and       *)
(* another process may write the same run in between.  An operator cancels *)
(* runs; a process may crash, or stop on an exception nobody catches,      *)
(* anywhere.                                                               *)
(*                                                                         *)
(* A task has one run, whose id is derived from the task's id, so a task   *)
(* stands for its run.  Executing a task again overwrites its run and      *)
(* keeps its captured outputs.                                             *)
(***************************************************************************)
EXTENDS TaskRuns, FiniteSets

CONSTANTS
  Tasks,       \* tasks, each with its one run
  NoTask,      \* the task of an executor that drives nothing
  Execs,       \* processes that may drive a run (SingleAgentLoopExecutor.execute)
  Conflicts,   \* pairs of tasks whose intent locks overlap in one project
  Limits,      \* values a caller passes as max_iterations
  MaxDelta,    \* most tokens one provider call reports
  MaxCalls,    \* most dispatchable tool calls in one runner result
  TimeBudget,  \* TRUE when the runs carry a wall-clock budget
  Exclusive    \* TRUE when operators start, resume and cancel only runs that
               \* no process is driving; nothing in the code enforces it

ASSUME RunLoopAssumption ==
  /\ NoTask \notin Tasks
  /\ Conflicts \subseteq Tasks \X Tasks
  /\ \A t, u \in Tasks : <<t, u>> \in Conflicts => t # u /\ <<u, t>> \in Conflicts
  /\ Limits \subseteq Nat
  /\ MaxDelta \in Nat
  /\ MaxCalls \in Nat
  /\ TimeBudget \in BOOLEAN
  /\ Exclusive \in BOOLEAN

VARIABLES
  run,     \* run[t]: the stored task run
  outs,    \* <<t, step>>: an output carrying that step's idempotency key is stored
  finished, \* <<t, step>>: the runner has answered the step of the current run
           \* with a final "ok" (history, no counterpart in the store)
  late,    \* late[t]: the wall-clock budget of the run has elapsed
  cancel,  \* cancel[t]: the record a cancelling operator has read, or NoRun
  ex       \* ex[e]: local state of an executor

vars == <<run, outs, finished, late, cancel, ex>>

PCs == {"idle", "resume", "start", "step", "invoke", "tools", "dispatch",
        "capture", "read", "write", "handoff", "link"}

\* What the loop tells apart of a runner's status; "ok" is "completed" or
\* "partial".
Results == {"ok", "blocked", "failed"}

Local == [pc : PCs, task : Tasks \cup {NoTask}, resuming : BOOLEAN, max : Nat,
          idx : 0 .. NSteps + 1, iter : Nat, calls : Nat, told : BOOLEAN,
          denied : BOOLEAN, res : Results, tr : Transition,
          snap : RunRecord]

Idle ==
  [pc |-> "idle", task |-> NoTask, resuming |-> FALSE, max |-> 0, idx |-> 0, iter |-> 0,
   calls |-> 0, told |-> FALSE, denied |-> FALSE, res |-> "ok",
   tr |-> SpendTokens(0), snap |-> NoRun]

Init ==
  /\ run = [t \in Tasks |-> NoRun]
  /\ outs = {}
  /\ finished = {}
  /\ late = [t \in Tasks |-> FALSE]
  /\ cancel = [t \in Tasks |-> NoRun]
  /\ ex = [e \in Execs |-> Idle]

-----------------------------------------------------------------------------
(***************************************************************************)
(* What the loop asks before it acts.                                      *)
(***************************************************************************)

\* (A bug: counting only the runs that have begun a step as active.)
ConflictedRunningOnly(t) ==
  \E u \in Tasks : <<t, u>> \in Conflicts /\ run[u].status = "running"

\* Some other active run holds an overlapping intent lock.
Conflicted(t) ==
  \E u \in Tasks : <<t, u>> \in Conflicts /\ run[u].status \in Active

\* (A bug: stopping only once the budget has been passed.)
OverTokens(t) == TokenBudget # NoBudget /\ run[t].used > TokenBudget
OutOfTokens(t) == run[t].remaining = 0
OutOfTime(t)   == TimeBudget /\ late[t]

Driven(t) == \E e \in Execs : ex[e].pc # "idle" /\ ex[e].task = t
Free(t)   == Exclusive => ~Driven(t) /\ cancel[t] = NoRun

\* Local moves of an executor.
Become(e, local) == ex' = [ex EXCEPT ![e] = local]
Goto(e, pc)      == Become(e, [ex[e] EXCEPT !.pc = pc])
Leave(e)         == Become(e, Idle)
Request(e, tr)   == Become(e, [ex[e] EXCEPT !.pc = "read", !.tr = tr])
LeaveHandoff(e)  == Become(e, [Idle EXCEPT !.pc = "handoff", !.task = ex[e].task])

-----------------------------------------------------------------------------
(***************************************************************************)
(* Entering the loop: a fresh run, or an interrupted one reopened.         *)
(***************************************************************************)

\* The contract refuses a fresh run with no iteration to spend.
Start(e, t, m) ==
  /\ ex[e].pc = "idle"
  /\ m > 0
  /\ Free(t)
  /\ run' = [run EXCEPT ![t] = NewRun(m)]
  /\ late' = [late EXCEPT ![t] = FALSE]
  /\ Become(e, [Idle EXCEPT !.pc = "start", !.task = t, !.max = m])
  /\ finished' = finished \ ({t} \X Steps)
  /\ UNCHANGED <<outs, cancel>>

ResumeRead(e, t, m) ==
  /\ ex[e].pc = "idle"
  /\ Free(t)
  /\ Resumable(run[t])
  /\ Become(e, [Idle EXCEPT !.pc = "resume", !.task = t,
                                          !.resuming = TRUE, !.max = m, !.snap = run[t]])
  /\ UNCHANGED <<run, outs, finished, late, cancel>>

ResumeWrite(e) ==
  /\ ex[e].pc = "resume"
  /\ run' = [run EXCEPT ![ex[e].task] = Reopened(ex[e].snap, ex[e].max)]
  /\ Become(e, [ex[e] EXCEPT !.pc = "start", !.iter = ex[e].snap.iteration,
                                       !.snap = NoRun])
  /\ UNCHANGED <<outs, finished, late, cancel>>

\* The coordination check and the operator policy check, once per execution.
StartCheck(e) ==
  /\ ex[e].pc = "start"
  /\ \/ Request(e, Stop("blocked", 0))
     \/ /\ ~Conflicted(ex[e].task)
        /\ Become(e, [ex[e] EXCEPT !.pc = "step", !.idx = 1])
  /\ UNCHANGED <<run, outs, finished, late, cancel>>

-----------------------------------------------------------------------------
(***************************************************************************)
(* The head of a step.                                                     *)
(***************************************************************************)

\* (A bug: looking the step up under the next step's key.)
CapturedNext(e) == ex[e].resuming /\ <<ex[e].task, ex[e].idx + 1>> \in outs

Captured(e) == ex[e].resuming /\ <<ex[e].task, ex[e].idx>> \in outs

\* On a resumed run, a step with any captured output is taken as done.
SkipStep(e) ==
  /\ ex[e].pc = "step"
  /\ ex[e].idx \in Steps
  /\ Captured(e)
  /\ Become(e, [ex[e] EXCEPT !.idx = ex[e].idx + 1])
  /\ UNCHANGED <<run, outs, finished, late, cancel>>

\* Budgets, coordination and the iteration limit, in the code's order; then
\* what depends on the step: discovered scope nobody has decided on (see
\* HumanDecisions), and the stop condition or a missing side-effect grant.
Refusals == {"none", "scope", "stop"}

StepGuard(e, refusal) ==
  LET t == ex[e].task IN
  IF OutOfTime(t) \/ OutOfTokens(t) THEN Request(e, Stop("interrupted", ex[e].iter))
  ELSE IF Conflicted(t)              THEN Request(e, Stop("blocked", ex[e].idx - 1))
  ELSE IF ex[e].iter >= ex[e].max    THEN Request(e, Stop("interrupted", KeepIteration))
  ELSE IF refusal = "scope"          THEN Request(e, Stop("interrupted", ex[e].iter))
  ELSE IF refusal = "stop"           THEN Request(e, Stop("blocked", ex[e].idx - 1))
  ELSE Goto(e, "invoke")

BeginStep(e) ==
  /\ ex[e].pc = "step"
  /\ ex[e].idx \in Steps
  /\ ~Captured(e)
  /\ \E refusal \in Refusals : StepGuard(e, refusal)
  /\ UNCHANGED <<run, outs, finished, late, cancel>>

\* (A bug: leaving the loop before its last step.)
FinishLoopEarly(e) ==
  /\ ex[e].pc = "step"
  /\ ex[e].idx \notin 1 .. NSteps - 1
  /\ Request(e, Stop("completed", KeepIteration))
  /\ UNCHANGED <<run, outs, finished, late, cancel>>

FinishLoop(e) ==
  /\ ex[e].pc = "step"
  /\ ex[e].idx \notin Steps
  /\ Request(e, Stop("completed", KeepIteration))
  /\ UNCHANGED <<run, outs, finished, late, cancel>>

-----------------------------------------------------------------------------
(***************************************************************************)
(* One round of a step: ask the runner, run the tools it calls, capture.   *)
(***************************************************************************)

InvokeStopped(e) ==
  /\ ex[e].pc = "invoke"
  /\ \/ /\ OutOfTime(ex[e].task) \/ OutOfTokens(ex[e].task)
        /\ Request(e, Stop("interrupted", ex[e].iter))
     \/ /\ ~OutOfTime(ex[e].task) /\ ~OutOfTokens(ex[e].task)
        /\ ex[e].iter >= ex[e].max
        /\ Request(e, Stop("interrupted", KeepIteration))
  /\ UNCHANGED <<run, outs, finished, late, cancel>>

\* The wall clock, the token meter and the iteration limit, before each call.
MayInvoke(e) ==
  /\ ex[e].pc = "invoke"
  /\ ~OutOfTime(ex[e].task) /\ ~OutOfTokens(ex[e].task)
  /\ ex[e].iter < ex[e].max

\* (A bug: rounds after the first are not counted.)
InvokeUncounted(e, res, calls, delta) ==
  /\ MayInvoke(e)
  /\ Become(e,
       [ex[e] EXCEPT !.pc = IF delta > 0 THEN "read"
                        ELSE IF calls > 0 THEN "tools" ELSE "capture",
                 !.res = res, !.calls = calls,
                 !.told = FALSE, !.denied = FALSE, !.tr = SpendTokens(delta)])
  /\ UNCHANGED <<run, outs, finished, late, cancel>>

\* The runner answers with a status, tool calls and a token count; a count
\* above zero is recorded on the run before any tool is dispatched.
Invoke(e, res, calls, delta) ==
  /\ MayInvoke(e)
  /\ Become(e,
       [ex[e] EXCEPT !.pc = IF delta > 0 THEN "read"
                        ELSE IF calls > 0 THEN "tools" ELSE "capture",
                 !.iter = ex[e].iter + 1, !.res = res, !.calls = calls,
                 !.told = FALSE, !.denied = FALSE, !.tr = SpendTokens(delta)])
  /\ UNCHANGED <<run, outs, finished, late, cancel>>

\* Before each tool call: wall clock, then coordination.
ToolGuard(e) ==
  /\ ex[e].pc = "tools"
  /\ IF OutOfTime(ex[e].task) THEN Request(e, Stop("interrupted", ex[e].iter))
     ELSE IF Conflicted(ex[e].task)
          THEN Become(e, [ex[e] EXCEPT !.pc = "capture", !.denied = TRUE])
          ELSE Goto(e, "dispatch")
  /\ UNCHANGED <<run, outs, finished, late, cancel>>

\* (A bug: a denied tool call is tried again.)
DispatchAgain(e, allowed) ==
  /\ ex[e].pc = "dispatch"
  /\ Become(e,
       [ex[e] EXCEPT !.pc = IF ~allowed \/ ex[e].calls > 1 THEN "tools" ELSE "capture",
                 !.calls = IF allowed THEN ex[e].calls - 1 ELSE ex[e].calls, !.told = TRUE])
  /\ UNCHANGED <<run, outs, finished, late, cancel>>

\* The tool runs, or its grant is denied; either way the model is told.
Dispatch(e, allowed) ==
  /\ ex[e].pc = "dispatch"
  /\ Become(e,
       [ex[e] EXCEPT !.pc = IF allowed /\ ex[e].calls > 1 THEN "tools" ELSE "capture",
                 !.calls = ex[e].calls - 1, !.told = TRUE, !.denied = ~allowed])
  /\ UNCHANGED <<run, outs, finished, late, cancel>>

\* (A bug: a tool round that went well is taken for the end of the step.)
AfterCaptureOnce(e) ==
  IF ex[e].denied THEN Request(e, Stop("blocked", ex[e].iter))
  ELSE IF ex[e].res # "ok" THEN Request(e, Stop(ex[e].res, ex[e].iter))
  ELSE Request(e, StepDone(ex[e].iter, ex[e].idx))

\* The round's output is stored under the step's key; what follows depends on
\* a denied tool, the runner's status and whether a tool answered.
AfterCapture(e) ==
  IF ex[e].denied THEN Request(e, Stop("blocked", ex[e].iter))
  ELSE IF ex[e].res # "ok" THEN Request(e, Stop(ex[e].res, ex[e].iter))
  ELSE IF ex[e].told THEN Goto(e, "invoke")
  ELSE Request(e, StepDone(ex[e].iter, ex[e].idx))

\* No tool was called or denied and the runner is content: the step is over.
Final(e) == ex[e].res = "ok" /\ ~ex[e].told /\ ~ex[e].denied

\* (A bug: the key counts steps from zero.)
CaptureFromZero(e) ==
  /\ ex[e].pc = "capture"
  /\ outs' = outs \cup {<<ex[e].task, ex[e].idx - 1>>}
  /\ finished' = IF Final(e) THEN finished \cup {<<ex[e].task, ex[e].idx>>} ELSE finished
  /\ AfterCapture(e)
  /\ UNCHANGED <<run, late, cancel>>

\* (A bug: a round that called no tool leaves no output.)
CaptureToolRounds(e) ==
  /\ ex[e].pc = "capture"
  /\ outs' = IF ex[e].told THEN outs \cup {<<ex[e].task, ex[e].idx>>} ELSE outs
  /\ finished' = IF Final(e) THEN finished \cup {<<ex[e].task, ex[e].idx>>} ELSE finished
  /\ AfterCapture(e)
  /\ UNCHANGED <<run, late, cancel>>

\* An output's id is made of the run and the step's phase, so that it replaces
\* the output of an earlier round.  That no step replaces another one's takes a
\* plan whose steps are of different phases, as default_loop_steps are.
Capture(e) ==
  /\ ex[e].pc = "capture"
  /\ outs' = outs \cup {<<ex[e].task, ex[e].idx>>}
  /\ finished' = IF Final(e) THEN finished \cup {<<ex[e].task, ex[e].idx>>} ELSE finished
  /\ AfterCapture(e)
  /\ UNCHANGED <<run, late, cancel>>

-----------------------------------------------------------------------------
(***************************************************************************)
(* TaskRunManager.transition, in its two store accesses.                   *)
(***************************************************************************)

\* A rejected transition raises, which ends the execution.
TransitionRead(e) ==
  /\ ex[e].pc = "read"
  /\ IF Accepts(run[ex[e].task], ex[e].tr)
     THEN Become(e, [ex[e] EXCEPT !.pc = "write", !.snap = run[ex[e].task]])
     ELSE Leave(e)
  /\ UNCHANGED <<run, outs, finished, late, cancel>>

\* Where the loop goes on: to the tools after the token count, to the next
\* step after a completed one; every other transition ends it, and the caller
\* writes a handoff.
Resumed(e) ==
  CASE ex[e].tr.status = KeepStatus ->
         Become(e, [ex[e] EXCEPT !.snap = NoRun, !.tr = SpendTokens(0),
                  !.pc = IF ex[e].calls > 0 THEN "tools" ELSE "capture"])
    [] ex[e].tr.status = "running" ->
         Become(e, [ex[e] EXCEPT !.snap = NoRun, !.tr = SpendTokens(0),
                  !.pc = "step", !.idx = ex[e].idx + 1])
    [] OTHER -> LeaveHandoff(e)

TransitionWrite(e) ==
  /\ ex[e].pc = "write"
  /\ run' = [run EXCEPT ![ex[e].task] = Transitioned(ex[e].snap, ex[e].tr)]
  /\ Resumed(e)
  /\ UNCHANGED <<outs, finished, late, cancel>>

-----------------------------------------------------------------------------
(***************************************************************************)
(* HandoffWriter.create_from_run: the run is read, the handoff is stored,  *)
(* and the run is stored as it was read, with the handoff's id.  A         *)
(* wall-clock stop raises past it (Crash).                                 *)
(***************************************************************************)

HandoffRead(e) ==
  /\ ex[e].pc = "handoff"
  /\ Become(e, [ex[e] EXCEPT !.pc = "link", !.snap = run[ex[e].task]])
  /\ UNCHANGED <<run, outs, finished, late, cancel>>

HandoffWrite(e) ==
  /\ ex[e].pc = "link"
  /\ run' = [run EXCEPT ![ex[e].task] = ex[e].snap]
  /\ Leave(e)
  /\ UNCHANGED <<outs, finished, late, cancel>>

-----------------------------------------------------------------------------
(***************************************************************************)
(* The environment: a process dies, the clock runs out, an operator        *)
(* cancels.                                                                *)
(***************************************************************************)

Crash(e) ==
  /\ ex[e].pc # "idle"
  /\ Leave(e)
  /\ UNCHANGED <<run, outs, finished, late, cancel>>

Expire(t) ==
  /\ TimeBudget /\ run[t] # NoRun /\ ~late[t]
  /\ late' = [late EXCEPT ![t] = TRUE]
  /\ UNCHANGED <<run, outs, finished, cancel, ex>>

\* The command looks at the run and transition reads it again; the two looks
\* are one here, since only the iteration written back could tell them apart.
CancelRead(t) ==
  /\ Free(t)
  /\ cancel[t] = NoRun
  /\ run[t].status \in Active
  /\ cancel' = [cancel EXCEPT ![t] = run[t]]
  /\ UNCHANGED <<run, outs, finished, late, ex>>

CancelWrite(t) ==
  /\ cancel[t] # NoRun
  /\ run' = [run EXCEPT ![t] =
              Transitioned(cancel[t], Stop("interrupted", cancel[t].iteration))]
  /\ cancel' = [cancel EXCEPT ![t] = NoRun]
  /\ UNCHANGED <<outs, finished, late, ex>>

-----------------------------------------------------------------------------
\* The moves an executor makes by itself once it has been started.
Drive(e) ==
  \/ ResumeWrite(e)
  \/ StartCheck(e)
  \/ SkipStep(e)
  \/ BeginStep(e)
  \/ FinishLoop(e)
  \/ InvokeStopped(e)
  \/ \E res \in Results, calls \in 0 .. MaxCalls, delta \in 0 .. MaxDelta :
       Invoke(e, res, calls, delta)
  \/ ToolGuard(e)
  \/ \E allowed \in BOOLEAN : Dispatch(e, allowed)
  \/ Capture(e)
  \/ TransitionRead(e)
  \/ TransitionWrite(e)
  \/ HandoffRead(e)
  \/ HandoffWrite(e)

Next ==
  \/ \E e \in Execs, t \in Tasks, m \in Limits : Start(e, t, m) \/ ResumeRead(e, t, m)
  \/ \E e \in Execs : Drive(e) \/ Crash(e)
  \/ \E t \in Tasks : Expire(t) \/ CancelRead(t) \/ CancelWrite(t)

Spec == Init /\ [][Next]_vars

\* A live process keeps running: the loop waits only for the runner and for
\* tools, which carry timeouts of their own.  Nobody has to start, resume or
\* cancel anything, and a process may still crash.
FairSpec == Spec /\ \A e \in Execs : WF_vars(Drive(e))

-----------------------------------------------------------------------------
(***************************************************************************)
(* Properties.                                                             *)
(***************************************************************************)

\* Every variable stays in its type.
TypeOK ==
  /\ run \in [Tasks -> RunRecord]
  /\ outs \subseteq Tasks \X Steps
  /\ finished \subseteq Tasks \X Steps
  /\ late \in [Tasks -> BOOLEAN]
  /\ cancel \in [Tasks -> RunRecord]
  /\ ex \in [Execs -> Local]

\* An executor is admitted once it has passed the start check of its run.
Admitted(e) == ex[e].idx # 0

\* Two admitted executors never work under overlapping intent locks.  The code
\* has no lock around "list the runs, then proceed": it holds because a run is
\* stored as active before its first check (intent_locks.py).  It needs
\* Exclusive: cancelling a run that a process still drives breaks it.
OverlapExcluded ==
  \A e, f \in Execs :
    e # f /\ Admitted(e) /\ Admitted(f) => <<ex[e].task, ex[f].task>> \notin Conflicts

\* A step whose completion the run records is never driven again, whatever
\* crashed and was resumed in between (loop.py's replay check, replay.py).
\* Needs Exclusive: two processes resuming one run both drive it.
NoRecordedStepDriven ==
  \A e \in Execs :
    ex[e].pc \in {"invoke", "tools", "dispatch", "capture"}
      => ex[e].idx \notin run[ex[e].task].done

\* The recorded spend passes the token budget by less than one provider call:
\* the meter is read before each call and written before the next.  Needs
\* Exclusive: two processes may both pass the check before either writes.
TokensBounded ==
  TokenBudget # NoBudget =>
    \A t \in Tasks : run[t].used < TokenBudget + MaxDelta

\* A step is recorded as completed only after its output is stored, so a crash
\* between the two leaves the output and not the claim.
DoneCaptured == \A t \in Tasks : \A s \in run[t].done : <<t, s>> \in outs

\* A completed run has a stored output for every step of its plan, under every
\* interleaving of executors, cancellations, crashes and stale writes.
CompletedCaptured ==
  \A t \in Tasks : run[t].status = "completed" => \A s \in Steps : <<t, s>> \in outs

\* A step is recorded as completed only after the runner has answered it with a
\* final "ok" and called no tool: the record knows more than the outputs, from
\* which replay wrongly concludes the same (CompletedMeansFinished).  Needs
\* Exclusive: a stale write may bring back the steps of an earlier run.
RecordedMeansFinished ==
  \A t \in Tasks : \A s \in run[t].done : <<t, s>> \in finished

\* An execution that was not resumed reports its run completed only when the
\* runner has finished every step of the plan.  Needs Exclusive, too.
FreshRunFinishes ==
  \A e \in Execs :
    ex[e].pc \in {"read", "write"} /\ ex[e].tr.status = "completed" /\ ~ex[e].resuming
      => \A s \in Steps : <<ex[e].task, s>> \in finished

\* The run records implement the lifecycle of RunLifecycle: a stopped run
\* moves again only by being resumed or executed afresh, and no step is
\* completed twice.  Needs Exclusive: a stale write revives a stopped run.
Lifecycle == INSTANCE RunLifecycle WITH
  status <- [t \in Tasks |-> run[t].status],
  done   <- [t \in Tasks |-> run[t].done]

LifecycleSpec == Lifecycle!Spec

(***************************************************************************)
(* How far an execution is from its end, compared from left to right: the  *)
(* stretch of the program it is in, the steps of the plan before it, the   *)
(* rounds its iteration limit leaves, and its way through the round.       *)
(***************************************************************************)
InLoop(l) ==
  \/ l.pc \in {"step", "invoke", "tools", "dispatch", "capture"}
  \/ l.pc \in {"read", "write"} /\ l.tr.status \in {KeepStatus, "running"}

Stage(l) ==
  CASE InLoop(l)                -> 3
    [] l.pc = "idle"            -> 0
    [] l.pc = "resume"          -> 5
    [] l.pc = "start"           -> 4
    [] l.pc \in {"read", "write"} /\ ~InLoop(l) -> 2
    [] OTHER                    -> 1

\* A round: ask, record the tokens, two moves for each tool call, capture.
WayThrough(l) ==
  CASE l.pc = "step"     -> 4
    [] l.pc = "tools"    -> 2 * l.calls + 4
    [] l.pc = "dispatch" -> 2 * l.calls + 3
    [] l.pc = "capture"  -> 3
    [] l.pc = "invoke"   -> 2
    [] l.pc = "read"     -> IF l.tr.status = KeepStatus THEN 2 * l.calls + 6 ELSE 1
    [] l.pc = "write"    -> IF l.tr.status = KeepStatus THEN 2 * l.calls + 5 ELSE 0
    [] l.pc = "handoff"  -> 1
    [] OTHER             -> 0

Distance(l) ==
  [stage  |-> Stage(l),
   steps  |-> NSteps + 1 - l.idx,
   rounds |-> IF l.iter < l.max THEN l.max - l.iter ELSE 0,
   way    |-> WayThrough(l)]

Nearer(c, d) ==
  \/ c.stage < d.stage
  \/ c.stage = d.stage /\ c.steps < d.steps
  \/ c.stage = d.stage /\ c.steps = d.steps /\ c.rounds < d.rounds
  \/ c.stage = d.stage /\ c.steps = d.steps /\ c.rounds = d.rounds /\ c.way < d.way

\* Nothing takes an execution away from its end: not a tool round, whose
\* repetition the loop does not count in the step but in the iteration, not a
\* skipped step of a resumed run, and no other process.
NearsItsEnd ==
  [][\A e \in Execs :
       ex[e].pc # "idle" /\ ex'[e] # ex[e] => Nearer(Distance(ex'[e]), Distance(ex[e]))]_vars

\* Every execution that is not abandoned returns or raises: the rounds of tool
\* calls and the steps cannot go on for ever.
ExecutionEnds == \A e \in Execs : ex[e].pc # "idle" ~> ex[e].pc = "idle"

(***************************************************************************)
(* Claims the code does not meet.                                          *)
(***************************************************************************)

\* README.md:136, "can resume from completed phase boundaries": a run is
\* completed only when the runner has finished every step of its plan.
CompletedMeansFinished ==
  \A t \in Tasks :
    run[t].status = "completed" => \A s \in Steps : <<t, s>> \in finished

\* docs/reference/run-state.md:70, "terminal runs cannot transition again".
\* Creating the run afresh and reopening an interrupted one are not transitions.
TerminalStays ==
  [][\A t \in Tasks :
       run[t].status \in {"completed", "blocked", "failed"} /\ run'[t] # run[t]
         => run'[t].status = "pending" /\ run'[t].done = {}]_run
=============================================================================
