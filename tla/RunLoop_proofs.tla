--------------------------- MODULE RunLoop_proofs ---------------------------
(***************************************************************************)
(* Theorems about RunLoop, for every number of tasks, executors and steps. *)
(***************************************************************************)
EXTENDS RunLoop, TLAPS, WellFoundedInduction

\* The record operators of TaskRuns stay inside the record type.
LEMMA RecordTypes ==
  /\ NoRun \in RunRecord
  /\ \A m \in Nat : NewRun(m) \in RunRecord
  /\ \A r \in RunRecord, m \in Nat : Reopened(r, m) \in RunRecord
  /\ \A r \in RunRecord, tr \in Transition : Transitioned(r, tr) \in RunRecord
<1> USE TaskRunsAssumption DEF RunRecord, Statuses, Active, Terminal, NoBudget
<1>1. NoRun \in RunRecord
  BY DEF NoRun
<1>2. \A m \in Nat : NewRun(m) \in RunRecord
  BY DEF NewRun
<1>3. \A r \in RunRecord, m \in Nat : Reopened(r, m) \in RunRecord
  BY DEF Reopened
<1>4. ASSUME NEW r \in RunRecord, NEW tr \in Transition
      PROVE  Transitioned(r, tr) \in RunRecord
  <2>1. NextIteration(r, tr) \in Nat
    BY DEF NextIteration, Transition, KeepIteration
  <2>2. TokensLeft(r.used + tr.delta) \in Nat \cup {NoBudget}
    BY DEF TokensLeft, Transition
  <2>3. (IF tr.step = 0 THEN r.done ELSE r.done \cup {tr.step}) \in SUBSET Steps
    BY DEF Transition, Steps
  <2>4. QED
    BY <2>1, <2>2, <2>3 DEF Transitioned, Transition, KeepStatus
<1>5. QED
  BY <1>1, <1>2, <1>3, <1>4

\* The transitions the loop asks for are well formed.
LEMMA TransitionTypes ==
  /\ \A s \in Terminal, i \in Nat \cup {KeepIteration} : Stop(s, i) \in Transition
  /\ \A n \in Nat : SpendTokens(n) \in Transition
  /\ \A i \in Nat, s \in Steps : StepDone(i, s) \in Transition
BY TaskRunsAssumption
   DEF Stop, SpendTokens, StepDone, Transition, Terminal, KeepStatus, KeepIteration, Steps

LEMMA IdleType == Idle \in Local
<1>1. SpendTokens(0) \in Transition
  BY TransitionTypes
<1>2. QED
  BY <1>1, RecordTypes, TaskRunsAssumption DEF Idle, Local, PCs, Results

(***************************************************************************)
(* Type correctness.  TypeOK alone is not inductive: a captured output     *)
(* names a step, so the executor that stores it must be inside its plan,   *)
(* and an executor that writes a run must be driving one.                  *)
(***************************************************************************)
InStep == {"invoke", "tools", "dispatch", "capture"}

Placed(l) ==
  /\ l.pc # "idle" => l.task \in Tasks
  /\ l.pc \in InStep => l.idx \in Steps
  /\ l.pc = "step" => l.idx # 0
  /\ l.pc = "resume" => l.resuming
  /\ l.pc \in {"tools", "dispatch"} => l.calls > 0
  /\ l.pc \in {"read", "write"} /\ l.tr.status \in {KeepStatus, "running"} => l.idx \in Steps

TypeInv == TypeOK /\ \A e \in Execs : Placed(ex[e])

\* An executor that moves to a well-formed local state leaves all of them so.
LEMMA BecomeTypes ==
  ASSUME NEW e \in Execs, NEW l \in Local, Placed(l), TypeInv, Become(e, l)
  PROVE  ex' \in [Execs -> Local] /\ \A f \in Execs : Placed(ex'[f])
<1>1. ex' \in [Execs -> Local]
  BY DEF Become, TypeInv, TypeOK
<1>2. ASSUME NEW f \in Execs PROVE Placed(ex'[f])
  <2>1. CASE f = e
    <3>1. ex'[f] = l
      BY <2>1 DEF Become, TypeInv, TypeOK
    <3>2. QED
      BY <3>1
  <2>2. CASE f # e
    <3>1. ex'[f] = ex[f]
      BY <2>2 DEF Become, TypeInv, TypeOK
    <3>2. QED
      BY <3>1 DEF TypeInv
  <2>3. QED
    BY <2>1, <2>2
<1>3. QED
  BY <1>1, <1>2

LEMMA RequestTypes ==
  ASSUME NEW e \in Execs, NEW tr \in Transition, TypeInv, Request(e, tr),
         ex[e].pc # "idle", tr.status \in {KeepStatus, "running"} => ex[e].idx \in Steps
  PROVE  ex' \in [Execs -> Local] /\ \A f \in Execs : Placed(ex'[f])
<1> DEFINE l == [ex[e] EXCEPT !.pc = "read", !.tr = tr]
<1>1. l \in Local
  BY DEF TypeInv, TypeOK, Local, PCs
<1>2. Placed(l)
  BY DEF TypeInv, TypeOK, Local, Placed, InStep
<1>3. QED
  BY <1>1, <1>2, BecomeTypes DEF Request

LEMMA GotoTypes ==
  ASSUME NEW e \in Execs, NEW pc \in PCs, TypeInv, Goto(e, pc),
         ex[e].pc # "idle", pc \in InStep, ex[e].idx \in Steps,
         pc \in {"tools", "dispatch"} => ex[e].calls > 0
  PROVE  ex' \in [Execs -> Local] /\ \A f \in Execs : Placed(ex'[f])
<1> DEFINE l == [ex[e] EXCEPT !.pc = pc]
<1>1. l \in Local
  BY DEF TypeInv, TypeOK, Local
<1>2. Placed(l)
  BY DEF TypeInv, TypeOK, Local, Placed, InStep
<1>3. QED
  BY <1>1, <1>2, BecomeTypes DEF Goto

LEMMA LeaveTypes ==
  ASSUME NEW e \in Execs, TypeInv, Leave(e)
  PROVE  ex' \in [Execs -> Local] /\ \A f \in Execs : Placed(ex'[f])
<1>1. Placed(Idle)
  BY DEF Idle, Placed, InStep
<1>2. QED
  BY <1>1, IdleType, BecomeTypes DEF Leave

LEMMA LeaveHandoffTypes ==
  ASSUME NEW e \in Execs, TypeInv, LeaveHandoff(e), ex[e].pc # "idle"
  PROVE  ex' \in [Execs -> Local] /\ \A f \in Execs : Placed(ex'[f])
<1> DEFINE l == [Idle EXCEPT !.pc = "handoff", !.task = ex[e].task]
<1>1. ex[e].task \in Tasks
  BY DEF TypeInv, Placed
<1>2. l \in Local
  BY <1>1, IdleType DEF Local, PCs
<1>3. Placed(l)
  BY <1>1, IdleType DEF Local, Placed, InStep
<1>4. QED
  BY <1>2, <1>3, BecomeTypes DEF LeaveHandoff

LEMMA DriveTypes ==
  ASSUME TypeInv, NEW e \in Execs, Drive(e)
  PROVE  TypeInv'
<1> USE TaskRunsAssumption, RunLoopAssumption
<1> DEFINE Ex == ex' \in [Execs -> Local] /\ \A f \in Execs : Placed(ex'[f])
<1>0. ex[e] \in Local /\ Placed(ex[e]) /\ ex \in [Execs -> Local] /\ run \in [Tasks -> RunRecord]
  BY DEF TypeInv, TypeOK
<1>1. CASE ResumeWrite(e)
  <2> DEFINE l == [ex[e] EXCEPT !.pc = "start", !.iter = ex[e].snap.iteration, !.snap = NoRun]
  <2>1. l \in Local
    BY <1>0, RecordTypes DEF Local, PCs, RunRecord
  <2>2. Placed(l)
    BY <1>0, <1>1 DEF ResumeWrite, Local, Placed, InStep
  <2>3. Ex
    BY <1>1, <2>1, <2>2, BecomeTypes DEF ResumeWrite
  <2>4. Reopened(ex[e].snap, ex[e].max) \in RunRecord
    BY <1>0, RecordTypes DEF Local
  <2>5. QED
    BY <1>0, <1>1, <2>3, <2>4 DEF ResumeWrite, TypeInv, TypeOK
<1>2. CASE StartCheck(e)
  <2>1. CASE Request(e, Stop("blocked", 0))
    <3>1. Stop("blocked", 0) \in Transition /\ Stop("blocked", 0).status = "blocked"
      BY TransitionTypes DEF Terminal, Stop
    <3>2. Ex
      BY <1>2, <2>1, <3>1, RequestTypes DEF StartCheck, KeepStatus
    <3>3. QED
      BY <1>2, <3>2 DEF StartCheck, TypeInv, TypeOK
  <2>2. CASE Become(e, [ex[e] EXCEPT !.pc = "step", !.idx = 1])
    <3> DEFINE l == [ex[e] EXCEPT !.pc = "step", !.idx = 1]
    <3>0. 1 \in 0 .. NSteps + 1 /\ 1 # 0
      OBVIOUS
    <3>1. l \in Local /\ Placed(l)
      BY <1>0, <1>2, <3>0 DEF StartCheck, Local, PCs, Placed, InStep
    <3>2. Ex
      BY <2>2, <3>1, BecomeTypes
    <3>3. QED
      BY <1>2, <3>2 DEF StartCheck, TypeInv, TypeOK
  <2>3. QED
    BY <1>2, <2>1, <2>2 DEF StartCheck
<1>3. CASE SkipStep(e)
  <2> DEFINE l == [ex[e] EXCEPT !.idx = ex[e].idx + 1]
  <2>1. l \in Local /\ Placed(l)
    BY <1>0, <1>3 DEF SkipStep, Local, Steps, Placed, InStep
  <2>2. Ex
    BY <1>3, <2>1, BecomeTypes DEF SkipStep
  <2>3. QED
    BY <1>3, <2>2 DEF SkipStep, TypeInv, TypeOK
<1>4. CASE BeginStep(e)
  <2>1. PICK refusal \in Refusals : StepGuard(e, refusal)
    BY <1>4 DEF BeginStep
  <2>2. ex[e].pc = "step" /\ ex[e].idx \in Steps /\ ex[e].iter \in Nat /\ ex[e].idx - 1 \in Nat
    BY <1>0, <1>4 DEF BeginStep, Local, Steps
  <2>3. Stop("interrupted", ex[e].iter) \in Transition
        /\ Stop("blocked", ex[e].idx - 1) \in Transition
        /\ Stop("interrupted", KeepIteration) \in Transition
    BY <2>2, TransitionTypes DEF Terminal
  <2>4. CASE Goto(e, "invoke")
    <3>1. Ex
      BY <2>2, <2>4, GotoTypes DEF PCs, InStep
    <3>2. QED
      BY <1>4, <3>1 DEF BeginStep, TypeInv, TypeOK
  <2>5. ASSUME NEW tr \in Transition, Request(e, tr) PROVE TypeInv'
    <3>1. Ex
      BY <2>2, <2>5, RequestTypes
    <3>2. QED
      BY <1>4, <3>1 DEF BeginStep, TypeInv, TypeOK
  <2>6. QED
    BY <2>1, <2>3, <2>4, <2>5 DEF StepGuard
<1>5. CASE FinishLoop(e)
  <2>1. Stop("completed", KeepIteration) \in Transition
        /\ Stop("completed", KeepIteration).status = "completed"
    BY TransitionTypes DEF Terminal, Stop
  <2>2. Ex
    BY <1>5, <2>1, RequestTypes DEF FinishLoop, KeepStatus
  <2>3. QED
    BY <1>5, <2>2 DEF FinishLoop, TypeInv, TypeOK
<1>6. CASE InvokeStopped(e)
  <2>1. ex[e].pc = "invoke" /\ ex[e].idx \in Steps /\ ex[e].iter \in Nat
    BY <1>0, <1>6 DEF InvokeStopped, Local, Placed, InStep
  <2>2. PICK tr \in Transition : Request(e, tr)
    <3>1. Stop("interrupted", ex[e].iter) \in Transition
          /\ Stop("interrupted", KeepIteration) \in Transition
      BY <2>1, TransitionTypes DEF Terminal
    <3>2. QED
      BY <1>6, <3>1 DEF InvokeStopped
  <2>3. Ex
    BY <2>1, <2>2, RequestTypes
  <2>4. QED
    BY <1>6, <2>3 DEF InvokeStopped, TypeInv, TypeOK
<1>7. ASSUME NEW res \in Results, NEW calls \in 0 .. MaxCalls, NEW delta \in 0 .. MaxDelta,
             Invoke(e, res, calls, delta)
      PROVE  TypeInv'
  <2> DEFINE pc == IF delta > 0 THEN "read" ELSE IF calls > 0 THEN "tools" ELSE "capture"
             l  == [ex[e] EXCEPT !.pc = pc, !.iter = ex[e].iter + 1, !.res = res,
                      !.calls = calls, !.told = FALSE, !.denied = FALSE,
                      !.tr = SpendTokens(delta)]
  <2>1. SpendTokens(delta) \in Transition /\ calls \in Nat /\ ex[e].iter + 1 \in Nat
    BY <1>0, TransitionTypes DEF Local
  <2>2. ex[e].pc = "invoke" /\ ex[e].task \in Tasks /\ ex[e].idx \in Steps
    BY <1>0, <1>7 DEF Invoke, MayInvoke, Placed, InStep
  <2>3. l \in Local
    BY <1>0, <2>1 DEF Local, PCs
  <2>4. Placed(l)
    BY <1>0, <2>2 DEF Local, Placed
  <2>5. Ex
    BY <1>7, <2>3, <2>4, BecomeTypes DEF Invoke
  <2>6. QED
    BY <1>7, <2>5 DEF Invoke, TypeInv, TypeOK
<1>8. CASE ToolGuard(e)
  <2>1. ex[e].pc = "tools" /\ ex[e].task \in Tasks /\ ex[e].idx \in Steps
        /\ ex[e].iter \in Nat /\ ex[e].calls > 0
    BY <1>0, <1>8 DEF ToolGuard, Local, Placed, InStep
  <2>2. CASE Request(e, Stop("interrupted", ex[e].iter))
    <3>1. Stop("interrupted", ex[e].iter) \in Transition
      BY <2>1, TransitionTypes DEF Terminal
    <3>2. Ex
      BY <2>1, <2>2, <3>1, RequestTypes
    <3>3. QED
      BY <1>8, <3>2 DEF ToolGuard, TypeInv, TypeOK
  <2>3. CASE Become(e, [ex[e] EXCEPT !.pc = "capture", !.denied = TRUE])
    <3> DEFINE l == [ex[e] EXCEPT !.pc = "capture", !.denied = TRUE]
    <3>1. l \in Local
      BY <1>0 DEF Local, PCs
    <3>2. Placed(l)
      BY <1>0, <2>1 DEF Local, Placed
    <3>3. Ex
      BY <2>3, <3>1, <3>2, BecomeTypes
    <3>4. QED
      BY <1>8, <3>3 DEF ToolGuard, TypeInv, TypeOK
  <2>4. CASE Goto(e, "dispatch")
    <3>1. Ex
      BY <2>1, <2>4, GotoTypes DEF PCs, InStep
    <3>2. QED
      BY <1>8, <3>1 DEF ToolGuard, TypeInv, TypeOK
  <2>5. QED
    BY <1>8, <2>2, <2>3, <2>4 DEF ToolGuard
<1>9. ASSUME NEW allowed \in BOOLEAN, Dispatch(e, allowed)
      PROVE  TypeInv'
  <2> DEFINE pc == IF allowed /\ ex[e].calls > 1 THEN "tools" ELSE "capture"
             l  == [ex[e] EXCEPT !.pc = pc, !.calls = ex[e].calls - 1,
                      !.told = TRUE, !.denied = ~allowed]
  <2>1. ex[e].pc = "dispatch" /\ ex[e].task \in Tasks /\ ex[e].idx \in Steps
        /\ ex[e].calls \in Nat /\ ex[e].calls > 0 /\ ex[e].calls - 1 \in Nat
    BY <1>0, <1>9 DEF Dispatch, Local, Placed, InStep
  <2>2. l \in Local
    BY <1>0, <2>1 DEF Local, PCs
  <2>3. Placed(l)
    BY <1>0, <2>1 DEF Local, Placed
  <2>4. Ex
    BY <1>9, <2>2, <2>3, BecomeTypes DEF Dispatch
  <2>5. QED
    BY <1>9, <2>4 DEF Dispatch, TypeInv, TypeOK
<1>10. CASE Capture(e)
  <2>1. ex[e].pc = "capture" /\ ex[e].task \in Tasks /\ ex[e].idx \in Steps
        /\ ex[e].iter \in Nat /\ ex[e].res \in Results
    BY <1>0, <1>10 DEF Capture, Local, Placed, InStep
  <2>2. outs' \subseteq Tasks \X Steps /\ finished' \subseteq Tasks \X Steps
    BY <1>10, <2>1 DEF Capture, TypeInv, TypeOK
  <2>3. CASE Goto(e, "invoke")
    <3>1. Ex
      BY <2>1, <2>3, GotoTypes DEF PCs, InStep
    <3>2. QED
      BY <1>10, <2>2, <3>1 DEF Capture, TypeInv, TypeOK
  <2>4. ASSUME NEW tr \in Transition, Request(e, tr) PROVE TypeInv'
    <3>1. Ex
      BY <2>1, <2>4, RequestTypes
    <3>2. QED
      BY <1>10, <2>2, <3>1 DEF Capture, TypeInv, TypeOK
  <2>5. Stop("blocked", ex[e].iter) \in Transition
        /\ (ex[e].res # "ok" => Stop(ex[e].res, ex[e].iter) \in Transition)
        /\ StepDone(ex[e].iter, ex[e].idx) \in Transition
    BY <2>1, TransitionTypes DEF Terminal, Results
  <2>6. QED
    BY <1>10, <2>3, <2>4, <2>5 DEF Capture, AfterCapture
<1>11. CASE TransitionRead(e)
  <2>1. ex[e].pc = "read" /\ ex[e].task \in Tasks
    BY <1>0, <1>11 DEF TransitionRead, Placed
  <2>2. CASE Become(e, [ex[e] EXCEPT !.pc = "write", !.snap = run[ex[e].task]])
    <3> DEFINE l == [ex[e] EXCEPT !.pc = "write", !.snap = run[ex[e].task]]
    <3>1. l \in Local
      BY <1>0, <2>1 DEF Local, PCs
    <3>2. Placed(l)
      BY <1>0, <2>1 DEF Local, Placed, InStep
    <3>3. Ex
      BY <2>2, <3>1, <3>2, BecomeTypes
    <3>4. QED
      BY <1>11, <3>3 DEF TransitionRead, TypeInv, TypeOK
  <2>3. CASE Leave(e)
    <3>1. Ex
      BY <2>3, LeaveTypes
    <3>2. QED
      BY <1>11, <3>1 DEF TransitionRead, TypeInv, TypeOK
  <2>4. QED
    BY <1>11, <2>2, <2>3 DEF TransitionRead
<1>12. CASE TransitionWrite(e)
  <2>1. ex[e].pc = "write" /\ ex[e].task \in Tasks
        /\ (ex[e].tr.status \in {KeepStatus, "running"} => ex[e].idx \in Steps)
    BY <1>0, <1>12 DEF TransitionWrite, Placed
  <2>2. run' \in [Tasks -> RunRecord]
    BY <1>0, <1>12, RecordTypes DEF TransitionWrite, Local
  <2>3. SpendTokens(0) \in Transition /\ SpendTokens(0).status = KeepStatus /\ NoRun \in RunRecord
    BY TransitionTypes, RecordTypes DEF SpendTokens
  <2>4. CASE ex[e].tr.status = KeepStatus
    <3> DEFINE pc == IF ex[e].calls > 0 THEN "tools" ELSE "capture"
               l  == [ex[e] EXCEPT !.snap = NoRun, !.tr = SpendTokens(0), !.pc = pc]
    <3>1. l \in Local
      BY <1>0, <2>3 DEF Local, PCs
    <3>2. Placed(l)
      BY <1>0, <2>1, <2>4 DEF Local, Placed
    <3>3. Become(e, l)
      BY <1>12, <2>4 DEF TransitionWrite, Resumed, KeepStatus
    <3>4. Ex
      BY <3>1, <3>2, <3>3, BecomeTypes
    <3>5. QED
      BY <1>12, <2>2, <3>4 DEF TransitionWrite, TypeInv, TypeOK
  <2>5. CASE ex[e].tr.status = "running"
    <3> DEFINE l == [ex[e] EXCEPT !.snap = NoRun, !.tr = SpendTokens(0), !.pc = "step",
                       !.idx = ex[e].idx + 1]
    <3>0. ex[e].idx + 1 \in 0 .. NSteps + 1
      BY <2>1, <2>5 DEF Steps
    <3>1. l \in Local
      BY <1>0, <2>3, <3>0 DEF Local, PCs
    <3>2. Placed(l)
      BY <1>0, <2>1 DEF Local, Placed, InStep
    <3>3. Become(e, l)
      BY <1>12, <2>5 DEF TransitionWrite, Resumed, KeepStatus
    <3>4. Ex
      BY <3>1, <3>2, <3>3, BecomeTypes
    <3>5. QED
      BY <1>12, <2>2, <3>4 DEF TransitionWrite, TypeInv, TypeOK
  <2>6. CASE ex[e].tr.status \notin {KeepStatus, "running"}
    <3>1. LeaveHandoff(e)
      BY <1>12, <2>6 DEF TransitionWrite, Resumed
    <3>2. Ex
      BY <2>1, <3>1, LeaveHandoffTypes
    <3>3. QED
      BY <1>12, <2>2, <3>2 DEF TransitionWrite, TypeInv, TypeOK
  <2>7. QED
    BY <2>4, <2>5, <2>6
<1>13. CASE HandoffRead(e)
  <2> DEFINE l == [ex[e] EXCEPT !.pc = "link", !.snap = run[ex[e].task]]
  <2>1. ex[e].pc = "handoff" /\ ex[e].task \in Tasks
    BY <1>0, <1>13 DEF HandoffRead, Placed
  <2>2. l \in Local
    BY <1>0, <2>1 DEF Local, PCs
  <2>3. Placed(l)
    BY <1>0, <2>1 DEF Local, Placed, InStep
  <2>4. Ex
    BY <1>13, <2>2, <2>3, BecomeTypes DEF HandoffRead
  <2>5. QED
    BY <1>13, <2>4 DEF HandoffRead, TypeInv, TypeOK
<1>14. CASE HandoffWrite(e)
  <2>1. run' \in [Tasks -> RunRecord]
    BY <1>0, <1>14 DEF HandoffWrite, Local
  <2>2. Ex
    BY <1>14, LeaveTypes DEF HandoffWrite
  <2>3. QED
    BY <1>14, <2>1, <2>2 DEF HandoffWrite, TypeInv, TypeOK
<1>15. QED
  BY <1>1, <1>2, <1>3, <1>4, <1>5, <1>6, <1>7, <1>8, <1>9, <1>10, <1>11, <1>12, <1>13, <1>14
     DEF Drive

LEMMA TypeInductive == TypeInv /\ [Next]_vars => TypeInv'
<1> SUFFICES ASSUME TypeInv, [Next]_vars PROVE TypeInv'
  OBVIOUS
<1> USE RunLoopAssumption
<1> DEFINE Ex == ex' \in [Execs -> Local] /\ \A f \in Execs : Placed(ex'[f])
<1>1. ASSUME NEW e \in Execs, NEW t \in Tasks, NEW m \in Limits, Start(e, t, m)
      PROVE  TypeInv'
  <2> DEFINE l == [Idle EXCEPT !.pc = "start", !.task = t, !.max = m]
  <2>1. l \in Local
    BY IdleType DEF Local, PCs
  <2>2. Placed(l)
    BY IdleType DEF Local, Placed, InStep
  <2>3. Ex
    BY <1>1, <2>1, <2>2, BecomeTypes DEF Start
  <2>4. QED
    BY <1>1, <2>3, RecordTypes DEF Start, TypeInv, TypeOK
<1>2. ASSUME NEW e \in Execs, NEW t \in Tasks, NEW m \in Limits, ResumeRead(e, t, m)
      PROVE  TypeInv'
  <2> DEFINE l == [Idle EXCEPT !.pc = "resume", !.task = t, !.resuming = TRUE, !.max = m,
                     !.snap = run[t]]
  <2>1. l \in Local
    BY IdleType DEF Local, PCs, TypeInv, TypeOK
  <2>2. Placed(l)
    BY IdleType DEF Local, Placed, InStep
  <2>3. Ex
    BY <1>2, <2>1, <2>2, BecomeTypes DEF ResumeRead
  <2>4. QED
    BY <1>2, <2>3 DEF ResumeRead, TypeInv, TypeOK
<1>3. ASSUME NEW e \in Execs, Drive(e) PROVE TypeInv'
  BY <1>3, DriveTypes
<1>4. ASSUME NEW e \in Execs, Crash(e) PROVE TypeInv'
  <2>1. Ex
    BY <1>4, LeaveTypes DEF Crash
  <2>2. QED
    BY <1>4, <2>1 DEF Crash, TypeInv, TypeOK
<1>5. ASSUME NEW t \in Tasks, Expire(t) PROVE TypeInv'
  BY <1>5 DEF Expire, TypeInv, TypeOK
<1>6. ASSUME NEW t \in Tasks, CancelRead(t) PROVE TypeInv'
  BY <1>6 DEF CancelRead, TypeInv, TypeOK
<1>7. ASSUME NEW t \in Tasks, CancelWrite(t) PROVE TypeInv'
  <2>1. cancel[t] \in RunRecord /\ cancel[t].iteration \in Nat
    BY DEF TypeInv, TypeOK, RunRecord
  <2>2. Stop("interrupted", cancel[t].iteration) \in Transition
    BY <2>1, TransitionTypes DEF Terminal
  <2>3. QED
    BY <1>7, <2>1, <2>2, RecordTypes DEF CancelWrite, TypeInv, TypeOK
<1>8. CASE UNCHANGED vars
  BY <1>8 DEF vars, TypeInv, TypeOK
<1>9. QED
  BY <1>1, <1>2, <1>3, <1>4, <1>5, <1>6, <1>7, <1>8 DEF Next

LEMMA TypeInvariant == Spec => []TypeInv
<1>1. Init => TypeInv
  BY RecordTypes, IdleType DEF Init, TypeInv, TypeOK, Placed, Idle, InStep
<1>2. QED
  BY <1>1, TypeInductive, PTL DEF Spec

\* Every variable stays in its type, for every number of tasks, executors and
\* steps and every budget.
THEOREM TypeCorrect == Spec => []TypeOK
<1>1. TypeInv => TypeOK
  BY DEF TypeInv
<1>2. QED
  BY <1>1, TypeInvariant, PTL

(***************************************************************************)
(* What is recorded is stored.  Neither DoneCaptured nor CompletedCaptured *)
(* is inductive: a run is overwritten with a record some process read      *)
(* earlier, and it is declared completed by an executor that only counts   *)
(* its steps.  The invariant therefore speaks of every copy of a record,   *)
(* in the store or read from it, of the steps an executor has passed, and  *)
(* of the transition it is about to write.                                 *)
(***************************************************************************)
Backed(r, t, o) ==
  /\ \A s \in r.done : <<t, s>> \in o
  /\ r.status = "completed" => \A s \in Steps : <<t, s>> \in o

Claims(l, o) ==
  l.pc # "idle" =>
    /\ Backed(l.snap, l.task, o)
    /\ \A i \in Steps : i < l.idx => <<l.task, i>> \in o
    /\ l.pc \in {"read", "write"} =>
         /\ l.tr.status = "completed" => l.idx = NSteps + 1
         /\ l.tr.status = "running" => l.tr.step = l.idx
         /\ l.tr.step # 0 => <<l.task, l.tr.step>> \in o

CaptureInv ==
  /\ \A t \in Tasks : Backed(run[t], t, outs) /\ Backed(cancel[t], t, outs)
  /\ \A e \in Execs : Claims(ex[e], outs)

\* Outputs are never deleted, so what they back stays backed.
LEMMA BackedMonotone ==
  ASSUME NEW r, NEW t, NEW l, NEW o, NEW p, o \subseteq p
  PROVE  /\ Backed(r, t, o) => Backed(r, t, p)
         /\ Claims(l, o) => Claims(l, p)
<1>1. Backed(r, t, o) => Backed(r, t, p)
  BY DEF Backed
<1>2. Backed(l.snap, l.task, o) => Backed(l.snap, l.task, p)
  BY DEF Backed
<1>3. QED
  BY <1>1, <1>2 DEF Claims

LEMMA BackedNoRun == \A t, o : Backed(NoRun, t, o)
BY DEF Backed, NoRun

LEMMA BackedReopened ==
  \A r \in RunRecord : \A t, o, m : Backed(r, t, o) => Backed(Reopened(r, m), t, o)
BY DEF Backed, Reopened, RunRecord

LEMMA BackedTransitioned ==
  ASSUME NEW r \in RunRecord, NEW t, NEW o, NEW tr, Backed(r, t, o),
         tr.step # 0 => <<t, tr.step>> \in o,
         tr.status = "completed" => \A s \in Steps : <<t, s>> \in o
  PROVE  Backed(Transitioned(r, tr), t, o)
BY DEF Backed, Transitioned

LEMMA BecomeClaims ==
  ASSUME NEW e \in Execs, NEW l, TypeInv, CaptureInv, Become(e, l),
         outs \subseteq outs', Claims(l, outs')
  PROVE  \A f \in Execs : Claims(ex'[f], outs')
<1>1. ASSUME NEW f \in Execs PROVE Claims(ex'[f], outs')
  <2>1. CASE f = e
    <3>1. ex'[f] = l
      BY <2>1 DEF Become, TypeInv, TypeOK
    <3>2. QED
      BY <3>1
  <2>2. CASE f # e
    <3>1. ex'[f] = ex[f] /\ Claims(ex[f], outs)
      BY <2>2 DEF Become, TypeInv, TypeOK, CaptureInv
    <3>2. QED
      BY <3>1, BackedMonotone
  <2>3. QED
    BY <2>1, <2>2
<1>2. QED
  BY <1>1

LEMMA RequestClaims ==
  ASSUME NEW e \in Execs, NEW tr \in Transition, TypeInv, CaptureInv, Request(e, tr),
         ex[e].pc # "idle", outs \subseteq outs',
         tr.status = "completed" => ex[e].idx = NSteps + 1,
         tr.status = "running" => tr.step = ex[e].idx,
         tr.step # 0 => <<ex[e].task, tr.step>> \in outs'
  PROVE  \A f \in Execs : Claims(ex'[f], outs')
<1> DEFINE l == [ex[e] EXCEPT !.pc = "read", !.tr = tr]
<1>1. ex[e] \in Local /\ Claims(ex[e], outs')
  BY BackedMonotone DEF TypeInv, TypeOK, CaptureInv
<1>2. Claims(l, outs')
  BY <1>1 DEF Claims, Local
<1>3. QED
  BY <1>2, BecomeClaims DEF Request

LEMMA GotoClaims ==
  ASSUME NEW e \in Execs, NEW pc \in PCs, TypeInv, CaptureInv, Goto(e, pc),
         ex[e].pc # "idle", outs \subseteq outs', pc \notin {"read", "write"}
  PROVE  \A f \in Execs : Claims(ex'[f], outs')
<1> DEFINE l == [ex[e] EXCEPT !.pc = pc]
<1>1. ex[e] \in Local /\ Claims(ex[e], outs')
  BY BackedMonotone DEF TypeInv, TypeOK, CaptureInv
<1>2. Claims(l, outs')
  BY <1>1 DEF Claims, Local
<1>3. QED
  BY <1>2, BecomeClaims DEF Goto

LEMMA LeaveClaims ==
  ASSUME NEW e \in Execs, TypeInv, CaptureInv, Leave(e), outs \subseteq outs'
  PROVE  \A f \in Execs : Claims(ex'[f], outs')
<1>1. Claims(Idle, outs')
  BY DEF Idle, Claims
<1>2. QED
  BY <1>1, BecomeClaims DEF Leave

LEMMA LeaveHandoffClaims ==
  ASSUME NEW e \in Execs, TypeInv, CaptureInv, LeaveHandoff(e), outs \subseteq outs'
  PROVE  \A f \in Execs : Claims(ex'[f], outs')
<1> DEFINE l == [Idle EXCEPT !.pc = "handoff", !.task = ex[e].task]
<1>1. l.pc = "handoff" /\ l.idx = 0 /\ l.snap = NoRun /\ \A i \in Steps : ~(i < 0)
  BY TaskRunsAssumption DEF Idle, Steps
<1>2. Claims(l, outs')
  BY <1>1, BackedNoRun DEF Claims
<1>3. QED
  BY <1>2, BecomeClaims DEF LeaveHandoff

LEMMA DriveClaims ==
  ASSUME TypeInv, CaptureInv, NEW e \in Execs, Drive(e)
  PROVE  CaptureInv'
<1> USE TaskRunsAssumption
<1> DEFINE Ex == \A f \in Execs : Claims(ex'[f], outs')
           l0 == ex[e]
<1>0. ex[e] \in Local /\ Placed(ex[e]) /\ Claims(ex[e], outs) /\ run \in [Tasks -> RunRecord]
  BY DEF TypeInv, TypeOK, CaptureInv
<1>1. CASE ResumeWrite(e)
  <2> DEFINE l == [ex[e] EXCEPT !.pc = "start", !.iter = ex[e].snap.iteration, !.snap = NoRun]
  <2>1. ex[e].task \in Tasks /\ ex[e].snap \in RunRecord /\ outs' = outs
        /\ Backed(ex[e].snap, ex[e].task, outs)
    BY <1>0, <1>1 DEF ResumeWrite, Placed, Claims, Local
  <2>2. Claims(l, outs')
    BY <1>0, <1>1, <2>1, BackedNoRun DEF ResumeWrite, Claims, Local
  <2>3. Ex
    BY <1>1, <2>1, <2>2, BecomeClaims DEF ResumeWrite
  <2>4. Backed(run'[ex[e].task], ex[e].task, outs')
    BY <1>0, <1>1, <2>1, BackedReopened DEF ResumeWrite
  <2>5. QED
    BY <1>0, <1>1, <2>1, <2>3, <2>4 DEF ResumeWrite, CaptureInv
<1>2. CASE StartCheck(e)
  <2>1. CASE Request(e, Stop("blocked", 0))
    <3>1. Stop("blocked", 0) \in Transition /\ Stop("blocked", 0).status = "blocked"
          /\ Stop("blocked", 0).step = 0
      BY TransitionTypes DEF Terminal, Stop
    <3>2. Ex
      BY <1>2, <2>1, <3>1, RequestClaims DEF StartCheck
    <3>3. QED
      BY <1>2, <3>2 DEF StartCheck, CaptureInv
  <2>2. CASE Become(e, [ex[e] EXCEPT !.pc = "step", !.idx = 1])
    <3> DEFINE l == [ex[e] EXCEPT !.pc = "step", !.idx = 1]
    <3>1. \A i \in Steps : ~(i < 1)
      BY DEF Steps
    <3>2. Claims(l, outs)
      BY <1>0, <1>2, <3>1 DEF StartCheck, Claims, Local
    <3>3. Ex
      BY <1>2, <2>2, <3>2, BecomeClaims DEF StartCheck
    <3>4. QED
      BY <1>2, <3>3 DEF StartCheck, CaptureInv
  <2>3. QED
    BY <1>2, <2>1, <2>2 DEF StartCheck
<1>3. CASE SkipStep(e)
  <2> DEFINE l == [ex[e] EXCEPT !.idx = ex[e].idx + 1]
  <2>1. \A i \in Steps : i < ex[e].idx + 1 => <<ex[e].task, i>> \in outs
    <3>1. <<ex[e].task, ex[e].idx>> \in outs /\ ex[e].idx \in Steps
      BY <1>3 DEF SkipStep, Captured
    <3>2. \A i \in Steps : i < ex[e].idx + 1 => i < ex[e].idx \/ i = ex[e].idx
      BY <3>1 DEF Steps
    <3>3. QED
      BY <1>0, <1>3, <3>1, <3>2 DEF SkipStep, Claims
  <2>2. Claims(l, outs)
    BY <1>0, <1>3, <2>1 DEF SkipStep, Claims, Local
  <2>3. Ex
    BY <1>3, <2>2, BecomeClaims DEF SkipStep
  <2>4. QED
    BY <1>3, <2>3 DEF SkipStep, CaptureInv
<1>4. CASE BeginStep(e)
  <2>1. PICK refusal \in Refusals : StepGuard(e, refusal)
    BY <1>4 DEF BeginStep
  <2>2. ex[e].pc = "step" /\ ex[e].iter \in Nat /\ ex[e].idx - 1 \in Nat /\ outs' = outs
    BY <1>0, <1>4 DEF BeginStep, Local, Steps
  <2>3. CASE Goto(e, "invoke")
    <3>1. Ex
      BY <2>2, <2>3, GotoClaims DEF PCs
    <3>2. QED
      BY <1>4, <3>1 DEF BeginStep, CaptureInv
  <2>4. ASSUME NEW s \in {"interrupted", "blocked"}, NEW i \in Nat \cup {KeepIteration},
               Request(e, Stop(s, i))
        PROVE  CaptureInv'
    <3>1. Stop(s, i) \in Transition /\ Stop(s, i).status = s /\ Stop(s, i).step = 0
      BY TransitionTypes DEF Terminal, Stop
    <3>2. Ex
      BY <2>2, <2>4, <3>1, RequestClaims
    <3>3. QED
      BY <1>4, <3>2 DEF BeginStep, CaptureInv
  <2>5. QED
    BY <2>1, <2>2, <2>3, <2>4 DEF StepGuard
<1>5. CASE FinishLoop(e)
  <2>1. Stop("completed", KeepIteration) \in Transition
        /\ Stop("completed", KeepIteration).status = "completed"
        /\ Stop("completed", KeepIteration).step = 0
    BY TransitionTypes DEF Terminal, Stop
  <2>2. ex[e].idx = NSteps + 1 \/ ex[e].idx = 0
    BY <1>0, <1>5 DEF FinishLoop, Local, Steps
  <2>3. ex[e].idx = NSteps + 1
    BY <1>0, <1>5, <2>2 DEF FinishLoop, Placed
  <2>4. Ex
    BY <1>5, <2>1, <2>3, RequestClaims DEF FinishLoop
  <2>5. QED
    BY <1>5, <2>4 DEF FinishLoop, CaptureInv
<1>6. CASE InvokeStopped(e)
  <2>1. ex[e].pc = "invoke" /\ ex[e].iter \in Nat /\ outs' = outs
    BY <1>0, <1>6 DEF InvokeStopped, Local
  <2>2. PICK i \in Nat \cup {KeepIteration} : Request(e, Stop("interrupted", i))
    BY <1>6, <2>1 DEF InvokeStopped
  <2>3. Stop("interrupted", i) \in Transition /\ Stop("interrupted", i).status = "interrupted"
        /\ Stop("interrupted", i).step = 0
    BY TransitionTypes DEF Terminal, Stop
  <2>4. Ex
    BY <2>1, <2>2, <2>3, RequestClaims
  <2>5. QED
    BY <1>6, <2>4 DEF InvokeStopped, CaptureInv
<1>7. ASSUME NEW res \in Results, NEW calls \in 0 .. MaxCalls, NEW delta \in 0 .. MaxDelta,
             Invoke(e, res, calls, delta)
      PROVE  CaptureInv'
  <2> DEFINE pc == IF delta > 0 THEN "read" ELSE IF calls > 0 THEN "tools" ELSE "capture"
             l  == [ex[e] EXCEPT !.pc = pc, !.iter = ex[e].iter + 1, !.res = res,
                      !.calls = calls, !.told = FALSE, !.denied = FALSE,
                      !.tr = SpendTokens(delta)]
  <2>1. SpendTokens(delta).status = KeepStatus /\ SpendTokens(delta).step = 0
    BY DEF SpendTokens
  <2>2. ex[e].pc = "invoke" /\ outs' = outs
    BY <1>7 DEF Invoke, MayInvoke
  <2>3. Claims(l, outs)
    BY <1>0, <2>1, <2>2 DEF Claims, Local, KeepStatus
  <2>4. Ex
    BY <1>7, <2>2, <2>3, BecomeClaims DEF Invoke
  <2>5. QED
    BY <1>7, <2>4 DEF Invoke, CaptureInv
<1>8. CASE ToolGuard(e)
  <2>1. ex[e].pc = "tools" /\ ex[e].iter \in Nat /\ outs' = outs
    BY <1>0, <1>8 DEF ToolGuard, Local
  <2>2. CASE Request(e, Stop("interrupted", ex[e].iter))
    <3>1. Stop("interrupted", ex[e].iter) \in Transition
          /\ Stop("interrupted", ex[e].iter).status = "interrupted"
          /\ Stop("interrupted", ex[e].iter).step = 0
      BY <2>1, TransitionTypes DEF Terminal, Stop
    <3>2. Ex
      BY <2>1, <2>2, <3>1, RequestClaims
    <3>3. QED
      BY <1>8, <3>2 DEF ToolGuard, CaptureInv
  <2>3. CASE Become(e, [ex[e] EXCEPT !.pc = "capture", !.denied = TRUE])
    <3> DEFINE l == [ex[e] EXCEPT !.pc = "capture", !.denied = TRUE]
    <3>1. Claims(l, outs)
      BY <1>0, <2>1 DEF Claims, Local
    <3>2. Ex
      BY <2>1, <2>3, <3>1, BecomeClaims
    <3>3. QED
      BY <1>8, <3>2 DEF ToolGuard, CaptureInv
  <2>4. CASE Goto(e, "dispatch")
    <3>1. Ex
      BY <2>1, <2>4, GotoClaims DEF PCs
    <3>2. QED
      BY <1>8, <3>1 DEF ToolGuard, CaptureInv
  <2>5. QED
    BY <1>8, <2>2, <2>3, <2>4 DEF ToolGuard
<1>9. ASSUME NEW allowed \in BOOLEAN, Dispatch(e, allowed)
      PROVE  CaptureInv'
  <2> DEFINE pc == IF allowed /\ ex[e].calls > 1 THEN "tools" ELSE "capture"
             l  == [ex[e] EXCEPT !.pc = pc, !.calls = ex[e].calls - 1,
                      !.told = TRUE, !.denied = ~allowed]
  <2>1. ex[e].pc = "dispatch" /\ outs' = outs
    BY <1>9 DEF Dispatch
  <2>2. Claims(l, outs)
    BY <1>0, <2>1 DEF Claims, Local
  <2>3. Ex
    BY <1>9, <2>1, <2>2, BecomeClaims DEF Dispatch
  <2>4. QED
    BY <1>9, <2>3 DEF Dispatch, CaptureInv
<1>10. CASE Capture(e)
  <2>1. ex[e].pc = "capture" /\ ex[e].idx \in Steps /\ ex[e].idx # 0
        /\ ex[e].iter \in Nat /\ ex[e].res \in Results
        /\ outs \subseteq outs' /\ <<ex[e].task, ex[e].idx>> \in outs'
    BY <1>0, <1>10 DEF Capture, Local, Placed, InStep, Steps
  <2>2. ASSUME Ex PROVE CaptureInv'
    BY <1>10, <2>1, <2>2, BackedMonotone DEF Capture, CaptureInv
  <2>3. CASE Goto(e, "invoke")
    BY <2>1, <2>2, <2>3, GotoClaims DEF PCs
  <2>4. ASSUME NEW s \in {"blocked", "failed"}, Request(e, Stop(s, ex[e].iter))
        PROVE  CaptureInv'
    <3>1. Stop(s, ex[e].iter) \in Transition /\ Stop(s, ex[e].iter).status = s
          /\ Stop(s, ex[e].iter).step = 0
      BY <2>1, TransitionTypes DEF Terminal, Stop
    <3>2. QED
      BY <2>1, <2>2, <2>4, <3>1, RequestClaims
  <2>5. CASE Request(e, StepDone(ex[e].iter, ex[e].idx))
    <3>1. StepDone(ex[e].iter, ex[e].idx) \in Transition
          /\ StepDone(ex[e].iter, ex[e].idx).status = "running"
          /\ StepDone(ex[e].iter, ex[e].idx).step = ex[e].idx
      BY <2>1, TransitionTypes DEF StepDone
    <3>2. QED
      BY <2>1, <2>2, <2>5, <3>1, RequestClaims
  <2>6. QED
    BY <1>10, <2>1, <2>3, <2>4, <2>5 DEF Capture, AfterCapture, Results
<1>11. CASE TransitionRead(e)
  <2>1. ex[e].pc = "read" /\ ex[e].task \in Tasks /\ outs' = outs
    BY <1>0, <1>11 DEF TransitionRead, Placed
  <2>2. CASE Become(e, [ex[e] EXCEPT !.pc = "write", !.snap = run[ex[e].task]])
    <3> DEFINE l == [ex[e] EXCEPT !.pc = "write", !.snap = run[ex[e].task]]
    <3>1. Backed(run[ex[e].task], ex[e].task, outs)
      BY <2>1 DEF CaptureInv
    <3>2. Claims(l, outs)
      BY <1>0, <2>1, <3>1 DEF Claims, Local
    <3>3. Ex
      BY <2>1, <2>2, <3>2, BecomeClaims
    <3>4. QED
      BY <1>11, <3>3 DEF TransitionRead, CaptureInv
  <2>3. CASE Leave(e)
    <3>1. Ex
      BY <2>1, <2>3, LeaveClaims
    <3>2. QED
      BY <1>11, <3>1 DEF TransitionRead, CaptureInv
  <2>4. QED
    BY <1>11, <2>2, <2>3 DEF TransitionRead
<1>12. CASE TransitionWrite(e)
  <2>1. ex[e].pc = "write" /\ ex[e].task \in Tasks /\ outs' = outs /\ ex[e].snap \in RunRecord
        /\ Backed(ex[e].snap, ex[e].task, outs)
        /\ (\A i \in Steps : i < ex[e].idx => <<ex[e].task, i>> \in outs)
        /\ (ex[e].tr.status = "completed" => ex[e].idx = NSteps + 1)
        /\ (ex[e].tr.status = "running" => ex[e].tr.step = ex[e].idx)
        /\ (ex[e].tr.step # 0 => <<ex[e].task, ex[e].tr.step>> \in outs)
        /\ (ex[e].tr.status \in {KeepStatus, "running"} => ex[e].idx \in Steps)
    BY <1>0, <1>12 DEF TransitionWrite, Placed, Claims, Local
  <2>2. ASSUME Ex PROVE CaptureInv'
    <3>1. ex[e].tr.status = "completed" => \A s \in Steps : <<ex[e].task, s>> \in outs
      <4>1. SUFFICES ASSUME ex[e].tr.status = "completed", NEW s \in Steps
                     PROVE  <<ex[e].task, s>> \in outs
        OBVIOUS
      <4>2. s < ex[e].idx
        BY <2>1, <4>1 DEF Steps
      <4>3. QED
        BY <2>1, <4>2
    <3>2. Backed(run'[ex[e].task], ex[e].task, outs)
      BY <1>0, <1>12, <2>1, <3>1, BackedTransitioned DEF TransitionWrite
    <3>3. QED
      BY <1>0, <1>12, <2>1, <2>2, <3>2 DEF TransitionWrite, CaptureInv
  <2>3. CASE ex[e].tr.status = KeepStatus
    <3> DEFINE pc == IF ex[e].calls > 0 THEN "tools" ELSE "capture"
               l  == [ex[e] EXCEPT !.snap = NoRun, !.tr = SpendTokens(0), !.pc = pc]
    <3>1. Claims(l, outs)
      BY <1>0, <2>1, BackedNoRun DEF Claims, Local
    <3>2. Become(e, l)
      BY <1>12, <2>3 DEF TransitionWrite, Resumed, KeepStatus
    <3>3. QED
      BY <2>1, <2>2, <3>1, <3>2, BecomeClaims
  <2>4. CASE ex[e].tr.status = "running"
    <3> DEFINE l == [ex[e] EXCEPT !.snap = NoRun, !.tr = SpendTokens(0), !.pc = "step",
                       !.idx = ex[e].idx + 1]
    <3>1. \A i \in Steps : i < ex[e].idx + 1 => <<ex[e].task, i>> \in outs
      <4>1. ex[e].idx \in Steps /\ <<ex[e].task, ex[e].idx>> \in outs
        BY <2>1, <2>4 DEF Steps
      <4>2. \A i \in Steps : i < ex[e].idx + 1 => i < ex[e].idx \/ i = ex[e].idx
        BY <4>1 DEF Steps
      <4>3. QED
        BY <2>1, <4>1, <4>2
    <3>2. Claims(l, outs)
      BY <1>0, <2>1, <3>1, BackedNoRun DEF Claims, Local
    <3>3. Become(e, l)
      BY <1>12, <2>4 DEF TransitionWrite, Resumed, KeepStatus
    <3>4. QED
      BY <2>1, <2>2, <3>2, <3>3, BecomeClaims
  <2>5. CASE ex[e].tr.status \notin {KeepStatus, "running"}
    <3>1. LeaveHandoff(e)
      BY <1>12, <2>5 DEF TransitionWrite, Resumed
    <3>2. QED
      BY <2>1, <2>2, <3>1, LeaveHandoffClaims
  <2>6. QED
    BY <2>3, <2>4, <2>5
<1>13. CASE HandoffRead(e)
  <2> DEFINE l == [ex[e] EXCEPT !.pc = "link", !.snap = run[ex[e].task]]
  <2>1. ex[e].pc = "handoff" /\ ex[e].task \in Tasks /\ outs' = outs
    BY <1>0, <1>13 DEF HandoffRead, Placed
  <2>2. Backed(run[ex[e].task], ex[e].task, outs)
    BY <2>1 DEF CaptureInv
  <2>3. Claims(l, outs)
    BY <1>0, <2>1, <2>2 DEF Claims, Local
  <2>4. Ex
    BY <1>13, <2>1, <2>3, BecomeClaims DEF HandoffRead
  <2>5. QED
    BY <1>13, <2>4 DEF HandoffRead, CaptureInv
<1>14. CASE HandoffWrite(e)
  <2>1. ex[e].task \in Tasks /\ outs' = outs /\ Backed(ex[e].snap, ex[e].task, outs)
    BY <1>0, <1>14 DEF HandoffWrite, Placed, Claims
  <2>2. Ex
    BY <1>14, <2>1, LeaveClaims DEF HandoffWrite
  <2>3. QED
    BY <1>0, <1>14, <2>1, <2>2 DEF HandoffWrite, CaptureInv
<1>15. QED
  BY <1>1, <1>2, <1>3, <1>4, <1>5, <1>6, <1>7, <1>8, <1>9, <1>10, <1>11, <1>12, <1>13, <1>14
     DEF Drive

LEMMA CaptureInductive == TypeInv /\ CaptureInv /\ [Next]_vars => CaptureInv'
<1> SUFFICES ASSUME TypeInv, CaptureInv, [Next]_vars PROVE CaptureInv'
  OBVIOUS
<1> USE RunLoopAssumption
<1> DEFINE Ex == \A f \in Execs : Claims(ex'[f], outs')
<1>1. ASSUME NEW e \in Execs, NEW t \in Tasks, NEW m \in Limits, Start(e, t, m)
      PROVE  CaptureInv'
  <2> DEFINE l == [Idle EXCEPT !.pc = "start", !.task = t, !.max = m]
  <2>1. l.snap = NoRun /\ l.idx = 0 /\ l.pc = "start" /\ \A i \in Steps : ~(i < 0)
    BY TaskRunsAssumption DEF Idle, Steps
  <2>2. Claims(l, outs)
    BY <2>1, BackedNoRun DEF Claims
  <2>3. Ex
    BY <1>1, <2>2, BecomeClaims DEF Start
  <2>4. Backed(NewRun(m), t, outs)
    BY DEF NewRun, Backed
  <2>5. QED
    BY <1>1, <2>3, <2>4 DEF Start, CaptureInv, TypeInv, TypeOK
<1>2. ASSUME NEW e \in Execs, NEW t \in Tasks, NEW m \in Limits, ResumeRead(e, t, m)
      PROVE  CaptureInv'
  <2> DEFINE l == [Idle EXCEPT !.pc = "resume", !.task = t, !.resuming = TRUE, !.max = m,
                     !.snap = run[t]]
  <2>1. l.snap = run[t] /\ l.task = t /\ l.idx = 0 /\ l.pc = "resume" /\ \A i \in Steps : ~(i < 0)
    BY TaskRunsAssumption DEF Idle, Steps
  <2>2. Claims(l, outs)
    BY <2>1 DEF Claims, CaptureInv
  <2>3. Ex
    BY <1>2, <2>2, BecomeClaims DEF ResumeRead
  <2>4. QED
    BY <1>2, <2>3 DEF ResumeRead, CaptureInv
<1>3. ASSUME NEW e \in Execs, Drive(e) PROVE CaptureInv'
  BY <1>3, DriveClaims
<1>4. ASSUME NEW e \in Execs, Crash(e) PROVE CaptureInv'
  <2>1. Ex
    BY <1>4, LeaveClaims DEF Crash
  <2>2. QED
    BY <1>4, <2>1 DEF Crash, CaptureInv
<1>5. ASSUME NEW t \in Tasks, Expire(t) PROVE CaptureInv'
  BY <1>5 DEF Expire, CaptureInv
<1>6. ASSUME NEW t \in Tasks, CancelRead(t) PROVE CaptureInv'
  BY <1>6 DEF CancelRead, CaptureInv, TypeInv, TypeOK
<1>7. ASSUME NEW t \in Tasks, CancelWrite(t) PROVE CaptureInv'
  <2> DEFINE tr == Stop("interrupted", cancel[t].iteration)
  <2>1. tr.step = 0 /\ tr.status = "interrupted"
    BY DEF Stop
  <2>2. Backed(Transitioned(cancel[t], tr), t, outs)
    BY <2>1, BackedTransitioned DEF TypeInv, TypeOK, CaptureInv
  <2>3. QED
    BY <1>7, <2>2, BackedNoRun DEF CancelWrite, CaptureInv, TypeInv, TypeOK
<1>8. CASE UNCHANGED vars
  BY <1>8 DEF vars, CaptureInv
<1>9. QED
  BY <1>1, <1>2, <1>3, <1>4, <1>5, <1>6, <1>7, <1>8 DEF Next

LEMMA CaptureInvariant == Spec => []CaptureInv
<1>1. Init => CaptureInv
  BY BackedNoRun DEF Init, CaptureInv, Claims, Idle
<1>2. QED
  BY <1>1, TypeInvariant, CaptureInductive, PTL DEF Spec

\* A step is recorded as completed only after its output is stored, whatever
\* the executors, the operators and the crashes do.
THEOREM DoneIsCaptured == Spec => []DoneCaptured
<1>1. CaptureInv => DoneCaptured
  BY DEF CaptureInv, DoneCaptured, Backed
<1>2. QED
  BY <1>1, CaptureInvariant, PTL

\* A completed run has an output for every step of its plan, however many
\* processes drive it at once and however stale the records they write.
THEOREM CompletedIsCaptured == Spec => []CompletedCaptured
<1>1. CaptureInv => CompletedCaptured
  BY DEF CaptureInv, CompletedCaptured, Backed
<1>2. QED
  BY <1>1, CaptureInvariant, PTL

(***************************************************************************)
(* Termination, as far as it can be proved without ENABLED: every move of  *)
(* an execution brings it nearer its end, and nearer is well-founded.      *)
(***************************************************************************)
Distances == [stage : Nat, steps : Nat, rounds : Nat, way : Nat]

LEMMA DistanceType == \A l \in Local : Distance(l) \in Distances
<1> SUFFICES ASSUME NEW l \in Local PROVE Distance(l) \in Distances
  OBVIOUS
<1>1. Stage(l) \in Nat
  BY DEF Stage
<1>2. NSteps + 1 - l.idx \in Nat
  BY TaskRunsAssumption DEF Local
<1>3. (IF l.iter < l.max THEN l.max - l.iter ELSE 0) \in Nat
  BY DEF Local
<1>4. WayThrough(l) \in Nat
  BY DEF WayThrough, Local
<1>5. QED
  BY <1>1, <1>2, <1>3, <1>4 DEF Distance, Distances

\* A move to an earlier-ranked stretch of the program, whatever else it sets.
LEMMA StageFalls ==
  ASSUME NEW l, NEW k, Stage(k) < Stage(l)
  PROVE  Nearer(Distance(k), Distance(l))
BY DEF Nearer, Distance

\* A step further in the plan.
LEMMA StepFalls ==
  ASSUME NEW l \in Local, NEW k \in Local, Stage(k) = Stage(l), l.idx < k.idx
  PROVE  Nearer(Distance(k), Distance(l))
BY TaskRunsAssumption DEF Nearer, Distance, Local

\* A move within the round.
LEMMA WayFalls ==
  ASSUME NEW l, NEW k, Stage(k) = Stage(l), k.idx = l.idx, k.iter = l.iter, k.max = l.max,
         WayThrough(k) < WayThrough(l)
  PROVE  Nearer(Distance(k), Distance(l))
BY DEF Nearer, Distance

\* A terminal transition is asked for inside the loop or at the start check.
LEMMA StopFalls ==
  ASSUME NEW e \in Execs, TypeInv, NEW s \in Terminal, NEW i, Request(e, Stop(s, i)),
         ex[e].pc \in InStep \cup {"start", "step"}
  PROVE  Nearer(Distance(ex'[e]), Distance(ex[e]))
<1>1. ex[e] \in Local /\ ex'[e] = [ex[e] EXCEPT !.pc = "read", !.tr = Stop(s, i)]
  BY DEF Request, Become, TypeInv, TypeOK
<1>2. ex'[e].pc = "read" /\ ex'[e].tr.status = s
  BY <1>1 DEF Local, Stop
<1>3. Stage(ex'[e]) = 2
  BY <1>2 DEF Stage, InLoop, Terminal, KeepStatus
<1>4. Stage(ex[e]) \in {3, 4}
  BY DEF Stage, InLoop, InStep
<1>5. QED
  BY <1>3, <1>4, StageFalls

LEMMA LeaveFalls ==
  ASSUME NEW e \in Execs, TypeInv, Leave(e), ex[e].pc # "idle"
  PROVE  Nearer(Distance(ex'[e]), Distance(ex[e]))
<1>1. ex[e] \in Local /\ ex'[e] = Idle
  BY DEF Leave, Become, TypeInv, TypeOK
<1>2. Stage(ex'[e]) = 0
  BY <1>1 DEF Idle, Stage, InLoop
<1>3. Stage(ex[e]) \in 1 .. 5
  BY DEF Stage, InLoop
<1>4. QED
  BY <1>2, <1>3, StageFalls

\* Whatever an executor does, it does to its own local state.
LEMMA MovesItself ==
  ASSUME NEW e \in Execs, Drive(e)
  PROVE  \E l : Become(e, l)
BY DEF Drive, ResumeWrite, StartCheck, SkipStep, BeginStep, StepGuard, FinishLoop,
       InvokeStopped, Invoke, ToolGuard, Dispatch, Capture, AfterCapture, TransitionRead,
       TransitionWrite, Resumed, HandoffRead, HandoffWrite, Request, Goto, Leave, LeaveHandoff

\* Every move of an execution brings it nearer its end.
LEMMA DriveFalls ==
  ASSUME TypeInv, NEW e \in Execs, Drive(e)
  PROVE  Nearer(Distance(ex'[e]), Distance(ex[e]))
<1> USE TaskRunsAssumption, RunLoopAssumption
<1> DEFINE Goal == Nearer(Distance(ex'[e]), Distance(ex[e]))
<1>0. ex[e] \in Local /\ Placed(ex[e]) /\ ex \in [Execs -> Local]
  BY DEF TypeInv, TypeOK
<1>a. ex'[e] \in Local
  BY DriveTypes DEF TypeInv, TypeOK
<1>1. CASE ResumeWrite(e)
  <2>1. ex[e].pc = "resume" /\ ex'[e].pc = "start"
    BY <1>0, <1>1 DEF ResumeWrite, Become, Local
  <2>2. Stage(ex[e]) = 5 /\ Stage(ex'[e]) = 4
    BY <2>1 DEF Stage, InLoop
  <2>3. QED
    BY <2>2, StageFalls
<1>2. CASE StartCheck(e)
  <2>1. CASE Request(e, Stop("blocked", 0))
    BY <1>2, <2>1, StopFalls DEF StartCheck, Terminal
  <2>2. CASE Become(e, [ex[e] EXCEPT !.pc = "step", !.idx = 1])
    <3>1. ex[e].pc = "start" /\ ex'[e].pc = "step"
      BY <1>0, <1>2, <2>2 DEF StartCheck, Become, Local
    <3>2. Stage(ex[e]) = 4 /\ Stage(ex'[e]) = 3
      BY <3>1 DEF Stage, InLoop
    <3>3. QED
      BY <3>2, StageFalls
  <2>3. QED
    BY <1>2, <2>1, <2>2 DEF StartCheck
<1>3. CASE SkipStep(e)
  <2>1. ex[e].pc = "step" /\ ex'[e].pc = "step" /\ ex'[e].idx = ex[e].idx + 1
    BY <1>0, <1>3 DEF SkipStep, Become, Local
  <2>2. Stage(ex[e]) = 3 /\ Stage(ex'[e]) = 3 /\ ex[e].idx < ex'[e].idx
    BY <1>0, <2>1 DEF Stage, InLoop, Local
  <2>3. QED
    BY <1>0, <1>a, <2>2, StepFalls
<1>4. CASE BeginStep(e)
  <2>1. PICK refusal \in Refusals : StepGuard(e, refusal)
    BY <1>4 DEF BeginStep
  <2>2. ex[e].pc = "step"
    BY <1>4 DEF BeginStep
  <2>3. CASE Goto(e, "invoke")
    <3>1. ex'[e] = [ex[e] EXCEPT !.pc = "invoke"]
      BY <1>0, <2>3 DEF Goto, Become
    <3>2. ex'[e].pc = "invoke" /\ ex'[e].idx = ex[e].idx /\ ex'[e].iter = ex[e].iter
          /\ ex'[e].max = ex[e].max
      BY <1>0, <3>1 DEF Local
    <3>3. Stage(ex[e]) = 3 /\ Stage(ex'[e]) = 3
          /\ WayThrough(ex[e]) = 4 /\ WayThrough(ex'[e]) = 2
      BY <2>2, <3>2 DEF Stage, InLoop, WayThrough
    <3>4. QED
      BY <3>2, <3>3, WayFalls
  <2>4. ASSUME NEW s \in {"interrupted", "blocked"}, NEW i, Request(e, Stop(s, i))
        PROVE  Goal
    BY <2>2, <2>4, StopFalls DEF Terminal
  <2>5. QED
    BY <2>1, <2>3, <2>4 DEF StepGuard
<1>5. CASE FinishLoop(e)
  BY <1>5, StopFalls DEF FinishLoop, Terminal
<1>6. CASE InvokeStopped(e)
  <2>1. ex[e].pc \in InStep
    BY <1>6 DEF InvokeStopped, InStep
  <2>2. PICK i \in Nat \cup {KeepIteration} : Request(e, Stop("interrupted", i))
    BY <1>0, <1>6 DEF InvokeStopped, Local
  <2>3. QED
    BY <2>1, <2>2, StopFalls DEF Terminal
<1>7. ASSUME NEW res \in Results, NEW calls \in 0 .. MaxCalls, NEW delta \in 0 .. MaxDelta,
             Invoke(e, res, calls, delta)
      PROVE  Goal
  <2>1. ex[e].pc = "invoke" /\ ex[e].iter < ex[e].max
    BY <1>7 DEF Invoke, MayInvoke
  <2>2. ex'[e].pc \in {"read", "tools", "capture"} /\ ex'[e].tr = SpendTokens(delta)
        /\ ex'[e].idx = ex[e].idx /\ ex'[e].iter = ex[e].iter + 1 /\ ex'[e].max = ex[e].max
    BY <1>0, <1>7 DEF Invoke, Become, Local
  <2>3. Stage(ex[e]) = 3 /\ Stage(ex'[e]) = 3
    BY <2>1, <2>2 DEF Stage, InLoop, SpendTokens
  <2>4. ex[e].iter \in Nat /\ ex[e].max \in Nat
    BY <1>0 DEF Local
  <2>5. Distance(ex'[e]).rounds < Distance(ex[e]).rounds
    BY <2>1, <2>2, <2>4 DEF Distance
  <2>6. QED
    BY <2>2, <2>3, <2>5 DEF Nearer, Distance
<1>8. CASE ToolGuard(e)
  <2>1. ex[e].pc = "tools" /\ ex[e].calls \in Nat /\ ex[e].calls > 0
    BY <1>0, <1>8 DEF ToolGuard, Local, Placed
  <2>2. CASE Request(e, Stop("interrupted", ex[e].iter))
    BY <2>1, <2>2, StopFalls DEF InStep, Terminal
  <2>3. ASSUME NEW pc \in {"capture", "dispatch"}, ex'[e].pc = pc, ex'[e].idx = ex[e].idx,
               ex'[e].iter = ex[e].iter, ex'[e].max = ex[e].max, ex'[e].calls = ex[e].calls
        PROVE  Goal
    <3>1. Stage(ex[e]) = 3 /\ Stage(ex'[e]) = 3 /\ WayThrough(ex'[e]) < WayThrough(ex[e])
      BY <2>1, <2>3 DEF Stage, InLoop, WayThrough
    <3>2. QED
      BY <2>3, <3>1, WayFalls
  <2>4. CASE Become(e, [ex[e] EXCEPT !.pc = "capture", !.denied = TRUE])
    BY <1>0, <2>3, <2>4 DEF Become, Local
  <2>5. CASE Goto(e, "dispatch")
    BY <1>0, <2>3, <2>5 DEF Goto, Become, Local
  <2>6. QED
    BY <1>8, <2>2, <2>4, <2>5 DEF ToolGuard
<1>9. ASSUME NEW allowed \in BOOLEAN, Dispatch(e, allowed)
      PROVE  Goal
  <2>1. ex[e].pc = "dispatch" /\ ex[e].calls \in Nat /\ ex[e].calls > 0
    BY <1>0, <1>9 DEF Dispatch, Local, Placed
  <2>2. ex'[e].pc \in {"tools", "capture"} /\ ex'[e].calls = ex[e].calls - 1
        /\ ex'[e].idx = ex[e].idx /\ ex'[e].iter = ex[e].iter /\ ex'[e].max = ex[e].max
    BY <1>0, <1>9 DEF Dispatch, Become, Local
  <2>3. Stage(ex[e]) = 3 /\ Stage(ex'[e]) = 3 /\ WayThrough(ex'[e]) < WayThrough(ex[e])
    BY <2>1, <2>2 DEF Stage, InLoop, WayThrough
  <2>4. QED
    BY <2>2, <2>3, WayFalls
<1>10. CASE Capture(e)
  <2>1. ex[e].pc = "capture"
    BY <1>10 DEF Capture
  <2>2. CASE Goto(e, "invoke")
    <3>1. ex'[e].pc = "invoke" /\ ex'[e].idx = ex[e].idx /\ ex'[e].iter = ex[e].iter
          /\ ex'[e].max = ex[e].max
      BY <1>0, <2>2 DEF Goto, Become, Local
    <3>2. Stage(ex[e]) = 3 /\ Stage(ex'[e]) = 3
          /\ WayThrough(ex[e]) = 3 /\ WayThrough(ex'[e]) = 2
      BY <2>1, <3>1 DEF Stage, InLoop, WayThrough
    <3>3. QED
      BY <3>1, <3>2, WayFalls
  <2>3. ASSUME NEW s \in {"blocked", "failed"}, Request(e, Stop(s, ex[e].iter))
        PROVE  Goal
    BY <2>1, <2>3, StopFalls DEF InStep, Terminal
  <2>4. CASE Request(e, StepDone(ex[e].iter, ex[e].idx))
    <3>1. ex'[e].pc = "read" /\ ex'[e].tr.status = "running" /\ ex'[e].idx = ex[e].idx
          /\ ex'[e].iter = ex[e].iter /\ ex'[e].max = ex[e].max
      BY <1>0, <2>4 DEF Request, Become, Local, StepDone
    <3>2. Stage(ex[e]) = 3 /\ Stage(ex'[e]) = 3
          /\ WayThrough(ex[e]) = 3 /\ WayThrough(ex'[e]) = 1
      BY <2>1, <3>1 DEF Stage, InLoop, WayThrough, KeepStatus
    <3>3. QED
      BY <3>1, <3>2, WayFalls
  <2>5. ex[e].res \in Results
    BY <1>0 DEF Local
  <2>6. QED
    BY <1>10, <2>2, <2>3, <2>4, <2>5 DEF Capture, AfterCapture, Results
<1>11. CASE TransitionRead(e)
  <2>1. ex[e].pc = "read" /\ ex[e].calls \in Nat
    BY <1>0, <1>11 DEF TransitionRead, Local
  <2>2. CASE Become(e, [ex[e] EXCEPT !.pc = "write", !.snap = run[ex[e].task]])
    <3>1. ex'[e].pc = "write" /\ ex'[e].tr = ex[e].tr /\ ex'[e].calls = ex[e].calls
          /\ ex'[e].idx = ex[e].idx /\ ex'[e].iter = ex[e].iter /\ ex'[e].max = ex[e].max
      BY <1>0, <2>2 DEF Become, Local
    <3>2. Stage(ex'[e]) = Stage(ex[e])
      BY <2>1, <3>1 DEF Stage, InLoop
    <3>3. WayThrough(ex'[e]) < WayThrough(ex[e])
      BY <2>1, <3>1 DEF WayThrough
    <3>4. QED
      BY <3>1, <3>2, <3>3, WayFalls
  <2>3. CASE Leave(e)
    BY <2>1, <2>3, LeaveFalls
  <2>4. QED
    BY <1>11, <2>2, <2>3 DEF TransitionRead
<1>12. CASE TransitionWrite(e)
  <2>1. ex[e].pc = "write" /\ ex[e].calls \in Nat
    BY <1>0, <1>12 DEF TransitionWrite, Local
  <2>2. CASE ex[e].tr.status = KeepStatus
    <3>1. Become(e, [ex[e] EXCEPT !.snap = NoRun, !.tr = SpendTokens(0),
                       !.pc = IF ex[e].calls > 0 THEN "tools" ELSE "capture"])
      BY <1>12, <2>2 DEF TransitionWrite, Resumed, KeepStatus
    <3>2. ex'[e].pc \in {"tools", "capture"} /\ ex'[e].calls = ex[e].calls
          /\ ex'[e].idx = ex[e].idx /\ ex'[e].iter = ex[e].iter /\ ex'[e].max = ex[e].max
      BY <1>0, <3>1 DEF Become, Local
    <3>3. Stage(ex[e]) = 3 /\ Stage(ex'[e]) = 3
      BY <2>1, <2>2, <3>2 DEF Stage, InLoop
    <3>4. WayThrough(ex'[e]) < WayThrough(ex[e])
      BY <2>1, <2>2, <3>2 DEF WayThrough
    <3>5. QED
      BY <3>2, <3>3, <3>4, WayFalls
  <2>3. CASE ex[e].tr.status = "running"
    <3>1. Become(e, [ex[e] EXCEPT !.snap = NoRun, !.tr = SpendTokens(0), !.pc = "step",
                       !.idx = ex[e].idx + 1])
      BY <1>12, <2>3 DEF TransitionWrite, Resumed, KeepStatus
    <3>2. ex'[e].pc = "step" /\ ex'[e].idx = ex[e].idx + 1
      BY <1>0, <3>1 DEF Become, Local
    <3>3. Stage(ex[e]) = 3 /\ Stage(ex'[e]) = 3 /\ ex[e].idx < ex'[e].idx
      BY <1>0, <2>1, <2>3, <3>2 DEF Stage, InLoop, Local
    <3>4. QED
      BY <1>0, <1>a, <3>3, StepFalls
  <2>4. CASE ex[e].tr.status \notin {KeepStatus, "running"}
    <3>1. LeaveHandoff(e)
      BY <1>12, <2>4 DEF TransitionWrite, Resumed
    <3>2. ex'[e].pc = "handoff"
      BY <1>0, <3>1, IdleType DEF LeaveHandoff, Become, Local
    <3>3. Stage(ex[e]) = 2 /\ Stage(ex'[e]) = 1
      BY <2>1, <2>4, <3>2 DEF Stage, InLoop
    <3>4. QED
      BY <3>3, StageFalls
  <2>5. QED
    BY <2>2, <2>3, <2>4
<1>13. CASE HandoffRead(e)
  <2>1. ex[e].pc = "handoff" /\ ex'[e].pc = "link" /\ ex'[e].idx = ex[e].idx
        /\ ex'[e].iter = ex[e].iter /\ ex'[e].max = ex[e].max
    BY <1>0, <1>13 DEF HandoffRead, Become, Local
  <2>2. Stage(ex[e]) = 1 /\ Stage(ex'[e]) = 1
        /\ WayThrough(ex[e]) = 1 /\ WayThrough(ex'[e]) = 0
    BY <2>1 DEF Stage, InLoop, WayThrough
  <2>3. QED
    BY <2>1, <2>2, WayFalls
<1>14. CASE HandoffWrite(e)
  BY <1>14, LeaveFalls DEF HandoffWrite
<1>15. QED
  BY <1>1, <1>2, <1>3, <1>4, <1>5, <1>6, <1>7, <1>8, <1>9, <1>10, <1>11, <1>12, <1>13, <1>14
     DEF Drive

\* Nothing that happens takes an execution away from its end: it moves only by
\* itself or by dying.
THEOREM ExecutionsNearTheirEnd == Spec => NearsItsEnd
<1>1. TypeInv /\ [Next]_vars =>
        [\A e \in Execs :
           ex[e].pc # "idle" /\ ex'[e] # ex[e]
             => Nearer(Distance(ex'[e]), Distance(ex[e]))]_vars
  <2>1. SUFFICES ASSUME TypeInv, Next, NEW e \in Execs, ex[e].pc # "idle", ex'[e] # ex[e]
                 PROVE  Nearer(Distance(ex'[e]), Distance(ex[e]))
    OBVIOUS
  <2>2. ASSUME NEW f \in Execs, NEW l, Become(f, l) PROVE f = e
    BY <2>1, <2>2 DEF Become, TypeInv, TypeOK
  <2>3. ASSUME NEW f \in Execs, NEW t \in Tasks, NEW m \in Limits,
               Start(f, t, m) \/ ResumeRead(f, t, m)
        PROVE  FALSE
    BY <2>1, <2>2, <2>3 DEF Start, ResumeRead
  <2>4. ASSUME NEW f \in Execs, Drive(f) PROVE f = e
    BY <2>2, <2>4, MovesItself
  <2>5. ASSUME NEW f \in Execs, Crash(f) PROVE f = e
    BY <2>2, <2>5 DEF Crash, Leave
  <2>6. ASSUME NEW t \in Tasks, Expire(t) \/ CancelRead(t) \/ CancelWrite(t) PROVE FALSE
    BY <2>1, <2>6 DEF Expire, CancelRead, CancelWrite
  <2>7. QED
    BY <2>1, <2>3, <2>4, <2>5, <2>6, DriveFalls, LeaveFalls DEF Next, Crash
<1>2. QED
  BY <1>1, TypeInvariant, PTL DEF Spec, NearsItsEnd

LEMMA LeastNatural ==
  ASSUME NEW N \in SUBSET Nat, N # {}
  PROVE  \E n \in N : \A m \in N : n <= m
<1> DEFINE Less == {p \in Nat \X Nat : p[1] < p[2]}
<1>1. IsWellFoundedOn(Less, Nat)
  BY NatLessThanWellFounded, Zenon DEF OpToRel
<1>2. PICK n \in N : \A m \in N : <<m, n>> \notin Less
  <2> HIDE DEF Less
  <2> QED
    BY <1>1, WFMin
<1>3. ASSUME NEW m \in N PROVE n <= m
  <2>1. m \in Nat /\ n \in Nat
    OBVIOUS
  <2>2. m < n => <<m, n>> \in Less
    BY <2>1
  <2>3. QED
    BY <1>2, <2>1, <2>2
<1>4. QED
  BY <1>3

\* No execution can come nearer its end for ever: a driven execution has a
\* last move, whatever numbers of steps, rounds and tool calls are allowed.
THEOREM NearerIsWellFounded ==
  IsWellFoundedOn({p \in Distances \X Distances : Nearer(p[1], p[2])}, Distances)
<1> DEFINE R == {p \in Distances \X Distances : Nearer(p[1], p[2])}
<1>1. ASSUME NEW T \in SUBSET Distances, T # {}
      PROVE  \E d \in T : \A c \in T : <<c, d>> \notin R
  <2>1. PICK d1 \in T : \A c \in T : d1.stage <= c.stage
    <3> DEFINE N == {c.stage : c \in T}
    <3>1. N \in SUBSET Nat /\ N # {}
      BY <1>1 DEF Distances
    <3>2. PICK n \in N : \A m \in N : n <= m
      BY <3>1, LeastNatural
    <3>3. QED
      BY <3>2
  <2> DEFINE T1 == {c \in T : c.stage = d1.stage}
  <2>2. PICK d2 \in T1 : \A c \in T1 : d2.steps <= c.steps
    <3> DEFINE N == {c.steps : c \in T1}
    <3>1. N \in SUBSET Nat /\ N # {}
      BY <1>1 DEF Distances
    <3>2. PICK n \in N : \A m \in N : n <= m
      BY <3>1, LeastNatural
    <3>3. QED
      BY <3>2
  <2> DEFINE T2 == {c \in T1 : c.steps = d2.steps}
  <2>3. PICK d3 \in T2 : \A c \in T2 : d3.rounds <= c.rounds
    <3> DEFINE N == {c.rounds : c \in T2}
    <3>1. N \in SUBSET Nat /\ N # {}
      BY <1>1, <2>2 DEF Distances
    <3>2. PICK n \in N : \A m \in N : n <= m
      BY <3>1, LeastNatural
    <3>3. QED
      BY <3>2
  <2> DEFINE T3 == {c \in T2 : c.rounds = d3.rounds}
  <2>4. PICK d4 \in T3 : \A c \in T3 : d4.way <= c.way
    <3> DEFINE N == {c.way : c \in T3}
    <3>1. N \in SUBSET Nat /\ N # {}
      BY <1>1, <2>3 DEF Distances
    <3>2. PICK n \in N : \A m \in N : n <= m
      BY <3>1, LeastNatural
    <3>3. QED
      BY <3>2
  <2>5. ASSUME NEW c \in T, Nearer(c, d4) PROVE FALSE
    <3>1. c \in Distances /\ d4 \in Distances /\ d4 \in T
      BY <1>1
    <3>2. d1.stage <= c.stage /\ d4.stage = d1.stage /\ d4.steps = d2.steps
          /\ d4.rounds = d3.rounds
      BY <2>1
    <3>3. c.stage = d4.stage => d2.steps <= c.steps
      BY <2>2, <3>2
    <3>4. c.stage = d4.stage /\ c.steps = d4.steps => d3.rounds <= c.rounds
      BY <2>3, <3>2
    <3>5. c.stage = d4.stage /\ c.steps = d4.steps /\ c.rounds = d4.rounds => d4.way <= c.way
      BY <2>4, <3>2
    <3>6. QED
      BY <2>5, <3>1, <3>2, <3>3, <3>4, <3>5 DEF Nearer, Distances
  <2>6. QED
    BY <2>5
<1>2. QED
  BY <1>1, MinWF
=============================================================================
