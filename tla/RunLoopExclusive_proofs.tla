---------------------- MODULE RunLoopExclusive_proofs ----------------------
(***************************************************************************)
(* What RunLoop guarantees when operators leave a driven run alone         *)
(* (Exclusive).  One invariant carries all of it: whoever drives a run     *)
(* owns its record, so that a record read for a transition is still the    *)
(* stored one when the transition is written.                              *)
(***************************************************************************)
EXTENDS RunLoop_proofs

\* The round of a step is under way, or its token count or completion is
\* being recorded.
InRound(l) ==
  \/ l.pc \in InStep
  \/ l.pc \in {"read", "write"} /\ l.tr.status \in {KeepStatus, "running"}

\* Before the run is reopened, and after the loop has stopped it.
Outside == {"idle", "resume", "handoff", "link"}
USE DEF Outside

Ceiling == TokenBudget + MaxDelta

\* The meter of a stored run agrees with its spend, and the spend is bounded.
Metered(r) ==
  TokenBudget # NoBudget =>
    /\ r.used < Ceiling
    /\ r.status # "absent" => r.remaining = TokensLeft(r.used)

\* The transition an executor is about to write, for the record r it drives.
Asks(l, r) ==
  /\ l.tr.status = "running" => l.tr.step = l.idx
  /\ l.tr.status # "running" => l.tr.step = 0
  /\ l.tr.delta <= MaxDelta
  /\ l.tr.delta > 0 => TokenBudget = NoBudget \/ r.used < TokenBudget

\* An executor in state l that drives a run owns its record r; c is what a
\* cancelling operator has read of that run.
Owns(l, r, c) ==
  /\ l.pc \in Outside \cup {"start"} => l.idx = 0
  /\ l.pc # "idle" => c = NoRun
  /\ l.pc \in {"resume", "write", "link"} => l.snap = r
  /\ l.pc = "resume" => Resumable(r)
  /\ l.pc \notin Outside => r.status \in Active
  /\ l.pc \notin Outside /\ ~l.resuming => \A s \in r.done : s < l.idx
  /\ InRound(l) => l.idx \notin r.done
  /\ l.pc \in {"read", "write"} => Asks(l, r)

Owned(e) == Owns(ex[e], run[ex[e].task], cancel[ex[e].task])

ExclInv ==
  /\ \A e \in Execs : ex[e].pc # "idle" => Owned(e)
  /\ \A e \in Execs : ex[e].pc = "idle" => ex[e].idx = 0
  /\ \A e, f \in Execs :
       e # f /\ ex[e].pc # "idle" /\ ex[f].pc # "idle" => ex[e].task # ex[f].task
  /\ \A t \in Tasks : Metered(run[t])
  /\ \A t \in Tasks : cancel[t] # NoRun => cancel[t] = run[t] /\ run[t].status \in Active
  /\ OverlapExcluded

\* An admitted executor drives an active run.
LEMMA AdmittedActive ==
  ASSUME TypeInv, ExclInv, NEW e \in Execs, ex[e].idx # 0
  PROVE  ex[e].pc # "idle" /\ ex[e].task \in Tasks /\ run[ex[e].task].status \in Active
BY DEF TypeInv, Placed, ExclInv, Owned, Owns

(***************************************************************************)
(* A driving executor moves: nobody else's run is touched, so only its own *)
(* new state has to be looked at.                                          *)
(***************************************************************************)
LEMMA Moved ==
  ASSUME TypeInv, ExclInv, NEW e \in Execs, NEW l, Become(e, l),
         ex[e].pc # "idle", cancel' = cancel,
         run' \in [Tasks -> RunRecord],
         \A u \in Tasks : u # ex[e].task => run'[u] = run[u],
         Metered(run'[ex[e].task]),
         l.pc = "idle" => l.idx = 0,
         l.pc # "idle" => /\ l.task = ex[e].task
                          /\ Owns(l, run'[ex[e].task], cancel[ex[e].task]),
         l.idx # 0 => ex[e].idx # 0 \/ ~Conflicted(ex[e].task)
  PROVE  ExclInv'
<1> USE RunLoopAssumption
<1>1. ex'[e] = l /\ \A f \in Execs : f # e => ex'[f] = ex[f]
  BY DEF Become, TypeInv, TypeOK
<1>2. ex[e].task \in Tasks /\ cancel[ex[e].task] = NoRun
  BY DEF TypeInv, Placed, ExclInv, Owned, Owns
<1>3. ASSUME NEW f \in Execs, f # e, ex[f].pc # "idle"
      PROVE  ex[f].task \in Tasks /\ ex[f].task # ex[e].task /\ run'[ex[f].task] = run[ex[f].task]
  BY <1>3 DEF TypeInv, Placed, ExclInv
<1>4. ASSUME NEW f \in Execs, ex'[f].pc # "idle" PROVE Owned(f)'
  <2>1. CASE f = e
    BY <1>1, <1>4, <2>1 DEF Owned
  <2>2. CASE f # e
    BY <1>1, <1>3, <1>4, <2>2 DEF Owned, ExclInv
  <2>3. QED
    BY <2>1, <2>2
<1>5. \A f \in Execs : ex'[f].pc = "idle" => ex'[f].idx = 0
  BY <1>1 DEF ExclInv
<1>6. \A f, g \in Execs :
        f # g /\ ex'[f].pc # "idle" /\ ex'[g].pc # "idle" => ex'[f].task # ex'[g].task
  BY <1>1, <1>3 DEF ExclInv
<1>7. \A t \in Tasks : Metered(run'[t])
  BY DEF ExclInv
<1>8. \A t \in Tasks :
        cancel'[t] # NoRun => cancel'[t] = run'[t] /\ run'[t].status \in Active
  BY <1>2 DEF ExclInv
<1>9. OverlapExcluded'
  <2>1. ASSUME NEW f \in Execs, f # e, ex[f].idx # 0, l.idx # 0
        PROVE  <<l.task, ex[f].task>> \notin Conflicts /\ <<ex[f].task, l.task>> \notin Conflicts
    <3>1. l.task = ex[e].task
      BY <2>1
    <3>2. ex[f].task \in Tasks /\ run[ex[f].task].status \in Active
      BY <2>1, AdmittedActive
    <3>3. CASE ex[e].idx # 0
      BY <2>1, <3>1, <3>3 DEF ExclInv, OverlapExcluded, Admitted
    <3>4. CASE ~Conflicted(ex[e].task)
      BY <1>2, <3>1, <3>2, <3>4 DEF Conflicted
    <3>5. QED
      BY <2>1, <3>3, <3>4
  <2>2. ASSUME NEW f \in Execs, NEW g \in Execs, f # g, ex'[f].idx # 0, ex'[g].idx # 0
        PROVE  <<ex'[f].task, ex'[g].task>> \notin Conflicts
    <3>1. CASE f = e
      BY <1>1, <2>1, <2>2, <3>1
    <3>2. CASE g = e
      BY <1>1, <2>1, <2>2, <3>2
    <3>3. CASE f # e /\ g # e
      BY <1>1, <2>2, <3>3 DEF ExclInv, OverlapExcluded, Admitted
    <3>4. QED
      BY <3>1, <3>2, <3>3
  <2>3. QED
    BY <2>2 DEF OverlapExcluded, Admitted
<1>10. QED
  BY <1>4, <1>5, <1>6, <1>7, <1>8, <1>9 DEF ExclInv

\* The moves that only change the executor.
LEMMA MovedLocally ==
  ASSUME TypeInv, ExclInv, NEW e \in Execs, NEW l, Become(e, l),
         ex[e].pc # "idle", cancel' = cancel, run' = run,
         l.pc = "idle" => l.idx = 0,
         l.pc # "idle" => /\ l.task = ex[e].task
                          /\ Owns(l, run[ex[e].task], cancel[ex[e].task]),
         l.idx # 0 => ex[e].idx # 0 \/ ~Conflicted(ex[e].task)
  PROVE  ExclInv'
<1>1. ex[e].task \in Tasks
  BY DEF TypeInv, Placed
<1>2. run' \in [Tasks -> RunRecord] /\ Metered(run'[ex[e].task])
  BY <1>1 DEF TypeInv, TypeOK, ExclInv
<1>3. QED
  BY <1>2, Moved

LEMMA RequestOwned ==
  ASSUME TypeInv, ExclInv, NEW e \in Execs, NEW tr \in Transition, Request(e, tr),
         ex[e].pc \notin Outside, cancel' = cancel, run' = run,
         tr.status = "running" => tr.step = ex[e].idx,
         tr.status # "running" => tr.step = 0,
         tr.delta = 0,
         tr.status \in {KeepStatus, "running"} => ex[e].idx \notin run[ex[e].task].done
  PROVE  ExclInv'
<1> DEFINE l == [ex[e] EXCEPT !.pc = "read", !.tr = tr]
<1>1. ex[e] \in Local /\ Owned(e)
  BY DEF TypeInv, TypeOK, ExclInv
<1>2. l.pc = "read" /\ l.tr = tr /\ l.idx = ex[e].idx /\ l.task = ex[e].task
      /\ l.resuming = ex[e].resuming
  BY <1>1 DEF Local
<1>3. Asks(l, run[ex[e].task])
  <2>1. 0 <= MaxDelta /\ ~(0 > 0)
    BY RunLoopAssumption
  <2>2. QED
    BY <1>2, <2>1 DEF Asks
<1>4. Owns(l, run[ex[e].task], cancel[ex[e].task])
  BY <1>1, <1>2, <1>3 DEF Owned, Owns, InRound, InStep
<1>5. QED
  BY <1>2, <1>4, MovedLocally DEF Request

LEMMA StopOwned ==
  ASSUME TypeInv, ExclInv, NEW e \in Execs, NEW s \in Terminal, NEW i \in Nat \cup {KeepIteration},
         Request(e, Stop(s, i)), ex[e].pc \notin Outside, cancel' = cancel, run' = run
  PROVE  ExclInv'
<1>1. Stop(s, i) \in Transition /\ Stop(s, i).status = s /\ Stop(s, i).step = 0
      /\ Stop(s, i).delta = 0 /\ s \notin {KeepStatus, "running"}
  BY TransitionTypes DEF Stop, Terminal, KeepStatus
<1>2. QED
  BY <1>1, RequestOwned

LEMMA GotoOwned ==
  ASSUME TypeInv, ExclInv, NEW e \in Execs, NEW pc \in InStep, Goto(e, pc),
         ex[e].pc \notin Outside \cup {"start"}, cancel' = cancel, run' = run,
         ex[e].idx \notin run[ex[e].task].done
  PROVE  ExclInv'
<1> DEFINE l == [ex[e] EXCEPT !.pc = pc]
<1>1. ex[e] \in Local /\ Owned(e)
  BY DEF TypeInv, TypeOK, ExclInv
<1>2. l.pc = pc /\ l.idx = ex[e].idx /\ l.task = ex[e].task /\ l.resuming = ex[e].resuming
  BY <1>1 DEF Local
<1>3. Owns(l, run[ex[e].task], cancel[ex[e].task])
  BY <1>1, <1>2 DEF Owned, Owns, InRound, InStep
<1>4. l.pc # "idle"
  BY <1>2 DEF InStep
<1>5. QED
  BY <1>2, <1>3, <1>4, MovedLocally DEF Goto

LEMMA LeaveOwned ==
  ASSUME TypeInv, ExclInv, NEW e \in Execs, Leave(e), ex[e].pc # "idle",
         cancel' = cancel, run' = run
  PROVE  ExclInv'
<1>1. Idle.pc = "idle" /\ Idle.idx = 0
  BY DEF Idle
<1>2. QED
  BY <1>1, MovedLocally DEF Leave

(***************************************************************************)
(* The token meter.                                                        *)
(***************************************************************************)
LEMMA MeterArithmetic ==
  ASSUME NEW n \in Nat
  PROVE  /\ TokenBudget # NoBudget =>
              /\ TokensLeft(n) = 0 => n >= TokenBudget
              /\ TokensLeft(0) = TokenBudget
              /\ 0 < Ceiling
         /\ TokenBudget = NoBudget => TokensLeft(n) = NoBudget
BY TaskRunsAssumption, RunLoopAssumption DEF TokensLeft, Ceiling, NoBudget

LEMMA MeteredTransition ==
  ASSUME NEW r \in RunRecord, NEW tr \in Transition, Metered(r), r.status # "absent",
         tr.delta <= MaxDelta,
         tr.delta > 0 => TokenBudget = NoBudget \/ r.used < TokenBudget
  PROVE  Metered(Transitioned(r, tr))
<1>1. Transitioned(r, tr).used = r.used + tr.delta
      /\ Transitioned(r, tr).remaining = TokensLeft(r.used + tr.delta)
  BY DEF Transitioned
<1>2. r.used \in Nat /\ tr.delta \in Nat
  BY DEF RunRecord, Transition
<1>3. ASSUME TokenBudget # NoBudget PROVE r.used + tr.delta < Ceiling
  <2>1. r.used < Ceiling /\ TokenBudget \in Nat
    BY <1>3, TaskRunsAssumption DEF Metered
  <2>2. CASE tr.delta = 0
    BY <1>2, <2>1, <2>2
  <2>3. CASE tr.delta > 0
    <3>1. r.used < TokenBudget
      BY <1>3, <2>3
    <3>2. Ceiling = TokenBudget + MaxDelta
      BY <1>2, <2>1, <2>3, <3>1, RunLoopAssumption DEF Ceiling
    <3>3. QED
      BY <1>2, <2>1, <3>1, <3>2, RunLoopAssumption
  <2>4. QED
    BY <1>2, <2>2, <2>3
<1>4. QED
  BY <1>1, <1>3 DEF Metered

LEMMA TransitionedFields ==
  ASSUME NEW r \in RunRecord, NEW tr \in Transition
  PROVE  /\ Transitioned(r, tr).status = IF tr.status = KeepStatus THEN r.status ELSE tr.status
         /\ Transitioned(r, tr).done = IF tr.step = 0 THEN r.done ELSE r.done \cup {tr.step}
BY DEF Transitioned

LEMMA DriveOwned ==
  ASSUME TypeInv, CaptureInv, ExclInv, NEW e \in Execs, Drive(e)
  PROVE  ExclInv'
<1> USE TaskRunsAssumption, RunLoopAssumption
<1> DEFINE r == run[ex[e].task]
<1>0. ex[e] \in Local /\ Placed(ex[e]) /\ run \in [Tasks -> RunRecord] /\ TypeInv'
  BY DriveTypes DEF TypeInv, TypeOK
<1>a. ex[e].pc # "idle" => Owned(e) /\ ex[e].task \in Tasks
  BY <1>0 DEF ExclInv, Placed
<1>1. CASE ResumeWrite(e)
  <2> DEFINE l  == [ex[e] EXCEPT !.pc = "start", !.iter = ex[e].snap.iteration, !.snap = NoRun]
             r2 == Reopened(ex[e].snap, ex[e].max)
  <2>1. ex[e].pc = "resume" /\ ex[e].task \in Tasks /\ ex[e].idx = 0 /\ ex[e].snap = r
        /\ cancel[ex[e].task] = NoRun /\ Resumable(r) /\ r \in RunRecord
    BY <1>0, <1>1, <1>a DEF ResumeWrite, Owned, Owns
  <2>2. l.pc = "start" /\ l.idx = 0 /\ l.task = ex[e].task /\ l.resuming = ex[e].resuming
    BY <1>0, <2>1 DEF Local
  <2>3. r2.status = "running" /\ r2.used = r.used /\ r2.remaining = r.remaining
    BY <2>1 DEF Reopened, RunRecord
  <2>4. run'[ex[e].task] = r2 /\ (\A u \in Tasks : u # ex[e].task => run'[u] = run[u])
        /\ run' \in [Tasks -> RunRecord] /\ cancel' = cancel
    BY <1>0, <1>1, <2>1 DEF ResumeWrite, TypeInv, TypeOK
  <2>5. Metered(r2)
    BY <2>1, <2>3 DEF ExclInv, Metered, Resumable
  <2>6. ex[e].resuming
    BY <1>0, <2>1 DEF Placed
  <2>7. Owns(l, r2, cancel[ex[e].task])
    BY <2>1, <2>2, <2>3, <2>6 DEF Owns, InRound, InStep, Active
  <2>8. QED
    BY <1>1, <2>1, <2>2, <2>4, <2>5, <2>7, Moved DEF ResumeWrite
<1>2. CASE StartCheck(e)
  <2>1. ex[e].pc = "start" /\ ex[e].idx = 0 /\ run' = run /\ cancel' = cancel
        /\ ex[e].task \in Tasks /\ Owned(e)
    BY <1>2, <1>a DEF StartCheck, Owned, Owns
  <2>2. CASE Request(e, Stop("blocked", 0))
    BY <2>1, <2>2, StopOwned DEF Terminal
  <2>3. CASE ~Conflicted(ex[e].task) /\ Become(e, [ex[e] EXCEPT !.pc = "step", !.idx = 1])
    <3> DEFINE l == [ex[e] EXCEPT !.pc = "step", !.idx = 1]
    <3>1. l.pc = "step" /\ l.idx = 1 /\ l.task = ex[e].task /\ l.resuming = ex[e].resuming
      BY <1>0 DEF Local
    <3>2. ~l.resuming => \A s \in r.done : s < 1
      <4>1. \A s \in r.done : s \in Nat
        BY <1>0, <2>1 DEF RunRecord, Steps
      <4>2. QED
        BY <2>1, <3>1, <4>1 DEF Owned, Owns
    <3>3. Owns(l, r, cancel[ex[e].task])
      BY <2>1, <3>1, <3>2 DEF Owned, Owns, InRound, InStep
    <3>4. QED
      BY <2>1, <2>3, <3>1, <3>3, MovedLocally
  <2>4. QED
    BY <1>2, <2>2, <2>3 DEF StartCheck
<1>3. CASE SkipStep(e)
  <2> DEFINE l == [ex[e] EXCEPT !.idx = ex[e].idx + 1]
  <2>1. ex[e].pc = "step" /\ ex[e].resuming /\ ex[e].idx # 0 /\ run' = run /\ cancel' = cancel
        /\ ex[e].task \in Tasks /\ Owned(e)
    BY <1>0, <1>3, <1>a DEF SkipStep, Captured, Placed
  <2>2. l.pc = "step" /\ l.task = ex[e].task /\ l.resuming
    BY <1>0, <2>1 DEF Local
  <2>3. Owns(l, r, cancel[ex[e].task])
    BY <2>1, <2>2 DEF Owned, Owns, InRound, InStep
  <2>4. QED
    BY <1>3, <2>1, <2>2, <2>3, MovedLocally DEF SkipStep
<1>4. CASE BeginStep(e)
  <2>1. ex[e].pc = "step" /\ ex[e].idx \in Steps /\ ~Captured(e) /\ run' = run /\ cancel' = cancel
        /\ ex[e].task \in Tasks /\ Owned(e)
    BY <1>4, <1>a DEF BeginStep
  <2>2. ex[e].iter \in Nat /\ ex[e].idx - 1 \in Nat
    BY <1>0, <2>1 DEF Local, Steps
  <2>3. ex[e].idx \notin r.done
    <3>1. CASE ex[e].resuming
      BY <2>1, <3>1 DEF Captured, CaptureInv, Backed
    <3>2. CASE ~ex[e].resuming
      <4>1. \A s \in r.done : s < ex[e].idx
        BY <2>1, <3>2 DEF Owned, Owns
      <4>2. QED
        BY <2>1, <4>1 DEF Steps
    <3>3. QED
      BY <3>1, <3>2
  <2>4. PICK refusal \in Refusals : StepGuard(e, refusal)
    BY <1>4 DEF BeginStep
  <2>5. CASE Goto(e, "invoke")
    BY <2>1, <2>3, <2>5, GotoOwned DEF InStep
  <2>6. ASSUME NEW s \in {"interrupted", "blocked"}, NEW i \in Nat \cup {KeepIteration},
               Request(e, Stop(s, i))
        PROVE  ExclInv'
    BY <2>1, <2>6, StopOwned DEF Terminal
  <2>7. QED
    BY <2>2, <2>4, <2>5, <2>6 DEF StepGuard
<1>5. CASE FinishLoop(e)
  BY <1>5, StopOwned DEF FinishLoop, Terminal
<1>6. CASE InvokeStopped(e)
  <2>1. ex[e].pc = "invoke" /\ ex[e].iter \in Nat /\ run' = run /\ cancel' = cancel
    BY <1>0, <1>6 DEF InvokeStopped, Local
  <2>2. PICK i \in Nat \cup {KeepIteration} : Request(e, Stop("interrupted", i))
    BY <1>6, <2>1 DEF InvokeStopped
  <2>3. QED
    BY <2>1, <2>2, StopOwned DEF Terminal
<1>7. ASSUME NEW res \in Results, NEW calls \in 0 .. MaxCalls, NEW delta \in 0 .. MaxDelta,
             Invoke(e, res, calls, delta)
      PROVE  ExclInv'
  <2> DEFINE pc == IF delta > 0 THEN "read" ELSE IF calls > 0 THEN "tools" ELSE "capture"
             l  == [ex[e] EXCEPT !.pc = pc, !.iter = ex[e].iter + 1, !.res = res,
                      !.calls = calls, !.told = FALSE, !.denied = FALSE,
                      !.tr = SpendTokens(delta)]
  <2>1. ex[e].pc = "invoke" /\ ~OutOfTokens(ex[e].task) /\ run' = run /\ cancel' = cancel
        /\ ex[e].task \in Tasks /\ Owned(e) /\ ex[e].idx # 0 /\ ex[e].idx \notin r.done
    BY <1>0, <1>7, <1>a DEF Invoke, MayInvoke, Placed, InStep, Owned, Owns, InRound, Steps
  <2>2. l.pc = pc /\ l.idx = ex[e].idx /\ l.task = ex[e].task /\ l.resuming = ex[e].resuming
        /\ l.tr = SpendTokens(delta)
    BY <1>0 DEF Local
  <2>3. l.pc = "read" => Asks(l, r)
    <3>1. TokenBudget = NoBudget \/ r.used < TokenBudget
      <4>1. ASSUME TokenBudget # NoBudget PROVE r.used < TokenBudget
        <5>1. r.remaining = TokensLeft(r.used) /\ r.remaining # 0 /\ r.used \in Nat
          BY <1>0, <2>1, <4>1 DEF ExclInv, Metered, OutOfTokens, Owned, Owns, Active, RunRecord
        <5>2. QED
          BY <4>1, <5>1 DEF TokensLeft
      <4>2. QED
        BY <4>1
    <3>2. QED
      BY <2>2, <3>1 DEF Asks, SpendTokens, KeepStatus
  <2>4. Owns(l, r, cancel[ex[e].task])
    BY <2>1, <2>2, <2>3 DEF Owned, Owns, InRound, InStep
  <2>5. l.pc # "idle"
    BY <2>2
  <2>6. QED
    BY <1>7, <2>1, <2>2, <2>4, <2>5, MovedLocally DEF Invoke
<1>8. CASE ToolGuard(e)
  <2>1. ex[e].pc = "tools" /\ ex[e].iter \in Nat /\ run' = run /\ cancel' = cancel
        /\ ex[e].task \in Tasks /\ Owned(e) /\ ex[e].idx # 0 /\ ex[e].idx \notin r.done
    BY <1>0, <1>8, <1>a DEF ToolGuard, Local, Placed, InStep, Owned, Owns, InRound, Steps
  <2>2. CASE Request(e, Stop("interrupted", ex[e].iter))
    BY <2>1, <2>2, StopOwned DEF Terminal
  <2>3. CASE Become(e, [ex[e] EXCEPT !.pc = "capture", !.denied = TRUE])
    <3> DEFINE l == [ex[e] EXCEPT !.pc = "capture", !.denied = TRUE]
    <3>1. l.pc = "capture" /\ l.idx = ex[e].idx /\ l.task = ex[e].task
          /\ l.resuming = ex[e].resuming
      BY <1>0 DEF Local
    <3>2. Owns(l, r, cancel[ex[e].task])
      BY <2>1, <3>1 DEF Owned, Owns, InRound, InStep
    <3>3. QED
      BY <2>1, <2>3, <3>1, <3>2, MovedLocally
  <2>4. CASE Goto(e, "dispatch")
    BY <2>1, <2>4, GotoOwned DEF InStep
  <2>5. QED
    BY <1>8, <2>2, <2>3, <2>4 DEF ToolGuard
<1>9. ASSUME NEW allowed \in BOOLEAN, Dispatch(e, allowed)
      PROVE  ExclInv'
  <2> DEFINE pc == IF allowed /\ ex[e].calls > 1 THEN "tools" ELSE "capture"
             l  == [ex[e] EXCEPT !.pc = pc, !.calls = ex[e].calls - 1,
                      !.told = TRUE, !.denied = ~allowed]
  <2>1. ex[e].pc = "dispatch" /\ run' = run /\ cancel' = cancel
        /\ ex[e].task \in Tasks /\ Owned(e) /\ ex[e].idx # 0 /\ ex[e].idx \notin r.done
    BY <1>0, <1>9, <1>a DEF Dispatch, Placed, InStep, Owned, Owns, InRound, Steps
  <2>2. l.pc = pc /\ l.idx = ex[e].idx /\ l.task = ex[e].task /\ l.resuming = ex[e].resuming
    BY <1>0 DEF Local
  <2>3. Owns(l, r, cancel[ex[e].task])
    BY <2>1, <2>2 DEF Owned, Owns, InRound, InStep
  <2>4. l.pc # "idle"
    BY <2>2
  <2>5. QED
    BY <1>9, <2>1, <2>2, <2>3, <2>4, MovedLocally DEF Dispatch
<1>10. CASE Capture(e)
  <2>1. ex[e].pc = "capture" /\ ex[e].iter \in Nat /\ ex[e].idx \in Steps /\ ex[e].res \in Results
        /\ run' = run /\ cancel' = cancel /\ ex[e].idx \notin r.done
    BY <1>0, <1>10, <1>a DEF Capture, Local, Placed, InStep, Owned, Owns, InRound
  <2>2. CASE Goto(e, "invoke")
    BY <2>1, <2>2, GotoOwned DEF InStep
  <2>3. ASSUME NEW s \in {"blocked", "failed"}, Request(e, Stop(s, ex[e].iter))
        PROVE  ExclInv'
    BY <2>1, <2>3, StopOwned DEF Terminal
  <2>4. CASE Request(e, StepDone(ex[e].iter, ex[e].idx))
    <3>1. StepDone(ex[e].iter, ex[e].idx) \in Transition
          /\ StepDone(ex[e].iter, ex[e].idx).status = "running"
          /\ StepDone(ex[e].iter, ex[e].idx).step = ex[e].idx
          /\ StepDone(ex[e].iter, ex[e].idx).delta = 0
      BY <2>1, TransitionTypes DEF StepDone
    <3>2. QED
      BY <2>1, <2>4, <3>1, RequestOwned
  <2>5. QED
    BY <1>10, <2>1, <2>2, <2>3, <2>4 DEF Capture, AfterCapture, Results
<1>11. CASE TransitionRead(e)
  <2>1. ex[e].pc = "read" /\ run' = run /\ cancel' = cancel /\ Owned(e)
    BY <1>11, <1>a DEF TransitionRead
  <2>2. CASE Become(e, [ex[e] EXCEPT !.pc = "write", !.snap = run[ex[e].task]])
    <3> DEFINE l == [ex[e] EXCEPT !.pc = "write", !.snap = run[ex[e].task]]
    <3>1. l.pc = "write" /\ l.idx = ex[e].idx /\ l.task = ex[e].task /\ l.snap = r
          /\ l.resuming = ex[e].resuming /\ l.tr = ex[e].tr
      BY <1>0 DEF Local
    <3>2. Owns(l, r, cancel[ex[e].task])
      BY <2>1, <3>1 DEF Owned, Owns, InRound, InStep, Asks
    <3>3. QED
      BY <2>1, <2>2, <3>1, <3>2, MovedLocally
  <2>3. CASE Leave(e)
    BY <2>1, <2>3, LeaveOwned
  <2>4. QED
    BY <1>11, <2>2, <2>3 DEF TransitionRead
<1>12. CASE TransitionWrite(e)
  <2> DEFINE tr == ex[e].tr
             r2 == Transitioned(r, tr)
  <2>1. ex[e].pc = "write" /\ ex[e].task \in Tasks /\ Owned(e) /\ ex[e].snap = r
        /\ r \in RunRecord /\ r.status \in Active /\ tr \in Transition /\ Asks(ex[e], r)
        /\ cancel' = cancel /\ cancel[ex[e].task] = NoRun
    BY <1>0, <1>12, <1>a DEF TransitionWrite, Owned, Owns, Local
  <2>2. run'[ex[e].task] = r2 /\ (\A u \in Tasks : u # ex[e].task => run'[u] = run[u])
        /\ run' \in [Tasks -> RunRecord]
    BY <1>0, <1>12, <2>1 DEF TransitionWrite, TypeInv, TypeOK
  <2>3. Metered(r2)
    BY <2>1, MeteredTransition DEF ExclInv, Asks, Active
  <2>4. r2.status = (IF tr.status = KeepStatus THEN r.status ELSE tr.status)
        /\ r2.done = (IF tr.step = 0 THEN r.done ELSE r.done \cup {tr.step})
    BY <2>1, TransitionedFields
  <2>5. CASE tr.status = KeepStatus
    <3> DEFINE pc == IF ex[e].calls > 0 THEN "tools" ELSE "capture"
               l  == [ex[e] EXCEPT !.snap = NoRun, !.tr = SpendTokens(0), !.pc = pc]
    <3>1. l.pc = pc /\ l.idx = ex[e].idx /\ l.task = ex[e].task /\ l.resuming = ex[e].resuming
      BY <1>0 DEF Local
    <3>2. ex[e].idx # 0 /\ ex[e].idx \notin r.done
      BY <1>0, <2>1, <2>5 DEF Owned, Owns, InRound, Placed, Steps
    <3>3. r2.status \in Active /\ r2.done = r.done
      BY <2>1, <2>4, <2>5 DEF Asks, KeepStatus
    <3>4. Owns(l, r2, cancel[ex[e].task])
      BY <2>1, <3>1, <3>2, <3>3 DEF Owned, Owns, InRound, InStep
    <3>5. Become(e, l)
      BY <1>12, <2>5 DEF TransitionWrite, Resumed, KeepStatus
    <3>6. l.pc # "idle"
      BY <3>1
    <3>7. QED
      BY <2>1, <2>2, <2>3, <3>1, <3>2, <3>4, <3>5, <3>6, Moved
  <2>6. CASE tr.status = "running"
    <3> DEFINE l == [ex[e] EXCEPT !.snap = NoRun, !.tr = SpendTokens(0), !.pc = "step",
                       !.idx = ex[e].idx + 1]
    <3>1. l.pc = "step" /\ l.idx = ex[e].idx + 1 /\ l.task = ex[e].task
          /\ l.resuming = ex[e].resuming
      BY <1>0 DEF Local
    <3>2. ex[e].idx \in Steps /\ ex[e].idx # 0 /\ tr.step = ex[e].idx
      BY <1>0, <2>1, <2>6 DEF Placed, Steps, Asks
    <3>3. r2.status \in Active /\ r2.done = r.done \cup {ex[e].idx}
      BY <2>4, <2>6, <3>2 DEF KeepStatus, Active
    <3>4. ~l.resuming => \A s \in r2.done : s < l.idx
      <4>1. SUFFICES ASSUME ~ex[e].resuming, NEW s \in r2.done PROVE s < ex[e].idx + 1
        BY <3>1
      <4>2. CASE s = ex[e].idx
        BY <3>2, <4>2 DEF Steps
      <4>3. CASE s \in r.done
        <5>1. s < ex[e].idx /\ s \in Nat
          BY <1>0, <2>1, <4>1, <4>3 DEF Owned, Owns, RunRecord, Steps
        <5>2. QED
          BY <3>2, <5>1 DEF Steps
      <4>4. QED
        BY <3>3, <4>1, <4>2, <4>3
    <3>5. Owns(l, r2, cancel[ex[e].task])
      BY <2>1, <3>1, <3>3, <3>4 DEF Owns, InRound, InStep
    <3>6. Become(e, l)
      BY <1>12, <2>6 DEF TransitionWrite, Resumed, KeepStatus
    <3>7. QED
      BY <2>1, <2>2, <2>3, <3>1, <3>2, <3>5, <3>6, Moved
  <2>7. CASE tr.status \notin {KeepStatus, "running"}
    <3> DEFINE l == [Idle EXCEPT !.pc = "handoff", !.task = ex[e].task]
    <3>1. Become(e, l) /\ l.pc = "handoff" /\ l.idx = 0 /\ l.task = ex[e].task
      BY <1>12, <2>7 DEF TransitionWrite, Resumed, LeaveHandoff, Idle
    <3>2. Owns(l, r2, cancel[ex[e].task])
      BY <2>1, <3>1 DEF Owns, InRound, InStep
    <3>3. QED
      BY <2>1, <2>2, <2>3, <3>1, <3>2, Moved
  <2>8. QED
    BY <2>5, <2>6, <2>7
<1>13. CASE HandoffRead(e)
  <2> DEFINE l == [ex[e] EXCEPT !.pc = "link", !.snap = run[ex[e].task]]
  <2>1. ex[e].pc = "handoff" /\ ex[e].idx = 0 /\ run' = run /\ cancel' = cancel /\ Owned(e)
    BY <1>13, <1>a DEF HandoffRead, Owned, Owns
  <2>2. l.pc = "link" /\ l.idx = 0 /\ l.task = ex[e].task /\ l.snap = r
    BY <1>0, <2>1 DEF Local
  <2>3. Owns(l, r, cancel[ex[e].task])
    BY <2>1, <2>2 DEF Owned, Owns, InRound, InStep
  <2>4. QED
    BY <1>13, <2>1, <2>2, <2>3, MovedLocally DEF HandoffRead
<1>14. CASE HandoffWrite(e)
  <2>1. ex[e].pc = "link" /\ ex[e].task \in Tasks /\ ex[e].snap = r /\ cancel' = cancel
    BY <1>14, <1>a DEF HandoffWrite, Owned, Owns
  <2>2. run' = run
    BY <1>0, <1>14, <2>1 DEF HandoffWrite
  <2>3. QED
    BY <1>14, <2>1, <2>2, LeaveOwned DEF HandoffWrite
<1>15. QED
  BY <1>1, <1>2, <1>3, <1>4, <1>5, <1>6, <1>7, <1>8, <1>9, <1>10, <1>11, <1>12, <1>13, <1>14
     DEF Drive

(***************************************************************************)
(* Entering the loop, and the operator's moves.                            *)
(***************************************************************************)

\* An idle executor takes a run nobody drives and nobody is cancelling.
LEMMA EnterOwned ==
  ASSUME TypeInv, ExclInv, NEW e \in Execs, NEW t \in Tasks, NEW l, Become(e, l),
         ex[e].pc = "idle", ~Driven(t), cancel[t] = NoRun, cancel' = cancel,
         \A u \in Tasks : u # t => run'[u] = run[u],
         Metered(run'[t]),
         l.pc # "idle", l.idx = 0, l.task = t, Owns(l, run'[t], NoRun)
  PROVE  ExclInv'
<1>1. ex'[e] = l /\ \A f \in Execs : f # e => ex'[f] = ex[f]
  BY DEF Become, TypeInv, TypeOK
<1>2. ASSUME NEW f \in Execs, ex[f].pc # "idle"
      PROVE  f # e /\ ex[f].task \in Tasks /\ ex[f].task # t /\ run'[ex[f].task] = run[ex[f].task]
  BY <1>2 DEF TypeInv, Placed, Driven
<1>3. ASSUME NEW f \in Execs, ex'[f].pc # "idle" PROVE Owned(f)'
  <2>1. CASE f = e
    BY <1>1, <2>1 DEF Owned
  <2>2. CASE f # e
    BY <1>1, <1>2, <1>3, <2>2 DEF Owned, ExclInv
  <2>3. QED
    BY <2>1, <2>2
<1>4. \A f \in Execs : ex'[f].pc = "idle" => ex'[f].idx = 0
  BY <1>1 DEF ExclInv
<1>5. \A f, g \in Execs :
        f # g /\ ex'[f].pc # "idle" /\ ex'[g].pc # "idle" => ex'[f].task # ex'[g].task
  BY <1>1, <1>2 DEF ExclInv
<1>6. \A u \in Tasks : Metered(run'[u])
  BY DEF ExclInv
<1>7. \A u \in Tasks :
        cancel'[u] # NoRun => cancel'[u] = run'[u] /\ run'[u].status \in Active
  BY DEF ExclInv
<1>8. OverlapExcluded'
  BY <1>1 DEF ExclInv, OverlapExcluded, Admitted
<1>9. QED
  BY <1>3, <1>4, <1>5, <1>6, <1>7, <1>8 DEF ExclInv

LEMMA StartOwned ==
  ASSUME Exclusive, TypeInv, ExclInv, NEW e \in Execs, NEW t \in Tasks, NEW m \in Limits,
         Start(e, t, m)
  PROVE  ExclInv'
<1> DEFINE l == [Idle EXCEPT !.pc = "start", !.task = t, !.max = m]
<1>1. l.pc = "start" /\ l.idx = 0 /\ l.task = t
  BY DEF Idle
<1>2. run'[t] = NewRun(m) /\ \A u \in Tasks : u # t => run'[u] = run[u]
  BY DEF Start, TypeInv, TypeOK
<1>3. NewRun(m).status = "pending" /\ NewRun(m).used = 0 /\ NewRun(m).done = {}
      /\ NewRun(m).remaining = TokenBudget
  BY DEF NewRun
<1>4. Metered(NewRun(m))
  BY <1>3, MeterArithmetic DEF Metered
<1>5. Owns(l, NewRun(m), NoRun)
  BY <1>1, <1>3 DEF Owns, InRound, InStep, Active
<1>6. QED
  BY <1>1, <1>2, <1>4, <1>5, EnterOwned DEF Start, Free

LEMMA ResumeOwned ==
  ASSUME Exclusive, TypeInv, ExclInv, NEW e \in Execs, NEW t \in Tasks, NEW m \in Limits,
         ResumeRead(e, t, m)
  PROVE  ExclInv'
<1> DEFINE l == [Idle EXCEPT !.pc = "resume", !.task = t, !.resuming = TRUE, !.max = m,
                             !.snap = run[t]]
<1>1. l.pc = "resume" /\ l.idx = 0 /\ l.task = t /\ l.snap = run[t]
  BY DEF Idle
<1>2. Owns(l, run[t], NoRun)
  BY <1>1 DEF Owns, InRound, InStep, ResumeRead
<1>3. run' = run /\ Metered(run[t])
  BY DEF ResumeRead, ExclInv
<1>4. QED
  BY <1>1, <1>2, <1>3, EnterOwned DEF ResumeRead, Free

LEMMA CancelReadOwned ==
  ASSUME Exclusive, TypeInv, ExclInv, NEW t \in Tasks, CancelRead(t)
  PROVE  ExclInv'
<1>1. ~Driven(t) /\ run' = run /\ ex' = ex /\ run[t].status \in Active
      /\ cancel'[t] = run[t] /\ \A u \in Tasks : u # t => cancel'[u] = cancel[u]
  BY DEF CancelRead, Free, TypeInv, TypeOK
<1>2. ASSUME NEW f \in Execs, ex[f].pc # "idle" PROVE Owned(f)'
  <2>1. ex[f].task \in Tasks /\ ex[f].task # t /\ Owned(f)
    BY <1>1, <1>2 DEF TypeInv, Placed, Driven, ExclInv
  <2>2. QED
    BY <1>1, <2>1 DEF Owned
<1>3. OverlapExcluded'
  BY <1>1 DEF ExclInv, OverlapExcluded, Admitted
<1>4. QED
  BY <1>1, <1>2, <1>3 DEF ExclInv

\* The cancelling operator still holds the stored record when it writes.
LEMMA CancelWriteOwned ==
  ASSUME TypeInv, ExclInv, NEW t \in Tasks, CancelWrite(t)
  PROVE  ExclInv'
<1> DEFINE tr == Stop("interrupted", cancel[t].iteration)
<1>1. cancel[t] = run[t] /\ run[t] \in RunRecord /\ run[t].status \in Active /\ ex' = ex
  BY DEF CancelWrite, ExclInv, TypeInv, TypeOK
<1>2. run'[t] = Transitioned(run[t], tr) /\ (\A u \in Tasks : u # t => run'[u] = run[u])
      /\ cancel'[t] = NoRun /\ (\A u \in Tasks : u # t => cancel'[u] = cancel[u])
  BY <1>1 DEF CancelWrite, TypeInv, TypeOK
<1>3. tr \in Transition /\ tr.delta = 0
  BY <1>1, TransitionTypes DEF Stop, Terminal, RunRecord
<1>4. Metered(run'[t])
  <2>1. 0 <= MaxDelta /\ ~(0 > 0) /\ run[t].status # "absent"
    BY <1>1, RunLoopAssumption DEF Active
  <2>2. QED
    BY <1>1, <1>2, <1>3, <2>1, MeteredTransition DEF ExclInv
<1>5. ASSUME NEW f \in Execs, ex[f].pc # "idle" PROVE Owned(f)'
  <2>1. ex[f].task \in Tasks /\ ex[f].task # t /\ Owned(f)
    BY <1>5 DEF TypeInv, Placed, ExclInv, Owned, Owns, CancelWrite
  <2>2. QED
    BY <1>1, <1>2, <2>1 DEF Owned
<1>6. OverlapExcluded'
  BY <1>1 DEF ExclInv, OverlapExcluded, Admitted
<1>7. QED
  BY <1>1, <1>2, <1>4, <1>5, <1>6 DEF ExclInv

LEMMA UnchangedOwned ==
  ASSUME ExclInv, run' = run, cancel' = cancel, ex' = ex
  PROVE  ExclInv'
BY DEF ExclInv, Owned, OverlapExcluded, Admitted

LEMMA ExclInductive ==
  ASSUME Exclusive
  PROVE  /\ Init => ExclInv
         /\ TypeInv /\ CaptureInv /\ ExclInv /\ [Next]_vars => ExclInv'
<1>1. ASSUME Init PROVE ExclInv
  <2>1. Idle.pc = "idle" /\ Idle.idx = 0 /\ NoRun.status = "absent" /\ NoRun.used = 0
    BY DEF Idle, NoRun
  <2>2. \A t \in Tasks : Metered(run[t])
    BY <1>1, <2>1, MeterArithmetic DEF Init, Metered
  <2>3. QED
    BY <1>1, <2>1, <2>2 DEF Init, ExclInv, OverlapExcluded, Admitted
<1>2. ASSUME TypeInv, CaptureInv, ExclInv, [Next]_vars PROVE ExclInv'
  <2>1. ASSUME NEW e \in Execs, NEW t \in Tasks, NEW m \in Limits,
               Start(e, t, m) \/ ResumeRead(e, t, m)
        PROVE  ExclInv'
    BY <1>2, <2>1, StartOwned, ResumeOwned
  <2>2. ASSUME NEW e \in Execs, Drive(e) PROVE ExclInv'
    BY <1>2, <2>2, DriveOwned
  <2>3. ASSUME NEW e \in Execs, Crash(e) PROVE ExclInv'
    BY <1>2, <2>3, LeaveOwned DEF Crash
  <2>4. ASSUME NEW t \in Tasks, Expire(t) PROVE ExclInv'
    BY <1>2, <2>4, UnchangedOwned DEF Expire
  <2>5. ASSUME NEW t \in Tasks, CancelRead(t) \/ CancelWrite(t) PROVE ExclInv'
    BY <1>2, <2>5, CancelReadOwned, CancelWriteOwned
  <2>6. CASE UNCHANGED vars
    BY <1>2, <2>6, UnchangedOwned DEF vars
  <2>7. QED
    BY <1>2, <2>1, <2>2, <2>3, <2>4, <2>5, <2>6 DEF Next
<1>3. QED
  BY <1>1, <1>2

LEMMA ExclInvariant == ASSUME Exclusive PROVE Spec => []ExclInv
<1>1. Init => ExclInv
  BY ExclInductive
<1>2. TypeInv /\ CaptureInv /\ ExclInv /\ [Next]_vars => ExclInv'
  BY ExclInductive
<1>3. QED
  BY <1>1, <1>2, TypeInvariant, CaptureInvariant, PTL DEF Spec

\* When operators leave driven runs alone, two admitted executors never work
\* under overlapping intent locks: the check after the write is enough.
THEOREM OverlapIsExcluded == ASSUME Exclusive PROVE Spec => []OverlapExcluded
<1>1. ExclInv => OverlapExcluded
  BY DEF ExclInv
<1>2. QED
  BY <1>1, ExclInvariant, PTL

\* When operators leave driven runs alone, a recorded step is never driven
\* again, wherever a process died and whoever resumed its run.
THEOREM RecordedStepsStay == ASSUME Exclusive PROVE Spec => []NoRecordedStepDriven
<1>1. ASSUME TypeInv, ExclInv PROVE NoRecordedStepDriven
  BY <1>1 DEF ExclInv, Owned, Owns, InRound, InStep, NoRecordedStepDriven
<1>2. QED
  BY <1>1, TypeInvariant, ExclInvariant, PTL

\* When operators leave driven runs alone, the recorded spend passes the token
\* budget by less than one provider call, however often the run is resumed.
THEOREM SpendIsBounded == ASSUME Exclusive PROVE Spec => []TokensBounded
<1>1. ExclInv => TokensBounded
  BY DEF ExclInv, Metered, Ceiling, TokensBounded
<1>2. QED
  BY <1>1, ExclInvariant, PTL

(***************************************************************************)
(* Refinement of RunLifecycle.                                             *)
(***************************************************************************)

\* Writing one record changes one task's status and completed steps.
LEMMA OneRecordWritten ==
  ASSUME run \in [Tasks -> RunRecord], NEW t \in Tasks, NEW r2, run' = [run EXCEPT ![t] = r2]
  PROVE  /\ [u \in Tasks |-> run'[u].status]
              = [[u \in Tasks |-> run[u].status] EXCEPT ![t] = r2.status]
         /\ [u \in Tasks |-> run'[u].done]
              = [[u \in Tasks |-> run[u].done] EXCEPT ![t] = r2.done]
OBVIOUS

\* A record written in the place of another maps to the lifecycle step that
\* takes the one status and set of steps to the other.
LEMMA LifecycleStep ==
  ASSUME run \in [Tasks -> RunRecord], NEW t \in Tasks, NEW r2, run' = [run EXCEPT ![t] = r2],
         \/ r2.status = "pending" /\ r2.done = {}
         \/ /\ run[t].status \in Active /\ r2.status = "running"
            /\ \E s \in Steps : s \notin run[t].done /\ r2.done = run[t].done \cup {s}
         \/ run[t].status \in Active /\ r2.status \in Terminal /\ r2.done = run[t].done
         \/ run[t].status = "interrupted" /\ r2.status = "running" /\ r2.done = run[t].done
         \/ r2.status = run[t].status /\ r2.done = run[t].done
  PROVE  [Lifecycle!Next]_(Lifecycle!vars)
<1> DEFINE st == [u \in Tasks |-> run[u].status]
           dn == [u \in Tasks |-> run[u].done]
<1>1. [u \in Tasks |-> run'[u].status] = [st EXCEPT ![t] = r2.status]
      /\ [u \in Tasks |-> run'[u].done] = [dn EXCEPT ![t] = r2.done]
  BY OneRecordWritten
<1>2. st[t] = run[t].status /\ dn[t] = run[t].done
  OBVIOUS
<1>3. r2.done = run[t].done => [dn EXCEPT ![t] = r2.done] = dn
  OBVIOUS
<1>4. CASE r2.status = "pending" /\ r2.done = {}
  <2>1. Lifecycle!Create(t)
    BY <1>1, <1>4 DEF Lifecycle!Create
  <2>2. QED
    BY <2>1 DEF Lifecycle!Next
<1>5. CASE /\ run[t].status \in Active /\ r2.status = "running"
           /\ \E s \in Steps : s \notin run[t].done /\ r2.done = run[t].done \cup {s}
  <2>1. PICK s \in Steps : s \notin run[t].done /\ r2.done = run[t].done \cup {s}
    BY <1>5
  <2>2. Lifecycle!CompleteStep(t, s)
    BY <1>1, <1>2, <1>5, <2>1 DEF Lifecycle!CompleteStep, Lifecycle!Active, Active
  <2>3. QED
    BY <2>2 DEF Lifecycle!Next
<1>6. CASE run[t].status \in Active /\ r2.status \in Terminal /\ r2.done = run[t].done
  <2>1. Lifecycle!End(t, r2.status)
    BY <1>1, <1>2, <1>3, <1>6 DEF Lifecycle!End, Lifecycle!Active, Active
  <2>2. QED
    BY <1>6, <2>1 DEF Lifecycle!Next, Lifecycle!Stopped, Terminal
<1>7. CASE run[t].status = "interrupted" /\ r2.status = "running" /\ r2.done = run[t].done
  <2>1. Lifecycle!Reopen(t)
    BY <1>1, <1>2, <1>3, <1>7 DEF Lifecycle!Reopen
  <2>2. QED
    BY <2>1 DEF Lifecycle!Next
<1>8. CASE r2.status = run[t].status /\ r2.done = run[t].done
  <2>1. [st EXCEPT ![t] = r2.status] = st
    BY <1>8
  <2>2. QED
    BY <1>1, <1>3, <1>8, <2>1 DEF Lifecycle!vars
<1>9. QED
  BY <1>4, <1>5, <1>6, <1>7, <1>8

LEMMA RunUnchanged ==
  ASSUME run' = run
  PROVE  [Lifecycle!Next]_(Lifecycle!vars)
BY DEF Lifecycle!vars

LEMMA DriveRefines ==
  ASSUME TypeInv, ExclInv, NEW e \in Execs, Drive(e)
  PROVE  [Lifecycle!Next]_(Lifecycle!vars)
<1>0. ex[e] \in Local /\ Placed(ex[e]) /\ run \in [Tasks -> RunRecord]
      /\ (ex[e].pc # "idle" => Owned(e))
  BY DEF TypeInv, TypeOK, ExclInv
<1>1. CASE ResumeWrite(e)
  <2> DEFINE r2 == Reopened(ex[e].snap, ex[e].max)
  <2>1. ex[e].task \in Tasks /\ ex[e].snap = run[ex[e].task]
        /\ run[ex[e].task].status = "interrupted" /\ run[ex[e].task] \in RunRecord
    BY <1>0, <1>1 DEF ResumeWrite, Owned, Owns, Placed, Resumable
  <2>2. r2.status = "running" /\ r2.done = run[ex[e].task].done
    BY <2>1 DEF Reopened, RunRecord
  <2>3. run' = [run EXCEPT ![ex[e].task] = r2]
    BY <1>1 DEF ResumeWrite
  <2>4. QED
    BY <1>0, <2>1, <2>2, <2>3, LifecycleStep
<1>2. CASE TransitionWrite(e)
  <2> DEFINE t  == ex[e].task
             tr == ex[e].tr
             r2 == Transitioned(ex[e].snap, tr)
  <2>1. t \in Tasks /\ ex[e].snap = run[t] /\ run[t] \in RunRecord /\ run[t].status \in Active
        /\ tr \in Transition /\ Asks(ex[e], run[t])
    BY <1>0, <1>2 DEF TransitionWrite, Owned, Owns, Placed, Local
  <2>2. run' = [run EXCEPT ![t] = r2]
    BY <1>2 DEF TransitionWrite
  <2>3. r2.status = (IF tr.status = KeepStatus THEN run[t].status ELSE tr.status)
        /\ r2.done = (IF tr.step = 0 THEN run[t].done ELSE run[t].done \cup {tr.step})
    BY <2>1, TransitionedFields
  <2>4. CASE tr.status = KeepStatus
    <3>1. r2.status = run[t].status /\ r2.done = run[t].done
      BY <2>1, <2>3, <2>4 DEF Asks, KeepStatus
    <3>2. QED
      BY <1>0, <2>1, <2>2, <3>1, LifecycleStep
  <2>5. CASE tr.status = "running"
    <3>1. ex[e].idx \in Steps /\ ex[e].idx \notin run[t].done /\ tr.step = ex[e].idx
          /\ ex[e].idx # 0
      BY <1>0, <1>2, <2>1, <2>5 DEF TransitionWrite, Placed, Owned, Owns, InRound, Asks, Steps
    <3>2. r2.status = "running" /\ r2.done = run[t].done \cup {ex[e].idx}
      BY <2>3, <2>5, <3>1 DEF KeepStatus
    <3>3. QED
      BY <1>0, <2>1, <2>2, <3>1, <3>2, LifecycleStep
  <2>6. CASE tr.status \in Terminal
    <3>1. r2.status \in Terminal /\ r2.done = run[t].done
      BY <2>1, <2>3, <2>6 DEF Asks, KeepStatus, Terminal
    <3>2. QED
      BY <1>0, <2>1, <2>2, <3>1, LifecycleStep
  <2>7. QED
    BY <2>1, <2>4, <2>5, <2>6 DEF Transition
<1>3. CASE run' = run
  BY <1>3, RunUnchanged
<1>4. CASE HandoffWrite(e)
  <2>1. ex[e].task \in Tasks /\ ex[e].snap = run[ex[e].task]
    BY <1>0, <1>4 DEF HandoffWrite, Owned, Owns, Placed
  <2>2. run' = run
    BY <1>0, <1>4, <2>1 DEF HandoffWrite
  <2>3. QED
    BY <2>2, RunUnchanged
<1>5. QED
  BY <1>1, <1>2, <1>3, <1>4
     DEF Drive, HandoffRead, StartCheck, SkipStep, BeginStep, FinishLoop, InvokeStopped, Invoke, ToolGuard,
         Dispatch, Capture, TransitionRead

LEMMA NextRefines ==
  ASSUME TypeInv, ExclInv, [Next]_vars
  PROVE  [Lifecycle!Next]_(Lifecycle!vars)
<1>0. run \in [Tasks -> RunRecord]
  BY DEF TypeInv, TypeOK
<1>1. ASSUME NEW e \in Execs, NEW t \in Tasks, NEW m \in Limits, Start(e, t, m)
      PROVE  [Lifecycle!Next]_(Lifecycle!vars)
  <2>1. NewRun(m).status = "pending" /\ NewRun(m).done = {}
    BY DEF NewRun
  <2>2. QED
    BY <1>0, <1>1, <2>1, LifecycleStep DEF Start
<1>2. ASSUME NEW e \in Execs, Drive(e) PROVE [Lifecycle!Next]_(Lifecycle!vars)
  BY <1>2, DriveRefines
<1>3. ASSUME NEW t \in Tasks, CancelWrite(t) PROVE [Lifecycle!Next]_(Lifecycle!vars)
  <2> DEFINE tr == Stop("interrupted", cancel[t].iteration)
  <2>1. cancel[t] = run[t] /\ run[t] \in RunRecord /\ run[t].status \in Active
    BY <1>0, <1>3 DEF CancelWrite, ExclInv
  <2>2. tr \in Transition /\ tr.status = "interrupted" /\ tr.step = 0
    BY <2>1, TransitionTypes DEF Stop, Terminal, RunRecord
  <2>3. Transitioned(run[t], tr).status = "interrupted" /\ Transitioned(run[t], tr).done = run[t].done
    BY <2>1, <2>2, TransitionedFields DEF KeepStatus
  <2>4. QED
    BY <1>0, <1>3, <2>1, <2>3, LifecycleStep DEF CancelWrite, Terminal
<1>4. CASE run' = run
  BY <1>4, RunUnchanged
<1>5. QED
  BY <1>1, <1>2, <1>3, <1>4 DEF Next, vars, ResumeRead, Crash, Expire, CancelRead

\* When operators leave driven runs alone, the stored records implement the
\* documented lifecycle although each is read and written in two accesses.
THEOREM LifecycleIsImplemented == ASSUME Exclusive PROVE Spec => LifecycleSpec
<1>1. Init => Lifecycle!Init
  BY DEF Init, NoRun, Lifecycle!Init
<1>2. TypeInv /\ ExclInv /\ [Next]_vars => [Lifecycle!Next]_(Lifecycle!vars)
  BY NextRefines
<1>3. QED
  BY <1>1, <1>2, TypeInvariant, ExclInvariant, PTL DEF Spec, LifecycleSpec, Lifecycle!Spec

(***************************************************************************)
(* What a run records, the runner has finished.  As in CaptureInv, every   *)
(* copy of a record must be backed, here by the answers to the current     *)
(* run; a fresh execution forgets those, and Exclusive says that nobody    *)
(* then holds a copy.                                                      *)
(***************************************************************************)
Honest(r, t, answers) == \A s \in r.done : <<t, s>> \in answers

Answers(l, answers) ==
  l.pc # "idle" =>
    /\ Honest(l.snap, l.task, answers)
    /\ ~l.resuming => \A i \in Steps : i < l.idx => <<l.task, i>> \in answers
    /\ l.pc \in {"read", "write"} /\ l.tr.step # 0 => <<l.task, l.tr.step>> \in answers

FinishedInv ==
  /\ \A t \in Tasks : Honest(run[t], t, finished) /\ Honest(cancel[t], t, finished)
  /\ \A e \in Execs : Answers(ex[e], finished)

LEMMA HonestRecords ==
  ASSUME NEW t, NEW answers
  PROVE  /\ Honest(NoRun, t, answers)
         /\ \A m : Honest(NewRun(m), t, answers)
         /\ \A r \in RunRecord : \A m :
              Honest(r, t, answers) => Honest(Reopened(r, m), t, answers)
         /\ \A r, tr : Honest(r, t, answers) /\ (tr.step # 0 => <<t, tr.step>> \in answers)
              => Honest(Transitioned(r, tr), t, answers)
BY DEF Honest, NoRun, NewRun, Reopened, RunRecord, Transitioned

\* The step under way is the next of those already answered.
LEMMA AnswersNext ==
  ASSUME NEW l \in Local, NEW answers, Answers(l, answers), l.pc # "idle",
         l.idx \in Steps, <<l.task, l.idx>> \in answers, ~l.resuming
  PROVE  \A i \in Steps : i < l.idx + 1 => <<l.task, i>> \in answers
<1>1. \A i \in Steps : i < l.idx + 1 => i < l.idx \/ i = l.idx
  BY DEF Steps
<1>2. QED
  BY <1>1 DEF Answers

\* Nothing but an executor's own move can make its answers insufficient.
LEMMA DriveAnswers ==
  ASSUME TypeInv, CaptureInv, FinishedInv, NEW e \in Execs, Drive(e)
  PROVE  /\ finished \subseteq finished'
         /\ Answers(ex'[e], finished')
<1> USE TaskRunsAssumption
<1>0. ex[e] \in Local /\ Placed(ex[e]) /\ Answers(ex[e], finished) /\ ex \in [Execs -> Local]
  BY DEF TypeInv, TypeOK, FinishedInv
<1>a. ASSUME NEW tr, Request(e, tr), tr.step = 0, finished \subseteq finished', ex[e].pc # "idle"
      PROVE  Answers(ex'[e], finished')
  <2>1. ex'[e].pc = "read" /\ ex'[e].tr = tr /\ ex'[e].idx = ex[e].idx
        /\ ex'[e].task = ex[e].task /\ ex'[e].resuming = ex[e].resuming
        /\ ex'[e].snap = ex[e].snap
    BY <1>0, <1>a DEF Request, Become, Local
  <2>2. QED
    BY <1>0, <1>a, <2>1 DEF Answers, Honest
<1>b. \A s, i : Stop(s, i).step = 0
  BY DEF Stop
<1>1. CASE ResumeWrite(e)
  <2>1. ex'[e].snap = NoRun /\ ex'[e].resuming /\ ex'[e].pc = "start" /\ finished' = finished
    BY <1>0, <1>1 DEF ResumeWrite, Become, Local, Placed
  <2>2. QED
    BY <2>1, HonestRecords DEF Answers
<1>2. CASE StartCheck(e)
  <2>1. ex[e].pc = "start" /\ finished' = finished
    BY <1>2 DEF StartCheck
  <2>2. CASE Request(e, Stop("blocked", 0))
    BY <1>a, <1>b, <2>1, <2>2
  <2>3. CASE Become(e, [ex[e] EXCEPT !.pc = "step", !.idx = 1])
    <3>1. ex'[e].pc = "step" /\ ex'[e].idx = 1 /\ ex'[e].task = ex[e].task
          /\ ex'[e].resuming = ex[e].resuming /\ ex'[e].snap = ex[e].snap
      BY <1>0, <2>3 DEF Become, Local
    <3>2. \A i \in Steps : ~(i < 1)
      BY DEF Steps
    <3>3. QED
      BY <1>0, <2>1, <3>1, <3>2 DEF Answers
  <2>4. QED
    BY <1>2, <2>1, <2>2, <2>3 DEF StartCheck
<1>3. CASE SkipStep(e)
  <2>1. ex'[e].pc = "step" /\ ex'[e].task = ex[e].task /\ ex'[e].resuming /\ ex[e].pc = "step"
        /\ ex'[e].snap = ex[e].snap /\ finished' = finished
    BY <1>0, <1>3 DEF SkipStep, Captured, Become, Local
  <2>2. QED
    BY <1>0, <2>1 DEF Answers
<1>c. ASSUME NEW pc \in InStep, ex'[e].pc = pc, ex'[e].task = ex[e].task, ex'[e].idx = ex[e].idx,
             ex'[e].resuming = ex[e].resuming, ex'[e].snap = ex[e].snap, ex[e].pc # "idle",
             finished \subseteq finished'
      PROVE  Answers(ex'[e], finished')
  BY <1>0, <1>c DEF Answers, Honest, InStep
<1>d. ASSUME NEW pc \in InStep, Goto(e, pc), ex[e].pc # "idle", finished \subseteq finished'
      PROVE  Answers(ex'[e], finished')
  <2>1. ex'[e].pc = pc /\ ex'[e].task = ex[e].task /\ ex'[e].idx = ex[e].idx
        /\ ex'[e].resuming = ex[e].resuming /\ ex'[e].snap = ex[e].snap
    BY <1>0, <1>d DEF Goto, Become, Local
  <2>2. QED
    BY <1>c, <1>d, <2>1
<1>4. CASE BeginStep(e)
  <2>1. PICK refusal \in Refusals : StepGuard(e, refusal)
    BY <1>4 DEF BeginStep
  <2>2. ex[e].pc = "step" /\ finished' = finished
    BY <1>4 DEF BeginStep
  <2>3. CASE Goto(e, "invoke")
    BY <1>d, <2>2, <2>3 DEF InStep
  <2>4. CASE \E s, i : Request(e, Stop(s, i))
    BY <1>a, <1>b, <2>2, <2>4
  <2>5. QED
    BY <2>1, <2>2, <2>3, <2>4 DEF StepGuard
<1>5. CASE FinishLoop(e)
  BY <1>5, <1>a, <1>b DEF FinishLoop
<1>6. CASE InvokeStopped(e)
  BY <1>6, <1>a, <1>b DEF InvokeStopped
<1>7. ASSUME NEW res \in Results, NEW calls \in 0 .. MaxCalls, NEW delta \in 0 .. MaxDelta,
             Invoke(e, res, calls, delta)
      PROVE  finished \subseteq finished' /\ Answers(ex'[e], finished')
  <2>1. ex[e].pc = "invoke" /\ finished' = finished
    BY <1>7 DEF Invoke, MayInvoke
  <2>2. ex'[e].pc \in {"read", "tools", "capture"} /\ ex'[e].tr = SpendTokens(delta)
        /\ ex'[e].task = ex[e].task /\ ex'[e].idx = ex[e].idx
        /\ ex'[e].resuming = ex[e].resuming /\ ex'[e].snap = ex[e].snap
    BY <1>0, <1>7 DEF Invoke, Become, Local
  <2>3. ex'[e].tr.step = 0
    BY <2>2 DEF SpendTokens
  <2>4. QED
    BY <1>0, <2>1, <2>2, <2>3 DEF Answers
<1>8. CASE ToolGuard(e)
  <2>1. ex[e].pc = "tools" /\ finished' = finished
    BY <1>8 DEF ToolGuard
  <2>2. CASE Request(e, Stop("interrupted", ex[e].iter))
    BY <1>a, <1>b, <2>1, <2>2
  <2>3. CASE Become(e, [ex[e] EXCEPT !.pc = "capture", !.denied = TRUE])
    <3>1. ex'[e].pc = "capture" /\ ex'[e].task = ex[e].task /\ ex'[e].idx = ex[e].idx
          /\ ex'[e].resuming = ex[e].resuming /\ ex'[e].snap = ex[e].snap
      BY <1>0, <2>3 DEF Become, Local
    <3>2. QED
      BY <1>c, <2>1, <3>1 DEF InStep
  <2>4. CASE Goto(e, "dispatch")
    BY <1>d, <2>1, <2>4 DEF InStep
  <2>5. QED
    BY <1>8, <2>1, <2>2, <2>3, <2>4 DEF ToolGuard
<1>9. ASSUME NEW allowed \in BOOLEAN, Dispatch(e, allowed)
      PROVE  finished \subseteq finished' /\ Answers(ex'[e], finished')
  <2>1. ex[e].pc = "dispatch" /\ finished' = finished
    BY <1>9 DEF Dispatch
  <2>2. ex'[e].pc \in InStep /\ ex'[e].task = ex[e].task /\ ex'[e].idx = ex[e].idx
        /\ ex'[e].resuming = ex[e].resuming /\ ex'[e].snap = ex[e].snap
    BY <1>0, <1>9 DEF Dispatch, Become, Local, InStep
  <2>3. QED
    BY <1>c, <2>1, <2>2
<1>10. CASE Capture(e)
  <2>1. ex[e].pc = "capture" /\ finished \subseteq finished' /\ ex[e].idx \in Steps
        /\ (Final(e) => <<ex[e].task, ex[e].idx>> \in finished')
    BY <1>0, <1>10 DEF Capture, Placed, InStep
  <2>2. CASE Goto(e, "invoke")
    BY <1>d, <2>1, <2>2 DEF InStep
  <2>3. CASE \E s, i : Request(e, Stop(s, i))
    BY <1>a, <1>b, <2>1, <2>3
  <2>4. CASE Final(e) /\ Request(e, StepDone(ex[e].iter, ex[e].idx))
    <3>1. ex'[e].pc = "read" /\ ex'[e].tr.step = ex[e].idx /\ ex'[e].idx = ex[e].idx
          /\ ex'[e].task = ex[e].task /\ ex'[e].resuming = ex[e].resuming
          /\ ex'[e].snap = ex[e].snap
      BY <1>0, <2>4 DEF Request, Become, Local, StepDone
    <3>2. QED
      BY <1>0, <2>1, <2>4, <3>1 DEF Answers, Honest
  <2>5. QED
    BY <1>10, <2>1, <2>2, <2>3, <2>4 DEF Capture, AfterCapture, Final
<1>11. CASE TransitionRead(e)
  <2>1. ex[e].pc = "read" /\ finished' = finished /\ ex[e].task \in Tasks
    BY <1>0, <1>11 DEF TransitionRead, Placed
  <2>2. CASE Become(e, [ex[e] EXCEPT !.pc = "write", !.snap = run[ex[e].task]])
    <3>1. ex'[e].pc = "write" /\ ex'[e].tr = ex[e].tr /\ ex'[e].idx = ex[e].idx
          /\ ex'[e].task = ex[e].task /\ ex'[e].resuming = ex[e].resuming
          /\ ex'[e].snap = run[ex[e].task]
      BY <1>0, <2>2 DEF Become, Local
    <3>2. Honest(run[ex[e].task], ex[e].task, finished)
      BY <2>1 DEF FinishedInv
    <3>3. QED
      BY <1>0, <2>1, <3>1, <3>2 DEF Answers
  <2>3. CASE Leave(e)
    BY <1>0, <2>1, <2>3 DEF Leave, Become, Idle, Answers
  <2>4. QED
    BY <1>11, <2>1, <2>2, <2>3 DEF TransitionRead
<1>12. CASE TransitionWrite(e)
  <2>1. ex[e].pc = "write" /\ finished' = finished /\ ex[e].task \in Tasks
    BY <1>0, <1>12 DEF TransitionWrite, Placed
  <2>2. SpendTokens(0).step = 0
    BY DEF SpendTokens
  <2>3. CASE ex[e].tr.status = KeepStatus
    <3>1. Become(e, [ex[e] EXCEPT !.snap = NoRun, !.tr = SpendTokens(0),
                       !.pc = IF ex[e].calls > 0 THEN "tools" ELSE "capture"])
      BY <1>12, <2>3 DEF TransitionWrite, Resumed, KeepStatus
    <3>2. ex'[e].pc \in {"tools", "capture"} /\ ex'[e].idx = ex[e].idx
          /\ ex'[e].task = ex[e].task /\ ex'[e].resuming = ex[e].resuming /\ ex'[e].snap = NoRun
      BY <1>0, <3>1 DEF Become, Local
    <3>3. QED
      BY <1>0, <2>1, <3>2, HonestRecords DEF Answers
  <2>4. CASE ex[e].tr.status = "running"
    <3>1. Become(e, [ex[e] EXCEPT !.snap = NoRun, !.tr = SpendTokens(0), !.pc = "step",
                       !.idx = ex[e].idx + 1])
      BY <1>12, <2>4 DEF TransitionWrite, Resumed, KeepStatus
    <3>2. ex'[e].pc = "step" /\ ex'[e].idx = ex[e].idx + 1
          /\ ex'[e].task = ex[e].task /\ ex'[e].resuming = ex[e].resuming /\ ex'[e].snap = NoRun
      BY <1>0, <3>1 DEF Become, Local
    <3>3. ex[e].idx \in Steps /\ ex[e].tr.step = ex[e].idx
      BY <1>0, <2>1, <2>4 DEF Placed, CaptureInv, Claims
    <3>4. <<ex[e].task, ex[e].idx>> \in finished
      BY <1>0, <2>1, <3>3 DEF Answers, Steps
    <3>5. ~ex[e].resuming => \A i \in Steps : i < ex[e].idx + 1 => <<ex[e].task, i>> \in finished
      BY <1>0, <2>1, <3>3, <3>4, AnswersNext
    <3>6. QED
      BY <2>1, <3>2, <3>5, HonestRecords DEF Answers
  <2>5. CASE ex[e].tr.status \notin {KeepStatus, "running"}
    <3>1. LeaveHandoff(e)
      BY <1>12, <2>5 DEF TransitionWrite, Resumed
    <3>2. ex'[e].pc = "handoff" /\ ex'[e].idx = 0 /\ ex'[e].snap = NoRun
      BY <1>0, <3>1 DEF LeaveHandoff, Become, Idle
    <3>3. \A i \in Steps : ~(i < 0)
      BY DEF Steps
    <3>4. QED
      BY <2>1, <3>2, <3>3, HonestRecords DEF Answers
  <2>6. QED
    BY <2>3, <2>4, <2>5, <2>1
<1>13. CASE HandoffRead(e)
  <2>1. ex[e].pc = "handoff" /\ finished' = finished /\ ex[e].task \in Tasks
        /\ Honest(run[ex[e].task], ex[e].task, finished)
    BY <1>0, <1>13 DEF HandoffRead, Placed, FinishedInv
  <2>2. ex'[e].pc = "link" /\ ex'[e].idx = ex[e].idx /\ ex'[e].task = ex[e].task
        /\ ex'[e].resuming = ex[e].resuming /\ ex'[e].snap = run[ex[e].task]
    BY <1>0, <1>13 DEF HandoffRead, Become, Local
  <2>3. QED
    BY <1>0, <2>1, <2>2 DEF Answers
<1>14. CASE HandoffWrite(e)
  BY <1>0, <1>14 DEF HandoffWrite, Leave, Become, Idle, Answers
<1>15. QED
  BY <1>1, <1>2, <1>3, <1>4, <1>5, <1>6, <1>7, <1>8, <1>9, <1>10, <1>11, <1>12, <1>13, <1>14
     DEF Drive, SkipStep, FinishLoop, InvokeStopped, ResumeWrite, HandoffWrite

\* The records an executor stores are as honest as the one it has read.
LEMMA DriveHonest ==
  ASSUME TypeInv, FinishedInv, NEW e \in Execs, Drive(e), NEW t \in Tasks
  PROVE  Honest(run'[t], t, finished) /\ cancel' = cancel
<1>0. Honest(run[t], t, finished) /\ run \in [Tasks -> RunRecord] /\ ex[e].snap \in RunRecord
  BY DEF FinishedInv, TypeInv, TypeOK, Local
<1>1. ASSUME NEW r, Honest(r, ex[e].task, finished), run' = [run EXCEPT ![ex[e].task] = r]
      PROVE  Honest(run'[t], t, finished)
  BY <1>0, <1>1
<1>2. CASE run' = run
  <2>1. cancel' = cancel
    BY DEF Drive, ResumeWrite, StartCheck, SkipStep, BeginStep, FinishLoop, InvokeStopped,
           Invoke, ToolGuard, Dispatch, Capture, TransitionRead, TransitionWrite, HandoffRead,
           HandoffWrite
  <2>2. QED
    BY <1>0, <1>2, <2>1
<1>3. CASE ResumeWrite(e)
  BY <1>0, <1>1, <1>3, HonestRecords DEF ResumeWrite, FinishedInv, Answers
<1>4. CASE TransitionWrite(e)
  BY <1>0, <1>1, <1>4, HonestRecords DEF TransitionWrite, FinishedInv, Answers
<1>5. CASE HandoffWrite(e)
  BY <1>0, <1>1, <1>5 DEF HandoffWrite, FinishedInv, Answers
<1>6. QED
  BY <1>2, <1>3, <1>4, <1>5
     DEF Drive, StartCheck, SkipStep, BeginStep, FinishLoop, InvokeStopped, Invoke, ToolGuard,
         Dispatch, Capture, TransitionRead, HandoffRead

LEMMA FinishedInductive ==
  ASSUME Exclusive
  PROVE  TypeInv /\ CaptureInv /\ FinishedInv /\ [Next]_vars => FinishedInv'
<1> SUFFICES ASSUME TypeInv, CaptureInv, FinishedInv, [Next]_vars PROVE FinishedInv'
  OBVIOUS
<1>0. ex \in [Execs -> Local] /\ run \in [Tasks -> RunRecord] /\ cancel \in [Tasks -> RunRecord]
  BY DEF TypeInv, TypeOK
<1>a. ASSUME NEW e \in Execs, NEW l, Become(e, l), Answers(l, finished'), finished \subseteq finished'
      PROVE  \A f \in Execs : Answers(ex'[f], finished')
  BY <1>0, <1>a DEF Become, FinishedInv, Answers, Honest
<1>1. ASSUME NEW e \in Execs, NEW t \in Tasks, NEW m \in Limits, Start(e, t, m)
      PROVE  FinishedInv'
  <2>1. ~Driven(t) /\ cancel[t] = NoRun /\ cancel' = cancel
        /\ finished' = finished \ ({t} \X Steps) /\ run' = [run EXCEPT ![t] = NewRun(m)]
    BY <1>1 DEF Start, Free
  <2>2. \A u, s : u # t /\ <<u, s>> \in finished => <<u, s>> \in finished'
    BY <2>1
  <2>3. ASSUME NEW u \in Tasks
        PROVE  Honest(run'[u], u, finished') /\ Honest(cancel'[u], u, finished')
    <3>1. CASE u = t
      BY <1>0, <2>1, <3>1, HonestRecords
    <3>2. CASE u # t
      BY <1>0, <2>1, <2>2, <3>2 DEF FinishedInv, Honest
    <3>3. QED
      BY <3>1, <3>2
  <2>4. ASSUME NEW f \in Execs PROVE Answers(ex'[f], finished')
    <3>1. CASE f = e
      <4>1. ex'[f].pc = "start" /\ ex'[f].idx = 0 /\ ex'[f].snap = NoRun
        BY <1>0, <1>1, <3>1 DEF Start, Become, Idle
      <4>2. \A i \in Steps : ~(i < 0)
        BY TaskRunsAssumption DEF Steps
      <4>3. QED
        BY <4>1, <4>2, HonestRecords DEF Answers
    <3>2. CASE f # e
      <4>1. ex'[f] = ex[f] /\ (ex[f].pc # "idle" => ex[f].task # t)
        BY <1>0, <1>1, <2>1, <3>2 DEF Start, Become, Driven
      <4>2. QED
        BY <2>2, <4>1 DEF FinishedInv, Answers, Honest
    <3>3. QED
      BY <3>1, <3>2
  <2>5. QED
    BY <2>3, <2>4 DEF FinishedInv
<1>2. ASSUME NEW e \in Execs, NEW t \in Tasks, NEW m \in Limits, ResumeRead(e, t, m)
      PROVE  FinishedInv'
  <2> DEFINE l == [Idle EXCEPT !.pc = "resume", !.task = t, !.resuming = TRUE, !.max = m,
                     !.snap = run[t]]
  <2>1. Answers(l, finished)
    BY DEF Idle, Answers, FinishedInv
  <2>2. QED
    BY <1>2, <1>a, <2>1 DEF ResumeRead, FinishedInv
<1>3. ASSUME NEW e \in Execs, Drive(e) PROVE FinishedInv'
  <2>1. PICK l : Become(e, l)
    BY <1>3, MovesItself
  <2>2. finished \subseteq finished' /\ Answers(ex'[e], finished')
    BY <1>3, DriveAnswers
  <2>3. ex'[e] = l
    BY <1>0, <2>1 DEF Become
  <2>4. \A f \in Execs : Answers(ex'[f], finished')
    BY <1>a, <2>1, <2>2, <2>3
  <2>5. ASSUME NEW t \in Tasks
        PROVE  Honest(run'[t], t, finished') /\ Honest(cancel'[t], t, finished')
    BY <1>3, <2>2, DriveHonest DEF FinishedInv, Honest
  <2>6. QED
    BY <2>4, <2>5 DEF FinishedInv
<1>4. ASSUME NEW e \in Execs, Crash(e) PROVE FinishedInv'
  <2>1. Answers(Idle, finished)
    BY DEF Idle, Answers
  <2>2. QED
    BY <1>4, <1>a, <2>1 DEF Crash, Leave, FinishedInv
<1>5. ASSUME NEW t \in Tasks, Expire(t) PROVE FinishedInv'
  BY <1>5 DEF Expire, FinishedInv
<1>6. ASSUME NEW t \in Tasks, CancelRead(t) PROVE FinishedInv'
  BY <1>0, <1>6 DEF CancelRead, FinishedInv
<1>7. ASSUME NEW t \in Tasks, CancelWrite(t) PROVE FinishedInv'
  <2>1. Stop("interrupted", cancel[t].iteration).step = 0
    BY DEF Stop
  <2>2. Honest(Transitioned(cancel[t], Stop("interrupted", cancel[t].iteration)), t, finished)
    BY <2>1, HonestRecords DEF FinishedInv
  <2>3. QED
    BY <1>0, <1>7, <2>2, HonestRecords DEF CancelWrite, FinishedInv
<1>8. CASE UNCHANGED vars
  BY <1>8 DEF vars, FinishedInv
<1>9. QED
  BY <1>1, <1>2, <1>3, <1>4, <1>5, <1>6, <1>7, <1>8 DEF Next

LEMMA FinishedInvariant == ASSUME Exclusive PROVE Spec => []FinishedInv
<1>1. Init => FinishedInv
  BY HonestRecords DEF Init, FinishedInv, Answers, Idle
<1>2. QED
  BY <1>1, TypeInvariant, CaptureInvariant, FinishedInductive, PTL DEF Spec

\* What a run records as completed, the runner has finished in that run.
THEOREM RecordedIsFinished == ASSUME Exclusive PROVE Spec => []RecordedMeansFinished
<1>1. FinishedInv => RecordedMeansFinished
  BY DEF FinishedInv, RecordedMeansFinished, Honest
<1>2. QED
  BY <1>1, FinishedInvariant, PTL

\* An execution that was not resumed reports its run completed only when the
\* runner has finished every step.
THEOREM FreshRunsFinish == ASSUME Exclusive PROVE Spec => []FreshRunFinishes
<1>1. CaptureInv /\ FinishedInv => FreshRunFinishes
  <2>1. SUFFICES ASSUME CaptureInv, FinishedInv, NEW e \in Execs, NEW s \in Steps,
                        ex[e].pc \in {"read", "write"}, ex[e].tr.status = "completed",
                        ~ex[e].resuming
                 PROVE  <<ex[e].task, s>> \in finished
    BY DEF FreshRunFinishes
  <2>2. ex[e].idx = NSteps + 1
    BY <2>1 DEF CaptureInv, Claims
  <2>3. s < ex[e].idx
    BY <2>2, TaskRunsAssumption DEF Steps
  <2>4. QED
    BY <2>1, <2>3 DEF FinishedInv, Answers
<1>2. QED
  BY <1>1, CaptureInvariant, FinishedInvariant, PTL
=============================================================================
