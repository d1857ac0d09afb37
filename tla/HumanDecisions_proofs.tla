----------------------- MODULE HumanDecisions_proofs ------------------------
(***************************************************************************)
(* Theorems about HumanDecisions, for any number of operators, steps,      *)
(* scope items and expansions.  What holds only of operators who leave     *)
(* decided requests alone and decide each by one of them says DecideOnce.  *)
(***************************************************************************)
EXTENDS HumanDecisions, SequenceTheorems, TLAPS

USE TaskRunsAssumption, HumanDecisionsAssumption

Grants == (SUBSET Finds) \ {{}}

-----------------------------------------------------------------------------
(***************************************************************************)
(* Locks are the sequences of grants up to a length.                       *)
(***************************************************************************)
LEMMA LocksAreSequences ==
  /\ \A lock \in Locks : lock \in Seq(Grants) /\ Len(lock) <= MaxExpansions
  /\ \A lock \in Seq(Grants) : Len(lock) <= MaxExpansions => lock \in Locks
<1>1. ASSUME NEW lock \in Locks PROVE lock \in Seq(Grants) /\ Len(lock) <= MaxExpansions
  <2>1. PICK n \in 0 .. MaxExpansions : lock \in [1 .. n -> Grants]
    BY DEF Locks, Grants
  <2>2. n \in Nat /\ n <= MaxExpansions
    OBVIOUS
  <2>3. QED
    BY <2>1, <2>2
<1>2. ASSUME NEW lock \in Seq(Grants), Len(lock) <= MaxExpansions PROVE lock \in Locks
  <2>1. Len(lock) \in 0 .. MaxExpansions /\ lock \in [1 .. Len(lock) -> Grants]
    BY <1>2
  <2>2. QED
    BY <2>1 DEF Locks, Grants
<1>3. QED
  BY <1>1, <1>2

LEMMA EmptyLock == <<>> \in Locks /\ DOMAIN <<>> = {}
<1> DEFINE none == <<>>
<1>1. none \in Seq(Grants) /\ Len(none) = 0 /\ DOMAIN none = {}
  BY EmptySeq
<1> HIDE DEF none
<1>2. none \in Locks
  <2>1. Len(none) <= MaxExpansions
    BY <1>1
  <2>2. QED
    BY <1>1, <2>1, LocksAreSequences
<1>3. QED
  BY <1>1, <1>2 DEF none

LEMMA GrantsAreRequests ==
  ASSUME NEW lock \in Locks, NEW n \in DOMAIN lock
  PROVE  GrantOf(lock, n) \in Requests
<1>1. lock \in Seq(Grants) /\ Len(lock) <= MaxExpansions
  BY LocksAreSequences
<1>2. n \in 1 .. Len(lock) /\ lock[n] \in Grants
  BY <1>1
<1>3. SubSeq(lock, 1, n - 1) \in Seq(Grants) /\ Len(SubSeq(lock, 1, n - 1)) = n - 1
  <2>1. n - 1 \in 0 .. Len(lock) /\ \A i \in 1 .. n - 1 : lock[i] \in Grants
    BY <1>1, <1>2
  <2>2. QED
    BY <1>1, <1>2, <2>1, SubSeqProperties
<1>4. SubSeq(lock, 1, n - 1) \in Locks
  <2>1. n - 1 <= MaxExpansions
    BY <1>1, <1>2
  <2>2. QED
    BY <1>3, <2>1, LocksAreSequences
<1>5. QED
  BY <1>2, <1>4 DEF GrantOf, Requests, Grants

\* An expanded lock has the request's grants and the one it asked for.
LEMMA ExpandedLock ==
  ASSUME NEW id \in Requests, Len(id.lock) < MaxExpansions
  PROVE  /\ Expanded(id) \in Locks
         /\ \A n \in DOMAIN Expanded(id) :
              \/ GrantOf(Expanded(id), n) = id
              \/ n \in DOMAIN id.lock /\ GrantOf(Expanded(id), n) = GrantOf(id.lock, n)
<1> DEFINE s == id.lock
           t == Expanded(id)
<1>1. s \in Seq(Grants) /\ id.items \in Grants /\ s \in Locks
  BY LocksAreSequences DEF Requests, Grants
<1>2. /\ t \in Seq(Grants) /\ Len(t) = Len(s) + 1 /\ t[Len(s) + 1] = id.items
      /\ \A i \in 1 .. Len(s) : t[i] = s[i]
  BY <1>1 DEF Expanded
<1>3. t \in Locks
  <2>1. Len(t) <= MaxExpansions
    BY <1>1, <1>2
  <2>2. QED
    BY <1>2, <2>1, LocksAreSequences
<1>4. ASSUME NEW n \in DOMAIN t
      PROVE  \/ GrantOf(t, n) = id
             \/ n \in DOMAIN s /\ GrantOf(t, n) = GrantOf(s, n)
  <2> HIDE DEF s, t
  <2>0. n \in 1 .. Len(s) + 1 /\ DOMAIN s = 1 .. Len(s) /\ Len(s) \in Nat
    BY <1>1, <1>2
  <2>1. SubSeq(t, 1, n - 1) = SubSeq(s, 1, n - 1)
    <3>1. /\ SubSeq(t, 1, n - 1) \in Seq(Grants) /\ Len(SubSeq(t, 1, n - 1)) = n - 1
          /\ \A i \in 1 .. n - 1 : SubSeq(t, 1, n - 1)[i] = t[i]
      BY <1>1, <1>2, <2>0, SubSeqProperties
    <3>2. /\ SubSeq(s, 1, n - 1) \in Seq(Grants) /\ Len(SubSeq(s, 1, n - 1)) = n - 1
          /\ \A i \in 1 .. n - 1 : SubSeq(s, 1, n - 1)[i] = s[i]
      BY <1>1, <2>0, SubSeqProperties
    <3>3. \A i \in 1 .. n - 1 : t[i] = s[i]
      BY <1>2, <2>0
    <3>4. QED
      BY <3>1, <3>2, <3>3, SeqEqual
  <2>2. CASE n = Len(s) + 1
    <3>1. SubSeq(t, 1, n - 1) = s
      BY <1>1, <2>0, <2>1, <2>2, SubSeqFull
    <3>2. GrantOf(t, n) = [lock |-> s, items |-> id.items]
      BY <1>2, <2>2, <3>1 DEF GrantOf
    <3>3. id = [lock |-> id.lock, items |-> id.items]
      BY DEF Requests
    <3>4. QED
      BY <3>2, <3>3 DEF s
  <2>3. CASE n \in 1 .. Len(s)
    BY <1>2, <2>0, <2>1, <2>3 DEF GrantOf
  <2>4. QED
    BY <2>0, <2>2, <2>3
<1>5. QED
  BY <1>3, <1>4

-----------------------------------------------------------------------------
(***************************************************************************)
(* Type correctness.  That a captured output names a step needs the        *)
(* executor to be inside its plan, and that an expanded lock is a lock     *)
(* needs the operator to have looked at the length of the old one.         *)
(***************************************************************************)
Wants == {"running", "interrupted", "blocked", "failed", "completed"}
ExTypes == [pc : {"idle", "resume", "step", "work", "read", "write", "handoff", "linkhandoff"},
            resuming : BOOLEAN, idx : 0 .. NSteps + 1, lock : Locks, want : Wants, snap : Run]
OpTypes == [pc : {"idle", "result", "request", "run", "open", "pause", "interrupt", "resolve",
                  "link", "linking"},
            id : Requests \cup {IdleOp.id}, does : Decisions \cup {"none", "resolved", "cancelled"},
            snap : Run]

RequestTypes == [Requests -> {"none", "pending", "accepted", "rejected"}]
ResultTypes == [Requests -> Decisions \cup {"none"}]
Delegations == {"none", "open", "resolved", "cancelled"}

Placed ==
  /\ ex.pc = "step" => ex.idx \in 1 .. NSteps + 1
  /\ ex.pc = "work" => ex.idx \in Steps
  /\ ex.pc \in {"read", "write"} /\ ex.want = "running" => ex.idx \in Steps

Deciding(p) == op[p].pc \in {"result", "request", "run"}

OpPlaced(p) ==
  /\ Deciding(p) =>
       /\ op[p].id \in Requests /\ op[p].does \in Decisions
       /\ op[p].does = "expand" => Len(op[p].id.lock) < MaxExpansions
  /\ op[p].pc = "resolve" => op[p].does \in {"resolved", "cancelled"}

StoreTypes ==
  /\ run \in Run
  /\ outs \subseteq Steps
  /\ request \in RequestTypes
  /\ result \in ResultTypes
  /\ delegation \in Delegations

TypeInv ==
  /\ StoreTypes
  /\ ex \in ExTypes /\ Placed
  /\ op \in [Ops -> OpTypes] /\ \A p \in Ops : OpPlaced(p)

LEMMA IdleTypes ==
  /\ Absent \in Run
  /\ IdleEx \in ExTypes /\ IdleEx.pc = "idle"
  /\ IdleOp \in OpTypes /\ IdleOp.pc = "idle"
<1>1. Absent \in Run
  BY EmptyLock DEF Absent, Run, Statuses
<1>2. IdleEx \in ExTypes /\ IdleEx.pc = "idle"
  BY <1>1, EmptyLock DEF IdleEx, ExTypes, Wants
<1>3. IdleOp \in OpTypes /\ IdleOp.pc = "idle"
  BY <1>1 DEF IdleOp, OpTypes
<1>4. QED
  BY <1>1, <1>2, <1>3

LEMMA TypeInit == Init => TypeInv
BY IdleTypes DEF Init, TypeInv, StoreTypes, RequestTypes, ResultTypes, Delegations,
                 Placed, OpPlaced, Deciding

\* The steps of the executor.
ExStep ==
  \/ Execute \/ ResumeRead \/ ResumeWrite \/ SkipStep \/ Yield \/ PauseForScope
  \/ BeginStep \/ Capture \/ FinishLoop \/ TransitionRead \/ TransitionWrite
  \/ HandoffRead \/ HandoffWrite \/ Crash

LEMMA ExTypesStep ==
  ASSUME TypeInv, ExStep
  PROVE  ex' \in ExTypes /\ Placed'
<1> USE IdleTypes DEF TypeInv, StoreTypes, Placed
<1>0. /\ 1 \in 0 .. NSteps + 1 /\ 1 \in 1 .. NSteps + 1
      /\ \A i \in Steps : i + 1 \in 0 .. NSteps + 1 /\ i + 1 \in 1 .. NSteps + 1
  BY DEF Steps
<1>1. CASE Execute
  BY <1>0, <1>1 DEF Execute, ExTypes
<1>2. CASE ResumeRead
  BY <1>2 DEF ResumeRead, ExTypes
<1>3. CASE ResumeWrite
  <2>1. ex.snap.lock \in Locks
    BY DEF ExTypes, Run
  <2>2. /\ ex' = [ex EXCEPT !.pc = "step", !.idx = 1, !.lock = ex.snap.lock, !.snap = Absent]
    BY <1>3 DEF ResumeWrite
  <2>3. QED
    BY <1>0, <2>1, <2>2 DEF ExTypes
<1>4. CASE SkipStep \/ BeginStep
  BY <1>0, <1>4 DEF SkipStep, BeginStep, ExTypes
<1>5. ASSUME NEW status \in Wants, Want(status), status = "running" => ex.idx \in Steps
      PROVE  ex' \in ExTypes /\ Placed'
  BY <1>5 DEF Want, ExTypes
<1>6. CASE Yield \/ PauseForScope \/ FinishLoop \/ Capture
  BY <1>5, <1>6 DEF Yield, PauseForScope, FinishLoop, Capture, Wants
<1>7. CASE TransitionRead
  BY <1>7 DEF TransitionRead, ExTypes
<1>8. CASE TransitionWrite
  <2>1. CASE ex.want = "running"
    BY <1>0, <1>8, <2>1 DEF TransitionWrite, ExTypes
  <2>2. CASE ex.want # "running"
    BY <1>8, <2>2 DEF TransitionWrite, ExTypes
  <2>3. QED
    BY <2>1, <2>2
<1>9. CASE HandoffRead \/ HandoffWrite \/ Crash
  BY <1>9 DEF HandoffRead, HandoffWrite, Crash, ExTypes
<1>10. QED
  BY <1>1, <1>2, <1>3, <1>4, <1>6, <1>7, <1>8, <1>9 DEF ExStep
\* The steps of one operator.
OpStep(p) ==
  \/ \E id \in Requests, decision \in Decisions, named \in BOOLEAN :
       DecideRead(p, id, decision, named)
  \/ DecideResult(p) \/ DecideRequest(p) \/ DecideRun(p)
  \/ PauseCheck(p) \/ PauseOpen(p) \/ PauseRead(p) \/ PauseWrite(p)
  \/ \E status \in {"resolved", "cancelled"} : ResolveRead(p, status)
  \/ ResolveWrite(p)
  \/ \E linked \in BOOLEAN : LinkRead(p, linked)
  \/ LinkWrite(p) \/ Abandon(p)

LEMMA OpTypesStep ==
  ASSUME TypeInv, NEW p \in Ops, OpStep(p)
  PROVE  op' \in [Ops -> OpTypes] /\ \A q \in Ops : OpPlaced(q)'
<1> USE IdleTypes DEF TypeInv, StoreTypes, Deciding
<1>0. op[p] \in OpTypes /\ OpPlaced(p)
  OBVIOUS
<1>1. ASSUME NEW o \in OpTypes, op' = [op EXCEPT ![p] = o],
             o.pc \in {"result", "request", "run"} =>
               /\ o.id \in Requests /\ o.does \in Decisions
               /\ o.does = "expand" => Len(o.id.lock) < MaxExpansions,
             o.pc = "resolve" => o.does \in {"resolved", "cancelled"}
      PROVE  op' \in [Ops -> OpTypes] /\ \A q \in Ops : OpPlaced(q)'
  BY <1>1 DEF OpPlaced
<1>2. ASSUME NEW id \in Requests, NEW decision \in Decisions, NEW named \in BOOLEAN,
             DecideRead(p, id, decision, named)
      PROVE  op' \in [Ops -> OpTypes] /\ \A q \in Ops : OpPlaced(q)'
  <2> DEFINE o == [pc |-> "result", id |-> id, does |-> decision,
                   snap |-> IF named THEN run ELSE Absent]
  <2>1. o \in OpTypes
    BY DEF OpTypes
  <2>2. QED
    BY <1>1, <1>2, <2>1 DEF DecideRead
<1>3. ASSUME NEW pc, op' = [op EXCEPT ![p].pc = pc],
             <<op[p].pc, pc>> \in {<<"result", "request">>, <<"open", "pause">>}
      PROVE  op' \in [Ops -> OpTypes] /\ \A q \in Ops : OpPlaced(q)'
  <2> DEFINE o == [op[p] EXCEPT !.pc = pc]
  <2>1. o \in OpTypes /\ o.pc = pc /\ o.id = op[p].id /\ o.does = op[p].does
    BY <1>0, <1>3 DEF OpTypes
  <2>2. op' = [op EXCEPT ![p] = o]
    BY <1>3
  <2> HIDE DEF o
  <2>3. QED
    BY <1>0, <1>1, <1>3, <2>1, <2>2 DEF OpPlaced
<1>4. CASE DecideResult(p) \/ PauseOpen(p)
  BY <1>3, <1>4 DEF DecideResult, PauseOpen
<1>5. ASSUME op' = [op EXCEPT ![p] = IdleOp]
      PROVE  op' \in [Ops -> OpTypes] /\ \A q \in Ops : OpPlaced(q)'
  BY <1>1, <1>5
<1>6. CASE DecideRequest(p)
  <2> DEFINE o == [op[p] EXCEPT !.pc = "run"]
  <2>1. o \in OpTypes /\ o.pc = "run" /\ o.id = op[p].id /\ o.does = op[p].does
    BY <1>0 DEF OpTypes
  <2>2. op' = [op EXCEPT ![p] = IF op[p].snap = Absent THEN IdleOp ELSE o]
    BY <1>6 DEF DecideRequest
  <2> HIDE DEF o
  <2>3. op[p].pc = "request"
    BY <1>6 DEF DecideRequest
  <2>4. CASE op[p].snap = Absent
    BY <1>5, <2>2, <2>4
  <2>5. CASE op[p].snap # Absent
    BY <1>0, <1>1, <2>1, <2>2, <2>3, <2>5 DEF OpPlaced
  <2>6. QED
    BY <2>4, <2>5
<1>7. CASE DecideRun(p) \/ PauseWrite(p) \/ LinkWrite(p) \/ Abandon(p)
  BY <1>5, <1>7 DEF DecideRun, PauseWrite, LinkWrite, Abandon
<1>8. CASE PauseCheck(p)
  <2> DEFINE o == [IdleOp EXCEPT !.pc = "open"]
  <2>1. o \in OpTypes /\ o.pc = "open"
    BY DEF OpTypes, IdleOp
  <2>2. op' = [op EXCEPT ![p] = o]
    BY <1>8 DEF PauseCheck
  <2> HIDE DEF o
  <2>3. QED
    BY <1>1, <2>1, <2>2
<1>9. CASE ResolveWrite(p)
  <2> DEFINE o == [IdleOp EXCEPT !.pc = "link"]
  <2>1. o \in OpTypes /\ o.pc = "link"
    BY DEF OpTypes, IdleOp
  <2>2. op' = [op EXCEPT ![p] = o]
    BY <1>9 DEF ResolveWrite
  <2> HIDE DEF o
  <2>3. QED
    BY <1>1, <2>1, <2>2
<1>10. ASSUME NEW status \in {"resolved", "cancelled"}, ResolveRead(p, status)
       PROVE  op' \in [Ops -> OpTypes] /\ \A q \in Ops : OpPlaced(q)'
  <2> DEFINE o == [IdleOp EXCEPT !.pc = "resolve", !.does = status]
  <2>1. o \in OpTypes /\ o.pc = "resolve" /\ o.does = status
    BY DEF OpTypes, IdleOp
  <2>2. op' = [op EXCEPT ![p] = o]
    BY <1>10 DEF ResolveRead
  <2> HIDE DEF o
  <2>3. QED
    BY <1>1, <2>1, <2>2
<1>11. CASE PauseRead(p) \/ \E linked \in BOOLEAN : LinkRead(p, linked)
  <2>1. PICK pc \in {"interrupt", "linking"} :
          \/ op' = [op EXCEPT ![p] = IdleOp]
          \/ op' = [op EXCEPT ![p] = [op[p] EXCEPT !.pc = pc, !.snap = run]]
    BY <1>11 DEF PauseRead, LinkRead
  <2> DEFINE o == [op[p] EXCEPT !.pc = pc, !.snap = run]
  <2>2. o \in OpTypes /\ o.pc = pc
    BY <1>0 DEF OpTypes
  <2> HIDE DEF o
  <2>3. op' = [op EXCEPT ![p] = IdleOp] \/ op' = [op EXCEPT ![p] = o]
    BY <2>1 DEF o
  <2>4. QED
    BY <1>1, <1>5, <2>2, <2>3
<1>12. QED
  BY <1>2, <1>4, <1>6, <1>7, <1>8, <1>9, <1>10, <1>11 DEF OpStep

LEMMA StoreTypesStep ==
  ASSUME TypeInv, ExStep \/ \E p \in Ops : OpStep(p)
  PROVE  StoreTypes'
<1> USE IdleTypes DEF TypeInv, StoreTypes
<1>1. CASE ExStep
  <2>1. ex.snap \in Run /\ ex.idx \in 0 .. NSteps + 1
    BY DEF ExTypes
  <2>2. run' \in Run
    <3>1. CASE Execute
      BY <3>1, EmptyLock DEF Execute, Run, Statuses, Active
    <3>2. CASE ResumeWrite
      BY <2>1, <3>2 DEF ResumeWrite, Run, Statuses, Active
    <3>3. CASE TransitionWrite
      <4>1. CASE ex.want = "running"
        <5>1. ex.idx \in Steps
          BY <3>3, <4>1 DEF TransitionWrite, Placed
        <5>2. "running" \in Statuses /\ ex.snap.done \cup {ex.idx} \subseteq Steps
          BY <2>1, <5>1 DEF Run, Statuses, Active
        <5>3. run' = [ex.snap EXCEPT !.status = "running", !.done = ex.snap.done \cup {ex.idx}]
          BY <3>3, <4>1 DEF TransitionWrite
        <5>4. QED
          BY <2>1, <5>2, <5>3 DEF Run
      <4>2. CASE ex.want # "running"
        <5>1. ex.want \in Statuses
          BY DEF ExTypes, Wants, Statuses, Active, Terminal
        <5>2. QED
          BY <2>1, <3>3, <4>2, <5>1 DEF TransitionWrite, Run
      <4>3. QED
        BY <4>1, <4>2
    <3>4. CASE HandoffWrite
      BY <2>1, <3>4 DEF HandoffWrite
    <3>5. QED
      BY <1>1, <3>1, <3>2, <3>3, <3>4
         DEF ExStep, ResumeRead, SkipStep, Yield, PauseForScope, BeginStep, Capture, FinishLoop,
             TransitionRead, HandoffRead, Crash
  <2>3. outs' \subseteq Steps
    BY <1>1 DEF ExStep, Execute, ResumeRead, ResumeWrite, SkipStep, Yield, PauseForScope,
                BeginStep, Capture, FinishLoop, TransitionRead, TransitionWrite, HandoffRead,
                HandoffWrite, Crash, Placed
  <2>4. UNCHANGED <<result, delegation>> /\ request' \in RequestTypes
    BY <1>1 DEF ExStep, Execute, ResumeRead, ResumeWrite, SkipStep, Yield, PauseForScope,
                BeginStep, Capture, FinishLoop, TransitionRead, TransitionWrite, HandoffRead,
                HandoffWrite, Crash, RequestTypes
  <2>5. QED
    BY <2>2, <2>3, <2>4
<1>2. ASSUME NEW p \in Ops, OpStep(p) PROVE StoreTypes'
  <2>1. op[p] \in OpTypes /\ OpPlaced(p) /\ op[p].snap \in Run
    BY DEF OpTypes
  <2>2. run' \in Run
    <3>1. CASE DecideRun(p)
      <4>1. CASE op[p].does = "expand"
        <5>1. Expanded(op[p].id) \in Locks
          BY <2>1, <3>1, <4>1, ExpandedLock DEF DecideRun, OpPlaced, Deciding
        <5>2. QED
          BY <2>1, <3>1, <4>1, <5>1 DEF DecideRun, Run
      <4>2. QED
        BY <2>1, <3>1, <4>1 DEF DecideRun
    <3>2. CASE PauseWrite(p)
      BY <2>1, <3>2 DEF PauseWrite, Run, Statuses, Terminal
    <3>3. CASE LinkWrite(p)
      BY <2>1, <3>3 DEF LinkWrite
    <3>4. QED
      BY <1>2, <3>1, <3>2, <3>3
         DEF OpStep, DecideRead, DecideResult, DecideRequest, PauseCheck, PauseOpen, PauseRead,
             ResolveRead, ResolveWrite, LinkRead, Abandon
  <2>3. outs' = outs
    BY <1>2 DEF OpStep, DecideRead, DecideResult, DecideRequest, DecideRun, PauseCheck, PauseOpen,
                PauseRead, PauseWrite, ResolveRead, ResolveWrite, LinkRead, LinkWrite, Abandon
  <2>4. result' \in ResultTypes
    BY <1>2, <2>1
       DEF OpStep, DecideRead, DecideResult, DecideRequest, DecideRun, PauseCheck, PauseOpen,
           PauseRead, PauseWrite, ResolveRead, ResolveWrite, LinkRead, LinkWrite, Abandon,
           ResultTypes, OpPlaced, Deciding
  <2>5. request' \in RequestTypes
    BY <1>2, <2>1
       DEF OpStep, DecideRead, DecideResult, DecideRequest, DecideRun, PauseCheck, PauseOpen,
           PauseRead, PauseWrite, ResolveRead, ResolveWrite, LinkRead, LinkWrite, Abandon,
           RequestTypes, OpPlaced, Deciding
  <2>6. delegation' \in Delegations
    BY <1>2, <2>1
       DEF OpStep, DecideRead, DecideResult, DecideRequest, DecideRun, PauseCheck, PauseOpen,
           PauseRead, PauseWrite, ResolveRead, ResolveWrite, LinkRead, LinkWrite, Abandon,
           Delegations, OpPlaced
  <2>7. QED
    BY <2>2, <2>3, <2>4, <2>5, <2>6
<1>3. QED
  BY <1>1, <1>2

LEMMA TypeInvStep ==
  ASSUME TypeInv, [Next]_vars
  PROVE  TypeInv'
<1>1. CASE UNCHANGED vars
  BY <1>1 DEF vars, TypeInv, StoreTypes, Placed, OpPlaced, Deciding
<1>2. CASE ExStep
  <2>1. op' = op
    BY <1>2 DEF ExStep, Execute, ResumeRead, ResumeWrite, SkipStep, Yield, PauseForScope,
                BeginStep, Capture, FinishLoop, TransitionRead, TransitionWrite, HandoffRead,
                HandoffWrite, Crash
  <2>2. QED
    BY <1>2, <2>1, ExTypesStep, StoreTypesStep DEF TypeInv, OpPlaced, Deciding
<1>3. ASSUME NEW p \in Ops, OpStep(p) PROVE TypeInv'
  <2>1. ex' = ex
    BY <1>3 DEF OpStep, DecideRead, DecideResult, DecideRequest, DecideRun, PauseCheck, PauseOpen,
                PauseRead, PauseWrite, ResolveRead, ResolveWrite, LinkRead, LinkWrite, Abandon
  <2>2. QED
    BY <1>3, <2>1, OpTypesStep, StoreTypesStep DEF TypeInv, Placed
<1>4. QED
  BY <1>1, <1>2, <1>3 DEF Next, ExStep, OpStep

LEMMA TypeInvariant == Spec => []TypeInv
BY TypeInit, TypeInvStep, PTL DEF Spec

\* Every variable stays in its type.
THEOREM TypeCorrect == Spec => []TypeOK
<1>1. TypeInv => TypeOK
  BY DEF TypeInv, StoreTypes, TypeOK, RequestTypes, ResultTypes, Delegations, ExTypes, OpTypes
<1>2. QED
  BY <1>1, TypeInvariant, PTL

-----------------------------------------------------------------------------
(***************************************************************************)
(* Requests.                                                               *)
(***************************************************************************)
LEMMA NeedsAreRequests ==
  ASSUME NEW lock \in Locks, NEW s \in Steps, Need(lock, s) # {}
  PROVE  RequestFor(lock, s) \in Requests
<1> DEFINE found == UNION {Discovered[t] : t \in Steps}
<1>1. Granted(lock) \subseteq found
  <2>1. \A n \in DOMAIN lock : lock[n] \in Grants
    BY LocksAreSequences
  <2>2. Finds \subseteq found
    BY DEF Finds, OutsideOf
  <2>3. QED
    BY <2>1, <2>2 DEF Granted, Grants
<1>2. Need(lock, s) \subseteq OutsideOf(Granted(lock), found)
  BY DEF Need, Outside, OutsideOf
<1>3. Need(lock, s) \subseteq Finds
  BY <1>1, <1>2 DEF Finds
<1>4. QED
  BY <1>3 DEF RequestFor, Requests

\* The three ways a step may change requests and results.
LEMMA RequestSteps ==
  ASSUME TypeInv, Next
  PROVE  \/ UNCHANGED <<request, result>>
         \/ PauseForScope
         \/ \E p \in Ops : DecideResult(p) \/ DecideRequest(p)
BY DEF Next, Execute, ResumeRead, ResumeWrite, SkipStep, Yield, BeginStep, Capture, FinishLoop,
       TransitionRead, TransitionWrite, HandoffRead, HandoffWrite, Crash,
       DecideRead, DecideRun, PauseCheck, PauseOpen,
       PauseRead, PauseWrite, ResolveRead, ResolveWrite, LinkRead, LinkWrite, Abandon

LEMMA PauseAsks ==
  ASSUME TypeInv, PauseForScope
  PROVE  LET id == RequestFor(ex.lock, ex.idx) IN
         /\ id \in Requests /\ id.lock = ex.lock /\ id.items = Need(ex.lock, ex.idx)
         /\ request'[id] = IF request[id] = "none" THEN "pending" ELSE request[id]
         /\ \A other \in Requests \ {id} : request'[other] = request[other]
         /\ UNCHANGED <<result, op>>
<1>1. RequestFor(ex.lock, ex.idx) \in Requests
  BY NeedsAreRequests DEF PauseForScope, Cleared, TypeInv, ExTypes
<1>2. QED
  BY <1>1 DEF PauseForScope, TypeInv, StoreTypes, RequestTypes, RequestFor

\* What an operator is deciding, before and after a step of one of them.
LEMMA DecidingSteps ==
  ASSUME TypeInv, NEW p \in Ops, OpStep(p)
  PROVE  /\ \A q \in Ops \ {p} : op'[q] = op[q]
         /\ Deciding(p)' =>
              \/ \E id \in Requests, decision \in Decisions, named \in BOOLEAN :
                   /\ DecideRead(p, id, decision, named)
                   /\ op'[p].id = id /\ op'[p].pc = "result" /\ op'[p].does = decision
              \/ /\ DecideResult(p) \/ DecideRequest(p)
                 /\ Deciding(p) /\ op'[p].id = op[p].id /\ op'[p].does = op[p].does
                 /\ DecideResult(p) => op'[p].pc = "request"
                 /\ DecideRequest(p) => op'[p].pc = "run"
<1>0. op \in [Ops -> OpTypes] /\ IdleOp.pc = "idle"
  BY IdleTypes DEF TypeInv
<1>1. \A q \in Ops \ {p} : op'[q] = op[q]
  BY <1>0 DEF OpStep, DecideRead, DecideResult, DecideRequest, DecideRun, PauseCheck, PauseOpen,
              PauseRead, PauseWrite, ResolveRead, ResolveWrite, LinkRead, LinkWrite, Abandon
<1>2. CASE DecideResult(p) \/ DecideRequest(p)
  <2>1. ~(DecideResult(p) /\ DecideRequest(p)) /\ Deciding(p)
    BY <1>2 DEF DecideResult, DecideRequest, Deciding
  <2>2. CASE DecideResult(p)
    BY <1>0, <1>1, <2>1, <2>2 DEF DecideResult, OpTypes
  <2>3. CASE DecideRequest(p)
    BY <1>0, <1>1, <2>1, <2>3 DEF DecideRequest, OpTypes, Deciding
  <2>4. QED
    BY <1>2, <2>2, <2>3
<1>3. ASSUME NEW id \in Requests, NEW decision \in Decisions, NEW named \in BOOLEAN,
             DecideRead(p, id, decision, named)
      PROVE  op'[p].id = id /\ op'[p].pc = "result" /\ op'[p].does = decision
  BY <1>0, <1>3 DEF DecideRead
<1>4. CASE ~(DecideResult(p) \/ DecideRequest(p))
           /\ \A id \in Requests, decision \in Decisions, named \in BOOLEAN :
                ~DecideRead(p, id, decision, named)
  <2>1. op'[p].pc \notin {"result", "request", "run"}
    <3>1. CASE PauseOpen(p)
      BY <1>0, <3>1 DEF PauseOpen, OpTypes
    <3>2. CASE PauseRead(p) \/ \E linked \in BOOLEAN : LinkRead(p, linked)
      <4>1. PICK pc \in {"interrupt", "linking"} :
              op'[p] \in {IdleOp, [op[p] EXCEPT !.pc = pc, !.snap = run]}
        BY <1>0, <3>2 DEF PauseRead, LinkRead
      <4>2. [op[p] EXCEPT !.pc = pc, !.snap = run].pc = pc
        BY <1>0 DEF OpTypes
      <4>3. QED
        BY <1>0, <4>1, <4>2
    <3>3. CASE PauseCheck(p) \/ ResolveWrite(p)
      BY <1>0, <3>3 DEF PauseCheck, ResolveWrite, IdleOp
    <3>4. CASE \E status \in {"resolved", "cancelled"} : ResolveRead(p, status)
      BY <1>0, <3>4 DEF ResolveRead, IdleOp
    <3>5. CASE DecideRun(p) \/ PauseWrite(p) \/ LinkWrite(p) \/ Abandon(p)
      BY <1>0, <3>5 DEF DecideRun, PauseWrite, LinkWrite, Abandon
    <3>6. QED
      BY <1>4, <3>1, <3>2, <3>3, <3>4, <3>5 DEF OpStep
  <2>2. QED
    BY <1>1, <2>1 DEF Deciding
<1>5. QED
  BY <1>1, <1>2, <1>3, <1>4

-----------------------------------------------------------------------------
(***************************************************************************)
(* What a run claims to have done.  Any copy of the run may be stored over *)
(* a later one, so the claim must hold of every copy; outputs are never    *)
(* deleted, so that it stays true of each.                                 *)
(***************************************************************************)
CapturedInv ==
  /\ run.done \subseteq outs /\ ex.snap.done \subseteq outs
  /\ ex.pc \in {"read", "write"} /\ ex.want = "running" => ex.idx \in outs
  /\ \A p \in Ops : op[p].snap.done \subseteq outs

LEMMA IdleClaims == /\ Absent.done = {} /\ IdleEx.snap.done = {} /\ IdleOp.snap.done = {}
                    /\ IdleEx.pc = "idle" /\ [IdleEx EXCEPT !.pc = "handoff"].pc = "handoff"
                    /\ [IdleEx EXCEPT !.pc = "handoff"].snap.done = {}
BY DEF Absent, IdleEx, IdleOp

LEMMA ExCaptured ==
  ASSUME TypeInv, CapturedInv, ExStep
  PROVE  CapturedInv'
<1> USE DEF TypeInv, StoreTypes
<1>0. ex.snap \in Run /\ run \in Run
  BY DEF ExTypes
<1>1. op' = op /\ outs \subseteq outs'
  BY DEF ExStep, Execute, ResumeRead, ResumeWrite, SkipStep, Yield, PauseForScope,
         BeginStep, Capture, FinishLoop, TransitionRead, TransitionWrite, HandoffRead,
         HandoffWrite, Crash
<1>2. \A p \in Ops : op'[p].snap.done \subseteq outs'
  BY <1>1 DEF CapturedInv
<1>3. /\ run'.done \subseteq outs' /\ ex'.snap.done \subseteq outs'
      /\ ex'.pc \in {"read", "write"} /\ ex'.want = "running" => ex'.idx \in outs'
  <2>1. CASE Execute
    <3>1. run'.done = {} /\ ex'.snap = IdleEx.snap /\ ex'.pc = "step"
      BY <2>1 DEF Execute, IdleEx
    <3>2. QED
      BY <3>1, IdleClaims
  <2>2. CASE ResumeRead
    <3>1. run' = run /\ ex'.snap = run /\ ex'.pc = "resume"
      BY <2>2 DEF ResumeRead, IdleEx
    <3>2. QED
      BY <1>1, <3>1 DEF CapturedInv
  <2>3. CASE ResumeWrite
    <3>1. run'.done = ex.snap.done
      BY <1>0, <2>3 DEF ResumeWrite, Run
    <3>2. ex'.snap = Absent /\ ex'.pc = "step"
      BY <2>3 DEF ResumeWrite, ExTypes
    <3>3. QED
      BY <1>1, <3>1, <3>2, IdleClaims DEF CapturedInv
  <2>4. CASE SkipStep \/ BeginStep
    <3>1. run' = run /\ ex'.snap = ex.snap /\ ex'.pc \in {"step", "work"}
      BY <2>4 DEF SkipStep, BeginStep, ExTypes
    <3>2. QED
      BY <1>1, <3>1 DEF CapturedInv
  <2>5. CASE Yield \/ PauseForScope \/ FinishLoop
    <3>1. PICK status : Want(status) /\ status # "running"
      BY <2>5 DEF Yield, PauseForScope, FinishLoop
    <3>2. run' = run /\ ex'.snap = ex.snap /\ ex'.want = status
      BY <2>5, <3>1 DEF Want, ExTypes, Yield, PauseForScope, FinishLoop
    <3>3. QED
      BY <1>1, <3>1, <3>2 DEF CapturedInv
  <2>6. CASE Capture
    <3>1. PICK status : Want(status)
      BY <2>6 DEF Capture
    <3>2. run' = run /\ ex'.snap = ex.snap /\ ex'.idx = ex.idx /\ ex.idx \in outs'
      BY <2>6, <3>1 DEF Want, ExTypes, Capture
    <3>3. QED
      BY <1>1, <3>2 DEF CapturedInv
  <2>7. CASE TransitionRead
    <3>1. run' = run
      BY <2>7 DEF TransitionRead
    <3>2. CASE run.status \in Active
      <4>1. ex'.snap = run /\ ex'.want = ex.want /\ ex'.idx = ex.idx /\ ex.pc = "read"
        BY <2>7, <3>2 DEF TransitionRead, ExTypes
      <4>2. QED
        BY <1>1, <3>1, <4>1 DEF CapturedInv
    <3>3. CASE run.status \notin Active
      BY <1>1, <2>7, <3>1, <3>3, IdleClaims DEF TransitionRead, CapturedInv
    <3>4. QED
      BY <3>2, <3>3
  <2>8. CASE TransitionWrite
    <3>1. CASE ex.want = "running"
      <4>1. run'.done = ex.snap.done \cup {ex.idx}
        BY <1>0, <2>8, <3>1 DEF TransitionWrite, Run
      <4>2. ex'.snap = Absent /\ ex'.pc = "step"
        BY <2>8, <3>1 DEF TransitionWrite, ExTypes
      <4>3. ex.idx \in outs
        BY <2>8, <3>1 DEF TransitionWrite, CapturedInv
      <4>4. QED
        BY <1>1, <4>1, <4>2, <4>3, IdleClaims DEF CapturedInv
    <3>2. CASE ex.want # "running"
      <4>1. run'.done = ex.snap.done /\ ex' = [IdleEx EXCEPT !.pc = "handoff"]
        BY <1>0, <2>8, <3>2 DEF TransitionWrite, Run
      <4>2. QED
        BY <1>1, <4>1, IdleClaims DEF CapturedInv
    <3>3. QED
      BY <3>1, <3>2
  <2>9. CASE HandoffRead
    <3>1. run' = run /\ ex'.snap = run /\ ex'.pc = "linkhandoff"
      BY <2>9 DEF HandoffRead, ExTypes
    <3>2. QED
      BY <1>1, <3>1 DEF CapturedInv
  <2>10. CASE HandoffWrite
    BY <1>1, <2>10, IdleClaims DEF HandoffWrite, CapturedInv
  <2>11. CASE Crash
    BY <1>1, <2>11, IdleClaims DEF Crash, CapturedInv
  <2>12. QED
    BY <2>1, <2>2, <2>3, <2>4, <2>5, <2>6, <2>7, <2>8, <2>9, <2>10, <2>11 DEF ExStep
<1>4. QED
  BY <1>2, <1>3 DEF CapturedInv

\* A step of an operator leaves the executor alone, and what it reads or stores
\* of the run is the run or a copy of it.
LEMMA OpCopies ==
  ASSUME TypeInv, NEW p \in Ops, OpStep(p)
  PROVE  /\ UNCHANGED <<ex, outs>>
         /\ op'[p].snap \in {op[p].snap, run, Absent}
         /\ run'.done \in {run.done, op[p].snap.done}
<1> USE DEF TypeInv, StoreTypes
<1>0. op[p] \in OpTypes /\ op[p].snap \in Run /\ IdleOp.snap = Absent
  BY DEF OpTypes, IdleOp
<1>1. UNCHANGED <<ex, outs>>
  BY DEF OpStep, DecideRead, DecideResult, DecideRequest, DecideRun, PauseCheck, PauseOpen,
         PauseRead, PauseWrite, ResolveRead, ResolveWrite, LinkRead, LinkWrite, Abandon
<1>2. op'[p].snap \in {op[p].snap, run, Absent}
  <2>1. CASE \E id \in Requests, decision \in Decisions, named \in BOOLEAN :
               DecideRead(p, id, decision, named)
    BY <1>0, <2>1 DEF DecideRead
  <2>2. CASE DecideResult(p) \/ PauseOpen(p)
    BY <1>0, <2>2 DEF DecideResult, PauseOpen, OpTypes
  <2>3. CASE DecideRequest(p)
    BY <1>0, <2>3 DEF DecideRequest, OpTypes
  <2>4. CASE DecideRun(p) \/ PauseWrite(p) \/ LinkWrite(p) \/ Abandon(p)
    BY <1>0, <2>4 DEF DecideRun, PauseWrite, LinkWrite, Abandon
  <2>5. CASE PauseCheck(p) \/ ResolveWrite(p)
    BY <1>0, <2>5 DEF PauseCheck, ResolveWrite, IdleOp
  <2>6. CASE \E status \in {"resolved", "cancelled"} : ResolveRead(p, status)
    BY <1>0, <2>6 DEF ResolveRead, IdleOp
  <2>7. CASE PauseRead(p) \/ \E linked \in BOOLEAN : LinkRead(p, linked)
    <3>1. PICK pc \in {"interrupt", "linking"} :
            op'[p] \in {IdleOp, [op[p] EXCEPT !.pc = pc, !.snap = run]}
      BY <1>0, <2>7 DEF PauseRead, LinkRead
    <3>2. [op[p] EXCEPT !.pc = pc, !.snap = run].snap = run
      BY <1>0 DEF OpTypes
    <3>3. QED
      BY <1>0, <3>1, <3>2
  <2>8. QED
    BY <2>1, <2>2, <2>3, <2>4, <2>5, <2>6, <2>7 DEF OpStep
<1>3. run'.done \in {run.done, op[p].snap.done}
  <2>1. CASE DecideRun(p)
    BY <1>0, <2>1 DEF DecideRun, Run
  <2>2. CASE PauseWrite(p) \/ LinkWrite(p)
    BY <1>0, <2>2 DEF PauseWrite, LinkWrite, Run
  <2>3. QED
    BY <2>1, <2>2 DEF OpStep, DecideRead, DecideResult, DecideRequest, PauseCheck, PauseOpen,
         PauseRead, ResolveRead, ResolveWrite, LinkRead, Abandon
<1>4. QED
  BY <1>1, <1>2, <1>3

LEMMA OpCaptured ==
  ASSUME TypeInv, CapturedInv, NEW p \in Ops, OpStep(p)
  PROVE  CapturedInv'
<1>1. outs' = outs /\ ex' = ex
  BY OpCopies
<1>2. run'.done \subseteq outs
  BY OpCopies DEF CapturedInv
<1>3. ASSUME NEW q \in Ops PROVE op'[q].snap.done \subseteq outs
  <2>1. CASE q = p
    BY <2>1, OpCopies, IdleClaims DEF CapturedInv
  <2>2. CASE q # p
    BY <2>2, DecidingSteps DEF CapturedInv
  <2>3. QED
    BY <2>1, <2>2
<1>4. QED
  BY <1>1, <1>2, <1>3 DEF CapturedInv

\* A run's record names no step as completed whose output is not stored,
\* whatever operators do, and however often they do it.
THEOREM DoneIsCaptured == Spec => []DoneCaptured
<1>1. Init => CapturedInv
  BY IdleClaims DEF Init, CapturedInv
<1>2. TypeInv /\ CapturedInv /\ [Next]_vars => CapturedInv'
  <2>1. CASE UNCHANGED vars
    BY <2>1 DEF vars, CapturedInv
  <2>2. QED
    BY <2>1, ExCaptured, OpCaptured DEF Next, ExStep, OpStep
<1>3. CapturedInv => DoneCaptured
  BY DEF CapturedInv, DoneCaptured
<1>4. QED
  BY <1>1, <1>2, <1>3, TypeInvariant, PTL DEF Spec

-----------------------------------------------------------------------------
(***************************************************************************)
(* What is outside a lock, in terms of paths.                              *)
(***************************************************************************)
Paths == INSTANCE Scopes

\* When items are paths and overlap as paths do, what HumanDecisions takes to
\* be outside a lock is what outside_scope returns.
THEOREM OutsideIsOutsideScope ==
  ASSUME Overlaps = {p \in Items \X Items : Paths!ItemsOverlap(p[1], p[2])},
         Paths!Blank \notin Items,
         NEW granted \in SUBSET Items, NEW found \in SUBSET Items
  PROVE  OutsideOf(granted, found)
           = Paths!OutsideScope([inScope |-> InScope \cup granted, outOfScope |-> OutOfScope], found)
<1>1. \A i, s \in Items : <<i, s>> \in Overlaps <=> Paths!ItemsOverlap(i, s)
  OBVIOUS
<1>2. /\ \A i \in Items : Touches(i, OutOfScope) <=> \E o \in OutOfScope : Paths!ItemsOverlap(i, o)
      /\ \A i \in Items : Touches(i, InScope \cup granted)
                            <=> \E a \in InScope \cup granted : Paths!ItemsOverlap(i, a)
  BY <1>1 DEF Touches
<1>3. found \ {Paths!Blank} = found
  OBVIOUS
<1>4. QED
  BY <1>2, <1>3 DEF OutsideOf, Paths!OutsideScope

-----------------------------------------------------------------------------
(***************************************************************************)
(* What was asked.                                                         *)
(***************************************************************************)
AskedInv == \A p \in Ops : Deciding(p) => request[op[p].id] # "none"

LEMMA AskedStep ==
  ASSUME TypeInv, AskedInv, [Next]_vars
  PROVE  AskedInv'
<1>1. CASE UNCHANGED vars
  BY <1>1 DEF vars, AskedInv, Deciding
<1>2. ASSUME NEW id \in Requests, request[id] # "none", Next PROVE request'[id] # "none"
  <2>1. CASE PauseForScope
    BY <1>2, <2>1, PauseAsks
  <2>2. ASSUME NEW p \in Ops, DecideResult(p) \/ DecideRequest(p) PROVE request'[id] # "none"
    BY <1>2, <2>2 DEF DecideResult, DecideRequest, TypeInv, StoreTypes, RequestTypes
  <2>3. QED
    BY <1>2, <2>1, <2>2, RequestSteps
<1>3. CASE ExStep /\ Next
  <2>1. op' = op
    BY <1>3 DEF ExStep, Execute, ResumeRead, ResumeWrite, SkipStep, Yield, PauseForScope,
                BeginStep, Capture, FinishLoop, TransitionRead, TransitionWrite, HandoffRead,
                HandoffWrite, Crash
  <2>2. QED
    BY <1>2, <1>3, <2>1 DEF AskedInv, Deciding, TypeInv, OpPlaced
<1>4. ASSUME NEW p \in Ops, OpStep(p), Next PROVE AskedInv'
  <2>1. ASSUME NEW q \in Ops, Deciding(q)' PROVE (request[op[q].id] # "none")'
    <3>1. CASE q # p
      <4>1. op'[q] = op[q]
        BY <1>4, <3>1, DecidingSteps
      <4>2. QED
        BY <1>2, <1>4, <2>1, <4>1 DEF AskedInv, Deciding, TypeInv, OpPlaced
    <3>2. CASE q = p
      <4>1. \/ \E id \in Requests, decision \in Decisions, named \in BOOLEAN :
                 DecideRead(p, id, decision, named) /\ op'[p].id = id
            \/ Deciding(p) /\ op'[p].id = op[p].id
        BY <1>4, <2>1, <3>2, DecidingSteps
      <4>2. PICK id \in Requests : request[id] # "none" /\ op'[p].id = id
        BY <4>1 DEF DecideRead, AskedInv, TypeInv, OpPlaced
      <4>3. QED
        BY <1>2, <1>4, <3>2, <4>2
    <3>3. QED
      BY <3>1, <3>2
  <2>2. QED
    BY <2>1 DEF AskedInv
<1>5. QED
  BY <1>1, <1>3, <1>4 DEF Next, ExStep, OpStep

\* A run is never stopped for items its own lock has been expanded to, if no
\* step finds what the lock puts out of scope.
THEOREM GrantedIsNotAsked == ASSUME NothingOutOfScope PROVE Spec => []NoRequestForGranted
<1> DEFINE Inv == TypeInv /\ AskedInv /\ NoRequestForGranted
<1>1. Init => Inv
  BY TypeInit, IdleTypes DEF Init, AskedInv, Deciding, NoRequestForGranted
<1>2. ASSUME Inv, [Next]_vars PROVE Inv'
  <2>1. TypeInv' /\ AskedInv'
    BY <1>2, TypeInvStep, AskedStep
  <2>2. CASE UNCHANGED request
    BY <1>2, <2>1, <2>2 DEF NoRequestForGranted
  <2>3. CASE PauseForScope
    <3>1. PICK id \in Requests :
            /\ id.lock = ex.lock /\ id.items = Need(ex.lock, ex.idx)
            /\ \A other \in Requests \ {id} : request'[other] = request[other]
      BY <1>2, <2>3, PauseAsks
    <3>2. id.items \cap Granted(id.lock) = {}
      <4>1. SUFFICES ASSUME NEW i \in id.items, i \in Granted(id.lock) PROVE FALSE
        OBVIOUS
      <4>2. i \in Discovered[ex.idx] /\ ex.idx \in Steps
        BY <2>3, <3>1, <4>1 DEF Need, Outside, OutsideOf, PauseForScope
      <4>3. ~Touches(i, InScope \cup Granted(id.lock))
        BY <3>1, <4>1, <4>2 DEF Need, Outside, OutsideOf, NothingOutOfScope
      <4>4. i \in Finds
        BY <4>1 DEF Requests
      <4>5. QED
        BY <4>1, <4>3, <4>4 DEF Touches, NothingOutOfScope
    <3>3. QED
      BY <1>2, <2>1, <3>1, <3>2 DEF NoRequestForGranted
  <2>4. ASSUME NEW p \in Ops, DecideRequest(p) PROVE NoRequestForGranted'
    <3>1. request[op[p].id] # "none" /\ op[p].id \in Requests
      BY <1>2, <2>4 DEF AskedInv, TypeInv, OpPlaced, Deciding, DecideRequest
    <3>2. \A id \in Requests \ {op[p].id} : request'[id] = request[id]
      BY <1>2, <2>4 DEF DecideRequest, TypeInv, StoreTypes, RequestTypes
    <3>3. QED
      BY <1>2, <3>1, <3>2 DEF NoRequestForGranted
  <2>5. QED
    BY <1>2, <2>1, <2>2, <2>3, <2>4, RequestSteps DEF DecideResult, vars
<1>3. QED
  BY <1>1, <1>2, PTL DEF Spec

-----------------------------------------------------------------------------
(***************************************************************************)
(* What is decided, when operators decide pending requests only and each   *)
(* request by one of them at a time.  While one of them is at it, nobody   *)
(* else writes the request or its result, so each write finds what the one *)
(* before it left.                                                         *)
(***************************************************************************)
OnceInv ==
  \A p \in Ops : Deciding(p) =>
    /\ \A q \in Ops \ {p} : Deciding(q) => op[q].id # op[p].id
    /\ op[p].pc \in {"result", "request"} => request[op[p].id] = "pending"
    /\ op[p].pc \in {"request", "run"} => result[op[p].id] = op[p].does
    /\ op[p].pc = "run" =>
         request[op[p].id] = IF op[p].does = "denied" THEN "rejected" ELSE "accepted"

\* A step of the executor adds pending requests and changes nothing else an
\* operator decides by.
LEMMA ExAsksOnly ==
  ASSUME TypeInv, ExStep
  PROVE  /\ UNCHANGED <<op, result>>
         /\ \A id \in Requests : request'[id] # request[id]
              => request[id] = "none" /\ request'[id] = "pending"
<1>1. UNCHANGED <<op, result>>
  BY DEF ExStep, Execute, ResumeRead, ResumeWrite, SkipStep, Yield, PauseForScope,
         BeginStep, Capture, FinishLoop, TransitionRead, TransitionWrite, HandoffRead,
         HandoffWrite, Crash
<1>2. CASE PauseForScope
  <2>1. PICK asked \in Requests :
          /\ request'[asked] = IF request[asked] = "none" THEN "pending" ELSE request[asked]
          /\ \A other \in Requests \ {asked} : request'[other] = request[other]
    BY <1>2, PauseAsks
  <2>2. QED
    BY <1>1, <2>1
<1>3. CASE UNCHANGED request
  BY <1>1, <1>3
<1>4. QED
  BY <1>2, <1>3 DEF ExStep, Execute, ResumeRead, ResumeWrite, SkipStep, Yield,
         BeginStep, Capture, FinishLoop, TransitionRead, TransitionWrite, HandoffRead,
         HandoffWrite, Crash

\* A step of an operator writes the request it decides, or none.
LEMMA OpWritesOwn ==
  ASSUME TypeInv, NEW p \in Ops, OpStep(p)
  PROVE  /\ \/ UNCHANGED <<request, result>>
            \/ /\ DecideResult(p)
               /\ result'[op[p].id] = op[p].does
               /\ UNCHANGED request
            \/ /\ DecideRequest(p)
               /\ request'[op[p].id] = IF op[p].does = "denied" THEN "rejected" ELSE "accepted"
               /\ UNCHANGED result
         /\ \A id \in Requests : \/ request'[id] = request[id] /\ result'[id] = result[id]
                                 \/ Deciding(p) /\ id = op[p].id
<1> USE DEF TypeInv, StoreTypes, RequestTypes, ResultTypes
<1>1. CASE DecideResult(p)
  BY <1>1 DEF DecideResult, OpPlaced, Deciding
<1>2. CASE DecideRequest(p)
  BY <1>2 DEF DecideRequest, OpPlaced, Deciding
<1>3. CASE UNCHANGED <<request, result>>
  BY <1>3
<1>4. QED
  BY <1>1, <1>2, <1>3
     DEF OpStep, DecideRead, DecideRun, PauseCheck, PauseOpen, PauseRead, PauseWrite,
         ResolveRead, ResolveWrite, LinkRead, LinkWrite, Abandon

LEMMA OnceStep ==
  ASSUME DecideOnce, TypeInv, OnceInv, [Next]_vars
  PROVE  OnceInv'
<1>1. CASE UNCHANGED vars
  BY <1>1 DEF vars, OnceInv, Deciding
<1>2. CASE ExStep
  <2>1. \A p \in Ops : Deciding(p) => op[p].id \in Requests /\ request[op[p].id] # "none"
    BY DEF TypeInv, OpPlaced, OnceInv, Deciding
  <2>2. QED
    BY <1>2, <2>1, ExAsksOnly DEF OnceInv, Deciding
<1>3. ASSUME NEW p \in Ops, OpStep(p) PROVE OnceInv'
  <2>1. /\ \A q \in Ops \ {p} : op'[q] = op[q] /\ Deciding(q)' = Deciding(q)
        /\ \A q \in Ops : Deciding(q) => op[q].id \in Requests
    BY <1>3, DecidingSteps DEF Deciding, TypeInv, OpPlaced
  <2>2. ASSUME Deciding(p)'
        PROVE  /\ \A q \in Ops \ {p} : Deciding(q) => op[q].id # op'[p].id
               /\ op'[p].pc \in {"result", "request"} => request'[op'[p].id] = "pending"
               /\ op'[p].pc \in {"request", "run"} => result'[op'[p].id] = op'[p].does
               /\ op'[p].pc = "run" => request'[op'[p].id]
                    = IF op'[p].does = "denied" THEN "rejected" ELSE "accepted"
    <3>1. ASSUME NEW id \in Requests, NEW decision \in Decisions, NEW named \in BOOLEAN,
                 DecideRead(p, id, decision, named),
                 op'[p].id = id, op'[p].pc = "result"
          PROVE  /\ \A q \in Ops \ {p} : Deciding(q) => op[q].id # op'[p].id
                 /\ request'[op'[p].id] = "pending" /\ op'[p].pc = "result"
      BY <3>1 DEF DecideRead, Free, Deciding
    <3>2. CASE /\ DecideResult(p) /\ Deciding(p)
               /\ op'[p].id = op[p].id /\ op'[p].does = op[p].does /\ op'[p].pc = "request"
      <4>1. op[p].pc = "result" /\ request' = request
        BY <3>2 DEF DecideResult
      <4>2. result'[op[p].id] = op[p].does
        BY <2>1, <3>2 DEF DecideResult, TypeInv, StoreTypes, ResultTypes
      <4>3. QED
        BY <3>2, <4>1, <4>2 DEF OnceInv
    <3>3. CASE /\ DecideRequest(p) /\ Deciding(p)
               /\ op'[p].id = op[p].id /\ op'[p].does = op[p].does /\ op'[p].pc = "run"
      <4>1. op[p].pc = "request" /\ result' = result
        BY <3>3 DEF DecideRequest
      <4>2. request'[op[p].id] = IF op[p].does = "denied" THEN "rejected" ELSE "accepted"
        BY <2>1, <3>3 DEF DecideRequest, TypeInv, StoreTypes, RequestTypes
      <4>3. QED
        BY <3>3, <4>1, <4>2 DEF OnceInv
    <3>4. QED
      BY <1>3, <2>2, <3>1, <3>2, <3>3, DecidingSteps
  <2>3. ASSUME NEW q \in Ops \ {p}, Deciding(q)
        PROVE  request'[op[q].id] = request[op[q].id] /\ result'[op[q].id] = result[op[q].id]
    BY <1>3, <2>1, <2>3, OpWritesOwn DEF OnceInv
  <2>4. QED
    BY <2>1, <2>2, <2>3 DEF OnceInv
<1>4. QED
  BY <1>1, <1>2, <1>3 DEF Next, ExStep, OpStep

LEMMA AgreeStep ==
  ASSUME TypeInv, OnceInv, DecisionsAgree, [Next]_vars
  PROVE  DecisionsAgree'
<1>1. CASE UNCHANGED vars
  BY <1>1 DEF vars, DecisionsAgree
<1>2. CASE ExStep
  BY <1>2, ExAsksOnly DEF DecisionsAgree
<1>3. ASSUME NEW p \in Ops, OpStep(p) PROVE DecisionsAgree'
  <2>1. CASE UNCHANGED <<request, result>>
    BY <2>1 DEF DecisionsAgree
  <2>2. CASE DecideResult(p) /\ UNCHANGED request
    <3>1. request'[op[p].id] = "pending"
      BY <2>2 DEF OnceInv, Deciding, DecideResult
    <3>2. QED
      BY <1>3, <2>2, <3>1, OpWritesOwn DEF DecisionsAgree
  <2>3. CASE /\ DecideRequest(p) /\ UNCHANGED result
             /\ request'[op[p].id] = IF op[p].does = "denied" THEN "rejected" ELSE "accepted"
    <3>1. result'[op[p].id] = op[p].does /\ op[p].does \in Decisions
      BY <2>3 DEF OnceInv, Deciding, DecideRequest, TypeInv, OpPlaced
    <3>2. QED
      BY <1>3, <2>3, <3>1, OpWritesOwn DEF DecisionsAgree, Decisions, Accepting
  <2>4. QED
    BY <1>3, <2>1, <2>2, <2>3, OpWritesOwn
<1>4. QED
  BY <1>1, <1>2, <1>3 DEF Next, ExStep, OpStep

\* An accepted request stays accepted, and by the same decision.
LEMMA Settled ==
  ASSUME TypeInv, OnceInv, [Next]_vars, NEW id \in Requests, request[id] = "accepted"
  PROVE  request'[id] = "accepted" /\ result'[id] = result[id]
<1>1. CASE UNCHANGED vars
  BY <1>1 DEF vars
<1>2. CASE ExStep
  BY <1>2, ExAsksOnly
<1>3. ASSUME NEW p \in Ops, OpStep(p) PROVE request'[id] = "accepted" /\ result'[id] = result[id]
  <2>1. CASE DecideResult(p) \/ DecideRequest(p)
    <3>1. op[p].id # id
      BY <2>1 DEF OnceInv, Deciding, DecideResult, DecideRequest
    <3>2. QED
      BY <1>3, <3>1, OpWritesOwn
  <2>2. QED
    BY <1>3, <2>1, OpWritesOwn
<1>4. QED
  BY <1>1, <1>2, <1>3 DEF Next, ExStep, OpStep

-----------------------------------------------------------------------------
(***************************************************************************)
(* Where a lock comes from.  Every copy of the run, in a process or in the *)
(* store, names a lock all of whose grants are of some set of requests: a  *)
(* stale copy may bring an older lock back, and that lock is still such a  *)
(* one.  Which set it is depends on what operators can be trusted with.    *)
(***************************************************************************)
Within(lock, S) == \A n \in DOMAIN lock : GrantOf(lock, n) \in S

CopiesWithin(S) ==
  /\ Within(run.lock, S) /\ Within(ex.lock, S) /\ Within(ex.snap.lock, S)
  /\ \A p \in Ops : Within(op[p].snap.lock, S)
  /\ \A id \in Requests : request[id] # "none" => Within(id.lock, S)

LEMMA ExLocks ==
  ASSUME TypeInv, ExStep
  PROVE  /\ run'.lock \in {run.lock, ex.snap.lock, <<>>}
         /\ ex'.lock \in {ex.lock, ex.snap.lock, <<>>}
         /\ ex'.snap.lock \in {ex.snap.lock, run.lock, <<>>}
<1> USE DEF TypeInv, StoreTypes, ExTypes, IdleEx, Absent
<1>0. ex.snap \in Run /\ IdleEx \in ExTypes
  BY IdleTypes
<1>1. CASE Execute
  <2>1. IdleEx.lock = <<>> /\ IdleEx.snap.lock = <<>>
    OBVIOUS
  <2>2. ex'.lock = IdleEx.lock /\ ex'.snap = IdleEx.snap /\ run'.lock = <<>>
    BY <1>0, <1>1 DEF Execute
  <2>3. QED
    BY <2>1, <2>2
<1>2. CASE ResumeRead
  BY <1>2 DEF ResumeRead
<1>3. CASE Crash
  BY <1>3 DEF Crash
<1>4. CASE ResumeWrite
  BY <1>0, <1>4 DEF ResumeWrite, Run
<1>5. CASE SkipStep \/ BeginStep
  BY <1>5 DEF SkipStep, BeginStep
<1>6. CASE Yield \/ PauseForScope \/ FinishLoop \/ Capture
  <2>1. PICK status : Want(status)
    BY <1>6 DEF Yield, PauseForScope, FinishLoop, Capture
  <2>2. ex'.lock = ex.lock /\ ex'.snap = ex.snap
    BY <2>1 DEF Want
  <2>3. run' = run
    BY <1>6 DEF Yield, PauseForScope, FinishLoop, Capture
  <2>4. QED
    BY <2>2, <2>3
<1>7. CASE TransitionRead
  BY <1>7 DEF TransitionRead
<1>8. CASE HandoffRead
  BY <1>8 DEF HandoffRead
<1>9. CASE HandoffWrite
  BY <1>9 DEF HandoffWrite
<1>10. CASE TransitionWrite
  <2>1. run'.lock = ex.snap.lock
    BY <1>0, <1>10 DEF TransitionWrite, Run
  <2>2. CASE ex.want = "running"
    <3>1. ex' = [ex EXCEPT !.pc = "step", !.idx = ex.idx + 1, !.snap = Absent]
      BY <1>10, <2>2 DEF TransitionWrite
    <3>2. ex'.lock = ex.lock /\ ex'.snap = Absent
      BY <3>1
    <3>3. QED
      BY <2>1, <3>2
  <2>3. CASE ex.want # "running"
    <3>1. ex'.lock = IdleEx.lock /\ ex'.snap = IdleEx.snap
      BY <1>0, <1>10, <2>3 DEF TransitionWrite
    <3>2. QED
      BY <2>1, <3>1
  <2>4. QED
    BY <2>2, <2>3
<1>11. QED
  BY <1>1, <1>2, <1>3, <1>4, <1>5, <1>6, <1>7, <1>8, <1>9, <1>10 DEF ExStep

LEMMA OpLocks ==
  ASSUME TypeInv, NEW p \in Ops, OpStep(p)
  PROVE  /\ ex' = ex
         /\ op'[p].snap.lock \in {op[p].snap.lock, run.lock, <<>>}
         /\ \/ run'.lock \in {run.lock, op[p].snap.lock}
            \/ DecideRun(p) /\ op[p].does = "expand" /\ run'.lock = Expanded(op[p].id)
<1> USE DEF TypeInv, StoreTypes
<1>0. op[p] \in OpTypes /\ op[p].snap \in Run /\ IdleOp.snap.lock = <<>> /\ Absent.lock = <<>>
  BY DEF OpTypes, IdleOp, Absent
<1>1. ex' = ex
  BY OpCopies
<1>2. op'[p].snap.lock \in {op[p].snap.lock, run.lock, <<>>}
  BY <1>0, OpCopies
<1>3. \/ run'.lock \in {run.lock, op[p].snap.lock}
      \/ DecideRun(p) /\ op[p].does = "expand" /\ run'.lock = Expanded(op[p].id)
  <2>1. CASE DecideRun(p)
    BY <1>0, <2>1 DEF DecideRun, Run
  <2>2. CASE PauseWrite(p) \/ LinkWrite(p)
    BY <1>0, <2>2 DEF PauseWrite, LinkWrite, Run
  <2>3. QED
    BY <2>1, <2>2 DEF OpStep, DecideRead, DecideResult, DecideRequest, PauseCheck, PauseOpen,
         PauseRead, ResolveRead, ResolveWrite, LinkRead, Abandon
<1>4. QED
  BY <1>1, <1>2, <1>3

\* Locks move between copies, and an operator who expands adds the request to
\* the grants of a lock.
LEMMA CopiesStep ==
  ASSUME TypeInv, AskedInv, Next, NEW S, NEW T, S \subseteq T, CopiesWithin(S),
         \A p \in Ops : DecideRun(p) /\ op[p].does = "expand" => op[p].id \in T
  PROVE  CopiesWithin(T)'
<1>1. /\ Within(<<>>, T) /\ Within(run.lock, T) /\ Within(ex.lock, T) /\ Within(ex.snap.lock, T)
      /\ \A p \in Ops : Within(op[p].snap.lock, T)
      /\ \A id \in Requests : request[id] # "none" => Within(id.lock, T)
  BY EmptyLock DEF CopiesWithin, Within
<1>2. ASSUME NEW id \in Requests, request'[id] # "none" PROVE Within(id.lock, T)
  <2>1. CASE PauseForScope
    BY <1>1, <1>2, <2>1, PauseAsks
  <2>2. ASSUME NEW p \in Ops, OpStep(p) PROVE request[id] # "none"
    <3>1. Deciding(p) => request[op[p].id] # "none"
      BY DEF AskedInv
    <3>2. QED
      BY <1>2, <2>2, <3>1, OpWritesOwn
  <2>3. CASE ExStep /\ ~PauseForScope
    BY <1>1, <1>2, <2>3 DEF ExStep, Execute, ResumeRead, ResumeWrite, SkipStep, Yield,
       BeginStep, Capture, FinishLoop, TransitionRead, TransitionWrite, HandoffRead,
       HandoffWrite, Crash
  <2>4. QED
    BY <1>1, <2>1, <2>2, <2>3 DEF Next, ExStep, OpStep
<1>3. CASE ExStep
  <2>1. Within(run'.lock, T) /\ Within(ex'.lock, T) /\ Within(ex'.snap.lock, T)
    BY <1>1, <1>3, ExLocks
  <2>2. op' = op
    BY <1>3, ExAsksOnly
  <2>3. QED
    BY <1>1, <1>2, <2>1, <2>2 DEF CopiesWithin, Within
<1>4. ASSUME NEW p \in Ops, OpStep(p) PROVE CopiesWithin(T)'
  <2>1. Within(ex'.lock, T) /\ Within(ex'.snap.lock, T)
    BY <1>1, <1>4, OpLocks
  <2>2. ASSUME NEW q \in Ops PROVE Within(op'[q].snap.lock, T)
    <3>1. CASE q = p
      BY <1>1, <1>4, <3>1, OpLocks
    <3>2. CASE q # p
      BY <1>1, <1>4, <3>2, DecidingSteps
    <3>3. QED
      BY <3>1, <3>2
  <2>3. Within(run'.lock, T)
    <3>1. CASE run'.lock \in {run.lock, op[p].snap.lock}
      BY <1>1, <3>1
    <3>2. CASE DecideRun(p) /\ op[p].does = "expand" /\ run'.lock = Expanded(op[p].id)
      <4>1. /\ op[p].id \in Requests /\ Len(op[p].id.lock) < MaxExpansions
            /\ op[p].id \in T /\ request[op[p].id] # "none"
        BY <3>2 DEF DecideRun, AskedInv, Deciding, TypeInv, OpPlaced
      <4>2. Within(op[p].id.lock, T)
        BY <1>1, <4>1
      <4>3. QED
        BY <3>2, <4>1, <4>2, ExpandedLock DEF Within
    <3>3. QED
      BY <1>4, <3>1, <3>2, OpLocks
  <2>4. QED
    BY <1>2, <2>1, <2>2, <2>3 DEF CopiesWithin, Within
<1>5. QED
  BY <1>3, <1>4 DEF Next, ExStep, OpStep

\* The requests an operator accepted by expanding.
Expanding == {id \in Requests : request[id] = "accepted" /\ result[id] = "expand"}

LocksInv == CopiesWithin(Expanding)

LEMMA LocksStep ==
  ASSUME TypeInv, OnceInv, LocksInv, [Next]_vars
  PROVE  LocksInv'
<1>1. CASE UNCHANGED vars
  BY <1>1 DEF vars, LocksInv, CopiesWithin, Within, Expanding
<1>2. CASE Next
  <2>1. PICK S, T : S = Expanding /\ T = Expanding'
    OBVIOUS
  <2>2. S \subseteq T
    BY <2>1, Settled DEF Expanding
  <2>3. AskedInv
    BY DEF AskedInv, OnceInv, Deciding
  <2>4. ASSUME NEW p \in Ops, DecideRun(p), op[p].does = "expand" PROVE op[p].id \in T
    BY <2>1, <2>2, <2>4 DEF DecideRun, Expanding, OnceInv, Deciding, TypeInv, OpPlaced
  <2>5. CopiesWithin(T)'
    BY <1>2, <2>1, <2>2, <2>3, <2>4, CopiesStep DEF LocksInv
  <2>6. QED
    BY <2>1, <2>5 DEF LocksInv, CopiesWithin, Within
<1>3. QED
  BY <1>1, <1>2

-----------------------------------------------------------------------------
\* A step of the executor that begins no work leaves it not at work.
LEMMA LeavesWork ==
  ASSUME TypeInv, ExStep, ~BeginStep
  PROVE  ex'.pc # "work"
<1>0. /\ IdleEx.pc = "idle" /\ [IdleEx EXCEPT !.pc = "handoff"].pc = "handoff"
      /\ DOMAIN ex = {"pc", "resuming", "idx", "lock", "want", "snap"} /\ ex = [x \in DOMAIN ex |-> ex[x]]
  BY DEF IdleEx, TypeInv, ExTypes
<1>1. CASE Yield \/ PauseForScope \/ Capture \/ FinishLoop
  <2>1. PICK status : Want(status)
    BY <1>1 DEF Yield, PauseForScope, FinishLoop, Capture
  <2>2. QED
    BY <2>1 DEF Want, TypeInv, ExTypes
<1>2. CASE Execute \/ ResumeRead \/ ResumeWrite \/ SkipStep
  BY <1>2 DEF Execute, ResumeRead, ResumeWrite, SkipStep, TypeInv, ExTypes, IdleEx
<1>3. CASE TransitionRead
  BY <1>0, <1>3 DEF TransitionRead
<1>4. CASE TransitionWrite
  <2>1. CASE ex.want = "running"
    BY <1>0, <1>4, <2>1 DEF TransitionWrite
  <2>2. CASE ex.want # "running"
    BY <1>0, <1>4, <2>2 DEF TransitionWrite
  <2>3. QED
    BY <2>1, <2>2
<1>5. CASE HandoffRead
  BY <1>0, <1>5 DEF HandoffRead
<1>6. CASE HandoffWrite \/ Crash
  BY <1>0, <1>6 DEF HandoffWrite, Crash
<1>7. QED
  BY <1>1, <1>2, <1>3, <1>4, <1>5, <1>6 DEF ExStep

\* The steps of an executor at work were cleared when it began them, and an
\* accepted request stays accepted.
LEMMA WorkStep ==
  ASSUME TypeInv, OnceInv, OutsideWorkAccepted, [Next]_vars
  PROVE  OutsideWorkAccepted'
<1>1. ASSUME ex' = ex, ex.pc = "work", Need(ex.lock, ex.idx) # {}
      PROVE  request'[RequestFor(ex.lock, ex.idx)] = "accepted"
  <2>1. RequestFor(ex.lock, ex.idx) \in Requests
    BY <1>1, NeedsAreRequests DEF TypeInv, ExTypes, Placed
  <2>2. QED
    BY <1>1, <2>1, Settled DEF OutsideWorkAccepted
<1>2. CASE ex' = ex
  BY <1>1, <1>2 DEF OutsideWorkAccepted
<1>3. CASE BeginStep
  <2>1. ex'.lock = ex.lock /\ ex'.idx = ex.idx /\ request' = request
    BY <1>3 DEF BeginStep, TypeInv, ExTypes
  <2>2. QED
    BY <1>3, <2>1 DEF OutsideWorkAccepted, BeginStep, Cleared
<1>4. CASE ExStep /\ ~BeginStep
  <2>1. ex'.pc # "work"
    BY <1>4, LeavesWork
  <2>2. QED
    BY <2>1 DEF OutsideWorkAccepted
<1>5. ASSUME NEW p \in Ops, OpStep(p) PROVE ex' = ex
  BY <1>5, OpLocks
<1>6. QED
  BY <1>2, <1>3, <1>4, <1>5 DEF Next, ExStep, OpStep, vars

-----------------------------------------------------------------------------
DecidedInv ==
  TypeInv /\ OnceInv /\ DecisionsAgree /\ LocksInv /\ OutsideWorkAccepted

LEMMA DecidedInvariant == ASSUME DecideOnce PROVE Spec => []DecidedInv
<1>1. Init => DecidedInv
  <2>1. Init => TypeInv
    BY TypeInit
  <2>2. Init => OnceInv
    BY IdleTypes DEF Init, OnceInv, Deciding
  <2>3. Init => DecisionsAgree
    BY DEF Init, DecisionsAgree
  <2>4. Init => LocksInv
    BY EmptyLock DEF Init, LocksInv, CopiesWithin, Within, Absent, IdleEx, IdleOp
  <2>5. Init => OutsideWorkAccepted
    BY IdleTypes DEF Init, OutsideWorkAccepted
  <2>6. QED
    BY <2>1, <2>2, <2>3, <2>4, <2>5 DEF DecidedInv
<1>2. DecidedInv /\ [Next]_vars => DecidedInv'
  BY TypeInvStep, OnceStep, AgreeStep, LocksStep, WorkStep DEF DecidedInv
<1>3. QED
  BY <1>1, <1>2, PTL DEF Spec

\* Whichever of its writes an operator dies before, the status of a request
\* agrees with the decision stored for it.
THEOREM StatusAgrees == ASSUME DecideOnce PROVE Spec => []DecisionsAgree
BY DecidedInvariant, PTL DEF DecidedInv

\* A run's lock is wider than its task's only by expansions an operator
\* decided, though copies of the run read before are stored over later ones.
THEOREM WiderByDecision == ASSUME DecideOnce PROVE Spec => []ExpansionsDecided
<1>1. DecidedInv => ExpansionsDecided
  BY DEF DecidedInv, LocksInv, CopiesWithin, Within, Expanding, ExpansionsDecided
<1>2. QED
  BY <1>1, DecidedInvariant, PTL

\* A step is only worked on while everything it found outside the lock the
\* executor goes by stands accepted.
THEOREM WorkIsAccepted == ASSUME DecideOnce PROVE Spec => []OutsideWorkAccepted
BY DecidedInvariant, PTL DEF DecidedInv
-----------------------------------------------------------------------------
(***************************************************************************)
(* Operators who decide a request again, or several of them at once, may   *)
(* store one answer over another.  What is left of the above is that there *)
(* is an answer: a status is stored after its result, and no step takes an *)
(* answer back without giving another.                                     *)
(***************************************************************************)
Answered == {id \in Requests : request[id] \in {"accepted", "rejected"}}

\* Whatever operators do, a run's lock is wider than its task's only by requests
\* that were answered with a stored decision, and so was the request of a step
\* that is worked on and needs more than its lock allows.
AnswersPrecede ==
  /\ \A n \in DOMAIN run.lock :
       /\ request[GrantOf(run.lock, n)] \in {"accepted", "rejected"}
       /\ result[GrantOf(run.lock, n)] # "none"
  /\ ex.pc = "work" /\ Need(ex.lock, ex.idx) # {}
       => /\ request[RequestFor(ex.lock, ex.idx)] \in {"accepted", "rejected"}
          /\ result[RequestFor(ex.lock, ex.idx)] # "none"

AnsweringInv ==
  /\ \A p \in Ops : op[p].pc \in {"request", "run"} => result[op[p].id] # "none"
  /\ \A p \in Ops : op[p].pc = "run" => op[p].id \in Answered
  /\ \A id \in Answered : result[id] # "none"

WorkAnswered ==
  ex.pc = "work" /\ Need(ex.lock, ex.idx) # {} => RequestFor(ex.lock, ex.idx) \in Answered

AnsweredInv ==
  TypeInv /\ AskedInv /\ AnsweringInv /\ CopiesWithin(Answered) /\ WorkAnswered

\* An answer may be changed, and stays an answer.
LEMMA AnsweredStays ==
  ASSUME TypeInv, [Next]_vars, NEW id \in Requests
  PROVE  /\ id \in Answered => id \in Answered'
         /\ result[id] # "none" => result'[id] # "none"
<1>1. CASE UNCHANGED vars
  BY <1>1 DEF vars, Answered
<1>2. CASE ExStep
  BY <1>2, ExAsksOnly DEF Answered
<1>3. ASSUME NEW p \in Ops, OpStep(p)
      PROVE  /\ id \in Answered => id \in Answered'
             /\ result[id] # "none" => result'[id] # "none"
  <2>1. Deciding(p) => op[p].does # "none"
    BY DEF TypeInv, OpPlaced, Decisions, Accepting
  <2>2. QED
    BY <1>3, <2>1, OpWritesOwn DEF Answered
<1>4. QED
  BY <1>1, <1>2, <1>3 DEF Next, ExStep, OpStep

LEMMA AnsweringStep ==
  ASSUME TypeInv, AnsweringInv, [Next]_vars
  PROVE  AnsweringInv'
<1>1. CASE UNCHANGED vars
  BY <1>1 DEF vars, AnsweringInv, Answered
<1>2. CASE ExStep
  BY <1>2, ExAsksOnly DEF AnsweringInv, Answered, TypeInv, OpPlaced, Deciding
<1>3. ASSUME NEW p \in Ops, OpStep(p), [Next]_vars PROVE AnsweringInv'
  <2>1. /\ op[p].pc \in {"result", "request", "run"} => op[p].id \in Requests /\ op[p].does # "none"
        /\ \A q \in Ops : op[q].pc \in {"request", "run"} => op[q].id \in Requests
    BY DEF TypeInv, OpPlaced, Deciding, Decisions, Accepting
  <2>2. ASSUME NEW q \in Ops, op'[q].pc \in {"request", "run"}
        PROVE  /\ result'[op'[q].id] # "none"
               /\ op'[q].pc = "run" => op'[q].id \in Answered'
    <3>1. CASE q # p
      BY <1>3, <2>1, <2>2, <3>1, AnsweredStays, DecidingSteps DEF AnsweringInv
    <3>2. CASE q = p /\ DecideResult(p)
      <4>1. op'[p].id = op[p].id /\ op'[p].pc = "request" /\ op[p].pc = "result"
        BY <1>3, <2>2, <3>2, DecidingSteps DEF Deciding, DecideResult, DecideRequest
      <4>2. result'[op[p].id] = op[p].does
        BY <2>1, <3>2, <4>1 DEF DecideResult, TypeInv, StoreTypes, ResultTypes
      <4>3. QED
        BY <2>1, <3>2, <4>1, <4>2
    <3>3. CASE q = p /\ DecideRequest(p)
      <4>1. op'[p].id = op[p].id /\ op[p].pc = "request" /\ result' = result
        BY <1>3, <2>2, <3>3, DecidingSteps DEF Deciding, DecideResult, DecideRequest
      <4>2. request'[op[p].id] \in {"accepted", "rejected"}
        BY <2>1, <3>3, <4>1 DEF DecideRequest, TypeInv, StoreTypes, RequestTypes
      <4>3. QED
        BY <2>1, <3>3, <4>1, <4>2 DEF AnsweringInv, Answered
    <3>4. QED
      BY <1>3, <2>2, <3>1, <3>2, <3>3, DecidingSteps DEF Deciding
  <2>3. ASSUME NEW id \in Answered' PROVE result'[id] # "none"
    <3>1. CASE id \in Answered
      BY <1>3, <3>1, AnsweredStays DEF AnsweringInv, Answered
    <3>2. CASE id \notin Answered
      <4>1. DecideRequest(p) /\ id = op[p].id /\ result' = result
        BY <1>3, <2>3, <3>2, OpWritesOwn DEF Answered, DecideResult, DecideRequest
      <4>2. QED
        BY <4>1 DEF AnsweringInv, DecideRequest
    <3>3. QED
      BY <3>1, <3>2
  <2>4. QED
    BY <2>2, <2>3 DEF AnsweringInv
<1>4. QED
  BY <1>1, <1>2, <1>3 DEF Next, ExStep, OpStep

LEMMA AnsweredCopiesStep ==
  ASSUME TypeInv, AskedInv, AnsweringInv, CopiesWithin(Answered), [Next]_vars
  PROVE  CopiesWithin(Answered)'
<1>1. CASE UNCHANGED vars
  BY <1>1 DEF vars, CopiesWithin, Within, Answered
<1>2. CASE Next
  <2>1. PICK S, T : S = Answered /\ T = Answered'
    OBVIOUS
  <2>2. S \subseteq T
    BY <2>1, AnsweredStays DEF Answered
  <2>3. ASSUME NEW p \in Ops, DecideRun(p), op[p].does = "expand" PROVE op[p].id \in T
    BY <2>1, <2>2, <2>3 DEF DecideRun, AnsweringInv
  <2>4. CopiesWithin(T)'
    BY <1>2, <2>1, <2>2, <2>3, CopiesStep
  <2>5. QED
    BY <2>1, <2>4 DEF CopiesWithin, Within
<1>3. QED
  BY <1>1, <1>2

LEMMA WorkAnsweredStep ==
  ASSUME TypeInv, WorkAnswered, [Next]_vars
  PROVE  WorkAnswered'
<1>1. CASE ex' = ex
  <2>1. ASSUME ex.pc = "work", Need(ex.lock, ex.idx) # {}
        PROVE  RequestFor(ex.lock, ex.idx) \in Answered'
    BY <2>1, AnsweredStays DEF WorkAnswered, Answered
  <2>2. QED
    BY <1>1, <2>1 DEF WorkAnswered
<1>2. CASE BeginStep
  <2>1. /\ ex.idx \in Steps /\ ex.lock \in Locks
        /\ ex'.lock = ex.lock /\ ex'.idx = ex.idx /\ request' = request
    BY <1>2 DEF BeginStep, TypeInv, ExTypes
  <2>2. QED
    BY <1>2, <2>1, NeedsAreRequests DEF WorkAnswered, BeginStep, Cleared, Answered
<1>3. CASE ExStep /\ ~BeginStep
  BY <1>3, LeavesWork DEF WorkAnswered
<1>4. ASSUME NEW p \in Ops, OpStep(p) PROVE ex' = ex
  BY <1>4, OpLocks
<1>5. QED
  BY <1>1, <1>2, <1>3, <1>4 DEF Next, ExStep, OpStep, vars

\* A lock is only widened, and work outside a lock only begun, by requests that
\* somebody answered: nothing of it needs operators who decide each request once.
THEOREM NothingUnanswered == Spec => []AnswersPrecede
<1>1. Init => AnsweredInv
  <2>1. Init => TypeInv /\ AskedInv /\ AnsweringInv /\ WorkAnswered
    BY TypeInit, IdleTypes
       DEF Init, AskedInv, Deciding, AnsweringInv, WorkAnswered, Answered
  <2>2. Init => CopiesWithin(Answered)
    BY EmptyLock DEF Init, CopiesWithin, Within, Absent, IdleEx, IdleOp
  <2>3. QED
    BY <2>1, <2>2 DEF AnsweredInv
<1>2. AnsweredInv /\ [Next]_vars => AnsweredInv'
  BY TypeInvStep, AskedStep, AnsweringStep, AnsweredCopiesStep, WorkAnsweredStep DEF AnsweredInv
<1>3. AnsweredInv => AnswersPrecede
  BY DEF AnsweredInv, AnsweringInv, CopiesWithin, Within, WorkAnswered, Answered, AnswersPrecede
<1>4. QED
  BY <1>1, <1>2, <1>3, PTL DEF Spec

-----------------------------------------------------------------------------
(***************************************************************************)
(* The protocol of scope changes.  Asking and answering are the writes of  *)
(* a request's status, the lock moves with any write of the run, and work  *)
(* begins and ends with the executor.                                      *)
(***************************************************************************)
\* Whoever stores a run stores one whose lock was reached by answers "expand".
LEMMA RunNamesDecided ==
  ASSUME TypeInv', LocksInv', UNCHANGED <<request, result>>, WorkedOn' = WorkedOn
  PROVE  Protocol!Next
<1>1. PICK new \in Locks : run'.lock = new
  BY DEF TypeInv, StoreTypes, Run
<1>2. Within(new, Expanding)
  BY <1>1 DEF LocksInv, CopiesWithin, Within, Expanding
<1>3. \A id \in GrantsOf[new] : id \in Requests /\ request[id] = "accepted" /\ result[id] = "expand"
  BY <1>2 DEF GrantsOf, Within, Expanding
<1>4. \A id \in GrantsOf[new] : Answers[id] = "expand"
  BY <1>3 DEF Answers
<1>5. Answers' = Answers
  BY DEF Answers
<1>6. Protocol!Name(new)
  BY <1>1, <1>4, <1>5 DEF Protocol!Name
<1>7. QED
  BY <1>6 DEF Protocol!Next

\* An executor that is not at work before nor after a step works on nothing,
\* and while it works it stores no run.
LEMMA ExWorks ==
  ASSUME TypeInv, ExStep, ~BeginStep
  PROVE  WorkedOn' = {} /\ (WorkedOn = {} \/ run' = run)
<1>1. WorkedOn' = {}
  BY LeavesWork DEF WorkedOn
<1>2. CASE ex.pc = "work"
  BY <1>1, <1>2 DEF ExStep, Execute, ResumeRead, ResumeWrite, SkipStep, Yield, PauseForScope,
         Capture, FinishLoop, TransitionRead, TransitionWrite, HandoffRead, HandoffWrite, Crash
<1>3. CASE ex.pc # "work"
  BY <1>1, <1>3 DEF WorkedOn
<1>4. QED
  BY <1>2, <1>3

LEMMA ExKeepsProtocol ==
  ASSUME DecidedInv, DecidedInv', ExStep
  PROVE  [Protocol!Next]_(Protocol!vars)
<1> USE DEF DecidedInv
<1>1. UNCHANGED <<op, result>>
  BY ExAsksOnly
<1>2. CASE PauseForScope
  <2>1. WorkedOn = {} /\ WorkedOn' = {} /\ run' = run
    BY <1>2, ExWorks DEF PauseForScope, BeginStep, WorkedOn
  <2>2. PICK id \in Requests :
          /\ request'[id] = IF request[id] = "none" THEN "pending" ELSE request[id]
          /\ \A other \in Requests \ {id} : request'[other] = request[other]
    BY <1>2, PauseAsks
  <2>3. CASE request[id] = "none"
    <3>1. Answers[id] = "unasked"
      BY <2>3 DEF Answers
    <3>2. Answers' = [Answers EXCEPT ![id] = "open"]
      BY <1>1, <2>2, <2>3 DEF Answers
    <3>3. Protocol!Ask(id)
      BY <2>1, <3>1, <3>2 DEF Protocol!Ask
    <3>4. QED
      BY <3>3 DEF Protocol!Next
  <2>4. CASE request[id] # "none"
    <3>1. Answers' = Answers
      BY <1>1, <2>2, <2>4 DEF Answers
    <3>2. QED
      BY <2>1, <3>1 DEF Protocol!vars
  <2>5. QED
    BY <2>3, <2>4
<1>3. CASE BeginStep
  <2>1. /\ ex.pc = "step" /\ ex.idx \in Steps /\ ex.lock \in Locks
        /\ ex'.pc = "work" /\ ex'.idx = ex.idx /\ ex'.lock = ex.lock
        /\ UNCHANGED <<run, request, result>>
    BY <1>3 DEF BeginStep, TypeInv, ExTypes
  <2>2. Answers' = Answers /\ run'.lock = run.lock /\ WorkedOn = {}
    BY <2>1 DEF Answers, WorkedOn
  <2>3. CASE Need(ex.lock, ex.idx) = {}
    BY <2>1, <2>2, <2>3 DEF WorkedOn, Protocol!vars
  <2>4. CASE Need(ex.lock, ex.idx) # {}
    <3>1. PICK id \in Requests : id = RequestFor(ex.lock, ex.idx)
      BY <2>1, <2>4, NeedsAreRequests
    <3>2. request[id] = "accepted"
      BY <1>3, <2>4, <3>1 DEF BeginStep, Cleared
    <3>3. Answers[id] \in Accepting
      BY <3>2 DEF Answers, DecisionsAgree
    <3>4. WorkedOn' = {id}
      BY <2>1, <2>4, <3>1 DEF WorkedOn
    <3>5. Protocol!Begin(id)
      BY <2>2, <3>3, <3>4 DEF Protocol!Begin
    <3>6. QED
      BY <3>5 DEF Protocol!Next
  <2>5. QED
    BY <2>3, <2>4
<1>4. CASE ~PauseForScope /\ ~BeginStep
  <2>1. UNCHANGED <<request, result>>
    BY <1>1, <1>4 DEF ExStep, Execute, ResumeRead, ResumeWrite, SkipStep, Yield,
         Capture, FinishLoop, TransitionRead, TransitionWrite, HandoffRead, HandoffWrite, Crash
  <2>2. CASE WorkedOn = {}
    BY <1>4, <2>1, <2>2, ExWorks, RunNamesDecided
  <2>3. CASE run' = run
    <3>1. Answers' = Answers
      BY <2>1 DEF Answers
    <3>2. Protocol!End
      BY <1>4, <2>3, <3>1, ExWorks DEF Protocol!End
    <3>3. QED
      BY <3>2 DEF Protocol!Next
  <2>4. QED
    BY <1>4, <2>2, <2>3, ExWorks
<1>5. QED
  BY <1>2, <1>3, <1>4

LEMMA OpKeepsProtocol ==
  ASSUME DecidedInv, DecidedInv', NEW p \in Ops, OpStep(p)
  PROVE  [Protocol!Next]_(Protocol!vars)
<1> USE DEF DecidedInv
<1>1. ex' = ex /\ WorkedOn' = WorkedOn
  BY OpCopies DEF WorkedOn
<1>2. CASE UNCHANGED <<request, result>>
  BY <1>1, <1>2, RunNamesDecided
<1>3. CASE DecideResult(p)
  <2>1. request[op[p].id] = "pending" /\ run' = run /\ request' = request
    BY <1>3 DEF DecideResult, OnceInv, Deciding
  <2>2. \A id \in Requests : id = op[p].id \/ result'[id] = result[id]
    BY OpWritesOwn
  <2>3. Answers' = Answers
    BY <2>1, <2>2 DEF Answers
  <2>4. QED
    BY <1>1, <2>1, <2>3 DEF Protocol!vars
<1>4. CASE DecideRequest(p) /\ UNCHANGED result
  <2>1. PICK id \in Requests, decision \in Decisions : id = op[p].id /\ decision = op[p].does
    BY <1>4 DEF DecideRequest, TypeInv, OpPlaced, Deciding
  <2>2. request[id] = "pending" /\ result[id] = decision /\ run' = run
    BY <1>4, <2>1 DEF DecideRequest, OnceInv, Deciding
  <2>3. /\ request'[id] \in {"accepted", "rejected"} /\ result' = result
        /\ \A other \in Requests \ {id} : request'[other] = request[other]
    BY <1>4, <2>1 DEF DecideRequest, TypeInv, StoreTypes, RequestTypes
  <2>4. Answers[id] = "open" /\ Answers' = [Answers EXCEPT ![id] = decision]
    BY <2>2, <2>3 DEF Answers
  <2>5. Protocol!Answer(id, decision)
    BY <1>1, <2>2, <2>4 DEF Protocol!Answer
  <2>6. QED
    BY <2>1, <2>5 DEF Protocol!Next, Decisions
<1>5. QED
  BY <1>2, <1>3, <1>4, OpWritesOwn

\* When operators decide pending requests only, and one at a time, requests,
\* decisions, locks and the work outside them keep the protocol of ScopeDecisions
\* with the answers the code accepts.
THEOREM ProtocolIsKept == ASSUME DecideOnce PROVE Spec => ScopeProtocol
<1>1. Init => Protocol!Init
  <2>1. SUFFICES ASSUME Init PROVE Protocol!Init
    OBVIOUS
  <2>2. Answers = [id \in Requests |-> "unasked"]
    BY <2>1 DEF Init, Answers
  <2>3. run.lock = <<>> /\ ex.pc = "idle"
    BY <2>1, IdleClaims DEF Init, Absent
  <2>4. QED
    BY <2>2, <2>3 DEF Protocol!Init, WorkedOn
<1>2. DecidedInv /\ DecidedInv' /\ [Next]_vars => [Protocol!Next]_(Protocol!vars)
  <2>1. CASE UNCHANGED vars
    BY <2>1 DEF vars, Protocol!vars, Answers, WorkedOn
  <2>2. QED
    BY <2>1, ExKeepsProtocol, OpKeepsProtocol DEF Next, ExStep, OpStep
<1>3. QED
  BY <1>1, <1>2, DecidedInvariant, PTL DEF Spec, ScopeProtocol, Protocol!Spec
=============================================================================
