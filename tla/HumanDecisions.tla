--------------------------- MODULE HumanDecisions ---------------------------
(***************************************************************************)
(* What stops a run for a human, and how the human's answer reaches it:    *)
(* scope-change requests (work/coordination/scope_changes.py) and          *)
(* delegations (reviewing/delegations.py), around one run, one executor    *)
(* and several operators at their own command lines.                       *)
(*                                                                         *)
(* The executor is that of RunLoop reduced to what decisions depend on:    *)
(* one round per step, budgets and coordination folded into Yield.  A      *)
(* decision is several store writes, and an operator may die between any   *)
(* two of them.                                                            *)
(*                                                                         *)
(* An intent lock is never changed in place: expanding it stores another   *)
(* lock whose id extends the first one's.  A lock is therefore the         *)
(* sequence of the expansions that led to it from the task's own lock,     *)
(* each the set of items it granted.                                       *)
(***************************************************************************)
EXTENDS TaskRuns, Sequences, FiniteSets

CONSTANTS
  Items,         \* scope items
  Overlaps,      \* pairs of items that overlap (Scopes!ItemsOverlap)
  InScope,       \* in_scope of the task's lock
  OutOfScope,    \* out_of_scope of the task's lock
  Discovered,    \* Discovered[s]: the scope step s finds it needs
  Ops,           \* operators
  MaxExpansions, \* bound on the expansions of one lock
  DecideOnce     \* TRUE when operators only decide pending requests and only
                 \* one of them at a time; nothing in the code enforces it

ASSUME HumanDecisionsAssumption ==
  /\ Overlaps \subseteq Items \X Items
  /\ InScope \subseteq Items
  /\ OutOfScope \subseteq Items
  /\ Discovered \in [Steps -> SUBSET Items]
  /\ MaxExpansions \in Nat
  /\ DecideOnce \in BOOLEAN

VARIABLES
  run,        \* the stored run
  outs,       \* steps with a captured output
  request,    \* request[id]: status of a scope-change request, or "none"
  result,     \* result[id]: the decision stored for it, or "none"
  delegation, \* status of the delegation whose id is derived from the run's
  ex,         \* the executor
  op          \* op[p]: what an operator's command has read and still has to write

vars == <<run, outs, request, result, delegation, ex, op>>

Touches(item, scope) == \E s \in scope : <<item, s>> \in Overlaps

\* (A bug: the scope a lock was expanded to is forgotten.)
OutsideOfTask(granted, found) ==
  {i \in found : Touches(i, OutOfScope) \/ (InScope # {} /\ ~Touches(i, InScope))}

\* outside_scope, for a lock that has come to allow the granted items: what the
\* out_of_scope list touches is outside, whatever in_scope says, and an empty
\* in_scope allows everything else.
OutsideOf(granted, found) ==
  LET allowed == InScope \cup granted IN
  {i \in found : Touches(i, OutOfScope) \/ (allowed # {} /\ ~Touches(i, allowed))}

\* What the steps find and a lock of the task may leave outside; a lock is only
\* ever expanded by such items.
Finds ==
  LET found == UNION {Discovered[s] : s \in Steps} IN
  UNION {OutsideOf(granted, found) : granted \in SUBSET found}
Locks == UNION {[1 .. n -> (SUBSET Finds) \ {{}}] : n \in 0 .. MaxExpansions}
Requests == [lock : Locks, items : (SUBSET Finds) \ {{}}]

\* The code makes an accepted request of every decision but a denial, whatever
\* the others are meant for.
Accepting == {"expand", "sibling", "handoff"}
Decisions == Accepting \cup {"denied"}

Run == [status : Statuses, done : SUBSET Steps, lock : Locks]
Absent == [status |-> "absent", done |-> {}, lock |-> <<>>]

IdleEx == [pc |-> "idle", resuming |-> FALSE, idx |-> 0, lock |-> <<>>, want |-> "running",
           snap |-> Absent]
IdleOp == [pc |-> "idle", id |-> [lock |-> <<>>, items |-> {}], does |-> "none",
           snap |-> Absent]

Init ==
  /\ run = Absent
  /\ outs = {}
  /\ request = [id \in Requests |-> "none"]
  /\ result = [id \in Requests |-> "none"]
  /\ delegation = "none"
  /\ ex = IdleEx
  /\ op = [p \in Ops |-> IdleOp]

-----------------------------------------------------------------------------
\* Items a lock has come to allow by its expansions.
Granted(lock) == UNION {lock[n] : n \in DOMAIN lock}

\* The request by whose expansion the n-th grant came into a lock.
GrantOf(lock, n) == [lock |-> SubSeq(lock, 1, n - 1), items |-> lock[n]]

Outside(lock, found) == OutsideOf(Granted(lock), found)

\* The request id is derived from the lock the executor goes by and the items.
Need(lock, step) == Outside(lock, Discovered[step])
RequestFor(lock, step) == [lock |-> lock, items |-> Need(lock, step)]

Cleared(lock, step) ==
  Need(lock, step) # {} => request[RequestFor(lock, step)] = "accepted"

-----------------------------------------------------------------------------
(***************************************************************************)
(* The executor.                                                           *)
(***************************************************************************)
\* (A bug: the outputs of the execution before are deleted.)
ExecuteClears ==
  /\ ex.pc = "idle"
  /\ run' = [status |-> "pending", done |-> {}, lock |-> <<>>]
  /\ outs' = {}
  /\ ex' = [IdleEx EXCEPT !.pc = "step", !.idx = 1]
  /\ UNCHANGED <<request, result, delegation, op>>

Execute ==
  /\ ex.pc = "idle"
  /\ run' = [status |-> "pending", done |-> {}, lock |-> <<>>]
  /\ ex' = [IdleEx EXCEPT !.pc = "step", !.idx = 1]
  /\ UNCHANGED <<outs, request, result, delegation, op>>

ResumeRead ==
  /\ ex.pc = "idle"
  /\ Resumable(run)
  /\ ex' = [IdleEx EXCEPT !.pc = "resume", !.resuming = TRUE, !.snap = run]
  /\ UNCHANGED <<run, outs, request, result, delegation, op>>

\* The loop goes by the lock the reopened run names.
ResumeWrite ==
  /\ ex.pc = "resume"
  /\ run' = [ex.snap EXCEPT !.status = "running"]
  /\ ex' = [ex EXCEPT !.pc = "step", !.idx = 1, !.lock = ex.snap.lock, !.snap = Absent]
  /\ UNCHANGED <<outs, request, result, delegation, op>>

Want(status) == ex' = [ex EXCEPT !.pc = "read", !.want = status]

Skips == ex.resuming /\ ex.idx \in outs

SkipStep ==
  /\ ex.pc = "step" /\ ex.idx \in Steps /\ Skips
  /\ ex' = [ex EXCEPT !.idx = ex.idx + 1]
  /\ UNCHANGED <<run, outs, request, result, delegation, op>>

\* Budgets, coordination, stop conditions and grants, as in RunLoop.
Yield ==
  /\ ex.pc = "step" /\ ex.idx \in Steps /\ ~Skips
  /\ \E status \in {"interrupted", "blocked"} : Want(status)
  /\ UNCHANGED <<run, outs, request, result, delegation, op>>

\* (A bug: a request that was refused is opened again.)
PauseForScopeAgain ==
  /\ ex.pc = "step" /\ ex.idx \in Steps /\ ~Skips
  /\ ~Cleared(ex.lock, ex.idx)
  /\ request' = [request EXCEPT ![RequestFor(ex.lock, ex.idx)] = "pending"]
  /\ Want("interrupted")
  /\ UNCHANGED <<run, outs, result, delegation, op>>

\* require_decision_for_discovered_scope: the first time, the request is
\* stored before the run is interrupted; afterwards, only an accepted one
\* lets the step begin.
PauseForScope ==
  /\ ex.pc = "step" /\ ex.idx \in Steps /\ ~Skips
  /\ ~Cleared(ex.lock, ex.idx)
  /\ LET id == RequestFor(ex.lock, ex.idx) IN
     request' = IF request[id] = "none" THEN [request EXCEPT ![id] = "pending"] ELSE request
  /\ Want("interrupted")
  /\ UNCHANGED <<run, outs, result, delegation, op>>

\* (A bug: any answer lets the step begin.)
BeginStepAnswered ==
  /\ ex.pc = "step" /\ ex.idx \in Steps /\ ~Skips
  /\ Need(ex.lock, ex.idx) # {} => request[RequestFor(ex.lock, ex.idx)] \in {"accepted", "rejected"}
  /\ ex' = [ex EXCEPT !.pc = "work"]
  /\ UNCHANGED <<run, outs, request, result, delegation, op>>

BeginStep ==
  /\ ex.pc = "step" /\ ex.idx \in Steps /\ ~Skips
  /\ Cleared(ex.lock, ex.idx)
  /\ ex' = [ex EXCEPT !.pc = "work"]
  /\ UNCHANGED <<run, outs, request, result, delegation, op>>

\* (A bug: steps counted from zero.)
CaptureFromZero ==
  /\ ex.pc = "work"
  /\ outs' = outs \cup {ex.idx - 1}
  /\ \E status \in {"running", "failed"} : Want(status)
  /\ UNCHANGED <<run, request, result, delegation, op>>

Capture ==
  /\ ex.pc = "work"
  /\ outs' = outs \cup {ex.idx}
  /\ \E status \in {"running", "failed"} : Want(status)
  /\ UNCHANGED <<run, request, result, delegation, op>>

FinishLoop ==
  /\ ex.pc = "step" /\ ex.idx \notin Steps
  /\ Want("completed")
  /\ UNCHANGED <<run, outs, request, result, delegation, op>>

TransitionRead ==
  /\ ex.pc = "read"
  /\ ex' = IF run.status \in Active THEN [ex EXCEPT !.pc = "write", !.snap = run] ELSE IdleEx
  /\ UNCHANGED <<run, outs, request, result, delegation, op>>

TransitionWrite ==
  /\ ex.pc = "write"
  /\ IF ex.want = "running"
     THEN /\ run' = [ex.snap EXCEPT !.status = "running", !.done = ex.snap.done \cup {ex.idx}]
          /\ ex' = [ex EXCEPT !.pc = "step", !.idx = ex.idx + 1, !.snap = Absent]
     ELSE /\ run' = [ex.snap EXCEPT !.status = ex.want]
          /\ ex' = [IdleEx EXCEPT !.pc = "handoff"]
  /\ UNCHANGED <<outs, request, result, delegation, op>>

\* HandoffWriter.create_from_run stores the run as it was read, with the
\* handoff's id.
HandoffRead ==
  /\ ex.pc = "handoff"
  /\ ex' = [ex EXCEPT !.pc = "linkhandoff", !.snap = run]
  /\ UNCHANGED <<run, outs, request, result, delegation, op>>

HandoffWrite ==
  /\ ex.pc = "linkhandoff"
  /\ run' = ex.snap
  /\ ex' = IdleEx
  /\ UNCHANGED <<outs, request, result, delegation, op>>

Crash ==
  /\ ex.pc # "idle"
  /\ ex' = IdleEx
  /\ UNCHANGED <<run, outs, request, result, delegation, op>>

-----------------------------------------------------------------------------
(***************************************************************************)
(* craik scope-change decide: reads the request and, with --run-id, the    *)
(* run; then stores the result, the request's status and that run.  The    *)
(* lock of an expansion is stored just before the result, where nothing    *)
(* sees it until a run names it.                                           *)
(***************************************************************************)
Free(id) ==
  DecideOnce =>
    /\ request[id] = "pending"
    /\ \A q \in Ops : op[q].pc \in {"result", "request", "run"} => op[q].id # id

DecideRead(p, id, decision, named) ==
  /\ op[p].pc = "idle"
  /\ request[id] # "none"
  /\ Free(id)
  /\ decision = "expand" => Len(id.lock) < MaxExpansions
  /\ op' = [op EXCEPT ![p] = [pc |-> "result", id |-> id, does |-> decision,
                              snap |-> IF named THEN run ELSE Absent]]
  /\ UNCHANGED <<run, outs, request, result, delegation, ex>>

DecideResult(p) ==
  /\ op[p].pc = "result"
  /\ result' = [result EXCEPT ![op[p].id] = op[p].does]
  /\ op' = [op EXCEPT ![p].pc = "request"]
  /\ UNCHANGED <<run, outs, request, delegation, ex>>

\* (A bug: a denied request is marked like an accepted one.)
DecideRequestAccepted(p) ==
  /\ op[p].pc = "request"
  /\ request' = [request EXCEPT ![op[p].id] = "accepted"]
  /\ op' = [op EXCEPT ![p] = IF op[p].snap = Absent THEN IdleOp ELSE [op[p] EXCEPT !.pc = "run"]]
  /\ UNCHANGED <<run, outs, result, delegation, ex>>

DecideRequest(p) ==
  /\ op[p].pc = "request"
  /\ request' = [request EXCEPT
       ![op[p].id] = IF op[p].does = "denied" THEN "rejected" ELSE "accepted"]
  /\ op' = [op EXCEPT ![p] = IF op[p].snap = Absent THEN IdleOp ELSE [op[p] EXCEPT !.pc = "run"]]
  /\ UNCHANGED <<run, outs, result, delegation, ex>>

\* The lock an expansion stores: the request's own lock and what it asked for.
Expanded(id) == Append(id.lock, id.items)

\* (A bug: every decision but a denial moves the run to the wider lock.)
DecideRunWider(p) ==
  /\ op[p].pc = "run"
  /\ run' = IF op[p].does # "denied" THEN [op[p].snap EXCEPT !.lock = Expanded(op[p].id)]
            ELSE op[p].snap
  /\ op' = [op EXCEPT ![p] = IdleOp]
  /\ UNCHANGED <<outs, request, result, delegation, ex>>

\* The run is stored as it was read, with its receipt and the new lock.
DecideRun(p) ==
  /\ op[p].pc = "run"
  /\ run' = IF op[p].does = "expand" THEN [op[p].snap EXCEPT !.lock = Expanded(op[p].id)]
            ELSE op[p].snap
  /\ op' = [op EXCEPT ![p] = IdleOp]
  /\ UNCHANGED <<outs, request, result, delegation, ex>>

-----------------------------------------------------------------------------
(***************************************************************************)
(* craik delegation pause and resolve.  A run has one delegation id, so a  *)
(* second pause overwrites the first delegation.                           *)
(***************************************************************************)
PauseCheck(p) ==
  /\ op[p].pc = "idle"
  /\ run.status \in Active
  /\ op' = [op EXCEPT ![p] = [IdleOp EXCEPT !.pc = "open"]]
  /\ UNCHANGED <<run, outs, request, result, delegation, ex>>

PauseOpen(p) ==
  /\ op[p].pc = "open"
  /\ delegation' = "open"
  /\ op' = [op EXCEPT ![p].pc = "pause"]
  /\ UNCHANGED <<run, outs, request, result, ex>>

PauseRead(p) ==
  /\ op[p].pc = "pause"
  /\ op' = [op EXCEPT ![p] = IF run.status \in Active
                             THEN [op[p] EXCEPT !.pc = "interrupt", !.snap = run] ELSE IdleOp]
  /\ UNCHANGED <<run, outs, request, result, delegation, ex>>

PauseWrite(p) ==
  /\ op[p].pc = "interrupt"
  /\ run' = [op[p].snap EXCEPT !.status = "interrupted"]
  /\ op' = [op EXCEPT ![p] = IdleOp]
  /\ UNCHANGED <<outs, request, result, delegation, ex>>

ResolveRead(p, status) ==
  /\ op[p].pc = "idle"
  /\ delegation = "open"
  /\ op' = [op EXCEPT ![p] = [IdleOp EXCEPT !.pc = "resolve", !.does = status]]
  /\ UNCHANGED <<run, outs, request, result, delegation, ex>>

ResolveWrite(p) ==
  /\ op[p].pc = "resolve"
  /\ delegation' = op[p].does
  /\ op' = [op EXCEPT ![p] = [IdleOp EXCEPT !.pc = "link"]]
  /\ UNCHANGED <<run, outs, request, result, ex>>

\* _append_receipt_to_run: the run is stored as it was read, with one more
\* receipt, unless it already names that receipt.
LinkRead(p, linked) ==
  /\ op[p].pc = "link"
  /\ op' = [op EXCEPT ![p] = IF linked THEN IdleOp
                             ELSE [op[p] EXCEPT !.pc = "linking", !.snap = run]]
  /\ UNCHANGED <<run, outs, request, result, delegation, ex>>

LinkWrite(p) ==
  /\ op[p].pc = "linking"
  /\ run' = op[p].snap
  /\ op' = [op EXCEPT ![p] = IdleOp]
  /\ UNCHANGED <<outs, request, result, delegation, ex>>

Abandon(p) ==
  /\ op[p].pc # "idle"
  /\ op' = [op EXCEPT ![p] = IdleOp]
  /\ UNCHANGED <<run, outs, request, result, delegation, ex>>

-----------------------------------------------------------------------------
Next ==
  \/ Execute \/ ResumeRead \/ ResumeWrite \/ SkipStep \/ Yield \/ PauseForScope
  \/ BeginStep \/ Capture \/ FinishLoop \/ TransitionRead \/ TransitionWrite
  \/ HandoffRead \/ HandoffWrite \/ Crash
  \/ \E p \in Ops :
       \/ \E id \in Requests, decision \in Decisions, named \in BOOLEAN :
            DecideRead(p, id, decision, named)
       \/ DecideResult(p) \/ DecideRequest(p) \/ DecideRun(p)
       \/ PauseCheck(p) \/ PauseOpen(p) \/ PauseRead(p) \/ PauseWrite(p)
       \/ \E status \in {"resolved", "cancelled"} : ResolveRead(p, status)
       \/ ResolveWrite(p)
       \/ \E linked \in BOOLEAN : LinkRead(p, linked)
       \/ LinkWrite(p) \/ Abandon(p)

Spec == Init /\ [][Next]_vars

-----------------------------------------------------------------------------
(***************************************************************************)
(* Properties.                                                             *)
(***************************************************************************)

\* Every variable stays in its type.
TypeOK ==
  /\ run \in Run
  /\ outs \subseteq Steps
  /\ request \in [Requests -> {"none", "pending", "accepted", "rejected"}]
  /\ result \in [Requests -> Decisions \cup {"none"}]
  /\ delegation \in {"none", "open", "resolved", "cancelled"}
  /\ ex.lock \in Locks /\ ex.idx \in 0 .. NSteps + 1
  /\ \A p \in Ops : op[p].snap \in Run

\* A run's lock is wider than its task's only by expansions an operator
\* decided, each of them stored as result and as accepted request before the
\* lock reached the run: an operator who dies half-way widens nothing.
ExpansionsDecided ==
  \A n \in DOMAIN run.lock :
    request[GrantOf(run.lock, n)] = "accepted" /\ result[GrantOf(run.lock, n)] = "expand"

\* While a step is worked on, everything it discovered outside the lock it
\* goes by stands accepted, however many decisions, resumes and re-executions
\* came before.
OutsideWorkAccepted ==
  ex.pc = "work" /\ Need(ex.lock, ex.idx) # {}
    => request[RequestFor(ex.lock, ex.idx)] = "accepted"

\* A run's record names no step as completed whose output is not stored, though
\* a decision, a delegation and a handoff each store the run as they once read it.
DoneCaptured == run.done \subseteq outs

\* An item touches itself, and no step finds what the task's lock puts out of
\* scope.
NothingOutOfScope ==
  /\ \A i \in Finds : <<i, i>> \in Overlaps
  /\ \A s \in Steps : \A i \in Discovered[s] : ~Touches(i, OutOfScope)

\* A run is never stopped for items its own lock has been expanded to.  Needs
\* NothingOutOfScope: an item the lock puts out of scope stays outside, and each
\* expansion only leads to the next request.
NoRequestForGranted ==
  \A id \in Requests : request[id] # "none" => id.items \cap Granted(id.lock) = {}

\* A request's status agrees with the decision stored for it, whichever of the
\* two writes an operator died before.
DecisionsAgree ==
  \A id \in Requests :
    /\ request[id] = "accepted" => result[id] \in Accepting
    /\ request[id] = "rejected" => result[id] = "denied"

\* The protocol of ScopeDecisions.  A request is answered when its status says
\* so; the result was stored before.
Answers ==
  [id \in Requests |->
     IF request[id] = "none" THEN "unasked"
     ELSE IF request[id] = "pending" THEN "open" ELSE result[id]]

GrantsOf == [lock \in Locks |-> {GrantOf(lock, n) : n \in DOMAIN lock}]

WorkedOn ==
  IF ex.pc = "work" /\ Need(ex.lock, ex.idx) # {} THEN {RequestFor(ex.lock, ex.idx)} ELSE {}

Protocol ==
  INSTANCE ScopeDecisions WITH TaskLock <- <<>>, ExpansionsOf <- GrantsOf,
    answer <- Answers, lock <- run.lock, working <- WorkedOn

\* Requests, decisions, locks and work outside keep the protocol of
\* ScopeDecisions with the answers the code accepts: whatever operators leave half
\* done and whatever stale run is stored, an answer is given once and stays, a
\* run's lock is reached by answers "expand" only, and work outside began with an
\* answer other than a denial.  Needs DecideOnce: an operator who decides a
\* decided request again, or two at one request, change an answer.
ScopeProtocol == Protocol!Spec

(***************************************************************************)
(* Claims the code does not meet.                                          *)
(***************************************************************************)

\* docs/reference/human-delegation.md:20, "Open delegation points and pending
\* scope-change requests block autonomous continuation": no run is reopened
\* while its delegation is open.
OpenDelegationBlocks ==
  [][ex.pc = "idle" /\ ex'.pc = "resume" => delegation # "open"]_vars

\* docs/reference/intent-lock-coordination.md:21-23, "Use sibling tasks for
\* adjacent work that should not share the same lock. Use handoffs when another
\* agent or operator should own the next bounded slice": the run that asked does
\* not do the work of a request that was answered so.
AdjacentWorkLeaves ==
  ex.pc = "work" /\ Need(ex.lock, ex.idx) # {}
    => result[RequestFor(ex.lock, ex.idx)] \notin {"sibling", "handoff"}
=============================================================================
