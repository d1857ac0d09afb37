# Craik in TLA+

Craik runs coding agents under governance: a task gets a run, a loop drives the
run through its steps with a model provider and tools, and policies, intent
locks, budgets and human decisions say when it may go on. Everything durable is
a record in one local SQLite store that several processes read and write
without a transaction spanning a read and the write that depends on it. This
directory models the parts of Craik where that matters most: the run loop and
the human decisions around it, the gate that lets an operator approve single
tool calls, the receipts with the agents that share them, and the gateway
daemon.

## Components

| component | state it keeps | operations | what makes it correct |
|---|---|---|---|
| task-run state (`runtime/work/runs.py`) | one record per run: status, iteration and limit, token meter, completed step keys | `create`, `transition`, `prepare_resume` | stopped runs stay stopped; nothing recorded is lost |
| governed loop (`runtime/work/loop.py`, `loop_support/`, `run_outputs.py`) | local: step, iteration, round; store: run outputs | `execute`, fresh or resuming | no step twice, no step claimed without its output, budgets, it ends |
| intent-lock coordination (`coordination/intent_locks.py`) | none; reads runs, tasks, locks | a check at the start, at each step and before each tool call | no two processes work under overlapping locks |
| scope changes (`coordination/scope_changes.py`) | requests, results, expanded locks | request while driving, `craik scope-change decide` | outside work waits for its own request's acceptance; locks widen only by decision |
| human delegation (`reviewing/delegations.py`) | delegation records | `craik delegation pause`, `resolve` | an open delegation stops the run |
| run commands (`cli_runs.py`) | none | `run execute`, `resume`, `cancel` | check before act |
| handoffs (`work/handoffs.py`, `providers/provider_runner.py`) | handoffs, the run's handoff id | `create_from_run` after the loop | does not disturb the run |
| handoff consumption (`coordination/handoff_consumption.py`, `identity_isolation.py`) | follow-up task, lock, case file, pending run | `consume_handoff` | work is assigned to whom a receipt accepts |
| mailbox (`coordination/mailbox.py`) | messages | send, receive | no message without its receipts; a later send does not replace an earlier message unseen |
| approvals (`reviewing/approvals.py`, `reviewing/delegations.py`) | approval delegations and receipts | open, decide, resolve | what was acted on can be told from the receipts |
| receipts (`store/work.py`) | a hash chain | `put_receipt`, verify on every list | the chain keeps verifying, every hash can be found again |
| gateway daemon (`runtime/gateway.py`, `services/gateway.py`) | pid file, state record, port | start, stop, restart | one daemon; record and pid file say what runs |
| hook gating (`backend/adapters/hook_gating.py`, `hook_bridge.py`, `hooks/client.py`, `backend/gateway/`) | a socket and its queue, approvals, three threads | gate a tool call, decide, tear down | a tool runs only with a receipted answer to its call; nobody waits forgotten |
| credential pool, failover (`auth/pool.py`, `providers/`) | health per credential | select, report | cooled-down credentials are not used; late reports |
| the rest: providers, policies, sandboxes, memory, skills, sessions, channels, shells | see PROJECT.json | | |

How they interact: the loop calls the run manager, coordination and the scope
protocol as functions, a runner for each round and a tool dispatcher for each
tool call. Operators act through command-line processes of their own. All of
them meet only in the store; every `put` is atomic, and nothing larger is. A
gated CLI is the exception: its hooks are processes that reach the gateway over a
Unix socket, and the gateway's bridge thread and stdin loop meet in the store
again. The daemon and the commands that stop it share a pid file besides.

The hard behaviours are therefore stale read-modify-writes, checks followed by
acts, processes that die between two writes, and resuming from what they left.
PROJECT.json lists each at its line under "hazards".

## Modules

| module | what it is |
|---|---|
| `TaskRuns` | the run record and the three functions that compute the next record; no variables |
| `Scopes` | scope items as paths and when they overlap |
| `RunLoop` | executors, runs, outputs, cancelling operators |
| `RunLifecycle` | the documented life of a run, which `RunLoop` implements |
| `MCRunLoop` | two tasks with locks on `src/` and `src/main.py` |
| `RunLoop_proofs`, `RunLoopExclusive_proofs` | theorems about `RunLoop` |
| `HumanDecisions` | scope changes and delegations around one run |
| `ScopeDecisions` | the scope-change protocol for given accepting answers; with those the code accepts, `HumanDecisions` implements it |
| `MCHumanDecisions` | a task locked to `docs/` that needs a file of `src/` |
| `HookGate` | the bridge, its clients, the deciders and the session of one gated CLI run |
| `MCHookGate` | two parallel tool calls, the stdin loop and one operator |
| `AuditLog` | what the receipt chain promises: a hash is never forgotten, unless two puts of one id raced |
| `ReceiptChain` | `put_receipt` as its reads and its write, and the verifier; implements `AuditLog` |
| `Mailbox`, `HandoffConsumption` | two users of the chain, each a put followed by writes of its own |
| `Coordination` | both of them by the same processes on one store |
| `MCCoordination` | two processes, two message ids, one handoff, two identities |
| `GatewayDaemon` | starts and stops with the pid file, the state record and the port |
| `MCGatewayDaemon` | three starts and up to two stops |
| `Scopes_proofs`, `HumanDecisions_proofs`, `HookGate_proofs`, `ReceiptChain_proofs`, `Coordination_proofs`, `GatewayDaemon_proofs` | theorems about the module of that name |

**RunLoop.** `run[t]` is the stored record of task `t`'s run (the run id is
derived from the task's), `outs` the captured outputs by task and step (what the
idempotency key says), `ex[e]` what a process executing the loop holds in local
variables, `cancel[t]` what a cancelling operator has read, `late[t]` whether the
wall-clock budget has elapsed. `finished` is history: the steps the runner has
really answered. An executor goes

    idle -> [resume] -> start -> step -> invoke -> [read -> write] -> [tools -> dispatch]*
         -> capture -> (invoke again, or read -> write) -> next step ... -> handoff -> link -> idle

where `read -> write` is `TaskRunManager.transition` and can be interleaved with
anything another process does. Every stop of the loop is such a transition with
another status, and every rejected transition raises and ends the execution.
`Crash` is a process that dies and also the exceptions the caller does not catch
(the wall-clock stop is one: it leaves no handoff). Reads in a row on which one
decision rests are one action; each store write is its own.

**HumanDecisions.** One run, an executor reduced to what decisions depend on,
and operators whose commands are split at their store writes and may be
abandoned between any two. A lock is the sequence of expansions that led to it,
as its id is in the code (`<lock>_expanded_<request>`), and a request is named
by the lock and the items outside it, as its id is. `ScopeDecisions` keeps of
this the answer to each request, the lock the run names, and the request whose
items are worked on. A request counts as answered once its status is stored; its
result was stored before. `ScopeDecisions` has the answers that let the run work
outside its lock as a parameter, and `HumanDecisions` instantiates it with those
the code accepts, which are all but a denial. The documentation has two of them,
sibling and handoff, move the work elsewhere: that is `AdjacentWorkLeaves`, which
the code does not keep.

**HookGate.** `call[c]` is the hook process of a tool call, `reply[c]` what came
back on its connection, `queue` the listen backlog, `bridge` the accept thread,
`approval[c]` and `receipts` the store, `session` where the gateway thread is in
`run_gated_prompt` (`loop -> drain -> join -> closed -> ended`), `op[d]` the
decision a decider is in the middle of. There are two ways to answer an open
approval, and both are a receipt and then the record: `decide_approval`, whose
receipt and resolution say the same, and `craik delegation resolve`, which takes
any open delegation, has one receipt per delegation and stores a text of the
operator's. The bridge goes by how the stored text begins; one it does not
recognise, like a cancelled approval, is no answer to it and closes the approval
for everybody else. An approval's id is new for every call, so it is named by the
call. The client's timeout (30 s) and the bridge's (300 s)
are actions that may happen whenever their wait is on. The whole part is dormant
unless `CRAIK_LIVE_GATING=1`.

**ReceiptChain.** A receipt version's hash is the moment it was made: no two
versions share one, and the verifier only compares hashes. `writer[p]` walks
`read -> latest -> write -> done`, as `put_receipt` reads the stored version,
looks for the latest receipt if there is none (which verifies the chain, and
fails when it is broken), and writes. `raced` is history: the receipt ids of which
a version was replaced that its writer had not read. Nothing in the store tells
that, so a property that makes an exception of a race (`ReplacedShows`,
`AssignmentReceipted`) makes it for that receipt only and says what is lost.

**Mailbox** and **HandoffConsumption** add what their handlers do around the put:
choose a message id, or check the identity a consumer names; then store the
message, or the task and the run. The ids of a consumed handoff's task and run
follow from its title, so every consumer writes the same records. A process may
die anywhere (`Abandon`, `GiveUp`).

**GatewayDaemon.** `daemon[d]` is where a start is in `run_gateway_daemon`

    unstarted -> locked -> starting -> bound -> serving -> closing -> closed -> releasing -> ended

with the ways out the `try` blocks give it: failures go through a recorded
`failed` state, interrupts through the `finally` clauses. `stop[t]` is a run of
`request_gateway_stop`, one store or file access at a time. `cut` and `unlocked`
are history: processes past the lock that ended without writing how, and starts
that came to the release without the lock, because they found a pid file, were
interrupted after they had named it, or could not create it.

**Left out of RunLoop and HumanDecisions**: receipts, work-graph artifacts, phases, timing and
identity fields, message history, memory proposals: no decision modelled reads
them. An output's id is made of the run and the step's phase; the models name it
by the step, which takes a plan whose steps are of different phases, as those of
`default_loop_steps` are (a later step of the same phase would replace the output
of the earlier one). What a policy, a grant, a stop condition, a runner or a tool answers is a
free choice.

## Two assumptions about operators

`Exclusive` (RunLoop): nobody starts, resumes or cancels a run that a process is
driving. `DecideOnce` (HumanDecisions): operators decide pending requests only,
and not the same one together. The code enforces neither; they are the
discipline its properties need, and the runs show which need them:
`DoneCaptured`, `CompletedCaptured` and `ExecutionEnds` hold without `Exclusive`.
Without it the documented lifecycle is violated (`loop_terminal`), and so is
`OverlapExcluded`: `craik run cancel` frees the lock of a driven run at once and
stops its executor only at its next transition, so that a contender is admitted
beside it. The properties of `loop_exclusive` and its theorems say nothing of such
operators. Without `DecideOnce` one answer may be stored over another, and request
and result may disagree (`DecisionsAgree` and the refinement of `ScopeDecisions`
fail); that there is an answer is proved (`NothingUnanswered`).

The model gives the loop an intent lock. `ProviderBackedRunExecutor`, behind
`craik run execute`, passes none and no wall-clock budget, so there coordination
and scope control act only for resumed runs whose record names a lock; callers
of `SingleAgentLoopExecutor` (the tests among them) pass one.

## Runs

| run | instance | shows |
|---|---|---|
| `loop_exclusive` | 2 executors, 2 overlapping runs, 2 steps, 2 iterations, token budget 1, 1 tool call per round; Exclusive | `OverlapExcluded`, `NoRecordedStepDriven`, `TokensBounded`, `RecordedMeansFinished`, `FreshRunFinishes`, refinement of `RunLifecycle` |
| `loop_live` | 1 fair executor, both budgets, tool rounds, cancel at any moment, 3 iterations | `DoneCaptured`, `CompletedCaptured`, `ExecutionEnds`, `NearsItsEnd` |
| `loop_resume` | 1 executor, limits 1 and 2 | violation: a run is completed although a step never finished |
| `loop_terminal` | 1 executor, 1 cancel | violation: a terminal run transitions again |
| `human_once` | 2 operators, 1 step that finds one item outside, 2 expansions; DecideOnce | `ExpansionsDecided`, `OutsideWorkAccepted`, `NoRequestForGranted`, `DecisionsAgree`, `DoneCaptured`, refinement of `ScopeDecisions` |
| `human_delegation` | 1 operator, 1 step | violation: a run is resumed while its delegation is open |
| `human_sibling` | 1 operator, 1 step | violation: a run does the work an operator moved to a sibling task or a handoff |
| `gate` | 2 parallel calls, 2 deciders, 2 receipts, every timeout, teardown or kill at any time | `RanIsExplained`, `NoOrphanWait`, `NearsItsAnswer`, `GateAnswers`, `TeardownEnds` |
| `receipts` | 2 processes that send, receive and consume, 6 receipt ids, 4 puts | `BrokenOnlyByRace`, `Grounded`, `MessagesReceipted`, `AssignmentReceipted`, `AssignmentsAgree`, `ReplacedShows`, refinement of `AuditLog` |
| `mail_overwrite` | 2 processes that send, 2 puts | violation: a message is replaced and nothing in the store shows it |
| `daemon_lifecycle` | 3 starts, 2 stops, kills and interrupts anywhere | `RecordHonest`, `PidFileHonest`, `Guarded`, `StopRecovers` |
| `daemon_second` | 3 starts, no stop | violation: two daemons are past the lock |

Bounds. Two executors and two runs are what an overlap or a lost update takes;
the theorems cover any number. Two steps and two iterations are enough for a
round of tool calls to use the iteration the next step needs, for a step to be
interrupted between rounds, and for a resumed run to skip one step and drive the
next. A token budget of 1 with deltas of 0 or 1 exhausts the meter between any
two calls. Two expansions give a chain of locks. Iterations are bounded by the
code's own limit (`Limits`), calls per round by `MaxCalls`, tokens per call by
`MaxDelta`, expansions of a lock by `MaxExpansions`; nothing else is cut off.
`loop_exclusive` permutes tasks and executors, which its instance does not tell
apart. `loop_live` has one executor, because two with all of their stale records
are too many states for its liveness; the stale writer there is the cancelling
operator, and for any number of executors on one run `DoneCaptured`,
`CompletedCaptured` and `NearsItsEnd` are proved.

Two calls are what it takes for one to queue behind the other, two deciders for
both to pass the check for an open approval; two receipts (`MaxReceipts`, which
cuts only what deciders do) let one call be answered twice, in any mixture of
decisions and resolutions, or both calls once. Four puts (`MaxStamp`, the one cut
in that model) are a receipt, a link to it, and two versions that replace the
first; two processes lose a hash to a race. Three starts are a daemon, one that
goes out without the lock and the one that then comes past it; two stops, one that takes the
pid out of the record and one that finds none there.

Fairness. `FairSpec` assumes that a live process keeps taking its own steps
(`WF` of `Drive(e)`): the loop is sequential code that waits only for the runner
and for tools, which have timeouts of their own. Nothing is assumed about
operators or the clock, and a process may crash. `HookGate`'s `Fairness` is weak
fairness of the bridge thread, of each client (its reply or its timeout) and of
the two bounded waits of the teardown. Nobody has to decide, and the CLI need
not end. A lookup that fails counts as progress only when its store is closed.

The deadlock check is on for `RunLoop` and `HumanDecisions`, where an operator
can always start something. The other models stop: a gated session ends, the
receipts run out of moments, and every start and stop comes to its end.

## What the violations say

- `loop_resume`: replay takes any output with the step's key as a finished step,
  but every tool round of a step leaves one. A run interrupted between two
  rounds is resumed past the unfinished step and completed.
- `loop_terminal`: `transition` checks the record it read and stores it whole
  afterwards; a cancel racing the end of the loop turns `completed` back into
  `interrupted`.
- `human_delegation`: resume never asks for open delegations;
  `must_stop_for_human_decision` has no caller.
- `human_sibling`: `decide` makes an accepted request of every answer but a
  denial, and the check at a step asks only whether the request is accepted. A
  run resumed after "sibling" or "handoff" works on the items itself, while
  `docs/reference/intent-lock-coordination.md` has them leave its lock alone.
- `mail_overwrite`: a send chooses a free message id, puts the receipt and stores
  the message. Two sends that choose the same id and interleave their puts of its
  receipt leave one message and one version of the receipt. When the puts follow
  one another, the receipt's history shows the replacement (`ReplacedShows`).
- `daemon_second`: `run_gateway_daemon` knows the pid file's path before it has
  created the file, so a start that is refused because the file exists removes it
  on its way out; the next start is let in beside the running daemon. The same
  happens when the start is interrupted in between or cannot create the file.
  `Guarded` says that such starts and stop commands are the only ways: until one
  of them, the file is that of the one daemon past the lock.

What `RanIsExplained` says of the gate is less than `docs/guides/approvals.md`
promises ("Approving records a passed `approval.decide` receipt"): an approval
resolved with `craik delegation resolve` lets the tool run by its text, with the
receipt of a resolution, whatever that receipt's outcome. The property counts such
a receipt as the explanation it is.

## Proofs

`RunLoop_proofs`, for every number of tasks, executors, steps, any budgets, and
with or without `Exclusive`:

- `TypeCorrect`. `TypeOK` is not inductive: that a captured output names a step
  needs the executor to be inside its plan. `TypeInv` adds, per executor, where
  it may be (`Placed`).
- `DoneIsCaptured`, `CompletedIsCaptured`. A stale record may be written at any
  time, so the claim must hold of every copy: `CaptureInv` says of each stored
  run, each record an executor or an operator holds and each transition about
  to be written that what it claims is in `outs`; outputs are never deleted, so
  a copy's claim cannot become false. An executor past step `n` has seen outputs
  for all steps up to `n`.
- `ExecutionsNearTheirEnd`, `NearerIsWellFounded`. An execution's `Distance` is
  what is left of it: whether the loop is still on and what follows it, the steps
  of the plan, the iterations, and the way through the current round with its
  tool calls. Every step an execution takes makes it smaller in the
  lexicographic order, which has no infinite descent, and no other process
  touches it. With fairness of the executor, that is `ExecutionEnds`.

`RunLoopExclusive_proofs`, assuming `Exclusive`:

- `ExclInv` says that a run has at most one process, which owns its record
  (`Owned`): what it has read is what is stored, an executor inside the loop
  drives an active run, a recorded step is behind it, and the token meter agrees
  with the spend. From it follow `OverlapIsExcluded` (an executor is admitted
  only after its own run is stored active, so of two contenders the later look
  sees the other), `RecordedStepsStay`, `SpendIsBounded`, and
  `LifecycleIsImplemented`: every step of `RunLoop` is one of `RunLifecycle` or
  leaves status and steps alone.
- `FinishedInv` adds what the runner has answered: a step the record, or a
  transition about to be written, names as completed was finished, and so was
  every step behind an execution that was not resumed. Hence
  `RecordedIsFinished` and `FreshRunsFinish`. They locate what `loop_resume`
  violates: the record alone tells the finished steps, but a resume goes by the
  outputs.

They rest on the named assumptions of `TaskRuns` and `RunLoop` only: a budget is
positive or absent, `Conflicts` is symmetric and irreflexive, limits are
naturals.

`HumanDecisions_proofs`, for any operators, steps, items and number of
expansions:

- `TypeCorrect`: locks are the sequences of grants up to a length, so an
  expansion of one the operator found short enough is a lock again.
- `GrantedIsNotAsked`, assuming only `NothingOutOfScope` (an item overlaps
  itself, and no step finds what the task's lock puts out of scope; the instance
  of `MCHumanDecisions` meets it): a request
  is made of what the executor's lock leaves outside, and stays named by that
  lock.
- Under `DecideOnce`, `OnceInv` says that nobody else writes a request or its
  result while an operator decides it, so that `DecisionsAgree` (`StatusAgrees`)
  and an accepted request stays accepted (`Settled`). From that follow
  `WorkIsAccepted`, since what let a step begin is still true, and
  `WiderByDecision`. There a stale copy of the run may be stored at any time, so
  `LocksInv` says of every copy, in a process or in the store, and of the lock of
  every request that all grants of the lock were decided; an older lock that
  comes back is still a decided one.
- `ProtocolIsKept`: with these invariants every step is one of `ScopeDecisions`,
  with the answers the code accepts for its `Accepting`.
  The status write is the answer; a result written before it changes no answer,
  since the request is still pending; and whoever stores a run, stale or not,
  stores one whose lock was reached by answers "expand".
- `NothingUnanswered`, without `DecideOnce`: operators who decide a request again,
  or at the same time, may leave "rejected" where a lock was expanded, but never
  a lock expanded, or outside work begun, by a request nobody answered. The lemma
  about copies of locks (`CopiesStep`) is the same, for the answered requests in
  place of those accepted by expanding.
- `DoneIsCaptured`, without `DecideOnce`: `CapturedInv` says of every copy of the
  run that what it claims is in `outs`, as `CaptureInv` does in `RunLoop`.

They rest on the constants' named assumption and on what each theorem assumes.

`Scopes_proofs`, for all paths and locks, says what the relations are that the
two models above take as parameters: two locks overlap exactly if some path is
claimed by both (`ScopesOverlapWhenShared`, from the nesting of prefixes), so
`OverlapIsExcluded` is about work on shared paths; conflicts are symmetric and
irreflexive (`ConflictsAreMutual`), as `RunLoop` assumes; and expanding a lock
that names an `in_scope` only widens it (`ExpandingWidens`). A lock without one
allows everything, and expanding it narrows it (`ExpandingNarrowsTheUnscoped`):
`_expanded_intent_lock` writes an `in_scope` where there was none.

`GatewayDaemon_proofs`, for every number of starts and stop commands:

- `RecordIsHonest`. The record may name a process only from the moment it
  stores its start to the moment it stores its end (`Recorded`), unless it was
  cut off; `RecordInv` says so of whoever is named, since the property's "alive"
  also holds of processes that have not yet written.
- `PidFileIsHonest`, `LockIsGuarded`. What a daemon removes on its way out must
  be its own file, so `GuardInv` includes daemons that are releasing; a start that
  never had the lock is in `unlocked` from there on.
- `StopsRecover`, a step property. `RecoverInv` says that what a stop command
  has stored is still stored, if no daemon started since its first read: the
  history variable `stop[t].of` is the daemons started by then.

`HookGate_proofs`, for every number of calls and deciders: `GateInv` follows an
"allow" backwards, from the client that ran its tool to the reply, to the answer
the bridge is about to give, to the stored answer and its receipt
(`RunsAreExplained`); and a waiting client forwards, through the queue (without
repetitions) to the bridge (`NoWaitIsOrphaned`). A decision under way is about a
call that was asked about, and its receipt comes before its record; a text that
is not the receipt's decision takes a resolution, and a later decider can only add
the other receipt.
`TurnsAreKept` counts what the bridge still has to do before a call is answered
(`StepsLeft`: three steps for each call of the queue up to this one, and what is
left of the one it serves). Every step of the bridge lowers the count of all that
wait, no client, decider or teardown raises it, and at zero there is an answer.
With a fair bridge that gives `GateAnswers`; only the fairness is out of reach.
`OutsideIsOutsideScope` (`HumanDecisions_proofs`) joins the two views of a scope:
the items and `Overlaps` of `HumanDecisions` and the paths of `Scopes`.

`ReceiptChain_proofs`, for any processes, ids and number of receipts:

- `ChainInv` says that, without a race so far, what each put has read stays
  true (`PutInv`): its link is a known hash, or the link of the version it
  replaces, and its own hash is not known to anybody yet.
- `OnlyRacesBreak` follows since known hashes only grow; `ChainIsGrounded` since
  nothing stored links to a hash before it is written: a set that is grounded
  stays so when a receipt is added or replaced.
- `AuditIsImplemented`: every write is a `Record` or a `Race` of `AuditLog`.

`Coordination_proofs`: `ChainIsDriven` shows that mailbox and consumption move
the chain by its own steps only, so that its theorems hold of the composition
(`ReceiptsVerify`, `ReceiptsAreGrounded`, `ReceiptsAreAudited`). On top, `DoneInv`
says that a put that is done has stored what it says, and each component has an
invariant that the other cannot disturb, because a process does one thing at a
time and the receipt it puts tells which (`MailFrame`, `ConsumptionFrame`):

- `MailInv` gives `MessagesAreReceipted` (what a receive read was receipted, and
  receipts stay) and `ReplacementsShow` (`OneSend`: while the send receipt of a
  message has one version and no race, only one send has been put for it, and all
  copies of the message say what that one says).
- `ConsumptionInv` gives `AssignmentsAreReceipted` (the receipt a consumer has
  put names the identity it is about to store, and its hash is not lost without a
  race on that receipt) and
  `TaskAndRunAgree` (task and run differ only while the one process that
  consumes the handoff is between its two writes).

These four rest on the named assumptions of their modules: bounds are naturals,
the constants that stand for nobody are none of the processes, and receipt ids
exist for every message and handoff.

Only model-checked: the liveness properties (`ExecutionEnds`, `GateAnswers`,
`TeardownEnds`), because `WF` unfolds to `ENABLED`, which no installed prover
handles (for `ExecutionEnds` that an execution can always take its next step is
all that is missing, for `GateAnswers` that the bridge can).

## Not modelled

- Other writers of runs: `backend/claude_code.py` and `backend/cli/cli_audited.py`
  (a create and two transitions around an external process, without a lock). A
  consumed handoff's pending run blocks contenders of `RunLoop` as a run nobody
  drives does.
- The credential pool and what fails over with it: every operation holds a file
  lock from its read to its write, so nothing interleaves; what is left is
  arithmetic on cooldown times.
- Reviews, debates, critics, memory, skills, sessions: a handler reads, checks
  and stores one record, and no other handler's decision rests on it.
- The gateway's status, logs and service installation: reads, and a unit file.
- The channels' ingress checks: the daemon serves `/health` only and calls none
  of them.
- Providers, sandboxes, policies, shells, dashboards, the terminal client:
  network, process control, pure decisions over one record, presentation.
  `RunLoop` takes their outcome as a choice.

PROJECT.json lists every component with its reason.

## Plan

1. The backends' run writers as further processes of `RunLoop`.
2. The credential pool's cooldowns, as one process and the clock.

Modules to be proved about use no `RECURSIVE` operators and keep parameters in
named assumptions; a component's theorems are in a module of their own.
