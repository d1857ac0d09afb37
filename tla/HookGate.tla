------------------------------ MODULE HookGate ------------------------------
(***************************************************************************)
(* Live gating of one CLI run (CRAIK_LIVE_GATING=1): every tool call of    *)
(* the CLI starts a hook client (runtime/hooks/client.py) that asks the    *)
(* bridge in the gateway (backend/adapters/hook_bridge.py) and runs the    *)
(* tool only when it is told "allow".  The bridge answers one client at a  *)
(* time: it opens an approval, waits for an operator's decision to reach   *)
(* the store (hook_gating.py) and gives up after a while.  Decisions are   *)
(* taken by the gateway's stdin loop (gated_prompt.py) and by operators at *)
(* a command line, who may decide the approval (reviewing/approvals.py) or *)
(* resolve it as any delegation (reviewing/delegations.py); all of them    *)
(* read the approval, store a receipt and then store the approval.         *)
(* The session that runs the bridge is torn down with every wait bounded   *)
(* (cli_gating_loop.py), or killed.                                        *)
(*                                                                         *)
(* An approval's id is fresh for each call, so an approval is named by its *)
(* call.  Timeouts are actions that may happen at any time; summaries,     *)
(* vendor encodings and reasons are left out.  Of a resolution's text only *)
(* its first word counts, by which the bridge goes; of a resolve's receipt *)
(* only that it exists, because its outcome is not tied to the text.       *)
(***************************************************************************)
EXTENDS Naturals, Sequences, FiniteSets

CONSTANTS
  Calls,  \* tool calls of the CLI, which may be made in parallel
  Stdin,  \* the decider that is the gateway's own stdin loop
  Ops,    \* operators who run "craik approvals" or "craik delegation resolve"
  NoCall  \* what the bridge works on when it works on nothing

ASSUME HookGateAssumption ==
  /\ Stdin \notin Ops
  /\ NoCall \notin Calls
  /\ IsFiniteSet(Calls)

Deciders == Ops \cup {Stdin}
Decisions == {"approved", "denied"}

\* What the bridge makes of an approval that is not open any more: a decision,
\* or nothing, because its text begins with neither word or it was cancelled.
Texts == Decisions \cup {"other"}

VARIABLES
  call,      \* call[c]: what became of the hook of a tool call
  reply,     \* reply[c]: what the bridge's end of the connection has sent
  queue,     \* connections waiting to be accepted
  bridge,    \* the bridge thread
  approval,  \* approval[c]: the stored delegation point
  receipts,  \* the stored receipts: <<call, "approved", "denied" or "resolved">>
  session,   \* where the gateway thread is in run_gated_prompt
  cli,       \* whether the CLI runs
  op         \* op[d]: the decision or resolution a decider is in the middle of

vars == <<call, reply, queue, bridge, approval, receipts, session, cli, op>>

hooks == <<call, reply, queue, bridge>>

IdleBridge == [pc |-> "accept", call |-> NoCall, answer |-> "deny"]
IdleOp == [pc |-> "idle", call |-> NoCall, receipt |-> "denied", text |-> "denied"]

Init ==
  /\ call = [c \in Calls |-> "unmade"]
  /\ reply = [c \in Calls |-> "none"]
  /\ queue = <<>>
  /\ bridge = IdleBridge
  /\ approval = [c \in Calls |-> "none"]
  /\ receipts = {}
  /\ session = "loop"
  /\ cli = "running"
  /\ op = [d \in Deciders |-> IdleOp]

Listening == session \in {"loop", "drain", "join"}
StoreOpen == session \in {"loop", "drain", "join", "closed"}

-----------------------------------------------------------------------------
(***************************************************************************)
(* The hook clients.                                                       *)
(***************************************************************************)
Connect(c) ==
  /\ cli = "running"
  /\ call[c] = "unmade"
  /\ Listening
  /\ call' = [call EXCEPT ![c] = "waiting"]
  /\ queue' = Append(queue, c)
  /\ UNCHANGED <<reply, bridge, approval, receipts, session, cli, op>>

\* No socket, no payload on stdin or a bridge that refuses: deny.
ConnectFails(c) ==
  /\ cli = "running"
  /\ call[c] = "unmade"
  /\ call' = [call EXCEPT ![c] = "denied"]
  /\ UNCHANGED <<reply, queue, bridge, approval, receipts, session, cli, op>>

\* The client's own timeout; its connection stays queued, its payload readable.
ClientTimeout(c) ==
  /\ call[c] = "waiting"
  /\ reply[c] = "none"
  /\ call' = [call EXCEPT ![c] = "denied"]
  /\ UNCHANGED <<reply, queue, bridge, approval, receipts, session, cli, op>>

\* Anything but "allow" is a deny, a connection closed without an answer too.
\* The CLI runs the tool of an allowed call.
Receive(c) ==
  /\ call[c] = "waiting"
  /\ reply[c] # "none"
  /\ call' = [call EXCEPT ![c] = IF reply[c] = "allow" THEN "allowed" ELSE "denied"]
  /\ UNCHANGED <<reply, queue, bridge, approval, receipts, session, cli, op>>

\* The CLI ends when none of its hooks waits.
CliEnds ==
  /\ cli = "running"
  /\ \A c \in Calls : call[c] # "waiting"
  /\ cli' = "ended"
  /\ UNCHANGED <<call, reply, queue, bridge, approval, receipts, session, op>>

-----------------------------------------------------------------------------
(***************************************************************************)
(* The bridge: accept, ask, wait for the decision, reply.                  *)
(***************************************************************************)
Accepts ==
  /\ Listening
  /\ bridge.pc = "accept"
  /\ queue # <<>>

\* open_approval_request and approval.requested, whether or not the client of
\* the head of the queue still waits.
Ask ==
  /\ Accepts
  /\ queue' = Tail(queue)
  /\ approval' = [approval EXCEPT ![Head(queue)] = "open"]
  /\ bridge' = [bridge EXCEPT !.pc = "poll", !.call = Head(queue)]
  /\ UNCHANGED <<call, reply, receipts, session, cli, op>>

\* A payload that cannot be read, or a request that cannot be stored or shown.
AskFails ==
  /\ Accepts
  /\ queue' = Tail(queue)
  /\ \E stored \in {"none", "open"} : approval' = [approval EXCEPT ![Head(queue)] = stored]
  /\ bridge' = [pc |-> "reply", call |-> Head(queue), answer |-> "deny"]
  /\ UNCHANGED <<call, reply, receipts, session, cli, op>>

Polls == bridge.pc = "poll"

Answer(answer) ==
  /\ bridge' = [bridge EXCEPT !.pc = "reply", !.answer = answer]
  /\ UNCHANGED <<call, reply, queue, approval, receipts, session, cli, op>>

\* (A bug: the decision itself is sent as the answer.)
LookupRaw ==
  /\ Polls /\ StoreOpen
  /\ approval[bridge.call] \in Decisions
  /\ Answer(approval[bridge.call])

Lookup ==
  /\ Polls /\ StoreOpen
  /\ approval[bridge.call] \in Decisions
  /\ Answer(IF approval[bridge.call] = "approved" THEN "allow" ELSE "deny")

\* (A bug: the wait for the operator has no deadline.)
NoGateTimeout == FALSE /\ UNCHANGED vars

\* (A bug: a request nobody answers in time is queued again.)
GateTimeoutAgain ==
  /\ Polls /\ StoreOpen
  /\ approval[bridge.call] \notin Decisions
  /\ queue' = Append(queue, bridge.call)
  /\ bridge' = IdleBridge
  /\ UNCHANGED <<call, reply, approval, receipts, session, cli, op>>

\* The deadline, looked at after a lookup that found no decision.
GateTimeout ==
  /\ Polls /\ StoreOpen
  /\ approval[bridge.call] \notin Decisions
  /\ Answer("deny")

\* The store cannot be read, or the session has closed it.
LookupFails ==
  /\ Polls
  /\ Answer("deny")

\* The client may be gone; the connection is closed either way.
Reply ==
  /\ bridge.pc = "reply"
  /\ reply' = [reply EXCEPT ![bridge.call] = bridge.answer]
  /\ bridge' = IdleBridge
  /\ UNCHANGED <<call, queue, approval, receipts, session, cli, op>>

-----------------------------------------------------------------------------
(***************************************************************************)
(* Deciding and resolving: read the approval, store a receipt, store the   *)
(* approval.                                                               *)
(***************************************************************************)
\* The stdin loop reads approval.decide during the run, unless it waits for the
\* worker, and again once the main loop goes on.
MayDecide(d) == d = Stdin => session \in {"loop", "ended"}

Begins(d, c, receipt, text) ==
  /\ op[d].pc = "idle"
  /\ approval[c] = "open"
  /\ op' = [op EXCEPT ![d] = [pc |-> "receipt", call |-> c, receipt |-> receipt, text |-> text]]
  /\ UNCHANGED <<hooks, approval, receipts, session, cli>>

\* decide_approval: the receipt and the text are the decision's.
Decide(d, c, decision) == MayDecide(d) /\ Begins(d, c, decision, decision)

\* resolve_run_delegation asks for an open delegation of any kind; the text is
\* the operator's, and the one receipt it has for a delegation is put again.
Resolve(d, c, text) == d \in Ops /\ Begins(d, c, "resolved", text)

PutReceipt(d) ==
  /\ op[d].pc = "receipt"
  /\ receipts' = receipts \cup {<<op[d].call, op[d].receipt>>}
  /\ op' = [op EXCEPT ![d].pc = "record"]
  /\ UNCHANGED <<hooks, approval, session, cli>>

\* (A bug: the record is stored first.)
PutRecordFirst(d) ==
  /\ op[d].pc \in {"receipt", "record"}
  /\ approval' = [approval EXCEPT ![op[d].call] = op[d].text]
  /\ op' = [op EXCEPT ![d] = IdleOp]
  /\ UNCHANGED <<hooks, receipts, session, cli>>

\* The record read as open is stored as closed, whatever it has become.
PutRecord(d) ==
  /\ op[d].pc = "record"
  /\ approval' = [approval EXCEPT ![op[d].call] = op[d].text]
  /\ op' = [op EXCEPT ![d] = IdleOp]
  /\ UNCHANGED <<hooks, receipts, session, cli>>

\* An operator's command dies, or its receipt cannot be chained.
DecideFails(d) ==
  /\ op[d].pc # "idle"
  /\ op' = [op EXCEPT ![d] = IdleOp]
  /\ UNCHANGED <<hooks, approval, receipts, session, cli>>

-----------------------------------------------------------------------------
(***************************************************************************)
(* The gateway thread.                                                     *)
(***************************************************************************)
StdinIdle == op[Stdin].pc = "idle"

\* session.close, exit, quit or the end of stdin: wait for the worker.
ReadClose ==
  /\ session = "loop"
  /\ StdinIdle
  /\ session' = "drain"
  /\ UNCHANGED <<hooks, approval, receipts, cli, op>>

WorkerDone ==
  /\ session \in {"loop", "drain"}
  /\ StdinIdle
  /\ cli = "ended"
  /\ session' = "join"
  /\ UNCHANGED <<hooks, approval, receipts, cli, op>>

\* An exception past the loop; a decision under way is lost.
Interrupt ==
  /\ session \in {"loop", "drain"}
  /\ session' = "join"
  /\ op' = [op EXCEPT ![Stdin] = IdleOp]
  /\ UNCHANGED <<hooks, approval, receipts, cli>>

\* The clients whose connection the end of the server resets.
Dropped(cs) == [c \in Calls |-> IF c \in cs /\ reply[c] = "none" THEN "eof" ELSE reply[c]]
Queued == {queue[i] : i \in DOMAIN queue}

\* (A bug: the worker is waited for without a bound.)
CloseServerWhenDone ==
  /\ session = "join"
  /\ cli = "ended"
  /\ session' = "closed"
  /\ reply' = Dropped(Queued)
  /\ queue' = <<>>
  /\ UNCHANGED <<call, bridge, approval, receipts, cli, op>>

\* (A bug: the clients still queued are neither answered nor dropped.)
CloseServerOnly ==
  /\ session = "join"
  /\ session' = "closed"
  /\ queue' = <<>>
  /\ UNCHANGED <<call, reply, bridge, approval, receipts, cli, op>>

\* After the worker ended or five seconds have passed.
CloseServer ==
  /\ session = "join"
  /\ session' = "closed"
  /\ reply' = Dropped(Queued)
  /\ queue' = <<>>
  /\ UNCHANGED <<call, bridge, approval, receipts, cli, op>>

\* After the bridge thread ended or five seconds have passed.
CloseStore ==
  /\ session = "closed"
  /\ session' = "ended"
  /\ UNCHANGED <<hooks, approval, receipts, cli, op>>

\* The gateway is killed with all its threads; the kernel drops its sockets.
Kill ==
  /\ session # "killed"
  /\ session' = "killed"
  /\ reply' = Dropped(Queued \cup {bridge.call})
  /\ queue' = <<>>
  /\ bridge' = IdleBridge
  /\ op' = [op EXCEPT ![Stdin] = IdleOp]
  /\ UNCHANGED <<call, approval, receipts, cli>>

-----------------------------------------------------------------------------
\* What the bridge thread comes to when its store works as long as it is open.
BridgeStep ==
  \/ Ask \/ AskFails \/ Lookup \/ GateTimeout \/ Reply
  \/ LookupFails /\ ~StoreOpen

ClientStep(c) == ClientTimeout(c) \/ Receive(c)

Next ==
  \/ \E c \in Calls : Connect(c) \/ ConnectFails(c) \/ ClientTimeout(c) \/ Receive(c)
  \/ CliEnds
  \/ Ask \/ AskFails \/ Lookup \/ GateTimeout \/ LookupFails \/ Reply
  \/ \E d \in Deciders, c \in Calls, decision \in Decisions : Decide(d, c, decision)
  \/ \E d \in Deciders, c \in Calls, text \in Texts : Resolve(d, c, text)
  \/ \E d \in Deciders : PutReceipt(d) \/ PutRecord(d) \/ DecideFails(d)
  \/ ReadClose \/ WorkerDone \/ Interrupt \/ CloseServer \/ CloseStore \/ Kill

\* Threads run and timeouts expire; nobody has to decide, and the CLI need not
\* end.
Fairness ==
  /\ WF_vars(BridgeStep)
  /\ \A c \in Calls : WF_vars(ClientStep(c))
  /\ WF_vars(CloseServer)
  /\ WF_vars(CloseStore)

Spec == Init /\ [][Next]_vars /\ Fairness

-----------------------------------------------------------------------------
TypeOK ==
  /\ call \in [Calls -> {"unmade", "waiting", "allowed", "denied"}]
  /\ reply \in [Calls -> {"none", "allow", "deny", "eof"}]
  /\ queue \in Seq(Calls)
  /\ bridge \in [pc : {"accept", "poll", "reply"}, call : Calls \cup {NoCall},
                 answer : {"allow", "deny"}]
  /\ approval \in [Calls -> {"none", "open"} \cup Texts]
  /\ receipts \subseteq Calls \X (Decisions \cup {"resolved"})
  /\ session \in {"loop", "drain", "join", "closed", "ended", "killed"}
  /\ cli \in {"running", "ended"}
  /\ op \in [Deciders -> [pc : {"idle", "receipt", "record"}, call : Calls \cup {NoCall},
                          receipt : Decisions \cup {"resolved"}, text : Texts]]

\* A tool only runs when an operator's answer to that very call is stored with
\* its receipt: the receipt of an approval, or that of a resolution, which lets
\* the tool run by its text alone.  If nobody resolved the approval and the
\* record no longer says that it was approved, because two deciders passed the
\* check for an open request together, the receipts show both decisions.
RanIsExplained ==
  \A c \in Calls : call[c] = "allowed" =>
    \/ <<c, "resolved">> \in receipts
    \/ /\ <<c, "approved">> \in receipts
       /\ approval[c] = "approved" \/ <<c, "denied">> \in receipts

\* Whoever waits is queued, served or answered: no hook hangs until its own
\* timeout because a teardown, a failed request or a dead bridge forgot it.
NoOrphanWait ==
  \A c \in Calls : call[c] = "waiting" =>
    c \in Queued \/ bridge.call = c \/ reply[c] # "none"

\* What the bridge still has to do before a call is answered: three steps for
\* each call of the queue up to this one, and what is left of the one it serves.
Busy == CASE bridge.pc = "accept" -> 0 [] bridge.pc = "reply" -> 1 [] bridge.pc = "poll" -> 2

Place(q, c) == CHOOSE i \in DOMAIN q : q[i] = c

StepsLeft(c) ==
  IF c \in Queued THEN 3 * Place(queue, c) + Busy ELSE IF bridge.call = c THEN Busy ELSE 0

\* Calls are answered in their turn.  No call is overtaken, every step of the
\* bridge brings all that wait nearer to their answers, however many clients
\* gave up or operators stay silent, and whoever leaves the queue and the
\* bridge was answered or had the connection closed.
NearsItsAnswer ==
  [][\A c \in Calls : c \in Queued \/ bridge.call = c =>
       /\ StepsLeft(c)' <= StepsLeft(c)
       /\ bridge' # bridge => StepsLeft(c)' < StepsLeft(c)
       /\ StepsLeft(c)' = 0 => reply'[c] # "none"]_vars

\* The bridge lets go of every call it takes up although no operator answers,
\* so that the calls behind it are asked about.
GateAnswers == \A c \in Calls : bridge.call = c ~> bridge.call # c

\* A teardown that has begun comes to its end although the CLI may hang.
TeardownEnds == session \in {"join", "closed"} ~> session \in {"ended", "killed"}
=============================================================================
