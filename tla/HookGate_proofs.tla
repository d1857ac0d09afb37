--------------------------- MODULE HookGate_proofs ---------------------------
(***************************************************************************)
(* Theorems about HookGate, for every number of tool calls and operators.  *)
(* One invariant carries them: it follows an "allow" back from the client  *)
(* over the connection and the bridge to the stored decision, and a        *)
(* waiting client through the queue to the bridge.                         *)
(***************************************************************************)
EXTENDS HookGate, TLAPS

-----------------------------------------------------------------------------
(***************************************************************************)
(* Queues.                                                                 *)
(***************************************************************************)
In(q) == {q[i] : i \in DOMAIN q}
NoRepeats(q) == \A i, j \in DOMAIN q : q[i] = q[j] => i = j

\* What a queue with a new element, and one without its head, consist of.
LEMMA AppendToQueue ==
  ASSUME NEW q \in Seq(Calls), NEW c \in Calls
  PROVE  /\ Append(q, c) \in Seq(Calls)
         /\ In(Append(q, c)) = In(q) \cup {c}
         /\ NoRepeats(q) /\ c \notin In(q) => NoRepeats(Append(q, c))
<1> DEFINE r == Append(q, c)
<1>1. /\ r \in Seq(Calls) /\ Len(r) = Len(q) + 1 /\ r[Len(q) + 1] = c
      /\ \A i \in 1 .. Len(q) : r[i] = q[i]
  OBVIOUS
<1>2. DOMAIN r = 1 .. (Len(q) + 1) /\ DOMAIN q = 1 .. Len(q) /\ Len(q) \in Nat
  OBVIOUS
<1> HIDE DEF r
<1>3. In(r) = In(q) \cup {c}
  <2>1. \A i \in DOMAIN r : r[i] \in In(q) \cup {c}
    BY <1>1, <1>2 DEF In
  <2>2. \A i \in DOMAIN q : i \in DOMAIN r /\ r[i] = q[i]
    BY <1>1, <1>2
  <2>3. Len(q) + 1 \in DOMAIN r
    BY <1>2
  <2>4. QED
    BY <1>1, <2>1, <2>2, <2>3 DEF In
<1>4. ASSUME NoRepeats(q), c \notin In(q) PROVE NoRepeats(r)
  <2>1. \A i \in DOMAIN q : r[i] # c
    BY <1>1, <1>2, <1>4 DEF In
  <2>2. QED
    BY <1>1, <1>2, <1>4, <2>1 DEF NoRepeats
<1>5. QED
  BY <1>1, <1>3, <1>4 DEF r

LEMMA TailOfQueue ==
  ASSUME NEW q \in Seq(Calls), q # <<>>
  PROVE  /\ Head(q) \in Calls /\ Tail(q) \in Seq(Calls)
         /\ In(q) = In(Tail(q)) \cup {Head(q)}
         /\ NoRepeats(q) => NoRepeats(Tail(q)) /\ Head(q) \notin In(Tail(q))
<1> DEFINE r == Tail(q)
<1>1. /\ r \in Seq(Calls) /\ Len(r) = Len(q) - 1 /\ Head(q) = q[1]
      /\ \A i \in 1 .. Len(r) : r[i] = q[i + 1]
  OBVIOUS
<1>2. DOMAIN r = 1 .. Len(r) /\ DOMAIN q = 1 .. Len(q) /\ Len(q) \in Nat \ {0}
  OBVIOUS
<1>3. Head(q) \in Calls
  BY <1>1, <1>2
<1> HIDE DEF r
<1>4. \A i \in DOMAIN r : i + 1 \in DOMAIN q \ {1} /\ r[i] = q[i + 1]
  BY <1>1, <1>2
<1>5. \A j \in DOMAIN q \ {1} : j - 1 \in DOMAIN r /\ q[j] = r[j - 1]
  BY <1>1, <1>2
<1>6. 1 \in DOMAIN q
  BY <1>2
<1>7. In(q) = In(r) \cup {Head(q)}
  <2>1. \A i \in DOMAIN r : r[i] \in In(q)
    BY <1>4 DEF In
  <2>2. \A j \in DOMAIN q : q[j] \in In(r) \cup {Head(q)}
    BY <1>1, <1>5 DEF In
  <2>3. Head(q) \in In(q)
    BY <1>1, <1>6 DEF In
  <2>4. QED
    BY <2>1, <2>2, <2>3 DEF In
<1>8. ASSUME NoRepeats(q) PROVE NoRepeats(r) /\ Head(q) \notin In(r)
  <2>1. NoRepeats(r)
    BY <1>2, <1>4, <1>8 DEF NoRepeats
  <2>2. \A i \in DOMAIN r : r[i] # Head(q)
    BY <1>1, <1>2, <1>4, <1>6, <1>8 DEF NoRepeats
  <2>3. QED
    BY <2>1, <2>2 DEF In
<1>9. QED
  BY <1>1, <1>3, <1>7, <1>8 DEF r

LEMMA EmptyQueue == <<>> \in Seq(Calls) /\ In(<<>>) = {} /\ NoRepeats(<<>>)
BY DEF In, NoRepeats

-----------------------------------------------------------------------------
(***************************************************************************)
(* The invariant.                                                          *)
(***************************************************************************)
\* Nothing has happened to a call beyond what its client does.
Untouched(c) == reply[c] = "none" /\ approval[c] = "none" /\ bridge.call # c

Cleared(c) ==
  \/ call[c] = "allowed"
  \/ reply[c] = "allow"
  \/ bridge.pc = "reply" /\ bridge.call = c /\ bridge.answer = "allow"

Explained(c) ==
  \/ <<c, "resolved">> \in receipts
  \/ /\ <<c, "approved">> \in receipts
     /\ approval[c] = "approved" \/ <<c, "denied">> \in receipts

\* A decision under way is about a call that was asked about, and its receipt
\* is stored before the record is; a text of its own needs a resolution.
OpInv(d) ==
  op[d].pc # "idle" =>
    /\ op[d].call \in Calls
    /\ approval[op[d].call] # "none"
    /\ op[d].receipt \in {"resolved", op[d].text}
    /\ op[d].pc = "record" => <<op[d].call, op[d].receipt>> \in receipts

CallInv(c) ==
  /\ call[c] = "unmade" => c \notin In(queue) /\ Untouched(c)
  /\ c \in In(queue) => call[c] \in {"waiting", "denied"} /\ Untouched(c)
  /\ call[c] = "waiting" => c \in In(queue) \/ bridge.call = c \/ reply[c] # "none"
  /\ approval[c] \in Decisions =>
       <<c, approval[c]>> \in receipts \/ <<c, "resolved">> \in receipts
  /\ Cleared(c) => Explained(c)

GateInv ==
  /\ TypeOK
  /\ NoRepeats(queue)
  /\ bridge.pc = "accept" <=> bridge.call = NoCall
  /\ \A d \in Deciders : OpInv(d)
  /\ \A c \in Calls : CallInv(c)

LEMMA GateInit == Init => GateInv
<1> USE HookGateAssumption DEF Init, IdleBridge, IdleOp
<1>1. Init => TypeOK
  BY EmptyQueue DEF TypeOK, Decisions, Texts
<1>2. Init => (\A d \in Deciders : OpInv(d)) /\ (bridge.pc = "accept" <=> bridge.call = NoCall)
  BY DEF OpInv
<1>3. Init => \A c \in Calls : CallInv(c)
  BY EmptyQueue DEF CallInv, Untouched, Cleared, Decisions
<1>4. QED
  BY <1>1, <1>2, <1>3, EmptyQueue DEF GateInv

-----------------------------------------------------------------------------
(***************************************************************************)
(* The steps.                                                              *)
(***************************************************************************)
LEMMA ConnectKeeps ==
  ASSUME GateInv, NEW c \in Calls, Connect(c)
  PROVE  GateInv'
<1>1. /\ call' \in [Calls -> {"unmade", "waiting", "allowed", "denied"}]
      /\ call'[c] = "waiting" /\ \A e \in Calls \ {c} : call'[e] = call[e]
  BY DEF Connect, GateInv, TypeOK
<1>2. /\ queue \in Seq(Calls) /\ NoRepeats(queue) /\ c \notin In(queue)
      /\ UNCHANGED <<reply, bridge, approval, receipts, session, cli, op>>
  BY DEF Connect, GateInv, TypeOK, CallInv
<1>3. queue' \in Seq(Calls) /\ In(queue') = In(queue) \cup {c} /\ NoRepeats(queue')
  BY <1>2, AppendToQueue DEF Connect
<1>4. TypeOK'
  BY <1>1, <1>2, <1>3 DEF GateInv, TypeOK
<1>5. \A d \in Deciders : OpInv(d)'
  BY <1>2 DEF GateInv, OpInv
<1>6. ASSUME NEW e \in Calls PROVE CallInv(e)'
  <2>1. CASE e = c
    BY <1>1, <1>2, <1>3, <2>1 DEF Connect, GateInv, CallInv, Untouched, Cleared, Explained
  <2>2. CASE e # c
    BY <1>1, <1>2, <1>3, <2>2 DEF GateInv, CallInv, Untouched, Cleared, Explained
  <2>3. QED
    BY <2>1, <2>2
<1>7. QED
  BY <1>2, <1>3, <1>4, <1>5, <1>6 DEF GateInv

LEMMA ClientKeeps ==
  ASSUME GateInv, NEW c \in Calls, ConnectFails(c) \/ ClientTimeout(c) \/ Receive(c)
  PROVE  GateInv'
<1>1. PICK to \in {"allowed", "denied"} : call' = [call EXCEPT ![c] = to]
  BY DEF ConnectFails, ClientTimeout, Receive
<1>2. /\ call' \in [Calls -> {"unmade", "waiting", "allowed", "denied"}]
      /\ call'[c] = to /\ \A e \in Calls \ {c} : call'[e] = call[e]
  BY <1>1 DEF GateInv, TypeOK
<1>3. UNCHANGED <<reply, queue, bridge, approval, receipts, session, cli, op>>
  BY DEF ConnectFails, ClientTimeout, Receive
<1>4. TypeOK'
  BY <1>2, <1>3 DEF GateInv, TypeOK
<1>5. \A d \in Deciders : OpInv(d)'
  BY <1>3 DEF GateInv, OpInv
<1>6. call'[c] = "allowed" => reply[c] = "allow"
  BY <1>2 DEF ConnectFails, ClientTimeout, Receive, GateInv, TypeOK
<1>7. c \in In(queue) => call'[c] # "allowed"
  BY <1>6 DEF GateInv, CallInv, Untouched
<1>8. ASSUME NEW e \in Calls PROVE CallInv(e)'
  <2>1. CASE e = c
    BY <1>2, <1>3, <1>6, <1>7, <2>1 DEF GateInv, CallInv, Untouched, Cleared, Explained
  <2>2. CASE e # c
    BY <1>2, <1>3, <2>2 DEF GateInv, CallInv, Untouched, Cleared, Explained
  <2>3. QED
    BY <2>1, <2>2
<1>9. QED
  BY <1>3, <1>4, <1>5, <1>8 DEF GateInv

\* The bridge takes the head of the queue, with or without storing a request.
LEMMA AskKeeps ==
  ASSUME GateInv, Ask \/ AskFails
  PROVE  GateInv'
<1> DEFINE h == Head(queue)
<1>1. queue \in Seq(Calls) /\ queue # <<>> /\ NoRepeats(queue) /\ queue' = Tail(queue)
  BY DEF Ask, AskFails, Accepts, GateInv, TypeOK
<1>2. /\ h \in Calls /\ queue' \in Seq(Calls) /\ NoRepeats(queue')
      /\ In(queue) = In(queue') \cup {h} /\ h \notin In(queue')
  BY <1>1, TailOfQueue
<1>3. PICK stored \in {"none", "open"} : approval' = [approval EXCEPT ![h] = stored]
  BY DEF Ask, AskFails
<1>4. bridge.call = NoCall /\ bridge.pc = "accept"
  BY DEF Ask, AskFails, Accepts, GateInv
<1>5. /\ bridge'.call = h /\ bridge'.pc \in {"poll", "reply"}
      /\ bridge'.pc = "reply" => bridge'.answer = "deny"
      /\ bridge' \in [pc : {"accept", "poll", "reply"}, call : Calls \cup {NoCall},
                      answer : {"allow", "deny"}]
  <2>1. CASE Ask
    BY <1>2, <2>1 DEF Ask, GateInv, TypeOK
  <2>2. CASE AskFails
    BY <1>2, <2>2 DEF AskFails
  <2>3. QED
    BY <2>1, <2>2
<1>6. UNCHANGED <<call, reply, receipts, session, cli, op>>
  BY DEF Ask, AskFails
<1>7. /\ approval' \in [Calls -> {"none", "open"} \cup Texts]
      /\ approval'[h] = stored /\ \A e \in Calls \ {h} : approval'[e] = approval[e]
  BY <1>2, <1>3 DEF GateInv, TypeOK
<1>8. approval[h] = "none" /\ reply[h] = "none" /\ call[h] \in {"waiting", "denied"}
  BY <1>2 DEF GateInv, CallInv, Untouched
<1> HIDE DEF h
<1>9. TypeOK'
  BY <1>2, <1>5, <1>6, <1>7 DEF GateInv, TypeOK
<1>10. \A d \in Deciders : OpInv(d)'
  BY <1>6, <1>7, <1>8 DEF GateInv, OpInv
<1>11. ASSUME NEW e \in Calls PROVE CallInv(e)'
  <2>1. CASE e = h
    BY <1>2, <1>5, <1>6, <1>7, <1>8, <2>1
       DEF GateInv, CallInv, Untouched, Cleared, Explained, Decisions
  <2>2. CASE e # h
    BY <1>2, <1>4, <1>5, <1>6, <1>7, <2>2, HookGateAssumption
       DEF GateInv, CallInv, Untouched, Cleared, Explained
  <2>3. QED
    BY <2>1, <2>2
<1>12. QED
  BY <1>2, <1>5, <1>9, <1>10, <1>11, HookGateAssumption DEF GateInv

\* The bridge has an answer; "allow" only when the stored decision says so.
LEMMA AnswerKeeps ==
  ASSUME GateInv, Lookup \/ GateTimeout \/ LookupFails
  PROVE  GateInv'
<1>1. PICK answer \in {"allow", "deny"} :
        Answer(answer) /\ (answer = "allow" => approval[bridge.call] = "approved")
  BY DEF Lookup, GateTimeout, LookupFails
<1>2. /\ bridge.pc = "poll" /\ bridge'.pc = "reply" /\ bridge'.call = bridge.call
      /\ bridge'.answer = answer
      /\ bridge' \in [pc : {"accept", "poll", "reply"}, call : Calls \cup {NoCall},
                      answer : {"allow", "deny"}]
  BY <1>1 DEF Answer, Lookup, GateTimeout, LookupFails, Polls, GateInv, TypeOK
<1>3. UNCHANGED <<call, reply, queue, approval, receipts, session, cli, op>>
  BY <1>1 DEF Answer
<1>4. TypeOK'
  BY <1>2, <1>3 DEF GateInv, TypeOK
<1>5. \A d \in Deciders : OpInv(d)'
  BY <1>3 DEF GateInv, OpInv
<1>6. ASSUME NEW e \in Calls PROVE CallInv(e)'
  <2>1. bridge.call = e /\ answer = "allow" => Explained(e)
    BY <1>1 DEF GateInv, CallInv, Explained, Decisions
  <2>2. QED
    BY <1>2, <1>3, <2>1 DEF GateInv, CallInv, Untouched, Cleared, Explained
<1>7. QED
  BY <1>2, <1>3, <1>4, <1>5, <1>6 DEF GateInv

LEMMA ReplyKeeps ==
  ASSUME GateInv, Reply
  PROVE  GateInv'
<1>1. bridge.call \in Calls /\ bridge.answer \in {"allow", "deny"} /\ bridge.pc = "reply"
  BY DEF Reply, GateInv, TypeOK
<1>2. /\ reply' \in [Calls -> {"none", "allow", "deny", "eof"}]
      /\ reply'[bridge.call] = bridge.answer
      /\ \A e \in Calls \ {bridge.call} : reply'[e] = reply[e]
  BY <1>1 DEF Reply, GateInv, TypeOK
<1>3. /\ bridge' \in [pc : {"accept", "poll", "reply"}, call : Calls \cup {NoCall},
                      answer : {"allow", "deny"}]
      /\ bridge'.pc = "accept" /\ bridge'.call = NoCall
      /\ UNCHANGED <<call, queue, approval, receipts, session, cli, op>>
  BY DEF Reply, IdleBridge
<1>4. TypeOK'
  BY <1>2, <1>3 DEF GateInv, TypeOK
<1>5. \A d \in Deciders : OpInv(d)'
  BY <1>3 DEF GateInv, OpInv
<1>6. ASSUME NEW e \in Calls PROVE CallInv(e)'
  <2>1. CASE e = bridge.call
    BY <1>1, <1>2, <1>3, <2>1 DEF GateInv, CallInv, Untouched, Cleared, Explained
  <2>2. CASE e # bridge.call
    BY <1>2, <1>3, <2>2, HookGateAssumption
       DEF GateInv, CallInv, Untouched, Cleared, Explained
  <2>3. QED
    BY <2>1, <2>2
<1>7. QED
  BY <1>3, <1>4, <1>5, <1>6 DEF GateInv

OpTypes == [pc : {"idle", "receipt", "record"}, call : Calls \cup {NoCall},
            receipt : Decisions \cup {"resolved"}, text : Texts]

LEMMA IdleOpType == IdleOp \in OpTypes
BY DEF IdleOp, OpTypes, Decisions, Texts

\* A read of an open approval; the receipt; the end of a decision.
LEMMA DecideKeeps ==
  ASSUME GateInv, NEW d \in Deciders,
         \/ \E c \in Calls, decision \in Decisions : Decide(d, c, decision)
         \/ \E c \in Calls, text \in Texts : Resolve(d, c, text)
         \/ PutReceipt(d)
         \/ DecideFails(d)
  PROVE  GateInv'
<1>1. UNCHANGED <<call, reply, queue, bridge, approval, session, cli>>
  BY DEF Decide, Resolve, Begins, PutReceipt, DecideFails, hooks
<1>2. receipts \subseteq receipts' /\ receipts' \subseteq Calls \X (Decisions \cup {"resolved"})
  <2>1. ASSUME PutReceipt(d)
        PROVE  op[d].call \in Calls /\ op[d].receipt \in Decisions \cup {"resolved"}
    BY <2>1 DEF PutReceipt, GateInv, OpInv, TypeOK
  <2>2. QED
    BY <2>1 DEF Decide, Resolve, Begins, PutReceipt, DecideFails, GateInv, TypeOK
<1>3. PICK o \in OpTypes :
        /\ op' = [op EXCEPT ![d] = o]
        /\ o.pc # "idle" => /\ o.call \in Calls /\ approval[o.call] # "none"
                            /\ o.receipt \in {"resolved", o.text}
        /\ o.pc = "record" => <<o.call, o.receipt>> \in receipts'
  <2>1. ASSUME NEW c \in Calls, NEW receipt \in Decisions \cup {"resolved"}, NEW text \in Texts,
               receipt \in {"resolved", text}, Begins(d, c, receipt, text)
        PROVE  \E o \in OpTypes :
                 /\ op' = [op EXCEPT ![d] = o]
                 /\ o.pc # "idle" => /\ o.call \in Calls /\ approval[o.call] # "none"
                                     /\ o.receipt \in {"resolved", o.text}
                 /\ o.pc # "record"
    <3>1. [pc |-> "receipt", call |-> c, receipt |-> receipt, text |-> text] \in OpTypes
      BY DEF OpTypes
    <3>2. QED
      BY <2>1, <3>1 DEF Begins
  <2>2. CASE PutReceipt(d)
    <3> DEFINE o == [op[d] EXCEPT !.pc = "record"]
    <3>1. op[d] \in OpTypes
      BY DEF GateInv, TypeOK, OpTypes
    <3>2. /\ o \in OpTypes /\ o.call = op[d].call
          /\ o.receipt = op[d].receipt /\ o.text = op[d].text
      BY <3>1 DEF OpTypes
    <3>3. op' = [op EXCEPT ![d] = o] /\ <<op[d].call, op[d].receipt>> \in receipts'
      BY <2>2 DEF PutReceipt
    <3>4. /\ op[d].call \in Calls /\ approval[op[d].call] # "none"
          /\ op[d].receipt \in {"resolved", op[d].text}
      BY <2>2 DEF PutReceipt, GateInv, OpInv
    <3> HIDE DEF o
    <3>5. QED
      BY <3>2, <3>3, <3>4
  <2>3. CASE DecideFails(d)
    BY <2>3, IdleOpType DEF DecideFails, IdleOp
  <2>4. ASSUME NEW c \in Calls, NEW decision \in Decisions, Decide(d, c, decision)
        PROVE  decision \in Texts /\ Begins(d, c, decision, decision)
    BY <2>4 DEF Decide, Texts
  <2>5. ASSUME NEW c \in Calls, NEW text \in Texts, Resolve(d, c, text)
        PROVE  Begins(d, c, "resolved", text)
    BY <2>5 DEF Resolve
  <2>6. QED
    BY <2>1, <2>2, <2>3, <2>4, <2>5
<1>4. op' \in [Deciders -> OpTypes] /\ op'[d] = o /\ \A e \in Deciders \ {d} : op'[e] = op[e]
  BY <1>3 DEF GateInv, TypeOK, OpTypes
<1>5. \A e \in Deciders : OpInv(e)'
  BY <1>1, <1>2, <1>3, <1>4 DEF GateInv, OpInv
<1>6. TypeOK'
  BY <1>1, <1>2, <1>4 DEF GateInv, TypeOK, OpTypes
<1>7. \A e \in Calls : CallInv(e)'
  BY <1>1, <1>2 DEF GateInv, CallInv, Untouched, Cleared, Explained
<1>8. QED
  BY <1>1, <1>5, <1>6, <1>7 DEF GateInv

\* The record is overwritten whatever it has become: both receipts then exist.
LEMMA PutRecordKeeps ==
  ASSUME GateInv, NEW d \in Deciders, PutRecord(d)
  PROVE  GateInv'
<1> DEFINE o == op[d].call
<1>1. /\ o \in Calls /\ op[d].text \in Texts /\ approval[o] # "none"
      /\ \/ <<o, "resolved">> \in receipts
         \/ op[d].text \in Decisions /\ <<o, op[d].text>> \in receipts
  <2>1. /\ op[d].receipt \in Decisions \cup {"resolved"} /\ op[d].text \in Texts
        /\ op[d].pc = "record"
    BY DEF PutRecord, GateInv, TypeOK
  <2>2. /\ o \in Calls /\ approval[o] # "none" /\ op[d].receipt \in {"resolved", op[d].text}
        /\ <<o, op[d].receipt>> \in receipts
    BY <2>1 DEF GateInv, OpInv
  <2>3. QED
    BY <2>1, <2>2
<1>2. UNCHANGED <<call, reply, queue, bridge, receipts, session, cli>>
  BY DEF PutRecord, hooks
<1>3. /\ approval' \in [Calls -> {"none", "open"} \cup Texts]
      /\ approval'[o] = op[d].text /\ \A e \in Calls \ {o} : approval'[e] = approval[e]
  BY <1>1 DEF PutRecord, GateInv, TypeOK
<1>4. /\ op' \in [Deciders -> OpTypes]
      /\ op'[d].pc = "idle" /\ \A e \in Deciders \ {d} : op'[e] = op[e]
  BY IdleOpType DEF PutRecord, IdleOp, GateInv, TypeOK, OpTypes
<1> HIDE DEF o
<1>5. TypeOK'
  BY <1>2, <1>3, <1>4 DEF GateInv, TypeOK, OpTypes
<1>6. ASSUME NEW e \in Deciders PROVE OpInv(e)'
  <2>1. CASE e = d
    <3>1. op'[e].pc = "idle"
      BY <1>4, <2>1
    <3>2. QED
      BY <3>1 DEF OpInv
  <2>2. CASE e # d
    <3>1. op'[e] = op[e] /\ OpInv(e)
      BY <1>4, <2>2 DEF GateInv
    <3>2. op[d].text # "none"
      BY <1>1 DEF Texts, Decisions
    <3>3. \A f \in Calls : approval[f] # "none" => approval'[f] # "none"
      BY <1>1, <1>3, <3>2
    <3>4. QED
      BY <1>2, <3>1, <3>3 DEF OpInv
  <2>3. QED
    BY <2>1, <2>2
<1>7. ASSUME NEW e \in Calls PROVE CallInv(e)'
  <2>1. CASE e = o
    <3>1. /\ CallInv(e) /\ approval[e] # "none" /\ approval'[e] = op[d].text
          /\ approval'[e] \notin {"open", "none"}
      BY <1>1, <1>3, <2>1 DEF GateInv, Texts, Decisions
    <3>2. Cleared(e)' => Cleared(e)
      BY <1>2 DEF Cleared
    <3>3. \/ <<e, "resolved">> \in receipts
          \/ op[d].text \in Decisions /\ <<e, op[d].text>> \in receipts
      BY <1>1, <2>1
    <3>4. Explained(e) => Explained(e)'
      BY <1>2, <3>1, <3>3 DEF Explained, Decisions
    <3>5. approval'[e] \in Decisions =>
            <<e, approval'[e]>> \in receipts' \/ <<e, "resolved">> \in receipts'
      BY <1>2, <3>1, <3>3
    <3>6. e \notin In(queue) /\ call[e] # "unmade"
      BY <3>1 DEF CallInv, Untouched
    <3>7. QED
      BY <1>2, <3>1, <3>2, <3>4, <3>5, <3>6 DEF CallInv
  <2>2. CASE e # o
    BY <1>2, <1>3, <2>2 DEF GateInv, CallInv, Untouched, Cleared, Explained
  <2>3. QED
    BY <2>1, <2>2
<1>8. QED
  BY <1>2, <1>5, <1>6, <1>7 DEF GateInv

\* A decision that the gateway thread takes with it.
LEMMA OpLost ==
  ASSUME GateInv, op' = op \/ op' = [op EXCEPT ![Stdin] = IdleOp],
         UNCHANGED <<approval, receipts>>
  PROVE  /\ op' \in [Deciders -> OpTypes]
         /\ \A d \in Deciders : OpInv(d)'
<1>1. \A d \in Deciders : op'[d] = op[d] \/ op'[d] = IdleOp
  BY DEF GateInv, TypeOK, Deciders
<1>2. op' \in [Deciders -> OpTypes]
  BY IdleOpType DEF GateInv, TypeOK, OpTypes
<1>3. \A d \in Deciders : OpInv(d)'
  BY <1>1 DEF GateInv, OpInv, IdleOp
<1>4. QED
  BY <1>2, <1>3

LEMMA SessionKeeps ==
  ASSUME GateInv, CliEnds \/ ReadClose \/ WorkerDone \/ Interrupt \/ CloseStore
  PROVE  GateInv'
<1>1. UNCHANGED <<call, reply, queue, bridge, approval, receipts>>
  BY DEF CliEnds, ReadClose, WorkerDone, Interrupt, CloseStore, hooks
<1>2. /\ session' \in {"loop", "drain", "join", "closed", "ended", "killed"}
      /\ cli' \in {"running", "ended"}
      /\ op' = op \/ op' = [op EXCEPT ![Stdin] = IdleOp]
  BY DEF CliEnds, ReadClose, WorkerDone, Interrupt, CloseStore, GateInv, TypeOK
<1>3. TypeOK' /\ \A d \in Deciders : OpInv(d)'
  BY <1>1, <1>2, OpLost DEF GateInv, TypeOK, OpTypes
<1>4. \A e \in Calls : CallInv(e)'
  BY <1>1 DEF GateInv, CallInv, Untouched, Cleared, Explained
<1>5. QED
  BY <1>1, <1>3, <1>4 DEF GateInv

\* The server ends, alone or with its process: whoever it drops has an answer.
LEMMA ServerEndKeeps ==
  ASSUME GateInv, CloseServer \/ Kill
  PROVE  GateInv'
<1>1. PICK cs \in SUBSET (Calls \cup {NoCall}) :
        /\ In(queue) \subseteq cs /\ cs \subseteq In(queue) \cup {bridge.call}
        /\ reply' = Dropped(cs)
        /\ bridge' = bridge \/ (bridge' = IdleBridge /\ bridge.call \in cs)
  <2>1. Queued = In(queue) /\ In(queue) \subseteq Calls
    BY DEF Queued, In, GateInv, TypeOK
  <2>2. CASE CloseServer
    BY <2>1, <2>2 DEF CloseServer
  <2>3. CASE Kill
    <3>1. bridge.call \in Calls \cup {NoCall}
      BY DEF GateInv, TypeOK
    <3>2. QED
      BY <2>1, <2>3, <3>1 DEF Kill
  <2>4. QED
    BY <2>2, <2>3
<1>2. /\ UNCHANGED <<call, approval, receipts, cli>> /\ queue' = <<>>
      /\ session' \in {"closed", "killed"}
      /\ op' = op \/ op' = [op EXCEPT ![Stdin] = IdleOp]
  BY DEF CloseServer, Kill
<1>3. /\ reply' \in [Calls -> {"none", "allow", "deny", "eof"}]
      /\ \A c \in Calls : reply'[c] = IF c \in cs /\ reply[c] = "none" THEN "eof" ELSE reply[c]
  BY <1>1 DEF Dropped, GateInv, TypeOK
<1>4. /\ bridge' \in [pc : {"accept", "poll", "reply"}, call : Calls \cup {NoCall},
                      answer : {"allow", "deny"}]
      /\ bridge'.pc = "accept" <=> bridge'.call = NoCall
  BY <1>1 DEF IdleBridge, GateInv, TypeOK
<1>5. bridge' = bridge \/ (bridge'.pc = "accept" /\ bridge'.call = NoCall /\ bridge.call \in cs)
  BY <1>1 DEF IdleBridge
<1>6. TypeOK' /\ \A d \in Deciders : OpInv(d)'
  BY <1>2, <1>3, <1>4, EmptyQueue, OpLost DEF GateInv, TypeOK, OpTypes
<1>7. ASSUME NEW e \in Calls PROVE CallInv(e)'
  <2>1. e \notin In(queue') /\ NoCall # e
    BY <1>2, EmptyQueue, HookGateAssumption
  <2>2. call[e] = "unmade" => e \notin cs
    BY <1>1 DEF GateInv, CallInv, Untouched
  <2>3. QED
    BY <1>1, <1>2, <1>3, <1>5, <2>1, <2>2
       DEF GateInv, CallInv, Untouched, Cleared, Explained
<1>8. QED
  BY <1>2, <1>4, <1>6, <1>7, EmptyQueue DEF GateInv

-----------------------------------------------------------------------------
(***************************************************************************)
(* The theorems.                                                           *)
(***************************************************************************)
LEMMA GateInvariant == Spec => []GateInv
<1>1. ASSUME GateInv, UNCHANGED vars PROVE GateInv'
  <2>1. TypeOK' /\ \A d \in Deciders : OpInv(d)'
    BY <1>1 DEF vars, GateInv, TypeOK, OpInv
  <2>2. \A c \in Calls : CallInv(c)'
    BY <1>1 DEF vars, GateInv, CallInv, Untouched, Cleared, Explained
  <2>3. QED
    BY <1>1, <2>1, <2>2 DEF vars, GateInv
<1>2. GateInv /\ [Next]_vars => GateInv'
  BY <1>1, ConnectKeeps, ClientKeeps, AskKeeps, AnswerKeeps, ReplyKeeps, DecideKeeps,
     PutRecordKeeps, SessionKeeps, ServerEndKeeps DEF Next
<1>3. QED
  BY GateInit, <1>2, PTL DEF Spec

\* Type correctness.
THEOREM TypeCorrect == Spec => []TypeOK
<1>1. GateInv => TypeOK
  BY DEF GateInv
<1>2. QED
  BY <1>1, GateInvariant, PTL

\* A tool only runs when the receipt of an answer to its own call is stored: of
\* a resolution, or of an approval, which the record still shows or a receipt
\* of a denial contradicts.
THEOREM RunsAreExplained == Spec => []RanIsExplained
<1>1. GateInv => RanIsExplained
  BY DEF GateInv, CallInv, Cleared, Explained, RanIsExplained
<1>2. QED
  BY <1>1, GateInvariant, PTL

\* No client waits that the bridge and the queue have forgotten.
THEOREM NoWaitIsOrphaned == Spec => []NoOrphanWait
<1>1. GateInv => NoOrphanWait
  BY DEF GateInv, CallInv, NoOrphanWait, Queued, In
<1>2. QED
  BY <1>1, GateInvariant, PTL

-----------------------------------------------------------------------------
(***************************************************************************)
(* Turns.  With a queue without repetitions every waiting call has one     *)
(* place, and the steps left follow from the place and the bridge.         *)
(***************************************************************************)
LEMMA BusyIs ==
  ASSUME TypeOK
  PROVE  /\ bridge.pc = "accept" => Busy = 0
         /\ bridge.pc = "reply" => Busy = 1
         /\ bridge.pc = "poll" => Busy = 2
         /\ Busy \in 0 .. 2
BY DEF Busy, TypeOK

LEMMA PlaceOf ==
  ASSUME NEW q, NoRepeats(q), NEW i \in DOMAIN q, NEW c, q[i] = c
  PROVE  Place(q, c) = i
<1>1. Place(q, c) \in DOMAIN q /\ q[Place(q, c)] = c
  BY DEF Place
<1>2. QED
  BY <1>1 DEF NoRepeats

LEMMA LeftOfQueue ==
  ASSUME NoRepeats(queue), NEW c \in Calls
  PROVE  /\ \A i \in DOMAIN queue : queue[i] = c => StepsLeft(c) = 3 * i + Busy
         /\ c \notin Queued => StepsLeft(c) = IF bridge.call = c THEN Busy ELSE 0
<1>1. ASSUME NEW i \in DOMAIN queue, queue[i] = c PROVE StepsLeft(c) = 3 * i + Busy
  BY <1>1, PlaceOf DEF StepsLeft, Queued
<1>2. QED
  BY <1>1 DEF StepsLeft

LEMMA LeftOfNextQueue ==
  ASSUME NoRepeats(queue'), NEW c \in Calls
  PROVE  /\ \A i \in DOMAIN queue' : queue'[i] = c => StepsLeft(c)' = 3 * i + Busy'
         /\ c \notin Queued' => StepsLeft(c)' = IF bridge'.call = c THEN Busy' ELSE 0
<1>1. ASSUME NEW i \in DOMAIN queue', queue'[i] = c PROVE StepsLeft(c)' = 3 * i + Busy'
  <2>1. Place(queue', c) = i
    BY <1>1, PlaceOf
  <2>2. c \in Queued'
    BY <1>1 DEF Queued
  <2>3. QED
    BY <2>1, <2>2 DEF StepsLeft
<1>2. QED
  BY <1>1 DEF StepsLeft

\* What waits for an answer has one to come.
Awaits(c) == c \in Queued \/ bridge.call = c

Nears(c) ==
  /\ StepsLeft(c)' <= StepsLeft(c)
  /\ bridge' # bridge => StepsLeft(c)' < StepsLeft(c)
  /\ StepsLeft(c)' = 0 => reply'[c] # "none"

LEMMA AwaitsSome ==
  ASSUME GateInv, NEW c \in Calls, Awaits(c)
  PROVE  /\ StepsLeft(c) \in Nat \ {0}
         /\ \/ c \notin Queued /\ bridge.call = c /\ StepsLeft(c) = Busy
            \/ \E i \in DOMAIN queue : c = queue[i] /\ StepsLeft(c) = 3 * i + Busy
<1>1. TypeOK /\ DOMAIN queue \subseteq Nat \ {0}
  BY DEF GateInv, TypeOK
<1>2. CASE c \in Queued
  BY <1>1, <1>2, LeftOfQueue, BusyIs DEF Queued, GateInv
<1>3. CASE c \notin Queued
  <2>1. bridge.call = c /\ StepsLeft(c) = Busy
    BY <1>3, LeftOfQueue DEF Awaits, GateInv
  <2>2. bridge.pc # "accept"
    BY <2>1, HookGateAssumption DEF GateInv
  <2>3. Busy \in 1 .. 2
    BY <1>1, <2>2, BusyIs DEF TypeOK
  <2>4. QED
    BY <1>3, <2>1, <2>3
<1>4. QED
  BY <1>2, <1>3

LEMMA AskNears ==
  ASSUME GateInv, GateInv', Ask \/ AskFails, NEW c \in Calls, Awaits(c)
  PROVE  Nears(c)
<1>1. /\ bridge.pc = "accept" /\ queue \in Seq(Calls) /\ queue # <<>> /\ queue' = Tail(queue)
      /\ bridge'.call = Head(queue) /\ bridge'.pc \in {"poll", "reply"}
  <2>1. CASE Ask
    BY <2>1 DEF Ask, Accepts, GateInv, TypeOK
  <2>2. CASE AskFails
    <3>1. bridge' = [pc |-> "reply", call |-> Head(queue), answer |-> "deny"]
      BY <2>2 DEF AskFails
    <3>2. QED
      BY <2>2, <3>1 DEF AskFails, Accepts, GateInv, TypeOK
  <2>3. QED
    BY <2>1, <2>2
<1>2. Busy = 0 /\ Busy' \in 1 .. 2
  <2>1. Busy = 0
    BY <1>1, BusyIs DEF GateInv
  <2>2. Busy' = 1 \/ Busy' = 2
    BY <1>1 DEF Busy
  <2>3. QED
    BY <2>1, <2>2
<1>3. PICK i \in DOMAIN queue : c = queue[i] /\ StepsLeft(c) = 3 * i
  BY <1>1, <1>2, AwaitsSome, HookGateAssumption DEF GateInv
<1>4. CASE i = 1
  <2>1. c = Head(queue) /\ c \notin In(Tail(queue))
    BY <1>1, <1>3, <1>4, TailOfQueue DEF GateInv
  <2>2. c \in (Calls \ Queued)'
    BY <1>1, <2>1 DEF Queued, In
  <2>3. StepsLeft(c)' = Busy'
    BY <1>1, <2>1, <2>2 DEF StepsLeft, Queued
  <2>4. QED
    BY <1>2, <1>3, <1>4, <2>3 DEF Nears
<1>5. CASE i # 1
  <2>1. i - 1 \in DOMAIN queue' /\ queue'[i - 1] = c
    BY <1>1, <1>3, <1>5
  <2>2. StepsLeft(c)' = 3 * (i - 1) + Busy'
    BY <2>1, LeftOfNextQueue DEF GateInv
  <2>3. i \in Nat
    BY <1>1
  <2>4. QED
    BY <1>2, <1>3, <2>2, <2>3 DEF Nears
<1>6. QED
  BY <1>4, <1>5

LEMMA ServesNears ==
  ASSUME GateInv, GateInv', Lookup \/ GateTimeout \/ LookupFails \/ Reply,
         NEW c \in Calls, Awaits(c)
  PROVE  Nears(c)
<1>1. queue' = queue /\ Busy \in Nat /\ Busy' \in Nat /\ Busy' < Busy
  <2>1. CASE Lookup \/ GateTimeout \/ LookupFails
    <3>1. bridge.pc = "poll" /\ bridge'.pc = "reply" /\ queue' = queue
      BY <2>1 DEF Lookup, GateTimeout, LookupFails, Polls, Answer, GateInv, TypeOK
    <3>2. QED
      BY <3>1 DEF Busy
  <2>2. CASE Reply
    <3>1. bridge.pc = "reply" /\ bridge'.pc = "accept" /\ queue' = queue
      BY <2>2 DEF Reply, IdleBridge
    <3>2. QED
      BY <3>1 DEF Busy
  <2>3. QED
    BY <2>1, <2>2
<1>2. CASE \E i \in DOMAIN queue : c = queue[i] /\ StepsLeft(c) = 3 * i + Busy
  <2>1. PICK i \in DOMAIN queue : c = queue[i] /\ StepsLeft(c) = 3 * i + Busy
    BY <1>2
  <2>2. StepsLeft(c)' = 3 * i + Busy'
    BY <1>1, <2>1, LeftOfNextQueue DEF GateInv
  <2>3. i \in Nat \ {0}
    BY <2>1 DEF GateInv, TypeOK
  <2>4. QED
    BY <1>1, <2>1, <2>2, <2>3 DEF Nears
<1>3. CASE c \notin Queued /\ bridge.call = c /\ StepsLeft(c) = Busy
  <2>1. StepsLeft(c)' = IF bridge'.call = c THEN Busy' ELSE 0
    BY <1>1, <1>3, LeftOfNextQueue DEF GateInv, Queued
  <2>2. CASE Lookup \/ GateTimeout \/ LookupFails
    <3>1. bridge'.call = c /\ bridge'.pc = "reply"
      BY <1>3, <2>2 DEF Lookup, GateTimeout, LookupFails, Answer, GateInv, TypeOK
    <3>2. Busy' = 1
      BY <3>1 DEF Busy
    <3>3. QED
      BY <1>1, <1>3, <2>1, <3>1, <3>2 DEF Nears
  <2>3. CASE Reply
    <3>1. bridge'.call # c /\ reply'[c] # "none"
      BY <1>3, <2>3, HookGateAssumption DEF Reply, IdleBridge, GateInv, TypeOK
    <3>2. QED
      BY <1>1, <1>3, <2>1, <3>1 DEF Nears
  <2>4. QED
    BY <2>2, <2>3
<1>4. QED
  BY <1>2, <1>3, AwaitsSome

\* A queue that is dropped is answered by the end of its connections.
LEMMA ServerEndNears ==
  ASSUME GateInv, GateInv', CloseServer \/ Kill, NEW c \in Calls, Awaits(c)
  PROVE  Nears(c)
<1>1. queue' = <<>> /\ c \notin Queued'
  BY DEF CloseServer, Kill, Queued
<1>2. StepsLeft(c) \in Nat \ {0}
  BY AwaitsSome
<1>3. StepsLeft(c)' = IF bridge'.call = c THEN Busy' ELSE 0
  BY <1>1, LeftOfNextQueue DEF GateInv
<1>4. CASE c \in Queued \/ Kill
  <2>1. bridge'.call # c
    <3>1. CASE Kill
      BY <3>1, HookGateAssumption DEF Kill, IdleBridge
    <3>2. CASE CloseServer /\ c \in Queued
      <4>1. bridge.call # c
        BY <3>2 DEF GateInv, CallInv, Untouched, In, Queued
      <4>2. QED
        BY <3>2, <4>1 DEF CloseServer
    <3>3. QED
      BY <1>4, <3>1, <3>2
  <2>2. reply'[c] # "none"
    BY <1>4 DEF CloseServer, Kill, Dropped, Awaits, GateInv, TypeOK
  <2>3. QED
    BY <1>2, <1>3, <2>1, <2>2 DEF Nears
<1>5. CASE c \notin Queued /\ CloseServer
  <2>1. bridge' = bridge /\ bridge.call = c /\ Busy' = Busy
    BY <1>5 DEF CloseServer, Awaits, Busy
  <2>2. StepsLeft(c) = Busy
    BY <1>5, <2>1, LeftOfQueue DEF GateInv
  <2>3. QED
    BY <1>2, <1>3, <2>1, <2>2 DEF Nears
<1>6. QED
  BY <1>4, <1>5

LEMMA ConnectNears ==
  ASSUME GateInv, GateInv', NEW d \in Calls, Connect(d), NEW c \in Calls, Awaits(c)
  PROVE  Nears(c)
<1>1. queue \in Seq(Calls) /\ queue' = Append(queue, d) /\ bridge' = bridge /\ Busy' = Busy
  BY DEF Connect, GateInv, TypeOK, Busy
<1>2. StepsLeft(c) \in Nat \ {0}
  BY AwaitsSome
<1>3. StepsLeft(c)' = StepsLeft(c)
  <2>1. CASE \E i \in DOMAIN queue : c = queue[i] /\ StepsLeft(c) = 3 * i + Busy
    <3>1. PICK i \in DOMAIN queue : c = queue[i] /\ StepsLeft(c) = 3 * i + Busy
      BY <2>1
    <3>2. i \in DOMAIN queue' /\ queue'[i] = c
      BY <1>1, <3>1
    <3>3. QED
      BY <1>1, <3>1, <3>2, LeftOfNextQueue DEF GateInv
  <2>2. CASE c \notin Queued /\ bridge.call = c /\ StepsLeft(c) = Busy
    <3>1. c # d
      BY <2>2 DEF Connect, GateInv, CallInv, Untouched
    <3>2. c \notin Queued'
      BY <1>1, <2>2, <3>1, AppendToQueue DEF Queued, In
    <3>3. QED
      BY <1>1, <2>2, <3>2, LeftOfNextQueue DEF GateInv
  <2>3. QED
    BY <2>1, <2>2, AwaitsSome
<1>4. QED
  BY <1>1, <1>2, <1>3 DEF Nears

\* No call is overtaken, and every step of the bridge brings all that wait
\* nearer to their answers.
THEOREM TurnsAreKept == Spec => NearsItsAnswer
<1>1. ASSUME GateInv, GateInv', [Next]_vars, NEW c \in Calls, Awaits(c) PROVE Nears(c)
  <2>1. CASE UNCHANGED <<queue, bridge>>
    <3>1. StepsLeft(c)' = StepsLeft(c)
      BY <2>1 DEF StepsLeft, Queued, Busy
    <3>2. QED
      BY <1>1, <2>1, <3>1, AwaitsSome DEF Nears
  <2>2. QED
    BY <1>1, <2>1, AskNears, ServesNears, ServerEndNears, ConnectNears
       DEF Next, vars, hooks, ConnectFails, ClientTimeout, Receive, CliEnds, Decide, Resolve,
           Begins, PutReceipt, PutRecord, DecideFails, ReadClose, WorkerDone, Interrupt, CloseStore
<1>2. GateInv /\ GateInv' /\ [Next]_vars =>
        \A c \in Calls : c \in Queued \/ bridge.call = c =>
          /\ StepsLeft(c)' <= StepsLeft(c)
          /\ bridge' # bridge => StepsLeft(c)' < StepsLeft(c)
          /\ StepsLeft(c)' = 0 => reply'[c] # "none"
  BY <1>1 DEF Awaits, Nears
<1>3. QED
  BY <1>2, GateInvariant, PTL DEF Spec, NearsItsAnswer
=============================================================================
