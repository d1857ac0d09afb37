------------------------ MODULE Coordination_proofs ------------------------
(***************************************************************************)
(* Theorems about Coordination, for any number of processes, messages,     *)
(* handoffs and receipts.  The chain's own theorems carry over, because    *)
(* every step of Coordination is a step of the chain or leaves it alone;   *)
(* the mailbox and the consumption of handoffs have an invariant each,     *)
(* which a step of the other one cannot disturb.                           *)
(***************************************************************************)
EXTENDS Coordination, ReceiptChain_proofs

USE DEF NoHash

-----------------------------------------------------------------------------
(***************************************************************************)
(* The chain.                                                              *)
(***************************************************************************)
\* A put that is done has stored what it says, and all that is stored or was read
\* has been made.  This holds of a receipt that was never raced for, whatever
\* became of the others.
DoneInv ==
  /\ \A id \in Ids : store[id] # Absent => store[id].hash # NoHash
  /\ \A id \in Ids : HashesOf(store[id]) \subseteq 1 .. stamp
  /\ \A p \in Procs : HashesOf(writer[p].seen) \subseteq 1 .. stamp
  /\ \A p \in Procs : writer[p].pc = "done" =>
       /\ writer[p].id \in Stored
       /\ writer[p].id \notin raced => writer[p].hash \in HashesOf(store[writer[p].id])

ChainOK == ChainInv /\ DoneInv

LEMMA StepsOfTheChain == [Next]_vars => [ChainNext]_chainVars
<1>1. ASSUME NEW p \in Procs, Correspond(p) PROVE ChainNext
  BY <1>1, MailboxAssumption
     DEF Correspond, Send, SendStore, Receive, ReceiveStore, Abandon, Over, AvailableId, Taken,
         ChainNext
<1>2. ASSUME NEW p \in Consumers, Consume(p) PROVE [ChainNext]_chainVars
  BY <1>2, ConsumptionAssumption
     DEF Consume, Accept, Deny, Refuse, PutTask, PutRun, GiveUp, Done, ChainNext
<1>3. QED
  BY <1>1, <1>2 DEF Next, ChainNext, vars

LEMMA ChainIsDriven == Spec => ChainSpec
<1>1. Init => ChainInit
  BY DEF Init
<1>2. QED
  BY <1>1, StepsOfTheChain, PTL DEF Spec, ChainSpec

\* A store that only grows: receipts stay, and without a race for them their hashes.
Grows ==
  /\ Stored \subseteq Stored'
  /\ raced \subseteq raced'
  /\ \A id \in Ids \ raced' :
       /\ HashesOf(store[id]) \subseteq (HashesOf(store[id]))'
       /\ store'[id] = store[id] \/ store'[id].history = HashesOf(store[id])

LEMMA StoreGrows ==
  ASSUME ChainOK, [ChainNext]_chainVars
  PROVE  Grows
<1> USE DEF Grows
<1>1. CASE UNCHANGED <<store, raced>>
  BY <1>1, SameStore
<1>2. ASSUME NEW p \in Procs, Write(p) PROVE Grows
  <2>1. writer[p].hash # NoHash /\ writer[p].id \in Ids
    BY <1>2, ReceiptChainAssumption
       DEF Write, ChainOK, ChainInv, ChainTypeOK, WriterInv
  <2>2. /\ store'[writer[p].id].hash = writer[p].hash
        /\ store'[writer[p].id].history = Replaced(writer[p].seen)
        /\ \A id \in Ids \ {writer[p].id} : store'[id] = store[id]
    BY <1>2, <2>1 DEF Write, ChainOK, ChainInv, ChainTypeOK
  <2>3. Stored \subseteq Stored' /\ raced \subseteq raced'
    <3>1. raced \subseteq raced'
      BY <1>2 DEF Write
    <3>2. store'[writer[p].id] # Absent
      BY <2>1, <2>2 DEF Absent
    <3>3. QED
      BY <2>2, <3>1, <3>2 DEF Stored
  <2>4. ASSUME NEW id \in Ids \ raced'
        PROVE  /\ HashesOf(store[id]) \subseteq (HashesOf(store[id]))'
               /\ store'[id] = store[id] \/ store'[id].history = HashesOf(store[id])
    <3>1. CASE id # writer[p].id
      BY <2>2, <3>1
    <3>2. CASE id = writer[p].id
      <4>1. store[id] = writer[p].seen
        BY <1>2, <3>2 DEF Write
      <4>2. store'[id].history = HashesOf(store[id])
        BY <2>2, <3>2, <4>1 DEF Replaced
      <4>3. NoHash \notin HashesOf(store[id])
        BY DEF HashesOf
      <4>4. QED
        BY <4>2, <4>3 DEF HashesOf
    <3>3. QED
      BY <3>1, <3>2
  <2>5. QED
    BY <2>3, <2>4
<1>3. QED
  BY <1>1, <1>2
     DEF ChainNext, Putting, Begin, ReadExisting, ReadLatest, LatestFails, Leave, chainVars

LEMMA DoneStep ==
  ASSUME ChainOK, [ChainNext]_chainVars
  PROVE  ChainOK'
<1>0. stamp \in Int /\ stamp' \in Int /\ stamp <= stamp'
  <2>1. stamp \in Int
    BY ReceiptChainAssumption DEF ChainOK, ChainInv, ChainTypeOK
  <2>2. stamp' \in {stamp, stamp + 1}
    BY DEF ChainNext, Putting, Begin, ReadExisting, ReadLatest, LatestFails, Write, Leave,
           chainVars
  <2>3. QED
    BY <2>1, <2>2
<1>1. ChainInv'
  BY ChainStep DEF ChainOK
<1>2. ASSUME UNCHANGED <<store, raced>>,
             \A p \in Procs : writer'[p].pc = "done" => writer'[p] = writer[p],
             \A p \in Procs : HashesOf(writer'[p].seen) \subseteq 1 .. stamp
      PROVE  DoneInv'
  <2>1. \A id \in Ids : HashesOf(store'[id]) \subseteq 1 .. stamp'
    BY <1>0, <1>2 DEF ChainOK, DoneInv
  <2>2. \A p \in Procs : HashesOf(writer'[p].seen) \subseteq 1 .. stamp'
    BY <1>0, <1>2
  <2>3. QED
    BY <1>2, <2>1, <2>2, SameStore DEF ChainOK, DoneInv, HashesOf
<1>3. ASSUME NEW p \in Procs, \/ \E id \in Ids : Begin(p, id)
                              \/ ReadExisting(p) \/ ReadLatest(p) \/ LatestFails(p) \/ Leave(p)
      PROVE  DoneInv'
  <2>1. PICK pc \in {"idle", "read", "latest", "write", "failed"} :
          writer'[p].pc = pc /\ \A q \in Procs \ {p} : writer'[q] = writer[q]
    BY <1>3 DEF Begin, ReadExisting, ReadLatest, LatestFails, Leave, IdleWriter,
                ChainOK, ChainInv, ChainTypeOK
  <2>2. UNCHANGED <<store, raced>>
    BY <1>3 DEF Begin, ReadExisting, ReadLatest, LatestFails, Leave
  <2>3. writer'[p].seen \in {Absent, writer[p].seen} \cup {store[id] : id \in Ids}
    <3>1. writer[p].pc = "read" => writer[p].id \in Ids
      BY DEF ChainOK, ChainInv, WriterInv
    <3>2. QED
      BY <1>3, <3>1 DEF Begin, ReadExisting, ReadLatest, LatestFails, Leave, IdleWriter,
                        ChainOK, ChainInv, ChainTypeOK
  <2>4. HashesOf(writer'[p].seen) \subseteq 1 .. stamp
    BY <2>3, AbsentHashes DEF ChainOK, DoneInv
  <2>5. QED
    BY <1>2, <2>1, <2>2, <2>4 DEF ChainOK, DoneInv
<1>4. ASSUME NEW p \in Procs, Write(p) PROVE DoneInv'
  <2>1. writer[p].hash # NoHash /\ writer[p].id \in Ids
    BY <1>4, ReceiptChainAssumption
       DEF Write, ChainOK, ChainInv, ChainTypeOK, WriterInv
  <2>2. /\ store'[writer[p].id].hash = writer[p].hash
        /\ \A id \in Ids \ {writer[p].id} : store'[id] = store[id]
    BY <1>4, <2>1 DEF Write, ChainOK, ChainInv, ChainTypeOK
  <2>3. /\ writer'[p].id = writer[p].id /\ writer'[p].hash = writer[p].hash
        /\ \A q \in Procs \ {p} : writer'[q] = writer[q]
    BY <1>4 DEF Write, ChainOK, ChainInv, ChainTypeOK
  <2>4. /\ Stored \subseteq Stored' /\ raced \subseteq raced'
        /\ \A id \in Ids \ raced' : HashesOf(store[id]) \subseteq (HashesOf(store[id]))'
    BY StoreGrows DEF Grows
  <2>5. \A id \in Ids : store'[id] # Absent => store'[id].hash # NoHash
    BY <2>1, <2>2 DEF ChainOK, DoneInv
  <2>6. writer[p].id \in Stored' /\ writer[p].hash \in (HashesOf(store[writer[p].id]))'
    BY <2>1, <2>2, <2>3 DEF Stored, Absent, HashesOf
  <2>7. ASSUME NEW q \in Procs \ {p}, writer[q].pc = "done"
        PROVE  /\ writer[q].id \in Stored'
               /\ writer[q].id \notin raced' =>
                    writer[q].hash \in (HashesOf(store[writer[q].id]))'
    BY <2>3, <2>4, <2>7 DEF ChainOK, DoneInv, Stored
  <2>8. writer[p].hash \in 1 .. stamp /\ stamp' = stamp
    BY <1>4 DEF Write, ChainOK, ChainInv, WriterInv
  <2>9. /\ store'[writer[p].id].history = HashesOf(writer[p].seen)
        /\ writer'[p].seen = Absent
    BY <1>4, <2>1 DEF Write, Replaced, ChainOK, ChainInv, ChainTypeOK
  <2>10. \A id \in Ids : HashesOf(store'[id]) \subseteq 1 .. stamp'
    <3>1. HashesOf(store'[writer[p].id]) \subseteq {writer[p].hash} \cup HashesOf(writer[p].seen)
      BY <2>2, <2>9 DEF HashesOf
    <3>2. QED
      BY <2>2, <2>8, <3>1 DEF ChainOK, DoneInv
  <2>11. \A q \in Procs : HashesOf(writer'[q].seen) \subseteq 1 .. stamp'
    BY <2>3, <2>8, <2>9, AbsentHashes DEF ChainOK, DoneInv
  <2>12. writer'[p].id \in Stored' /\ writer'[p].hash \in (HashesOf(store[writer[p].id]))'
    BY <2>3, <2>6
  <2>13. QED
    BY <2>3, <2>5, <2>7, <2>10, <2>11, <2>12 DEF DoneInv, HashesOf
<1>5. CASE UNCHANGED chainVars
  BY <1>1, <1>2, <1>5 DEF chainVars, ChainOK, DoneInv
<1>6. QED
  BY <1>1, <1>3, <1>4, <1>5 DEF ChainOK, ChainNext, Putting

LEMMA ChainOKInitially == ChainInit => ChainOK
BY ChainInitial, AbsentHashes DEF ChainInit, ChainOK, DoneInv, IdleWriter

-----------------------------------------------------------------------------
(***************************************************************************)
(* The mailbox.                                                            *)
(***************************************************************************)
SendId(m) == <<"send", m>>

MessageTypes == [status : {"none", "sent", "received"}, body : 0 .. MaxStamp,
                 receipts : SUBSET Ids]
OpTypes == [does : {"nothing", "send", "receive"}, id : Messages \cup {0},
            seen : MessageTypes]

\* An operation under way is the one its process puts a receipt for; a message
\* that was read had the receipts it named, and is still there.
OpInv(p) ==
  /\ op[p].does # "nothing" =>
       /\ op[p].id \in Messages
       /\ writer[p].pc # "idle"
       /\ writer[p].id = <<op[p].does, op[p].id>>
  /\ op[p].does = "receive" =>
       /\ op[p].id \in Taken
       /\ op[p].seen.receipts \subseteq Stored
       /\ SendId(op[p].id) \in op[p].seen.receipts

\* As long as the send receipt of m was put once, all that is known of m is
\* what that one send said, and its message has not been stored twice.
OneSend(m) ==
  SendId(m) \notin raced /\ store[SendId(m)].history = {} =>
    /\ m \in Taken => message[m].body = store[SendId(m)].hash
    /\ \A p \in Procs :
         /\ op[p].does = "receive" /\ op[p].id = m =>
              op[p].seen.body = store[SendId(m)].hash
         /\ op[p].does = "send" /\ op[p].id = m /\ writer[p].pc = "done" =>
              m \notin Taken /\ writer[p].hash = store[SendId(m)].hash

MailInv ==
  /\ message \in [Messages -> MessageTypes] /\ op \in [Procs -> OpTypes]
  /\ \A p \in Procs : OpInv(p)
  /\ MessagesReceipted
  /\ \A m \in Messages : OneSend(m)

LEMMA NoMessageType == NoMessage \in MessageTypes /\ NoMessage.status = "none"
BY ReceiptChainAssumption DEF NoMessage, MessageTypes

LEMMA IdleOpType == IdleOp \in OpTypes /\ IdleOp.does = "nothing"
BY NoMessageType DEF IdleOp, OpTypes

LEMMA MailInitially == MailInit => MailInv
<1> SUFFICES ASSUME MailInit PROVE MailInv
  OBVIOUS
<1>1. message \in [Messages -> MessageTypes] /\ op \in [Procs -> OpTypes]
  BY NoMessageType, IdleOpType DEF MailInit
<1>2. Taken = {} /\ \A p \in Procs : op[p].does = "nothing"
  BY IdleOpType DEF MailInit, Taken
<1>3. QED
  BY <1>1, <1>2 DEF MailInv, OpInv, OneSend, MessagesReceipted

\* A step that is not of the mailbox: the puts of busy processes go on.
LEMMA MailFrame ==
  ASSUME ChainOK, MailInv, UNCHANGED mail, UNCHANGED <<store, raced>>,
         \A p \in Procs : op[p].does # "nothing" =>
           /\ writer'[p].pc # "idle" /\ writer'[p].id = writer[p].id
           /\ writer'[p].hash = writer[p].hash
           /\ writer'[p].pc = "done" => writer[p].pc = "done"
  PROVE  MailInv'
<1>1. Stored' = Stored /\ Taken' = Taken
  BY SameStore DEF Taken, mail
<1>2. \A p \in Procs : OpInv(p)'
  BY <1>1 DEF MailInv, OpInv, mail
<1>3. \A m \in Messages : OneSend(m)'
  BY <1>1 DEF MailInv, OneSend, mail
<1>4. MessagesReceipted'
  BY <1>1 DEF MailInv, MessagesReceipted, mail
<1>5. QED
  BY <1>2, <1>3, <1>4 DEF MailInv, mail

\* The write of a put.  Only the first version of a receipt has no history, and
\* nobody knew anything of it.
LEMMA MailWrite ==
  ASSUME ChainOK, MailInv, UNCHANGED mail, NEW p \in Procs, Write(p)
  PROVE  MailInv'
<1> DEFINE w == writer[p]
<1>1. ChainNext
  BY DEF ChainNext, Putting
<1>2. Grows /\ Taken' = Taken
  BY <1>1, StoreGrows DEF Taken, mail
<1>3. /\ writer'[p].pc = "done" /\ writer'[p].id = w.id /\ writer'[p].hash = w.hash
      /\ \A q \in Procs \ {p} : writer'[q] = writer[q]
  BY DEF Write, ChainOK, ChainInv, ChainTypeOK
<1>4. /\ w.id \in Ids /\ w.pc # "idle"
      /\ store'[w.id].hash = w.hash /\ store'[w.id].history = Replaced(w.seen)
      /\ \A id \in Ids \ {w.id} : store'[id] = store[id]
      /\ raced' = raced \cup {id \in {w.id} : store[id] # w.seen}
  BY DEF Write, ChainOK, ChainInv, ChainTypeOK, WriterInv
<1> HIDE DEF w
<1>5. \A q \in Procs : OpInv(q)'
  BY <1>2, <1>3, <1>4 DEF MailInv, OpInv, Grows, mail, w
<1>6. MessagesReceipted'
  BY <1>2 DEF MailInv, MessagesReceipted, Grows, mail
<1>7. ASSUME NEW m \in Messages PROVE OneSend(m)'
  <2>1. SendId(m) \in Ids
    BY MailboxAssumption DEF SendId
  <2>2. CASE SendId(m) # w.id
    <3>1. store'[SendId(m)] = store[SendId(m)]
      BY <1>4, <2>1, <2>2
    <3>2. \A q \in Procs : op[q].does = "send" /\ op[q].id = m => writer'[q] = writer[q]
      BY <1>3, <2>2 DEF MailInv, OpInv, SendId, w
    <3>3. QED
      BY <1>2, <1>4, <3>1, <3>2 DEF MailInv, OneSend, mail
  <2>3. CASE SendId(m) = w.id
    <3> SUFFICES ASSUME w.id \notin raced', store'[w.id].history = {}
                 PROVE  OneSend(m)'
      BY <2>3 DEF OneSend
    <3>1. w.id \notin Stored
      <4>1. HashesOf(store[w.id]) = {}
        BY <1>4 DEF Replaced
      <4>2. store[w.id] # Absent => store[w.id].hash # NoHash
        BY <1>4 DEF ChainOK, DoneInv
      <4>3. QED
        BY <4>1, <4>2 DEF HashesOf, Stored
    <3>2. m \notin Taken
      BY <2>3, <3>1 DEF MailInv, MessagesReceipted, SendId
    <3>3. \A q \in Procs : ~(op[q].does = "receive" /\ op[q].id = m)
      BY <3>2 DEF MailInv, OpInv
    <3>4. ASSUME NEW q \in Procs, op[q].does = "send", op[q].id = m, writer'[q].pc = "done"
          PROVE  q = p
      <4>1. writer[q].id = w.id
        BY <2>3, <3>4 DEF MailInv, OpInv, SendId
      <4>2. QED
        BY <1>3, <3>1, <3>4, <4>1 DEF ChainOK, DoneInv
    <3>5. QED
      BY <1>2, <1>3, <1>4, <2>3, <3>2, <3>3, <3>4 DEF OneSend, mail
  <2>4. QED
    BY <2>2, <2>3
<1>8. QED
  BY <1>5, <1>6, <1>7 DEF MailInv, mail

\* A read of a put.
LEMMA MailRead ==
  ASSUME ChainOK, MailInv, UNCHANGED mail, NEW p \in Procs,
         ReadExisting(p) \/ ReadLatest(p) \/ LatestFails(p)
  PROVE  MailInv'
<1>1. /\ writer'[p].id = writer[p].id /\ writer'[p].hash = writer[p].hash
      /\ writer'[p].pc \in {"latest", "write", "failed"}
      /\ \A q \in Procs \ {p} : writer'[q] = writer[q]
  <2>1. writer \in [Procs -> Writers]
    BY DEF ChainOK, ChainInv, ChainTypeOK, Writers, Pcs
  <2>2. CASE ReadExisting(p)
    BY <2>1, <2>2 DEF ReadExisting, Writers
  <2>3. CASE ReadLatest(p)
    BY <2>1, <2>3 DEF ReadLatest, Writers
  <2>4. CASE LatestFails(p)
    BY <2>1, <2>4 DEF LatestFails, Writers
  <2>5. QED
    BY <2>2, <2>3, <2>4
<1>2. UNCHANGED <<store, raced>>
  BY DEF ReadExisting, ReadLatest, LatestFails
<1>3. QED
  BY <1>1, <1>2, MailFrame DEF MailInv, OpInv

\* The start of an operation: its process was idle.
LEMMA MailBegins ==
  ASSUME ChainOK, MailInv, NEW p \in Procs, Send(p) \/ Receive(p)
  PROVE  MailInv'
<1>1. PICK m \in Messages, o \in OpTypes :
        /\ op' = [op EXCEPT ![p] = o] /\ o.id = m
        /\ o.does \in {"send", "receive"} /\ Begin(p, <<o.does, m>>)
        /\ o.does = "receive" => m \in Taken /\ o.seen = message[m]
  <2>1. CASE Send(p)
    <3>1. PICK m \in Messages :
            /\ op' = [op EXCEPT ![p] = [does |-> "send", id |-> m, seen |-> NoMessage]]
            /\ Begin(p, <<"send", m>>)
      BY <2>1 DEF Send, AvailableId
    <3>2. [does |-> "send", id |-> m, seen |-> NoMessage] \in OpTypes
      BY NoMessageType DEF OpTypes
    <3>3. QED
      BY <3>1, <3>2
  <2>2. CASE Receive(p)
    <3>1. PICK m \in Taken :
            /\ op' = [op EXCEPT ![p] = [does |-> "receive", id |-> m, seen |-> message[m]]]
            /\ Begin(p, <<"receive", m>>)
      BY <2>2 DEF Receive
    <3>2. m \in Messages /\ message[m] \in MessageTypes
      BY DEF Taken, MailInv
    <3>3. [does |-> "receive", id |-> m, seen |-> message[m]] \in OpTypes
      BY <3>2 DEF OpTypes
    <3>4. QED
      BY <3>1, <3>2, <3>3
  <2>3. QED
    BY <2>1, <2>2
<1>2. /\ UNCHANGED <<message, store, raced>>
      /\ writer'[p].pc = "read" /\ writer'[p].id = <<o.does, m>>
      /\ \A q \in Procs \ {p} : writer'[q] = writer[q]
  BY <1>1 DEF Send, Receive, Begin, ChainOK, ChainInv, ChainTypeOK
<1>3. /\ op' \in [Procs -> OpTypes] /\ op'[p] = o
      /\ \A q \in Procs \ {p} : op'[q] = op[q]
  BY <1>1 DEF MailInv
<1>4. Stored' = Stored /\ Taken' = Taken
  BY <1>2, SameStore DEF Taken
<1>5. MessagesReceipted'
  BY <1>2, <1>4 DEF MailInv, MessagesReceipted
<1>6. ASSUME NEW q \in Procs PROVE OpInv(q)'
  <2>1. CASE q = p
    BY <1>1, <1>2, <1>3, <1>4, <2>1 DEF OpInv, MailInv, MessagesReceipted, SendId
  <2>2. CASE q # p
    BY <1>2, <1>3, <1>4, <2>2 DEF OpInv, MailInv
  <2>3. QED
    BY <2>1, <2>2
<1>7. ASSUME NEW n \in Messages PROVE OneSend(n)'
  <2>1. OneSend(n)
    BY DEF MailInv
  <2>2. ASSUME SendId(n) \notin raced, store[SendId(n)].history = {}, NEW q \in Procs
        PROVE  /\ op'[q].does = "receive" /\ op'[q].id = n =>
                    op'[q].seen.body = store[SendId(n)].hash
               /\ op'[q].does = "send" /\ op'[q].id = n /\ writer'[q].pc = "done" =>
                    n \notin Taken /\ writer'[q].hash = store[SendId(n)].hash
    <3>1. CASE q = p
      BY <1>1, <1>2, <1>3, <2>1, <2>2, <3>1 DEF OneSend
    <3>2. CASE q # p
      BY <1>2, <1>3, <2>1, <2>2, <3>2 DEF OneSend
    <3>3. QED
      BY <3>1, <3>2
  <2>3. QED
    BY <1>2, <1>4, <2>1, <2>2 DEF OneSend
<1>8. QED
  BY <1>2, <1>3, <1>5, <1>6, <1>7 DEF MailInv

\* The end of an operation.
LEMMA OverIdles ==
  ASSUME ChainOK, MailInv, NEW p \in Procs, Over(p)
  PROVE  /\ op' \in [Procs -> OpTypes] /\ op'[p].does = "nothing"
         /\ \A q \in Procs \ {p} : op'[q] = op[q] /\ writer'[q] = writer[q]
         /\ UNCHANGED <<store, raced>> /\ Stored' = Stored
BY IdleOpType, SameStore DEF Over, Leave, MailInv, ChainOK, ChainInv, ChainTypeOK

\* The end of an operation that stores v as its message.
LEMMA MailStores ==
  ASSUME ChainOK, MailInv, NEW p \in Procs, Over(p), op[p].does # "nothing",
         NEW v \in MessageTypes,
         message' = [message EXCEPT ![op[p].id] = v],
         v.status # "none",
         v.receipts \subseteq Stored, SendId(op[p].id) \in v.receipts,
         v.status = "received" => <<"receive", op[p].id>> \in v.receipts,
         SendId(op[p].id) \notin raced /\ store[SendId(op[p].id)].history = {} =>
           /\ v.body = store[SendId(op[p].id)].hash
           /\ \A q \in Procs \ {p} :
                ~(op[q].does = "send" /\ op[q].id = op[p].id /\ writer[q].pc = "done")
  PROVE  MailInv'
<1> DEFINE m == op[p].id
<1>1. m \in Messages
  BY DEF MailInv, OpInv
<1>2. /\ message' \in [Messages -> MessageTypes] /\ message'[m] = v
      /\ \A n \in Messages \ {m} : message'[n] = message[n]
  BY <1>1 DEF MailInv
<1>3. v # NoMessage
  BY NoMessageType
<1> HIDE DEF m
<1>4. Taken' = Taken \cup {m}
  BY <1>1, <1>2, <1>3 DEF Taken
<1>5. /\ op' \in [Procs -> OpTypes] /\ op'[p].does = "nothing"
      /\ \A q \in Procs \ {p} : op'[q] = op[q] /\ writer'[q] = writer[q]
      /\ UNCHANGED <<store, raced>> /\ Stored' = Stored
  BY OverIdles
<1>6. \A q \in Procs : OpInv(q)'
  BY <1>4, <1>5 DEF MailInv, OpInv
<1>7. MessagesReceipted'
  <2>1. \A n \in Taken \ {m} : n \in Messages
    BY DEF Taken
  <2>2. QED
    BY <1>2, <1>4, <1>5, <2>1 DEF MailInv, MessagesReceipted, SendId, m
<1>8. ASSUME NEW n \in Messages PROVE OneSend(n)'
  <2>1. CASE n = m
    BY <1>2, <1>5, <2>1 DEF MailInv, OneSend, m
  <2>2. CASE n # m
    BY <1>2, <1>4, <1>5, <2>2 DEF MailInv, OneSend
  <2>3. QED
    BY <2>1, <2>2
<1>9. QED
  BY <1>2, <1>5, <1>6, <1>7, <1>8 DEF MailInv

LEMMA MailSendStore ==
  ASSUME ChainOK, MailInv, NEW p \in Procs, SendStore(p)
  PROVE  MailInv'
<1> DEFINE m == op[p].id
           v == [status |-> "sent", body |-> writer[p].hash, receipts |-> {<<"send", m>>}]
<1>1. m \in Messages /\ writer[p].id = SendId(m) /\ writer[p].pc = "done"
  BY DEF SendStore, MailInv, OpInv, SendId
<1>2. SendId(m) \in Ids /\ SendId(m) \in Stored
  BY <1>1, MailboxAssumption DEF ChainOK, DoneInv, SendId
<1>3. v \in MessageTypes
  BY <1>2 DEF MessageTypes, SendId, ChainOK, ChainInv, ChainTypeOK
<1>4. SendId(m) \notin raced /\ store[SendId(m)].history = {} =>
        /\ writer[p].hash = store[SendId(m)].hash
        /\ \A q \in Procs \ {p} :
             ~(op[q].does = "send" /\ op[q].id = m /\ writer[q].pc = "done")
  BY <1>1 DEF SendStore, MailInv, OneSend, ChainOK, ChainInv, WriterInv
<1>5. v.status = "sent" /\ v.body = writer[p].hash /\ v.receipts = {SendId(m)}
  BY DEF SendId
<1>6. message' = [message EXCEPT ![m] = v] /\ Over(p) /\ op[p].does # "nothing"
  BY DEF SendStore
<1> HIDE DEF v
<1>7. QED
  BY <1>2, <1>3, <1>4, <1>5, <1>6, MailStores

LEMMA MailReceiveStore ==
  ASSUME ChainOK, MailInv, NEW p \in Procs, ReceiveStore(p)
  PROVE  MailInv'
<1> DEFINE m == op[p].id
           s == op[p].seen
           v == [s EXCEPT !.status = "received", !.receipts = s.receipts \cup {<<"receive", m>>}]
<1>1. /\ op[p].does = "receive" /\ writer[p].pc = "done" /\ writer[p].id = <<"receive", m>>
      /\ m \in Messages /\ m \in Taken /\ s.receipts \subseteq Stored
      /\ SendId(m) \in s.receipts /\ s \in MessageTypes
  BY DEF ReceiveStore, MailInv, OpInv, OpTypes
<1>2. <<"receive", m>> \in Ids /\ <<"receive", m>> \in Stored
  BY <1>1, MailboxAssumption DEF ChainOK, DoneInv
<1>3. /\ v \in MessageTypes /\ v.status = "received" /\ v.body = s.body
      /\ v.receipts = s.receipts \cup {<<"receive", m>>}
  <2> HIDE DEF m, s
  <2>1. QED
    BY <1>1, <1>2 DEF MessageTypes
<1>4. SendId(m) \notin raced /\ store[SendId(m)].history = {} =>
        /\ s.body = store[SendId(m)].hash
        /\ \A q \in Procs \ {p} :
             ~(op[q].does = "send" /\ op[q].id = m /\ writer[q].pc = "done")
  BY <1>1 DEF MailInv, OneSend
<1>5. message' = [message EXCEPT ![m] = v] /\ Over(p) /\ op[p].does # "nothing"
  BY <1>1 DEF ReceiveStore
<1> HIDE DEF v
<1>6. QED
  BY <1>1, <1>2, <1>3, <1>4, <1>5, MailStores

LEMMA MailAbandon ==
  ASSUME ChainOK, MailInv, NEW p \in Procs, Abandon(p)
  PROVE  MailInv'
<1>1. /\ op' \in [Procs -> OpTypes] /\ op'[p].does = "nothing"
      /\ \A q \in Procs \ {p} : op'[q] = op[q] /\ writer'[q] = writer[q]
      /\ UNCHANGED <<store, raced, message>> /\ Stored' = Stored
  BY OverIdles DEF Abandon
<1>2. Taken' = Taken
  BY <1>1 DEF Taken
<1>3. \A q \in Procs : OpInv(q)'
  BY <1>1, <1>2 DEF MailInv, OpInv
<1>4. MessagesReceipted' /\ \A m \in Messages : OneSend(m)'
  BY <1>1, <1>2 DEF MailInv, MessagesReceipted, OneSend
<1>5. QED
  BY <1>1, <1>3, <1>4 DEF MailInv

-----------------------------------------------------------------------------
(***************************************************************************)
(* The consumption of handoffs.                                            *)
(***************************************************************************)
PassedId(h) == <<"passed", h>>

Consumptions == [pc : {"idle", "denied", "passed", "run"}, handoff : Handoffs \cup {0},
                 who : Identities \cup {NoOne}]

\* A consumption under way is the one its process puts a receipt for, and that
\* receipt accepts the identity the process is about to store.
ConInv(p) ==
  consumer[p].pc # "idle" =>
    /\ consumer[p].handoff \in Handoffs
    /\ writer[p].pc # "idle"
    /\ consumer[p].pc = "denied" => writer[p].id = <<"denied", consumer[p].handoff>>
    /\ consumer[p].pc # "denied" =>
         /\ writer[p].id = PassedId(consumer[p].handoff)
         /\ consumer[p].who \in Identities
         /\ named[writer[p].hash] = consumer[p].who
    /\ consumer[p].pc = "run" => writer[p].pc = "done"

\* A process that has stored the task and not yet the run.
Between(p, h) == consumer[p].pc = "run" /\ consumer[p].handoff = h

\* Unless h is torn, one process at a time consumes it, and the task and the
\* run differ only while that process is between the two.
AgreeInv(h) ==
  h \notin torn =>
    /\ \A p, q \in Consumers : Consuming(p, h) /\ Consuming(q, h) => p = q
    /\ \A p \in Consumers : Between(p, h) => work[h].task = consumer[p].who
    /\ (\A p \in Consumers : ~Between(p, h)) => work[h].task = work[h].run

ConsumptionInv ==
  /\ ConsumptionTypeOK
  /\ \A p \in Consumers : ConInv(p)
  /\ \A h \in Handoffs : AgreeInv(h)
  /\ AssignmentReceipted

LEMMA ConsumptionInitially == ConsumptionInit => ConsumptionInv
<1> SUFFICES ASSUME ConsumptionInit PROVE ConsumptionInv
  OBVIOUS
<1>1. \A p \in Consumers : consumer[p].pc = "idle"
  BY DEF ConsumptionInit, IdleConsumer
<1>2. \A h \in Handoffs : work[h].task = NoOne /\ work[h].run = NoOne
  BY DEF ConsumptionInit, NoWork
<1>3. ConsumptionTypeOK
  BY DEF ConsumptionInit, ConsumptionTypeOK, NoWork, IdleConsumer
<1>4. \A h \in Handoffs : AgreeInv(h)
  BY <1>1, <1>2 DEF AgreeInv, Consuming, Between
<1>5. AssignmentReceipted
  BY <1>2 DEF AssignmentReceipted
<1>6. QED
  BY <1>1, <1>3, <1>4, <1>5 DEF ConsumptionInv, ConInv

\* The hashes of an acceptance stay, with the identity they name.
LEMMA ReceiptedStays ==
  ASSUME ChainOK, ConsumptionInv, Grows,
         \A s \in 1 .. stamp : named'[s] = named[s]
  PROVE  \A h \in Handoffs : PassedId(h) \notin raced' =>
           /\ \A v \in HashesOf(store[PassedId(h)]) :
                v \in (HashesOf(store[PassedId(h)]))' /\ named'[v] = named[v]
           /\ \A who \in {work[h].task, work[h].run} \ {NoOne} :
                \E v \in (HashesOf(store[PassedId(h)]))' : named'[v] = who
<1> SUFFICES ASSUME NEW h \in Handoffs, PassedId(h) \notin raced'
             PROVE  /\ \A v \in HashesOf(store[PassedId(h)]) :
                         v \in (HashesOf(store[PassedId(h)]))' /\ named'[v] = named[v]
                    /\ \A who \in {work[h].task, work[h].run} \ {NoOne} :
                         \E v \in (HashesOf(store[PassedId(h)]))' : named'[v] = who
  OBVIOUS
<1>1. PassedId(h) \in Ids
  BY ConsumptionAssumption DEF PassedId
<1>2. /\ HashesOf(store[PassedId(h)]) \subseteq (HashesOf(store[PassedId(h)]))'
      /\ PassedId(h) \notin raced
  BY <1>1 DEF Grows
<1>3. HashesOf(store[PassedId(h)]) \subseteq 1 .. stamp
  BY <1>1 DEF ChainOK, DoneInv
<1>4. \A who \in {work[h].task, work[h].run} \ {NoOne} :
        \E v \in HashesOf(store[PassedId(h)]) : named[v] = who
  BY <1>2 DEF ConsumptionInv, AssignmentReceipted, PassedId
<1>5. QED
  BY <1>2, <1>3, <1>4

\* A step that is not of a consumption: the puts of busy consumers go on.
LEMMA ConsumptionFrame ==
  ASSUME ChainOK, ConsumptionInv, UNCHANGED consumption, Grows,
         \A p \in Consumers : consumer[p].pc # "idle" =>
           /\ writer'[p].pc # "idle" /\ writer'[p].id = writer[p].id
           /\ writer'[p].hash = writer[p].hash
           /\ writer[p].pc = "done" => writer'[p].pc = "done"
  PROVE  ConsumptionInv'
<1>1. \A p \in Consumers : ConInv(p)'
  BY DEF ConsumptionInv, ConInv, consumption
<1>2. \A h \in Handoffs : AgreeInv(h)'
  BY DEF ConsumptionInv, AgreeInv, Consuming, Between, consumption
<1>3. AssignmentReceipted'
  BY ReceiptedStays DEF AssignmentReceipted, PassedId, consumption
<1>4. QED
  BY <1>1, <1>2, <1>3 DEF ConsumptionInv, ConsumptionTypeOK, consumption

\* The busy writer of a consumer is not that of a mailbox operation.
LEMMA OneThingAtATime ==
  ASSUME MailInv, ConsumptionInv, NEW p \in Consumers
  PROVE  /\ consumer[p].pc # "idle" => op[p].does = "nothing"
         /\ writer[p].pc = "idle" => consumer[p].pc = "idle" /\ op[p].does = "nothing"
<1>1. p \in Procs /\ consumer[p] \in Consumptions /\ op[p] \in OpTypes
  BY ConsumptionAssumption DEF MailInv, ConsumptionInv, ConsumptionTypeOK, Consumptions
<1>2. OpInv(p) /\ ConInv(p)
  BY <1>1 DEF MailInv, ConsumptionInv
<1>3. QED
  BY <1>1, <1>2 DEF OpInv, ConInv, PassedId, OpTypes, Consumptions

\* A step of a consumer leaves the mailbox alone.
LEMMA MailOfOthers ==
  ASSUME ChainOK, MailInv, UNCHANGED mail, NEW p \in Consumers, op[p].does = "nothing",
         \A q \in Procs \ {p} : writer'[q] = writer[q], UNCHANGED <<store, raced>>
  PROVE  MailInv'
<1>1. \A q \in Procs : op[q].does # "nothing" => writer[q].pc # "idle" /\ writer'[q] = writer[q]
  BY DEF MailInv, OpInv
<1>2. QED
  BY <1>1, MailFrame

\* A step of one consumer p, to c.
LEMMA ConsumerMoves ==
  ASSUME ChainOK, ConsumptionInv, NEW p \in Consumers, NEW c \in Consumptions,
         consumer' = [consumer EXCEPT ![p] = c],
         \A q \in Procs \ {p} : writer'[q] = writer[q],
         \A s \in 1 .. stamp : named'[s] = named[s],
         c.pc # "idle" =>
           /\ c.handoff \in Handoffs
           /\ writer'[p].pc # "idle"
           /\ c.pc = "denied" => writer'[p].id = <<"denied", c.handoff>>
           /\ c.pc # "denied" =>
                /\ writer'[p].id = PassedId(c.handoff)
                /\ c.who \in Identities
                /\ named'[writer'[p].hash] = c.who
           /\ c.pc = "run" => writer'[p].pc = "done"
  PROVE  /\ consumer' \in [Consumers -> Consumptions] /\ consumer'[p] = c
         /\ \A q \in Consumers \ {p} : consumer'[q] = consumer[q]
         /\ \A q \in Consumers : ConInv(q)'
<1>1. /\ consumer' \in [Consumers -> Consumptions] /\ consumer'[p] = c
      /\ \A q \in Consumers \ {p} : consumer'[q] = consumer[q]
  BY DEF ConsumptionInv, ConsumptionTypeOK, Consumptions
<1>2. ASSUME NEW q \in Consumers PROVE ConInv(q)'
  <2>1. CASE q = p
    BY <1>1, <2>1 DEF ConInv
  <2>2. CASE q # p
    <3>1. q \in Procs /\ WriterInv(q) /\ ConInv(q)
      BY ConsumptionAssumption DEF ChainOK, ChainInv, ConsumptionInv
    <3>2. writer'[q] = writer[q] /\ consumer'[q] = consumer[q]
      BY <1>1, <2>2, <3>1
    <3>3. QED
      BY <3>1, <3>2 DEF ConInv, WriterInv
  <2>3. QED
    BY <2>1, <2>2
<1>3. QED
  BY <1>1, <1>2

\* The start of a put by p.
LEMMA PutBegins ==
  ASSUME ChainOK, NEW p \in Procs, NEW id \in Ids, Begin(p, id)
  PROVE  /\ writer[p].pc = "idle" /\ writer'[p].pc = "read"
         /\ writer'[p].id = id /\ writer'[p].hash = stamp + 1
         /\ \A q \in Procs \ {p} : writer'[q] = writer[q]
         /\ UNCHANGED <<store, raced>> /\ Grows
         /\ stamp + 1 \in Stamps /\ \A s \in 1 .. stamp : s \in Stamps /\ s # stamp + 1
<1>1. Grows
  <2>1. ChainNext
    BY DEF ChainNext
  <2>2. QED
    BY <2>1, StoreGrows
<1>2. stamp \in 0 .. MaxStamp /\ stamp < MaxStamp
  BY DEF Begin, ChainOK, ChainInv, ChainTypeOK
<1>3. stamp + 1 \in Stamps /\ \A s \in 1 .. stamp : s \in Stamps /\ s # stamp + 1
  BY <1>2, ReceiptChainAssumption DEF Stamps
<1>4. QED
  BY <1>1, <1>3 DEF Begin, ChainOK, ChainInv, ChainTypeOK

LEMMA AcceptKeeps ==
  ASSUME ChainOK, MailInv, ConsumptionInv, UNCHANGED mail, NEW p \in Consumers, Accept(p)
  PROVE  MailInv' /\ ConsumptionInv'
<1>0. p \in Procs
  BY ConsumptionAssumption
<1>1. PICK h \in Handoffs, who \in Identities :
        /\ Begin(p, PassedId(h))
        /\ named' = [named EXCEPT ![stamp + 1] = who]
        /\ consumer' = [consumer EXCEPT ![p] = [pc |-> "passed", handoff |-> h, who |-> who]]
        /\ UNCHANGED work
        /\ torn' = torn \cup {g \in {h} : \E q \in Consumers : Consuming(q, g)}
  BY DEF Accept, Starts, PassedId
<1> DEFINE c == [pc |-> "passed", handoff |-> h, who |-> who]
<1>2. PassedId(h) \in Ids /\ c \in Consumptions
  BY ConsumptionAssumption DEF PassedId, Consumptions
<1>3. /\ writer[p].pc = "idle" /\ writer'[p].pc = "read"
      /\ writer'[p].id = PassedId(h) /\ writer'[p].hash = stamp + 1
      /\ \A q \in Procs \ {p} : writer'[q] = writer[q]
      /\ UNCHANGED <<store, raced>> /\ Grows
      /\ stamp + 1 \in Stamps /\ \A s \in 1 .. stamp : s \in Stamps /\ s # stamp + 1
  BY <1>0, <1>1, <1>2, PutBegins
<1>4. MailInv'
  BY <1>3, MailOfOthers, OneThingAtATime
<1>5. /\ named' \in [Stamps -> Identities \cup {NoOne}] /\ named'[stamp + 1] = who
      /\ \A s \in 1 .. stamp : named'[s] = named[s]
  BY <1>1, <1>3 DEF ConsumptionInv, ConsumptionTypeOK
<1>6. c.pc = "passed" /\ c.handoff = h /\ c.who = who /\ consumer' = [consumer EXCEPT ![p] = c]
  BY <1>1
<1> HIDE DEF c
<1>7. /\ consumer' \in [Consumers -> Consumptions] /\ consumer'[p] = c
      /\ \A q \in Consumers \ {p} : consumer'[q] = consumer[q]
      /\ \A q \in Consumers : ConInv(q)'
  BY <1>2, <1>3, <1>5, <1>6, ConsumerMoves
<1>8. ConsumptionTypeOK'
  BY <1>1, <1>5, <1>7 DEF ConsumptionInv, ConsumptionTypeOK, Consumptions
<1>9. ASSUME NEW g \in Handoffs PROVE AgreeInv(g)'
  <2>1. consumer[p].pc = "idle"
    BY <1>3, OneThingAtATime
  <2>2. AgreeInv(g) /\ torn \subseteq torn'
    BY <1>1 DEF ConsumptionInv
  <2>3. g = h /\ g \notin torn' => \A q \in Consumers : ~Consuming(q, g)
    BY <1>1
  <2>4. \A q \in Consumers : Between(q, g)' <=> Between(q, g)
    BY <1>6, <1>7, <2>1 DEF Between
  <2>5. \A q \in Consumers \ {p} : Consuming(q, g)' <=> Consuming(q, g)
    BY <1>7 DEF Consuming
  <2>6. Consuming(p, g)' => g = h
    BY <1>6, <1>7 DEF Consuming
  <2>7. g \notin torn' => \A q, r \in Consumers : Consuming(q, g)' /\ Consuming(r, g)' => q = r
    BY <2>2, <2>3, <2>5, <2>6 DEF AgreeInv
  <2>8. \A q \in Consumers : Between(q, g) => consumer'[q].who = consumer[q].who
    BY <1>7, <2>1 DEF Between
  <2>9. QED
    BY <1>1, <2>2, <2>4, <2>7, <2>8 DEF AgreeInv
<1>10. AssignmentReceipted'
  BY <1>1, <1>3, <1>5, ReceiptedStays DEF AssignmentReceipted, PassedId
<1>11. QED
  BY <1>4, <1>7, <1>8, <1>9, <1>10 DEF ConsumptionInv

\* The steps that leave the records and what was accepted alone, of a process
\* that consumes nothing after them: the denials and the ends.
LEMMA RecordsStay ==
  ASSUME ChainOK, ConsumptionInv, NEW p \in Consumers, NEW c \in Consumptions,
         c.pc \in {"idle", "denied"},
         consumer' = [consumer EXCEPT ![p] = c],
         UNCHANGED <<work, named>>, Grows,
         \A q \in Procs \ {p} : writer'[q] = writer[q],
         c.pc = "denied" =>
           /\ c.handoff \in Handoffs /\ writer'[p].pc # "idle"
           /\ writer'[p].id = <<"denied", c.handoff>>,
         torn \subseteq torn', torn' \subseteq Handoffs,
         consumer[p].pc = "run" => consumer[p].handoff \in torn'
  PROVE  ConsumptionInv'
<1>1. /\ consumer' \in [Consumers -> Consumptions] /\ consumer'[p] = c
      /\ \A q \in Consumers \ {p} : consumer'[q] = consumer[q]
      /\ \A q \in Consumers : ConInv(q)'
  BY ConsumerMoves
<1>2. ConsumptionTypeOK'
  BY <1>1 DEF ConsumptionInv, ConsumptionTypeOK, Consumptions
<1>3. ASSUME NEW g \in Handoffs PROVE AgreeInv(g)'
  <2>1. AgreeInv(g)
    BY DEF ConsumptionInv
  <2>2. ~Consuming(p, g)' /\ ~Between(p, g)'
    BY <1>1 DEF Consuming, Between
  <2>3. \A q \in Consumers \ {p} : /\ Consuming(q, g)' <=> Consuming(q, g)
                                   /\ Between(q, g)' <=> Between(q, g)
    BY <1>1 DEF Consuming, Between
  <2>4. g \notin torn' => ~Between(p, g)
    BY DEF Between
  <2>5. QED
    BY <1>1, <2>1, <2>2, <2>3, <2>4 DEF AgreeInv
<1>4. AssignmentReceipted'
  BY ReceiptedStays DEF AssignmentReceipted, PassedId
<1>5. QED
  BY <1>1, <1>2, <1>3, <1>4 DEF ConsumptionInv

LEMMA DenyKeeps ==
  ASSUME ChainOK, MailInv, ConsumptionInv, UNCHANGED mail, NEW p \in Consumers, Deny(p)
  PROVE  MailInv' /\ ConsumptionInv'
<1>1. PICK h \in Handoffs :
        /\ Begin(p, <<"denied", h>>)
        /\ consumer' = [consumer EXCEPT ![p] = [pc |-> "denied", handoff |-> h, who |-> NoOne]]
        /\ UNCHANGED <<work, named, torn>>
  BY DEF Deny, Starts
<1> DEFINE c == [pc |-> "denied", handoff |-> h, who |-> NoOne]
<1>2. <<"denied", h>> \in Ids /\ c \in Consumptions /\ p \in Procs
  BY ConsumptionAssumption DEF Consumptions
<1>3. /\ writer[p].pc = "idle" /\ writer'[p].pc = "read"
      /\ writer'[p].id = <<"denied", h>>
      /\ \A q \in Procs \ {p} : writer'[q] = writer[q]
      /\ UNCHANGED <<store, raced>> /\ Grows
  BY <1>1, <1>2, PutBegins
<1>4. op[p].does = "nothing" /\ consumer[p].pc = "idle"
  BY <1>3, OneThingAtATime
<1>5. c.pc = "denied" /\ c.handoff = h /\ consumer' = [consumer EXCEPT ![p] = c]
  BY <1>1
<1> HIDE DEF c
<1>6. torn' = torn /\ torn \subseteq Handoffs
  BY <1>1 DEF ConsumptionInv, ConsumptionTypeOK
<1>7. MailInv'
  BY <1>3, <1>4, MailOfOthers
<1>8. ConsumptionInv'
  BY <1>1, <1>2, <1>3, <1>4, <1>5, <1>6, RecordsStay
<1>9. QED
  BY <1>7, <1>8

\* The end of a consumption.
LEMMA DoneIdles ==
  ASSUME ChainOK, MailInv, ConsumptionInv, NEW p \in Consumers, Done(p), consumer[p].pc # "idle"
  PROVE  /\ IdleConsumer \in Consumptions /\ IdleConsumer.pc = "idle"
         /\ consumer' = [consumer EXCEPT ![p] = IdleConsumer]
         /\ \A q \in Procs \ {p} : writer'[q] = writer[q]
         /\ UNCHANGED <<store, raced>> /\ Grows
         /\ UNCHANGED mail => MailInv'
<1>1. /\ consumer' = [consumer EXCEPT ![p] = IdleConsumer]
      /\ \A q \in Procs \ {p} : writer'[q] = writer[q]
      /\ UNCHANGED <<store, raced>>
  BY DEF Done, Leave, ChainOK, ChainInv, ChainTypeOK
<1>2. IdleConsumer \in Consumptions /\ IdleConsumer.pc = "idle"
  BY DEF IdleConsumer, Consumptions
<1>3. Grows
  <2>1. ChainNext
    BY ConsumptionAssumption DEF Done, ChainNext
  <2>2. QED
    BY <2>1, StoreGrows
<1>4. UNCHANGED mail => MailInv'
  BY <1>1, MailOfOthers, OneThingAtATime
<1>5. QED
  BY <1>1, <1>2, <1>3, <1>4

LEMMA RefuseKeeps ==
  ASSUME ChainOK, MailInv, ConsumptionInv, UNCHANGED mail, NEW p \in Consumers,
         Refuse(p) \/ GiveUp(p)
  PROVE  MailInv' /\ ConsumptionInv'
<1>1. /\ Done(p) /\ consumer[p].pc # "idle" /\ UNCHANGED <<work, named>>
      /\ torn \subseteq torn' /\ torn' \subseteq torn \cup {consumer[p].handoff}
      /\ consumer[p].pc = "run" => consumer[p].handoff \in torn'
  BY DEF Refuse, GiveUp
<1>2. torn' \subseteq Handoffs
  <2>1. ConInv(p)
    BY DEF ConsumptionInv
  <2>2. QED
    BY <1>1, <2>1 DEF ConsumptionInv, ConsumptionTypeOK, ConInv
<1>3. /\ IdleConsumer \in Consumptions /\ IdleConsumer.pc = "idle"
      /\ consumer' = [consumer EXCEPT ![p] = IdleConsumer]
      /\ \A q \in Procs \ {p} : writer'[q] = writer[q]
      /\ Grows /\ MailInv'
  BY <1>1, DoneIdles
<1>4. ConsumptionInv'
  BY <1>1, <1>2, <1>3, RecordsStay
<1>5. QED
  BY <1>3, <1>4

\* One of the two stores: the receipt that accepts the identity is done.
LEMMA StoresKeep ==
  ASSUME ChainOK, MailInv, ConsumptionInv, UNCHANGED mail, NEW p \in Consumers,
         PutTask(p) \/ PutRun(p)
  PROVE  MailInv' /\ ConsumptionInv'
<1>0. PICK h \in Handoffs, who \in Identities :
        /\ h = consumer[p].handoff /\ who = consumer[p].who
        /\ writer[p].pc = "done" /\ writer[p].id = PassedId(h) /\ named[writer[p].hash] = who
  BY DEF ConsumptionInv, ConInv, PutTask, PutRun
<1>1. /\ consumer[p] \in Consumptions /\ Consuming(p, h) /\ consumer[p].pc # "idle"
      /\ p \in Procs
  BY <1>0, ConsumptionAssumption
     DEF ConsumptionInv, ConsumptionTypeOK, Consumptions, PutTask, PutRun, Consuming
<1>2. PassedId(h) \notin raced => writer[p].hash \in HashesOf(store[PassedId(h)])
  BY <1>0, <1>1 DEF ChainOK, DoneInv
<1>3. UNCHANGED <<named, torn, store, raced>> /\ Grows /\ MailInv'
  <2>1. CASE PutRun(p)
    BY <1>1, <2>1, DoneIdles DEF PutRun
  <2>2. CASE PutTask(p)
    <3>1. op[p].does = "nothing" /\ UNCHANGED chainVars /\ UNCHANGED <<named, torn>>
      BY <1>1, <2>2, OneThingAtATime DEF PutTask
    <3>2. QED
      BY <3>1, StoreGrows, MailOfOthers DEF chainVars
  <2>3. QED
    BY <2>1, <2>2
<1>4. PICK c \in Consumptions :
        /\ consumer' = [consumer EXCEPT ![p] = c]
        /\ c.pc \in {"run", "idle"}
        /\ c.pc = "run" <=> PutTask(p)
        /\ c.pc = "run" => c = [consumer[p] EXCEPT !.pc = "run"]
        /\ \A q \in Procs \ {p} : writer'[q] = writer[q]
        /\ c.pc = "run" => UNCHANGED writer
  <2>1. CASE PutRun(p)
    BY <1>1, <2>1, DoneIdles DEF PutRun, PutTask
  <2>2. CASE PutTask(p)
    <3>1. [consumer[p] EXCEPT !.pc = "run"] \in Consumptions
      BY <1>1 DEF Consumptions
    <3>2. consumer' = [consumer EXCEPT ![p] = [consumer[p] EXCEPT !.pc = "run"]]
      BY <2>2 DEF PutTask, Goes
    <3>3. QED
      BY <2>2, <3>1, <3>2 DEF PutTask, chainVars, Consumptions
  <2>3. QED
    BY <2>1, <2>2
<1>5. /\ work' \in [Handoffs -> [task : Identities \cup {NoOne}, run : Identities \cup {NoOne}]]
      /\ \A g \in Handoffs \ {h} : work'[g] = work[g]
      /\ PutTask(p) => work'[h].task = who /\ work'[h].run = work[h].run
      /\ PutRun(p) => work'[h].run = who /\ work'[h].task = work[h].task
  <2>1. work[h] \in [task : Identities \cup {NoOne}, run : Identities \cup {NoOne}]
    BY <1>1 DEF ConsumptionInv, ConsumptionTypeOK
  <2>2. CASE PutTask(p)
    <3>1. work' = [work EXCEPT ![h].task = who]
      BY <1>0, <2>2 DEF PutTask, StoresTask
    <3>2. ~PutRun(p)
      BY <2>2 DEF PutTask, PutRun
    <3>3. QED
      BY <2>1, <3>1, <3>2 DEF ConsumptionInv, ConsumptionTypeOK
  <2>3. CASE PutRun(p)
    <3>1. work' = [work EXCEPT ![h].run = who]
      BY <1>0, <2>3 DEF PutRun, StoresRun
    <3>2. ~PutTask(p)
      BY <2>3 DEF PutTask, PutRun
    <3>3. QED
      BY <2>1, <3>1, <3>2 DEF ConsumptionInv, ConsumptionTypeOK
  <2>4. QED
    BY <2>2, <2>3
<1>6. /\ c.pc = "run" => c.handoff = h /\ c.who = who
      /\ PutRun(p) => c.pc = "idle"
      /\ PutTask(p) => c.pc = "run" /\ consumer[p].pc = "passed"
      /\ PutRun(p) => consumer[p].pc = "run"
  <2>1. [consumer[p] EXCEPT !.pc = "run"].handoff = h /\ [consumer[p] EXCEPT !.pc = "run"].who = who
    BY <1>0, <1>1 DEF Consumptions
  <2>2. ~(PutTask(p) /\ PutRun(p))
    BY DEF PutTask, PutRun
  <2>3. PutTask(p) => consumer[p].pc = "passed"
    BY DEF PutTask
  <2>4. PutRun(p) => consumer[p].pc = "run"
    BY DEF PutRun
  <2>5. QED
    BY <1>4, <2>1, <2>2, <2>3, <2>4
<1>7. /\ consumer' \in [Consumers -> Consumptions] /\ consumer'[p] = c
      /\ \A q \in Consumers \ {p} : consumer'[q] = consumer[q]
      /\ \A q \in Consumers : ConInv(q)'
  <2>1. c.pc = "run" => /\ c.handoff \in Handoffs /\ writer'[p].pc = "done"
                        /\ writer'[p].id = PassedId(c.handoff) /\ c.who \in Identities
                        /\ named'[writer'[p].hash] = c.who
    BY <1>0, <1>3, <1>4, <1>6
  <2>2. \A s \in 1 .. stamp : named'[s] = named[s]
    BY <1>3
  <2>3. QED
    <3>1. c.pc # "idle" => c.pc = "run"
      BY <1>4
    <3>2. /\ c.pc # "denied"
          /\ consumer' = [consumer EXCEPT ![p] = c]
          /\ \A q \in Procs \ {p} : writer'[q] = writer[q]
          /\ c.pc # "idle" =>
               /\ c.handoff \in Handoffs /\ writer'[p].pc # "idle" /\ writer'[p].pc = "done"
               /\ writer'[p].id = PassedId(c.handoff) /\ c.who \in Identities
               /\ named'[writer'[p].hash] = c.who
      BY <1>4, <2>1, <3>1
    <3>3. QED
      BY <2>2, <3>2, ConsumerMoves
<1>8. ConsumptionTypeOK'
  BY <1>3, <1>5, <1>7 DEF ConsumptionInv, ConsumptionTypeOK, Consumptions
<1>9. ASSUME NEW g \in Handoffs PROVE AgreeInv(g)'
  <2> SUFFICES ASSUME g \notin torn' PROVE AgreeInv(g)'
    BY DEF AgreeInv
  <2>1. /\ \A q, r \in Consumers : Consuming(q, g) /\ Consuming(r, g) => q = r
        /\ \A q \in Consumers : Between(q, g) => work[g].task = consumer[q].who
        /\ (\A q \in Consumers : ~Between(q, g)) => work[g].task = work[g].run
    BY <1>3 DEF ConsumptionInv, AgreeInv
  <2>2. \A q \in Consumers \ {p} : /\ Consuming(q, g)' <=> Consuming(q, g)
                                   /\ Between(q, g)' <=> Between(q, g)
                                   /\ consumer'[q].who = consumer[q].who
    BY <1>7 DEF Consuming, Between
  <2>3. CASE g # h
    <3>1. ~Consuming(p, g) /\ ~Between(p, g)
      BY <1>0, <2>3 DEF Consuming, Between
    <3>2. ~Consuming(p, g)' /\ ~Between(p, g)'
      BY <1>4, <1>6, <1>7, <2>3 DEF Consuming, Between
    <3>3. work'[g] = work[g]
      BY <1>5, <2>3
    <3>4. QED
      BY <2>1, <2>2, <3>1, <3>2, <3>3 DEF AgreeInv
  <2>4. CASE g = h
    <3>1. \A q \in Consumers \ {p} : ~Consuming(q, h) /\ ~Between(q, h)
      BY <1>1, <2>1, <2>4 DEF Consuming, Between
    <3>2. \A q, r \in Consumers : Consuming(q, h)' /\ Consuming(r, h)' => q = r
      BY <2>2, <2>4, <3>1
    <3>3. CASE PutTask(p)
      <4>1. Between(p, h)' /\ work'[h].task = consumer'[p].who
        BY <1>5, <1>6, <1>7, <3>3 DEF Between
      <4>2. QED
        BY <2>2, <2>4, <3>1, <3>2, <4>1 DEF AgreeInv
    <3>4. CASE PutRun(p)
      <4>1. work[h].task = who
        BY <1>0, <1>6, <2>1, <2>4, <3>4 DEF Between
      <4>2. work'[h].task = work'[h].run /\ ~Between(p, h)'
        BY <1>5, <1>6, <1>7, <3>4, <4>1 DEF Between
      <4>3. QED
        BY <2>2, <2>4, <3>1, <3>2, <4>2 DEF AgreeInv
    <3>5. QED
      BY <3>3, <3>4
  <2>5. QED
    BY <2>3, <2>4
<1>10. AssignmentReceipted'
  <2> SUFFICES ASSUME NEW g \in Handoffs, PassedId(g) \notin raced',
                      NEW i \in {work'[g].task, work'[g].run} \ {NoOne}
               PROVE  \E v \in (HashesOf(store[PassedId(g)]))' : named'[v] = i
    BY DEF AssignmentReceipted, PassedId
  <2>1. /\ \A v \in HashesOf(store[PassedId(g)]) :
             v \in (HashesOf(store[PassedId(g)]))' /\ named'[v] = named[v]
        /\ \A x \in {work[g].task, work[g].run} \ {NoOne} :
             \E v \in (HashesOf(store[PassedId(g)]))' : named'[v] = x
    BY <1>3, ReceiptedStays
  <2>2. CASE g = h /\ i = who
    BY <1>0, <1>2, <1>3, <2>1, <2>2
  <2>3. CASE ~(g = h /\ i = who)
    <3>1. i \in {work[g].task, work[g].run} \ {NoOne}
      BY <1>5, <2>3
    <3>2. QED
      BY <2>1, <3>1
  <2>4. QED
    BY <2>2, <2>3
<1>11. QED
  BY <1>3, <1>7, <1>8, <1>9, <1>10 DEF ConsumptionInv

-----------------------------------------------------------------------------
(***************************************************************************)
(* The whole.                                                              *)
(***************************************************************************)
Inv == ChainOK /\ MailInv /\ ConsumptionInv

LEMMA Initially == Init => Inv
BY ChainOKInitially, MailInitially, ConsumptionInitially DEF Init, Inv

LEMMA PuttingKeeps ==
  ASSUME Inv, NEW p \in Procs, Putting(p), UNCHANGED <<mail, consumption>>
  PROVE  MailInv' /\ ConsumptionInv'
<1>1. MailInv'
  BY MailRead, MailWrite DEF Inv, Putting
<1>2. ConsumptionInv'
  <2>1. Grows
    BY StoreGrows DEF Inv, ChainNext
  <2>2. /\ writer'[p].id = writer[p].id /\ writer'[p].hash = writer[p].hash
        /\ writer'[p].pc # "idle" /\ writer[p].pc # "done"
        /\ \A q \in Procs \ {p} : writer'[q] = writer[q]
    <3>1. writer \in [Procs -> Writers]
      BY DEF Inv, ChainOK, ChainInv, ChainTypeOK, Writers, Pcs
    <3>2. CASE ReadExisting(p)
      BY <3>1, <3>2 DEF ReadExisting, Writers
    <3>3. CASE ReadLatest(p)
      BY <3>1, <3>3 DEF ReadLatest, Writers
    <3>4. CASE LatestFails(p)
      BY <3>1, <3>4 DEF LatestFails, Writers
    <3>5. CASE Write(p)
      BY <3>1, <3>5 DEF Write, Writers
    <3>6. QED
      BY <3>2, <3>3, <3>4, <3>5 DEF Putting
  <2>3. \A q \in Consumers : consumer[q].pc # "idle" =>
          /\ writer'[q].pc # "idle" /\ writer'[q].id = writer[q].id
          /\ writer'[q].hash = writer[q].hash
          /\ writer[q].pc = "done" => writer'[q].pc = "done"
    BY <2>2, ConsumptionAssumption DEF Inv, ConsumptionInv, ConInv
  <2>4. QED
    BY <2>1, <2>3, ConsumptionFrame DEF Inv
<1>3. QED
  BY <1>1, <1>2

\* The mailbox's steps: their process consumes nothing.
LEMMA CorrespondKeeps ==
  ASSUME Inv, NEW p \in Procs, Correspond(p), UNCHANGED consumption
  PROVE  MailInv' /\ ConsumptionInv'
<1>1. MailInv'
  BY MailBegins, MailSendStore, MailReceiveStore, MailAbandon DEF Inv, Correspond
<1>2. ConsumptionInv'
  <2>1. Grows
    <3>1. ChainNext
      BY MailboxAssumption
         DEF Correspond, Send, SendStore, Receive, ReceiveStore, Abandon, Over, AvailableId,
             Taken, ChainNext
    <3>2. QED
      BY <3>1, StoreGrows DEF Inv
  <2>2. op[p].does # "nothing" \/ writer[p].pc = "idle"
    BY DEF Correspond, Send, SendStore, Receive, ReceiveStore, Abandon, Begin
  <2>3. p \in Consumers => consumer[p].pc = "idle"
    BY <2>2, OneThingAtATime DEF Inv
  <2>4. \A q \in Procs \ {p} : writer'[q] = writer[q]
    BY DEF Correspond, Send, SendStore, Receive, ReceiveStore, Abandon, Over, Begin, Leave,
           Inv, ChainOK, ChainInv, ChainTypeOK
  <2>5. \A q \in Consumers : consumer[q].pc # "idle" =>
          writer'[q] = writer[q] /\ writer[q].pc # "idle"
    BY <2>3, <2>4, ConsumptionAssumption DEF Inv, ConsumptionInv, ConInv
  <2>6. QED
    BY <2>1, <2>5, ConsumptionFrame DEF Inv
<1>3. QED
  BY <1>1, <1>2

LEMMA Step ==
  ASSUME Inv, [Next]_vars
  PROVE  Inv'
<1>1. ChainOK'
  BY StepsOfTheChain, DoneStep DEF Inv
<1>2. CASE UNCHANGED vars
  <2>1. UNCHANGED mail /\ UNCHANGED consumption /\ UNCHANGED chainVars
    BY <1>2 DEF vars
  <2>2. MailInv'
    BY <2>1, MailFrame DEF Inv, MailInv, OpInv, chainVars
  <2>3. ConsumptionInv'
    BY <2>1, StoreGrows, ConsumptionFrame DEF Inv, ConsumptionInv, ConInv, chainVars
  <2>4. QED
    BY <1>1, <2>2, <2>3 DEF Inv
<1>3. ASSUME NEW p \in Consumers, Consume(p), UNCHANGED mail
      PROVE  MailInv' /\ ConsumptionInv'
  BY <1>3, AcceptKeeps, DenyKeeps, RefuseKeeps, StoresKeep DEF Inv, Consume
<1>4. QED
  BY <1>1, <1>2, <1>3, PuttingKeeps, CorrespondKeeps DEF Inv, Next

LEMMA Invariant == Spec => []Inv
BY Initially, Step, PTL DEF Spec

\* Type correctness.
THEOREM TypeCorrect == Spec => []TypeOK
<1>1. Inv => TypeOK
  BY DEF Inv, ChainOK, ChainInv, MailInv, ConsumptionInv, TypeOK, MailTypeOK, MessageTypes, OpTypes
<1>2. QED
  BY <1>1, Invariant, PTL

\* Whatever agents send, receive and consume on one store, their receipts stop
\* verifying only when two processes put one id together.
THEOREM ReceiptsVerify == Spec => []BrokenOnlyByRace
BY ChainIsDriven, OnlyRacesBreak, PTL

\* Without such a race their receipts are not linked to themselves all around.
THEOREM ReceiptsAreGrounded == Spec => []Grounded
BY ChainIsDriven, ChainIsGrounded, PTL

\* Every hash one of their receipts once had can be found again.
THEOREM ReceiptsAreAudited == Spec => AuditSpec
BY ChainIsDriven, AuditIsImplemented, PTL

\* A message has the receipts of all it says happened to it.
THEOREM MessagesAreReceipted == Spec => []MessagesReceipted
<1>1. Inv => MessagesReceipted
  BY DEF Inv, MailInv
<1>2. QED
  BY <1>1, Invariant, PTL

\* A message that is replaced or made unreceived shows it in the history of its
\* send receipt, unless two puts of that very receipt interleaved.
THEOREM ReplacementsShow == Spec => ReplacedShows
<1> DEFINE Shows ==
      \A m \in Taken :
        message'[m].body # message[m].body
          \/ (message[m].status = "received" /\ message'[m].status = "sent")
        => <<"send", m>> \in raced' \/ store'[<<"send", m>>].history # {}
<1>1. ASSUME Inv, [Next]_vars PROVE [Shows]_<<chainVars, mail>>
  <2>1. CASE UNCHANGED message
    BY <2>1
  <2>2. ASSUME NEW p \in Procs, SendStore(p) \/ ReceiveStore(p) PROVE Shows
    <3>1. /\ UNCHANGED <<store, raced>> /\ message \in [Messages -> MessageTypes]
          /\ op[p].id \in Messages /\ writer[p].pc = "done"
          /\ \A m \in Messages : OneSend(m)
      BY <1>1, <2>2 DEF SendStore, ReceiveStore, Over, Leave, Inv, MailInv, OpInv
    <3>2. SUFFICES ASSUME NEW m \in Taken, SendId(m) \notin raced, store[SendId(m)].history = {}
                   PROVE  /\ message'[m].body = message[m].body
                          /\ message'[m].status # "sent" \/ message[m].status # "received"
      BY <3>1 DEF SendId
    <3>3. m \in Messages
      BY DEF Taken
    <3>4. CASE m # op[p].id
      <4>1. message'[m] = message[m]
        BY <2>2, <3>1, <3>3, <3>4 DEF SendStore, ReceiveStore
      <4>2. QED
        BY <4>1
    <3>5. CASE m = op[p].id
      <4>1. ReceiveStore(p)
        BY <2>2, <3>1, <3>2, <3>3, <3>5 DEF OneSend, SendStore
      <4>2. op[p].seen.body = message[m].body
        BY <3>1, <3>2, <3>3, <3>5, <4>1 DEF OneSend, ReceiveStore
      <4>3. op[p].seen \in MessageTypes
        BY <1>1 DEF Inv, MailInv, OpTypes
      <4>4. message'[m].status = "received" /\ message'[m].body = op[p].seen.body
        BY <3>1, <3>3, <3>5, <4>1, <4>3 DEF ReceiveStore, MessageTypes
      <4>5. QED
        BY <4>2, <4>4
    <3>6. QED
      BY <3>4, <3>5
  <2>3. QED
    BY <1>1, <2>1, <2>2
       DEF Next, vars, mail, Correspond, Send, Receive, Abandon
<1>2. QED
  BY <1>1, Invariant, PTL DEF Spec, ReplacedShows

\* The identity that follow-up work is assigned to has an accepting receipt, unless
\* two puts of that very receipt interleaved.
THEOREM AssignmentsAreReceipted == Spec => []AssignmentReceipted
<1>1. Inv => AssignmentReceipted
  BY DEF Inv, ConsumptionInv
<1>2. QED
  BY <1>1, Invariant, PTL

\* A handoff that is not torn is continued by a task and a run of one identity.
THEOREM TaskAndRunAgree == Spec => []AssignmentsAgree
<1>1. Inv => AssignmentsAgree
  BY DEF Inv, ConsumptionInv, AgreeInv, AssignmentsAgree, Consuming, Between
<1>2. QED
  BY <1>1, Invariant, PTL
=============================================================================
