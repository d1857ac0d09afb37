------------------------------ MODULE Mailbox -------------------------------
(***************************************************************************)
(* The agent mailbox (work/coordination/mailbox.py) on top of the receipt  *)
(* chain: a message is sent, or marked as received, by a receipt and then  *)
(* a message record, with other processes in between and a process that    *)
(* may die between any two steps.                                          *)
(*                                                                         *)
(* All messages have the same task, sender name, receiver and subject, so  *)
(* that their ids differ by the suffix alone.  The body stands for what    *)
(* one send says; the work graph's events about messages are left out.     *)
(***************************************************************************)
EXTENDS ReceiptChain

CONSTANTS
  Messages,  \* message ids by their suffix, 1 for none
  Senders    \* processes whose run may send under the sender's name

ASSUME MailboxAssumption ==
  /\ Messages \subseteq Nat \ {0}
  /\ {"send", "receive"} \X Messages \subseteq Ids
  /\ Senders \subseteq Procs

VARIABLES
  message,  \* message[m]: the stored message
  op        \* op[p]: the mailbox operation of a process

mail == <<message, op>>

NoMessage == [status |-> "none", body |-> 0, receipts |-> {}]
IdleOp == [does |-> "nothing", id |-> 0, seen |-> NoMessage]

MailInit ==
  /\ message = [m \in Messages |-> NoMessage]
  /\ op = [p \in Procs |-> IdleOp]

-----------------------------------------------------------------------------
Taken == {m \in Messages : message[m] # NoMessage}

\* (A bug: the suffix counts the messages instead of looking for a free one.)
CountId == {Cardinality(Taken) + 1}

\* _available_agent_message_id: the first suffix with no message.  Ids are
\* never given back, so the answer of its reads is that of the last one.
AvailableId == {m \in Messages \ Taken : \A n \in Messages \ Taken : m <= n}

Send(p) ==
  /\ op[p].does = "nothing"
  /\ p \in Senders
  /\ \E m \in AvailableId :
       /\ op' = [op EXCEPT ![p] = [does |-> "send", id |-> m, seen |-> NoMessage]]
       /\ Begin(p, <<"send", m>>)
  /\ UNCHANGED message

\* The operation is over once its message is stored.
Over(p) ==
  /\ op' = [op EXCEPT ![p] = IdleOp]
  /\ Leave(p)

SendStore(p) ==
  /\ op[p].does = "send"
  /\ writer[p].pc = "done"
  /\ message' = [message EXCEPT ![op[p].id] =
       [status |-> "sent", body |-> writer[p].hash, receipts |-> {<<"send", op[p].id>>}]]
  /\ Over(p)

\* record_agent_message_received, of a message in any status.
Receive(p) ==
  /\ op[p].does = "nothing"
  /\ \E m \in Taken :
       /\ op' = [op EXCEPT ![p] = [does |-> "receive", id |-> m, seen |-> message[m]]]
       /\ Begin(p, <<"receive", m>>)
  /\ UNCHANGED message

\* (A bug: the message is stored before its receipt.)
ReceiveStoreEarly(p) ==
  /\ op[p].does = "receive"
  /\ writer[p].pc \in {"write", "done"}
  /\ message' = [message EXCEPT ![op[p].id] =
       [op[p].seen EXCEPT !.status = "received", !.receipts = @ \cup {<<"receive", op[p].id>>}]]
  /\ Over(p)

\* The message as it was read before the receipt is stored.
ReceiveStore(p) ==
  /\ op[p].does = "receive"
  /\ writer[p].pc = "done"
  /\ message' = [message EXCEPT ![op[p].id] =
       [op[p].seen EXCEPT !.status = "received", !.receipts = @ \cup {<<"receive", op[p].id>>}]]
  /\ Over(p)

\* The receipt was refused, or the process has died.
Abandon(p) ==
  /\ op[p].does # "nothing"
  /\ Over(p)
  /\ UNCHANGED message

Correspond(p) ==
  Send(p) \/ SendStore(p) \/ Receive(p) \/ ReceiveStore(p) \/ Abandon(p)

-----------------------------------------------------------------------------
MailTypeOK ==
  /\ message \in [Messages -> [status : {"none", "sent", "received"}, body : 0 .. MaxStamp,
                               receipts : SUBSET Ids]]
  /\ op \in [Procs -> [does : {"nothing", "send", "receive"}, id : Messages \cup {0},
                       seen : [status : {"none", "sent", "received"}, body : 0 .. MaxStamp,
                               receipts : SUBSET Ids]]]

\* Whatever a stored message says happened to it has its receipt in the store,
\* wherever a process died.
MessagesReceipted ==
  \A m \in Taken :
    /\ message[m].receipts \subseteq Stored
    /\ <<"send", m>> \in message[m].receipts
    /\ message[m].status = "received" => <<"receive", m>> \in message[m].receipts

\* A stored message is only replaced by another one, or made unreceived, when
\* two sends took the same free id.  If the one put its send receipt after the
\* other, the receipt's history tells that there were two; if the puts of that
\* receipt interleaved, nothing in the store does.
ReplacedShows ==
  [][\A m \in Taken :
       message'[m].body # message[m].body
         \/ (message[m].status = "received" /\ message'[m].status = "sent")
       => <<"send", m>> \in raced' \/ store'[<<"send", m>>].history # {}]_<<chainVars, mail>>

(***************************************************************************)
(* A claim the code does not meet.                                         *)
(***************************************************************************)

\* docs/reference/mailbox.md:31-33, "Message IDs are stable for the first message
\* with a subject and receive numeric suffixes for repeated same-subject messages
\* so history is not silently overwritten": where a message has been replaced, the
\* history of its send receipt tells.
NotSilentlyOverwritten ==
  [][\A m \in Taken :
       message'[m].body # message[m].body => store'[<<"send", m>>].history # {}
    ]_<<chainVars, mail>>
=============================================================================
