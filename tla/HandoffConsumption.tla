------------------------- MODULE HandoffConsumption -------------------------
(***************************************************************************)
(* "craik task resume --from-handoff" (coordination/handoff_consumption.py *)
(* and identity_isolation.py) on top of the receipt chain: the identity a  *)
(* consumer names is accepted by a receipt, and then the follow-up task    *)
(* and its pending run are stored one after the other.                     *)
(*                                                                         *)
(* The ids of all of them follow from the handoff and the task's title.    *)
(* All consumers of a handoff leave the title to its default, so that they *)
(* write the same records.  A record stands for the identity it names.     *)
(* The intent lock, which is the same for all, the case file, which is     *)
(* built from the task between the two, and the execution of the run,      *)
(* which RunLoop is about, are left out.                                   *)
(***************************************************************************)
EXTENDS ReceiptChain

CONSTANTS
  Consumers,   \* processes that consume handoffs
  Handoffs,    \* completed handoffs, all by the same producer
  Identities,  \* credential and operator identities a consumer may name
  Producer,    \* the identity that produced the handoffs
  NoOne        \* no identity

ASSUME ConsumptionAssumption ==
  /\ Consumers \subseteq Procs
  /\ {"passed", "denied"} \X Handoffs \subseteq Ids
  /\ Producer \in Identities
  /\ NoOne \notin Identities

VARIABLES
  work,      \* work[h]: whom the task and the run that continue h name
  consumer,  \* consumer[p]: the consumption a process is in the middle of
  named,     \* named[s]: whom the receipt made at moment s accepts
  torn       \* history: handoffs consumed by two at a time, or by halves

consumption == <<work, consumer, named, torn>>

NoWork == [task |-> NoOne, run |-> NoOne]
IdleConsumer == [pc |-> "idle", handoff |-> 0, who |-> NoOne]

ConsumptionInit ==
  /\ work = [h \in Handoffs |-> NoWork]
  /\ consumer = [p \in Consumers |-> IdleConsumer]
  /\ named = [s \in Stamps |-> NoOne]
  /\ torn = {}

-----------------------------------------------------------------------------
\* A process that stores, or is about to store, records that continue h.
Consuming(p, h) == consumer[p].pc \in {"passed", "run"} /\ consumer[p].handoff = h

\* validate_handoff_consumer_identity: an identity that is named and is not the
\* producer's, or is continued with a rationale.
Granted(who, continues) == who \in Identities /\ (who = Producer => continues)

Starts(p, status, h, who) ==
  /\ consumer' = [consumer EXCEPT ![p] = [pc |-> status, handoff |-> h, who |-> who]]
  /\ UNCHANGED work

Accept(p) ==
  \E h \in Handoffs, who \in Identities, continues \in BOOLEAN :
    /\ Granted(who, continues)
    /\ Begin(p, <<"passed", h>>)
    /\ named' = [named EXCEPT ![stamp + 1] = who]
    /\ Starts(p, "passed", h, who)
    /\ torn' = torn \cup {g \in {h} : \E q \in Consumers : Consuming(q, g)}

Deny(p) ==
  \E h \in Handoffs, who \in Identities \cup {NoOne}, continues \in BOOLEAN :
    /\ ~Granted(who, continues)
    /\ Begin(p, <<"denied", h>>)
    /\ Starts(p, "denied", h, NoOne)
    /\ UNCHANGED <<named, torn>>

StoresTask(p) == work' = [work EXCEPT ![consumer[p].handoff].task = consumer[p].who]

StoresRun(p) == work' = [work EXCEPT ![consumer[p].handoff].run = consumer[p].who]

Goes(p, pc) == consumer' = [consumer EXCEPT ![p].pc = pc]

Done(p) ==
  /\ consumer' = [consumer EXCEPT ![p] = IdleConsumer]
  /\ Leave(p)

\* The denial is stored; the command fails.
Refuse(p) ==
  /\ consumer[p].pc = "denied"
  /\ writer[p].pc = "done"
  /\ Done(p)
  /\ UNCHANGED <<work, named, torn>>

\* (A bug: the task is stored before the identity's receipt.)
PutTaskEarly(p) ==
  /\ consumer[p].pc = "passed"
  /\ writer[p].pc \in {"write", "done"}
  /\ StoresTask(p)
  /\ Goes(p, "run")
  /\ UNCHANGED <<chainVars, named, torn>>

PutTask(p) ==
  /\ consumer[p].pc = "passed"
  /\ writer[p].pc = "done"
  /\ StoresTask(p)
  /\ Goes(p, "run")
  /\ UNCHANGED <<chainVars, named, torn>>

\* (A bug: a run that exists is kept.)
PutRunOnce(p) ==
  /\ consumer[p].pc = "run"
  /\ IF work[consumer[p].handoff].run = NoOne
     THEN StoresRun(p)
     ELSE UNCHANGED work
  /\ Done(p)
  /\ UNCHANGED <<named, torn>>

\* TaskRunManager.create, whatever run there is.
PutRun(p) ==
  /\ consumer[p].pc = "run"
  /\ StoresRun(p)
  /\ Done(p)
  /\ UNCHANGED <<named, torn>>

\* The receipt is refused, the project or a path of the case is not as it
\* should be, or the process dies.
GiveUp(p) ==
  /\ consumer[p].pc # "idle"
  /\ torn' = IF consumer[p].pc = "run" THEN torn \cup {consumer[p].handoff} ELSE torn
  /\ Done(p)
  /\ UNCHANGED <<work, named>>

Consume(p) ==
  Accept(p) \/ Deny(p) \/ Refuse(p) \/ PutTask(p) \/ PutRun(p) \/ GiveUp(p)

-----------------------------------------------------------------------------
ConsumptionTypeOK ==
  /\ work \in [Handoffs -> [task : Identities \cup {NoOne}, run : Identities \cup {NoOne}]]
  /\ consumer \in [Consumers ->
       [pc : {"idle", "denied", "passed", "run"}, handoff : Handoffs \cup {0},
        who : Identities \cup {NoOne}]]
  /\ named \in [Stamps -> Identities \cup {NoOne}]
  /\ torn \subseteq Handoffs

\* Whoever follow-up work is assigned to was accepted, and the accepting
\* receipt, which every later consumer replaces, can still be found, whoever
\* died and whatever becomes of the store's other receipts.  Consumers who store
\* their task and run in any order keep this; two whose puts of the one accepting
\* receipt interleave do not: the second forgets the first's version, and the
\* first may still be named by the task or the run.
AssignmentReceipted ==
  \A h \in {g \in Handoffs : <<"passed", g>> \notin raced} :
    \A who \in {work[h].task, work[h].run} \ {NoOne} :
      \E v \in HashesOf(store[<<"passed", h>>]) : named[v] = who

\* Consumptions of one handoff that neither overlapped nor died between
\* the task and the run leave both naming the same identity, however many there
\* were and in whatever other way they failed.
AssignmentsAgree ==
  \A h \in Handoffs \ torn :
    (\A p \in Consumers : ~Consuming(p, h)) =>
      work[h].task = work[h].run
=============================================================================
