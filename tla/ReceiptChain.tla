---------------------------- MODULE ReceiptChain ----------------------------
(***************************************************************************)
(* The chain of capability receipts in the local store (store/work.py):    *)
(* put_receipt as the reads and the one write it is made of, by processes  *)
(* that share the database and no lock, and the verification that          *)
(* list_receipts makes before it returns anything.                         *)
(*                                                                         *)
(* A version of a receipt has a hash of its own; the model takes the       *)
(* moment the receipt was made (created_at), which no two puts share, for  *)
(* both, and 0 for no hash.  A put of an id that is already stored         *)
(* replaces the version and carries the hashes of the replaced ones in     *)
(* receipt_hash_history.                                                   *)
(***************************************************************************)
EXTENDS Naturals, FiniteSets

CONSTANTS
  Procs,    \* processes that put receipts
  Ids,      \* receipt ids
  MaxStamp  \* bound on the receipts made

ASSUME ReceiptChainAssumption == MaxStamp \in Nat

VARIABLES
  stamp,   \* the last moment a receipt was made
  store,   \* store[id]: the stored version of a receipt
  writer,  \* writer[p]: the put a process is in the middle of
  raced    \* history: ids of which a version was replaced that its writer had not read

chainVars == <<stamp, store, writer, raced>>

Stamps == 1 .. MaxStamp
NoHash == 0
Absent == [hash |-> NoHash, prev |-> NoHash, history |-> {}]

NoId == <<>>
IdleWriter == [pc |-> "idle", id |-> NoId, hash |-> NoHash, seen |-> Absent, prev |-> NoHash]

ChainInit ==
  /\ stamp = 0
  /\ store = [id \in Ids |-> Absent]
  /\ writer = [p \in Procs |-> IdleWriter]
  /\ raced = {}

-----------------------------------------------------------------------------
Stored == {id \in Ids : store[id] # Absent}

\* The hashes by which a version can be found.
HashesOf(version) == ({version.hash} \cup version.history) \ {NoHash}

Known == UNION {HashesOf(store[id]) : id \in Ids}

\* _verify_receipt_chain fails.
Broken == \E id \in Ids : store[id].prev \notin Known \cup {NoHash}

\* _latest_receipt_hash: of the other receipts, the one made last.
Latest(id) ==
  LET others == {store[o].hash : o \in Stored \ {id}} IN
  IF others = {} THEN NoHash ELSE CHOOSE h \in others : \A o \in others : o <= h

-----------------------------------------------------------------------------
\* The caller makes the receipt and calls put_receipt.
Begin(p, id) ==
  /\ writer[p].pc = "idle"
  /\ stamp < MaxStamp
  /\ stamp' = stamp + 1
  /\ writer' = [writer EXCEPT ![p] =
       [pc |-> "read", id |-> id, hash |-> stamp + 1, seen |-> Absent, prev |-> NoHash]]
  /\ UNCHANGED <<store, raced>>

\* (A bug: a receipt put again is linked anew.)
ReadExistingRelink(p) ==
  /\ writer[p].pc = "read"
  /\ writer' = [writer EXCEPT ![p].seen = store[writer[p].id], ![p].pc = "latest"]
  /\ UNCHANGED <<stamp, store, raced>>

\* A receipt that is already stored keeps the link it has.
ReadExisting(p) ==
  /\ writer[p].pc = "read"
  /\ LET seen == store[writer[p].id] IN
       writer' = [writer EXCEPT ![p].seen = seen,
                                ![p].prev = seen.prev,
                                ![p].pc = IF seen = Absent THEN "latest" ELSE "write"]
  /\ UNCHANGED <<stamp, store, raced>>

\* (A bug: the link is taken from whatever was made, stored or not.)
ReadLatestMade(p) ==
  /\ writer[p].pc = "latest"
  /\ writer' = [writer EXCEPT ![p].prev = writer[p].hash - 1, ![p].pc = "write"]
  /\ UNCHANGED <<stamp, store, raced>>

ReadLatest(p) ==
  /\ writer[p].pc = "latest"
  /\ ~Broken
  /\ writer' = [writer EXCEPT ![p].prev = Latest(writer[p].id), ![p].pc = "write"]
  /\ UNCHANGED <<stamp, store, raced>>

\* LocalStoreCorruptError: a broken chain takes no new receipt.
LatestFails(p) ==
  /\ writer[p].pc = "latest"
  /\ Broken
  /\ writer' = [writer EXCEPT ![p].pc = "failed"]
  /\ UNCHANGED <<stamp, store, raced>>

\* (A bug: a replaced version is forgotten.)
NothingReplaced(seen) == {}

\* (A bug: only the version just replaced is remembered.)
LastReplaced(seen) == {seen.hash} \ {NoHash}

\* receipt_hash_history of a version that replaces the one read.
Replaced(seen) == HashesOf(seen)

Write(p) ==
  /\ writer[p].pc = "write"
  /\ store' = [store EXCEPT ![writer[p].id] =
       [hash |-> writer[p].hash, prev |-> writer[p].prev,
        history |-> Replaced(writer[p].seen)]]
  /\ raced' = raced \cup {id \in {writer[p].id} : store[id] # writer[p].seen}
  /\ writer' = [writer EXCEPT ![p].pc = "done", ![p].seen = Absent, ![p].prev = NoHash]
  /\ UNCHANGED stamp

Putting(p) ==
  ReadExisting(p) \/ ReadLatest(p) \/ LatestFails(p) \/ Write(p)

\* put_receipt has returned or raised, or the process has died.
Leave(p) ==
  /\ writer' = [writer EXCEPT ![p] = IdleWriter]
  /\ UNCHANGED <<stamp, store, raced>>

ChainNext ==
  \E p \in Procs : (\E id \in Ids : Begin(p, id)) \/ Putting(p) \/ Leave(p)

ChainSpec == ChainInit /\ [][ChainNext]_chainVars

-----------------------------------------------------------------------------
Versions == [hash : 0 .. MaxStamp, prev : 0 .. MaxStamp, history : SUBSET Stamps]

ChainTypeOK ==
  /\ stamp \in 0 .. MaxStamp
  /\ store \in [Ids -> Versions]
  /\ writer \in [Procs -> [pc : {"idle", "read", "latest", "write", "done", "failed"},
                           id : Ids \cup {NoId}, hash : 0 .. MaxStamp,
                           seen : Versions, prev : 0 .. MaxStamp]]
  /\ raced \subseteq Ids

\* The chain only stops verifying, and the store only stops taking receipts,
\* when two processes put the same receipt id at the same time.
BrokenOnlyByRace == Broken => raced # {}

\* Without such a race whoever follows the links backwards comes to a receipt
\* with no link: no set of receipts is linked to itself all around, although
\* replaced versions keep the link of the first one.
Grounded ==
  raced = {} => \A S \in (SUBSET Stored) \ {{}} :
                  \E id \in S : \A o \in S : store[id].prev \notin HashesOf(store[o])

Audit == INSTANCE AuditLog WITH Hashes <- Stamps, known <- Known, raced <- (raced # {})

\* Every hash a receipt once had can be found again.
AuditSpec == Audit!Spec
=============================================================================
