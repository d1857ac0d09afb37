------------------------- MODULE ReceiptChain_proofs -------------------------
(***************************************************************************)
(* Theorems about ReceiptChain, for any processes, receipt ids and number  *)
(* of receipts.  Whoever puts receipts (Coordination composes two such     *)
(* components) takes the steps of ChainNext, so the theorems hold there.   *)
(***************************************************************************)
EXTENDS ReceiptChain, WellFoundedInduction, TLAPS

Pcs == {"idle", "read", "latest", "write", "done", "failed"}
Writers == [pc : Pcs, id : Ids \cup {NoId}, hash : 0 .. MaxStamp,
            seen : Versions, prev : 0 .. MaxStamp]

\* A put that has not stored its version.
Unwritten == {"read", "latest", "write", "failed"}

\* Puts under way are of different moments, none later than now.
WriterInv(p) ==
  writer[p].pc # "idle" =>
    /\ writer[p].id \in Ids
    /\ writer[p].hash \in 1 .. stamp
    /\ \A q \in Procs \ {p} : writer[q].pc # "idle" => writer[q].hash # writer[p].hash

\* What a put knows stays true: hashes are not forgotten, and the link it is
\* about to write is one of them, or that of the version it replaces.
PutInv(p) ==
  /\ writer[p].pc \in Unwritten => writer[p].hash \notin Known
  /\ writer[p].pc = "latest" => writer[p].seen = Absent
  /\ writer[p].pc = "write" =>
       /\ writer[p].prev \in Known \cup {NoHash}
       /\ writer[p].seen # Absent => writer[p].prev = writer[p].seen.prev

ChainInv ==
  /\ ChainTypeOK
  /\ \A p \in Procs : WriterInv(p)
  /\ raced = {} => /\ Known \subseteq 1 .. stamp
               /\ \A p \in Procs : PutInv(p)
  /\ BrokenOnlyByRace
  /\ Grounded

-----------------------------------------------------------------------------
LEMMA LeastNatural ==
  ASSUME NEW S \in SUBSET Nat, S # {}
  PROVE  \E m \in S : \A k \in S : m <= k
<1> DEFINE R == {ss \in Nat \X Nat : ss[1] < ss[2]}
<1>1. OpToRel(<, Nat) = R
  BY DEF OpToRel
<1>2. IsWellFoundedOn(R, Nat)
  BY <1>1, NatLessThanWellFounded
<1> HIDE DEF R
<1>3. PICK m \in S : \A k \in S : <<k, m>> \notin R
  BY <1>2, WFMin
<1>4. \A k \in S : ~(k < m)
  BY <1>3 DEF R
<1>5. QED
  BY <1>3, <1>4

LEMMA AbsentHashes == Absent \in Versions /\ HashesOf(Absent) = {}
BY ReceiptChainAssumption DEF Absent, Versions, HashesOf, NoHash, Stamps

LEMMA IdleWriterType == IdleWriter \in Writers
BY AbsentHashes, ReceiptChainAssumption DEF IdleWriter, Writers, Pcs, NoHash

\* All that is known, broken or grounded is in the store.
LEMMA SameStore ==
  ASSUME store' = store
  PROVE  Known' = Known /\ (Broken' <=> Broken) /\ Stored' = Stored
BY DEF Known, Broken, Stored

\* The link of a new receipt is a hash that can be found, or none.
LEMMA LatestKnown ==
  ASSUME ChainTypeOK, NEW id \in Ids
  PROVE  Latest(id) \in Known \cup {NoHash} /\ Latest(id) \in 0 .. MaxStamp
<1> DEFINE others == {store[o].hash : o \in Stored \ {id}}
           gaps == {MaxStamp - h : h \in others}
<1>1. others \subseteq 0 .. MaxStamp
  BY DEF ChainTypeOK, Versions, Stored
<1>2. others \subseteq Known \cup {NoHash}
  BY DEF Known, HashesOf, Stored
<1>3. CASE others = {}
  BY <1>3, ReceiptChainAssumption DEF Latest, NoHash
<1>4. CASE others # {}
  <2>1. gaps \in SUBSET Nat
    BY <1>1, ReceiptChainAssumption
  <2>2. PICK g \in gaps : \A k \in gaps : g <= k
    <3>1. gaps # {}
      BY <1>4
    <3> HIDE DEF gaps
    <3>2. QED
      BY <2>1, <3>1, LeastNatural
  <2>3. PICK h \in others : g = MaxStamp - h
    OBVIOUS
  <2>4. \A o \in others : o <= h
    <3>1. SUFFICES ASSUME NEW o \in others PROVE o <= h
      OBVIOUS
    <3>2. MaxStamp - h <= MaxStamp - o
      BY <2>2, <2>3
    <3>3. o \in 0 .. MaxStamp /\ h \in 0 .. MaxStamp
      BY <1>1
    <3>4. QED
      BY <3>2, <3>3, ReceiptChainAssumption
  <2> HIDE DEF gaps, others
  <2>5. (CHOOSE x \in others : \A o \in others : o <= x) \in others
    BY <2>4
  <2>6. Latest(id) \in others
    BY <1>4, <2>5 DEF Latest, others
  <2>7. QED
    BY <1>1, <1>2, <2>6
<1>5. QED
  BY <1>3, <1>4

-----------------------------------------------------------------------------
LEMMA ChainInitial == ChainInit => ChainInv
<1> SUFFICES ASSUME ChainInit PROVE ChainInv
  OBVIOUS
<1> USE ReceiptChainAssumption DEF ChainInit
<1>1. ChainTypeOK
  <2>0. raced \subseteq Ids
    OBVIOUS
  <2>1. stamp \in 0 .. MaxStamp
    OBVIOUS
  <2>2. store \in [Ids -> Versions]
    BY AbsentHashes
  <2>3. writer \in [Procs -> Writers]
    BY IdleWriterType
  <2>4. QED
    BY <2>0, <2>1, <2>2, <2>3 DEF ChainTypeOK, Writers, Pcs
<1>2. Known = {} /\ Stored = {}
  BY AbsentHashes DEF Known, Stored
<1>3. ~Broken
  BY DEF Broken, Absent
<1>4. \A p \in Procs : WriterInv(p) /\ PutInv(p)
  BY DEF WriterInv, PutInv, IdleWriter, Unwritten
<1>5. Grounded
  <2>1. \A S \in (SUBSET Stored) \ {{}} : FALSE
    BY <1>2
  <2>2. QED
    BY <2>1 DEF Grounded
<1>6. QED
  BY <1>1, <1>2, <1>3, <1>4, <1>5 DEF ChainInv, BrokenOnlyByRace

\* A step that stores nothing and gives one process another writer.
LEMMA ReadKeeps ==
  ASSUME ChainInv, NEW p \in Procs, NEW w \in Writers,
         writer' = [writer EXCEPT ![p] = w],
         UNCHANGED <<store, raced>>,
         stamp' \in 0 .. MaxStamp, stamp <= stamp',
         w.pc # "idle" =>
           /\ w.id \in Ids
           /\ w.hash \in 1 .. stamp'
           /\ \A q \in Procs \ {p} : writer[q].pc # "idle" => writer[q].hash # w.hash,
         raced = {} =>
           /\ w.pc \in Unwritten => w.hash \notin Known
           /\ w.pc = "latest" => w.seen = Absent
           /\ w.pc = "write" => /\ w.prev \in Known \cup {NoHash}
                                /\ w.seen # Absent => w.prev = w.seen.prev
  PROVE  ChainInv'
<1>1. Known' = Known /\ (Broken' <=> Broken) /\ Stored' = Stored
  BY SameStore
<1>2. /\ writer' \in [Procs -> Writers] /\ writer'[p] = w
      /\ \A q \in Procs \ {p} : writer'[q] = writer[q]
  BY DEF ChainInv, ChainTypeOK, Writers, Pcs
<1>3. ChainTypeOK'
  BY <1>2 DEF ChainInv, ChainTypeOK, Writers, Pcs
<1>4. ASSUME NEW q \in Procs PROVE WriterInv(q)'
  <2>1. stamp \in Int /\ stamp' \in Int
    BY ReceiptChainAssumption DEF ChainInv, ChainTypeOK
  <2>2. CASE q = p
    BY <1>2, <2>2 DEF WriterInv
  <2>3. CASE q # p
    <3>1. WriterInv(q)
      BY DEF ChainInv
    <3>2. writer[q].pc # "idle" => writer[q].hash \in 1 .. stamp'
      BY <2>1, <3>1 DEF WriterInv
    <3>3. QED
      BY <1>2, <2>3, <3>1, <3>2 DEF WriterInv
  <2>4. QED
    BY <2>2, <2>3
<1>5. ASSUME raced = {}, NEW q \in Procs PROVE PutInv(q)'
  <2>1. CASE q = p
    BY <1>1, <1>2, <1>5, <2>1 DEF PutInv
  <2>2. CASE q # p
    BY <1>1, <1>2, <1>5, <2>2 DEF PutInv, ChainInv
  <2>3. QED
    BY <2>1, <2>2
<1>6. raced = {} => Known \subseteq 1 .. stamp'
  BY ReceiptChainAssumption DEF ChainInv, ChainTypeOK
<1>7. BrokenOnlyByRace' /\ Grounded'
  BY <1>1 DEF ChainInv, BrokenOnlyByRace, Grounded
<1>8. QED
  BY <1>1, <1>3, <1>4, <1>5, <1>6, <1>7 DEF ChainInv

LEMMA BeginKeeps ==
  ASSUME ChainInv, NEW p \in Procs, NEW id \in Ids, Begin(p, id)
  PROVE  ChainInv'
<1> DEFINE w == [pc |-> "read", id |-> id, hash |-> stamp + 1, seen |-> Absent, prev |-> NoHash]
<1>1. stamp \in 0 .. MaxStamp /\ stamp + 1 \in 1 .. MaxStamp /\ stamp' = stamp + 1
  BY ReceiptChainAssumption DEF Begin, ChainInv, ChainTypeOK
<1>2. w \in Writers
  BY <1>1, AbsentHashes, ReceiptChainAssumption DEF Writers, Pcs, NoHash
<1>3. /\ w.pc = "read" /\ w.id = id /\ w.hash = stamp + 1
      /\ writer' = [writer EXCEPT ![p] = w] /\ UNCHANGED <<store, raced>>
  BY DEF Begin
<1>4. raced = {} => stamp + 1 \notin Known
  BY <1>1 DEF ChainInv
<1>5. \A q \in Procs \ {p} : writer[q].pc # "idle" => writer[q].hash # stamp + 1
  BY <1>1 DEF ChainInv, WriterInv
<1> HIDE DEF w
<1>6. w.hash \in 1 .. stamp' /\ stamp' \in 0 .. MaxStamp /\ stamp <= stamp'
  BY <1>1, <1>3, ReceiptChainAssumption
<1>7. QED
  BY <1>2, <1>3, <1>4, <1>5, <1>6, ReadKeeps

LEMMA LeaveKeeps ==
  ASSUME ChainInv, NEW p \in Procs, Leave(p)
  PROVE  ChainInv'
<1>1. /\ IdleWriter \in Writers /\ IdleWriter.pc = "idle"
      /\ writer' = [writer EXCEPT ![p] = IdleWriter] /\ UNCHANGED <<store, raced, stamp>>
  BY IdleWriterType DEF Leave, IdleWriter
<1>2. stamp' \in 0 .. MaxStamp /\ stamp <= stamp'
  BY <1>1, ReceiptChainAssumption DEF ChainInv, ChainTypeOK
<1>3. QED
  BY <1>1, <1>2, ReadKeeps DEF Unwritten

\* The reads: they change what the process of p knows and where it is.
LEMMA ReadsKeep ==
  ASSUME ChainInv, NEW p \in Procs, ReadExisting(p) \/ ReadLatest(p) \/ LatestFails(p)
  PROVE  ChainInv'
<1> DEFINE old == writer[p]
<1>1. /\ old \in Writers /\ old.pc \in {"read", "latest"} /\ old.id \in Ids
      /\ old.hash \in 1 .. stamp
      /\ \A q \in Procs \ {p} : writer[q].pc # "idle" => writer[q].hash # old.hash
  BY DEF ReadExisting, ReadLatest, LatestFails, ChainInv, ChainTypeOK, WriterInv, Writers, Pcs
<1>2. store[old.id] \in Versions
  BY <1>1 DEF ChainInv, ChainTypeOK
<1>3. raced = {} => store[old.id].prev \in Known \cup {NoHash}
  BY <1>1 DEF ChainInv, BrokenOnlyByRace, Broken
<1>4. PICK w \in Writers :
        /\ writer' = [writer EXCEPT ![p] = w]
        /\ w.id = old.id /\ w.hash = old.hash /\ w.pc \in Unwritten
        /\ w.pc = "latest" => w.seen = Absent
        /\ (w.pc = "write" /\ raced = {}) => /\ w.prev \in Known \cup {NoHash}
                                             /\ w.seen # Absent => w.prev = w.seen.prev
  <2>1. CASE ReadExisting(p)
    <3> DEFINE w == [old EXCEPT !.seen = store[old.id], !.prev = store[old.id].prev,
                                !.pc = IF store[old.id] = Absent THEN "latest" ELSE "write"]
    <3>1. /\ w \in Writers /\ w.id = old.id /\ w.hash = old.hash
          /\ w.seen = store[old.id] /\ w.prev = store[old.id].prev
          /\ w.pc = IF store[old.id] = Absent THEN "latest" ELSE "write"
      BY <1>1, <1>2 DEF Writers, Versions, Pcs
    <3>2. writer' = [writer EXCEPT ![p] = w]
      BY <2>1 DEF ReadExisting, ChainInv, ChainTypeOK
    <3> HIDE DEF w
    <3>3. QED
      BY <1>3, <3>1, <3>2 DEF Unwritten
  <2>2. CASE ReadLatest(p)
    <3> DEFINE w == [old EXCEPT !.prev = Latest(old.id), !.pc = "write"]
    <3>1. Latest(old.id) \in Known \cup {NoHash} /\ Latest(old.id) \in 0 .. MaxStamp
      BY <1>1, LatestKnown DEF ChainInv
    <3>2. /\ w \in Writers /\ w.id = old.id /\ w.hash = old.hash /\ w.seen = old.seen
          /\ w.prev = Latest(old.id) /\ w.pc = "write"
      BY <1>1, <3>1 DEF Writers, Pcs
    <3>3. writer' = [writer EXCEPT ![p] = w]
      BY <2>2 DEF ReadLatest, ChainInv, ChainTypeOK
    <3>4. raced = {} => old.seen = Absent
      BY <2>2 DEF ReadLatest, ChainInv, PutInv
    <3> HIDE DEF w
    <3>5. QED
      BY <3>1, <3>2, <3>3, <3>4 DEF Unwritten
  <2>3. CASE LatestFails(p)
    <3> DEFINE w == [old EXCEPT !.pc = "failed"]
    <3>1. w \in Writers /\ w.id = old.id /\ w.hash = old.hash /\ w.pc = "failed"
      BY <1>1 DEF Writers, Pcs
    <3>2. writer' = [writer EXCEPT ![p] = w]
      BY <2>3 DEF LatestFails
    <3> HIDE DEF w
    <3>3. QED
      BY <3>1, <3>2 DEF Unwritten
  <2>4. QED
    BY <2>1, <2>2, <2>3
<1>5. UNCHANGED <<stamp, store, raced>>
  BY DEF ReadExisting, ReadLatest, LatestFails
<1>6. raced = {} => old.hash \notin Known
  BY <1>1 DEF ChainInv, PutInv, Unwritten
<1>7. stamp' \in 0 .. MaxStamp /\ stamp <= stamp'
  BY <1>5, ReceiptChainAssumption DEF ChainInv, ChainTypeOK
<1> HIDE DEF old
<1>8. /\ w.pc # "idle" => /\ w.id \in Ids
                          /\ w.hash \in 1 .. stamp'
                          /\ \A q \in Procs \ {p} : writer[q].pc # "idle" => writer[q].hash # w.hash
      /\ raced = {} => /\ w.pc \in Unwritten => w.hash \notin Known
                       /\ w.pc = "latest" => w.seen = Absent
                       /\ w.pc = "write" => /\ w.prev \in Known \cup {NoHash}
                                            /\ w.seen # Absent => w.prev = w.seen.prev
  BY <1>1, <1>4, <1>5, <1>6
<1>9. QED
  BY <1>4, <1>5, <1>7, <1>8, ReadKeeps

\* The one write.  Without a race it adds a hash to those that can be found, and
\* nothing linked to that hash before: so the chain stays whole, and in any set
\* of receipts the one that was linked to none of the others still is.
LEMMA WriteAdds ==
  ASSUME ChainInv, NEW p \in Procs, Write(p), raced' = {}
  PROVE  LET w == writer[p] IN
         /\ raced = {} /\ w.seen = store[w.id] /\ w.id \in Ids
         /\ w.hash \in 1 .. stamp /\ w.hash \notin Known
         /\ HashesOf(store'[w.id]) = HashesOf(store[w.id]) \cup {w.hash}
         /\ Known' = Known \cup {w.hash}
         /\ store'[w.id].prev = w.prev /\ w.prev \in Known \cup {NoHash}
         /\ w.id \in Stored => w.prev = store[w.id].prev
         /\ Stored' = Stored \cup {w.id}
         /\ \A id \in Ids \ {w.id} : store'[id] = store[id]
<1> DEFINE w == writer[p]
<1>1. raced = {} /\ w.seen = store[w.id] /\ w.pc = "write"
  BY DEF Write
<1>2. w.id \in Ids /\ w.hash \in 1 .. stamp
  BY <1>1 DEF ChainInv, WriterInv
<1>3. w.hash \notin Known /\ w.prev \in Known \cup {NoHash}
  BY <1>1 DEF ChainInv, PutInv, Unwritten
<1>4. w.id \in Stored => w.prev = store[w.id].prev
  BY <1>1 DEF ChainInv, PutInv, Stored
<1> DEFINE v == [hash |-> w.hash, prev |-> w.prev, history |-> Replaced(w.seen)]
<1>5. /\ store'[w.id] = v
      /\ \A id \in Ids \ {w.id} : store'[id] = store[id]
  BY <1>2 DEF Write, ChainInv, ChainTypeOK
<1>6. w.hash # NoHash
  BY <1>2, ReceiptChainAssumption DEF ChainInv, ChainTypeOK, NoHash
<1>7. HashesOf(v) = HashesOf(store[w.id]) \cup {w.hash}
  <2>1. v.hash = w.hash /\ v.history = HashesOf(store[w.id])
    BY <1>1 DEF Replaced
  <2>2. NoHash \notin HashesOf(store[w.id])
    BY DEF HashesOf
  <2> HIDE DEF v, w
  <2>3. QED
    BY <1>6, <2>1, <2>2 DEF HashesOf
<1>8. v # Absent
  BY <1>6 DEF Absent
<1> HIDE DEF v, w
<1>9. Known' = Known \cup {w.hash}
  BY <1>2, <1>5, <1>7 DEF Known
<1>10. Stored' = Stored \cup {w.id}
  BY <1>2, <1>5, <1>8 DEF Stored
<1>11. store'[w.id].prev = w.prev
  BY <1>5 DEF v
<1>12. QED
  BY <1>1, <1>2, <1>3, <1>4, <1>5, <1>7, <1>9, <1>10, <1>11 DEF w

LEMMA WriteGrounds ==
  ASSUME ChainInv, NEW p \in Procs, Write(p), raced' = {}
  PROVE  Grounded'
<1> DEFINE x == writer[p].id
           h == writer[p].hash
<1>1. /\ raced = {} /\ x \in Ids /\ h # NoHash /\ h \notin Known
      /\ HashesOf(store'[x]) = HashesOf(store[x]) \cup {h}
      /\ store'[x].prev \in Known \cup {NoHash}
      /\ x \in Stored => store'[x].prev = store[x].prev
      /\ Stored' = Stored \cup {x}
      /\ \A id \in Ids \ {x} : store'[id] = store[id]
  BY WriteAdds, ReceiptChainAssumption DEF ChainInv, ChainTypeOK, NoHash
<1>2. \A id \in Ids : store[id].prev \in Known \cup {NoHash}
  BY <1>1 DEF ChainInv, BrokenOnlyByRace, Broken
<1>3. x \notin Stored => HashesOf(store[x]) = {}
  BY <1>1, AbsentHashes DEF Stored
<1> HIDE DEF x, h
<1> SUFFICES ASSUME NEW S \in (SUBSET Stored') \ {{}}
             PROVE  \E id \in S : \A o \in S : store'[id].prev \notin HashesOf(store'[o])
  BY DEF Grounded
\* What is grounded in a set of old receipts stays so: no link is to h.
<1>4. ASSUME NEW T \in (SUBSET Stored) \ {{}}, T \subseteq S, S \subseteq T \cup {x},
             x \in S => x \in T \/ x \notin Stored
      PROVE  \E id \in S : \A o \in S : store'[id].prev \notin HashesOf(store'[o])
  <2>1. PICK id \in T : \A o \in T : store[id].prev \notin HashesOf(store[o])
    BY <1>1 DEF ChainInv, Grounded
  <2>2. id \in Ids /\ id \in Stored
    BY DEF Stored
  <2>3. store'[id].prev = store[id].prev
    BY <1>1, <2>2
  <2>4. store[id].prev # h
    BY <1>1, <1>2, <2>2
  <2>5. ASSUME NEW o \in S PROVE store'[id].prev \notin HashesOf(store'[o])
    <3>1. CASE o = x
      BY <1>1, <1>3, <1>4, <2>1, <2>3, <2>4, <3>1
    <3>2. CASE o # x
      <4>1. o \in T /\ o \in Ids
        BY <1>4, <3>2 DEF Stored
      <4>2. QED
        BY <1>1, <2>1, <2>3, <3>2, <4>1
    <3>3. QED
      BY <3>1, <3>2
  <2>6. QED
    BY <1>4, <2>5
<1>5. CASE S \subseteq Stored
  BY <1>4, <1>5
<1>6. CASE S = {x} /\ x \notin Stored
  BY <1>1, <1>3, <1>6
<1>7. CASE x \in S /\ x \notin Stored /\ S # {x}
  <2>1. S \ {x} \in (SUBSET Stored) \ {{}}
    BY <1>1, <1>7
  <2>2. QED
    BY <1>4, <1>7, <2>1
<1>8. QED
  BY <1>1, <1>5, <1>6, <1>7

LEMMA WriteKeeps ==
  ASSUME ChainInv, NEW p \in Procs, Write(p)
  PROVE  ChainInv'
<1> DEFINE w == writer[p]
           n == [w EXCEPT !.pc = "done", !.seen = Absent, !.prev = NoHash]
           v == [hash |-> w.hash, prev |-> w.prev, history |-> Replaced(w.seen)]
<1>1. w \in Writers /\ w.pc = "write"
  BY DEF Write, ChainInv, ChainTypeOK, Writers, Pcs
<1>2. n \in Writers /\ n.pc = "done" /\ n.id = w.id /\ n.hash = w.hash
  <2>1. Absent \in Versions /\ NoHash \in 0 .. MaxStamp /\ "done" \in Pcs
    BY AbsentHashes, ReceiptChainAssumption DEF Pcs, NoHash
  <2> HIDE DEF w
  <2>2. QED
    BY <1>1, <2>1 DEF Writers
<1>3. /\ writer' \in [Procs -> Writers] /\ writer'[p] = n
      /\ \A q \in Procs \ {p} : writer'[q] = writer[q]
  BY <1>2 DEF Write, ChainInv, ChainTypeOK, Writers, Pcs
<1>4. v \in Versions
  <2>1. w.seen.hash \in 0 .. MaxStamp /\ w.seen.history \in SUBSET Stamps
    BY <1>1 DEF Writers, Versions
  <2>2. HashesOf(w.seen) \subseteq Stamps
    BY <2>1, ReceiptChainAssumption DEF HashesOf, Stamps, NoHash
  <2>3. QED
    BY <1>1, <2>2 DEF Versions, Writers, Replaced
<1>5. /\ store' = [store EXCEPT ![w.id] = v] /\ stamp' = stamp
      /\ raced' = raced \cup {id \in {w.id} : store[id] # w.seen}
  BY DEF Write
<1>6. ChainTypeOK'
  <2>1. store' \in [Ids -> Versions]
    BY <1>4, <1>5 DEF ChainInv, ChainTypeOK
  <2>2. raced' \subseteq Ids
    BY <1>1, <1>5 DEF ChainInv, ChainTypeOK, WriterInv
  <2>3. QED
    BY <1>3, <1>5, <2>1, <2>2 DEF ChainInv, ChainTypeOK, Writers, Pcs
<1> HIDE DEF n, v
<1>7. ASSUME NEW q \in Procs PROVE WriterInv(q)'
  BY <1>1, <1>2, <1>3, <1>5 DEF ChainInv, WriterInv
<1>8. raced' = {} =>
        /\ Known' \subseteq 1 .. stamp'
        /\ \A q \in Procs : PutInv(q)'
        /\ ~Broken'
        /\ Grounded'
  <2> SUFFICES ASSUME raced' = {}
               PROVE  /\ Known' \subseteq 1 .. stamp'
                      /\ \A q \in Procs : PutInv(q)'
                      /\ ~Broken'
                      /\ Grounded'
    OBVIOUS
  <2>1. /\ raced = {} /\ w.id \in Ids /\ w.hash \in 1 .. stamp
        /\ Known' = Known \cup {w.hash}
        /\ store'[w.id].prev \in Known \cup {NoHash}
        /\ \A id \in Ids \ {w.id} : store'[id] = store[id]
    BY WriteAdds
  <2>2. Known' \subseteq 1 .. stamp'
    BY <1>5, <2>1 DEF ChainInv
  <2>3. ASSUME NEW q \in Procs PROVE PutInv(q)'
    <3>1. CASE q = p
      BY <1>2, <1>3, <3>1 DEF PutInv, Unwritten
    <3>2. CASE q # p
      <4>1. writer'[q] = writer[q] /\ PutInv(q)
        BY <1>3, <2>1, <3>2 DEF ChainInv
      <4>2. writer[q].pc \in Unwritten => writer[q].hash # w.hash
        BY <1>1, <3>2 DEF ChainInv, WriterInv, Unwritten
      <4>3. QED
        BY <2>1, <4>1, <4>2 DEF PutInv
    <3>3. QED
      BY <3>1, <3>2
  <2>4. ~Broken'
    <3>1. \A id \in Ids : store[id].prev \in Known \cup {NoHash}
      BY <2>1 DEF ChainInv, BrokenOnlyByRace, Broken
    <3>2. \A id \in Ids : store'[id].prev \in Known' \cup {NoHash}
      BY <2>1, <3>1
    <3>3. QED
      BY <3>2 DEF Broken
  <2>5. QED
    BY <2>2, <2>3, <2>4, WriteGrounds
<1>9. QED
  BY <1>6, <1>7, <1>8 DEF ChainInv, BrokenOnlyByRace, Grounded

LEMMA ChainStep ==
  ASSUME ChainInv, [ChainNext]_chainVars
  PROVE  ChainInv'
<1>1. CASE UNCHANGED chainVars
  <2>1. Known' = Known /\ (Broken' <=> Broken) /\ Stored' = Stored
    BY <1>1, SameStore DEF chainVars
  <2>2. ChainTypeOK' /\ \A p \in Procs : WriterInv(p)' /\ (PutInv(p) => PutInv(p)')
    BY <1>1, <2>1 DEF chainVars, ChainInv, ChainTypeOK, WriterInv, PutInv
  <2>3. QED
    BY <1>1, <2>1, <2>2 DEF chainVars, ChainInv, BrokenOnlyByRace, Grounded
<1>2. QED
  BY <1>1, BeginKeeps, ReadsKeep, WriteKeeps, LeaveKeeps DEF ChainNext, Putting

LEMMA ChainInvariant == ChainSpec => []ChainInv
BY ChainInitial, ChainStep, PTL DEF ChainSpec

-----------------------------------------------------------------------------
\* Type correctness of the chain's part of the state.
THEOREM ChainTypeCorrect == ChainSpec => []ChainTypeOK
<1>1. ChainInv => ChainTypeOK
  BY DEF ChainInv
<1>2. QED
  BY <1>1, ChainInvariant, PTL

\* The chain only stops verifying when two processes put one id together.
THEOREM OnlyRacesBreak == ChainSpec => []BrokenOnlyByRace
<1>1. ChainInv => BrokenOnlyByRace
  BY DEF ChainInv
<1>2. QED
  BY <1>1, ChainInvariant, PTL

\* Without a race no set of receipts is linked to itself all around.
THEOREM ChainIsGrounded == ChainSpec => []Grounded
<1>1. ChainInv => Grounded
  BY DEF ChainInv
<1>2. QED
  BY <1>1, ChainInvariant, PTL

\* Every put is a step of the audit log: it records one new hash, or a race.
THEOREM AuditIsImplemented == ChainSpec => AuditSpec
<1>1. ChainInit => Audit!Init
  <2>1. ChainInit => Known = {}
    BY AbsentHashes DEF ChainInit, Known
  <2>2. QED
    BY <2>1 DEF ChainInit, Audit!Init
<1>2. ASSUME ChainInv, [ChainNext]_chainVars
      PROVE  [Audit!Next]_<<Known, raced # {}>>
  <2>1. CASE UNCHANGED <<store, raced>>
    BY <2>1, SameStore
  <2>2. ASSUME NEW p \in Procs, Write(p) PROVE Audit!Next
    <3>1. ChainInv'
      BY <1>2, <2>2, WriteKeeps
    <3>2. CASE raced' # {}
      <4>1. ChainTypeOK'
        BY <3>1 DEF ChainInv
      <4>2. \A id \in Ids : (HashesOf(store[id]))' \subseteq Stamps
        BY <4>1, ReceiptChainAssumption
           DEF ChainTypeOK, HashesOf, Versions, Stamps, NoHash
      <4>3. Known' \subseteq Stamps
        BY <4>2 DEF Known
      <4>4. QED
        BY <3>1, <3>2, <4>3 DEF ChainInv, ChainTypeOK, Audit!Next, Audit!Race
    <3>3. CASE raced' = {}
      <4>1. /\ raced = {} /\ writer[p].hash \in 1 .. stamp /\ writer[p].hash \notin Known
            /\ Known' = Known \cup {writer[p].hash}
        BY <1>2, <2>2, <3>3, WriteAdds
      <4>2. writer[p].hash \in Stamps
        BY <1>2, <4>1, ReceiptChainAssumption DEF ChainInv, ChainTypeOK, Stamps
      <4>3. raced' = raced
        BY <1>2, <3>1, <3>3, <4>1 DEF ChainInv, ChainTypeOK
      <4>4. QED
        BY <4>1, <4>2, <4>3 DEF Audit!Next, Audit!Record
    <3>4. QED
      BY <3>2, <3>3
  <2>3. QED
    BY <1>2, <2>1, <2>2
       DEF ChainNext, Putting, Begin, ReadExisting, ReadLatest, LatestFails, Leave, chainVars
<1>3. QED
  BY <1>1, <1>2, ChainInvariant, PTL DEF ChainSpec, AuditSpec, Audit!Spec
=============================================================================
