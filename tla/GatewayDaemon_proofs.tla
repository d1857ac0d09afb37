------------------------ MODULE GatewayDaemon_proofs ------------------------
(***************************************************************************)
(* Theorems about GatewayDaemon, for every number of starts and of stop    *)
(* commands.  Each of its properties follows from an invariant of its own  *)
(* that says more of the daemons on their way out.                         *)
(***************************************************************************)
EXTENDS GatewayDaemon, TLAPS

DaemonPcs == Over \cup Bound \cup {"locked", "starting", "closed", "releasing"}

\* The steps of a daemon that change neither the record nor the pid file, and
\* what they do to the one who takes them.
LEMMA GoesTypes ==
  ASSUME NEW d \in Daemons, NEW pc \in DaemonPcs, Goes(d, pc),
         daemon \in [Daemons -> DaemonPcs]
  PROVE  /\ daemon' \in [Daemons -> DaemonPcs]
         /\ daemon'[d] = pc
         /\ \A e \in Daemons \ {d} : daemon'[e] = daemon[e]
BY DEF Goes

StopTypes == [pc : {"unstarted", "signal", "put", "release", "released", "done"},
              signal : BOOLEAN, seen : Daemons \cup {NoPid}, of : SUBSET Daemons]

LEMMA NewStopTypes ==
  /\ NewStop \in StopTypes
  /\ [NewStop EXCEPT !.pc = "released"] \in StopTypes
  /\ [NewStop EXCEPT !.pc = "done"] \in StopTypes
BY DEF NewStop, StopTypes

LEMMA InitTypes == Init => TypeOK
BY NewStopTypes DEF Init, TypeOK, StopTypes, Over

LEMMA DaemonTypes ==
  ASSUME TypeOK, NEW d \in Daemons,
         \/ Acquire(d) \/ Refused(d) \/ AcquireFails(d)
         \/ PutStarting(d) \/ Bind(d) \/ BindFails(d) \/ PutRunning(d) \/ ServeFails(d)
         \/ CloseServer(d) \/ PutStopped(d) \/ Release(d)
         \/ Interrupt(d) \/ InterruptBound(d) \/ InterruptHard(d) \/ Kill(d)
  PROVE  TypeOK'
<1>1. PICK pc \in DaemonPcs : Goes(d, pc)
  BY DEF DaemonPcs, Over, Bound, Acquire, Unlocked, Refused, AcquireFails,
         PutStarting, Bind, BindFails, PutRunning, ServeFails, CloseServer, PutStopped, Release,
         Interrupt, InterruptBound, InterruptHard, Kill, Dies
<1>2. daemon' \in [Daemons -> DaemonPcs]
  BY <1>1, GoesTypes DEF TypeOK, DaemonPcs
<1>3. UNCHANGED stop
  BY DEF Acquire, Unlocked, Refused, AcquireFails, PutStarting, Bind, BindFails,
         PutRunning, ServeFails, CloseServer, PutStopped, Release, Interrupt, InterruptBound,
         InterruptHard, Kill
<1>4. pidfile' \in Daemons \cup {NoPid} /\ cut' \subseteq Daemons /\ unlocked' \subseteq Daemons
  BY DEF TypeOK, Acquire, Unlocked, Refused, AcquireFails, PutStarting, Bind, BindFails,
         PutRunning, ServeFails, CloseServer, PutStopped, Release, Interrupt, InterruptBound,
         InterruptHard, Kill, Dies
<1>5. record' \in [status : {"starting", "running", "stopped", "failed"},
                   pid : Daemons \cup {NoPid}]
  BY DEF TypeOK, Records, Acquire, Unlocked, Refused, AcquireFails, PutStarting, Bind, BindFails,
         PutRunning, ServeFails, CloseServer, PutStopped, Release, Interrupt, InterruptBound,
         InterruptHard, Kill, Dies
<1>6. QED
  BY <1>2, <1>3, <1>4, <1>5 DEF TypeOK, DaemonPcs

\* Type correctness: TypeOK is inductive.
THEOREM TypeCorrect == Spec => []TypeOK
<1>1. ASSUME TypeOK, [Next]_vars PROVE TypeOK'
  <2>1. CASE UNCHANGED vars
    BY <1>1, <2>1 DEF TypeOK, vars
  <2>2. ASSUME NEW t \in Stops, NEW signal \in BOOLEAN, StopRead(t, signal) PROVE TypeOK'
    BY <1>1, <2>2 DEF TypeOK, StopRead, Started
  <2>3. ASSUME NEW t \in Stops, StopSignal(t) PROVE TypeOK'
    <3>1. stop[t].seen \in Alive => stop[t].seen \in Daemons
      BY DEF Alive
    <3>2. QED
      BY <1>1, <2>3, <3>1 DEF TypeOK, StopSignal, At, Dies, Goes, Over
  <2>4. ASSUME NEW t \in Stops, StopPut(t) PROVE TypeOK'
    BY <1>1, <2>4 DEF TypeOK, StopPut, At, Records
  <2>5. ASSUME NEW t \in Stops, StopRelease(t) PROVE TypeOK'
    <3>1. stop' \in [Stops -> StopTypes]
      BY <1>1, <2>5, NewStopTypes DEF TypeOK, StopTypes, StopRelease
    <3>2. QED
      BY <1>1, <2>5, <3>1 DEF TypeOK, StopTypes, StopRelease
  <2>6. QED
    BY <1>1, <2>1, <2>2, <2>3, <2>4, <2>5, DaemonTypes DEF Next
<1>2. QED
  BY InitTypes, <1>1, PTL DEF Spec

(***************************************************************************)
(* The record.  A daemon on its way out by a way of its own is no longer   *)
(* the recorded one, which RecordHonest alone does not say.                *)
(***************************************************************************)
Recorded == {"starting", "bound", "serving", "closing", "closed", "hung"}

RecordInv ==
  TypeOK /\ (record.pid # NoPid => daemon[record.pid] \in Recorded \/ record.pid \in cut)

\* A daemon that keeps to its ways, the record and the history unchanged.
LEMMA RecordKept ==
  ASSUME RecordInv, NEW d \in Daemons, NEW pc \in DaemonPcs, Goes(d, pc),
         UNCHANGED record, cut \subseteq cut',
         daemon[d] \in Recorded => pc \in Recorded \/ d \in cut'
  PROVE  record'.pid # NoPid => daemon'[record'.pid] \in Recorded \/ record'.pid \in cut'
<1>1. record.pid # NoPid => record.pid \in Daemons
  BY DEF RecordInv, TypeOK
<1>2. daemon'[d] = pc /\ \A e \in Daemons \ {d} : daemon'[e] = daemon[e]
  BY GoesTypes DEF RecordInv, TypeOK, DaemonPcs
<1>3. QED
  BY <1>1, <1>2 DEF RecordInv

\* A process the record says is starting or running lives or was cut off.
THEOREM RecordIsHonest == Spec => []RecordHonest
<1> USE GatewayDaemonAssumption
<1> DEFINE Named == record.pid # NoPid => daemon[record.pid] \in Recorded \/ record.pid \in cut
<1>1. Init => RecordInv
  BY InitTypes DEF Init, RecordInv
<1>2. ASSUME RecordInv, TypeOK', [Next]_vars PROVE RecordInv'
  <2> SUFFICES Named'
    BY <1>2 DEF RecordInv
  <2> USE DEF DaemonPcs, Over, Bound, Recorded
  <2>1. CASE UNCHANGED vars
    BY <1>2, <2>1 DEF RecordInv, vars
  <2>2. ASSUME NEW d \in Daemons, Acquire(d) PROVE Named'
    BY <1>2, <2>2, RecordKept DEF Acquire
  <2>3. ASSUME NEW d \in Daemons, Refused(d) \/ AcquireFails(d) PROVE Named'
    BY <1>2, <2>3, RecordKept DEF Unlocked, Refused, AcquireFails
  <2>4. ASSUME NEW d \in Daemons, PutStarting(d) PROVE Named'
    <3>1. record'.pid = d /\ daemon'[d] = "starting"
      BY <1>2, <2>4, GoesTypes DEF PutStarting, Records, RecordInv, TypeOK
    <3>2. QED
      BY <3>1
  <2>5. ASSUME NEW d \in Daemons, Bind(d) PROVE Named'
    BY <1>2, <2>5, RecordKept DEF Bind
  <2>6. ASSUME NEW d \in Daemons, BindFails(d) \/ ServeFails(d) \/ PutStopped(d) PROVE Named'
    BY <2>6 DEF BindFails, ServeFails, PutStopped, Records
  <2>7. ASSUME NEW d \in Daemons, PutRunning(d) PROVE Named'
    <3>1. record'.pid = d /\ daemon'[d] = "serving"
      BY <1>2, <2>7, GoesTypes DEF PutRunning, Records, RecordInv, TypeOK
    <3>2. QED
      BY <3>1
  <2>8. ASSUME NEW d \in Daemons, CloseServer(d) PROVE Named'
    BY <1>2, <2>8, RecordKept DEF CloseServer
  <2>9. ASSUME NEW d \in Daemons, Release(d) PROVE Named'
    BY <1>2, <2>9, RecordKept DEF Release
  <2>10. ASSUME NEW d \in Daemons, Interrupt(d) PROVE Named'
    BY <1>2, <2>10, RecordKept DEF Interrupt
  <2>11. ASSUME NEW d \in Daemons, InterruptBound(d) PROVE Named'
    <3>1. CASE UNCHANGED record
      BY <1>2, <2>11, <3>1, RecordKept DEF InterruptBound
    <3>2. CASE Records("failed", NoPid)
      BY <3>2 DEF Records
    <3>3. QED
      BY <2>11, <3>1, <3>2 DEF InterruptBound
  <2>12. ASSUME NEW d \in Daemons, InterruptHard(d) PROVE Named'
    BY <1>2, <2>12, RecordKept DEF InterruptHard
  <2>13. ASSUME NEW d \in Daemons, Kill(d) PROVE Named'
    BY <1>2, <2>13, RecordKept DEF Kill, Dies
  <2>14. ASSUME NEW t \in Stops, StopSignal(t) PROVE Named'
    <3>1. CASE stop[t].signal /\ stop[t].seen \in Alive
      <4>1. stop[t].seen \in Daemons
        BY <3>1 DEF Alive
      <4>2. QED
        BY <1>2, <2>14, <3>1, <4>1, RecordKept DEF StopSignal, Dies
    <3>2. CASE ~(stop[t].signal /\ stop[t].seen \in Alive)
      BY <1>2, <2>14, <3>2 DEF StopSignal, RecordInv
    <3>3. QED
      BY <3>1, <3>2
  <2>15. ASSUME NEW t \in Stops, StopPut(t) PROVE Named'
    BY <2>15 DEF StopPut, Records
  <2>16. ASSUME NEW t \in Stops,
                StopRelease(t) \/ \E signal \in BOOLEAN : StopRead(t, signal)
         PROVE  Named'
    BY <1>2, <2>16 DEF StopRelease, StopRead, RecordInv
  <2>17. QED
    BY <1>2, <2>1, <2>2, <2>3, <2>4, <2>5, <2>6, <2>7, <2>8, <2>9, <2>10, <2>11, <2>12,
       <2>13, <2>14, <2>15, <2>16 DEF Next
<1>3. RecordInv => RecordHonest
  BY DEF RecordInv, TypeOK, RecordHonest, Alive, Over, Recorded
<1>4. QED
  BY <1>1, <1>2, <1>3, TypeCorrect, PTL DEF Spec

(***************************************************************************)
(* The pid file.                                                           *)
(***************************************************************************)
\* What a step other than a start or a release does to a daemon.
Moves(d) ==
  /\ UNCHANGED pidfile
  /\ \E pc \in DaemonPcs \ {"unstarted", "ended"} :
       /\ Goes(d, pc)
       /\ pc = "dead" \/ daemon[d] \notin {"releasing", "ended", "dead"}
       /\ daemon[d] = "unstarted" => d \in unlocked'

LEMMA DaemonMoves ==
  ASSUME NEW d \in Daemons,
         \/ Refused(d) \/ AcquireFails(d)
         \/ PutStarting(d) \/ Bind(d) \/ BindFails(d) \/ PutRunning(d) \/ ServeFails(d)
         \/ CloseServer(d) \/ PutStopped(d)
         \/ Interrupt(d) \/ InterruptBound(d) \/ InterruptHard(d) \/ Kill(d)
  PROVE  Moves(d) /\ UNCHANGED stop /\ unlocked \subseteq unlocked'
<1> USE DEF Moves, DaemonPcs, Over, Bound
<1>1. CASE \/ Refused(d) \/ AcquireFails(d)
          \/ PutStarting(d) \/ Bind(d) \/ BindFails(d) \/ PutRunning(d)
  BY <1>1 DEF Unlocked, Refused, AcquireFails, PutStarting, Bind, BindFails, PutRunning
<1>2. CASE ServeFails(d) \/ CloseServer(d) \/ PutStopped(d)
  BY <1>2 DEF ServeFails, CloseServer, PutStopped
<1>3. CASE Interrupt(d) \/ InterruptBound(d) \/ InterruptHard(d)
  BY <1>3 DEF Interrupt, InterruptBound, InterruptHard
<1>4. CASE Kill(d)
  BY <1>4 DEF Kill, Dies, Alive
<1>5. QED
  BY <1>1, <1>2, <1>3, <1>4

\* A stop command's signal kills a daemon or changes none.
LEMMA SignalMoves ==
  ASSUME NEW t \in Stops, StopSignal(t)
  PROVE  \/ \E d \in Daemons : Moves(d) /\ daemon[d] # "unstarted"
         \/ UNCHANGED <<daemon, pidfile>>
<1>1. CASE stop[t].signal /\ stop[t].seen \in Alive
  <2>1. stop[t].seen \in Daemons /\ daemon[stop[t].seen] # "unstarted"
    BY <1>1 DEF Alive, Over
  <2>2. Moves(stop[t].seen)
    BY <1>1, <2>1 DEF StopSignal, Dies, Moves, DaemonPcs, Over, Bound
  <2>3. QED
    BY <2>1, <2>2
<1>2. QED
  BY <1>1 DEF StopSignal

\* The pid file a later start is refused for was created by a process that
\* lives or was killed.
THEOREM PidFileIsHonest == Spec => []PidFileHonest
<1> USE GatewayDaemonAssumption
<1>1. Init => PidFileHonest
  BY DEF Init, PidFileHonest
<1>2. ASSUME TypeOK, PidFileHonest, [Next]_vars PROVE PidFileHonest'
  <2> USE DEF DaemonPcs, Over, Bound
  <2>1. ASSUME NEW d \in Daemons, Moves(d) PROVE PidFileHonest'
    <3>1. PICK pc \in DaemonPcs \ {"unstarted", "ended"} : Goes(d, pc)
      BY <2>1 DEF Moves
    <3>2. daemon'[d] = pc /\ \A e \in Daemons \ {d} : daemon'[e] = daemon[e]
      BY <1>2, <3>1, GoesTypes DEF TypeOK
    <3>3. QED
      BY <1>2, <2>1, <3>2 DEF Moves, PidFileHonest, Alive, TypeOK
  <2>2. ASSUME NEW d \in Daemons, Acquire(d) PROVE PidFileHonest'
    BY <1>2, <2>2, GoesTypes DEF Acquire, PidFileHonest, Alive, TypeOK
  <2>3. ASSUME NEW d \in Daemons, Release(d) PROVE PidFileHonest'
    BY <2>3 DEF Release, PidFileHonest
  <2>4. ASSUME NEW t \in Stops, StopSignal(t) PROVE PidFileHonest'
    BY <1>2, <2>1, <2>4, SignalMoves DEF PidFileHonest, Alive
  <2>5. ASSUME NEW t \in Stops,
               StopPut(t) \/ StopRelease(t) \/ \E signal \in BOOLEAN : StopRead(t, signal)
        PROVE  PidFileHonest'
    BY <1>2, <2>5 DEF StopPut, StopRelease, StopRead, PidFileHonest, Alive
  <2>6. CASE UNCHANGED vars
    BY <1>2, <2>6 DEF vars, PidFileHonest, Alive
  <2>7. QED
    BY <1>2, <2>1, <2>2, <2>3, <2>4, <2>5, <2>6, DaemonMoves DEF Next
<1>3. QED
  BY <1>1, <1>2, TypeCorrect, PTL DEF Spec

\* Until something took the pid file, a daemon on its way out has it too: the
\* one it then removes is its own.
Untouched == unlocked = {} /\ \A t \in Stops : stop[t].pc # "released"
Owns(d) == Holds(d) \/ daemon[d] = "releasing"
GuardInv == Untouched => \A d \in Daemons : Owns(d) => pidfile = d

\* As long as every start got the lock or has not come to it, and no stop command
\* released the file, the file is that of the one daemon past the lock.
THEOREM LockIsGuarded == Spec => []Guarded
<1> USE GatewayDaemonAssumption
<1>1. Init => GuardInv
  BY DEF Init, GuardInv, Owns, Holds, Bound
<1>2. ASSUME TypeOK, GuardInv, [Next]_vars PROVE GuardInv'
  <2> USE DEF DaemonPcs, Over, Bound
  <2>1. ASSUME NEW d \in Daemons, Moves(d), Untouched, daemon[d] # "unstarted"
        PROVE  \A e \in Daemons : Owns(e)' => pidfile' = e
    <3>1. PICK pc \in DaemonPcs \ {"unstarted", "ended"} :
            Goes(d, pc) /\ (pc = "dead" \/ daemon[d] \notin {"releasing", "ended", "dead"})
      BY <2>1 DEF Moves
    <3>2. daemon'[d] = pc /\ \A e \in Daemons \ {d} : daemon'[e] = daemon[e]
      BY <1>2, <3>1, GoesTypes DEF TypeOK
    <3>3. Owns(d)' => Owns(d)
      BY <1>2, <2>1, <3>1, <3>2 DEF Owns, Holds, TypeOK
    <3>4. \A e \in Daemons \ {d} : Owns(e)' => Owns(e)
      BY <3>2 DEF Owns, Holds
    <3>5. QED
      BY <1>2, <2>1, <3>3, <3>4 DEF Moves, GuardInv
  <2>2. ASSUME NEW d \in Daemons, Acquire(d) PROVE GuardInv'
    <3>1. Untouched' => Untouched
      BY <2>2 DEF Acquire, Untouched
    <3>2. \A e \in Daemons \ {d} : daemon'[e] = daemon[e]
      BY <1>2, <2>2, GoesTypes DEF Acquire, TypeOK
    <3>3. QED
      BY <1>2, <2>2, <3>1, <3>2 DEF Acquire, GuardInv, Owns, Holds
  <2>3. ASSUME NEW d \in Daemons, Release(d) PROVE GuardInv'
    <3>1. Untouched' => Untouched
      BY <2>3 DEF Release, Untouched
    <3>2. daemon'[d] = "ended" /\ \A e \in Daemons \ {d} : daemon'[e] = daemon[e]
      BY <1>2, <2>3, GoesTypes DEF Release, TypeOK
    <3>3. Owns(d)
      BY <2>3 DEF Release, Owns
    <3>4. QED
      BY <1>2, <3>1, <3>2, <3>3 DEF GuardInv, Owns, Holds
  <2>4. ASSUME NEW d \in Daemons, Moves(d), UNCHANGED stop, unlocked \subseteq unlocked'
        PROVE  GuardInv'
    <3>1. Untouched' => Untouched /\ daemon[d] # "unstarted"
      BY <1>2, <2>4 DEF Moves, Untouched, TypeOK
    <3>2. QED
      BY <2>1, <2>4, <3>1 DEF GuardInv
  <2>5. ASSUME NEW t \in Stops, StopSignal(t) PROVE GuardInv'
    <3>1. Untouched' => Untouched
      BY <1>2, <2>5 DEF StopSignal, At, Untouched, TypeOK
    <3>2. CASE UNCHANGED <<daemon, pidfile>>
      BY <1>2, <3>1, <3>2 DEF GuardInv, Owns, Holds
    <3>3. CASE \E d \in Daemons : Moves(d) /\ daemon[d] # "unstarted"
      BY <2>1, <3>1, <3>3 DEF GuardInv
    <3>4. QED
      BY <2>5, <3>2, <3>3, SignalMoves
  <2>6. ASSUME NEW t \in Stops, NEW signal \in BOOLEAN, StopRead(t, signal) PROVE GuardInv'
    <3>1. Untouched' => Untouched
      BY <1>2, <2>6 DEF StopRead, Untouched, TypeOK
    <3>2. QED
      BY <1>2, <2>6, <3>1 DEF StopRead, GuardInv, Owns, Holds
  <2>7. ASSUME NEW t \in Stops, StopPut(t) PROVE GuardInv'
    <3>1. Untouched' => Untouched
      BY <1>2, <2>7 DEF StopPut, At, Untouched, TypeOK
    <3>2. QED
      BY <1>2, <2>7, <3>1 DEF StopPut, GuardInv, Owns, Holds
  <2>8. ASSUME NEW t \in Stops, StopRelease(t) PROVE GuardInv'
    <3>1. CASE LooksStale(t)
      <4>1. [NewStop EXCEPT !.pc = "released"].pc = "released"
        BY DEF NewStop
      <4>2. stop'[t].pc = "released"
        BY <1>2, <2>8, <3>1, <4>1 DEF StopRelease, TypeOK
      <4>3. QED
        BY <4>2 DEF GuardInv, Untouched
    <3>2. CASE ~LooksStale(t)
      <4>1. Untouched' => Untouched
        BY <1>2, <2>8, <3>2 DEF StopRelease, Untouched, TypeOK
      <4>2. QED
        BY <1>2, <2>8, <3>2, <4>1 DEF StopRelease, GuardInv, Owns, Holds
    <3>3. QED
      BY <3>1, <3>2
  <2>9. CASE UNCHANGED vars
    BY <1>2, <2>9 DEF vars, GuardInv, Untouched, Owns, Holds
  <2>10. QED
    BY <1>2, <2>2, <2>3, <2>4, <2>5, <2>6, <2>7, <2>8, <2>9, DaemonMoves DEF Next
<1>3. GuardInv => Guarded
  BY DEF GuardInv, Guarded, Untouched, Owns
<1>4. QED
  BY <1>1, <1>2, <1>3, TypeCorrect, PTL DEF Spec

(***************************************************************************)
(* Stop commands.                                                          *)
(***************************************************************************)
DaemonStep(d) ==
  \/ Acquire(d) \/ Refused(d) \/ AcquireFails(d)
  \/ PutStarting(d) \/ Bind(d) \/ BindFails(d) \/ PutRunning(d) \/ ServeFails(d)
  \/ CloseServer(d) \/ PutStopped(d) \/ Release(d)
  \/ Interrupt(d) \/ InterruptBound(d) \/ InterruptHard(d) \/ Kill(d)

\* Only a process that lives or starts takes a step, and none unstarts.
LEMMA DaemonStarts ==
  ASSUME TypeOK, NEW d \in Daemons, DaemonStep(d)
  PROVE  /\ UNCHANGED stop
         /\ Started \subseteq Started'
         /\ d \in Alive \/ (d \notin Started /\ d \in Started')
<1> USE DEF Over, Bound
<1>1. UNCHANGED stop
  BY DEF DaemonStep, Acquire, Unlocked, Refused, AcquireFails, PutStarting, Bind, BindFails,
         PutRunning, ServeFails, CloseServer, PutStopped, Release, Interrupt, InterruptBound,
         InterruptHard, Kill
<1>2. PICK pc \in DaemonPcs \ {"unstarted"} : Goes(d, pc)
  BY DEF DaemonPcs, DaemonStep, Acquire, Unlocked, Refused, AcquireFails,
         PutStarting, Bind, BindFails,
         PutRunning, ServeFails, CloseServer, PutStopped, Release, Interrupt, InterruptBound,
         InterruptHard, Kill, Dies
<1>3. daemon'[d] = pc /\ \A e \in Daemons \ {d} : daemon'[e] = daemon[e]
  BY <1>2, GoesTypes DEF TypeOK, DaemonPcs
<1>4. daemon[d] \notin {"ended", "dead"}
  BY DEF DaemonStep, Acquire, Unlocked, Refused, AcquireFails, PutStarting, Bind, BindFails,
         PutRunning, ServeFails, CloseServer, PutStopped, Release, Interrupt, InterruptBound,
         InterruptHard, Kill, Alive
<1>5. QED
  BY <1>1, <1>2, <1>3, <1>4 DEF Started, Alive

\* If no daemon started since the read of a stop command in whose time none
\* lived, none lives, and what the command has stored is what is stored.
Stopped == [status |-> "stopped", pid |-> NoPid]

RecoverInv ==
  \A t \in Stops : stop[t].pc \in {"signal", "put", "release"} =>
    /\ stop[t].of \subseteq Started
    /\ Started = stop[t].of => Alive = {} /\ (stop[t].pc = "release" => record = Stopped)

\* The step at which a stop command ends leaves no pid file and no process in
\* the record, if no daemon lived in its time.
THEOREM StopsRecover == Spec => StopRecovers
<1> USE GatewayDaemonAssumption
<1>1. Init => RecoverInv
  BY DEF Init, RecoverInv, NewStop
<1>2. ASSUME TypeOK, RecoverInv, [Next]_vars PROVE RecoverInv'
  <2>1. CASE UNCHANGED vars
    BY <1>2, <2>1 DEF vars, RecoverInv, Started, Alive
  <2>2. ASSUME NEW d \in Daemons, DaemonStep(d) PROVE RecoverInv'
    <3> SUFFICES ASSUME NEW t \in Stops, stop'[t].pc \in {"signal", "put", "release"}
                 PROVE  stop'[t].of \subseteq Started' /\ Started' # stop'[t].of
      BY DEF RecoverInv
    <3>1. stop' = stop /\ Started \subseteq Started'
      BY <1>2, <2>2, DaemonStarts
    <3>2. stop[t].of \subseteq Started /\ (Started = stop[t].of => Alive = {})
      BY <1>2, <3>1 DEF RecoverInv
    <3>3. Started = stop[t].of => d \notin Started /\ d \in Started'
      BY <1>2, <2>2, <3>2, DaemonStarts
    <3>4. QED
      BY <3>1, <3>2, <3>3
  <2>3. ASSUME NEW t \in Stops, NEW signal \in BOOLEAN, StopRead(t, signal)
        PROVE  RecoverInv'
    <3>1. Started' = Started /\ Alive' = Alive /\ record' = record
      BY <2>3 DEF StopRead, Started, Alive
    <3>2. stop'[t].pc = "signal" /\ stop'[t].of = (IF Alive = {} THEN Started ELSE {})
      BY <1>2, <2>3 DEF StopRead, TypeOK
    <3>3. \A u \in Stops \ {t} : stop'[u] = stop[u]
      BY <1>2, <2>3 DEF StopRead, TypeOK
    <3>4. Alive # {} => Started # {}
      BY DEF Alive, Started, Over
    <3>5. QED
      BY <1>2, <3>1, <3>2, <3>3, <3>4 DEF RecoverInv
  <2>4. ASSUME NEW t \in Stops, StopSignal(t) PROVE RecoverInv'
    <3>1. Started' = Started /\ Alive' \subseteq Alive
      BY <1>2, <2>4 DEF StopSignal, Dies, Goes, Started, Alive, Over, TypeOK
    <3>2. \A u \in Stops : stop'[u].of = stop[u].of
      BY <1>2, <2>4 DEF StopSignal, At, TypeOK
    <3>3. \A u \in Stops \ {t} : stop'[u].pc = stop[u].pc
      BY <1>2, <2>4 DEF StopSignal, At, TypeOK
    <3>4. stop[t].pc = "signal" /\ stop'[t].pc = "put" /\ record' = record
      BY <1>2, <2>4 DEF StopSignal, At, TypeOK
    <3>5. QED
      BY <1>2, <3>1, <3>2, <3>3, <3>4 DEF RecoverInv
  <2>5. ASSUME NEW t \in Stops, StopPut(t) PROVE RecoverInv'
    <3>1. Started' = Started /\ Alive' = Alive /\ record' = Stopped
      BY <2>5 DEF StopPut, Records, Stopped, Started, Alive
    <3>2. \A u \in Stops : stop'[u].of = stop[u].of
      BY <1>2, <2>5 DEF StopPut, At, TypeOK
    <3>3. \A u \in Stops \ {t} : stop'[u].pc = stop[u].pc
      BY <1>2, <2>5 DEF StopPut, At, TypeOK
    <3>4. stop[t].pc = "put" /\ stop'[t].pc = "release"
      BY <1>2, <2>5 DEF StopPut, At, TypeOK
    <3>5. QED
      BY <1>2, <3>1, <3>2, <3>3, <3>4 DEF RecoverInv
  <2>6. ASSUME NEW t \in Stops, StopRelease(t) PROVE RecoverInv'
    <3>1. Started' = Started /\ Alive' = Alive /\ record' = record
      BY <2>6 DEF StopRelease, Started, Alive
    <3>2. \A u \in Stops \ {t} : stop'[u] = stop[u]
      BY <1>2, <2>6 DEF StopRelease, TypeOK
    <3>3. /\ [NewStop EXCEPT !.pc = "released"].pc = "released"
          /\ [NewStop EXCEPT !.pc = "done"].pc = "done"
      BY DEF NewStop
    <3>4. stop'[t].pc \in {"released", "done"}
      BY <1>2, <2>6, <3>3 DEF StopRelease, TypeOK
    <3>5. QED
      BY <1>2, <3>1, <3>2, <3>4 DEF RecoverInv
  <2>7. QED
    BY <1>2, <2>1, <2>2, <2>3, <2>4, <2>5, <2>6 DEF Next, DaemonStep
<1>3. ASSUME TypeOK, RecoverInv, [Next]_vars, NEW t \in Stops,
             stop[t].pc = "release", stop'[t].pc # "release", Started = stop[t].of
      PROVE  pidfile' = NoPid /\ record' = Stopped
  <2>1. Alive = {} /\ record = Stopped
    BY <1>3 DEF RecoverInv
  <2>2. StopRelease(t)
    <3>1. ~ UNCHANGED stop
      BY <1>3
    <3>2. PICK u \in Stops : \/ \E signal \in BOOLEAN : StopRead(u, signal)
                             \/ StopSignal(u) \/ StopPut(u) \/ StopRelease(u)
      BY <1>3, <3>1, DaemonStarts DEF Next, DaemonStep, vars
    <3>3. u = t
      BY <1>3, <3>2 DEF StopRead, StopSignal, StopPut, StopRelease, At, TypeOK
    <3>4. QED
      BY <1>3, <3>2, <3>3 DEF StopRead, StopSignal, StopPut
  <2>3. LooksStale(t)
    BY <2>1 DEF LooksStale
  <2>4. QED
    BY <2>1, <2>2, <2>3 DEF StopRelease
<1>4. TypeOK /\ RecoverInv /\ [Next]_vars =>
        [\A t \in Stops :
           stop[t].pc = "release" /\ stop'[t].pc # "release" /\ Started = stop[t].of
           => pidfile' = NoPid /\ record' = [status |-> "stopped", pid |-> NoPid]]_vars
  BY <1>3 DEF Stopped
<1>5. QED
  BY <1>1, <1>2, <1>4, TypeCorrect, PTL DEF Spec, StopRecovers
=============================================================================
