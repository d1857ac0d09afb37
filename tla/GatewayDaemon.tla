--------------------------- MODULE GatewayDaemon ----------------------------
(***************************************************************************)
(* The gateway daemon's lifecycle (runtime/gateway.py) and the commands    *)
(* that stop it (services/gateway.py).  Daemon processes and stop commands *)
(* share three things: the pid file, which is the lock a daemon starts     *)
(* under, the one runtime-state record in the local store, and the port.   *)
(*                                                                         *)
(* A process is its pid, and pids are not reused: starting again, by hand  *)
(* or by the service manager, is another process.  A process may be killed *)
(* at any step; SIGTERM is a kill, because nothing handles it.  The        *)
(* configuration exists and is enabled: without one a start fails before   *)
(* it touches anything.  Notes and times of the record are left out.       *)
(***************************************************************************)
EXTENDS Naturals, FiniteSets

CONSTANTS
  Daemons,  \* processes that run "craik gateway start"
  Stops,    \* runs of "craik gateway stop" and "craik gateway restart"
  NoPid     \* no process

ASSUME GatewayDaemonAssumption == NoPid \notin Daemons

VARIABLES
  daemon,   \* daemon[d]: where a start is in run_gateway_daemon
  stop,     \* stop[t]: where a stop command is, whether it signals, the pid it
            \* read and, as history, the starts before that read if all were over
  pidfile,  \* the process that created the pid file, or NoPid
  record,   \* the stored runtime state
  cut,      \* history: processes past the lock that ended without writing how
  unlocked  \* history: starts that came to the release without the lock

vars == <<daemon, stop, pidfile, record, cut, unlocked>>

NewStop == [pc |-> "unstarted", signal |-> FALSE, seen |-> NoPid, of |-> {}]

Init ==
  /\ daemon = [d \in Daemons |-> "unstarted"]
  /\ stop = [t \in Stops |-> NewStop]
  /\ pidfile = NoPid
  /\ record = [status |-> "stopped", pid |-> NoPid]
  /\ cut = {}
  /\ unlocked = {}

-----------------------------------------------------------------------------
Over == {"unstarted", "ended", "dead"}
Started == {d \in Daemons : daemon[d] # "unstarted"}
Alive == {d \in Daemons : daemon[d] \notin Over}

\* Processes that have the server's socket.
Bound == {"bound", "serving", "closing", "failing", "hung"}
PortTaken == \E d \in Daemons : daemon[d] \in Bound

Goes(d, pc) == daemon' = [daemon EXCEPT ![d] = pc]
Records(status, pid) == record' = [status |-> status, pid |-> pid]

\* (A bug: the pid file is opened without O_EXCL.)
AcquireAnyway(d) ==
  /\ daemon[d] = "unstarted"
  /\ pidfile' = d
  /\ Goes(d, "locked")
  /\ UNCHANGED <<stop, record, cut, unlocked>>

Acquire(d) ==
  /\ daemon[d] = "unstarted"
  /\ pidfile = NoPid
  /\ pidfile' = d
  /\ Goes(d, "locked")
  /\ UNCHANGED <<stop, record, cut, unlocked>>

\* The lock's path is known before the lock is taken, so every start that does
\* not get the lock goes out through the release.
Unlocked(d) ==
  /\ daemon[d] = "unstarted"
  /\ Goes(d, "releasing")
  /\ unlocked' = unlocked \cup {d}
  /\ UNCHANGED <<stop, pidfile, record, cut>>

\* The pid file exists.
Refused(d) == pidfile # NoPid /\ Unlocked(d)

\* Ctrl-C once the path is known, or a directory or file that cannot be created.
AcquireFails(d) == Unlocked(d)

PutStarting(d) ==
  /\ daemon[d] = "locked"
  /\ Records("starting", d)
  /\ Goes(d, "starting")
  /\ UNCHANGED <<stop, pidfile, cut, unlocked>>

Bind(d) ==
  /\ daemon[d] = "starting"
  /\ ~PortTaken
  /\ Goes(d, "bound")
  /\ UNCHANGED <<stop, pidfile, record, cut, unlocked>>

\* (A bug: a daemon that cannot bind leaves without a word.)
BindFailsSilently(d) ==
  /\ daemon[d] = "starting"
  /\ Goes(d, "releasing")
  /\ UNCHANGED <<stop, pidfile, record, cut, unlocked>>

\* The port is another daemon's or another program's.
BindFails(d) ==
  /\ daemon[d] = "starting"
  /\ Records("failed", NoPid)
  /\ Goes(d, "releasing")
  /\ UNCHANGED <<stop, pidfile, cut, unlocked>>

PutRunning(d) ==
  /\ daemon[d] = "bound"
  /\ Records("running", d)
  /\ Goes(d, "serving")
  /\ UNCHANGED <<stop, pidfile, cut, unlocked>>

ServeFails(d) ==
  /\ daemon[d] = "serving"
  /\ Records("failed", NoPid)
  /\ Goes(d, "failing")
  /\ UNCHANGED <<stop, pidfile, cut, unlocked>>

\* server.shutdown and server_close, when serve_forever has run and ended.
CloseServer(d) ==
  /\ \/ daemon[d] = "closing" /\ Goes(d, "closed")
     \/ daemon[d] = "failing" /\ Goes(d, "releasing")
  /\ UNCHANGED <<stop, pidfile, record, cut, unlocked>>

PutStopped(d) ==
  /\ daemon[d] = "closed"
  /\ Records("stopped", NoPid)
  /\ Goes(d, "releasing")
  /\ UNCHANGED <<stop, pidfile, cut, unlocked>>

\* (A bug: an interrupted start keeps the lock.)
ReleaseUncut(d) ==
  /\ daemon[d] = "releasing"
  /\ pidfile' = IF d \in cut THEN pidfile ELSE NoPid
  /\ Goes(d, "ended")
  /\ UNCHANGED <<stop, record, cut, unlocked>>

\* The pid file is unlinked whoever created it.
Release(d) ==
  /\ daemon[d] = "releasing"
  /\ pidfile' = NoPid
  /\ Goes(d, "ended")
  /\ UNCHANGED <<stop, record, cut, unlocked>>

-----------------------------------------------------------------------------
(***************************************************************************)
(* What stops a daemon.                                                    *)
(***************************************************************************)
\* Ctrl-C while it serves, or before it has a server to close.
Interrupt(d) ==
  /\ \/ daemon[d] = "serving" /\ Goes(d, "closing")
     \/ daemon[d] = "starting" /\ Goes(d, "closed")
  /\ UNCHANGED <<stop, pidfile, record, cut, unlocked>>

\* Ctrl-C, or a store that cannot be written, once there is a server whose
\* serve_forever has not begun: shutdown waits for a loop that never ran.
InterruptBound(d) ==
  /\ daemon[d] = "bound"
  /\ Goes(d, "hung")
  /\ \/ UNCHANGED record
     \/ Records("failed", NoPid)
  /\ UNCHANGED <<stop, pidfile, cut, unlocked>>

\* Ctrl-C behind the lock and before the guarded part, or a second one in the wait for shutdown:
\* the lock is released and nothing recorded.
InterruptHard(d) ==
  /\ daemon[d] \in {"locked", "starting", "hung", "closing", "closed", "failing"}
  /\ Goes(d, "releasing")
  /\ cut' = cut \cup {d}
  /\ UNCHANGED <<stop, pidfile, record, unlocked>>

Dies(d) ==
  /\ Goes(d, "dead")
  /\ cut' = cut \cup {d}

\* A kill, or a Ctrl-C or an error in the release itself, before the unlink.
Kill(d) ==
  /\ d \in Alive
  /\ Dies(d)
  /\ UNCHANGED <<stop, pidfile, record, unlocked>>

-----------------------------------------------------------------------------
(***************************************************************************)
(* request_gateway_stop: read the record, signal its process if told to,   *)
(* store the stopped record, release a lock that looks stale.              *)
(***************************************************************************)
At(t, pc) == stop' = [stop EXCEPT ![t].pc = pc]

StopRead(t, signal) ==
  /\ stop[t].pc = "unstarted"
  /\ stop' = [stop EXCEPT ![t] =
       [pc |-> "signal", signal |-> signal, seen |-> record.pid,
        of |-> IF Alive = {} THEN Started ELSE {}]]
  /\ UNCHANGED <<daemon, pidfile, record, cut, unlocked>>

StopSignal(t) ==
  /\ stop[t].pc = "signal"
  /\ At(t, "put")
  /\ IF stop[t].signal /\ stop[t].seen \in Alive
     THEN Dies(stop[t].seen)
     ELSE UNCHANGED <<daemon, cut>>
  /\ UNCHANGED <<pidfile, record, unlocked>>

\* (A bug: the state stored is the stopping one, which keeps the process.)
StopPutStopping(t) ==
  /\ stop[t].pc = "put"
  /\ Records("stopping", stop[t].seen)
  /\ At(t, "release")
  /\ UNCHANGED <<daemon, pidfile, cut, unlocked>>

StopPut(t) ==
  /\ stop[t].pc = "put"
  /\ Records("stopped", NoPid)
  /\ At(t, "release")
  /\ UNCHANGED <<daemon, pidfile, cut, unlocked>>

\* (A bug: only the lock of a recorded process is ever taken for stale.)
StaleIfRecorded(t) == stop[t].seen # NoPid /\ stop[t].seen \notin Alive

LooksStale(t) == stop[t].seen \notin Alive \/ stop[t].signal

StopRelease(t) ==
  /\ stop[t].pc = "release"
  /\ IF LooksStale(t)
     THEN /\ pidfile' = NoPid
          /\ stop' = [stop EXCEPT ![t] = [NewStop EXCEPT !.pc = "released"]]
     ELSE /\ stop' = [stop EXCEPT ![t] = [NewStop EXCEPT !.pc = "done"]]
          /\ UNCHANGED pidfile
  /\ UNCHANGED <<daemon, record, cut, unlocked>>

-----------------------------------------------------------------------------
Next ==
  \/ \E d \in Daemons :
       \/ Acquire(d) \/ Refused(d) \/ AcquireFails(d)
       \/ PutStarting(d) \/ Bind(d) \/ BindFails(d) \/ PutRunning(d) \/ ServeFails(d)
       \/ CloseServer(d) \/ PutStopped(d) \/ Release(d)
       \/ Interrupt(d) \/ InterruptBound(d) \/ InterruptHard(d) \/ Kill(d)
  \/ \E t \in Stops :
       \/ \E signal \in BOOLEAN : StopRead(t, signal)
       \/ StopSignal(t) \/ StopPut(t) \/ StopRelease(t)

Spec == Init /\ [][Next]_vars

-----------------------------------------------------------------------------
TypeOK ==
  /\ daemon \in [Daemons -> Over \cup Bound
                              \cup {"locked", "starting", "closed", "releasing"}]
  /\ stop \in [Stops -> [pc : {"unstarted", "signal", "put", "release", "released", "done"},
                          signal : BOOLEAN, seen : Daemons \cup {NoPid},
                          of : SUBSET Daemons]]
  /\ pidfile \in Daemons \cup {NoPid}
  /\ record \in [status : {"starting", "running", "stopped", "failed"},
                  pid : Daemons \cup {NoPid}]
  /\ cut \subseteq Daemons
  /\ unlocked \subseteq Daemons

\* A process that the record says is starting or running is alive, or was cut
\* off: in whatever order daemons and stop commands write the one record, a
\* process that ended by itself is never left in it.
RecordHonest == record.pid # NoPid => record.pid \in Alive \cup cut

\* The pid file a later start is refused for was created by a process that
\* lives or was killed.
PidFileHonest == pidfile # NoPid => pidfile \in Alive \/ daemon[pidfile] = "dead"

\* A daemon that has come past the lock and not yet given it up.
Holds(d) == daemon[d] \in Bound \cup {"locked", "starting", "closed"}

\* Only a start that did not get the lock and a stop command take the pid file
\* from a daemon that lives: as long as no start went out without the lock and no
\* stop released it, crashes and restarts included, the file is that of the one
\* daemon past the lock.
Guarded ==
  unlocked = {} /\ (\A t \in Stops : stop[t].pc # "released") =>
    \A d \in Daemons : Holds(d) => pidfile = d

\* A stop command in whose time no daemon lived leaves nothing of the processes
\* before it, however they ended: no pid file that refuses the next start and no
\* process in the record.
StopRecovers ==
  [][\A t \in Stops :
       stop[t].pc = "release" /\ stop'[t].pc # "release" /\ Started = stop[t].of
       => pidfile' = NoPid /\ record' = [status |-> "stopped", pid |-> NoPid]]_vars

\* "If the pid file already exists, startup fails instead of running a second
\* daemon": no two daemons are past the lock.
NoSecondDaemon == \A d, e \in Daemons : Holds(d) /\ Holds(e) => d = e
=============================================================================
