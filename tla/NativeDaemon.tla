---------------------------- MODULE NativeDaemon ----------------------------
(***************************************************************************)
(* The daemon of an instance and its worker: src/src/runtime/native-daemon.ts *)
(* with src/worker.ts and src/src/runtime/run-worker.ts.                     *)
(*                                                                         *)
(* The daemon keeps one worker process running, restarts it after a back-off *)
(* and gives up when it ends too often.  A client of the control socket has   *)
(* it stop, or stop if the worker is idle: the worker then stops accepting     *)
(* work before it answers, and shuts itself down when nobody comes back.      *)
(* Worker and daemon talk over a channel each way; the worker dies anywhere,   *)
(* survives SIGKILL for a while, and outlives a daemon that crashes.          *)
(*                                                                         *)
(* Abstractions.  busy stands for every condition of stopAcceptingIfIdle.     *)
(* What the client sends and is answered is reduced to the command and the    *)
(* verdict.  restarts counts the entries of restartTimes inside the window.   *)
(***************************************************************************)
EXTENDS Naturals, Sequences

CONSTANTS
  MaxRestarts,   \* MAX_RESTARTS
  MaxProbes,     \* bound on idle checks
  MaxFaults,     \* bound on unasked deaths, late starts and workers that survive SIGKILL
  MaxLaunches    \* bound on the daemons started one after the other

ConstantsOK ==
  {MaxRestarts, MaxProbes, MaxFaults, MaxLaunches} \subseteq Nat

VARIABLES
  phase,      \* phase of the daemon, "none" when there is none
  stopping,   \* how far shutdown() is
  flush,      \* an answer is being flushed whose callback is shutdown
  restarts,   \* restartTimes
  expired,    \* readinessExpired of the worker
  worker,     \* the worker process; "exited" until its close event
  killed,     \* SIGKILL was sent to it
  busy,       \* it has work
  toWorker, toDaemon,  \* the two directions of the channel
  probe,      \* workerIdleProbe: the identifier it waits for, or 0
  probes,     \* identifiers used
  socket,     \* the socket of the client that asked: "none", "open" or "answered"
  accepted,   \* a client was told that the worker is idle and stops
  orphan,     \* the worker of a daemon that crashed is still there
  faults, launches

daemon == <<phase, stopping, flush, restarts, expired>>
process == <<worker, killed, busy>>
asking == <<probe, probes, socket, accepted>>
bounds == <<orphan, faults, launches>>
vars == <<daemon, process, toWorker, toDaemon, asking, bounds>>

-----------------------------------------------------------------------------

Phase == {"none", "starting", "running", "backoff", "stopping", "failed"}
Process == {"none", "booting", "accepting", "gated", "closing", "stopped", "exited"}
Probe == 1 .. MaxProbes
FromWorker == {<<"ready">>, <<"shutdown-request">>}
  \cup {<<"result", i, verdict>> : i \in Probe, verdict \in {"idle", "busy", "error"}}

TypeOK ==
  /\ phase \in Phase /\ stopping \in {"no", "graceful", "forced", "cleanup"}
  /\ flush \in BOOLEAN /\ restarts \in 0 .. MaxRestarts + 1 /\ expired \in BOOLEAN
  /\ worker \in Process /\ killed \in BOOLEAN /\ busy \in BOOLEAN
  /\ toWorker \in Seq({0} \cup Probe) /\ toDaemon \in Seq(FromWorker)
  /\ probe \in {0} \cup Probe /\ probes \in 0 .. MaxProbes
  /\ socket \in {"none", "open", "answered"} /\ accepted \in BOOLEAN
  /\ orphan \in BOOLEAN /\ faults \in 0 .. MaxFaults /\ launches \in 0 .. MaxLaunches
  \* The process has a channel and a close event to come exactly while it is known.
  /\ worker = "none" => toWorker = <<>> /\ toDaemon = <<>> /\ probe = 0 /\ ~killed /\ ~busy
  /\ phase = "running" => worker # "none"
  /\ stopping # "no" => phase \in {"stopping", "failed"}

Alive == worker \notin {"none", "exited"}
SendWorker(m) == toWorker' = Append(toWorker, m)
SendDaemon(m) == toDaemon' = Append(toDaemon, m)
Shutdown == 0

-----------------------------------------------------------------------------
(* The daemon: start, restarts and readiness. *)

\* spawn, by the function startWorker.
Spawned == worker' = "booting" /\ killed' = FALSE /\ busy' = FALSE /\ expired' = FALSE

\* runNativeDaemon, under the daemon lock.
Launch ==
  /\ phase = "none" /\ worker = "none"
  /\ launches < MaxLaunches /\ launches' = launches + 1
  /\ phase' = "starting" /\ stopping' = "no" /\ flush' = FALSE /\ restarts' = 0
  /\ accepted' = FALSE /\ Spawned
  /\ UNCHANGED <<toWorker, toDaemon, probe, probes, socket, orphan, faults>>

\* The timer of the back-off: startWorker returns at once when the daemon stops.
StartWorker ==
  /\ phase = "backoff"
  /\ phase' = "starting" /\ Spawned
  /\ UNCHANGED <<stopping, flush, restarts, toWorker, toDaemon, asking, bounds>>

ReadyTimer ==
  /\ Alive /\ ~expired /\ phase \notin {"running", "stopping", "none"}
  /\ faults < MaxFaults /\ faults' = faults + 1
  /\ expired' = TRUE /\ killed' = TRUE
  /\ UNCHANGED <<phase, stopping, flush, restarts, worker, busy, toWorker, toDaemon, asking,
                 orphan, launches>>
\* It is still there five seconds after it was killed.
ReadyTimerFails ==
  /\ Alive /\ expired /\ phase # "none"
  /\ phase' = "failed"
  /\ UNCHANGED <<stopping, flush, restarts, expired, process, toWorker, toDaemon, asking, bounds>>

-----------------------------------------------------------------------------
(* shutdown() and stopWorker(). *)

\* A second call returns the promise of the first.
ShutDown ==
  IF stopping # "no"
  THEN UNCHANGED <<phase, stopping, toWorker>>
  ELSE /\ phase' = "stopping"
       /\ stopping' = IF Alive THEN "graceful" ELSE "cleanup"
       /\ IF Alive THEN SendWorker(Shutdown) ELSE UNCHANGED toWorker

\* SIGTERM or SIGINT.
Signal ==
  /\ phase # "none"
  /\ ShutDown
  /\ UNCHANGED <<flush, restarts, expired, process, toDaemon, asking, bounds>>
\* The answer to a client has left.  Its callback is called if the client has gone, too.
Flushed ==
  /\ flush /\ flush' = FALSE
  /\ ShutDown
  /\ UNCHANGED <<restarts, expired, process, toDaemon, asking, bounds>>

GracefulTimeout ==
  /\ stopping = "graceful" /\ Alive
  /\ stopping' = "forced" /\ killed' = TRUE
  /\ UNCHANGED <<phase, flush, restarts, expired, worker, busy, toWorker, toDaemon, asking, bounds>>
\* Mutant: the daemon ends although the worker did not.
ForcedTimeoutIgnored ==
  /\ stopping = "forced" /\ Alive
  /\ faults < MaxFaults /\ faults' = faults + 1
  /\ stopping' = "cleanup"
  /\ UNCHANGED <<phase, flush, restarts, expired, process, toWorker, toDaemon, asking, orphan, launches>>
\* The worker did not exit: the daemon stays, and a later stop tries again.
ForcedTimeout ==
  /\ stopping = "forced" /\ Alive
  /\ faults < MaxFaults /\ faults' = faults + 1
  /\ stopping' = "no" /\ phase' = "failed"
  /\ UNCHANGED <<flush, restarts, expired, process, toWorker, toDaemon, asking, orphan, launches>>

\* cleanupControl, and the end of the daemon.
Cleanup ==
  /\ stopping = "cleanup"
  /\ phase' = "none" /\ stopping' = "no" /\ flush' = FALSE
  /\ worker' = "none" /\ killed' = FALSE /\ busy' = FALSE /\ expired' = FALSE
  /\ orphan' = (orphan \/ Alive)
  /\ toWorker' = <<>> /\ toDaemon' = <<>> /\ probe' = 0 /\ socket' = "none"
  /\ UNCHANGED <<restarts, probes, accepted, faults, launches>>

\* The close event of the worker.  An idle check of it is rejected.
\* Mutant: nobody is told that it exited.
CloseUntold ==
  /\ worker = "exited"
  /\ worker' = "none" /\ killed' = FALSE /\ expired' = FALSE
  /\ toWorker' = <<>> /\ toDaemon' = <<>> /\ probe' = 0 /\ socket' = "none"
  /\ IF phase \in {"stopping", "failed"}
     THEN UNCHANGED <<phase, restarts>>
     ELSE /\ \E kept \in 0 .. restarts : restarts' = kept + 1
          /\ phase' = IF restarts' > MaxRestarts THEN "failed" ELSE "backoff"
  /\ UNCHANGED <<stopping, flush, busy, probes, accepted, bounds>>
Close ==
  /\ worker = "exited"
  /\ worker' = "none" /\ killed' = FALSE /\ expired' = FALSE
  /\ toWorker' = <<>> /\ toDaemon' = <<>> /\ probe' = 0 /\ socket' = "none"
  /\ stopping' = IF stopping = "no" THEN "no" ELSE "cleanup"
  /\ IF phase \in {"stopping", "failed"}
     THEN UNCHANGED <<phase, restarts>>
     ELSE /\ \E kept \in 0 .. restarts : restarts' = kept + 1
          /\ phase' = IF restarts' > MaxRestarts THEN "failed" ELSE "backoff"
  /\ UNCHANGED <<flush, busy, probes, accepted, bounds>>

-----------------------------------------------------------------------------
(* The control socket. *)

Stop ==
  /\ phase # "none" /\ ~flush
  /\ flush' = TRUE
  /\ UNCHANGED <<phase, stopping, restarts, expired, process, toWorker, toDaemon, asking, bounds>>

\* stop-if-idle without a worker to ask.
\* Mutant: the phase is left to the callback.
StopWithoutWorkerLater ==
  /\ phase \in {"failed", "backoff"} /\ worker = "none" /\ socket = "none"
  /\ flush' = TRUE /\ accepted' = TRUE
  /\ UNCHANGED <<phase, stopping, restarts, expired, process, toWorker, toDaemon, probe, probes,
                 socket, bounds>>
StopWithoutWorker ==
  /\ phase \in {"failed", "backoff"} /\ worker = "none" /\ socket = "none"
  /\ phase' = "stopping" /\ flush' = TRUE /\ accepted' = TRUE
  /\ UNCHANGED <<stopping, restarts, expired, process, toWorker, toDaemon, probe, probes,
                 socket, bounds>>

\* requestWorkerStopIfIdle: one check at a time, of a worker that runs.
Ask ==
  /\ phase = "running" /\ Alive /\ probe = 0 /\ socket = "none"
  /\ probes < MaxProbes
  /\ probes' = probes + 1 /\ probe' = probes' /\ socket' = "open"
  /\ SendWorker(probes')
  /\ UNCHANGED <<daemon, process, toDaemon, accepted, bounds>>
ProbeTimesOut ==
  /\ probe # 0 /\ probe' = 0 /\ socket' = "none"
  /\ UNCHANGED <<daemon, process, toWorker, toDaemon, probes, accepted, bounds>>
\* The socket may time out before the check does.
SocketTimesOut ==
  /\ socket = "open" /\ socket' = "answered"
  /\ UNCHANGED <<daemon, process, toWorker, toDaemon, probe, probes, accepted, bounds>>

-----------------------------------------------------------------------------
(* What the worker tells. *)

Take(m) == toDaemon # <<>> /\ Head(toDaemon) = m /\ toDaemon' = Tail(toDaemon)

\* Mutant: a late message makes the daemon run.
DeliverReadyLate ==
  /\ Take(<<"ready">>)
  /\ phase' = "running"
  /\ UNCHANGED <<stopping, flush, restarts, expired, process, toWorker, asking, bounds>>
DeliverReady ==
  /\ Take(<<"ready">>)
  /\ phase' = IF ~expired /\ phase \notin {"stopping", "failed"} /\ worker # "exited"
              THEN "running" ELSE phase
  /\ UNCHANGED <<stopping, flush, restarts, expired, process, toWorker, asking, bounds>>
DeliverRequest ==
  /\ Take(<<"shutdown-request">>)
  /\ IF phase = "running" THEN ShutDown ELSE UNCHANGED <<phase, stopping, toWorker>>
  /\ UNCHANGED <<flush, restarts, expired, process, asking, bounds>>
\* Only the check that waits for it takes the answer; only an open socket is told.
DeliverResult ==
  \E i \in Probe, verdict \in {"idle", "busy", "error"} :
    /\ Take(<<"result", i, verdict>>)
    /\ IF probe # i THEN UNCHANGED <<phase, flush, asking>>
       ELSE /\ probe' = 0 /\ socket' = "none"
            /\ IF socket = "open" /\ verdict = "idle"
               THEN phase' = "stopping" /\ flush' = TRUE /\ accepted' = TRUE
               ELSE UNCHANGED <<phase, flush, accepted>>
            /\ UNCHANGED probes
    /\ UNCHANGED <<stopping, restarts, expired, process, toWorker, bounds>>

-----------------------------------------------------------------------------
(* The worker. *)

\* The database has one owner: a worker of a daemon that crashed keeps it until it ends.
Boot ==
  /\ worker = "booting" /\ ~orphan
  /\ worker' = "accepting" /\ SendDaemon(<<"ready">>)
  /\ UNCHANGED <<daemon, killed, busy, toWorker, asking, bounds>>
BootRefused ==
  /\ worker = "booting" /\ orphan
  /\ worker' = "exited"
  /\ UNCHANGED <<daemon, killed, busy, toWorker, toDaemon, asking, bounds>>

Work ==
  /\ worker = "accepting" /\ ~busy /\ busy' = TRUE
  /\ UNCHANGED <<daemon, worker, killed, toWorker, toDaemon, asking, bounds>>
WorkDone ==
  /\ busy /\ busy' = FALSE
  /\ UNCHANGED <<daemon, worker, killed, toWorker, toDaemon, asking, bounds>>

Received(m) == Alive /\ toWorker # <<>> /\ Head(toWorker) = m /\ toWorker' = Tail(toWorker)

\* shutdown(): the signal of the runtime is aborted, or a stopped one is let go.
ReceiveShutdown ==
  /\ Received(Shutdown)
  /\ worker' = "closing"
  /\ UNCHANGED <<daemon, killed, busy, toDaemon, asking, bounds>>

\* stopAcceptingIfIdle: the check and the stop are one step.
Idle == worker = "accepting" /\ ~busy
ReceiveProbe ==
  \E i \in Probe :
    /\ Received(i)
    /\ \/ worker = "booting" /\ UNCHANGED worker /\ SendDaemon(<<"result", i, "error">>)
       \/ worker # "booting" /\ Idle /\ worker' = "gated" /\ SendDaemon(<<"result", i, "idle">>)
       \/ worker # "booting" /\ ~Idle /\ UNCHANGED worker /\ SendDaemon(<<"result", i, "busy">>)
    /\ UNCHANGED <<daemon, killed, busy, asking, bounds>>
\* updateGateRecoveryTimer.
\* Mutant: it is never armed.
GateNeverExpires ==
  /\ worker = "gated" /\ orphan
  /\ worker' = "closing"
  /\ UNCHANGED <<daemon, killed, busy, toWorker, toDaemon, asking, bounds>>
GateExpires ==
  /\ worker = "gated"
  /\ worker' = "closing"
  /\ UNCHANGED <<daemon, killed, busy, toWorker, toDaemon, asking, bounds>>

\* The last channel was stopped: the runtime closes and waits for the daemon.
ChannelStop ==
  /\ worker = "accepting"
  /\ worker' = "stopped" /\ SendDaemon(<<"shutdown-request">>)
  /\ UNCHANGED <<daemon, killed, busy, toWorker, asking, bounds>>

\* closeRuntime ended, in time or by force.
Exit ==
  /\ worker = "closing"
  /\ worker' = "exited" /\ busy' = FALSE
  /\ UNCHANGED <<daemon, killed, toWorker, toDaemon, asking, bounds>>
Killed ==
  /\ Alive /\ killed
  /\ worker' = "exited" /\ busy' = FALSE
  /\ UNCHANGED <<daemon, killed, toWorker, toDaemon, asking, bounds>>
Die ==
  /\ Alive /\ faults < MaxFaults /\ faults' = faults + 1
  /\ worker' = "exited" /\ busy' = FALSE
  /\ UNCHANGED <<daemon, killed, toWorker, toDaemon, asking, orphan, launches>>

\* The daemon dies: its worker is disconnected, shuts down and is there until it ended.
DaemonDies ==
  /\ phase # "none" /\ faults < MaxFaults /\ faults' = faults + 1
  /\ phase' = "none" /\ stopping' = "no" /\ flush' = FALSE
  /\ worker' = "none" /\ killed' = FALSE /\ busy' = FALSE /\ expired' = FALSE
  /\ orphan' = (orphan \/ Alive)
  /\ toWorker' = <<>> /\ toDaemon' = <<>> /\ probe' = 0 /\ socket' = "none"
  /\ UNCHANGED <<restarts, probes, accepted, launches>>
OrphanEnds ==
  /\ orphan /\ orphan' = FALSE
  /\ UNCHANGED <<daemon, process, toWorker, toDaemon, asking, faults, launches>>

-----------------------------------------------------------------------------

Init ==
  /\ phase = "none" /\ stopping = "no" /\ flush = FALSE /\ restarts = 0 /\ expired = FALSE
  /\ worker = "none" /\ killed = FALSE /\ busy = FALSE
  /\ toWorker = <<>> /\ toDaemon = <<>>
  /\ probe = 0 /\ probes = 0 /\ socket = "none" /\ accepted = FALSE
  /\ orphan = FALSE /\ faults = 0 /\ launches = 0

Deliver == DeliverReady \/ DeliverRequest \/ DeliverResult
Receive == ReceiveShutdown \/ ReceiveProbe
Ends == Exit \/ Killed
Timer == GracefulTimeout \/ ForcedTimeout

Next ==
  \/ Launch \/ StartWorker \/ ReadyTimer \/ ReadyTimerFails \/ Signal \/ Flushed \/ Timer
  \/ Cleanup \/ Close \/ Stop \/ StopWithoutWorker \/ Ask \/ ProbeTimesOut \/ SocketTimesOut
  \/ Deliver \/ Boot \/ BootRefused \/ Work \/ WorkDone \/ Receive \/ GateExpires
  \/ ChannelStop \/ Ends \/ Die \/ DaemonDies \/ OrphanEnds

Spec == Init /\ [][Next]_vars

\* Timers fire, callbacks run, messages arrive while both ends live, and a worker that
\* was asked or killed ends.
Fairness ==
  /\ WF_vars(StartWorker) /\ WF_vars(Flushed) /\ WF_vars(Cleanup) /\ WF_vars(Close)
  /\ WF_vars(Timer) /\ WF_vars(Deliver) /\ WF_vars(Receive) /\ WF_vars(GateExpires)
  /\ WF_vars(Boot) /\ WF_vars(BootRefused) /\ WF_vars(Ends) /\ WF_vars(OrphanEnds)
LiveSpec == Spec /\ Fairness

-----------------------------------------------------------------------------
(* Properties.                                                             *)

\* A client that was told "idle" may replace the program: from then on no worker of this
\* daemon takes work, and none was interrupted (requestWorkerStopIfIdle).
AcceptedIsFinal == accepted => worker \notin {"booting", "accepting"} /\ ~busy

\* A daemon that ends by itself leaves no worker behind: the only worker that outlives
\* its daemon is that of a crash (shutdown, stopWorker).
EndLeavesNoWorker == [][phase # "none" /\ phase' = "none" /\ faults' = faults => ~orphan' \/ orphan]_vars

\* A worker that stopped accepting work for a client that is gone or was answered too
\* late does not stay that way: another one accepts work, or the daemon ends or failed
\* (src/worker.ts:74-76).
GateIsReleased == worker = "gated" ~> (worker = "accepting" \/ phase \in {"none", "failed"})

\* A daemon that began to stop ends, or says that its worker could not be stopped.
StopEnds == phase = "stopping" ~> phase \in {"none", "failed"}
=============================================================================
