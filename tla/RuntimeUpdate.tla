--------------------------- MODULE RuntimeUpdate ---------------------------
(***************************************************************************)
(* kintio update: src/src/update/runtime-update.ts with self-update.ts, and   *)
(* the launches of src/src/runtime/daemon-client.ts it shares with start.     *)
(*                                                                         *)
(* An updater looks a new version up, takes two locks one after the other,     *)
(* has the daemon stop if it is idle, reserves the instance, lets a package    *)
(* manager change the package on disk, verifies what is there and launches the  *)
(* daemon again.  Other updaters, the start command, runtimes in the           *)
(* foreground, signals, deaths and edits of the configuration run against it.   *)
(*                                                                         *)
(* Abstractions.  There is one home and one installed package; disk is the      *)
(* version its manifest shows, 0 while it cannot be read.  Configurations are   *)
(* numbered by their edits.  The locks are mutual exclusion among processes     *)
(* that live: module InstanceLock has their files.  Module NativeDaemon has     *)
(* the daemon; here its worker is part of it, and busy is a choice.            *)
(***************************************************************************)
EXTENDS Naturals

CONSTANTS
  Updater,
  MaxVersion,   \* bound on the versions published
  MaxLate,      \* bound on idle checks answered after the updater gave up
  MaxCrashes,   \* bound on processes that die, or do not when they are killed
  MaxOthers     \* bound on foreground runtimes, starts, stops and edits

ConstantsOK ==
  {MaxVersion, MaxLate, MaxCrashes, MaxOthers} \subseteq Nat

VARIABLES
  disk,        \* version of the installed package
  latest,      \* version the registry calls latest
  config,      \* edits of the configuration
  locks,       \* holder of each lock
  daemon,      \* phase of the daemon; "forked" until it publishes its record
  parent,      \* who launched it
  ran,         \* version and configuration it runs
  asked,       \* updater whose idle check the daemon has not answered
  starter,     \* the start command
  phase,       \* progress of each updater
  plan,        \* current, target and diskVersion
  record,      \* it found a daemon; snapshot: configuration it read then
  snapshot,
  failing,     \* originalError
  signalled,   \* interruptedBy
  installer,   \* its package manager
  owes,        \* history: the daemon stopped for it
  result,      \* what it reported
  late, crashes, others

package == <<disk, latest, config>>
runtime == <<daemon, parent, ran, asked>>
updater == <<phase, plan, record, snapshot, failing, signalled, installer, owes, result>>
bounds == <<late, crashes, others>>
vars == <<package, locks, runtime, starter, updater, bounds>>

-----------------------------------------------------------------------------

Version == 0 .. MaxVersion
Lock == {"installation", "lifecycle", "instance"}
Phase == {"idle", "preparing", "prepared", "exclusive", "locked", "gate", "uncertain", "stopping",
          "reserve", "install", "installing", "verify", "restore", "launching", "ended", "crashed"}
Launcher == Updater \cup {"start"}

TypeOK ==
  /\ disk \in Version /\ latest \in 1 .. MaxVersion /\ config \in 0 .. MaxOthers
  /\ locks \in [Lock -> Launcher \cup {"none", "daemon", "orphan", "foreground"}]
  /\ daemon \in {"none", "forked", "starting", "running", "stopping", "failed", "crashed"}
  /\ parent \in Launcher \cup {"none"}
  /\ ran \in [version : Version, config : 0 .. MaxOthers]
  /\ asked \in Updater \cup {"none"}
  /\ starter \in {"none", "looking", "waiting", "launched"}
  /\ phase \in [Updater -> Phase]
  /\ plan \in [Updater -> [current : Version, target : Version, was : Version]]
  /\ record \in [Updater -> BOOLEAN] /\ snapshot \in [Updater -> 0 .. MaxOthers]
  /\ failing \in [Updater -> BOOLEAN] /\ signalled \in [Updater -> BOOLEAN]
  /\ installer \in [Updater -> {"none", "running", "killed", "done", "failed"}]
  /\ owes \in [Updater -> BOOLEAN]
  /\ result \in [Updater -> {"none", "current", "failed", "slow", "left", "restored", "updated"}]
  /\ late \in 0 .. MaxLate /\ crashes \in 0 .. MaxCrashes /\ others \in 0 .. MaxOthers
  \* A lock is never held by a process that is gone or has ended.
  /\ \A l \in Lock : locks[l] \in Updater => phase[locks[l]] \notin {"idle", "ended", "crashed"}
  /\ daemon = "running" => locks["instance"] = "daemon"
  /\ locks["instance"] = "daemon" => daemon \in {"running", "stopping"}
  /\ (starter # "none") = (locks["lifecycle"] = "start")
  /\ asked # "none" => daemon = "running"

Take(l, p) == locks[l] = "none" /\ locks' = [locks EXCEPT ![l] = p]
Freed(p) == [l \in Lock |-> IF locks[l] = p THEN "none" ELSE locks[l]]
Goes(u, p) == phase' = [phase EXCEPT ![u] = p]

\* The finally blocks: every lock goes.
End(u, r) ==
  /\ Goes(u, "ended") /\ result' = [result EXCEPT ![u] = r]
  /\ locks' = Freed(u)

Other == others < MaxOthers /\ others' = others + 1 /\ UNCHANGED <<late, crashes>>
Dies == crashes < MaxCrashes /\ crashes' = crashes + 1 /\ UNCHANGED <<late, others>>

-----------------------------------------------------------------------------
(* Before the locks. *)

\* The process loads the package: KINTIO_VERSION.
Begin(u) ==
  /\ phase[u] = "idle" /\ disk # 0
  /\ Goes(u, "preparing") /\ plan' = [plan EXCEPT ![u].current = disk]
  /\ UNCHANGED <<package, locks, runtime, starter, record, snapshot, failing, signalled, installer,
                 owes, result, bounds>>

Prepare(u) ==
  /\ phase[u] = "preparing"
  /\ plan' = [plan EXCEPT ![u].target = latest]
  /\ \/ disk = plan[u].current /\ latest > disk /\ Goes(u, "prepared") /\ UNCHANGED <<locks, result>>
     \/ disk = plan[u].current /\ latest <= disk /\ End(u, "current")
     \/ End(u, "failed")
  /\ UNCHANGED <<package, runtime, starter, record, snapshot, failing, signalled, installer,
                 owes, bounds>>

WithInstallationLock(u) ==
  /\ phase[u] = "prepared"
  /\ \/ Take("installation", u) /\ Goes(u, "exclusive") /\ UNCHANGED result
     \/ locks["installation"] # "none" /\ End(u, "failed")
  /\ UNCHANGED <<package, runtime, starter, plan, record, snapshot, failing, signalled, installer,
                 owes, bounds>>

WithLifecycleLock(u) ==
  /\ phase[u] = "exclusive"
  /\ \/ Take("lifecycle", u) /\ Goes(u, "locked") /\ UNCHANGED result
     \/ locks["lifecycle"] # "none" /\ End(u, "failed")
  /\ UNCHANGED <<package, runtime, starter, plan, record, snapshot, failing, signalled, installer,
                 owes, bounds>>

-----------------------------------------------------------------------------
(* The gate. *)

\* A record whose process is dead is removed; a daemon without a record is not seen.
Probed == IF daemon = "crashed" THEN "none" ELSE daemon
Existing == daemon \notin {"none", "crashed", "forked"}

\* The disk may show what another update installed since this one was prepared.
\* Mutant: what was installed meanwhile is not looked at.
CheckNoDisk(u) == disk # 0
CheckDisk(u) == disk # 0 /\ disk \in {plan[u].current, plan[u].target}
Probe(u) ==
  /\ phase[u] = "locked"
  /\ daemon' = Probed
  /\ IF ~signalled[u] /\ CheckDisk(u)
     THEN /\ plan' = [plan EXCEPT ![u].was = disk]
          /\ record' = [record EXCEPT ![u] = Existing]
          /\ snapshot' = [snapshot EXCEPT ![u] = config]
          /\ Goes(u, IF Existing THEN "gate" ELSE "reserve")
          /\ UNCHANGED <<locks, result>>
     ELSE End(u, "failed") /\ UNCHANGED <<plan, record, snapshot>>
  /\ UNCHANGED <<package, parent, ran, asked, starter, failing, signalled, installer, owes, bounds>>

\* The daemon's side of stop-if-idle: it answers idle and stops.
StopsFor(u) == daemon' = "stopping" /\ asked' = "none" /\ owes' = [owes EXCEPT ![u] = TRUE]
Willing(u) == ran.config = snapshot[u]

\* Nothing is asked of the daemon after a signal, and nothing was stopped.
GateInterrupted(u) ==
  /\ phase[u] = "gate" /\ signalled[u]
  /\ End(u, "failed")
  /\ UNCHANGED <<package, runtime, starter, plan, record, snapshot, failing, signalled, installer,
                 owes, bounds>>
\* The answer arrives, or is lost.
StopIfIdle(u) ==
  /\ phase[u] = "gate" /\ ~signalled[u]
  /\ daemon \in {"running", "failed"} /\ Willing(u)
  /\ StopsFor(u)
  /\ \E p \in {"stopping", "uncertain"} : Goes(u, p)
  /\ UNCHANGED <<package, locks, parent, ran, starter, plan, record, snapshot, failing, signalled,
                 installer, result, bounds>>
Busy(u) ==
  /\ phase[u] = "gate" /\ ~signalled[u] /\ daemon = "running" /\ Willing(u)
  /\ End(u, "failed")
  /\ UNCHANGED <<package, runtime, starter, plan, record, snapshot, failing, signalled, installer,
                 owes, bounds>>
\* Refused, unreachable, or timed out; the last leaves the check with the daemon.
GateFails(u) ==
  /\ phase[u] = "gate" /\ ~signalled[u]
  /\ \/ UNCHANGED <<asked, late>>
     \/ /\ daemon = "running" /\ Willing(u) /\ late < MaxLate
        /\ late' = late + 1 /\ asked' = u
  /\ Goes(u, "uncertain")
  /\ UNCHANGED <<package, locks, daemon, parent, ran, starter, plan, record, snapshot, failing,
                 signalled, installer, owes, result, crashes, others>>
LateAnswer ==
  /\ asked # "none"
  /\ \/ StopsFor(asked)
     \/ asked' = "none" /\ UNCHANGED <<daemon, owes>>
  /\ UNCHANGED <<package, locks, parent, ran, starter, phase, plan, record, snapshot, failing,
                 signalled, installer, result, bounds>>

\* The daemon is seen running again, gone, or stopping, and then gone or late.
DaemonStoppedAfterUncertainGate(u) ==
  /\ phase[u] = "uncertain"
  /\ daemon' = Probed
  /\ \/ /\ daemon \in {"none", "crashed"}
        /\ Goes(u, "restore") /\ failing' = [failing EXCEPT ![u] = TRUE]
        /\ UNCHANGED <<locks, result>>
     \/ daemon \in {"running", "failed"} /\ End(u, "failed") /\ UNCHANGED failing
     \/ daemon \notin {"running", "failed", "none", "crashed"} /\ End(u, "slow") /\ UNCHANGED failing
  /\ UNCHANGED <<package, parent, ran, asked, starter, plan, record, snapshot, signalled,
                 installer, owes, bounds>>

\* Whatever a crashed daemon left behind counts as a daemon.
WaitForDaemonStopped(u) ==
  /\ phase[u] = "stopping"
  /\ \/ /\ daemon = "none"
        /\ Goes(u, IF signalled[u] THEN "restore" ELSE "reserve")
        /\ failing' = [failing EXCEPT ![u] = signalled[u]]
        /\ UNCHANGED <<locks, result>>
     \/ daemon # "none" /\ End(u, "slow") /\ UNCHANGED failing
  /\ UNCHANGED <<package, runtime, starter, plan, record, snapshot, signalled, installer,
                 owes, bounds>>

-----------------------------------------------------------------------------
(* The package. *)

\* An update that cannot go on: the runtime is restored if it was stopped.
Recover(u) ==
  IF record[u]
  THEN /\ Goes(u, "restore") /\ failing' = [failing EXCEPT ![u] = TRUE] /\ UNCHANGED result
  ELSE /\ Goes(u, "ended") /\ result' = [result EXCEPT ![u] = "failed"] /\ UNCHANGED failing

\* Whoever runs in the foreground has the instance.
\* Mutant: an update that stopped a daemon takes the instance for free.
ReserveUnseen(u) ==
  /\ phase[u] = "reserve"
  /\ \/ locks' = [locks EXCEPT !["instance"] = IF record[u] \/ @ = "none" THEN u ELSE @]
        /\ Goes(u, "install") /\ UNCHANGED <<failing, result>>
     \/ /\ locks["instance"] # "none"
        /\ Recover(u)
        /\ locks' = IF record[u] THEN locks ELSE Freed(u)
  /\ UNCHANGED <<package, runtime, starter, plan, record, snapshot, signalled, installer,
                 owes, bounds>>
ReserveInstance(u) ==
  /\ phase[u] = "reserve"
  /\ \/ Take("instance", u) /\ Goes(u, "install") /\ UNCHANGED <<failing, result>>
     \/ /\ locks["instance"] # "none"
        /\ Recover(u)
        /\ locks' = IF record[u] THEN locks ELSE Freed(u)
  /\ UNCHANGED <<package, runtime, starter, plan, record, snapshot, signalled, installer,
                 owes, bounds>>

\* The failures of installing and verifying: the reservation goes first.
\* Mutant: the reservation outlives an update that has nothing to restore.
UndoReserved(u) ==
  /\ Recover(u)
  /\ locks' = IF record[u] THEN [locks EXCEPT !["instance"] = "none"]
     ELSE [locks EXCEPT !["installation"] = "none", !["lifecycle"] = "none"]
Undo(u) ==
  /\ Recover(u)
  /\ locks' = IF record[u] THEN [locks EXCEPT !["instance"] = "none"] ELSE Freed(u)
Interrupted(u) ==
  /\ phase[u] \in {"install", "verify"} /\ signalled[u]
  /\ Undo(u)
  /\ UNCHANGED <<package, runtime, starter, plan, record, snapshot, signalled, installer,
                 owes, bounds>>

\* A package that is already there is only verified.
Install(u) ==
  /\ phase[u] = "install" /\ ~signalled[u]
  /\ IF plan[u].was = plan[u].target
     THEN Goes(u, "verify") /\ UNCHANGED installer
     ELSE Goes(u, "installing") /\ installer' = [installer EXCEPT ![u] = "running"]
  /\ UNCHANGED <<package, locks, runtime, starter, plan, record, snapshot, failing, signalled, owes,
                 result, bounds>>

\* The package manager: it lives on when its updater dies.
Changing(u) == installer[u] \in {"running", "killed"}
InstallerWrites(u) ==
  /\ Changing(u) /\ disk # 0
  /\ disk' = 0
  /\ UNCHANGED <<latest, config, locks, runtime, starter, updater, bounds>>
InstallerEnds(u) ==
  /\ Changing(u)
  /\ \/ installer[u] = "running" /\ installer' = [installer EXCEPT ![u] = "done"]
        /\ disk' = plan[u].target
     \/ installer' = [installer EXCEPT ![u] = "failed"] /\ disk' \in {disk, plan[u].target}
  /\ UNCHANGED <<latest, config, locks, runtime, starter, phase, plan, record, snapshot, failing,
                 signalled, owes, result, bounds>>
\* A signal or the time limit.
BeginTermination(u) ==
  /\ phase[u] = "installing" /\ installer[u] = "running"
  /\ installer' = [installer EXCEPT ![u] = "killed"]
  /\ UNCHANGED <<package, locks, runtime, starter, phase, plan, record, snapshot, failing,
                 signalled, owes, result, bounds>>
\* Part of its process group is still there after SIGKILL.
TerminationFails(u) ==
  /\ Dies /\ phase[u] = "installing" /\ installer[u] = "killed"
  /\ End(u, "left")
  /\ UNCHANGED <<package, runtime, starter, plan, record, snapshot, failing, signalled, installer,
                 owes>>
InstallReturns(u) ==
  /\ phase[u] = "installing" /\ installer[u] \in {"done", "failed"}
  /\ IF installer[u] = "done" /\ ~signalled[u]
     THEN Goes(u, "verify") /\ UNCHANGED <<failing, result, locks>>
     ELSE Undo(u)
  /\ UNCHANGED <<package, runtime, starter, plan, record, snapshot, signalled, installer, owes, bounds>>

\* The version that the installed program prints.
Verify(u) ==
  /\ phase[u] = "verify" /\ ~signalled[u]
  /\ \/ /\ disk = plan[u].target
        /\ IF record[u]
           THEN Goes(u, "restore") /\ locks' = [locks EXCEPT !["instance"] = "none"] /\ UNCHANGED result
           ELSE End(u, "updated")
        /\ UNCHANGED failing
     \/ Undo(u)
  /\ UNCHANGED <<package, runtime, starter, plan, record, snapshot, signalled, installer, owes, bounds>>

-----------------------------------------------------------------------------
(* Launches. *)

\* A second daemon finds the daemon lock taken; one whose package is unreadable dies at once.
Launch(p) ==
  IF Probed = "none" /\ disk # 0
  THEN /\ daemon' = "forked" /\ parent' = p
       /\ ran' = [version |-> disk, config |-> config]
       /\ UNCHANGED asked
  ELSE daemon' = Probed /\ UNCHANGED <<parent, ran, asked>>

\* rollbackLaunch ends the process that was launched, and no other.
RollbackLaunch(p) ==
  IF parent = p /\ daemon \notin {"none", "crashed"}
  THEN /\ daemon' = "none" /\ asked' = "none"
       /\ locks' = [l \in Lock |-> IF locks[l] \in {p, "daemon"} THEN "none" ELSE locks[l]]
  ELSE UNCHANGED <<daemon, asked>> /\ locks' = Freed(p)

\* restoreBackgroundRuntime; a failed update first looks whether a package can be read.
\* Mutant: the configuration may have changed.
AnyIdentity(u) == TRUE
SameIdentity(u) == config = snapshot[u]
Restore(u) ==
  /\ phase[u] = "restore"
  /\ \/ SameIdentity(u) /\ (failing[u] => disk # 0) /\ Goes(u, "launching") /\ Launch(u)
        /\ UNCHANGED <<locks, result>>
     \/ ~SameIdentity(u) /\ End(u, "left") /\ UNCHANGED runtime
     \/ failing[u] /\ disk = 0 /\ End(u, "left") /\ UNCHANGED runtime
  /\ UNCHANGED <<package, starter, plan, record, snapshot, failing, signalled, installer, owes, bounds>>

\* The identity is compared again once the daemon runs.
Launched(u) ==
  /\ phase[u] = "launching" /\ daemon = "running"
  /\ IF SameIdentity(u)
     THEN End(u, IF failing[u] \/ signalled[u] THEN "restored" ELSE "updated") /\ UNCHANGED <<daemon, asked>>
     ELSE /\ Goes(u, "ended") /\ result' = [result EXCEPT ![u] = "left"] /\ RollbackLaunch(u)
  /\ UNCHANGED <<package, parent, ran, starter, plan, record, snapshot, failing, signalled,
                 installer, owes, bounds>>
\* It failed, or was not ready in time.
\* Mutant: the wait has no deadline.
LaunchWaits(u) ==
  /\ phase[u] = "launching" /\ daemon \in {"failed", "none"}
  /\ Goes(u, "ended") /\ result' = [result EXCEPT ![u] = "left"] /\ RollbackLaunch(u)
  /\ UNCHANGED <<package, parent, ran, starter, plan, record, snapshot, failing, signalled,
                 installer, owes, bounds>>
LaunchFails(u) ==
  /\ phase[u] = "launching" /\ daemon # "running"
  /\ Goes(u, "ended") /\ result' = [result EXCEPT ![u] = "left"] /\ RollbackLaunch(u)
  /\ UNCHANGED <<package, parent, ran, starter, plan, record, snapshot, failing, signalled,
                 installer, owes, bounds>>

\* kintio start.
StartTakes ==
  /\ Other /\ Take("lifecycle", "start") /\ starter' = "looking"
  /\ UNCHANGED <<package, runtime, updater>>
StartBackgroundDaemon ==
  /\ starter = "looking" /\ daemon # "stopping"
  /\ IF Existing THEN starter' = "waiting" /\ UNCHANGED runtime
     ELSE starter' = "launched" /\ Launch("start")
  /\ UNCHANGED <<package, locks, updater, bounds>>
\* It runs, or the wait ends: only a daemon it launched itself is taken back.
StartEnds ==
  /\ starter # "none" /\ starter' = "none"
  /\ IF starter = "launched" /\ daemon # "running"
     THEN RollbackLaunch("start")
     ELSE locks' = Freed("start") /\ UNCHANGED <<daemon, asked>>
  /\ UNCHANGED <<package, parent, ran, updater, bounds>>

-----------------------------------------------------------------------------
(* The daemon, and the rest of the world. *)

\* The record is published with the configuration the daemon loaded.
Publish ==
  /\ daemon = "forked" /\ daemon' = "starting"
  /\ ran' = [ran EXCEPT !.config = config]
  /\ UNCHANGED <<package, locks, parent, asked, starter, updater, bounds>>
\* The worker needs the instance; without it the daemon gives up in the end.
Ready ==
  /\ daemon = "starting"
  /\ \/ Take("instance", "daemon") /\ daemon' = "running"
     \/ locks["instance"] # "none" /\ daemon' = "failed" /\ UNCHANGED locks
  /\ UNCHANGED <<package, parent, ran, asked, starter, updater, bounds>>
Stops ==
  /\ Other /\ daemon \in {"starting", "running", "failed"}
  /\ daemon' = "stopping" /\ asked' = "none"
  /\ UNCHANGED <<package, locks, parent, ran, starter, updater>>
Stopped ==
  /\ daemon = "stopping" /\ daemon' = "none"
  /\ locks' = Freed("daemon")
  /\ UNCHANGED <<package, parent, ran, asked, starter, updater, bounds>>
\* Its record stays, and its worker for a while.
DaemonDies ==
  /\ Dies /\ daemon \notin {"none", "crashed"}
  /\ daemon' = IF daemon = "forked" THEN "none" ELSE "crashed"
  /\ asked' = "none"
  /\ locks' = [l \in Lock |-> IF locks[l] = "daemon" THEN "orphan" ELSE locks[l]]
  /\ UNCHANGED <<package, parent, ran, starter, updater>>
OrphanEnds ==
  /\ "orphan" \in {locks[l] : l \in Lock}
  /\ locks' = Freed("orphan")
  /\ UNCHANGED <<package, runtime, starter, updater, bounds>>

StarterDies ==
  /\ Dies /\ starter # "none"
  /\ starter' = "none" /\ locks' = Freed("start")
  /\ UNCHANGED <<package, runtime, updater>>
\* The package manager runs in a process group of its own.
UpdaterDies(u) ==
  /\ Dies /\ phase[u] \notin {"idle", "ended", "crashed"}
  /\ Goes(u, "crashed") /\ locks' = Freed(u)
  /\ UNCHANGED <<package, runtime, starter, plan, record, snapshot, failing, signalled, installer,
                 owes, result>>
Signal(u) ==
  /\ phase[u] \notin {"idle", "preparing", "prepared", "ended", "crashed"} /\ ~signalled[u]
  /\ signalled' = [signalled EXCEPT ![u] = TRUE]
  /\ UNCHANGED <<package, locks, runtime, starter, phase, plan, record, snapshot, failing,
                 installer, owes, result, bounds>>

\* A runtime or a login in the foreground.
Foreground ==
  /\ \/ Other /\ Take("instance", "foreground")
     \/ locks["instance"] = "foreground" /\ locks' = Freed("foreground") /\ UNCHANGED bounds
  /\ UNCHANGED <<package, runtime, starter, updater>>
Edit ==
  /\ Other /\ config' = config + 1
  /\ UNCHANGED <<disk, latest, locks, runtime, starter, updater>>
Released ==
  /\ latest < MaxVersion /\ latest' = latest + 1
  /\ UNCHANGED <<disk, config, locks, runtime, starter, updater, bounds>>

-----------------------------------------------------------------------------

Init ==
  /\ disk = 1 /\ latest = 1 /\ config = 0
  /\ daemon \in {"none", "running"}
  /\ locks = [l \in Lock |-> IF l = "instance" /\ daemon = "running" THEN "daemon" ELSE "none"]
  /\ parent = "none" /\ ran = [version |-> 1, config |-> 0] /\ asked = "none" /\ starter = "none"
  /\ phase = [u \in Updater |-> "idle"]
  /\ plan = [u \in Updater |-> [current |-> 0, target |-> 0, was |-> 0]]
  /\ record = [u \in Updater |-> FALSE] /\ snapshot = [u \in Updater |-> 0]
  /\ failing = [u \in Updater |-> FALSE] /\ signalled = [u \in Updater |-> FALSE]
  /\ installer = [u \in Updater |-> "none"] /\ owes = [u \in Updater |-> FALSE]
  /\ result = [u \in Updater |-> "none"]
  /\ late = 0 /\ crashes = 0 /\ others = 0

Step(u) ==
  \/ Prepare(u) \/ WithInstallationLock(u) \/ WithLifecycleLock(u) \/ Probe(u)
  \/ GateInterrupted(u) \/ StopIfIdle(u) \/ Busy(u) \/ GateFails(u)
  \/ DaemonStoppedAfterUncertainGate(u) \/ WaitForDaemonStopped(u)
  \/ ReserveInstance(u) \/ Interrupted(u) \/ Install(u) \/ InstallReturns(u) \/ Verify(u)
  \/ Restore(u) \/ Launched(u) \/ LaunchFails(u)
Installs(u) == InstallerWrites(u) \/ InstallerEnds(u)
Next ==
  \/ \E u \in Updater :
       \/ Begin(u) \/ Step(u) \/ Installs(u)
       \/ BeginTermination(u) \/ TerminationFails(u) \/ UpdaterDies(u) \/ Signal(u)
  \/ LateAnswer \/ StartTakes \/ StartBackgroundDaemon \/ StartEnds
  \/ Publish \/ Ready \/ Stops \/ Stopped \/ DaemonDies \/ OrphanEnds \/ StarterDies
  \/ Foreground \/ Edit \/ Released

Spec == Init /\ [][Next]_vars

\* Every wait of an updater has a deadline; a package manager ends or is killed.
Fairness ==
  /\ \A u \in Updater : WF_vars(Step(u)) /\ WF_vars(InstallerEnds(u))
FairSpec == Spec /\ Fairness

-----------------------------------------------------------------------------
(* Properties.                                                             *)

\* A package is changed and verified by one updater at a time, while no runtime and no
\* login of the home works, and nobody launches what its own package manager may still
\* be changing (withInstallationUpdateLock, reserveInstanceForUpdate, ProcessTreeTerminationError).
InstallAlone == \A u \in Updater :
  /\ phase[u] \in {"installing", "verify"} =>
       /\ locks["instance"] \notin {"daemon", "orphan", "foreground"}
       /\ \A v \in Updater \ {u} : phase[v] \notin {"installing", "verify"}
  /\ phase[u] = "launching" => ~Changing(u)

\* As long as no process dies, an update that waited for another one does not install an
\* older version over what that one installed (the comparison of diskVersion).
NeverGoesBack == [][crashes = 0 => \A u \in Updater :
  ~Changing(u) /\ Changing(u)' => disk \in 1 .. plan[u].target - 1]_vars

\* As long as no process dies, an update that stopped the runtime and does not say that it
\* remains stopped leaves it running, from the package on disk and with the configuration
\* it had; success means the new version (restoreBackgroundRuntime).
RestoredOrSaid == [][crashes = 0 => \A u \in Updater :
  result[u] = "none" /\ result'[u] \in {"restored", "updated"} /\ owes[u] =>
    /\ daemon' = "running" /\ ran' = [version |-> disk, config |-> snapshot[u]]
    /\ result'[u] = "updated" => ran'.version = plan[u].target]_vars

\* docs/plans/2026-09-02-cli-update-ilink-lifecycle.md:159 of an update that is refused
\* before the installation: "no stop and no install".
RefusedStopsNothing == \A u \in Updater : result[u] = "failed" => ~owes[u]

\* An update ends, whatever the daemon, the package manager and the other commands do,
\* and TypeOK says that its locks are free then.
UpdateEnds == \A u \in Updater : phase[u] = "preparing" ~> phase[u] \in {"ended", "crashed"}
=============================================================================
