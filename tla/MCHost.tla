------------------------------- MODULE MCHost -------------------------------
(***************************************************************************)
(* Enrollment, with instances of the parts that start, stop and replace    *)
(* the runtime a terminal talks to: InstanceLock, NativeDaemon,            *)
(* OperatorIpc, RuntimeUse and RuntimeUpdate.  A run explores one after    *)
(* another: subject names the part or the instance whose steps are taken,  *)
(* while the variables of the other parts stay as they were in the         *)
(* beginning.  The instances of one part share its variables.  Fairness is *)
(* the premise of a liveness property, so that it is that of the instance. *)
(***************************************************************************)
EXTENDS Enrollment, TLC

CONSTANTS
  Subject,                  \* the parts and instances a run explores
  p1, p2, p3, ghost,        \* three processes, and the owner of the files of an earlier one
  c1, c2, c3, NoClient,     \* operator clients
  a1, a2,                   \* two accounts
  u1, u2                    \* two updaters

VARIABLES
  subject,
  \* InstanceLock, whose crashes are deaths
  lock, recovery, pc, attempt, seen, won, deaths, slips,
  \* NativeDaemon
  phase, stopping, flush, restarts, expired, worker, killed, busy, toWorker, toDaemon,
  probe, probes, socket, accepted, orphan, faults, launches,
  \* OperatorIpc
  run, up, start, closed, force, stopped, ended, descriptors, stage, found, open, closing,
  sessions,
  \* RuntimeUse, whose stage is progress and busy is atWork; guest is the client of an instance
  known, on, live, jobs, wecom, ops, client, guest, epoch, unused, immediates, progress,
  atWork, calls,
  \* RuntimeUpdate, whose phase is updating and late is delayed
  disk, latest, config, locks, daemon, parent, ran, asked, starter, updating, plan, record,
  snapshot, failing, signalled, installer, owes, result, delayed, crashes, others

NoFile == [token |-> <<ghost, 1>>, complete |-> FALSE]
GhostFile == [token |-> <<ghost, 0>>, complete |-> TRUE]
TornFile == [token |-> <<ghost, 0>>, complete |-> FALSE]

\* Whatever a crash left: two processes that try again, and three that try once.
Debris == {GhostFile, TornFile, NoFile} \X {GhostFile, TornFile, NoFile}
Alone == INSTANCE InstanceLock WITH
  Process <- {p1, p2}, Ghost <- ghost, MaxAttempts <- 2, MaxCrashes <- 1, crashes <- deaths,
  LeftBehind <- Debris
Contend == INSTANCE InstanceLock WITH
  Process <- {p1, p2, p3}, Ghost <- ghost, MaxAttempts <- 1, MaxCrashes <- 2, crashes <- deaths,
  LeftBehind <- Debris

\* Two daemons, one after the other, with two or three faults.
Daemon == INSTANCE NativeDaemon WITH
  MaxRestarts <- 1, MaxProbes <- 2, MaxFaults <- 2, MaxLaunches <- 2
Faulty == INSTANCE NativeDaemon WITH
  MaxRestarts <- 1, MaxProbes <- 2, MaxFaults <- 3, MaxLaunches <- 2

\* Two hosts, one after the other, and two relays.
Ipc == INSTANCE OperatorIpc WITH Client <- {c1, c2}, MaxRuns <- 2

\* One account and two clients, or one; two accounts and a client of its own.
Clients == INSTANCE RuntimeUse WITH
  Account <- {a1}, Client <- {c1, c2}, MaxCalls <- 2, stage <- progress, busy <- atWork
Lone == INSTANCE RuntimeUse WITH
  Account <- {a1}, Client <- {c1}, MaxCalls <- 3, stage <- progress, busy <- atWork
Accounts == INSTANCE RuntimeUse WITH
  Account <- {a1, a2}, Client <- {c3}, MaxCalls <- 2, client <- guest, stage <- progress,
  busy <- atWork

\* Versions that follow each other; processes that die; one update by itself.
Races == INSTANCE RuntimeUpdate WITH
  Updater <- {u1, u2}, MaxVersion <- 3, MaxLate <- 1, MaxCrashes <- 0, MaxOthers <- 1,
  phase <- updating, late <- delayed
Deaths == INSTANCE RuntimeUpdate WITH
  Updater <- {u1, u2}, MaxVersion <- 2, MaxLate <- 1, MaxCrashes <- 1, MaxOthers <- 1,
  phase <- updating, late <- delayed
Single == INSTANCE RuntimeUpdate WITH
  Updater <- {u1}, MaxVersion <- 2, MaxLate <- 1, MaxCrashes <- 1, MaxOthers <- 1,
  phase <- updating, late <- delayed

ASSUME ConstantsAssumption ==
  /\ ConstantsOK /\ Alone!ConstantsOK /\ Contend!ConstantsOK /\ Daemon!ConstantsOK /\ Faulty!ConstantsOK
  /\ Ipc!ConstantsOK /\ Clients!ConstantsOK /\ Lone!ConstantsOK /\ Accounts!ConstantsOK
  /\ Races!ConstantsOK /\ Deaths!ConstantsOK /\ Single!ConstantsOK

lockVars == <<lock, recovery, pc, attempt, seen, won, deaths, slips>>
daemonVars == <<phase, stopping, flush, restarts, expired, worker, killed, busy, toWorker,
                toDaemon, probe, probes, socket, accepted, orphan, faults, launches>>
ipcVars == <<run, up, start, closed, force, stopped, ended, descriptors, stage, found, open,
             closing, sessions>>
useVars == <<known, on, live, jobs, wecom, ops, client, guest, epoch, unused, immediates,
             progress, atWork, calls>>
updateVars == <<disk, latest, config, locks, daemon, parent, ran, asked, starter, updating,
                plan, record, snapshot, failing, signalled, installer, owes, result, delayed,
                crashes, others>>
otherVars == <<lockVars, daemonVars, ipcVars, useVars, updateVars>>
allVars == <<subject, vars, otherVars>>

\* Two processes, clients, updaters, accounts and terminals are told apart by nothing but
\* their names.
Symmetry ==
  Permutations({p1, p2}) \cup Permutations({c1, c2}) \cup Permutations({u1, u2})
    \cup Permutations(Account) \cup Permutations(Session)

Away == [connected |-> FALSE, login |-> "none"]

\* Where a part may begin in several ways, it has one of them while another is explored.
MCInit ==
  /\ subject \in Subject
  /\ Init
  /\ CASE subject = "alone" -> Alone!Init
       [] subject = "contend" -> Contend!Init
       [] OTHER -> Contend!Init /\ lock = GhostFile /\ recovery = NoFile
  /\ Daemon!Init
  /\ Ipc!Init
  /\ CASE subject = "clients" -> Clients!Init
       [] subject = "accounts" -> Accounts!Init /\ client = [c \in {c1, c2} |-> Away]
       [] subject = "lone" -> Lone!Init
       [] OTHER -> Clients!Init /\ known = {} /\ ~wecom.enabled /\ ~atWork
  /\ guest = [c \in {c3} |-> Away]
  /\ CASE subject \in {"races", "deaths"} -> Races!Init
       [] subject = "single" -> Single!Init
       [] OTHER -> Races!Init /\ daemon = "none"

\* Nothing is claimed of three processes once a guard was removed by name.
LockNext ==
  /\ UNCHANGED <<subject, vars, daemonVars, ipcVars, useVars, updateVars>>
  /\ \/ subject = "alone" /\ Alone!Next
     \/ subject = "contend" /\ "lateUnlink" \notin slips /\ Contend!Next

DaemonNext ==
  /\ UNCHANGED <<subject, vars, lockVars, ipcVars, useVars, updateVars>>
  /\ \/ subject = "daemon" /\ Daemon!Next
     \/ subject = "faulty" /\ Faulty!Next

IpcNext ==
  /\ UNCHANGED <<subject, vars, lockVars, daemonVars, useVars, updateVars>>
  /\ subject = "ipc" /\ Ipc!Next

UseNext ==
  /\ UNCHANGED <<subject, vars, lockVars, daemonVars, ipcVars, updateVars>>
  /\ \/ subject = "clients" /\ Clients!Next /\ UNCHANGED guest
     \/ subject = "accounts" /\ Accounts!Next /\ UNCHANGED client
     \/ subject = "lone" /\ Lone!Next /\ UNCHANGED guest

UpdateNext ==
  /\ UNCHANGED <<subject, vars, lockVars, daemonVars, ipcVars, useVars>>
  /\ \/ subject = "races" /\ Races!Next
     \/ subject = "deaths" /\ Deaths!Next
     \/ subject = "single" /\ Single!Next

\* One terminal may live through an end of the process; several do without.
EnrollmentNext ==
  /\ UNCHANGED <<subject, otherVars>>
  /\ subject = "offers" /\ Next
  /\ closings' = 0 \/ Cardinality({s \in Session : session'[s] # "new"}) <= 1

MCNext == LockNext \/ DaemonNext \/ IpcNext \/ UseNext \/ UpdateNext \/ EnrollmentNext

MCSpec == MCInit /\ [][MCNext]_allVars

-----------------------------------------------------------------------------
(* Properties: AccountLimit, OffersAreFollowed and OffersChangeSoundly are *)
(* those of Enrollment, the others those of the parts, on their instances. *)

TypesOK ==
  CASE subject = "alone" -> Alone!TypeOK
    [] subject = "contend" -> Contend!TypeOK
    [] subject = "daemon" -> Daemon!TypeOK
    [] subject = "faulty" -> Faulty!TypeOK
    [] subject = "ipc" -> Ipc!TypeOK
    [] subject = "clients" -> Clients!TypeOK
    [] subject = "accounts" -> Accounts!TypeOK
    [] subject = "lone" -> Lone!TypeOK
    [] subject = "races" -> Races!TypeOK
    [] subject = "deaths" -> Deaths!TypeOK
    [] subject = "single" -> Single!TypeOK
    [] subject = "offers" -> TypeOK

\* Who holds the lock finds its own record in the file, but after a slip (InstanceLock).
HolderKeepsFile ==
  /\ subject = "alone" => Alone!HolderKeepsFile
  /\ subject = "contend" => Contend!HolderKeepsFile

\* Two processes never replace a lock at once, but after a guard was removed (InstanceLock).
OneRecovery ==
  /\ subject = "alone" => Alone!OneRecovery
  /\ subject = "contend" => Contend!OneRecovery

\* A process that is alone gets the lock, whatever files others left (InstanceLock).
TakenOver == subject = "alone" /\ Alone!Fairness => Alone!TakenOver

\* A client that was told "idle" may replace the program (NativeDaemon).
AcceptedIsFinal == Daemon!AcceptedIsFinal

\* A daemon that ends by itself leaves no worker behind (NativeDaemon).
EndLeavesNoWorker == Daemon!EndLeavesNoWorker

\* A worker that stopped accepting work for a client that is gone does not stay that way,
\* and a daemon that began to stop ends (NativeDaemon).
GateIsReleased == subject = "daemon" /\ Daemon!Fairness => Daemon!GateIsReleased
StopEnds == subject = "daemon" /\ Daemon!Fairness => Daemon!StopEnds

\* A descriptor on disk is that of a host that serves, or of a corpse (OperatorIpc).
DescriptorIsServed == Ipc!DescriptorIsServed

\* A close that is not forced ends no connection of an attached client (OperatorIpc).
GracefulKeepsClients == Ipc!GracefulKeepsClients

\* A connection that is gone is no session, and a host that closes ends (OperatorIpc).
SessionEnds == subject = "ipc" /\ Ipc!Fairness => Ipc!SessionEnds
CloseEnds == subject = "ipc" /\ Ipc!Fairness => Ipc!CloseEnds

\* Nothing stops a runtime that is in use or has a call of an operator under way (RuntimeUse).
StopInterruptsNothing ==
  [][IF subject = "accounts" THEN Accounts!InterruptsNothing
     ELSE Clients!InterruptsNothing]_allVars

\* A WeCom listener that runs is one a restart of the worker brings back (RuntimeUse).
RunningIsRemembered == Clients!RunningIsRemembered

\* A worker that closed left no listener behind (RuntimeUse).
ClosedIsQuiet == Clients!ClosedIsQuiet

\* Once the last channel is off and nobody is connected, the runtime stops (RuntimeUse).
UnusedStops == subject = "lone" /\ Lone!Fairness => Lone!UnusedStops

\* A package is changed by one updater at a time, while no runtime works (RuntimeUpdate).
InstallAlone == Races!InstallAlone

\* An update does not install an older version over a newer one (RuntimeUpdate).
NeverGoesBack == Races!NeverGoesBack

\* A lock is lost, or replaced by two processes at once, in no other way than by a slip.
LockIsKept == HolderKeepsFile /\ OneRecovery

\* The types are right and each part keeps what it promised: an accepted stop is final,
\* descriptors are served, a closed runtime is quiet, packages change alone.
CommitmentsAreKept ==
  /\ TypesOK /\ AcceptedIsFinal /\ DescriptorIsServed
  /\ RunningIsRemembered /\ ClosedIsQuiet /\ InstallAlone

\* An update that stopped the runtime leaves it running, or says that it does not
\* (RuntimeUpdate).
RestoredOrSaid == Races!RestoredOrSaid

\* Ends are orderly: no worker, client, call, version or runtime is lost in one.
EndsAreOrderly ==
  /\ StopInterruptsNothing /\ EndLeavesNoWorker /\ GracefulKeepsClients
  /\ NeverGoesBack /\ RestoredOrSaid

\* An update ends, whatever the daemon, the package manager and the other commands do
\* (RuntimeUpdate).
UpdateEnds == subject = "single" /\ Single!Fairness => Single!UpdateEnds

\* Every offer ends (Enrollment).
OffersEnd == subject = "offers" /\ Fairness => OfferEnds

\* Takeovers, gates, stops, sessions, closes, updates and offers come to an end.
StopsAndUpdatesEnd ==
  /\ OffersEnd /\ TakenOver /\ GateIsReleased /\ StopEnds /\ SessionEnds /\ CloseEnds
  /\ UnusedStops /\ UpdateEnds
=============================================================================
