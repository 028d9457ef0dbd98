---------------------------- MODULE InstanceLock ----------------------------
(***************************************************************************)
(* The lock file of an instance: src/src/runtime/single-instance-lock.ts    *)
(* and its use by withLifecycleLock of src/src/runtime/daemon-client.ts.    *)
(*                                                                         *)
(* A process takes the lock by creating a file exclusively.  A file whose   *)
(* owner is dead, or that cannot be read, is replaced under the guard of a   *)
(* second file, the recovery file.  Every call of the file system is a step  *)
(* of its own: processes interleave and die between any two of them.        *)
(*                                                                         *)
(* Abstractions.  A file is its owner's token and whether it was written in  *)
(* full: exclusive creation makes it empty, the owner's record follows.      *)
(* hasActiveDatabaseOwner answers no, as for daemon.lock and lifecycle.lock. *)
(* The 30 s after which an unreadable recovery file is dropped are taken to   *)
(* be longer than a living process needs to write it.                        *)
(***************************************************************************)
EXTENDS Naturals, FiniteSets

CONSTANTS
  Process,
  Ghost,         \* the owner of a file left by an earlier crash
  MaxAttempts,   \* attempts of one process
  MaxCrashes,    \* bound on crashes
  LeftBehind     \* pairs <<lock, recovery>> of the files at the beginning

ConstantsOK ==
  Ghost \notin Process /\ MaxAttempts \in Nat \ {0} /\ MaxCrashes \in Nat

VARIABLES
  lock, recovery,  \* the two files
  pc,              \* where a process is
  attempt,         \* attempts it has begun
  seen,            \* the token it has read and wants to unlink
  won,             \* whether it goes on with the lock after its guard is removed
  crashes,
  slips            \* history: which gaps between a read and what rests on it were hit

files == <<lock, recovery>>
vars == <<files, pc, attempt, seen, won, crashes, slips>>

-----------------------------------------------------------------------------

Token == (Process \X (1 .. MaxAttempts)) \cup {<<Ghost, 0>>}
NoToken == <<Ghost, 1>>
File == [token : Token, complete : BOOLEAN]
NoFile == [token |-> NoToken, complete |-> FALSE]
Location == {"idle", "start", "dropInvalid", "readAgain", "dropRecovery", "create", "fill",
             "read", "guard", "fillGuard", "check", "unlink", "createAgain", "fillAgain",
             "unguard", "dropGuard", "held", "releasing", "dropLock", "dead"}

\* A lock is read while its living owner has not written it yet, and replaced for it
\* ("halfWritten"); a recovery file is removed by name after it was read, when it is
\* already the guard of another living process ("lateUnlink").
Slip == {"halfWritten", "lateUnlink"}

TypeOK ==
  /\ lock \in File \cup {NoFile} /\ recovery \in File \cup {NoFile}
  /\ pc \in [Process -> Location]
  /\ attempt \in [Process -> 0 .. MaxAttempts]
  /\ seen \in [Process -> Token \cup {NoToken}]
  /\ won \in [Process -> BOOLEAN]
  /\ crashes \in 0 .. MaxCrashes
  /\ slips \subseteq Slip

Mine(p) == <<p, attempt[p]>>
Alive(file) == file.token[1] \in Process /\ pc[file.token[1]] # "dead"
\* readOwner gives a living owner.
LiveOwner(file) == file.complete /\ Alive(file)

Goto(p, l) == pc' = [pc EXCEPT ![p] = l]
\* SingleInstanceLockError, or the error of the file system.
Refused(p) == Goto(p, "idle")

Unchanged(p) == UNCHANGED <<attempt, seen, won, crashes, slips>>

\* The step hits the gap if the condition holds.
SlipIf(condition, slip) == slips' = IF condition THEN slips \cup {slip} ELSE slips

-----------------------------------------------------------------------------
(* acquireSingleInstanceLock, until the lock is found or created. *)

Begin(p) ==
  /\ pc[p] = "idle" /\ attempt[p] < MaxAttempts
  /\ attempt' = [attempt EXCEPT ![p] = @ + 1]
  /\ seen' = [seen EXCEPT ![p] = NoToken] /\ won' = [won EXCEPT ![p] = FALSE]
  /\ Goto(p, "start")
  /\ UNCHANGED <<files, crashes, slips>>

\* Mutant: whoever finds a recovery file gives up.
ReadRecoveryForGood(p) ==
  /\ pc[p] = "start"
  /\ IF recovery = NoFile THEN Goto(p, "create") ELSE Refused(p)
  /\ UNCHANGED <<files, attempt, seen, won, crashes, slips>>
ReadRecovery(p) ==
  /\ pc[p] = "start"
  /\ seen' = [seen EXCEPT ![p] = recovery.token]
  /\ \/ recovery = NoFile /\ Goto(p, "create")
     \/ recovery # NoFile /\ Alive(recovery) /\ Refused(p)
     \/ recovery # NoFile /\ ~Alive(recovery) /\ recovery.complete /\ Goto(p, "readAgain")
     \/ recovery # NoFile /\ ~Alive(recovery) /\ ~recovery.complete
          /\ (Goto(p, "dropInvalid") \/ Refused(p))
  /\ UNCHANGED <<files, attempt, won, crashes, slips>>
DropInvalid(p) ==
  /\ pc[p] = "dropInvalid"
  /\ recovery' = NoFile
  /\ IF recovery = NoFile THEN Refused(p) ELSE Goto(p, "create")
  /\ SlipIf(Alive(recovery), "lateUnlink")
  /\ UNCHANGED <<lock, attempt, seen, won, crashes>>

\* unlinkIfOwned reads the file and then unlinks whatever has its name.
ReadAgain(p) ==
  /\ pc[p] = "readAgain"
  /\ Goto(p, IF recovery.token = seen[p] THEN "dropRecovery" ELSE "create")
  /\ UNCHANGED files /\ Unchanged(p)
DropRecovery(p) ==
  /\ pc[p] = "dropRecovery"
  /\ recovery' = NoFile
  /\ Goto(p, "create")
  /\ SlipIf(Alive(recovery), "lateUnlink")
  /\ UNCHANGED <<lock, attempt, seen, won, crashes>>

\* writeExclusive: an empty file, then its content.
Create(p) ==
  /\ pc[p] = "create"
  /\ IF lock = NoFile
     THEN lock' = [token |-> Mine(p), complete |-> FALSE] /\ Goto(p, "fill")
     ELSE UNCHANGED lock /\ Goto(p, "read")
  /\ UNCHANGED recovery /\ Unchanged(p)
\* The descriptor writes to the file it created, if that one is still there.
\* Mutant: the content is written to whatever has the name.
FilledByName(file, p) == [file EXCEPT !.complete = TRUE]
Filled(file, p) == IF file.token = Mine(p) THEN [file EXCEPT !.complete = TRUE] ELSE file
Fill(p) ==
  /\ pc[p] = "fill"
  /\ lock' = Filled(lock, p)
  /\ Goto(p, "held")
  /\ UNCHANGED recovery /\ Unchanged(p)

\* The file was there: whose is it?
Read(p) ==
  /\ pc[p] = "read"
  /\ IF LiveOwner(lock) THEN Refused(p) ELSE Goto(p, "guard")
  /\ UNCHANGED files /\ Unchanged(p)

-----------------------------------------------------------------------------
(* The recovery of a stale lock. *)

\* Mutant: a guard that is there is overwritten.
GuardAnyway(p) ==
  /\ pc[p] = "guard"
  /\ recovery' = [token |-> Mine(p), complete |-> FALSE] /\ Goto(p, "fillGuard")
  /\ UNCHANGED lock /\ Unchanged(p)
Guard(p) ==
  /\ pc[p] = "guard"
  /\ IF recovery = NoFile
     THEN recovery' = [token |-> Mine(p), complete |-> FALSE] /\ Goto(p, "fillGuard")
     ELSE UNCHANGED recovery /\ Refused(p)
  /\ UNCHANGED lock /\ Unchanged(p)
FillGuard(p) ==
  /\ pc[p] = "fillGuard"
  /\ recovery' = Filled(recovery, p)
  /\ Goto(p, "check")
  /\ UNCHANGED lock /\ Unchanged(p)

\* The lock may have changed hands before the guard was there.
\* Mutant: it is taken for what it was.
CheckNothing(p) ==
  /\ pc[p] = "check"
  /\ Goto(p, IF lock = NoFile THEN "createAgain" ELSE "unlink")
  /\ SlipIf(Alive(lock) /\ ~lock.complete, "halfWritten")
  /\ UNCHANGED <<files, attempt, seen, won, crashes>>
Check(p) ==
  /\ pc[p] = "check"
  /\ Goto(p, IF LiveOwner(lock) THEN "unguard"
             ELSE IF lock = NoFile THEN "createAgain" ELSE "unlink")
  /\ SlipIf(Alive(lock) /\ ~lock.complete, "halfWritten")
  /\ UNCHANGED <<files, attempt, seen, won, crashes>>
Unlink(p) ==
  /\ pc[p] = "unlink"
  /\ lock' = NoFile
  /\ Goto(p, IF lock = NoFile THEN "unguard" ELSE "createAgain")
  /\ UNCHANGED recovery /\ Unchanged(p)
CreateAgain(p) ==
  /\ pc[p] = "createAgain"
  /\ IF lock = NoFile
     THEN lock' = [token |-> Mine(p), complete |-> FALSE] /\ Goto(p, "fillAgain")
     ELSE UNCHANGED lock /\ Goto(p, "unguard")
  /\ UNCHANGED recovery /\ Unchanged(p)
FillAgain(p) ==
  /\ pc[p] = "fillAgain"
  /\ lock' = Filled(lock, p)
  /\ won' = [won EXCEPT ![p] = TRUE]
  /\ Goto(p, "unguard")
  /\ UNCHANGED <<recovery, attempt, seen, crashes, slips>>

\* finally: unlinkIfOwned of the recovery file.
Outcome(p) == IF won[p] THEN "held" ELSE "idle"
Unguard(p) ==
  /\ pc[p] = "unguard"
  /\ Goto(p, IF recovery.token = Mine(p) THEN "dropGuard" ELSE Outcome(p))
  /\ UNCHANGED files /\ Unchanged(p)
DropGuard(p) ==
  /\ pc[p] = "dropGuard"
  /\ recovery' = NoFile
  /\ Goto(p, Outcome(p))
  /\ UNCHANGED lock /\ Unchanged(p)

-----------------------------------------------------------------------------
(* release, and the end of a process. *)

Release(p) ==
  /\ pc[p] = "held"
  /\ Goto(p, "releasing")
  /\ UNCHANGED files /\ Unchanged(p)
ReadOwn(p) ==
  /\ pc[p] = "releasing"
  /\ Goto(p, IF lock.token = Mine(p) THEN "dropLock" ELSE "idle")
  /\ UNCHANGED files /\ Unchanged(p)
DropLock(p) ==
  /\ pc[p] = "dropLock"
  /\ lock' = NoFile
  /\ Goto(p, "idle")
  /\ UNCHANGED recovery /\ Unchanged(p)
Crash(p) ==
  /\ pc[p] \notin {"idle", "dead"}
  /\ crashes < MaxCrashes /\ crashes' = crashes + 1
  /\ Goto(p, "dead")
  /\ UNCHANGED <<files, attempt, seen, won, slips>>

-----------------------------------------------------------------------------

Init ==
  /\ \E left \in LeftBehind : lock = left[1] /\ recovery = left[2]
  /\ pc = [p \in Process |-> "idle"]
  /\ attempt = [p \in Process |-> 0]
  /\ seen = [p \in Process |-> NoToken]
  /\ won = [p \in Process |-> FALSE]
  /\ crashes = 0
  /\ slips = {}

Acquire(p) ==
  \/ ReadRecovery(p) \/ DropInvalid(p) \/ ReadAgain(p) \/ DropRecovery(p) \/ Create(p)
  \/ Fill(p) \/ Read(p) \/ Guard(p) \/ FillGuard(p) \/ Check(p) \/ Unlink(p) \/ CreateAgain(p)
  \/ FillAgain(p) \/ Unguard(p) \/ DropGuard(p)

Next ==
  \E p \in Process :
    Begin(p) \/ Acquire(p) \/ Release(p) \/ ReadOwn(p) \/ DropLock(p) \/ Crash(p)

Spec == Init /\ [][Next]_vars

\* An attempt is synchronous: it runs to its end unless the process dies.
Fairness == \A p \in Process : WF_vars(Acquire(p))
LiveSpec == Spec /\ Fairness

-----------------------------------------------------------------------------
(* Properties.                                                             *)

Holders == {p \in Process : pc[p] = "held"}

\* Two living processes never hold the lock (docs/architecture.md:168: "the running
\* process remains the only SQLite writer").  It fails after either slip.
OneOwner == Cardinality(Holders) <= 1

\* Who holds the lock finds its own record in the file, so that every later process
\* finds a living owner.  A lock is lost in no other way than by one of the two slips.
HolderKeepsFile ==
  slips = {} => \A p \in Holders : lock = [token |-> Mine(p), complete |-> TRUE]

\* The guard belongs to one recovery at a time: two processes never replace the lock at
\* once, half-written or not, unless one of them removed the guard of the other by name.
OneRecovery ==
  "lateUnlink" \notin slips =>
    Cardinality({p \in Process : pc[p] \in {"unlink", "createAgain", "fillAgain"}}) <= 1

\* Wherever in an acquisition or a release another process died, and whatever files an
\* earlier crash left, a process that is alone gets the lock at its first attempt,
\* unless the recovery file was left half-written.
TakenOver ==
  \A p \in Process :
    (/\ \A q \in Process \ {p} : pc[q] = "dead"
     /\ pc[p] = "start"
     /\ recovery = NoFile \/ recovery.complete)
      ~> pc[p] \in {"held", "dead"}
=============================================================================
