------------------------------- MODULE MCAgent -------------------------------
(***************************************************************************)
(* Approval, with instances of AppServer, the client of the process whose  *)
(* runs ask for the approvals.  A run explores one after another: subject  *)
(* names the part or the instance whose steps are taken, while the         *)
(* variables of the other part stay as they were in the beginning.  The    *)
(* instances of AppServer share its variables.                             *)
(***************************************************************************)
EXTENDS Approval, TLC

CONSTANTS
  Subject,    \* the parts and instances a run explores
  t1, q1      \* a thread, a listing

VARIABLES
  subject,
  \* AppServer
  process, signalled, closed, failure, initializing, request, turns, stage, step,
  completion, closing, pipe, chunk, heard, working, lines, reported

\* A run beside a listing, with every fault but garbage; two runs of the thread;
\* garbage among the lines of Codex.
Calls == INSTANCE AppServer WITH
  Thread <- {t1}, Query <- {q1}, MaxRuns <- 1, MaxPages <- 1, MaxLines <- 2,
  Faults <- {"exit", "input", "output", "spawn"}
Runs == INSTANCE AppServer WITH
  Thread <- {t1}, Query <- {}, MaxRuns <- 2, MaxPages <- 1, MaxLines <- 3,
  Faults <- {"exit", "input", "output", "spawn"}
Garbled == INSTANCE AppServer WITH
  Thread <- {t1}, Query <- {q1}, MaxRuns <- 1, MaxPages <- 1, MaxLines <- 2,
  Faults <- {"line"}

ASSUME ConstantsAssumption == ConstantsOK

appServerVars == <<process, signalled, closed, failure, initializing, request, turns, stage, step,
                   completion, closing, pipe, chunk, heard, working, lines, reported>>
allVars == <<subject, appServerVars, vars>>

Symmetry == Permutations(Request)

MCInit ==
  /\ subject \in Subject
  /\ IF subject = "runs" THEN Runs!Init ELSE Calls!Init
  /\ Init

AppServerNext ==
  /\ UNCHANGED <<subject, vars>>
  /\ \/ subject = "calls" /\ Calls!Next
     \/ subject = "runs" /\ Runs!Next
     \/ subject = "garbled" /\ Garbled!Next

\* Two messages of the customer in one run, or two runs and one message.
ApprovalNext ==
  /\ UNCHANGED <<subject, appServerVars>>
  /\ subject = "approvals" /\ Next
  /\ run'.number <= 1 \/ arrived' <= 1

MCNext == AppServerNext \/ ApprovalNext

MCSpec == MCInit /\ [][MCNext]_allVars

-----------------------------------------------------------------------------
(* Properties: those of AppServer, on its instances; the others are        *)
(* Approval's own.                                                         *)

\* No run waits on a client that is closed (AppServer).
NobodyWaitsOnClosed ==
  CASE subject = "garbled" -> TRUE
    [] subject = "runs" -> Runs!NobodyWaitsOnClosed
    [] OTHER -> Calls!NobodyWaitsOnClosed

\* The end of a turn is never missed, however early it is read (AppServer).
EndIsHeard == IF subject = "runs" THEN Runs!EndIsHeard ELSE Calls!EndIsHeard

\* A close that is over leaves no child behind (AppServer).
ClosedLeavesNoChild == Calls!ClosedLeavesNoChild

\* The types are right; nobody waits on a client that ended, and it leaves no child behind
\* (AppServer).
ClientEndsWell ==
  /\ IF subject = "runs" THEN Runs!TypeOK ELSE Calls!TypeOK
  /\ NobodyWaitsOnClosed /\ EndIsHeard /\ ClosedLeavesNoChild
=============================================================================
