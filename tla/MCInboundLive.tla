---------------------------- MODULE MCInboundLive ----------------------------
(***************************************************************************)
(* Instances for the liveness of the ways a message takes to the agent and  *)
(* back: WecomSync, IlinkListener, Admission and KfOutbox.  The run         *)
(* explores one instance after another: subject names the instance whose    *)
(* steps are taken, while the variables of the other parts stay as they     *)
(* were in the beginning.  WecomSync itself, with the constants of the      *)
(* configuration, is one of the instances ("downtime").  Fairness is the    *)
(* premise of a liveness property, so that it is that of the instance.      *)
(***************************************************************************)
EXTENDS WecomSync, TLC

CONSTANTS
  Subject,                  \* the instances a run explores
  pa, pb, w1, w2, ca, cb,   \* two customers, two accounts, two conversations
  x1, x2,                   \* two accounts of iLink
  a1, a2, b1, NoMessage     \* messages of the conversations

VARIABLES
  subject,
  \* KfOutbox, whose drain and failures have names of their own
  status, primary, session, attempts, reported, authorization, turn, call, outDrain, rerun,
  closed, kickDue, posts, taken, passed, evaluated, expiries, interrupts, crashes,
  \* Admission, with the rows and units of the inbox and the turns of the agent
  row, unit, spoke, queue, step, tries, slot, highWaiters, lowWaiters, agentTurn, online,
  recovery, draining, stopped, halts,
  \* IlinkListener
  account, sent, listed, tasks, jobs, job, desired, notified, ready, life, changes, breaks, ends

\* Messages of an account come from two conversations in turn.  A stop, with a message
\* missed while the process was down, in the instance of the configuration; a request that
\* fails and a single slot.  The log of the second account is complete.
Alternating == [i \in 1 .. 2 |-> IF i = 1 THEN ca ELSE cb]
MissedInDowntime == [a \in {w1, w2} |-> IF a = w1 THEN 1 ELSE 2]
Failing == INSTANCE WecomSync WITH
  Account <- {w1, w2}, Length <- 2, Conversation <- {ca, cb}, ConversationOf <- Alternating,
  Missed <- [a \in {w1, w2} |-> IF a = w1 THEN 0 ELSE 2], PageSize <- 1, MaxPages <- 3,
  MaxRequests <- 1, MaxFailures <- 1, MaxStops <- 0

\* Notices of two customers, without turns, and a crash.
TwoPeers == [m \in 1 .. 2 |-> IF m = 1 THEN pa ELSE pb]
OneAccount == [m \in 1 .. 2 |-> 1]
Notices == INSTANCE KfOutbox WITH
  Messages <- 2, Peer <- {pa, pb}, Account <- {1}, PeerOf <- TwoPeers,
  AccountOf <- OneAccount,
  Trigger <- {}, Known <- {pa, pb}, Required <- 1, Budget <- 1, Call <- {}, Waits <- {1, 2},
  Closes <- FALSE, MaxSessions <- 0, MaxExpiries <- 0, MaxInterrupts <- 0, MaxReports <- 0,
  MaxCrashes <- 1,
  drain <- outDrain, failures <- reported

\* Two conversations in line for one slot, of which one has backlog and both live input.
Owner == [m \in {a1, a2, b1} |-> IF m = b1 THEN cb ELSE ca]
Number == [m \in {a1, a2, b1} |-> CASE m = a1 -> 1 [] m = b1 -> 2 [] m = a2 -> 3]
InLine == INSTANCE Admission WITH
  Conversation <- {ca, cb}, Ilink <- {ca}, Message <- {a1, a2, b1},
  ConversationOf <- Owner, Order <- Number,
  Live <- {a2, b1}, Unsupported <- {}, MaxConcurrent <- 1, MaxTries <- 1, MaxRetries <- 0,
  MaxStops <- 0, Deletable <- {},
  status <- row, primary <- unit, turn <- agentTurn, retries <- online, stops <- halts

\* Two accounts of iLink and a poll that fails; one, to which another may come, and a crash.
Broken == INSTANCE IlinkListener WITH
  Account <- {x1, x2}, Length <- 1, MaxChanges <- 1, MaxFailures <- 1, MaxStops <- 0,
  log <- sent, inbox <- listed, drain <- ready, mode <- life, failures <- breaks, stops <- ends
Crashing == INSTANCE IlinkListener WITH
  Account <- {x1, x2}, Length <- 1, MaxChanges <- 1, MaxFailures <- 0, MaxStops <- 1,
  log <- sent, inbox <- listed, drain <- ready, mode <- life, failures <- breaks, stops <- ends

ASSUME ConstantsAssumption ==
  /\ ConstantsOK /\ Failing!ConstantsOK /\ Notices!ConstantsOK /\ InLine!ConstantsOK
  /\ Broken!ConstantsOK /\ Crashing!ConstantsOK

outboxVars == <<status, primary, session, attempts, reported, authorization, turn, call, outDrain,
                rerun, closed, kickDue, posts, taken, passed, evaluated, expiries, interrupts,
                crashes>>
admissionVars == <<row, unit, spoke, queue, step, tries, slot, highWaiters, lowWaiters,
                   agentTurn, online, recovery, draining, stopped, halts>>
listenerVars == <<account, sent, listed, tasks, jobs, job, desired, notified, ready, life, changes,
                  breaks, ends>>
allVars == <<subject, vars, outboxVars, admissionVars, listenerVars>>

\* Where a part may begin in several ways, it has one of them while another is explored.
MCInit ==
  /\ subject \in Subject
  /\ Notices!Init
  /\ IF subject = "failing" THEN Failing!Init ELSE Init
  /\ InLine!Init
  /\ subject = "in line" \/ \A m \in {a1, a2, b1} : row[m] = "absent"
  /\ Broken!Init
  /\ subject \in {"broken", "crashing"} \/ \A a \in {x1, x2} : sent[a] = 0
  /\ account[x1] = Broken!Enabled
  /\ account[x2] = IF subject = "crashing" THEN Broken!Unknown ELSE Broken!Enabled

SyncNext ==
  /\ UNCHANGED <<subject, outboxVars, admissionVars, listenerVars>>
  /\ \/ subject = "downtime" /\ Next
     \/ subject = "failing" /\ Failing!Next

OutboxNext ==
  /\ UNCHANGED <<subject, vars, admissionVars, listenerVars>>
  /\ subject = "notices" /\ Notices!Next

AdmissionNext ==
  /\ UNCHANGED <<subject, vars, outboxVars, listenerVars>>
  /\ subject = "in line" /\ InLine!Next

ListenerNext ==
  /\ UNCHANGED <<subject, vars, outboxVars, admissionVars>>
  /\ \/ subject = "broken" /\ Broken!Next
     \/ subject = "crashing" /\ Crashing!Next

MCNext == SyncNext \/ OutboxNext \/ AdmissionNext \/ ListenerNext

MCSpec == MCInit /\ [][MCNext]_allVars

-----------------------------------------------------------------------------
(* Properties: those of the parts, each on its instance.                   *)

\* What a callback announced is read, through stops and crashes (WecomSync).
AnnouncedWhileDown == subject = "downtime" /\ Fairness => AnnouncedIsRead

\* What was read live reaches the processor, even when a later request fails (WecomSync).
LiveDespiteFailure == subject = "failing" /\ Failing!Fairness => Failing!LiveIsHanded

\* What was missed while the process was down is processed in the end, as long as no request
\* fails (WecomSync).
BacklogOfDowntime == subject = "downtime" /\ Fairness => BacklogIsHanded

\* Whatever was announced, read or missed is handed to the processor (WecomSync).
MessagesAreHanded == AnnouncedWhileDown /\ LiveDespiteFailure /\ BacklogOfDowntime

\* What is reserved for the drain is sent or given up, unless the executor closes or the
\* process dies for good (KfOutbox).
ReservedIsSent == subject = "notices" /\ Notices!Fairness => Notices!ReservedIsSent

\* Every message that is enqueued is worked on (Admission).
EveryJobEnds == subject = "in line" /\ InLine!Fairness => InLine!EveryJobEnds

\* Backlog that gave way to live input comes back (Admission).
BacklogComesBack == subject = "in line" /\ InLine!Fairness => InLine!BacklogComesBack

\* Nothing waits for ever: neither a reserved send nor live input nor backlog that gave way
\* (KfOutbox, Admission).
NothingIsStranded == ReservedIsSent /\ EveryJobEnds /\ BacklogComesBack

\* What is sent to an enabled account reaches the processor, and backlog that was stored is
\* drained (IlinkListener).  Broken and Crashing have the same fair actions.
SentIsDelivered ==
  subject \in {"broken", "crashing"} /\ Broken!Fairness => Broken!SentIsDelivered
BacklogIsDrained ==
  subject \in {"broken", "crashing"} /\ Broken!Fairness => Broken!BacklogIsDrained

\* New messages and stored ones reach the processor, through a poll that fails or a crash
\* (IlinkListener).
MessagesAreDelivered == SentIsDelivered /\ BacklogIsDrained
=============================================================================
