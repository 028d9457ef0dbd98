------------------------------- MODULE MCWecom -------------------------------
(***************************************************************************)
(* Instances of the parts around WeChat KF: KfOutbox and WecomSync.  The    *)
(* run explores one instance after another: subject names the instance      *)
(* whose steps are taken, while the variables of the other part stay as     *)
(* they were in the beginning.  The instances of one part share its         *)
(* variables.  KfOutbox itself, with the constants of the configuration, is *)
(* one of the instances ("turns").                                         *)
(***************************************************************************)
EXTENDS KfOutbox, TLC

CONSTANTS
  Subject,                  \* the instances a run explores
  pa, pb, k1, k2,           \* two customers, two tool calls
  w1, w2, ca, cb            \* two accounts, two conversations

VARIABLES
  subject,
  \* WecomSync, whose inbox, drain and failures have names of their own
  log, called, cursor, stored, pending, liveRequested, retries, worker, waiters, preempted,
  catchUp, backfill, mode, failed, stops

\* One customer or two, one account or two.
OnePeer(messages) == [m \in 1 .. messages |-> pa]
TwoPeers(messages) == [m \in 1 .. messages |-> IF m <= 2 THEN pa ELSE pb]
OneAccount(messages) == [m \in 1 .. messages |-> 1]
SecondElsewhere == [m \in 1 .. 4 |-> IF m = 2 THEN 2 ELSE 1]

\* Two messages of a customer and two tool calls at once: sessions replaced by steering, in
\* the instance of the configuration; sessions that expire.
PeerOfTurns == OnePeer(2)
AccountOfTurns == OneAccount(2)
Expiring == INSTANCE KfOutbox WITH
  Messages <- 2, Peer <- {pa}, Account <- {1}, PeerOf <- OnePeer(2), AccountOf <- OneAccount(2),
  Trigger <- {}, Known <- {pa}, Required <- 1, Budget <- 2, Call <- {k1, k2}, Waits <- {},
  Closes <- FALSE, MaxSessions <- 1, MaxExpiries <- 1, MaxInterrupts <- 0, MaxReports <- 0,
  MaxCrashes <- 0
\* A crash, an interrupted tool call and a reported failure.
Crash == INSTANCE KfOutbox WITH
  Messages <- 2, Peer <- {pa}, Account <- {1}, PeerOf <- OnePeer(2), AccountOf <- OneAccount(2),
  Trigger <- {}, Known <- {pa}, Required <- 1, Budget <- 1, Call <- {k1}, Waits <- {1, 2},
  Closes <- FALSE, MaxSessions <- 1, MaxExpiries <- 0, MaxInterrupts <- 1, MaxReports <- 1,
  MaxCrashes <- 1
\* Notices of two customers, without turns, and a crash; an executor that closes beside a
\* tool call.
Noticing == INSTANCE KfOutbox WITH
  Messages <- 3, Peer <- {pa, pb}, Account <- {1}, PeerOf <- TwoPeers(3),
  AccountOf <- OneAccount(3),
  Trigger <- {}, Known <- {pa, pb}, Required <- 1, Budget <- 1, Call <- {}, Waits <- {1, 2, 3},
  Closes <- FALSE, MaxSessions <- 0, MaxExpiries <- 0, MaxInterrupts <- 0, MaxReports <- 1,
  MaxCrashes <- 1
Closing == INSTANCE KfOutbox WITH
  Messages <- 2, Peer <- {pa}, Account <- {1}, PeerOf <- OnePeer(2), AccountOf <- OneAccount(2),
  Trigger <- {}, Known <- {pa}, Required <- 1, Budget <- 1, Call <- {k1}, Waits <- {1, 2},
  Closes <- TRUE, MaxSessions <- 1, MaxExpiries <- 0, MaxInterrupts <- 0, MaxReports <- 0,
  MaxCrashes <- 0
\* A customer who asks for authorization in two accounts.
Auth == INSTANCE KfOutbox WITH
  Messages <- 4, Peer <- {pa}, Account <- {1, 2}, PeerOf <- OnePeer(4),
  AccountOf <- SecondElsewhere,
  Trigger <- 1 .. 4, Known <- {}, Required <- 2, Budget <- 2, Call <- {}, Waits <- {},
  Closes <- FALSE, MaxSessions <- 1, MaxExpiries <- 0, MaxInterrupts <- 0, MaxReports <- 0,
  MaxCrashes <- 1
\* Messages of an account come from two conversations in turn.
Alternating(length) == [i \in 1 .. length |-> IF i % 2 = 1 THEN ca ELSE cb]

\* A log of four messages, two of them missed, read page by page; two accounts for one
\* request slot.
Pages == INSTANCE WecomSync WITH
  Account <- {w1}, Length <- 4, Conversation <- {ca, cb}, ConversationOf <- Alternating(4),
  Missed <- [a \in {w1} |-> 2], PageSize <- 1, MaxPages <- 3, MaxRequests <- 1,
  MaxFailures <- 2, MaxStops <- 1, inbox <- stored, drain <- backfill,
  failures <- failed
Slots == INSTANCE WecomSync WITH
  Account <- {w1, w2}, Length <- 2, Conversation <- {ca, cb}, ConversationOf <- Alternating(2),
  Missed <- [a \in {w1, w2} |-> 1], PageSize <- 1, MaxPages <- 2, MaxRequests <- 1,
  MaxFailures <- 1, MaxStops <- 1, inbox <- stored, drain <- backfill,
  failures <- failed
ASSUME ConstantsAssumption ==
  /\ ConstantsOK /\ Expiring!ConstantsOK /\ Crash!ConstantsOK /\ Noticing!ConstantsOK
  /\ Closing!ConstantsOK /\ Auth!ConstantsOK
  /\ Pages!ConstantsOK /\ Slots!ConstantsOK

syncVars == <<log, called, cursor, stored, pending, liveRequested, retries, worker, waiters,
              preempted, catchUp, backfill, mode, failed, stops>>
allVars == <<subject, vars, syncVars>>

\* Tool calls are told apart by nothing but their names.
Symmetry == Permutations({k1, k2})

MCInit ==
  /\ subject \in Subject
  /\ CASE subject = "crash" -> Crash!Init
       [] subject = "notices" -> Noticing!Init
       [] subject = "closing" -> Closing!Init
       [] subject = "auth" -> Auth!Init
       [] OTHER -> Init
  /\ IF subject = "pages" THEN Pages!Init ELSE Slots!Init

OutboxNext ==
  /\ UNCHANGED <<subject, syncVars>>
  /\ \/ subject = "turns" /\ Next
     \/ subject = "expiring" /\ Expiring!Next
     \/ subject = "crash" /\ Crash!Next
     \/ subject = "notices" /\ Noticing!Next
     \/ subject = "closing" /\ Closing!Next
     \/ subject = "auth" /\ Auth!Next

SyncNext ==
  /\ UNCHANGED <<subject, vars>>
  /\ \/ subject = "pages" /\ Pages!Next
     \/ subject = "slots" /\ Slots!Next

MCNext == OutboxNext \/ SyncNext

MCSpec == MCInit /\ [][MCNext]_allVars

-----------------------------------------------------------------------------
(* Properties: OutboxIsServed, HandedOverOnce, ReportedFailureSticks,       *)
(* AnsweredBeforePutAway and SendsAreCurrent are those of KfOutbox, for its *)
(* messages 1 and 2, which are of one conversation wherever there are       *)
(* turns; the others are those of the parts, each on its instances.        *)

\* The types are right (KfOutbox, WecomSync).
TypesOK ==
  /\ CASE subject = "expiring" -> Expiring!TypeOK
       [] subject = "crash" -> Crash!TypeOK
       [] subject = "notices" -> Noticing!TypeOK
       [] subject = "closing" -> Closing!TypeOK
       [] subject = "auth" -> Auth!TypeOK
       [] OTHER -> TypeOK
  /\ IF subject = "pages" THEN Pages!TypeOK ELSE Slots!TypeOK

\* A message never has more sends than the provider permits (KfOutbox).
BudgetsHold ==
  CASE subject = "crash" -> Crash!SendBudget
    [] subject = "notices" -> Noticing!SendBudget
    [] subject = "auth" -> Auth!SendBudget
    [] OTHER -> SendBudget

\* A peer is authorized by consecutive triggers in one account (KfOutbox).
AuthorizedInRow == subject = "auth" => Auth!AuthorizedByStreak

\* What lies before the cursor is stored, and nothing else is (WecomSync).
CursorsMatch ==
  IF subject = "pages" THEN Pages!CursorMatchesInbox ELSE Slots!CursorMatchesInbox

\* A request slot is never left unused while an account waits for one (WecomSync).
SlotsAreUsed == IF subject = "pages" THEN Pages!SlotsAreUsed ELSE Slots!SlotsAreUsed

\* A request that was accepted has a worker or a timer that will take it up (WecomSync).
NoLostRequest == IF subject = "pages" THEN Pages!NoLostRequest ELSE Slots!NoLostRequest

\* The types are right; sends stay within the budget of their instance, requests are not lost,
\* slots not left unused, a peer is authorized by its streak alone, and the cursor matches the
\* inbox (KfOutbox, WecomSync).
RequestsAreServed ==
  TypesOK /\ BudgetsHold /\ AuthorizedInRow /\ SlotsAreUsed /\ NoLostRequest /\ CursorsMatch

\* Messages of a conversation reach the processor in the order of the log (WecomSync).
HandedInOrder ==
  [][/\ subject = "pages" => ~Pages!HandedOutOfOrder
     /\ subject = "slots" => ~Slots!HandedOutOfOrder]_allVars

\* Requests are served, and what they read is handed on in order (KfOutbox, WecomSync).
ServedInOrder == []RequestsAreServed /\ HandedInOrder
=============================================================================
