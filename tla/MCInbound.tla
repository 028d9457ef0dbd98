----------------------------- MODULE MCInbound -----------------------------
(***************************************************************************)
(* IlinkListener, of which a run explores one part after another, and an   *)
(* instance of Admission, whose conversations want the slots of the        *)
(* processor: subject names the part or the instance, and only steps that  *)
(* stay within it are taken.                                               *)
(***************************************************************************)
EXTENDS IlinkListener, TLC

CONSTANTS
  Subject,                      \* the parts and instances a run explores
  ca, cb,                       \* conversations
  m1, m2, m3, n1, NoMessage     \* their messages

VARIABLES
  subject,
  \* Admission, whose stops is halts
  status, primary, spoke, queue, step, tries, slot, highWaiters, lowWaiters, turn, retries,
  recovery, draining, stopped, halts

\* Two slots; WeCom's ca recovers two units while m3 arrives.  The messages reach the inbox in
\* the order of their numbers.
Owner == [m \in {m1, m2, m3, n1} |-> IF m = n1 THEN cb ELSE ca]
Number == [m \in {m1, m2, m3, n1} |-> CASE m = m1 -> 1 [] m = n1 -> 2 [] m = m2 -> 3 [] m = m3 -> 4]
Parallel == INSTANCE Admission WITH
  Conversation <- {ca, cb}, Ilink <- {cb}, Message <- {m1, m2, m3, n1},
  ConversationOf <- Owner, Order <- Number,
  Live <- {m3, n1}, Unsupported <- {}, MaxConcurrent <- 2, MaxTries <- 1, MaxRetries <- 0,
  MaxStops <- 0, Deletable <- {}, stops <- halts

ASSUME ConstantsAssumption == ConstantsOK /\ Parallel!ConstantsOK

admissionVars == <<status, primary, spoke, queue, step, tries, slot, highWaiters, lowWaiters,
                   turn, retries, recovery, draining, stopped, halts>>
allVars == <<subject, vars, admissionVars>>

\* Accounts are told apart by nothing but their names.
Symmetry == Permutations(Account)

\* Three changes while one account is unregistered; two changes of two accounts; two accounts,
\* a change, a poll that fails and a crash.
Within ==
  CASE subject = "changes" ->
         failures = 0 /\ stops = 0 /\ \E a \in Account : account[a] = Unknown /\ log[a] = 0
    [] subject = "pair" ->
         changes <= 2 /\ failures = 0 /\ stops = 0 /\ \A a \in Account : log[a] <= 1
    [] subject = "faulty" -> changes <= 1 /\ \A a \in Account : log[a] <= 1
    [] subject = "parallel" -> TRUE

MCInit ==
  /\ subject \in Subject
  /\ Init
  /\ Parallel!Init
  /\ subject = "parallel" => \A a \in Account : account[a] = Unknown /\ log[a] = 0
  /\ subject = "parallel" \/ \A m \in {m1, m2, m3, n1} : status[m] = "absent"
  /\ Within

MCNext ==
  /\ UNCHANGED subject
  /\ \/ subject # "parallel" /\ Next /\ Within' /\ UNCHANGED admissionVars
     \/ subject = "parallel" /\ Parallel!Next /\ UNCHANGED vars

MCSpec == MCInit /\ [][MCNext]_allVars

-----------------------------------------------------------------------------
(* Properties: CursorMatchesInbox and OneListenerPerAccount are those of   *)
(* IlinkListener, the other is that of Admission on its instance.          *)

\* The types are right, and two conversations that work at once share the slots soundly: nobody
\* waits while there is room, stands in line twice, keeps a slot without work or works on what
\* was answered (IlinkListener, Admission).
SlotsAreShared ==
  /\ TypeOK
  /\ subject = "parallel" =>
       /\ Parallel!TypeOK /\ Parallel!WaitersAreServed /\ Parallel!OnePlaceInLine
       /\ Parallel!SlotsAreOwned /\ Parallel!AnsweredNeverReplayed
=============================================================================
