--------------------------- MODULE ReplyWindowProofs ---------------------------
(***************************************************************************)
(* Proofs about ReplyWindow for every set of messages and attempts, every  *)
(* budget, every number of rotations and every order of the provider.      *)
(*                                                                         *)
(* First types, and that the counters of the reply windows never disagree  *)
(* with the attempts they count: IInv, with one lemma per way in which a   *)
(* transaction can change what a window is charged with, then one step per *)
(* transaction; and that a counter counts nothing else, save what          *)
(* suppressed messages left.  Then what the turns of the conversation may   *)
(* rely on: the owner of the open window is the newest message, it is       *)
(* delivered, sends start for it only, and a usable session has its window  *)
(* (TurnInv).                                                               *)
(* Last, under IInv, that ReplyWindow implements ReplyContract: a           *)
(* transaction that starts a send is a Transmit, one that learns an outcome *)
(* (or gives up on it at a restart) is a Settle, the deletion of the        *)
(* account is an Erase, and every other one only changes which window is    *)
(* live, or stutters.                                                      *)
(***************************************************************************)
EXTENDS IlinkExecutor, FiniteSetTheorems, TLAPS

-----------------------------------------------------------------------------
(* Type correctness.                                                       *)

\* The words the code writes into the rows are words of the schema.
LEMMA StatusFacts ==
  /\ "absent" \in InboundStatus
  /\ "received" \in InboundStatus
  /\ "active" \in InboundStatus
  /\ "steering" \in InboundStatus
  /\ "steered" \in InboundStatus
  /\ "failed" \in InboundStatus
  /\ "completed" \in InboundStatus
  /\ "absorbed" \in InboundStatus
  /\ "suppressed" \in InboundStatus
  /\ "ignored" \in InboundStatus
  /\ "none" \in WindowState
  /\ "open" \in WindowState
  /\ "superseded" \in WindowState
  /\ "closed" \in WindowState
  /\ "cancelled" \in WindowState
  /\ "deleted" \in WindowState
  /\ "none" \in AttemptState
  /\ "deleted" \in AttemptState
  /\ "pending" \in AttemptState
  /\ "sending" \in AttemptState
  /\ "accepted" \in AttemptState
  /\ "failed" \in AttemptState
  /\ "uncertain" \in AttemptState
  /\ "none" \in AttemptCode
  /\ "not_transmitted" \in AttemptCode
  /\ "startup_recovery" \in AttemptCode
  /\ "none" \in AttemptKind
  /\ "mcp_tool" \in AttemptKind
  /\ "queue_notice" \in AttemptKind
  /\ "agent_approval" \in AttemptKind
  /\ SettledState \subseteq AttemptState
  BY DEF InboundStatus, LiveStatus, TerminalStatus, WindowState, PastState, AttemptState, RowState, SettledState, AttemptCode, AttemptKind


\* The rows the tables start with, and the rows that stand for no row.
LEMMA RowTypes ==
  /\ NoInbound \in InboundRow
  /\ NoWindow \in WindowRow
  /\ NoAttempt \in AttemptRow
<1>1. NoInbound \in InboundRow
  BY StatusFacts DEF NoInbound, InboundRow
<1>2. NoWindow \in WindowRow
  BY StatusFacts DEF NoWindow, WindowRow
<1>3. NoAttempt \in AttemptRow
  BY StatusFacts DEF NoAttempt, AttemptRow
<1> QED BY <1>1, <1>2, <1>3

LEMMA TypeInit == Init => TypeOK
  BY RowTypes DEF Init, TypeOK

\* Bulk updates of the inbox and of the attempts keep the schema.
LEMMA InboxTypes ==
  ASSUME TypeOK, NEW M, NEW status \in InboundStatus
  PROVE  /\ SetInbox(M, status) \in [Message -> InboundRow]
         /\ Requeue(M) \in [Message -> InboundRow]
  BY StatusFacts DEF SetInbox, Requeue, TypeOK, InboundRow

LEMMA AttemptTypes ==
  ASSUME TypeOK, NEW A
  PROVE  /\ \A state \in AttemptState, code \in AttemptCode :
              SetAttempts(A, state, code) \in [Attempt -> AttemptRow]
         /\ DeleteAttempts(A) \in [Attempt -> AttemptRow]
<1>1. ASSUME NEW state \in AttemptState, NEW code \in AttemptCode
      PROVE  SetAttempts(A, state, code) \in [Attempt -> AttemptRow]
  BY DEF SetAttempts, TypeOK, AttemptRow
<1>2. DeleteAttempts(A) \in [Attempt -> AttemptRow]
  BY StatusFacts, RowTypes DEF DeleteAttempts, NoAttempt, TypeOK, AttemptRow
<1> QED BY <1>1, <1>2

\* A poll page writes well-typed rows: the sequence numbers it gives out exist.
LEMMA TypeCommit ==
  ASSUME TypeOK, NEW page \in Page, NEW owner \in Message, CommitPollPage(page, owner)
  PROVE  TypeOK'
<1> DEFINE fresh == {page[i] : i \in Fresh(page)}
           seq(m) == lastSeq + (CHOOSE i \in Fresh(page) : page[i] = m)
           retired == Retired(owner, fresh)
<1>1. page \in Seq(Message) /\ Len(page) \in Nat
  BY PageAssumption
<1>2. Fresh(page) \subseteq Nat
  BY <1>1 DEF Fresh
<1>3. ASSUME NEW m \in fresh PROVE seq(m) \in Nat
  <2>1. PICK i \in Fresh(page) : page[i] = m
    OBVIOUS
  <2>2. (CHOOSE j \in Fresh(page) : page[j] = m) \in Fresh(page)
    BY <2>1
  <2> QED BY <1>2, <2>2 DEF TypeOK
<1>4. inbox' \in [Message -> InboundRow]
  <2>1. inbox' = [m \in Message |->
          IF m \in fresh
          THEN [status |-> IF m = owner THEN "received" ELSE "absorbed",
                seq |-> seq(m), primary |-> NoMessage]
          ELSE IF m \in Merged(owner, fresh)
          THEN [inbox[m] EXCEPT !.status = "absorbed"]
          ELSE inbox[m]]
    BY DEF CommitPollPage
  <2> HIDE DEF seq, fresh
  <2> QED BY <2>1, <1>3, StatusFacts DEF TypeOK, InboundRow
<1>5. window' \in [Message -> WindowRow]
  <2> HIDE DEF fresh
  <2>1. window' = [m \in Message |->
          IF m \in fresh
          THEN [state |-> IF m = owner THEN "open" ELSE "superseded",
                generation |-> account.generation, reserved |-> 0, transmitted |-> 0]
          ELSE IF m \in retired
          THEN [window[m] EXCEPT !.state = "superseded", !.reserved = 0]
          ELSE window[m]]
    BY DEF CommitPollPage, fresh
  <2> QED BY <2>1, StatusFacts DEF TypeOK, WindowRow
<1>6. attempt' \in [Attempt -> AttemptRow]
  BY AttemptTypes, StatusFacts DEF CommitPollPage
<1>7. session' \in SessionRow \cup {NoSession}
  BY DEF CommitPollPage, TypeOK, CloseSessionIf
<1>8. lastSeq' \in Nat
  <2>1. lastSeq' = lastSeq + Len(page)
    BY DEF CommitPollPage
  <2> QED BY <1>1, <2>1 DEF TypeOK
<1>9. UNCHANGED <<phase, account, lapsed>>
  BY DEF CommitPollPage
<1> QED
  BY <1>4, <1>5, <1>6, <1>7, <1>8, <1>9 DEF TypeOK

LEMMA TypeAccount == TypeOK /\ (RotateAccount \/ DeleteAccount) => TypeOK'
<1>1. ASSUME TypeOK, RotateAccount PROVE TypeOK'
  <2>1. window' \in [Message -> WindowRow]
    BY <1>1, StatusFacts DEF RotateAccount, TypeOK, WindowRow
  <2>2. attempt' \in [Attempt -> AttemptRow]
    BY <1>1, AttemptTypes, StatusFacts DEF RotateAccount
  <2>3. account' \in [active : BOOLEAN, generation : Nat]
    <3>1. account.generation + 1 \in Nat
      BY <1>1 DEF TypeOK
    <3> QED BY <1>1, <3>1 DEF RotateAccount, TypeOK
  <2> QED BY <1>1, <2>1, <2>2, <2>3 DEF RotateAccount, TypeOK, CloseSessionIf
<1>2. ASSUME TypeOK, DeleteAccount PROVE TypeOK'
  <2>1. window' \in [Message -> WindowRow]
    BY <1>2, StatusFacts, RowTypes DEF DeleteAccount, TypeOK, WindowRow
  <2>2. attempt' \in [Attempt -> AttemptRow]
    BY <1>2, AttemptTypes DEF DeleteAccount
  <2>3. account' \in [active : BOOLEAN, generation : Nat]
    BY <1>2 DEF DeleteAccount, TypeOK
  <2> QED BY <1>2, <2>1, <2>2, <2>3, RowTypes DEF DeleteAccount, TypeOK
<1> QED BY <1>1, <1>2

\* The transitions of the conversation: inbox rows and the session.
LEMMA TypeConversation ==
  ASSUME TypeOK, NEW m \in Message,
         \/ ClaimInbound(m)
         \/ \E p \in Message : BeginInboundSteering(m, p)
         \/ EndInboundSteering(m)
         \/ \E unacknowledged \in SUBSET Group(m) : FailInbound(m, unacknowledged)
         \/ DeferActiveInbound(m)
         \/ MarkInboundIgnored(m)
         \/ SuppressInbound(m)
         \/ FinalizeAgentExecution(m)
         \/ \E b \in Message : CreateAgentSession(m, b)
  PROVE  TypeOK'
<1>1. CASE ClaimInbound(m)
  BY <1>1, InboxTypes, StatusFacts DEF ClaimInbound, TypeOK
<1>2. CASE \E p \in Message : BeginInboundSteering(m, p)
  <2>1. PICK p \in Message : BeginInboundSteering(m, p)
    BY <1>2
  <2>2. inbox' \in [Message -> InboundRow]
    BY <2>1, StatusFacts DEF BeginInboundSteering, TypeOK, InboundRow
  <2> QED BY <2>1, <2>2 DEF BeginInboundSteering, TypeOK
<1>3. CASE EndInboundSteering(m)
  <2>1. inbox' = SetInbox({m}, "steered") \/ inbox' = Requeue({m})
    BY <1>3 DEF EndInboundSteering
  <2>2. inbox' \in [Message -> InboundRow]
    <3>1. CASE inbox' = SetInbox({m}, "steered")
      BY <3>1, InboxTypes, StatusFacts
    <3>2. CASE inbox' = Requeue({m})
      BY <3>2, InboxTypes, StatusFacts
    <3> QED BY <2>1, <3>1, <3>2
  <2> QED BY <1>3, <2>2 DEF EndInboundSteering, TypeOK
<1>4. CASE \E unacknowledged \in SUBSET Group(m) : FailInbound(m, unacknowledged)
  <2>1. PICK unacknowledged : FailInbound(m, unacknowledged)
    BY <1>4
  <2>2. Requeue(unacknowledged) \in [Message -> InboundRow]
    BY InboxTypes, StatusFacts
  <2>3. [inbox[m] EXCEPT !.status = "failed"] \in InboundRow
    BY StatusFacts DEF TypeOK, InboundRow
  <2>4. inbox' \in [Message -> InboundRow]
    BY <2>1, <2>2, <2>3 DEF FailInbound
  <2> QED BY <2>1, <2>4 DEF FailInbound, TypeOK
<1>5. CASE DeferActiveInbound(m)
  BY <1>5, InboxTypes, StatusFacts DEF DeferActiveInbound, TypeOK, CloseSessionIf
<1>6. CASE MarkInboundIgnored(m)
  BY <1>6, InboxTypes, StatusFacts DEF MarkInboundIgnored, TypeOK
<1>7. CASE SuppressInbound(m)
  BY <1>7, InboxTypes, AttemptTypes, StatusFacts DEF SuppressInbound, TypeOK
<1>8. CASE FinalizeAgentExecution(m)
  <2>1. inbox' \in [Message -> InboundRow]
    BY <1>8, StatusFacts DEF FinalizeAgentExecution, TypeOK, InboundRow
  <2> QED BY <1>8, <2>1 DEF FinalizeAgentExecution, TypeOK, CloseSessionIf
<1>9. CASE \E b \in Message : CreateAgentSession(m, b)
  BY <1>9 DEF CreateAgentSession, TypeOK, SessionRow
<1> QED BY <1>1, <1>2, <1>3, <1>4, <1>5, <1>6, <1>7, <1>8, <1>9

\* A session names messages once it is usable.
LEMMA SessionTypes ==
  ASSUME TypeOK, SessionActive
  PROVE  session.source \in Message /\ session.boundary \in Message
  BY DEF TypeOK, SessionActive, SessionRow

\* The counters of a window stay natural numbers under the updates of a send.
LEMMA CounterTypes ==
  ASSUME TypeOK, NEW w \in Message
  PROVE  /\ window[w].reserved \in Nat
         /\ window[w].transmitted \in Nat
         /\ [window[w] EXCEPT !.reserved = @ + 1] \in WindowRow
         /\ [window[w] EXCEPT !.transmitted = @ + 1] \in WindowRow
         /\ \A n \in Nat : n <= window[w].reserved =>
              [window[w] EXCEPT !.reserved = @ - n] \in WindowRow
         /\ window[w].reserved > 0 =>
              /\ [window[w] EXCEPT !.reserved = @ - 1] \in WindowRow
              /\ [window[w] EXCEPT !.reserved = @ - 1, !.transmitted = @ + 1] \in WindowRow
<1>1. window[w] \in WindowRow
  BY DEF TypeOK
<1>2. window[w].reserved \in Nat /\ window[w].transmitted \in Nat
  BY <1>1 DEF WindowRow
<1>3. ASSUME NEW n \in Nat, NEW k \in Nat
      PROVE  /\ [window[w] EXCEPT !.reserved = n] \in WindowRow
             /\ [window[w] EXCEPT !.transmitted = n] \in WindowRow
             /\ [window[w] EXCEPT !.reserved = n, !.transmitted = k] \in WindowRow
  BY <1>1 DEF WindowRow
<1>4. \A n \in Nat : n <= window[w].reserved => window[w].reserved - n \in Nat
  BY <1>2
<1>5. window[w].reserved + 1 \in Nat /\ window[w].transmitted + 1 \in Nat
  BY <1>2
<1>6. window[w].reserved > 0 => window[w].reserved - 1 \in Nat
  BY <1>2
<1> QED BY <1>2, <1>3, <1>4, <1>5, <1>6

LEMMA TypeSends ==
  ASSUME TypeOK, NEW a \in Attempt,
         \/ PrepareReplyAttempt(a)
         \/ RejectReplyAttempt(a)
         \/ StartReplyAttempt(a)
         \/ ReleasePendingAttempt(a)
         \/ \E m \in Message, kind \in SystemKind : ReserveStartedSystemAttempt(m, a, kind)
         \/ \E state \in SettledState : FinishSend(a, state)
  PROVE  TypeOK'
<1>1. CASE PrepareReplyAttempt(a)
  <2>1. session.source \in Message /\ session.boundary \in Message
    BY <1>1, SessionTypes DEF PrepareReplyAttempt, SessionWindowValid
  <2>2. window' \in [Message -> WindowRow]
    BY <1>1, <2>1, CounterTypes DEF PrepareReplyAttempt, TypeOK
  <2>3. attempt' \in [Attempt -> AttemptRow]
    BY <1>1, <2>1, StatusFacts DEF PrepareReplyAttempt, NewAttempt, TypeOK, AttemptRow
  <2> QED BY <1>1, <2>2, <2>3 DEF PrepareReplyAttempt, TypeOK
<1>2. CASE RejectReplyAttempt(a)
  <2>1. session.source \in Message /\ session.boundary \in Message
    BY <1>2, SessionTypes DEF RejectReplyAttempt, SessionWindowValid
  <2>3. attempt' \in [Attempt -> AttemptRow]
    BY <1>2, <2>1, StatusFacts DEF RejectReplyAttempt, NewAttempt, TypeOK, AttemptRow
  <2> QED BY <1>2, <2>3 DEF RejectReplyAttempt, TypeOK
<1>3. CASE StartReplyAttempt(a)
  <2>1. session.source \in Message /\ session.boundary \in Message
    BY <1>3, SessionTypes DEF StartReplyAttempt, SessionWindowValid
  <2>2. window' \in [Message -> WindowRow]
    BY <1>3, <2>1, CounterTypes DEF StartReplyAttempt, TypeOK
  <2>3. attempt' \in [Attempt -> AttemptRow]
    <3>1. [attempt[a] EXCEPT !.state = "sending", !.sent = TRUE] \in AttemptRow
      BY StatusFacts DEF TypeOK, AttemptRow
    <3> QED BY <1>3, <3>1 DEF StartReplyAttempt, TypeOK
  <2> QED BY <1>3, <2>2, <2>3 DEF StartReplyAttempt, TypeOK
<1>4. CASE ReleasePendingAttempt(a)
  <2>1. attempt[a].window \in Message \cup {NoMessage}
    BY DEF TypeOK, AttemptRow
  <2>2. window' \in [Message -> WindowRow]
    BY <1>4, <2>1, CounterTypes DEF ReleasePendingAttempt, TypeOK
  <2>3. attempt' \in [Attempt -> AttemptRow]
    BY <1>4, AttemptTypes, StatusFacts DEF ReleasePendingAttempt
  <2> QED BY <1>4, <2>2, <2>3 DEF ReleasePendingAttempt, TypeOK
<1>5. CASE \E m \in Message, kind \in SystemKind : ReserveStartedSystemAttempt(m, a, kind)
  <2>1. PICK m \in Message, kind \in SystemKind : ReserveStartedSystemAttempt(m, a, kind)
    BY <1>5
  <2>2. kind \in AttemptKind
    BY SystemKindAssumption DEF AttemptKind
  <2>3. window' \in [Message -> WindowRow]
    BY <2>1, CounterTypes DEF ReserveStartedSystemAttempt, TypeOK
  <2>4. attempt' \in [Attempt -> AttemptRow]
    BY <2>1, <2>2, StatusFacts DEF ReserveStartedSystemAttempt, NewAttempt, TypeOK, AttemptRow
  <2> QED BY <2>1, <2>3, <2>4 DEF ReserveStartedSystemAttempt, TypeOK
<1>6. CASE \E state \in SettledState : FinishSend(a, state)
  <2>1. PICK state \in SettledState : FinishSend(a, state)
    BY <1>6
  <2>2. attempt' \in [Attempt -> AttemptRow]
    BY <2>1, AttemptTypes, StatusFacts DEF FinishSend
  <2>3. inbox' \in [Message -> InboundRow]
    BY <2>1, InboxTypes, StatusFacts DEF FinishSend
  <2> QED BY <2>1, <2>2, <2>3 DEF FinishSend, TypeOK
<1> QED BY <1>1, <1>2, <1>3, <1>4, <1>5, <1>6

\* At any moment the table of attempts has finitely many rows: what the counters
\* of the windows are compared with are finite numbers.
Ledger == {a \in Attempt : attempt[a].state # "none"}
FiniteLedger == IsFiniteSet(Ledger)

LEMMA FiniteSubsets ==
  ASSUME FiniteLedger, NEW w, NEW states, "none" \notin states
  PROVE  /\ IsFiniteSet(AttemptsIn(w, states))
         /\ Cardinality(AttemptsIn(w, states)) \in Nat
<1>1. AttemptsIn(w, states) \subseteq Ledger
  BY DEF AttemptsIn, Ledger
<1> QED BY <1>1, FS_Subset, FS_CardinalityType DEF FiniteLedger

LEMMA PendingFinite ==
  ASSUME FiniteLedger, NEW w
  PROVE  IsFiniteSet(Pending(w)) /\ Cardinality(Pending(w)) \in Nat
  BY FiniteSubsets DEF Pending

LEMMA TypeTime ==
  ASSUME TypeOK, FiniteLedger,
         \/ CloseAgentSession
         \/ \E m \in Message : ExpireWindow(m)
         \/ \E old \in SUBSET Attempt : Cleanup(old)
         \/ \E settled, unacknowledged \in SUBSET Message :
              RecoverStartup(settled, unacknowledged)
         \/ RecoverPendingAttempts
  PROVE  TypeOK'
<1>1. CASE CloseAgentSession
  BY <1>1 DEF CloseAgentSession, TypeOK
<1>2. CASE \E m \in Message : ExpireWindow(m)
  BY <1>2 DEF ExpireWindow, TypeOK
<1>3. CASE \E old \in SUBSET Attempt : Cleanup(old)
  <2>1. PICK old \in SUBSET Attempt : Cleanup(old)
    BY <1>3
  <2>2. window' \in [Message -> WindowRow]
    BY <2>1, StatusFacts DEF Cleanup, TypeOK, WindowRow
  <2>3. attempt' \in [Attempt -> AttemptRow]
    BY <2>1, AttemptTypes DEF Cleanup
  <2> QED BY <2>1, <2>2, <2>3 DEF Cleanup, TypeOK
<1>4. CASE \E settled, unacknowledged \in SUBSET Message :
             RecoverStartup(settled, unacknowledged)
  <2>1. PICK settled, unacknowledged \in SUBSET Message :
          RecoverStartup(settled, unacknowledged)
    BY <1>4
  <2>2. Requeue(unacknowledged) \in [Message -> InboundRow]
    BY InboxTypes, StatusFacts
  <2>5. \A x \in Message : [inbox[x] EXCEPT !.status = "completed"] \in InboundRow
    BY StatusFacts DEF TypeOK, InboundRow
  <2>3. inbox' \in [Message -> InboundRow]
    BY <2>1, <2>2, <2>5 DEF RecoverStartup
  <2>4. attempt' \in [Attempt -> AttemptRow]
    BY <2>1, AttemptTypes, StatusFacts DEF RecoverStartup
  <2> QED BY <2>1, <2>3, <2>4 DEF RecoverStartup, TypeOK
<1>5. CASE RecoverPendingAttempts
  <2>1. ASSUME NEW w \in Message
        PROVE  [window[w] EXCEPT !.reserved = @ - Cardinality(Pending(w))] \in WindowRow
    BY <1>5, CounterTypes, PendingFinite DEF RecoverPendingAttempts
  <2>2. window' \in [Message -> WindowRow]
    BY <1>5, <2>1 DEF RecoverPendingAttempts
  <2>3. attempt' \in [Attempt -> AttemptRow]
    BY <1>5, AttemptTypes, StatusFacts DEF RecoverPendingAttempts
  <2> QED BY <1>5, <2>2, <2>3 DEF RecoverPendingAttempts, TypeOK
<1> QED BY <1>1, <1>2, <1>3, <1>4, <1>5

\* A step adds at most one row.
LEMMA LedgerGrows ==
  ASSUME FiniteLedger, NEW b,
         \A a \in Attempt : attempt[a].state = "none" /\ a # b => attempt'[a].state = "none"
  PROVE  FiniteLedger'
<1>1. Ledger' \subseteq Ledger \cup {b}
  BY DEF Ledger
<1>2. IsFiniteSet(Ledger \cup {b})
  BY FS_AddElement DEF FiniteLedger
<1> QED BY <1>1, <1>2, FS_Subset DEF FiniteLedger

LEMMA UnusedRowsStay ==
  ASSUME TypeOK, NEW A, \A x \in A : x \in Attempt => attempt[x].state # "none",
         NEW state, NEW code,
         attempt' = SetAttempts(A, state, code)
  PROVE  \A a \in Attempt : attempt[a].state = "none" => attempt'[a].state = "none"
  BY DEF SetAttempts, TypeOK

LEMMA FiniteLedgerStep ==
  ASSUME TypeOK, FiniteLedger, [Next]_vars
  PROVE  FiniteLedger'
<1> DEFINE Keeps == \A a \in Attempt : attempt[a].state = "none" => attempt'[a].state = "none"
<1>1. Keeps => FiniteLedger'
  BY LedgerGrows
<1>2. UNCHANGED attempt => Keeps
  OBVIOUS
<1>3. \A w : \A x \in Pending(w) : attempt[x].state # "none"
  BY DEF Pending, AttemptsIn
<1>3a. ASSUME NEW R, NEW state, NEW code,
              attempt' = SetAttempts(UNION {Pending(w) : w \in R}, state, code)
       PROVE  Keeps
  <2>1. \A x \in UNION {Pending(w) : w \in R} : attempt[x].state # "none"
    BY <1>3
  <2> QED BY <1>3a, <2>1, UnusedRowsStay
<1>4. ASSUME NEW page \in Page, NEW owner \in Message, CommitPollPage(page, owner) PROVE Keeps
  <2>1. PICK R : attempt' = SetAttempts(UNION {Pending(w) : w \in R}, "failed", "none")
    BY <1>4 DEF CommitPollPage
  <2> HIDE DEF Keeps
  <2> QED BY <2>1, <1>3a
<1>5. RotateAccount => Keeps
  BY <1>3a DEF RotateAccount
<1>6. ASSUME NEW A, attempt' = DeleteAttempts(A) PROVE Keeps
  BY <1>6 DEF DeleteAttempts, TypeOK
<1>7. DeleteAccount => Keeps
  BY <1>6 DEF DeleteAccount
<1>8. ASSUME NEW m \in Message, SuppressInbound(m) PROVE Keeps
  BY <1>8, UnusedRowsStay DEF SuppressInbound, AttemptsOf
<1>9. ASSUME NEW a \in Attempt,
             \/ PrepareReplyAttempt(a)
             \/ RejectReplyAttempt(a)
             \/ StartReplyAttempt(a)
             \/ ReleasePendingAttempt(a)
             \/ \E m \in Message, kind \in SystemKind : ReserveStartedSystemAttempt(m, a, kind)
             \/ \E state \in SettledState : FinishSend(a, state)
      PROVE  FiniteLedger'
  <2>1. \A x \in Attempt \ {a} : attempt'[x] = attempt[x]
    BY <1>9 DEF PrepareReplyAttempt, RejectReplyAttempt, StartReplyAttempt, ReleasePendingAttempt,
         ReserveStartedSystemAttempt, FinishSend, NewAttempt, SetAttempts, TypeOK
  <2> QED BY <2>1, LedgerGrows
<1>10. ASSUME NEW old \in SUBSET Attempt, Cleanup(old) PROVE Keeps
  BY <1>10, <1>6 DEF Cleanup
<1>11. ASSUME NEW settled, NEW unacknowledged, RecoverStartup(settled, unacknowledged) PROVE Keeps
  BY <1>11, UnusedRowsStay DEF RecoverStartup, Sending
<1>12. ASSUME RecoverPendingAttempts PROVE Keeps
  <2>1. PICK R : attempt' = SetAttempts(UNION {Pending(w) : w \in R}, "failed", "not_transmitted")
    BY <1>12 DEF RecoverPendingAttempts
  <2> HIDE DEF Keeps
  <2> QED BY <2>1, <1>3a
<1>13. ASSUME NEW m \in Message,
              \/ ClaimInbound(m)
              \/ \E p \in Message : BeginInboundSteering(m, p)
              \/ EndInboundSteering(m)
              \/ \E unacknowledged \in SUBSET Group(m) : FailInbound(m, unacknowledged)
              \/ DeferActiveInbound(m)
              \/ MarkInboundIgnored(m)
              \/ FinalizeAgentExecution(m)
              \/ ExpireWindow(m)
              \/ \E b \in Message : CreateAgentSession(m, b)
       PROVE  UNCHANGED attempt
  BY <1>13 DEF ClaimInbound, BeginInboundSteering, EndInboundSteering, FailInbound,
       DeferActiveInbound, MarkInboundIgnored, FinalizeAgentExecution, ExpireWindow,
       CreateAgentSession
<1>14. CloseAgentSession \/ UNCHANGED vars => UNCHANGED attempt
  BY DEF CloseAgentSession, vars
<1> HIDE DEF Keeps
<1> QED BY <1>1, <1>2, <1>4, <1>5, <1>7, <1>8, <1>9, <1>10, <1>11, <1>12, <1>13, <1>14 DEF Next

LEMMA TypeStep == TypeOK /\ FiniteLedger /\ [Next]_vars => TypeOK'
<1> SUFFICES ASSUME TypeOK, FiniteLedger, [Next]_vars PROVE TypeOK'
  OBVIOUS
<1>1. UNCHANGED vars => TypeOK'
  BY DEF vars, TypeOK
<1> QED BY <1>1, TypeCommit, TypeAccount, TypeConversation, TypeSends, TypeTime DEF Next

\* The tables keep their schema whatever the transactions write into them: no
\* counter goes below zero, no status leaves its enumeration.
THEOREM TypeCorrect == Spec => []TypeOK
<1>1. Init => TypeOK /\ FiniteLedger
  <2>1. ASSUME Init PROVE Ledger = {}
    BY <2>1 DEF Init, Ledger, NoAttempt
  <2> QED BY <2>1, TypeInit, FS_EmptySet DEF FiniteLedger
<1>2. TypeOK /\ FiniteLedger /\ [Next]_vars => (TypeOK /\ FiniteLedger)'
  BY TypeStep, FiniteLedgerStep
<1> QED BY <1>1, <1>2, PTL DEF Spec

-----------------------------------------------------------------------------
(* The inductive invariant, window by window.                              *)

WindowLedger(w) ==
  /\ Cardinality(Pending(w)) <= window[w].reserved
  /\ Pending(w) # {} => window[w].state = "open"
  /\ Cardinality(Charged(w)) <= MaxSends
  /\ window[w].state = "open" =>
       /\ Cardinality(Charged(w)) <= window[w].reserved + window[w].transmitted
       /\ window[w].reserved + window[w].transmitted <= MaxSends
       /\ Cardinality(Spent(w)) <= window[w].transmitted

IInv ==
  /\ TypeOK
  /\ FiniteLedger
  /\ \A w \in Message : WindowLedger(w)
  /\ OneWindowOneSend
  /\ WindowsAreFresh
  /\ RowsTellTruth

LEMMA IInvMeans ==
  IInv => ReservationsCovered /\ BudgetHolds /\ OneWindowOneSend /\ LedgerConsistent
<1> SUFFICES ASSUME IInv PROVE ReservationsCovered /\ BudgetHolds /\ OneWindowOneSend /\ LedgerConsistent
  OBVIOUS
<1>1. ReservationsCovered
  BY DEF IInv, WindowLedger, ReservationsCovered
<1>2. BudgetHolds
  BY DEF IInv, WindowLedger, BudgetHolds
<1>3. CountersCover
  BY DEF IInv, WindowLedger, CountersCover, OpenWindows
<1> QED BY <1>1, <1>2, <1>3 DEF IInv, LedgerConsistent

-----------------------------------------------------------------------------
(* What a window is charged with is finite.                                *)

LEMMA SetsFinite ==
  ASSUME FiniteLedger, RowsTellTruth, NEW w
  PROVE  /\ IsFiniteSet(Pending(w)) /\ Cardinality(Pending(w)) \in Nat
         /\ IsFiniteSet(Charged(w)) /\ Cardinality(Charged(w)) \in Nat
         /\ IsFiniteSet(Spent(w)) /\ Cardinality(Spent(w)) \in Nat
<1>1. Charged(w) \subseteq Ledger
  BY DEF Charged, AttemptsIn, Ledger, RowState, SettledState
<1>2. Spent(w) \subseteq Ledger
  BY DEF Spent, Ledger, RowsTellTruth
<1>3. Pending(w) \subseteq Ledger
  BY DEF Pending, AttemptsIn, Ledger
<1> QED BY <1>1, <1>2, <1>3, FS_Subset, FS_CardinalityType DEF FiniteLedger

LEMMA NumbersOf ==
  ASSUME TypeOK, NEW w \in Message
  PROVE  window[w].reserved \in Nat /\ window[w].transmitted \in Nat /\ MaxSends \in Nat
  BY MaxSendsAssumption DEF TypeOK, WindowRow

\* A window that accepts no send any more is charged with no more than before.
LEMMA LeftWindow ==
  ASSUME IInv, TypeOK', NEW w \in Message,
         window'[w].state # "open", Pending(w)' = {}, Charged(w)' \subseteq Charged(w)
  PROVE  WindowLedger(w)'
<1>1. Cardinality(Charged(w)') <= Cardinality(Charged(w))
  BY SetsFinite, FS_Subset DEF IInv
<1>2. Cardinality(Charged(w)') \in Nat
  BY SetsFinite, FS_Subset, FS_CardinalityType DEF IInv
<1>3. Cardinality(Charged(w)') <= MaxSends
  BY <1>1, <1>2, SetsFinite, NumbersOf DEF IInv, WindowLedger
<1>4. Cardinality(Pending(w)') = 0
  BY FS_EmptySet
<1>5. window'[w].reserved \in Nat
  BY DEF TypeOK, WindowRow
<1> QED BY <1>3, <1>4, <1>5 DEF WindowLedger

\* A window whose row stays is charged with no more than before.
LEMMA KeptWindow ==
  ASSUME IInv, NEW w \in Message, window'[w] = window[w],
         Pending(w)' \subseteq Pending(w), Charged(w)' \subseteq Charged(w),
         Spent(w)' \subseteq Spent(w)
  PROVE  WindowLedger(w)'
<1>1. /\ Cardinality(Charged(w)') <= Cardinality(Charged(w))
      /\ Cardinality(Pending(w)') <= Cardinality(Pending(w))
      /\ Cardinality(Spent(w)') <= Cardinality(Spent(w))
  BY SetsFinite, FS_Subset DEF IInv
<1>2. /\ Cardinality(Charged(w)') \in Nat
      /\ Cardinality(Pending(w)') \in Nat
      /\ Cardinality(Spent(w)') \in Nat
  BY SetsFinite, FS_Subset, FS_CardinalityType DEF IInv
<1>3. WindowLedger(w)
  BY DEF IInv
<1>4. Pending(w)' # {} => window'[w].state = "open"
  BY <1>3 DEF WindowLedger
<1>5. IInv => TypeOK /\ FiniteLedger /\ RowsTellTruth
  BY DEF IInv
<1> QED BY <1>1, <1>2, <1>3, <1>4, <1>5, SetsFinite, NumbersOf DEF WindowLedger

\* Attempts may settle and rows may go, but what is left of a row keeps its
\* window and its history.
Settling ==
  \A a \in Attempt :
    /\ attempt'[a].window = attempt[a].window
    /\ attempt'[a].sent = attempt[a].sent
    /\ attempt'[a].state = "pending" => attempt[a].state = "pending"
    /\ attempt'[a].state \in RowState /\ attempt'[a].code # "not_transmitted" =>
         attempt[a].state \in RowState /\ attempt[a].code # "not_transmitted"

LEMMA SettlingShrinks ==
  ASSUME Settling, NEW w
  PROVE  /\ Pending(w)' \subseteq Pending(w)
         /\ Charged(w)' \subseteq Charged(w)
         /\ Spent(w)' = Spent(w)
  BY DEF Settling, Pending, Charged, Spent, AttemptsIn

LEMMA SettlingKeeps ==
  ASSUME IInv, Settling, NEW w \in Message, window'[w] = window[w]
  PROVE  WindowLedger(w)'
  BY SettlingShrinks, KeptWindow

-----------------------------------------------------------------------------
(* The shape of the rows.                                                  *)

\* The inbox updates of the conversation never make a message absent again.
InboxKept == \A m \in Message : Has(m, {"absent"})' => Has(m, {"absent"})

\* Fresh windows stay fresh while settled rows keep their windows, no row of
\* the tables is forgotten, and no message leaves the inbox.
LEMMA FreshKept ==
  ASSUME WindowsAreFresh,
         \A a \in Attempt : attempt'[a].window = attempt[a].window
                           \/ window[attempt'[a].window].state # "none",
         \A w \in Message : window'[w].state = "none" <=> window[w].state = "none",
         \A w \in lapsed' : w \in lapsed \/ window[w].state # "none",
         account'.active => account.active /\ InboxKept
  PROVE  WindowsAreFresh'
  BY DEF WindowsAreFresh, InboxKept

LEMMA SetInboxKeeps ==
  ASSUME TypeOK, NEW M, NEW status, status # "absent",
         inbox' = SetInbox(M, status)
  PROVE  InboxKept
  BY DEF InboxKept, SetInbox, Has, TypeOK, InboundRow

LEMMA RequeueKeeps ==
  ASSUME TypeOK, NEW M, inbox' = Requeue(M)
  PROVE  InboxKept
  BY DEF InboxKept, Requeue, Has, TypeOK, InboundRow

-----------------------------------------------------------------------------
(* Transactions that change neither attempts nor windows.                  *)

LEMMA StillLedger ==
  ASSUME IInv, TypeOK', FiniteLedger',
         UNCHANGED <<attempt, window>>, InboxKept, account'.active => account.active,
         \A w \in lapsed' : w \in lapsed \/ window[w].state # "none"
  PROVE  IInv'
<1>1. Settling
  BY DEF Settling
<1>2. ASSUME NEW w \in Message PROVE WindowLedger(w)'
  BY <1>1, SettlingKeeps
<1>3. OneWindowOneSend' /\ RowsTellTruth'
  BY DEF IInv, OneWindowOneSend, OpenWindows, Sending, RowsTellTruth
<1>4. WindowsAreFresh'
  BY FreshKept DEF IInv
<1> QED BY <1>2, <1>3, <1>4 DEF IInv

LEMMA ConversationLedger ==
  ASSUME IInv, TypeOK', FiniteLedger', NEW m \in Message,
         \/ ClaimInbound(m)
         \/ \E p \in Message : BeginInboundSteering(m, p)
         \/ EndInboundSteering(m)
         \/ \E unacknowledged \in SUBSET Group(m) : FailInbound(m, unacknowledged)
         \/ DeferActiveInbound(m)
         \/ MarkInboundIgnored(m)
         \/ FinalizeAgentExecution(m)
         \/ ExpireWindow(m)
         \/ \E b \in Message : CreateAgentSession(m, b)
         \/ CloseAgentSession
         \/ UNCHANGED vars
  PROVE  IInv'
<1> USE DEF IInv
<1>1. CASE ClaimInbound(m)
  BY <1>1, SetInboxKeeps, StillLedger DEF ClaimInbound
<1>2. CASE \E p \in Message : BeginInboundSteering(m, p)
  <2>1. PICK p \in Message : BeginInboundSteering(m, p)
    BY <1>2
  <2>2. InboxKept
    BY <2>1 DEF BeginInboundSteering, InboxKept, Has, TypeOK, InboundRow
  <2> QED BY <2>1, <2>2, StillLedger DEF BeginInboundSteering
<1>3. CASE EndInboundSteering(m)
  BY <1>3, SetInboxKeeps, RequeueKeeps, StillLedger DEF EndInboundSteering
<1>4. CASE \E unacknowledged \in SUBSET Group(m) : FailInbound(m, unacknowledged)
  <2>1. PICK unacknowledged \in SUBSET Group(m) : FailInbound(m, unacknowledged)
    BY <1>4
  <2>2. InboxKept
    BY <2>1 DEF FailInbound, Requeue, InboxKept, Has, TypeOK, InboundRow
  <2> QED BY <2>1, <2>2, StillLedger DEF FailInbound
<1>5. CASE DeferActiveInbound(m)
  BY <1>5, RequeueKeeps, StillLedger DEF DeferActiveInbound
<1>6. CASE MarkInboundIgnored(m)
  BY <1>6, SetInboxKeeps, StillLedger DEF MarkInboundIgnored
<1>7. CASE FinalizeAgentExecution(m)
  <2>1. InboxKept
    BY <1>7 DEF FinalizeAgentExecution, InboxKept, Has, TypeOK, InboundRow
  <2> QED BY <1>7, <2>1, StillLedger DEF FinalizeAgentExecution
<1>8. CASE ExpireWindow(m) \/ CloseAgentSession \/ UNCHANGED vars
  <2>1. InboxKept
    BY <1>8 DEF ExpireWindow, CloseAgentSession, vars, InboxKept, Has
  <2> QED BY <1>8, <2>1, StillLedger DEF ExpireWindow, CloseAgentSession, vars
<1>9. CASE \E b \in Message : CreateAgentSession(m, b)
  <2>1. InboxKept
    BY <1>9 DEF CreateAgentSession, InboxKept, Has
  <2> QED BY <1>9, <2>1, StillLedger DEF CreateAgentSession
<1> QED BY <1>1, <1>2, <1>3, <1>4, <1>5, <1>6, <1>7, <1>8, <1>9

-----------------------------------------------------------------------------
(* Transactions that settle attempts, or drop their rows.                  *)

LEMMA SettledRows ==
  ASSUME TypeOK, RowsTellTruth, NEW A, NEW state, NEW code,
         \A a \in A : a \in Attempt => attempt[a].state \in {"pending", "sending"},
         attempt' = SetAttempts(A, state, code),
         state \in SettledState,
         code = "not_transmitted" => state = "failed"
  PROVE  Settling /\ RowsTellTruth' /\ Sending' \subseteq Sending
<1>1. \A a \in Attempt : a \in A =>
        attempt'[a] = [attempt[a] EXCEPT !.state = state, !.code = code]
  BY DEF SetAttempts
<1>2. \A a \in Attempt : a \notin A => attempt'[a] = attempt[a]
  BY DEF SetAttempts
<1>3. \A a \in Attempt : attempt[a] \in AttemptRow
  BY DEF TypeOK
<1>4. ASSUME NEW a \in Attempt, a \in A
      PROVE  /\ attempt'[a].state = state
             /\ attempt'[a].code = code
             /\ attempt'[a].sent = attempt[a].sent
             /\ attempt'[a].window = attempt[a].window
             /\ attempt[a].state \in {"pending", "sending"}
  BY <1>1, <1>3, <1>4 DEF AttemptRow
<1>5. state \notin {"none", "pending", "sending"}
  BY DEF SettledState
<1>6. \A a \in Attempt : attempt[a].state \in {"pending", "sending"} =>
         attempt[a].state \in RowState /\ attempt[a].code # "not_transmitted"
  BY DEF RowsTellTruth, RowState
<1>7. Settling
  BY <1>2, <1>4, <1>5, <1>6 DEF Settling
<1>8. RowsTellTruth'
  BY <1>2, <1>4, <1>5 DEF RowsTellTruth
<1>9. Sending' \subseteq Sending
  BY <1>2, <1>4, <1>5 DEF Sending
<1> QED BY <1>7, <1>8, <1>9

LEMMA DroppedRows ==
  ASSUME TypeOK, RowsTellTruth, NEW A,
         attempt' = DeleteAttempts(A)
  PROVE  Settling /\ RowsTellTruth' /\ Sending' \subseteq Sending
<1>1. \A a \in Attempt :
        \/ attempt'[a] = attempt[a]
        \/ attempt'[a] = [NoAttempt EXCEPT !.state = "deleted", !.sent = attempt[a].sent,
                                          !.window = attempt[a].window]
  BY DEF DeleteAttempts
<1>2. ASSUME NEW a \in Attempt
      PROVE  \/ attempt'[a] = attempt[a]
             \/ /\ attempt'[a].state = "deleted"
                /\ attempt'[a].code = "none"
                /\ attempt'[a].sent = attempt[a].sent
                /\ attempt'[a].window = attempt[a].window
  BY <1>1 DEF NoAttempt
<1>3. Settling
  BY <1>2 DEF Settling, RowState, SettledState
<1>4. RowsTellTruth'
  BY <1>2 DEF RowsTellTruth
<1>5. Sending' \subseteq Sending
  BY <1>2 DEF Sending
<1> QED BY <1>3, <1>4, <1>5

LEMMA SettledLedger ==
  ASSUME IInv, TypeOK', FiniteLedger',
         Settling, RowsTellTruth', Sending' \subseteq Sending,
         \A w \in Message :
           \/ window'[w] = window[w]
           \/ /\ window'[w].state \notin {"none", "open"}
              /\ window[w].state # "none"
              /\ Pending(w)' = {},
         account'.active => account.active /\ InboxKept,
         UNCHANGED lapsed
  PROVE  IInv'
<1>1. ASSUME NEW w \in Message PROVE WindowLedger(w)'
  <2>1. CASE window'[w] = window[w]
    BY <2>1, SettlingKeeps
  <2>2. CASE window'[w].state \notin {"none", "open"} /\ Pending(w)' = {}
    BY <2>2, SettlingShrinks, LeftWindow
  <2> QED BY <2>1, <2>2
<1>2. OneWindowOneSend'
  BY DEF IInv, OneWindowOneSend, OpenWindows
<1>3. WindowsAreFresh'
  BY FreshKept DEF IInv, Settling
<1> QED BY <1>1, <1>2, <1>3 DEF IInv

LEMMA PendingWindows ==
  ASSUME NEW R, NEW state, NEW code, state # "pending", TypeOK,
         attempt' = SetAttempts(UNION {Pending(w) : w \in R}, state, code)
  PROVE  \A w \in R : Pending(w)' = {}
<1> SUFFICES ASSUME NEW w \in R, NEW a \in Pending(w)' PROVE FALSE
  OBVIOUS
<1>1. a \in Attempt /\ attempt'[a].window = w /\ attempt'[a].state = "pending"
  BY DEF Pending, AttemptsIn
<1>2. a \notin UNION {Pending(v) : v \in R}
  BY <1>1 DEF SetAttempts, TypeOK, AttemptRow
<1>3. attempt'[a] = attempt[a]
  BY <1>1, <1>2 DEF SetAttempts
<1>4. a \in Pending(w)
  BY <1>1, <1>3 DEF Pending, AttemptsIn
<1> QED BY <1>2, <1>4

LEMMA SettlingLedger ==
  ASSUME IInv, TypeOK', FiniteLedger',
         \/ \E m \in Message : SuppressInbound(m)
         \/ \E a \in Attempt, state \in SettledState : FinishSend(a, state)
         \/ \E settled, unacknowledged \in SUBSET Message :
              RecoverStartup(settled, unacknowledged)
         \/ \E old \in SUBSET Attempt : Cleanup(old)
         \/ RotateAccount
         \/ DeleteAccount
  PROVE  IInv'
<1>0. TypeOK /\ RowsTellTruth
  BY DEF IInv
<1>1. CASE \E m \in Message : SuppressInbound(m)
  <2>1. PICK m \in Message : SuppressInbound(m)
    BY <1>1
  <2>2. Settling /\ RowsTellTruth' /\ Sending' \subseteq Sending
    BY <1>0, <2>1, SettledRows DEF SuppressInbound, AttemptsOf, SettledState
  <2>3. InboxKept
    BY <1>0, <2>1, SetInboxKeeps DEF SuppressInbound
  <2> QED BY <2>1, <2>2, <2>3, SettledLedger DEF SuppressInbound
<1>2. CASE \E a \in Attempt, state \in SettledState : FinishSend(a, state)
  <2>1. PICK a \in Attempt, state \in SettledState : FinishSend(a, state)
    BY <1>2
  <2>2. Settling /\ RowsTellTruth' /\ Sending' \subseteq Sending
    <3>1. attempt' = SetAttempts({a}, state, "none") /\ attempt[a].state = "sending"
      BY <2>1 DEF FinishSend
    <3> QED BY <1>0, <3>1, SettledRows
  <2>3. InboxKept
    BY <1>0, <2>1, SetInboxKeeps DEF FinishSend
  <2> QED BY <2>1, <2>2, <2>3, SettledLedger DEF FinishSend
<1>3. CASE \E settled, unacknowledged \in SUBSET Message :
             RecoverStartup(settled, unacknowledged)
  <2>1. PICK settled, unacknowledged \in SUBSET Message :
          RecoverStartup(settled, unacknowledged)
    BY <1>3
  <2>2. Settling /\ RowsTellTruth' /\ Sending' \subseteq Sending
    BY <1>0, <2>1, SettledRows DEF RecoverStartup, Sending, SettledState
  <2>3. InboxKept
    <3>1. ASSUME NEW x \in Message
          PROVE  inbox'[x].status \in {inbox[x].status, "completed", "received"}
      <4>1. inbox[x] \in InboundRow
        BY <1>0 DEF TypeOK
      <4>2. \/ inbox'[x] = [inbox[x] EXCEPT !.status = "completed"]
            \/ inbox'[x] = [inbox[x] EXCEPT !.status = "received", !.primary = NoMessage]
            \/ inbox'[x] = inbox[x]
        BY <2>1 DEF RecoverStartup, Requeue
      <4> QED BY <4>1, <4>2 DEF InboundRow
    <3> QED BY <3>1 DEF InboxKept, Has
  <2> QED BY <2>1, <2>2, <2>3, SettledLedger DEF RecoverStartup
<1>4. CASE \E old \in SUBSET Attempt : Cleanup(old)
  <2>1. PICK old \in SUBSET Attempt : Cleanup(old)
    BY <1>4
  <2>2. Settling /\ RowsTellTruth' /\ Sending' \subseteq Sending
    BY <1>0, <2>1, DroppedRows DEF Cleanup
  <2>3. InboxKept
    BY <2>1 DEF Cleanup, InboxKept, Has
  <2>4. ASSUME NEW w \in Message, window'[w] # window[w]
        PROVE  /\ window[w].state = "open"
               /\ window'[w].state = "closed"
               /\ Pending(w) = {}
    <3>1. /\ window[w].state = "open"
          /\ AttemptsIn(w, {"pending", "sending"}) = {}
          /\ window'[w] = [window[w] EXCEPT !.state = "closed", !.reserved = 0]
      BY <2>1, <2>4 DEF Cleanup, Closable, TypeOK
    <3>2. window[w] \in WindowRow
      BY <1>0 DEF TypeOK
    <3> QED BY <3>1, <3>2 DEF Pending, AttemptsIn, WindowRow
  <2>5. \A w \in Message : Pending(w)' \subseteq Pending(w)
    BY <2>2, SettlingShrinks
  <2>6. account' = account /\ lapsed' = lapsed
    BY <2>1 DEF Cleanup
  <2>7. \A w \in Message :
           \/ window'[w] = window[w]
           \/ /\ window'[w].state \notin {"none", "open"}
              /\ window[w].state # "none"
              /\ Pending(w)' = {}
    BY <2>4, <2>5
  <2> QED BY <2>2, <2>3, <2>6, <2>7, SettledLedger
<1>5. CASE RotateAccount
  <2>1. \A w \in OpenWindows : Pending(w)' = {}
    BY <1>0, <1>5, PendingWindows DEF RotateAccount
  <2>2. \A a \in UNION {Pending(w) : w \in OpenWindows} : attempt[a].state \in {"pending", "sending"}
    BY DEF Pending, AttemptsIn
  <2>3. Settling /\ RowsTellTruth' /\ Sending' \subseteq Sending
    <3>1. attempt' = SetAttempts(UNION {Pending(w) : w \in OpenWindows}, "failed", "none")
      BY <1>5 DEF RotateAccount
    <3>2. "failed" \in SettledState
      BY DEF SettledState
    <3> QED BY <1>0, <2>2, <3>1, <3>2, SettledRows
  <2>4. InboxKept
    BY <1>5 DEF RotateAccount, InboxKept, Has
  <2>5. ASSUME NEW w \in Message, w \in OpenWindows
        PROVE  window'[w].state = "cancelled" /\ window[w].state = "open"
    BY <1>0, <1>5, <2>5 DEF RotateAccount, OpenWindows, TypeOK, WindowRow
  <2>6. \A w \in Message \ OpenWindows : window'[w] = window[w]
    BY <1>5 DEF RotateAccount
  <2>7. (account'.active => account.active) /\ lapsed' = lapsed
    BY <1>5 DEF RotateAccount
  <2> QED BY <2>1, <2>3, <2>4, <2>5, <2>6, <2>7, SettledLedger
<1>6. CASE DeleteAccount
  <2>1. Settling /\ RowsTellTruth' /\ Sending' \subseteq Sending
    BY <1>0, <1>6, DroppedRows DEF DeleteAccount
  <2>2. \A a \in Attempt : attempt'[a].state # "pending"
    BY <1>6 DEF DeleteAccount, DeleteAttempts, NoAttempt
  <2>3. \A w \in Message : Pending(w)' = {}
    BY <2>2 DEF Pending, AttemptsIn
  <2>4. ~ account'.active /\ lapsed' = lapsed
    BY <1>0, <1>6 DEF DeleteAccount, TypeOK
  <2>5. \A w \in Message :
          \/ window'[w] = window[w]
          \/ window'[w].state = "deleted" /\ window[w].state # "none"
    <3>1. [NoWindow EXCEPT !.state = "deleted"].state = "deleted"
      BY DEF NoWindow
    <3>2. window' = [m \in Message |-> IF window[m].state = "none" THEN window[m]
                                      ELSE [NoWindow EXCEPT !.state = "deleted"]]
      BY <1>6 DEF DeleteAccount
    <3>3. ASSUME NEW w \in Message, window[w].state # "none"
          PROVE  window'[w].state = "deleted"
      BY <3>1, <3>2, <3>3, Zenon
    <3>4. ASSUME NEW w \in Message, window[w].state = "none"
          PROVE  window'[w] = window[w]
      BY <3>2, <3>4, Zenon
    <3> QED BY <3>3, <3>4
  <2> QED BY <2>1, <2>3, <2>4, <2>5, SettledLedger
<1> QED BY <1>1, <1>2, <1>3, <1>4, <1>5, <1>6

-----------------------------------------------------------------------------
(* Transactions that move one unit of a window's budget.                   *)

LEMMA OneMore ==
  ASSUME NEW S, NEW x, IsFiniteSet(S)
  PROVE  Cardinality(S \cup {x}) <= Cardinality(S) + 1 /\ Cardinality(S \cup {x}) \in Nat
<1>1. IsFiniteSet(S \cup {x}) /\ Cardinality(S) \in Nat
  BY FS_AddElement, FS_CardinalityType
<1>2. Cardinality(S \cup {x}) \in Nat
  BY <1>1, FS_CardinalityType
<1> QED BY <1>1, <1>2, FS_AddElement

\* Reservations are given back: as many as the pending attempts that settle.
LEMMA ReleasedWindow ==
  ASSUME IInv, NEW w \in Message, NEW R, R \subseteq Pending(w),
         Pending(w)' = Pending(w) \ R,
         Charged(w)' = Charged(w) \ R,
         Spent(w)' = Spent(w),
         window'[w].state = window[w].state,
         window'[w].reserved = window[w].reserved - Cardinality(R),
         window'[w].transmitted = window[w].transmitted
  PROVE  WindowLedger(w)'
<1>1. TypeOK /\ FiniteLedger /\ RowsTellTruth /\ WindowLedger(w)
  BY DEF IInv
<1>2. Pending(w) \subseteq Charged(w)
  BY <1>1 DEF RowsTellTruth, Pending, Charged, AttemptsIn, RowState
<1>3. Charged(w) \cap R = R /\ Pending(w) \cap R = R
  BY <1>2
<1>4. Cardinality(R) \in Nat /\ Cardinality(R) <= Cardinality(Pending(w))
  BY <1>1, SetsFinite, FS_Subset, FS_CardinalityType
<1>5. Cardinality(Pending(w)') = Cardinality(Pending(w)) - Cardinality(R)
  BY <1>1, <1>3, SetsFinite, FS_Difference
<1>6. Cardinality(Charged(w)') = Cardinality(Charged(w)) - Cardinality(R)
  BY <1>1, <1>3, SetsFinite, FS_Difference
<1>7. Pending(w)' # {} => window'[w].state = "open"
  BY <1>1 DEF WindowLedger
<1> QED BY <1>1, <1>4, <1>5, <1>6, <1>7, SetsFinite, NumbersOf DEF WindowLedger

\* A send that enters the budget of an open window: reserved, or started at once.
LEMMA ChargedWindow ==
  ASSUME IInv, NEW w \in Message, NEW a, a \notin Charged(w),
         window[w].state = "open", QuotaLeft(w),
         Charged(w)' = Charged(w) \cup {a},
         window'[w].state = "open",
         \/ /\ Pending(w)' = Pending(w) \cup {a}
            /\ Spent(w)' = Spent(w)
            /\ window'[w].reserved = window[w].reserved + 1
            /\ window'[w].transmitted = window[w].transmitted
         \/ /\ Pending(w)' = Pending(w)
            /\ Spent(w)' = Spent(w) \cup {a}
            /\ window'[w].reserved = window[w].reserved
            /\ window'[w].transmitted = window[w].transmitted + 1
  PROVE  WindowLedger(w)'
<1>1. TypeOK /\ FiniteLedger /\ RowsTellTruth /\ WindowLedger(w)
  BY DEF IInv
<1>2. Cardinality(Charged(w)') = Cardinality(Charged(w)) + 1
  BY <1>1, SetsFinite, FS_AddElement
<1>3. /\ Cardinality(Pending(w) \cup {a}) <= Cardinality(Pending(w)) + 1
      /\ Cardinality(Pending(w) \cup {a}) \in Nat
  BY <1>1, SetsFinite, OneMore
<1>4. /\ Cardinality(Spent(w) \cup {a}) <= Cardinality(Spent(w)) + 1
      /\ Cardinality(Spent(w) \cup {a}) \in Nat
  BY <1>1, SetsFinite, OneMore
<1>5. window[w].reserved + window[w].transmitted < MaxSends
  BY DEF QuotaLeft
<1>6. CASE Pending(w)' = Pending(w) \cup {a}
             /\ Spent(w)' = Spent(w)
             /\ window'[w].reserved = window[w].reserved + 1
             /\ window'[w].transmitted = window[w].transmitted
  BY <1>1, <1>2, <1>3, <1>5, <1>6, SetsFinite, NumbersOf DEF WindowLedger
<1>7. CASE Pending(w)' = Pending(w)
             /\ Spent(w)' = Spent(w) \cup {a}
             /\ window'[w].reserved = window[w].reserved
             /\ window'[w].transmitted = window[w].transmitted + 1
  BY <1>1, <1>2, <1>4, <1>5, <1>7, SetsFinite, NumbersOf DEF WindowLedger
<1> QED BY <1>6, <1>7

\* A reservation becomes a transmission: the sum of the two counters stays.
LEMMA StartedWindow ==
  ASSUME IInv, NEW w \in Message, NEW a, a \in Pending(w),
         window[w].reserved > 0,
         Pending(w)' = Pending(w) \ {a},
         Charged(w)' = Charged(w),
         Spent(w)' = Spent(w) \cup {a},
         window'[w].state = window[w].state,
         window'[w].reserved = window[w].reserved - 1,
         window'[w].transmitted = window[w].transmitted + 1
  PROVE  WindowLedger(w)'
<1>1. TypeOK /\ FiniteLedger /\ RowsTellTruth /\ WindowLedger(w)
  BY DEF IInv
<1>2. Cardinality(Pending(w)') = Cardinality(Pending(w)) - 1
  BY <1>1, SetsFinite, FS_RemoveElement
<1>3. Cardinality(Spent(w)') <= Cardinality(Spent(w)) + 1 /\ Cardinality(Spent(w)') \in Nat
  BY <1>1, SetsFinite, OneMore
<1>4. Pending(w)' # {} => window'[w].state = "open"
  BY <1>1 DEF WindowLedger
<1> QED BY <1>1, <1>2, <1>3, <1>4, SetsFinite, NumbersOf DEF WindowLedger

\* Messages of other windows do not notice: an attempt that changes in window v
\* leaves the ledger of every other window as it was.
LEMMA OtherWindow ==
  ASSUME IInv, NEW w \in Message, window'[w] = window[w],
         \A x \in Attempt :
           \/ attempt'[x] = attempt[x]
           \/ attempt[x].window # w /\ attempt'[x].window # w
  PROVE  WindowLedger(w)'
<1>1. Pending(w)' = Pending(w)
  BY DEF Pending, AttemptsIn
<1>2. Charged(w)' = Charged(w)
  BY DEF Charged, AttemptsIn
<1>3. Spent(w)' = Spent(w)
  BY DEF Spent
<1> QED BY <1>1, <1>2, <1>3, KeptWindow

\* What the update of one counter does to the rows of the windows.
LEMMA CounterStep ==
  ASSUME TypeOK, NEW w \in Message, NEW row, window' = [window EXCEPT ![w] = row],
         row.state = window[w].state
  PROVE  /\ window'[w] = row
         /\ \A x \in Message \ {w} : window'[x] = window[x]
         /\ \A x \in Message : window'[x].state = window[x].state
  BY DEF TypeOK

LEMMA CounterRow ==
  ASSUME TypeOK, NEW w \in Message, NEW r, NEW t
  PROVE  LET row == [window[w] EXCEPT !.reserved = r, !.transmitted = t] IN
         /\ row.state = window[w].state
         /\ row.reserved = r
         /\ row.transmitted = t
  BY DEF TypeOK, WindowRow

\* A row that NewAttempt writes.
LEMMA NewRow ==
  ASSUME TypeOK, RowsTellTruth, NEW a \in Attempt, NEW state, NEW code, NEW kind, NEW m, NEW w,
         NewAttempt(a, state, code, kind, m, w)
  PROVE  /\ attempt[a] = NoAttempt
         /\ attempt'[a].state = state
         /\ attempt'[a].code = code
         /\ attempt'[a].window = w
         /\ attempt'[a].sent <=> state = "sending"
         /\ \A x \in Attempt \ {a} : attempt'[x] = attempt[x]
<1>1. attempt'[a] = [state |-> state, code |-> code, kind |-> kind,
                    sent |-> (state = "sending"), source |-> m, window |-> w]
  BY DEF NewAttempt, TypeOK
<1>2. attempt[a] = NoAttempt
  BY DEF NewAttempt, RowsTellTruth
<1>3. \A x \in Attempt \ {a} : attempt'[x] = attempt[x]
  BY DEF NewAttempt, TypeOK
<1>4. /\ attempt'[a].state = state
      /\ attempt'[a].code = code
      /\ attempt'[a].window = w
  BY <1>1
<1>5. attempt'[a].sent = (state = "sending")
  BY <1>1
<1>6. attempt'[a].sent <=> state = "sending"
  BY <1>5
<1> QED BY <1>2, <1>3, <1>4, <1>6

LEMMA NoAttemptFacts ==
  /\ NoAttempt.state = "none"
  /\ NoAttempt.code = "none"
  /\ NoAttempt.window = NoMessage
  /\ NoAttempt.sent = FALSE
  BY DEF NoAttempt

\* The rest of the invariant under a step that writes the row of attempt a and
\* counters of windows.
LEMMA SendLedger ==
  ASSUME IInv, TypeOK', FiniteLedger', NEW a \in Attempt,
         \A w \in Message : WindowLedger(w)',
         \A w \in Message : window'[w].state = window[w].state,
         \A x \in Attempt \ {a} : attempt'[x] = attempt[x],
         \/ attempt'[a].window = attempt[a].window
         \/ window[attempt'[a].window].state # "none",
         attempt'[a].state = "sending" => attempt'[a].sent /\ Sending = {},
         attempt'[a].state = "pending" => ~ attempt'[a].sent,
         attempt'[a].state # "none",
         attempt'[a].code = "not_transmitted" => attempt'[a].state = "failed",
         UNCHANGED <<account, inbox, lapsed>>
  PROVE  IInv'
<1>1. OneWindowOneSend'
  <2>1. OpenWindows' = OpenWindows
    BY DEF OpenWindows
  <2>2. \A x, y \in Sending' : x = y
    BY DEF Sending, IInv, OneWindowOneSend
  <2> QED BY <2>1, <2>2 DEF IInv, OneWindowOneSend
<1>2. RowsTellTruth'
  BY DEF IInv, RowsTellTruth
<1>3. InboxKept
  BY DEF InboxKept, Has
<1>4. WindowsAreFresh'
  BY <1>3, FreshKept DEF IInv
<1> QED BY <1>1, <1>2, <1>4 DEF IInv

\* What prepareReplyAttempt writes.
LEMMA PreparedRow ==
  ASSUME TypeOK, RowsTellTruth, NEW a \in Attempt, PrepareReplyAttempt(a)
  PROVE  \E w \in Message :
           /\ window[w].state = "open" /\ QuotaLeft(w)
           /\ attempt[a] = NoAttempt
           /\ attempt'[a].state = "pending"
           /\ attempt'[a].code = "none"
           /\ ~ attempt'[a].sent
           /\ attempt'[a].window = w
           /\ \A x \in Attempt \ {a} : attempt'[x] = attempt[x]
           /\ window'[w].reserved = window[w].reserved + 1
           /\ window'[w].transmitted = window[w].transmitted
           /\ \A x \in Message \ {w} : window'[x] = window[x]
           /\ \A x \in Message : window'[x].state = window[x].state
<1>1. PICK w \in Message : w = session.boundary /\ window[w].state = "open" /\ QuotaLeft(w)
  BY SessionTypes DEF PrepareReplyAttempt, SessionWindowValid
<1>2. /\ attempt[a] = NoAttempt
      /\ attempt'[a].state = "pending"
      /\ attempt'[a].code = "none"
      /\ ~ attempt'[a].sent
      /\ attempt'[a].window = w
      /\ \A x \in Attempt \ {a} : attempt'[x] = attempt[x]
  <2>1. NewAttempt(a, "pending", "none", "mcp_tool", session.source, w)
    BY <1>1 DEF PrepareReplyAttempt
  <2> QED BY <2>1, NewRow
<1>3. window' = [window EXCEPT ![w] = [window[w] EXCEPT !.reserved = @ + 1, !.transmitted = @]]
  <2>1. window[w] \in WindowRow
    BY <1>1 DEF TypeOK
  <2>2. [window[w] EXCEPT !.reserved = @ + 1] =
          [window[w] EXCEPT !.reserved = @ + 1, !.transmitted = @]
    BY <2>1 DEF WindowRow
  <2>3. window' = [window EXCEPT ![w] = [window[w] EXCEPT !.reserved = @ + 1]]
    BY <1>1 DEF PrepareReplyAttempt
  <2> QED BY <2>2, <2>3
<1>4. /\ window'[w].state = "open"
      /\ window'[w].reserved = window[w].reserved + 1
      /\ window'[w].transmitted = window[w].transmitted
      /\ \A x \in Message \ {w} : window'[x] = window[x]
      /\ \A x \in Message : window'[x].state = window[x].state
  <2>1. PICK r, t : r = window[w].reserved + 1 /\ t = window[w].transmitted
    OBVIOUS
  <2>2. PICK row : row = [window[w] EXCEPT !.reserved = r, !.transmitted = t]
    OBVIOUS
  <2>3. window' = [window EXCEPT ![w] = row]
    BY <1>3, <2>1, <2>2
  <2>4. row.state = window[w].state /\ row.reserved = r /\ row.transmitted = t
    BY <1>1, <2>2, CounterRow
  <2> QED BY <1>1, <2>1, <2>3, <2>4, CounterStep
<1> QED BY <1>1, <1>2, <1>4

LEMMA PrepareLedger ==
  ASSUME IInv, TypeOK', FiniteLedger', NEW a \in Attempt, PrepareReplyAttempt(a)
  PROVE  IInv'
<1>0. TypeOK /\ FiniteLedger /\ RowsTellTruth
  BY DEF IInv
<1>1. PICK w \in Message :
        /\ window[w].state = "open" /\ QuotaLeft(w)
        /\ attempt[a] = NoAttempt
        /\ attempt'[a].state = "pending"
        /\ attempt'[a].code = "none"
        /\ ~ attempt'[a].sent
        /\ attempt'[a].window = w
        /\ \A x \in Attempt \ {a} : attempt'[x] = attempt[x]
        /\ window'[w].reserved = window[w].reserved + 1
        /\ window'[w].transmitted = window[w].transmitted
        /\ \A x \in Message \ {w} : window'[x] = window[x]
        /\ \A x \in Message : window'[x].state = window[x].state
  BY <1>0, PreparedRow
<1>5. a \notin Charged(w)
  BY <1>1, NoAttemptFacts DEF Charged, AttemptsIn, RowState, SettledState
<1>6a. Pending(w)' = Pending(w) \cup {a}
  BY <1>1, NoAttemptFacts DEF Pending, AttemptsIn
<1>6b. Charged(w)' = Charged(w) \cup {a}
  BY <1>1, NoAttemptFacts DEF Charged, AttemptsIn, RowState, SettledState
<1>6c. Spent(w)' = Spent(w)
  BY <1>1, NoAttemptFacts DEF Spent
<1>7. WindowLedger(w)'
  BY <1>1, <1>5, <1>6a, <1>6b, <1>6c, ChargedWindow
<1>8. ASSUME NEW x \in Message \ {w} PROVE WindowLedger(x)'
  BY <1>1, NoAttemptFacts, MessageAssumption, OtherWindow
<1>9. UNCHANGED <<account, inbox, lapsed>>
  BY DEF PrepareReplyAttempt
<1> QED BY <1>1, <1>7, <1>8, <1>9, SendLedger

LEMMA RejectLedger ==
  ASSUME IInv, TypeOK', FiniteLedger', NEW a \in Attempt, RejectReplyAttempt(a)
  PROVE  IInv'
<1>0. TypeOK /\ FiniteLedger /\ RowsTellTruth
  BY DEF IInv
<1>1. PICK w \in Message : w = session.boundary
  BY <1>0, SessionTypes DEF RejectReplyAttempt, SessionWindowValid
<1>2. /\ attempt[a] = NoAttempt
      /\ attempt'[a].state = "failed"
      /\ attempt'[a].code = "not_transmitted"
      /\ ~ attempt'[a].sent
      /\ attempt'[a].window = w
      /\ \A x \in Attempt \ {a} : attempt'[x] = attempt[x]
  <2>1. NewAttempt(a, "failed", "not_transmitted", "mcp_tool", session.source, w)
    BY <1>1 DEF RejectReplyAttempt
  <2> QED BY <1>0, <2>1, NewRow
<1>3. window' = window /\ UNCHANGED <<account, inbox, lapsed>>
  BY DEF RejectReplyAttempt
<1>4. ASSUME NEW x \in Message PROVE WindowLedger(x)'
  <2>1. Pending(x)' = Pending(x)
    BY <1>2, NoAttemptFacts DEF Pending, AttemptsIn
  <2>2. Charged(x)' = Charged(x)
    BY <1>2, NoAttemptFacts DEF Charged, AttemptsIn, RowState, SettledState
  <2>3. Spent(x)' = Spent(x)
    BY <1>2, NoAttemptFacts DEF Spent
  <2> QED BY <1>3, <2>1, <2>2, <2>3, KeptWindow
<1>5. window[w].state # "none"
  BY <1>0, <1>1 DEF RejectReplyAttempt, SessionWindowValid, IInv, WindowsAreFresh
<1> QED BY <1>2, <1>3, <1>4, <1>5, SendLedger

\* What startReplyAttempt writes.
LEMMA StartedRow ==
  ASSUME TypeOK, RowsTellTruth, NEW a \in Attempt, StartReplyAttempt(a)
  PROVE  \E w \in Message :
           /\ window[w].reserved > 0
           /\ window[w].state = "open"
           /\ attempt[a].state = "pending" /\ attempt[a].window = w /\ Sending = {}
           /\ attempt[a] \in AttemptRow /\ attempt[a].code # "not_transmitted"
           /\ attempt'[a].state = "sending"
           /\ attempt'[a].sent
           /\ attempt'[a].code = attempt[a].code
           /\ attempt'[a].window = w
           /\ \A x \in Attempt \ {a} : attempt'[x] = attempt[x]
           /\ window'[w].reserved = window[w].reserved - 1
           /\ window'[w].transmitted = window[w].transmitted + 1
           /\ \A x \in Message \ {w} : window'[x] = window[x]
           /\ \A x \in Message : window'[x].state = window[x].state
<1>1. PICK w \in Message : /\ w = session.boundary
                           /\ window[w].state = "open"
                           /\ window[w].reserved > 0
  BY SessionTypes DEF StartReplyAttempt, SessionWindowValid
<1>2. attempt[a].state = "pending" /\ attempt[a].window = w /\ Sending = {}
  BY <1>1 DEF StartReplyAttempt, NothingSending
<1>2a. attempt[a] \in AttemptRow /\ attempt[a].code # "not_transmitted"
  BY <1>2 DEF TypeOK, RowsTellTruth
<1>3. /\ attempt'[a].state = "sending"
      /\ attempt'[a].sent
      /\ attempt'[a].code = attempt[a].code
      /\ attempt'[a].window = w
      /\ \A x \in Attempt \ {a} : attempt'[x] = attempt[x]
  <2>1. attempt' = [attempt EXCEPT ![a] = [attempt[a] EXCEPT !.state = "sending", !.sent = TRUE]]
    BY DEF StartReplyAttempt
  <2>2. attempt'[a] = [attempt[a] EXCEPT !.state = "sending", !.sent = TRUE]
    BY <2>1 DEF TypeOK
  <2>3. \A x \in Attempt \ {a} : attempt'[x] = attempt[x]
    BY <2>1 DEF TypeOK
  <2> QED BY <1>2, <1>2a, <2>2, <2>3 DEF AttemptRow
<1>4. window' = [window EXCEPT ![w] = [window[w] EXCEPT !.reserved = window[w].reserved - 1,
                                                       !.transmitted = window[w].transmitted + 1]]
  BY <1>1 DEF StartReplyAttempt, NothingSending
<1>5. /\ window'[w].state = window[w].state
      /\ window'[w].reserved = window[w].reserved - 1
      /\ window'[w].transmitted = window[w].transmitted + 1
      /\ \A x \in Message \ {w} : window'[x] = window[x]
      /\ \A x \in Message : window'[x].state = window[x].state
  <2>1. PICK r, t : r = window[w].reserved - 1 /\ t = window[w].transmitted + 1
    OBVIOUS
  <2>2. PICK row : row = [window[w] EXCEPT !.reserved = r, !.transmitted = t]
    OBVIOUS
  <2>3. window' = [window EXCEPT ![w] = row]
    BY <1>4, <2>1, <2>2
  <2>4. row.state = window[w].state /\ row.reserved = r /\ row.transmitted = t
    BY <1>1, <2>2, CounterRow
  <2> QED BY <1>1, <2>1, <2>3, <2>4, CounterStep
<1> QED BY <1>1, <1>2, <1>2a, <1>3, <1>5

LEMMA StartLedger ==
  ASSUME IInv, TypeOK', FiniteLedger', NEW a \in Attempt, StartReplyAttempt(a)
  PROVE  IInv'
<1>0. TypeOK /\ FiniteLedger /\ RowsTellTruth
  BY DEF IInv
<1>1. PICK w \in Message :
        /\ window[w].reserved > 0
        /\ window[w].state = "open"
        /\ attempt[a].state = "pending" /\ attempt[a].window = w /\ Sending = {}
        /\ attempt[a] \in AttemptRow /\ attempt[a].code # "not_transmitted"
        /\ attempt'[a].state = "sending"
        /\ attempt'[a].sent
        /\ attempt'[a].code = attempt[a].code
        /\ attempt'[a].window = w
        /\ \A x \in Attempt \ {a} : attempt'[x] = attempt[x]
        /\ window'[w].reserved = window[w].reserved - 1
        /\ window'[w].transmitted = window[w].transmitted + 1
        /\ \A x \in Message \ {w} : window'[x] = window[x]
        /\ \A x \in Message : window'[x].state = window[x].state
  BY <1>0, StartedRow
<1>9. UNCHANGED <<account, inbox, lapsed>>
  BY DEF StartReplyAttempt
<1>6a. a \in Pending(w) /\ Pending(w)' = Pending(w) \ {a}
  BY <1>1 DEF Pending, AttemptsIn
<1>6b. Spent(w)' = Spent(w) \cup {a}
  BY <1>1 DEF Spent
<1>7. Charged(w)' = Charged(w)
  BY <1>1 DEF Charged, AttemptsIn, RowState, SettledState
<1>8. WindowLedger(w)'
  BY <1>1, <1>6a, <1>6b, <1>7, StartedWindow
<1>10. ASSUME NEW x \in Message \ {w} PROVE WindowLedger(x)'
  BY <1>1, OtherWindow
<1> QED BY <1>1, <1>8, <1>9, <1>10, SendLedger

LEMMA SystemLedger ==
  ASSUME IInv, TypeOK', FiniteLedger', NEW a \in Attempt, NEW w \in Message, NEW kind,
         ReserveStartedSystemAttempt(w, a, kind)
  PROVE  IInv'
<1>0. TypeOK /\ FiniteLedger /\ RowsTellTruth
  BY DEF IInv
<1>1. window[w].state = "open" /\ QuotaLeft(w) /\ Sending = {}
  BY DEF ReserveStartedSystemAttempt, NothingSending
<1>2. /\ attempt[a] = NoAttempt
      /\ attempt'[a].state = "sending"
      /\ attempt'[a].code = "none"
      /\ attempt'[a].sent
      /\ attempt'[a].window = w
      /\ \A x \in Attempt \ {a} : attempt'[x] = attempt[x]
  <2>1. NewAttempt(a, "sending", "none", kind, w, w)
    BY DEF ReserveStartedSystemAttempt
  <2> QED BY <1>0, <2>1, NewRow
<1>3. window' = [window EXCEPT ![w] = [window[w] EXCEPT !.reserved = @, !.transmitted = @ + 1]]
  <2>1. window[w] \in WindowRow
    BY <1>0 DEF TypeOK
  <2>2. [window[w] EXCEPT !.transmitted = @ + 1] =
          [window[w] EXCEPT !.reserved = @, !.transmitted = @ + 1]
    BY <2>1 DEF WindowRow
  <2>3. window' = [window EXCEPT ![w] = [window[w] EXCEPT !.transmitted = @ + 1]]
    BY DEF ReserveStartedSystemAttempt
  <2> QED BY <2>2, <2>3
<1>4. /\ window'[w].state = "open"
      /\ window'[w].reserved = window[w].reserved
      /\ window'[w].transmitted = window[w].transmitted + 1
      /\ \A x \in Message \ {w} : window'[x] = window[x]
      /\ \A x \in Message : window'[x].state = window[x].state
  <2>1. PICK r, t : r = window[w].reserved /\ t = window[w].transmitted + 1
    OBVIOUS
  <2>2. PICK row : row = [window[w] EXCEPT !.reserved = r, !.transmitted = t]
    OBVIOUS
  <2>3. window' = [window EXCEPT ![w] = row]
    BY <1>3, <2>1, <2>2
  <2>4. row.state = window[w].state /\ row.reserved = r /\ row.transmitted = t
    BY <1>0, <2>2, CounterRow
  <2> QED BY <1>0, <1>1, <2>1, <2>3, <2>4, CounterStep
<1>5. a \notin Charged(w)
  BY <1>2, NoAttemptFacts DEF Charged, AttemptsIn, RowState, SettledState
<1>6a. Pending(w)' = Pending(w)
  BY <1>2, NoAttemptFacts DEF Pending, AttemptsIn
<1>6b. Charged(w)' = Charged(w) \cup {a}
  BY <1>2, NoAttemptFacts DEF Charged, AttemptsIn, RowState, SettledState
<1>6c. Spent(w)' = Spent(w) \cup {a}
  BY <1>2, NoAttemptFacts DEF Spent
<1>7. WindowLedger(w)'
  BY <1>1, <1>4, <1>5, <1>6a, <1>6b, <1>6c, ChargedWindow
<1>8. ASSUME NEW x \in Message \ {w} PROVE WindowLedger(x)'
  BY <1>2, <1>4, NoAttemptFacts, MessageAssumption, OtherWindow
<1>9. UNCHANGED <<account, inbox, lapsed>>
  BY DEF ReserveStartedSystemAttempt
<1> QED BY <1>1, <1>2, <1>4, <1>7, <1>8, <1>9, SendLedger

\* What releasePendingAttempt writes.
LEMMA ReleasedRow ==
  ASSUME TypeOK, NEW a \in Attempt, ReleasePendingAttempt(a)
  PROVE  \E w \in Message \cup {NoMessage} :
           /\ attempt[a].state = "pending" /\ attempt[a].window = w
           /\ attempt'[a].state = "failed"
           /\ attempt'[a].code = "not_transmitted"
           /\ attempt'[a].sent = attempt[a].sent
           /\ attempt'[a].window = w
           /\ \A x \in Attempt \ {a} : attempt'[x] = attempt[x]
           /\ w \in Message => /\ window'[w].reserved = window[w].reserved - 1
                               /\ window'[w].transmitted = window[w].transmitted
           /\ \A x \in Message \ {w} : window'[x] = window[x]
           /\ \A x \in Message : window'[x].state = window[x].state
<1>1. PICK w : w = attempt[a].window
  OBVIOUS
<1>2. attempt[a].state = "pending"
  BY DEF ReleasePendingAttempt
<1>3. attempt[a] \in AttemptRow /\ w \in Message \cup {NoMessage}
  BY <1>1 DEF TypeOK, AttemptRow
<1>4. /\ attempt'[a].state = "failed"
      /\ attempt'[a].code = "not_transmitted"
      /\ attempt'[a].sent = attempt[a].sent
      /\ attempt'[a].window = w
      /\ \A x \in Attempt \ {a} : attempt'[x] = attempt[x]
  <2>1. attempt' = SetAttempts({a}, "failed", "not_transmitted")
    BY DEF ReleasePendingAttempt
  <2>2. attempt'[a] = [attempt[a] EXCEPT !.state = "failed", !.code = "not_transmitted"]
    BY <2>1 DEF SetAttempts
  <2>3. \A x \in Attempt \ {a} : attempt'[x] = attempt[x]
    BY <2>1 DEF SetAttempts
  <2> QED BY <1>1, <1>3, <2>2, <2>3 DEF AttemptRow
<1>5. CASE w \in Message
  <2>1. PICK row : row = [window[w] EXCEPT !.reserved = @ - 1]
    OBVIOUS
  <2>2. window' = [window EXCEPT ![w] = row]
    BY <1>1, <2>1 DEF ReleasePendingAttempt
  <2>3. window[w] \in WindowRow
    BY <1>5 DEF TypeOK
  <2>4. /\ row.state = window[w].state
        /\ row.reserved = window[w].reserved - 1
        /\ row.transmitted = window[w].transmitted
    BY <2>1, <2>3 DEF WindowRow
  <2>5. /\ window'[w] = row
        /\ \A x \in Message \ {w} : window'[x] = window[x]
        /\ \A x \in Message : window'[x].state = window[x].state
    BY <1>5, <2>2, <2>4, CounterStep
  <2> QED BY <1>1, <1>2, <1>3, <1>4, <2>4, <2>5
<1>6. CASE w \notin Message
  <2>1. \A x \in Message : window'[x] = window[x]
    BY <1>1, <1>6 DEF ReleasePendingAttempt, TypeOK
  <2> QED BY <1>1, <1>2, <1>3, <1>4, <1>6, <2>1
<1> QED BY <1>5, <1>6

LEMMA ReleaseLedger ==
  ASSUME IInv, TypeOK', FiniteLedger', NEW a \in Attempt, ReleasePendingAttempt(a)
  PROVE  IInv'
<1>0. TypeOK
  BY DEF IInv
<1>1. PICK w \in Message \cup {NoMessage} :
        /\ attempt[a].state = "pending" /\ attempt[a].window = w
        /\ attempt'[a].state = "failed"
        /\ attempt'[a].code = "not_transmitted"
        /\ attempt'[a].sent = attempt[a].sent
        /\ attempt'[a].window = w
        /\ \A x \in Attempt \ {a} : attempt'[x] = attempt[x]
        /\ w \in Message => /\ window'[w].reserved = window[w].reserved - 1
                            /\ window'[w].transmitted = window[w].transmitted
        /\ \A x \in Message \ {w} : window'[x] = window[x]
        /\ \A x \in Message : window'[x].state = window[x].state
  BY <1>0, ReleasedRow
<1>2. UNCHANGED <<account, inbox, lapsed>>
  BY DEF ReleasePendingAttempt
<1>3. ASSUME w \in Message PROVE WindowLedger(w)'
  <2>1. {a} \subseteq Pending(w) /\ Pending(w)' = Pending(w) \ {a}
    BY <1>1 DEF Pending, AttemptsIn
  <2>2. Charged(w)' = Charged(w) \ {a}
    BY <1>1 DEF Charged, AttemptsIn
  <2>3. Spent(w)' = Spent(w)
    BY <1>1 DEF Spent
  <2>4. Cardinality({a}) = 1
    BY FS_Singleton
  <2>5. window'[w].reserved = window[w].reserved - 1
    BY <1>1, <1>3
  <2> QED BY <1>1, <1>3, <2>1, <2>2, <2>3, <2>4, <2>5, ReleasedWindow
<1>4. ASSUME NEW x \in Message \ {w} PROVE WindowLedger(x)'
  BY <1>1, OtherWindow
<1> QED BY <1>1, <1>2, <1>3, <1>4, SendLedger

LEMMA RecoverLedger ==
  ASSUME IInv, TypeOK', FiniteLedger', RecoverPendingAttempts
  PROVE  IInv'
<1>0. TypeOK /\ FiniteLedger /\ RowsTellTruth
  BY DEF IInv
<1>1. PICK P : P = UNION {Pending(w) : w \in Message}
  OBVIOUS
<1>2. attempt' = SetAttempts(P, "failed", "not_transmitted")
  BY <1>1 DEF RecoverPendingAttempts
<1>3. \A a \in P : a \in Attempt => attempt[a].state \in {"pending", "sending"}
  BY <1>1 DEF Pending, AttemptsIn
<1>4. Settling /\ RowsTellTruth' /\ Sending' \subseteq Sending
  <2>1. "failed" \in SettledState
    BY DEF SettledState
  <2> QED BY <1>0, <1>2, <1>3, <2>1, SettledRows
<1>5. ASSUME NEW w \in Message
      PROVE  /\ window'[w].state = window[w].state
             /\ window'[w].reserved = window[w].reserved - Cardinality(Pending(w))
             /\ window'[w].transmitted = window[w].transmitted
  <2>1. window'[w] = [window[w] EXCEPT !.reserved = @ - Cardinality(Pending(w))]
    BY DEF RecoverPendingAttempts
  <2>2. window[w] \in WindowRow
    BY <1>0 DEF TypeOK
  <2> QED BY <2>1, <2>2 DEF WindowRow
<1>6. ASSUME NEW w \in Message PROVE WindowLedger(w)'
  <2>1. PICK R : R = Pending(w)
    OBVIOUS
  <2>2. Pending(w)' = {}
    BY <1>0, PendingWindows DEF RecoverPendingAttempts
  <2>3. Charged(w)' = Charged(w) \ R
    <3>1. \A a \in P : a \in Attempt => attempt'[a].code = "not_transmitted"
      BY <1>0, <1>2 DEF SetAttempts, TypeOK, AttemptRow
    <3>2. \A a \in Attempt \ P : attempt'[a] = attempt[a]
      BY <1>2 DEF SetAttempts
    <3>3. \A a \in Attempt : a \in P /\ attempt[a].window = w <=> a \in R
      BY <1>1, <2>1 DEF Pending, AttemptsIn
    <3>4. \A a \in Attempt : attempt'[a].window = attempt[a].window
      BY <1>4 DEF Settling
    <3> QED BY <3>1, <3>2, <3>3, <3>4 DEF Charged, AttemptsIn
  <2>4. Spent(w)' = Spent(w)
    BY <1>4, SettlingShrinks
  <2>5. R \subseteq Pending(w) /\ Pending(w)' = Pending(w) \ R
    BY <2>1, <2>2
  <2> QED BY <1>5, <2>1, <2>3, <2>4, <2>5, ReleasedWindow
<1>7. OneWindowOneSend'
  <2>1. OpenWindows' = OpenWindows
    BY <1>5 DEF OpenWindows
  <2> QED BY <1>4, <2>1 DEF IInv, OneWindowOneSend
<1>8. InboxKept /\ account' = account /\ lapsed' = lapsed
  BY DEF RecoverPendingAttempts, InboxKept, Has
<1>9. WindowsAreFresh'
  BY <1>4, <1>5, <1>8, FreshKept DEF IInv, Settling
<1> QED BY <1>4, <1>6, <1>7, <1>9 DEF IInv

-----------------------------------------------------------------------------
(* A polled page.                                                          *)

LEMMA FreshMessages ==
  ASSUME TypeOK, NEW page \in Page
  PROVE  \A m \in {page[i] : i \in Fresh(page)} : m \in Message /\ Has(m, {"absent"})
<1> SUFFICES ASSUME NEW i \in Fresh(page)
             PROVE  page[i] \in Message /\ Has(page[i], {"absent"})
  OBVIOUS
<1>1. page \in Seq(Message)
  BY PageAssumption
<1>2. page[i] \in Message
  BY <1>1 DEF Fresh
<1>3. inbox[page[i]].status \in InboundStatus
  BY <1>2 DEF TypeOK, InboundRow
<1> QED BY <1>2, <1>3 DEF Fresh, Has

LEMMA CommitLedger ==
  ASSUME IInv, TypeOK', FiniteLedger', NEW page \in Page, NEW owner \in Message,
         CommitPollPage(page, owner)
  PROVE  IInv'
<1>0. TypeOK /\ FiniteLedger /\ RowsTellTruth /\ WindowsAreFresh
  BY DEF IInv
<1>1. PICK fresh : fresh = {page[i] : i \in Fresh(page)}
  OBVIOUS
<1>2. PICK retired : retired = IF owner \in fresh THEN OpenWindows ELSE {}
  OBVIOUS
<1>3. attempt' = SetAttempts(UNION {Pending(w) : w \in retired}, "failed", "none")
  BY <1>1, <1>2 DEF CommitPollPage, Retired
<1>4. window' = [m \in Message |->
        IF m \in fresh
        THEN [state |-> IF m = owner THEN "open" ELSE "superseded",
              generation |-> account.generation, reserved |-> 0, transmitted |-> 0]
        ELSE IF m \in retired
        THEN [window[m] EXCEPT !.state = "superseded", !.reserved = 0]
        ELSE window[m]]
  BY <1>1, <1>2 DEF CommitPollPage, Retired
<1>5. account' = account /\ account.active /\ lapsed' = lapsed
  BY DEF CommitPollPage
<1>6. \A m \in fresh : /\ m \in Message
                       /\ Has(m, {"absent"})
                       /\ window[m].state = "none"
                       /\ \A a \in Attempt : attempt[a].window # m
  BY <1>0, <1>1, <1>5, FreshMessages DEF WindowsAreFresh
<1>7. Settling /\ RowsTellTruth' /\ Sending' \subseteq Sending
  <2>1. PICK P : P = UNION {Pending(w) : w \in retired}
    OBVIOUS
  <2>2. \A a \in P : a \in Attempt => attempt[a].state \in {"pending", "sending"}
    BY <2>1 DEF Pending, AttemptsIn
  <2>3. "failed" \in SettledState
    BY DEF SettledState
  <2>4. attempt' = SetAttempts(P, "failed", "none")
    BY <1>3, <2>1
  <2> QED BY <1>0, <2>2, <2>3, <2>4, SettledRows
<1>8. \A w \in retired : w \in Message /\ window[w].state = "open" /\ Pending(w)' = {}
  BY <1>0, <1>2, <1>3, PendingWindows DEF OpenWindows
<1>9. ASSUME NEW m \in fresh
      PROVE  /\ window'[m].state = IF m = owner THEN "open" ELSE "superseded"
             /\ window'[m].reserved = 0
             /\ window'[m].transmitted = 0
  BY <1>4, <1>6
<1>10. ASSUME NEW m \in retired PROVE window'[m].state = "superseded"
  <2>1. m \in Message \ fresh /\ window[m] \in WindowRow
    BY <1>0, <1>6, <1>8 DEF TypeOK
  <2>2. window'[m] = [window[m] EXCEPT !.state = "superseded", !.reserved = 0]
    BY <1>4, <2>1
  <2> QED BY <2>1, <2>2 DEF WindowRow
<1>11. \A m \in Message : m \notin fresh /\ m \notin retired => window'[m] = window[m]
  BY <1>4
<1>12. ASSUME NEW w \in Message PROVE WindowLedger(w)'
  <2>1. CASE w \in fresh
    <3>1. Pending(w)' = {} /\ Charged(w)' = {} /\ Spent(w)' = {}
      BY <1>6, <1>7, <2>1 DEF Settling, Pending, Charged, Spent, AttemptsIn
    <3>2. Cardinality({}) = 0
      BY FS_EmptySet
    <3> QED BY <1>9, <2>1, <3>1, <3>2, MaxSendsAssumption DEF WindowLedger
  <2>2. CASE w \in retired
    BY <1>7, <1>8, <1>10, <2>2, SettlingShrinks, LeftWindow
  <2>3. CASE w \notin fresh /\ w \notin retired
    BY <1>7, <1>11, <2>3, SettlingKeeps
  <2> QED BY <2>1, <2>2, <2>3
<1>13. OneWindowOneSend'
  <2>1. CASE owner \in fresh
    <3>1. ASSUME NEW w \in OpenWindows' PROVE w = owner
      <4>1. w \in Message /\ window'[w].state = "open"
        BY DEF OpenWindows
      <4>2. w \notin retired
        BY <1>10, <4>1
      <4>3. w \in fresh
        BY <1>2, <1>11, <2>1, <4>1, <4>2 DEF OpenWindows
      <4> QED BY <1>9, <4>1, <4>3
    <3> QED BY <1>7, <3>1 DEF IInv, OneWindowOneSend
  <2>2. CASE owner \notin fresh
    <3>1. OpenWindows' \subseteq OpenWindows
      <4> SUFFICES ASSUME NEW w \in OpenWindows' PROVE w \in OpenWindows
        OBVIOUS
      <4>1. w \in Message /\ window'[w].state = "open"
        BY DEF OpenWindows
      <4>2. w \notin fresh /\ w \notin retired
        BY <1>2, <1>9, <2>2, <4>1
      <4> QED BY <1>11, <4>1, <4>2 DEF OpenWindows
    <3> QED BY <1>7, <3>1 DEF IInv, OneWindowOneSend
  <2> QED BY <2>1, <2>2
<1>14. WindowsAreFresh'
  <2>1. ASSUME NEW w \in Message, window'[w].state = "none"
        PROVE  window[w].state = "none" /\ window'[w] = window[w]
    BY <1>9, <1>10, <1>11, <2>1
  <2>2. \A w \in Message : window'[w].state = "none" =>
          w \notin lapsed' /\ \A a \in Attempt : attempt'[a].window # w
    BY <1>0, <1>5, <1>7, <2>1 DEF WindowsAreFresh, Settling
  <2>3. ASSUME NEW m \in Message, Has(m, {"absent"})' PROVE window'[m].state = "none"
    <3>1. m \notin fresh /\ Has(m, {"absent"})
      <4>1. inbox' = [x \in Message |->
              IF x \in fresh
              THEN [status |-> IF x = owner THEN "received" ELSE "absorbed",
                    seq |-> lastSeq + (CHOOSE i \in Fresh(page) : page[i] = x),
                    primary |-> NoMessage]
              ELSE IF owner \in fresh /\ Has(x, {"received"})
              THEN [inbox[x] EXCEPT !.status = "absorbed"]
              ELSE inbox[x]]
        BY <1>1 DEF CommitPollPage, Merged
      <4>2. inbox'[m].status = "absent"
        BY <2>3 DEF Has
      <4>3. m \notin fresh
        BY <4>1, <4>2
      <4>4. inbox'[m] = inbox[m]
        <5>1. inbox[m] \in InboundRow
          BY <1>0 DEF TypeOK
        <5>2. [inbox[m] EXCEPT !.status = "absorbed"].status = "absorbed"
          BY <5>1 DEF InboundRow
        <5> QED BY <4>1, <4>2, <4>3, <5>2
      <4> QED BY <4>2, <4>3, <4>4 DEF Has
    <3>2. window[m].state = "none"
      BY <1>0, <1>5, <3>1 DEF WindowsAreFresh
    <3>3. m \notin retired
      BY <1>8, <3>2
    <3> QED BY <1>11, <3>1, <3>2, <3>3
  <2> QED BY <2>2, <2>3 DEF WindowsAreFresh
<1> QED BY <1>7, <1>12, <1>13, <1>14 DEF IInv

-----------------------------------------------------------------------------
(* The theorems.                                                           *)

LEMMA IInvInit == Init => IInv
<1> SUFFICES ASSUME Init PROVE IInv
  OBVIOUS
<1>1. TypeOK
  BY TypeInit
<1>2. \A a \in Attempt : attempt[a] = NoAttempt
  BY DEF Init
<1>3. Ledger = {}
  BY <1>2, NoAttemptFacts DEF Ledger
<1>4. FiniteLedger
  BY <1>3, FS_EmptySet DEF FiniteLedger
<1>5. \A w \in Message : /\ window[w].state = "none"
                         /\ window[w].reserved = 0
                         /\ w \notin lapsed
  BY DEF Init, NoWindow
<1>6. ASSUME NEW w \in Message PROVE WindowLedger(w)
  <2>1. Pending(w) = {} /\ Charged(w) = {}
    BY <1>2, NoAttemptFacts DEF Pending, Charged, AttemptsIn, RowState, SettledState
  <2>2. Cardinality({}) = 0
    BY FS_EmptySet
  <2> QED BY <1>5, <2>1, <2>2, MaxSendsAssumption DEF WindowLedger
<1>7. OneWindowOneSend
  BY <1>2, <1>5, NoAttemptFacts DEF OneWindowOneSend, OpenWindows, Sending
<1>8. WindowsAreFresh
  BY <1>2, <1>5, NoAttemptFacts, MessageAssumption DEF WindowsAreFresh
<1>9. RowsTellTruth
  BY <1>2, NoAttemptFacts DEF RowsTellTruth
<1> QED BY <1>1, <1>4, <1>6, <1>7, <1>8, <1>9 DEF IInv

LEMMA IInvStep == IInv /\ [Next]_vars => IInv'
<1> SUFFICES ASSUME IInv, [Next]_vars PROVE IInv'
  OBVIOUS
<1>1. TypeOK' /\ FiniteLedger'
  BY TypeStep, FiniteLedgerStep DEF IInv
<1>2. CASE \E page \in Page, owner \in Message : CommitPollPage(page, owner)
  BY <1>1, <1>2, CommitLedger
<1>3. CASE RotateAccount \/ DeleteAccount \/ \E old \in SUBSET Attempt : Cleanup(old)
           \/ \E settled, unacknowledged \in SUBSET Message : RecoverStartup(settled, unacknowledged)
  BY <1>1, <1>3, SettlingLedger
<1>4. ASSUME NEW m \in Message,
             \/ ClaimInbound(m)
             \/ \E p \in Message : BeginInboundSteering(m, p)
             \/ EndInboundSteering(m)
             \/ \E unacknowledged \in SUBSET Group(m) : FailInbound(m, unacknowledged)
             \/ DeferActiveInbound(m)
             \/ MarkInboundIgnored(m)
             \/ SuppressInbound(m)
             \/ FinalizeAgentExecution(m)
             \/ ExpireWindow(m)
             \/ \E b \in Message : CreateAgentSession(m, b)
      PROVE  IInv'
  BY <1>1, <1>4, ConversationLedger, SettlingLedger
<1>5. ASSUME CloseAgentSession \/ UNCHANGED vars PROVE IInv'
  <2>1. InboxKept
    BY <1>5 DEF CloseAgentSession, vars, InboxKept, Has
  <2> QED BY <1>1, <1>5, <2>1, StillLedger DEF CloseAgentSession, vars
<1>6. ASSUME NEW a \in Attempt,
             \/ PrepareReplyAttempt(a)
             \/ RejectReplyAttempt(a)
             \/ StartReplyAttempt(a)
             \/ ReleasePendingAttempt(a)
             \/ \E m \in Message, kind \in SystemKind : ReserveStartedSystemAttempt(m, a, kind)
             \/ \E state \in SettledState : FinishSend(a, state)
      PROVE  IInv'
  BY <1>1, <1>6, PrepareLedger, RejectLedger, StartLedger, ReleaseLedger, SystemLedger,
     SettlingLedger
<1>7. CASE RecoverPendingAttempts
  BY <1>1, <1>7, RecoverLedger
<1> QED BY <1>2, <1>3, <1>4, <1>5, <1>6, <1>7 DEF Next

\* The counters of every window cover what was reserved and transmitted in it, in every state:
\* every transaction that moves an attempt moves the counters with it.
THEOREM LedgerInvariant == Spec => []IInv
  BY IInvInit, IInvStep, PTL DEF Spec

\* Neither releasePendingAttempt nor recoverPendingAttempts ever finds a counter
\* smaller than the reservations it stands for, so the worker can always start.
THEOREM ReservationsAreCovered == Spec => []ReservationsCovered
  BY LedgerInvariant, IInvMeans, PTL

\* A finished turn is never refused by finalizeAgentExecution because of how
\* many attempts its windows were charged with.
THEOREM BudgetAlwaysHolds == Spec => []BudgetHolds
  BY LedgerInvariant, IInvMeans, PTL

\* The conversation has one open window, and one send on its way, at most.
THEOREM OneWindowAtATime == Spec => []OneWindowOneSend
  BY LedgerInvariant, IInvMeans, PTL

-----------------------------------------------------------------------------
(* The places of a window: every one that is taken belongs to a pending    *)
(* attempt, or to one whose message was suppressed.                        *)

Occupying(w) == Pending(w) \cup Stranded(w)

PlacesAt(w) ==
  /\ window[w].reserved = Cardinality(Occupying(w))
  /\ \A a \in Stranded(w) : attempt[a].source \in Suppressed

LEMMA PlacesOfAll ==
  /\ PlacesComeBack <=> \A w \in OpenWindows \ lapsed : PlacesAt(w)
  /\ PlacesComeBack' <=> \A w \in OpenWindows' \ lapsed' : PlacesAt(w)'
BY DEF PlacesComeBack, PlacesAt, Occupying

LEMMA OccupyingFinite ==
  ASSUME FiniteLedger, NEW w
  PROVE  IsFiniteSet(Occupying(w)) /\ Cardinality(Occupying(w)) \in Nat
<1>1. Occupying(w) \subseteq Ledger
  BY DEF Occupying, Pending, Stranded, AttemptsIn, Ledger
<1> QED BY <1>1, FS_Subset, FS_CardinalityType DEF FiniteLedger

\* Suppressed messages stay so, and no attempt that occupies a place of the window changes or
\* comes.
LEMMA PlacesUntouched ==
  ASSUME NEW w, PlacesAt(w), window'[w].reserved = window[w].reserved,
         Suppressed \subseteq Suppressed',
         \A a \in Attempt : \/ attempt'[a] = attempt[a]
                            \/ a \notin Occupying(w) /\ a \notin Occupying(w)'
  PROVE  PlacesAt(w)'
<1>1. Occupying(w)' = Occupying(w)
  BY DEF Occupying, Pending, Stranded, AttemptsIn
<1>2. \A a \in Stranded(w)' : a \in Stranded(w) /\ attempt'[a].source = attempt[a].source
  BY DEF Occupying, Pending, Stranded, AttemptsIn
<1> QED BY <1>1, <1>2 DEF PlacesAt

\* Places are given back: as many as the attempts that leave.
LEMMA PlacesReturned ==
  ASSUME NEW w \in Message, TypeOK, FiniteLedger, PlacesAt(w),
         NEW R, R \subseteq Pending(w), R \cap Occupying(w)' = {},
         window'[w].reserved = window[w].reserved - Cardinality(R),
         Suppressed \subseteq Suppressed',
         \A a \in Attempt : a \in R \/ attempt'[a] = attempt[a] \/ a \notin Occupying(w) \cup Occupying(w)'
  PROVE  PlacesAt(w)'
<1>1. Occupying(w)' = Occupying(w) \ R
  BY DEF Occupying, Pending, Stranded, AttemptsIn
<1>2. Stranded(w)' \subseteq Stranded(w) \ R
  BY <1>1 DEF Occupying, Pending, Stranded, AttemptsIn
<1>3. \A a \in Stranded(w)' : attempt'[a].source = attempt[a].source
  BY <1>2 DEF Occupying, Stranded, AttemptsIn
<1>4. Occupying(w) \cap R = R
  BY DEF Occupying
<1>5. Cardinality(Occupying(w)') = Cardinality(Occupying(w)) - Cardinality(R)
  BY <1>1, <1>4, OccupyingFinite, FS_Difference
<1> QED BY <1>2, <1>3, <1>5 DEF PlacesAt

-----------------------------------------------------------------------------
(* Suppressed messages stay so, until the account is deleted.               *)

LEMMA SuppressionStays ==
  ASSUME TypeOK,
         \/ \E m \in Message :
              \/ ClaimInbound(m)
              \/ \E p \in Message : BeginInboundSteering(m, p)
              \/ EndInboundSteering(m)
              \/ \E unacknowledged \in SUBSET Group(m) : FailInbound(m, unacknowledged)
              \/ DeferActiveInbound(m)
              \/ MarkInboundIgnored(m)
              \/ SuppressInbound(m)
              \/ FinalizeAgentExecution(m)
         \/ \E a \in Attempt, state \in SettledState : FinishSend(a, state)
         \/ \E settled, unacknowledged \in SUBSET Message :
              RecoverStartup(settled, unacknowledged)
         \/ inbox' = inbox
  PROVE  Suppressed \subseteq Suppressed'
<1> SUFFICES ASSUME NEW x \in Message, inbox[x].status = "suppressed"
             PROVE  inbox'[x].status = "suppressed"
  BY DEF Suppressed, Has
<1>0. \A m \in Message : \A y \in Group(m) : inbox[y].status \in {"steering", "steered"}
  BY DEF Group, Has
<1>1. ASSUME NEW m \in Message,
             \/ ClaimInbound(m)
             \/ \E p \in Message : BeginInboundSteering(m, p)
             \/ EndInboundSteering(m)
             \/ MarkInboundIgnored(m)
             \/ SuppressInbound(m)
             \/ FinalizeAgentExecution(m)
      PROVE  inbox'[x].status = "suppressed"
  <2>1. CASE ClaimInbound(m) \/ MarkInboundIgnored(m)
    BY <2>1 DEF ClaimInbound, MarkInboundIgnored, SetInbox, Has
  <2>2. CASE \E p \in Message : BeginInboundSteering(m, p)
    BY <2>2 DEF BeginInboundSteering, Has, TypeOK, InboundRow
  <2>3. CASE EndInboundSteering(m)
    BY <2>3 DEF EndInboundSteering, SetInbox, Requeue, Has
  <2>4. CASE SuppressInbound(m)
    BY <2>4 DEF SuppressInbound, SetInbox, Has, TypeOK, InboundRow
  <2>5. CASE FinalizeAgentExecution(m)
    <3>1. x # m /\ x \notin Group(m)
      BY <1>0, <2>5 DEF FinalizeAgentExecution, Has
    <3> QED BY <2>5, <3>1 DEF FinalizeAgentExecution
  <2> QED BY <1>1, <2>1, <2>2, <2>3, <2>4, <2>5
<1>2. ASSUME NEW m \in Message, NEW unacknowledged \in SUBSET Group(m), FailInbound(m, unacknowledged)
      PROVE  inbox'[x].status = "suppressed"
  <2>1. x # m /\ x \notin unacknowledged
    BY <1>0, <1>2 DEF FailInbound, Has
  <2> QED BY <1>2, <2>1 DEF FailInbound, Requeue
<1>3. ASSUME NEW m \in Message, DeferActiveInbound(m)
      PROVE  inbox'[x].status = "suppressed"
  <2>1. x \notin {m} \cup Group(m)
    BY <1>0, <1>3 DEF DeferActiveInbound, Has
  <2> QED BY <1>3, <2>1 DEF DeferActiveInbound, Requeue
<1>4. ASSUME NEW a \in Attempt, NEW state, FinishSend(a, state)
      PROVE  inbox'[x].status = "suppressed"
  <2> DEFINE M == {y \in {attempt[a].source} :
                     Settles(y, AttemptsOf(attempt[a].source, {"pending", "sending"}) \ {a})}
  <2>1. inbox' = SetInbox(M, "completed")
    BY <1>4 DEF FinishSend, Settles
  <2>2. x \notin M
    BY DEF Settles, Has
  <2> HIDE DEF M
  <2> QED BY <2>1, <2>2 DEF SetInbox
<1>5. ASSUME NEW settled \in SUBSET Message, NEW unacknowledged \in SUBSET Message,
             RecoverStartup(settled, unacknowledged)
      PROVE  inbox'[x].status = "suppressed"
  <2>1. x \notin settled /\ x \notin unacknowledged
    BY <1>5 DEF RecoverStartup, Has
  <2>2. inbox' = [m \in Message |->
          IF m \in settled THEN [inbox[m] EXCEPT !.status = "completed"]
          ELSE Requeue(unacknowledged)[m]]
    BY <1>5 DEF RecoverStartup
  <2> QED BY <2>1, <2>2 DEF Requeue
<1> QED BY <1>1, <1>2, <1>3, <1>4, <1>5

-----------------------------------------------------------------------------
(* Steps that leave the places alone: those of the conversation, of its     *)
(* sessions and of time, and a suppression.                                 *)

LEMMA ConversationPlaces ==
  ASSUME TypeOK, PlacesComeBack,
         \/ \E m \in Message :
              \/ ClaimInbound(m)
              \/ \E p \in Message : BeginInboundSteering(m, p)
              \/ EndInboundSteering(m)
              \/ \E unacknowledged \in SUBSET Group(m) : FailInbound(m, unacknowledged)
              \/ DeferActiveInbound(m)
              \/ MarkInboundIgnored(m)
              \/ FinalizeAgentExecution(m)
         \/ \E m, b \in Message : CreateAgentSession(m, b)
         \/ CloseAgentSession
         \/ \E w \in Message : ExpireWindow(w)
         \/ UNCHANGED vars
  PROVE  PlacesComeBack'
<1>1. window' = window /\ attempt' = attempt /\ lapsed \subseteq lapsed'
  BY DEF ClaimInbound, BeginInboundSteering, EndInboundSteering, FailInbound, DeferActiveInbound,
     MarkInboundIgnored, FinalizeAgentExecution, CreateAgentSession, CloseAgentSession,
     ExpireWindow, vars
<1>2. Suppressed \subseteq Suppressed'
  <2>1. CASE \/ \E m, b \in Message : CreateAgentSession(m, b)
             \/ CloseAgentSession
             \/ \E w \in Message : ExpireWindow(w)
             \/ UNCHANGED vars
    <3>1. inbox' = inbox
      BY <2>1 DEF CreateAgentSession, CloseAgentSession, ExpireWindow, vars
    <3> QED BY <3>1, SuppressionStays
  <2>2. CASE \E m \in Message :
              \/ ClaimInbound(m)
              \/ \E p \in Message : BeginInboundSteering(m, p)
              \/ EndInboundSteering(m)
              \/ \E unacknowledged \in SUBSET Group(m) : FailInbound(m, unacknowledged)
              \/ DeferActiveInbound(m)
              \/ MarkInboundIgnored(m)
              \/ FinalizeAgentExecution(m)
    BY <2>2, SuppressionStays
  <2> QED BY <2>1, <2>2
<1>3. OpenWindows' = OpenWindows
  BY <1>1 DEF OpenWindows
<1>4. ASSUME NEW w \in OpenWindows' \ lapsed' PROVE PlacesAt(w)'
  <2>1. PlacesAt(w)
    BY <1>1, <1>3, <1>4, PlacesOfAll
  <2> QED BY <1>1, <1>2, <2>1, PlacesUntouched
<1> QED BY <1>4, PlacesOfAll

\* The attempts it fails keep their places.
LEMMA SuppressionPlaces ==
  ASSUME IInv, PlacesComeBack, NEW m \in Message, SuppressInbound(m)
  PROVE  PlacesComeBack'
<1>0. TypeOK /\ RowsTellTruth
  BY DEF IInv
<1>1. window' = window /\ lapsed' = lapsed /\ OpenWindows' = OpenWindows
  BY DEF SuppressInbound, OpenWindows
<1>2. Suppressed \subseteq Suppressed'
  BY <1>0, SuppressionStays
<1>3. m \in Suppressed'
  BY <1>0 DEF SuppressInbound, SetInbox, Suppressed, Has, TypeOK, InboundRow
<1>4. PICK A : A = AttemptsOf(m, {"pending"})
  OBVIOUS
<1>5. \A a \in Attempt \ A : attempt'[a] = attempt[a]
  BY <1>4 DEF SuppressInbound, SetAttempts
<1>6. ASSUME NEW a \in A
      PROVE  /\ a \in Attempt
             /\ attempt[a].state = "pending" /\ ~ attempt[a].sent
             /\ attempt'[a].state = "failed" /\ attempt'[a].code = "none"
             /\ ~ attempt'[a].sent
             /\ attempt'[a].window = attempt[a].window
             /\ attempt'[a].source = m
  <2>1. a \in Attempt /\ attempt[a].state = "pending" /\ attempt[a].source = m
    BY <1>4 DEF AttemptsOf
  <2>2. attempt'[a] = [attempt[a] EXCEPT !.state = "failed", !.code = "none"]
    BY <1>4, <2>1 DEF SuppressInbound, SetAttempts
  <2>3. ~ attempt[a].sent
    BY <1>0, <2>1 DEF RowsTellTruth
  <2>4. attempt[a] \in AttemptRow
    BY <1>0, <2>1 DEF TypeOK
  <2>5. /\ attempt'[a].state = "failed" /\ attempt'[a].code = "none"
        /\ attempt'[a].sent = attempt[a].sent
        /\ attempt'[a].window = attempt[a].window
        /\ attempt'[a].source = attempt[a].source
    BY <2>2, <2>4 DEF AttemptRow
  <2> QED BY <2>1, <2>3, <2>5
<1>7. ASSUME NEW w \in OpenWindows' \ lapsed' PROVE PlacesAt(w)'
  <2>1. PlacesAt(w)
    BY <1>1, <1>7, PlacesOfAll
  <2>2. Occupying(w)' = Occupying(w)
    BY <1>5, <1>6 DEF Occupying, Pending, Stranded, AttemptsIn
  <2>3. \A a \in Stranded(w)' : a \in A \/ (a \in Stranded(w) /\ attempt'[a].source = attempt[a].source)
    BY <1>5 DEF Stranded, AttemptsIn
  <2>4. \A a \in Stranded(w)' : attempt'[a].source \in Suppressed'
    <3> SUFFICES ASSUME NEW a \in Stranded(w)' PROVE attempt'[a].source \in Suppressed'
      OBVIOUS
    <3>1. CASE a \in A
      BY <1>3, <1>6, <3>1
    <3>2. CASE a \in Stranded(w) /\ attempt'[a].source = attempt[a].source
      BY <1>2, <2>1, <3>2 DEF PlacesAt
    <3> QED BY <2>3, <3>1, <3>2
  <2>5. window'[w].reserved = Cardinality(Occupying(w)')
    BY <1>1, <2>1, <2>2 DEF PlacesAt
  <2> QED BY <2>4, <2>5 DEF PlacesAt
<1> QED BY <1>7, PlacesOfAll

-----------------------------------------------------------------------------
(* Sends.                                                                   *)

\* A step that writes the row of attempt a disturbs its own window only.
LEMMA PlacesElsewhere ==
  ASSUME PlacesComeBack, NEW a \in Attempt, NEW w,
         attempt[a].window \in {w, NoMessage}, attempt'[a].window = w,
         \A x \in Attempt \ {a} : attempt'[x] = attempt[x],
         \A x \in Message \ {w} : window'[x] = window[x],
         \A x \in Message : window'[x].state = window[x].state,
         Suppressed \subseteq Suppressed', lapsed' = lapsed,
         w \in OpenWindows /\ PlacesAt(w) => PlacesAt(w)'
  PROVE  PlacesComeBack'
<1>1. OpenWindows' = OpenWindows
  BY DEF OpenWindows
<1>2. ASSUME NEW x \in OpenWindows' \ lapsed' PROVE PlacesAt(x)'
  <2>1. PlacesAt(x) /\ x \in Message
    BY <1>1, <1>2, PlacesOfAll DEF OpenWindows
  <2>2. CASE x = w
    BY <1>1, <1>2, <2>1, <2>2
  <2>3. CASE x # w
    <3>1. window'[x].reserved = window[x].reserved
      BY <2>1, <2>3
    <3>2. a \notin Occupying(x) /\ a \notin Occupying(x)'
      BY <2>1, <2>3, MessageAssumption DEF Occupying, Pending, Stranded, AttemptsIn
    <3> QED BY <2>1, <3>1, <3>2, PlacesUntouched
  <2> QED BY <2>2, <2>3
<1> QED BY <1>2, PlacesOfAll

LEMMA PreparationPlaces ==
  ASSUME IInv, PlacesComeBack, NEW a \in Attempt, PrepareReplyAttempt(a)
  PROVE  PlacesComeBack'
<1>0. TypeOK /\ FiniteLedger /\ RowsTellTruth
  BY DEF IInv
<1>1. PICK w \in Message :
        /\ attempt[a] = NoAttempt
        /\ attempt'[a].state = "pending"
        /\ attempt'[a].window = w
        /\ \A x \in Attempt \ {a} : attempt'[x] = attempt[x]
        /\ window'[w].reserved = window[w].reserved + 1
        /\ \A x \in Message \ {w} : window'[x] = window[x]
        /\ \A x \in Message : window'[x].state = window[x].state
  BY <1>0, PreparedRow
<1>2. inbox' = inbox /\ lapsed' = lapsed
  BY DEF PrepareReplyAttempt
<1>3. Suppressed \subseteq Suppressed'
  BY <1>0, <1>2, SuppressionStays
<1>4. ASSUME PlacesAt(w) PROVE PlacesAt(w)'
  <2>1. a \notin Occupying(w)
    BY <1>1, NoAttemptFacts DEF Occupying, Pending, Stranded, AttemptsIn
  <2>2. Occupying(w)' = Occupying(w) \cup {a}
    BY <1>1, NoAttemptFacts DEF Occupying, Pending, Stranded, AttemptsIn
  <2>3. Cardinality(Occupying(w)') = Cardinality(Occupying(w)) + 1
    BY <1>0, <2>1, <2>2, OccupyingFinite, FS_AddElement
  <2>4. \A x \in Stranded(w)' : x \in Stranded(w) /\ attempt'[x].source = attempt[x].source
    BY <1>1 DEF Stranded, AttemptsIn
  <2> QED BY <1>1, <1>3, <1>4, <2>3, <2>4 DEF PlacesAt
<1>5. attempt[a].window = NoMessage
  BY <1>1, NoAttemptFacts
<1> QED BY <1>1, <1>2, <1>3, <1>4, <1>5, PlacesElsewhere

\* Neither a refusal nor a notice nor an outcome has a place.
LEMMA OutcomePlaces ==
  ASSUME IInv, PlacesComeBack, NEW a \in Attempt,
         \/ RejectReplyAttempt(a)
         \/ \E m \in Message, kind \in SystemKind : ReserveStartedSystemAttempt(m, a, kind)
         \/ \E state \in SettledState : FinishSend(a, state)
  PROVE  PlacesComeBack'
<1>0. TypeOK /\ RowsTellTruth
  BY DEF IInv
<1>1. CASE RejectReplyAttempt(a)
  <2>1. NewAttempt(a, "failed", "not_transmitted", "mcp_tool", session.source, session.boundary)
    BY <1>1 DEF RejectReplyAttempt
  <2>2. /\ attempt[a] = NoAttempt
        /\ attempt'[a].state = "failed"
        /\ attempt'[a].code = "not_transmitted"
        /\ attempt'[a].window = session.boundary
        /\ \A x \in Attempt \ {a} : attempt'[x] = attempt[x]
    BY <1>0, <2>1, NewRow
  <2>3. window' = window /\ inbox' = inbox /\ lapsed' = lapsed
    BY <1>1 DEF RejectReplyAttempt
  <2>4. Suppressed \subseteq Suppressed'
    BY <1>0, <2>3, SuppressionStays
  <2>5. \A w : a \notin Occupying(w) /\ a \notin Occupying(w)'
    BY <2>2, NoAttemptFacts DEF Occupying, Pending, Stranded, AttemptsIn
  <2>6. attempt[a].window = NoMessage
    BY <2>2, NoAttemptFacts
  <2> QED BY <2>2, <2>3, <2>4, <2>5, <2>6, PlacesElsewhere, PlacesUntouched
<1>2. ASSUME NEW w \in Message, NEW kind \in SystemKind, ReserveStartedSystemAttempt(w, a, kind)
      PROVE  PlacesComeBack'
  <2>1. NewAttempt(a, "sending", "none", kind, w, w)
    BY <1>2 DEF ReserveStartedSystemAttempt
  <2>2. /\ attempt[a] = NoAttempt
        /\ attempt'[a].state = "sending"
        /\ attempt'[a].window = w
        /\ \A x \in Attempt \ {a} : attempt'[x] = attempt[x]
    BY <1>0, <2>1, NewRow
  <2>3. inbox' = inbox /\ lapsed' = lapsed
    BY <1>2 DEF ReserveStartedSystemAttempt
  <2>4. Suppressed \subseteq Suppressed'
    BY <1>0, <2>3, SuppressionStays
  <2>5. \A x : a \notin Occupying(x) /\ a \notin Occupying(x)'
    BY <2>2, NoAttemptFacts DEF Occupying, Pending, Stranded, AttemptsIn
  <2>6. PICK row : row = [window[w] EXCEPT !.transmitted = @ + 1]
    OBVIOUS
  <2>7. row.state = window[w].state /\ row.reserved = window[w].reserved
    BY <1>0, <2>6 DEF TypeOK, WindowRow
  <2>8. window' = [window EXCEPT ![w] = row]
    BY <1>2, <2>6 DEF ReserveStartedSystemAttempt
  <2>9. /\ window'[w].reserved = window[w].reserved
        /\ \A x \in Message \ {w} : window'[x] = window[x]
        /\ \A x \in Message : window'[x].state = window[x].state
    BY <1>0, <2>7, <2>8, CounterStep
  <2>10. attempt[a].window = NoMessage
    BY <2>2, NoAttemptFacts
  <2> QED BY <2>2, <2>3, <2>4, <2>5, <2>9, <2>10, PlacesElsewhere, PlacesUntouched
<1>3. ASSUME NEW state \in SettledState, FinishSend(a, state)
      PROVE  PlacesComeBack'
  <2>1. window' = window /\ lapsed' = lapsed
    BY <1>3 DEF FinishSend
  <2>2. Suppressed \subseteq Suppressed'
    BY <1>0, <1>3, SuppressionStays
  <2>3. attempt[a].state = "sending" /\ attempt[a].sent /\ attempt[a] \in AttemptRow
    BY <1>0, <1>3 DEF FinishSend, RowsTellTruth, TypeOK
  <2>4. attempt'[a] = [attempt[a] EXCEPT !.state = state, !.code = "none"]
    BY <1>3 DEF FinishSend, SetAttempts
  <2>5. attempt'[a].state = state /\ attempt'[a].sent /\ attempt'[a].window = attempt[a].window
    BY <2>3, <2>4 DEF AttemptRow
  <2>6. \A x \in Attempt \ {a} : attempt'[x] = attempt[x]
    BY <1>3 DEF FinishSend, SetAttempts
  <2>7. \A x : a \notin Occupying(x) /\ a \notin Occupying(x)'
    BY <2>3, <2>5 DEF Occupying, Pending, Stranded, AttemptsIn, SettledState
  <2> QED BY <2>1, <2>2, <2>5, <2>6, <2>7, PlacesElsewhere, PlacesUntouched
<1> QED BY <1>1, <1>2, <1>3

\* A send that starts, or is released, gives its place back.
LEMMA ReleasePlaces ==
  ASSUME IInv, PlacesComeBack, NEW a \in Attempt,
         StartReplyAttempt(a) \/ ReleasePendingAttempt(a)
  PROVE  PlacesComeBack'
<1>0. TypeOK /\ FiniteLedger /\ RowsTellTruth
  BY DEF IInv
<1>1. PICK w \in Message \cup {NoMessage} :
        /\ attempt[a].state = "pending" /\ attempt[a].window = w
        /\ \/ attempt'[a].state = "sending"
           \/ attempt'[a].state = "failed" /\ attempt'[a].code = "not_transmitted"
        /\ attempt'[a].window = w
        /\ \A x \in Attempt \ {a} : attempt'[x] = attempt[x]
        /\ w \in Message => window'[w].reserved = window[w].reserved - 1
        /\ \A x \in Message \ {w} : window'[x] = window[x]
        /\ \A x \in Message : window'[x].state = window[x].state
  <2>1. CASE StartReplyAttempt(a)
    <3>1. PICK w \in Message :
            /\ attempt[a].state = "pending" /\ attempt[a].window = w
            /\ attempt'[a].state = "sending"
            /\ attempt'[a].window = w
            /\ \A x \in Attempt \ {a} : attempt'[x] = attempt[x]
            /\ window'[w].reserved = window[w].reserved - 1
            /\ \A x \in Message \ {w} : window'[x] = window[x]
            /\ \A x \in Message : window'[x].state = window[x].state
      BY <1>0, <2>1, StartedRow
    <3> QED BY <3>1
  <2>2. CASE ReleasePendingAttempt(a)
    <3>1. PICK w \in Message \cup {NoMessage} :
            /\ attempt[a].state = "pending" /\ attempt[a].window = w
            /\ attempt'[a].state = "failed" /\ attempt'[a].code = "not_transmitted"
            /\ attempt'[a].window = w
            /\ \A x \in Attempt \ {a} : attempt'[x] = attempt[x]
            /\ w \in Message => window'[w].reserved = window[w].reserved - 1
            /\ \A x \in Message \ {w} : window'[x] = window[x]
            /\ \A x \in Message : window'[x].state = window[x].state
      BY <1>0, <2>2, ReleasedRow
    <3> QED BY <3>1
  <2> QED BY <2>1, <2>2
<1>2. inbox' = inbox /\ lapsed' = lapsed
  BY DEF StartReplyAttempt, ReleasePendingAttempt
<1>3. Suppressed \subseteq Suppressed'
  BY <1>0, <1>2, SuppressionStays
<1>4. ASSUME w \in OpenWindows, PlacesAt(w) PROVE PlacesAt(w)'
  <2>1. w \in Message
    BY <1>4 DEF OpenWindows
  <2>2. {a} \subseteq Pending(w)
    BY <1>1 DEF Pending, AttemptsIn
  <2>3. {a} \cap Occupying(w)' = {}
    BY <1>1 DEF Occupying, Pending, Stranded, AttemptsIn
  <2>4. window'[w].reserved = window[w].reserved - Cardinality({a})
    BY <1>1, <2>1, FS_Singleton
  <2> QED BY <1>0, <1>1, <1>3, <1>4, <2>1, <2>2, <2>3, <2>4, PlacesReturned
<1> QED BY <1>1, <1>2, <1>3, <1>4, PlacesElsewhere

-----------------------------------------------------------------------------
(* Account changes, retention and restarts.                                 *)

LEMMA NoOpenWindows ==
  ASSUME TypeOK, RotateAccount \/ DeleteAccount
  PROVE  OpenWindows' = {}
<1>1. CASE RotateAccount
  <2>1. ASSUME NEW w \in Message PROVE window'[w].state # "open"
    <3>1. CASE w \in OpenWindows
      <4>1. window'[w] = [window[w] EXCEPT !.state = "cancelled", !.reserved = 0]
        BY <1>1, <3>1 DEF RotateAccount, OpenWindows
      <4>2. window[w] \in WindowRow
        BY DEF TypeOK
      <4> QED BY <4>1, <4>2 DEF WindowRow
    <3>2. CASE w \notin OpenWindows
      BY <1>1, <3>2 DEF RotateAccount, OpenWindows
    <3> QED BY <3>1, <3>2
  <2> QED BY <2>1 DEF OpenWindows
<1>2. CASE DeleteAccount
  <2>1. [NoWindow EXCEPT !.state = "deleted"].state = "deleted"
    BY DEF NoWindow
  <2>2. window' = [m \in Message |-> IF window[m].state = "none" THEN window[m]
                                    ELSE [NoWindow EXCEPT !.state = "deleted"]]
    BY <1>2 DEF DeleteAccount
  <2>3. ASSUME NEW w \in Message PROVE window'[w].state # "open"
    <3>1. CASE window[w].state = "none"
      BY <2>2, <3>1
    <3>2. CASE window[w].state # "none"
      <4>1. window'[w] = [NoWindow EXCEPT !.state = "deleted"]
        BY <2>2, <3>2
      <4> QED BY <2>1, <4>1
    <3> QED BY <3>1, <3>2
  <2> QED BY <2>3 DEF OpenWindows
<1> QED BY <1>1, <1>2

\* Retention drops rows of lapsed and closed windows only.
LEMMA CleanupPlaces ==
  ASSUME IInv, PlacesComeBack, NEW old \in SUBSET Attempt, Cleanup(old)
  PROVE  PlacesComeBack'
<1>0. TypeOK
  BY DEF IInv
<1>1. inbox' = inbox /\ lapsed' = lapsed
  BY DEF Cleanup
<1>2. Suppressed \subseteq Suppressed'
  BY <1>0, <1>1, SuppressionStays
<1>3. ASSUME NEW w \in OpenWindows' \ lapsed' PROVE PlacesAt(w)'
  <2>1. w \in Message /\ w \notin lapsed /\ window'[w] = window[w]
    BY <1>1, <1>3 DEF OpenWindows, Cleanup, Closable
  <2>2. w \in OpenWindows \ lapsed
    BY <1>3, <2>1 DEF OpenWindows
  <2>3. PlacesAt(w)
    BY <2>2, PlacesOfAll
  <2>4. ASSUME NEW a \in Attempt
        PROVE  \/ attempt'[a] = attempt[a]
               \/ a \notin Occupying(w) /\ a \notin Occupying(w)'
    <3>1. CASE a \in old /\ attempt[a].state # "none"
      <4>1. attempt[a].window # w
        BY <2>1, <2>2, <3>1 DEF Cleanup, OpenWindows
      <4>2. attempt'[a] = [NoAttempt EXCEPT !.state = "deleted", !.sent = attempt[a].sent,
                                            !.window = attempt[a].window]
        BY <3>1 DEF Cleanup, DeleteAttempts
      <4>3. attempt'[a].window = attempt[a].window
        BY <4>2 DEF NoAttempt
      <4> QED BY <4>1, <4>3 DEF Occupying, Pending, Stranded, AttemptsIn
    <3>2. CASE ~ (a \in old /\ attempt[a].state # "none")
      BY <3>2 DEF Cleanup, DeleteAttempts
    <3> QED BY <3>1, <3>2
  <2> QED BY <1>2, <2>1, <2>3, <2>4, PlacesUntouched
<1> QED BY <1>3, PlacesOfAll

\* An interrupted send gave its place back when it started.
LEMMA StartupPlaces ==
  ASSUME IInv, PlacesComeBack,
         NEW settled \in SUBSET Message, NEW unacknowledged \in SUBSET Message,
         RecoverStartup(settled, unacknowledged)
  PROVE  PlacesComeBack'
<1>0. TypeOK
  BY DEF IInv
<1>1. window' = window /\ lapsed' = lapsed /\ OpenWindows' = OpenWindows
  BY DEF RecoverStartup, OpenWindows
<1>2. Suppressed \subseteq Suppressed'
  BY <1>0, SuppressionStays
<1>3. attempt' = SetAttempts(Sending, "uncertain", "startup_recovery")
  BY DEF RecoverStartup
<1>4. ASSUME NEW a \in Attempt, NEW w
      PROVE  \/ attempt'[a] = attempt[a]
             \/ a \notin Occupying(w) /\ a \notin Occupying(w)'
  <2>1. CASE a \in Sending
    <3>1. attempt'[a] = [attempt[a] EXCEPT !.state = "uncertain", !.code = "startup_recovery"]
      BY <1>3, <2>1 DEF SetAttempts
    <3>2. attempt[a] \in AttemptRow /\ attempt[a].state = "sending"
      BY <1>0, <2>1 DEF TypeOK, Sending
    <3>3. attempt'[a].state = "uncertain"
      BY <3>1, <3>2 DEF AttemptRow
    <3> QED BY <3>2, <3>3 DEF Occupying, Pending, Stranded, AttemptsIn
  <2>2. CASE a \notin Sending
    BY <1>3, <2>2 DEF SetAttempts
  <2> QED BY <2>1, <2>2
<1>5. ASSUME NEW w \in OpenWindows' \ lapsed' PROVE PlacesAt(w)'
  <2>1. PlacesAt(w)
    BY <1>1, <1>5, PlacesOfAll
  <2> QED BY <1>1, <1>2, <1>4, <2>1, PlacesUntouched
<1> QED BY <1>5, PlacesOfAll

\* What was reserved and not started gives its places back.
LEMMA RecoveryPlaces ==
  ASSUME IInv, PlacesComeBack, RecoverPendingAttempts
  PROVE  PlacesComeBack'
<1>0. TypeOK /\ FiniteLedger
  BY DEF IInv
<1>1. inbox' = inbox /\ lapsed' = lapsed
  BY DEF RecoverPendingAttempts
<1>2. Suppressed \subseteq Suppressed'
  BY <1>0, <1>1, SuppressionStays
<1>3. ASSUME NEW w \in Message
      PROVE  /\ window'[w].state = window[w].state
             /\ window'[w].reserved = window[w].reserved - Cardinality(Pending(w))
  <2>1. window'[w] = [window[w] EXCEPT !.reserved = @ - Cardinality(Pending(w))]
    BY DEF RecoverPendingAttempts
  <2>2. window[w] \in WindowRow
    BY <1>0 DEF TypeOK
  <2> QED BY <2>1, <2>2 DEF WindowRow
<1>4. OpenWindows' = OpenWindows
  BY <1>3 DEF OpenWindows
<1>5. PICK P : P = UNION {Pending(w) : w \in Message}
  OBVIOUS
<1>6. attempt' = SetAttempts(P, "failed", "not_transmitted")
  BY <1>5 DEF RecoverPendingAttempts
<1>7. \A a \in Attempt \ P : attempt'[a] = attempt[a]
  BY <1>6 DEF SetAttempts
<1>8. ASSUME NEW a \in Attempt, a \in P
      PROVE  /\ attempt'[a].state = "failed" /\ attempt'[a].code = "not_transmitted"
             /\ attempt'[a].window = attempt[a].window /\ attempt[a].state = "pending"
  <2>1. attempt'[a] = [attempt[a] EXCEPT !.state = "failed", !.code = "not_transmitted"]
    BY <1>6, <1>8 DEF SetAttempts
  <2>2. attempt[a] \in AttemptRow
    BY <1>0 DEF TypeOK
  <2>3. attempt[a].state = "pending"
    BY <1>5, <1>8 DEF Pending, AttemptsIn
  <2> QED BY <2>1, <2>2, <2>3 DEF AttemptRow
<1>9. ASSUME NEW w \in OpenWindows' \ lapsed' PROVE PlacesAt(w)'
  <2>1. PlacesAt(w) /\ w \in Message
    BY <1>1, <1>4, <1>9, PlacesOfAll DEF OpenWindows
  <2>2. PICK R : R = Pending(w)
    OBVIOUS
  <2>3. R \subseteq P
    BY <1>5, <2>1, <2>2
  <2>4. R \cap Occupying(w)' = {}
    BY <1>8, <2>2, <2>3 DEF Occupying, Pending, Stranded, AttemptsIn
  <2>5. ASSUME NEW a \in Attempt
        PROVE  a \in R \/ attempt'[a] = attempt[a] \/ a \notin Occupying(w) \cup Occupying(w)'
    <3>1. CASE a \notin P
      BY <1>7, <3>1
    <3>2. CASE a \in P
      BY <1>8, <2>2, <3>2 DEF Occupying, Pending, Stranded, AttemptsIn
    <3> QED BY <3>1, <3>2
  <2>6. R \subseteq Pending(w) /\ window'[w].reserved = window[w].reserved - Cardinality(R)
    BY <1>3, <2>1, <2>2
  <2> QED BY <1>0, <1>2, <2>1, <2>4, <2>5, <2>6, PlacesReturned
<1> QED BY <1>9, PlacesOfAll

-----------------------------------------------------------------------------
(* A polled page: its own window is fresh, and the one it retires is not    *)
(* open any more.                                                           *)

LEMMA CommitPlaces ==
  ASSUME IInv, PlacesComeBack, NEW page \in Page, NEW owner \in Message,
         CommitPollPage(page, owner)
  PROVE  PlacesComeBack'
<1>0. TypeOK /\ WindowsAreFresh
  BY DEF IInv
<1>1. PICK fresh : fresh = {page[i] : i \in Fresh(page)}
  OBVIOUS
<1>2. PICK retired : retired = IF owner \in fresh THEN OpenWindows ELSE {}
  OBVIOUS
<1>3. PICK P : P = UNION {Pending(w) : w \in retired}
  OBVIOUS
<1>4. attempt' = SetAttempts(P, "failed", "none")
  BY <1>1, <1>2, <1>3 DEF CommitPollPage, Retired
<1>5. window' = [m \in Message |->
        IF m \in fresh
        THEN [state |-> IF m = owner THEN "open" ELSE "superseded",
              generation |-> account.generation, reserved |-> 0, transmitted |-> 0]
        ELSE IF m \in retired
        THEN [window[m] EXCEPT !.state = "superseded", !.reserved = 0]
        ELSE window[m]]
  BY <1>1, <1>2 DEF CommitPollPage, Retired
<1>6. account.active /\ lapsed' = lapsed
  BY DEF CommitPollPage
<1>7. \A m \in fresh : /\ m \in Message
                       /\ Has(m, {"absent"})
                       /\ \A a \in Attempt : attempt[a].window # m
  BY <1>0, <1>1, <1>6, FreshMessages DEF WindowsAreFresh
<1>8. \A a \in Attempt : attempt'[a].window = attempt[a].window
  BY <1>0, <1>4 DEF SetAttempts, TypeOK, AttemptRow
<1>9. Suppressed \subseteq Suppressed'
  <2>1. inbox' = [x \in Message |->
          IF x \in fresh
          THEN [status |-> IF x = owner THEN "received" ELSE "absorbed",
                seq |-> lastSeq + (CHOOSE i \in Fresh(page) : page[i] = x),
                primary |-> NoMessage]
          ELSE IF owner \in fresh /\ Has(x, {"received"})
          THEN [inbox[x] EXCEPT !.status = "absorbed"]
          ELSE inbox[x]]
    BY <1>1 DEF CommitPollPage, Merged
  <2>2. ASSUME NEW x \in Suppressed PROVE x \in Suppressed'
    <3>1. x \in Message /\ inbox[x].status = "suppressed"
      BY DEF Suppressed, Has
    <3>2. x \notin fresh /\ ~ Has(x, {"received"})
      BY <1>7, <3>1 DEF Has
    <3>3. inbox'[x] = inbox[x]
      BY <2>1, <3>1, <3>2
    <3> QED BY <3>1, <3>3 DEF Suppressed, Has
  <2> QED BY <2>2
<1>10. ASSUME NEW w \in OpenWindows' \ lapsed' PROVE PlacesAt(w)'
  <2>1. w \in Message /\ window'[w].state = "open" /\ w \notin lapsed
    BY <1>6, <1>10 DEF OpenWindows
  <2>2. CASE w \in fresh
    <3>1. window'[w].reserved = 0
      BY <1>5, <2>1, <2>2
    <3>2. Occupying(w)' = {} /\ Stranded(w)' = {}
      BY <1>7, <1>8, <2>2 DEF Occupying, Pending, Stranded, AttemptsIn
    <3> QED BY <3>1, <3>2, FS_EmptySet DEF PlacesAt
  <2>3. CASE w \notin fresh
    <3>1. w \notin retired
      <4>1. SUFFICES ASSUME w \in retired PROVE FALSE
        OBVIOUS
      <4>2. window'[w] = [window[w] EXCEPT !.state = "superseded", !.reserved = 0]
        BY <1>5, <2>1, <2>3, <4>1
      <4>3. window[w] \in WindowRow
        BY <1>0, <2>1 DEF TypeOK
      <4> QED BY <2>1, <4>2, <4>3 DEF WindowRow
    <3>2. window'[w] = window[w]
      BY <1>5, <2>1, <2>3, <3>1
    <3>3. PlacesAt(w)
      BY <2>1, <3>2, PlacesOfAll DEF OpenWindows
    <3>4. ASSUME NEW a \in Attempt
          PROVE  \/ attempt'[a] = attempt[a]
                 \/ a \notin Occupying(w) /\ a \notin Occupying(w)'
      <4>1. CASE a \in P
        <5>1. attempt[a].window # w
          BY <1>3, <3>1, <4>1 DEF Pending, AttemptsIn
        <5> QED BY <1>8, <5>1 DEF Occupying, Pending, Stranded, AttemptsIn
      <4>2. CASE a \notin P
        BY <1>4, <4>2 DEF SetAttempts
      <4> QED BY <4>1, <4>2
    <3> QED BY <1>9, <3>2, <3>3, <3>4, PlacesUntouched
  <2> QED BY <2>2, <2>3
<1> QED BY <1>10, PlacesOfAll

-----------------------------------------------------------------------------

LEMMA PlacesInit == Init => PlacesComeBack
  BY DEF Init, PlacesComeBack, OpenWindows, NoWindow

LEMMA PlacesStep ==
  ASSUME IInv, PlacesComeBack, [Next]_vars
  PROVE  PlacesComeBack'
<1>0. TypeOK
  BY DEF IInv
<1>1. CASE \E page \in Page, owner \in Message : CommitPollPage(page, owner)
  BY <1>1, CommitPlaces
<1>2. CASE RotateAccount \/ DeleteAccount
  BY <1>0, <1>2, NoOpenWindows, PlacesOfAll
<1>3. CASE \/ \E m \in Message :
                \/ ClaimInbound(m)
                \/ \E p \in Message : BeginInboundSteering(m, p)
                \/ EndInboundSteering(m)
                \/ \E unacknowledged \in SUBSET Group(m) : FailInbound(m, unacknowledged)
                \/ DeferActiveInbound(m)
                \/ MarkInboundIgnored(m)
                \/ FinalizeAgentExecution(m)
           \/ \E m, b \in Message : CreateAgentSession(m, b)
           \/ CloseAgentSession
           \/ \E w \in Message : ExpireWindow(w)
           \/ UNCHANGED vars
  BY <1>0, <1>3, ConversationPlaces
<1>4. ASSUME NEW m \in Message, SuppressInbound(m) PROVE PlacesComeBack'
  BY <1>4, SuppressionPlaces
<1>5. ASSUME NEW a \in Attempt,
             \/ PrepareReplyAttempt(a)
             \/ RejectReplyAttempt(a)
             \/ StartReplyAttempt(a)
             \/ ReleasePendingAttempt(a)
             \/ \E m \in Message, kind \in SystemKind : ReserveStartedSystemAttempt(m, a, kind)
             \/ \E state \in SettledState : FinishSend(a, state)
      PROVE  PlacesComeBack'
  BY <1>5, PreparationPlaces, OutcomePlaces, ReleasePlaces
<1>6. CASE \/ \E old \in SUBSET Attempt : Cleanup(old)
           \/ \E settled, unacknowledged \in SUBSET Message :
                RecoverStartup(settled, unacknowledged)
           \/ RecoverPendingAttempts
  BY <1>6, CleanupPlaces, StartupPlaces, RecoveryPlaces
<1> QED BY <1>1, <1>2, <1>3, <1>4, <1>5, <1>6 DEF Next

\* Whatever happens between a reservation and its end, the place comes back while the window
\* can still be used, unless the message was suppressed: releasePendingAttempt,
\* startReplyAttempt and recoverPendingAttempts give it back, #suppressGroup alone does not.
THEOREM PlacesAlwaysComeBack == Spec => []PlacesComeBack
<1>1. Init => IInv /\ PlacesComeBack
  BY IInvInit, PlacesInit
<1>2. (IInv /\ PlacesComeBack) /\ [Next]_vars => (IInv /\ PlacesComeBack)'
  BY IInvStep, PlacesStep
<1> QED BY <1>1, <1>2, PTL DEF Spec

-----------------------------------------------------------------------------
(* Turns: the inductive invariant TurnInv.                                 *)

SeqBounded == \A m \in Message : inbox[m].seq <= lastSeq

\* Whatever came after the owner of the open window was merged into it.
OwnerIsNewest ==
  \A w \in OpenWindows, x \in Message : inbox[x].seq > inbox[w].seq => Has(x, {"absorbed"})

SessionHasWindow ==
  session # NoSession => window[session.boundary].state = "open" \/ session.boundary \in lapsed

TurnInv ==
  /\ SeqBounded
  /\ OwnerIsNewest
  /\ OwnerIsDelivered
  /\ SessionHasWindow

-----------------------------------------------------------------------------
(* The transitions of the inbox.                                           *)

\* Rows keep their place, absorbed ones stay, and those absorbed now had joined a turn.
InboxSteady ==
  \A m \in Message :
    /\ inbox'[m].seq = inbox[m].seq
    /\ Has(m, {"absorbed"}) => inbox'[m] = inbox[m]
    /\ inbox'[m].status = "absorbed" /\ ~Has(m, {"absorbed"}) => inbox'[m].primary # NoMessage

LEMMA SetInboxSteady ==
  ASSUME TypeOK, NEW M, \A m \in M : ~Has(m, {"absorbed"}),
         NEW status, status # "absorbed", inbox' = SetInbox(M, status)
  PROVE  InboxSteady
  BY DEF InboxSteady, SetInbox, Has, TypeOK, InboundRow

LEMMA RequeueSteady ==
  ASSUME TypeOK, NEW M, \A m \in M : ~Has(m, {"absorbed"}), inbox' = Requeue(M)
  PROVE  InboxSteady
  BY DEF InboxSteady, Requeue, Has, TypeOK, InboundRow

LEMMA GroupJoined ==
  ASSUME NEW m \in Message
  PROVE  \A x \in Group(m) : x \in Message /\ inbox[x].primary = m /\ ~Has(x, {"absorbed"})
  BY DEF Group, Has

LEMMA InboxTransitions ==
  ASSUME TypeOK, NEW m \in Message,
         \/ ClaimInbound(m)
         \/ \E p \in Message : BeginInboundSteering(m, p)
         \/ EndInboundSteering(m)
         \/ \E unacknowledged \in SUBSET Group(m) : FailInbound(m, unacknowledged)
         \/ DeferActiveInbound(m)
         \/ MarkInboundIgnored(m)
         \/ SuppressInbound(m)
         \/ FinalizeAgentExecution(m)
  PROVE  InboxSteady
<1>1. CASE ClaimInbound(m)
  BY <1>1, SetInboxSteady DEF ClaimInbound, Has
<1>2. CASE \E p \in Message : BeginInboundSteering(m, p)
  <2>1. PICK p \in Message : BeginInboundSteering(m, p)
    BY <1>2
  <2>2. /\ inbox' = [inbox EXCEPT ![m].status = "steering", ![m].primary = p]
        /\ ~Has(m, {"absorbed"})
    BY <2>1 DEF BeginInboundSteering, Has
  <2> QED BY <2>2 DEF InboxSteady, Has, TypeOK, InboundRow
<1>3. CASE EndInboundSteering(m)
  <2>1. ~Has(m, {"absorbed"}) /\ (inbox' = SetInbox({m}, "steered") \/ inbox' = Requeue({m}))
    BY <1>3 DEF EndInboundSteering, Has
  <2> QED BY <2>1, SetInboxSteady, RequeueSteady
<1>4. CASE \E unacknowledged \in SUBSET Group(m) : FailInbound(m, unacknowledged)
  <2>1. PICK unacknowledged \in SUBSET Group(m) : FailInbound(m, unacknowledged)
    BY <1>4
  <2>2. \A x \in unacknowledged : ~Has(x, {"absorbed"})
    BY GroupJoined
  <2> QED BY <2>1, <2>2 DEF FailInbound, Requeue, InboxSteady, Has, TypeOK, InboundRow
<1>5. CASE DeferActiveInbound(m)
  <2>1. \A x \in {m} \cup Group(m) : ~Has(x, {"absorbed"})
    BY <1>5, GroupJoined DEF DeferActiveInbound, Has
  <2> QED BY <1>5, <2>1, RequeueSteady DEF DeferActiveInbound
<1>6. CASE MarkInboundIgnored(m)
  BY <1>6, SetInboxSteady DEF MarkInboundIgnored, Has
<1>7. CASE SuppressInbound(m)
  <2> DEFINE M == {x \in {m} \cup Group(m) : Has(x, LiveStatus)}
  <2>1. \A x \in M : ~Has(x, {"absorbed"})
    BY DEF Has, LiveStatus
  <2>2. inbox' = SetInbox(M, "suppressed")
    BY <1>7 DEF SuppressInbound
  <2> HIDE DEF M
  <2> QED BY <2>1, <2>2, SetInboxSteady
<1>8. CASE FinalizeAgentExecution(m)
  <2>1. m # NoMessage /\ ~Has(m, {"absorbed"})
    BY <1>8, MessageAssumption DEF FinalizeAgentExecution, Has
  <2>2. inbox' = [x \in Message |->
          IF x = m THEN [inbox[x] EXCEPT !.status = "completed"]
          ELSE IF x \in Group(m) THEN [inbox[x] EXCEPT !.status = "absorbed"]
          ELSE inbox[x]]
    BY <1>8 DEF FinalizeAgentExecution
  <2> QED BY <2>1, <2>2, GroupJoined DEF InboxSteady, Has, TypeOK, InboundRow
<1> QED BY <1>1, <1>2, <1>3, <1>4, <1>5, <1>6, <1>7, <1>8

\* While no window opens, a steady inbox keeps what is said of its rows.
LEMMA SteadyKeeps ==
  ASSUME SeqBounded, OwnerIsNewest, OwnerIsDelivered, InboxSteady, lastSeq' = lastSeq,
         OpenWindows' \subseteq OpenWindows
  PROVE  SeqBounded' /\ OwnerIsNewest' /\ OwnerIsDelivered'
<1>1. SeqBounded'
  BY DEF SeqBounded, InboxSteady
<1>2. OwnerIsNewest'
  <2> SUFFICES ASSUME NEW w \in OpenWindows', NEW x \in Message, inbox'[x].seq > inbox'[w].seq
               PROVE  Has(x, {"absorbed"})'
    BY DEF OwnerIsNewest
  <2>1. w \in OpenWindows /\ w \in Message
    BY DEF OpenWindows
  <2>2. inbox[x].seq > inbox[w].seq
    BY <2>1 DEF InboxSteady
  <2>3. Has(x, {"absorbed"})
    BY <2>1, <2>2 DEF OwnerIsNewest
  <2> QED BY <2>3 DEF InboxSteady, Has
<1>3. OwnerIsDelivered'
  <2> SUFFICES ASSUME NEW m \in OpenWindows', Has(m, {"absorbed"})'
               PROVE  inbox'[m].primary # NoMessage
    BY DEF OwnerIsDelivered
  <2>1. m \in OpenWindows /\ m \in Message
    BY DEF OpenWindows
  <2> QED BY <2>1 DEF OwnerIsDelivered, InboxSteady, Has
<1> QED BY <1>1, <1>2, <1>3

\* A session keeps its window while states stay and windows lapse.
LEMMA SessionKept ==
  ASSUME TypeOK, SessionHasWindow, session' \in {session, NoSession},
         lapsed \subseteq lapsed', \A w \in Message : window'[w].state = window[w].state
  PROVE  SessionHasWindow' /\ OpenWindows' \subseteq OpenWindows
<1>1. session # NoSession => session.boundary \in Message
  BY DEF TypeOK, SessionRow
<1> QED BY <1>1 DEF SessionHasWindow, OpenWindows

-----------------------------------------------------------------------------
(* The steps.                                                              *)

LEMMA ConversationTurns ==
  ASSUME TypeOK, TurnInv, NEW m \in Message,
         \/ ClaimInbound(m)
         \/ \E p \in Message : BeginInboundSteering(m, p)
         \/ EndInboundSteering(m)
         \/ \E unacknowledged \in SUBSET Group(m) : FailInbound(m, unacknowledged)
         \/ DeferActiveInbound(m)
         \/ MarkInboundIgnored(m)
         \/ SuppressInbound(m)
         \/ FinalizeAgentExecution(m)
  PROVE  TurnInv'
<1>1. InboxSteady
  BY InboxTransitions
<1>2. lastSeq' = lastSeq /\ window' = window /\ lapsed' = lapsed /\ session' \in {session, NoSession}
  BY DEF ClaimInbound, BeginInboundSteering, EndInboundSteering, FailInbound, DeferActiveInbound,
     MarkInboundIgnored, SuppressInbound, FinalizeAgentExecution, CloseSessionIf
<1>3. SessionHasWindow' /\ OpenWindows' \subseteq OpenWindows
  BY <1>2, SessionKept DEF TurnInv
<1> QED BY <1>1, <1>2, <1>3, SteadyKeeps DEF TurnInv

\* A new session has the window it was created for.
LEMMA SessionTurns ==
  ASSUME TypeOK, TurnInv,
         \/ \E m, b \in Message : CreateAgentSession(m, b)
         \/ CloseAgentSession
         \/ \E w \in Message : ExpireWindow(w)
         \/ UNCHANGED vars
  PROVE  TurnInv'
<1>1. inbox' = inbox /\ lastSeq' = lastSeq /\ window' = window /\ lapsed \subseteq lapsed'
  BY DEF CreateAgentSession, CloseAgentSession, ExpireWindow, vars
<1>2. InboxSteady /\ OpenWindows' \subseteq OpenWindows
  BY <1>1 DEF InboxSteady, OpenWindows, Has
<1>3. SessionHasWindow'
  <2>1. CASE \E m, b \in Message : CreateAgentSession(m, b)
    BY <2>1 DEF CreateAgentSession, SessionHasWindow
  <2>2. CASE session' \in {session, NoSession}
    BY <1>1, <2>2, SessionKept DEF TurnInv
  <2> QED BY <2>1, <2>2 DEF CloseAgentSession, ExpireWindow, vars
<1> QED BY <1>1, <1>2, <1>3, SteadyKeeps DEF TurnInv

LEMMA SendTurns ==
  ASSUME TypeOK, TurnInv, NEW a \in Attempt,
         \/ PrepareReplyAttempt(a)
         \/ RejectReplyAttempt(a)
         \/ StartReplyAttempt(a)
         \/ ReleasePendingAttempt(a)
         \/ \E m \in Message, kind \in SystemKind : ReserveStartedSystemAttempt(m, a, kind)
         \/ \E state \in SettledState : FinishSend(a, state)
  PROVE  TurnInv'
<1>1. lastSeq' = lastSeq /\ session' = session /\ lapsed' = lapsed
  BY DEF PrepareReplyAttempt, RejectReplyAttempt, StartReplyAttempt, ReleasePendingAttempt,
     ReserveStartedSystemAttempt, FinishSend
<1>2. \A w \in Message : window'[w].state = window[w].state
  <2>0. ASSUME NEW w, NEW r, NEW t,
               \/ window' = [window EXCEPT ![w].reserved = r]
               \/ window' = [window EXCEPT ![w].transmitted = t]
               \/ window' = [window EXCEPT ![w].reserved = r, ![w].transmitted = t]
        PROVE  \A x \in Message : window'[x].state = window[x].state
    BY <2>0 DEF TypeOK, WindowRow
  <2>1. CASE PrepareReplyAttempt(a)
    BY <2>0, <2>1 DEF PrepareReplyAttempt
  <2>2. CASE StartReplyAttempt(a)
    BY <2>0, <2>2 DEF StartReplyAttempt
  <2>3. CASE ReleasePendingAttempt(a)
    BY <2>0, <2>3 DEF ReleasePendingAttempt
  <2>4. CASE \E m \in Message, kind \in SystemKind : ReserveStartedSystemAttempt(m, a, kind)
    BY <2>0, <2>4 DEF ReserveStartedSystemAttempt
  <2>5. CASE RejectReplyAttempt(a) \/ \E state \in SettledState : FinishSend(a, state)
    BY <2>5 DEF RejectReplyAttempt, FinishSend
  <2> QED BY <2>1, <2>2, <2>3, <2>4, <2>5
<1>3. InboxSteady
  <2>1. CASE inbox' = inbox
    BY <2>1 DEF InboxSteady, Has
  <2>2. CASE \E state \in SettledState : FinishSend(a, state)
    <3> DEFINE M == {x \in {attempt[a].source} :
                       Settles(x, AttemptsOf(attempt[a].source, {"pending", "sending"}) \ {a})}
    <3>1. inbox' = SetInbox(M, "completed") \/ inbox' = inbox
      BY <2>2 DEF FinishSend, Settles
    <3>2. \A x \in M : ~Has(x, {"absorbed"})
      BY DEF Settles, Has
    <3> HIDE DEF M
    <3> QED BY <2>1, <3>1, <3>2, SetInboxSteady
  <2> QED BY <2>1, <2>2 DEF PrepareReplyAttempt, RejectReplyAttempt, StartReplyAttempt,
             ReleasePendingAttempt, ReserveStartedSystemAttempt
<1>4. SessionHasWindow' /\ OpenWindows' \subseteq OpenWindows
  BY <1>1, <1>2, SessionKept DEF TurnInv
<1> QED BY <1>1, <1>3, <1>4, SteadyKeeps DEF TurnInv

\* Windows that close take the session with them, or have lapsed.
LEMMA ClosingTurns ==
  ASSUME TypeOK, TurnInv,
         \/ RotateAccount
         \/ \E old \in SUBSET Attempt : Cleanup(old)
         \/ \E settled, unacknowledged \in SUBSET Message :
              RecoverStartup(settled, unacknowledged)
         \/ RecoverPendingAttempts
  PROVE  TurnInv'
<1>1. lastSeq' = lastSeq /\ lapsed' = lapsed
  BY DEF RotateAccount, Cleanup, RecoverStartup, RecoverPendingAttempts
<1>2. OpenWindows' \subseteq OpenWindows
  <2>1. \A w \in Message : window[w].state # "open" => window'[w].state # "open"
    <3>0. \A w \in Message : window[w] \in WindowRow
      BY DEF TypeOK
    <3>1. CASE RotateAccount
      <4> SUFFICES ASSUME NEW w \in Message, window[w].state # "open"
                   PROVE  window'[w].state # "open"
        OBVIOUS
      <4>1. window'[w] = window[w]
        BY <3>1 DEF RotateAccount, OpenWindows
      <4> QED BY <4>1
    <3>2. CASE \E old \in SUBSET Attempt : Cleanup(old)
      <4> SUFFICES ASSUME NEW w \in Message, window[w].state # "open"
                   PROVE  window'[w].state # "open"
        OBVIOUS
      <4>1. window'[w] = window[w] \/ window'[w].state = "closed"
        BY <3>0, <3>2 DEF Cleanup, WindowRow
      <4> QED BY <4>1
    <3>3. CASE \E settled, unacknowledged \in SUBSET Message :
                 RecoverStartup(settled, unacknowledged)
      BY <3>3 DEF RecoverStartup
    <3>4. CASE RecoverPendingAttempts
      <4> SUFFICES ASSUME NEW w \in Message, window[w].state # "open"
                   PROVE  window'[w].state # "open"
        OBVIOUS
      <4>1. window'[w].state = window[w].state
        BY <3>0, <3>4 DEF RecoverPendingAttempts, WindowRow
      <4> QED BY <4>1
    <3> QED BY <3>1, <3>2, <3>3, <3>4
  <2> QED BY <2>1 DEF OpenWindows
<1>3. InboxSteady
  <2>1. CASE inbox' = inbox
    BY <2>1 DEF InboxSteady, Has
  <2>2. CASE \E settled, unacknowledged \in SUBSET Message :
               RecoverStartup(settled, unacknowledged)
    <3>1. PICK settled, unacknowledged \in SUBSET Message :
                 RecoverStartup(settled, unacknowledged)
      BY <2>2
    <3>2. /\ inbox' = [m \in Message |->
                 IF m \in settled THEN [inbox[m] EXCEPT !.status = "completed"]
                 ELSE Requeue(unacknowledged)[m]]
          /\ \A m \in settled : ~Has(m, {"absorbed"})
          /\ \A m \in unacknowledged : ~Has(m, {"absorbed"})
      BY <3>1 DEF RecoverStartup, Has
    <3> QED BY <3>2 DEF InboxSteady, Requeue, Has, TypeOK, InboundRow
  <2> QED BY <2>1, <2>2 DEF RotateAccount, Cleanup, RecoverPendingAttempts
<1>4. SessionHasWindow'
  <2>0. session # NoSession => session.boundary \in Message
    BY DEF TypeOK, SessionRow
  <2>1. CASE RotateAccount
    BY <2>0, <2>1 DEF RotateAccount, CloseSessionIf, TurnInv, SessionHasWindow, OpenWindows
  <2>2. CASE \E old \in SUBSET Attempt : Cleanup(old)
    BY <2>0, <2>2 DEF Cleanup, Closable, TurnInv, SessionHasWindow
  <2>3. CASE session' = NoSession
    BY <2>3 DEF SessionHasWindow
  <2>4. CASE RecoverPendingAttempts
    <3>1. \A w \in Message : window'[w].state = window[w].state
      BY <2>4 DEF RecoverPendingAttempts, TypeOK, WindowRow
    <3>2. session' = session
      BY <2>4 DEF RecoverPendingAttempts
    <3> QED BY <1>1, <3>1, <3>2, SessionKept DEF TurnInv
  <2> QED BY <2>1, <2>2, <2>3, <2>4 DEF RecoverStartup
<1> QED BY <1>1, <1>2, <1>3, <1>4, SteadyKeeps DEF TurnInv

LEMMA DeleteTurns ==
  ASSUME TypeOK, TurnInv, DeleteAccount
  PROVE  TurnInv'
<1>1. /\ session' = NoSession /\ lastSeq' = lastSeq /\ lastSeq \in Nat
      /\ \A m \in Message : inbox'[m].seq = 0
  BY DEF DeleteAccount, NoInbound, TypeOK
<1>2. OpenWindows' = {}
  BY DEF DeleteAccount, OpenWindows, NoWindow
<1> QED BY <1>1, <1>2 DEF TurnInv, SeqBounded, OwnerIsNewest, OwnerIsDelivered, SessionHasWindow

\* A page makes its owner the newest message, and merges what waited into it.
LEMMA CommitTurns ==
  ASSUME TypeOK, WindowsAreFresh, TurnInv, NEW page \in Page, NEW owner \in Message,
         CommitPollPage(page, owner)
  PROVE  TurnInv'
<1>1. PICK fresh : fresh = {page[i] : i \in Fresh(page)}
  OBVIOUS
<1>2. PICK seq : seq = [m \in fresh |-> lastSeq + (CHOOSE i \in Fresh(page) : page[i] = m)]
  OBVIOUS
<1>3. page \in Seq(Message) /\ Len(page) \in Nat /\ Fresh(page) \subseteq 1 .. Len(page)
  BY PageAssumption DEF Fresh
<1>4. \A m \in fresh : seq[m] \in Nat /\ lastSeq < seq[m] /\ seq[m] <= lastSeq + Len(page)
  <2> SUFFICES ASSUME NEW m \in fresh
               PROVE  seq[m] \in Nat /\ lastSeq < seq[m] /\ seq[m] <= lastSeq + Len(page)
    OBVIOUS
  <2>1. \E i \in Fresh(page) : page[i] = m
    BY <1>1
  <2>2. (CHOOSE i \in Fresh(page) : page[i] = m) \in 1 .. Len(page)
    BY <1>3, <2>1
  <2>3. lastSeq \in Nat
    BY DEF TypeOK
  <2> QED BY <1>2, <1>3, <2>2, <2>3
<1>5. inbox' = [m \in Message |->
        IF m \in fresh
        THEN [status |-> IF m = owner THEN "received" ELSE "absorbed",
              seq |-> seq[m], primary |-> NoMessage]
        ELSE IF m \in Merged(owner, fresh)
        THEN [inbox[m] EXCEPT !.status = "absorbed"]
        ELSE inbox[m]]
  BY <1>1, <1>2 DEF CommitPollPage
<1>6. window' = [m \in Message |->
        IF m \in fresh
        THEN [state |-> IF m = owner THEN "open" ELSE "superseded",
              generation |-> account.generation, reserved |-> 0, transmitted |-> 0]
        ELSE IF m \in Retired(owner, fresh)
        THEN [window[m] EXCEPT !.state = "superseded", !.reserved = 0]
        ELSE window[m]]
  BY <1>1 DEF CommitPollPage
<1>7. /\ lastSeq' = lastSeq + Len(page) /\ lapsed' = lapsed
      /\ session' = IF session.boundary \in Retired(owner, fresh) THEN NoSession ELSE session
      /\ lastSeq \in Nat
  BY <1>1 DEF CommitPollPage, CloseSessionIf, TypeOK
<1>8. \A m \in fresh : m \in Message /\ window[m].state = "none" /\ m \notin lapsed
  <2>1. \A m \in fresh : m \in Message /\ Has(m, {"absent"})
    BY <1>1, FreshMessages
  <2>2. account.active
    BY DEF CommitPollPage
  <2> QED BY <2>1, <2>2 DEF WindowsAreFresh
<1>9. ASSUME NEW m \in Message
      PROVE  /\ inbox'[m].seq = IF m \in fresh THEN seq[m] ELSE inbox[m].seq
             /\ inbox[m].seq \in Nat /\ inbox[m].seq <= lastSeq
             /\ window'[m].state = IF m \in fresh THEN IF m = owner THEN "open" ELSE "superseded"
                                   ELSE IF m \in Retired(owner, fresh) THEN "superseded"
                                   ELSE window[m].state
             /\ m \in fresh /\ m # owner => inbox'[m].status = "absorbed"
             /\ m \notin fresh /\ Has(m, {"absorbed"}) => inbox'[m] = inbox[m]
  BY <1>5, <1>6 DEF TurnInv, SeqBounded, TypeOK, InboundRow, WindowRow, Has
<1>10. SeqBounded'
  <2> SUFFICES ASSUME NEW m \in Message  PROVE inbox'[m].seq <= lastSeq'
    BY DEF SeqBounded
  <2> QED BY <1>3, <1>4, <1>7, <1>9
<1>11. ASSUME NEW w \in OpenWindows'
       PROVE  \/ owner \in fresh /\ w = owner
              \/ owner \notin fresh /\ w \notin fresh /\ w \in OpenWindows
  <2>1. w \in Message /\ window'[w].state = "open"
    BY DEF OpenWindows
  <2> QED BY <1>9, <2>1 DEF Retired, OpenWindows
<1>12. OwnerIsNewest'
  <2> SUFFICES ASSUME NEW w \in OpenWindows', NEW x \in Message, inbox'[x].seq > inbox'[w].seq
               PROVE  inbox'[x].status = "absorbed"
    BY DEF OwnerIsNewest, Has
  <2>1. w \in Message
    BY DEF OpenWindows
  <2>2. CASE x \in fresh
    <3>1. x # owner
      BY <1>11, <2>1, <2>2, <1>4, <1>9, <1>7
    <3> QED BY <1>9, <2>2, <3>1
  <2>3. CASE x \notin fresh
    <3>1. w \notin fresh /\ w \in OpenWindows
      <4>1. w \notin fresh
        BY <1>4, <1>7, <1>9, <2>1, <2>3
      <4> QED BY <1>11, <4>1
    <3>2. Has(x, {"absorbed"})
      BY <1>9, <2>1, <2>3, <3>1 DEF TurnInv, OwnerIsNewest
    <3> QED BY <1>9, <2>3, <3>2 DEF Has
  <2> QED BY <2>2, <2>3
<1>13. OwnerIsDelivered'
  <2> SUFFICES ASSUME NEW w \in OpenWindows', Has(w, {"absorbed"})'
               PROVE  inbox'[w].primary # NoMessage
    BY DEF OwnerIsDelivered
  <2>1. w \in Message /\ inbox'[w].status = "absorbed"
    BY DEF OpenWindows, Has
  <2>2. CASE owner \in fresh /\ w = owner
    BY <1>5, <2>1, <2>2
  <2>3. CASE owner \notin fresh /\ w \notin fresh /\ w \in OpenWindows
    <3>1. inbox'[w] = inbox[w]
      BY <1>5, <2>1, <2>3 DEF Merged
    <3> QED BY <2>1, <2>3, <3>1 DEF TurnInv, OwnerIsDelivered, Has
  <2> QED BY <1>11, <2>2, <2>3
<1>14. SessionHasWindow'
  <2> SUFFICES ASSUME session' # NoSession
               PROVE  window'[session.boundary].state = "open" \/ session.boundary \in lapsed
    BY <1>7 DEF SessionHasWindow
  <2>1. session' = session /\ session.boundary \in Message /\ session.boundary \notin Retired(owner, fresh)
    BY <1>7 DEF TypeOK, SessionRow
  <2>2. window[session.boundary].state = "open" \/ session.boundary \in lapsed
    BY <2>1 DEF TurnInv, SessionHasWindow
  <2> QED BY <1>8, <1>9, <2>1, <2>2
<1> QED BY <1>10, <1>12, <1>13, <1>14 DEF TurnInv

LEMMA TurnInit == Init => TurnInv
  BY DEF Init, TurnInv, SeqBounded, OwnerIsNewest, OwnerIsDelivered, SessionHasWindow, OpenWindows,
     NoInbound, NoWindow

LEMMA TurnStep ==
  ASSUME IInv, TurnInv, [Next]_vars
  PROVE  TurnInv'
<1>1. TypeOK /\ WindowsAreFresh
  BY DEF IInv
<1>2. CASE \E page \in Page, owner \in Message : CommitPollPage(page, owner)
  BY <1>1, <1>2, CommitTurns
<1>3. ASSUME NEW m \in Message,
             \/ ClaimInbound(m)
             \/ \E p \in Message : BeginInboundSteering(m, p)
             \/ EndInboundSteering(m)
             \/ \E unacknowledged \in SUBSET Group(m) : FailInbound(m, unacknowledged)
             \/ DeferActiveInbound(m)
             \/ MarkInboundIgnored(m)
             \/ SuppressInbound(m)
             \/ FinalizeAgentExecution(m)
      PROVE  TurnInv'
  BY <1>1, <1>3, ConversationTurns
<1>4. CASE \/ \E m, b \in Message : CreateAgentSession(m, b)
           \/ CloseAgentSession
           \/ \E w \in Message : ExpireWindow(w)
           \/ UNCHANGED vars
  BY <1>1, <1>4, SessionTurns
<1>5. ASSUME NEW a \in Attempt,
             \/ PrepareReplyAttempt(a)
             \/ RejectReplyAttempt(a)
             \/ StartReplyAttempt(a)
             \/ ReleasePendingAttempt(a)
             \/ \E m \in Message, kind \in SystemKind : ReserveStartedSystemAttempt(m, a, kind)
             \/ \E state \in SettledState : FinishSend(a, state)
      PROVE  TurnInv'
  BY <1>1, <1>5, SendTurns
<1>6. CASE \/ RotateAccount
           \/ \E old \in SUBSET Attempt : Cleanup(old)
           \/ \E settled, unacknowledged \in SUBSET Message :
                RecoverStartup(settled, unacknowledged)
           \/ RecoverPendingAttempts
  BY <1>1, <1>6, ClosingTurns
<1>7. CASE DeleteAccount
  BY <1>1, <1>7, DeleteTurns
<1> QED BY <1>2, <1>3, <1>4, <1>5, <1>6, <1>7 DEF Next

-----------------------------------------------------------------------------
(* The theorems.                                                           *)

\* The invariants of the ledger and of the turns hold in every state.
THEOREM TurnInvariant == Spec => [](IInv /\ TurnInv)
<1>1. Init => IInv /\ TurnInv
  BY IInvInit, TurnInit
<1>2. (IInv /\ TurnInv) /\ [Next]_vars => (IInv /\ TurnInv)'
  BY IInvStep, TurnStep
<1> QED BY <1>1, <1>2, PTL DEF Spec

\* The message that owns the open window is given to the agent, on its own or in the turn of
\* another message (#insertReplyWindow, commitPollPage).
THEOREM OwnersAreDelivered == Spec => []OwnerIsDelivered
<1>1. TurnInv => OwnerIsDelivered
  BY DEF TurnInv
<1> QED BY <1>1, TurnInvariant, PTL

\* A session whose turn runs has its window until the window expires: nothing closes a
\* window under a usable session (rotateAccount, commitPollPage, cleanup).
THEOREM SessionsKeepWindows == Spec => []SessionKeepsWindow
<1>1. TurnInv => SessionKeepsWindow
  BY DEF TurnInv, SessionHasWindow, SessionKeepsWindow
<1> QED BY <1>1, TurnInvariant, PTL

-----------------------------------------------------------------------------
(* Sends start in the open window.                                         *)

\* Settling an attempt or dropping its row hands nothing to the network.
LEMMA NothingSent ==
  ASSUME TypeOK, NEW A, NEW state, NEW code,
         attempt' \in {attempt, SetAttempts(A, state, code), DeleteAttempts(A)}
  PROVE  \A a \in Attempt : attempt'[a].sent = attempt[a].sent
<1>1. CASE attempt' = attempt
  BY <1>1
<1>2. CASE attempt' = SetAttempts(A, state, code)
  BY <1>2 DEF SetAttempts, TypeOK, AttemptRow
<1>3. CASE attempt' = DeleteAttempts(A)
  BY <1>3 DEF DeleteAttempts, NoAttempt
<1> QED BY <1>1, <1>2, <1>3

LEMMA NewlySent ==
  ASSUME TypeOK, Next, NEW a \in Attempt, attempt'[a].sent, ~attempt[a].sent
  PROVE  attempt'[a].window \in OpenWindows
<1>1. ASSUME NEW b \in Attempt, NEW state, NEW code, NEW kind, NEW m, NEW w,
             NewAttempt(b, state, code, kind, m, w)
      PROVE  attempt'[a].window = w /\ state = "sending"
  BY <1>1 DEF NewAttempt, TypeOK
<1>2. ASSUME NEW A, NEW state, NEW code,
             attempt' \in {attempt, SetAttempts(A, state, code), DeleteAttempts(A)}
      PROVE  FALSE
  BY <1>2, NothingSent
<1>3. ASSUME NEW page \in Page, NEW owner \in Message, CommitPollPage(page, owner)
      PROVE  FALSE
  <2>1. \E A : attempt' = SetAttempts(A, "failed", "none")
    BY <1>3 DEF CommitPollPage
  <2> QED BY <1>2, <2>1
<1>4. CASE RotateAccount
  <2>1. \E A : attempt' = SetAttempts(A, "failed", "none")
    BY <1>4 DEF RotateAccount
  <2> QED BY <1>2, <2>1
<1>5. CASE DeleteAccount
  BY <1>2, <1>5 DEF DeleteAccount
<1>6. ASSUME NEW m \in Message,
             \/ ClaimInbound(m)
             \/ \E p \in Message : BeginInboundSteering(m, p)
             \/ EndInboundSteering(m)
             \/ \E unacknowledged \in SUBSET Group(m) : FailInbound(m, unacknowledged)
             \/ DeferActiveInbound(m)
             \/ MarkInboundIgnored(m)
             \/ FinalizeAgentExecution(m)
             \/ ExpireWindow(m)
             \/ \E b \in Message : CreateAgentSession(m, b)
      PROVE  FALSE
  BY <1>6 DEF ClaimInbound, BeginInboundSteering, EndInboundSteering, FailInbound,
     DeferActiveInbound, MarkInboundIgnored, FinalizeAgentExecution, ExpireWindow,
     CreateAgentSession
<1>7. ASSUME NEW m \in Message, SuppressInbound(m)  PROVE FALSE
  BY <1>2, <1>7 DEF SuppressInbound
<1>8. CASE \E b \in Attempt : \/ PrepareReplyAttempt(b)
                              \/ RejectReplyAttempt(b)
                              \/ ReleasePendingAttempt(b)
                              \/ \E state \in SettledState : FinishSend(b, state)
  <2>1. ASSUME NEW b \in Attempt, PrepareReplyAttempt(b)  PROVE FALSE
    BY <1>1, <2>1 DEF PrepareReplyAttempt
  <2>2. ASSUME NEW b \in Attempt, RejectReplyAttempt(b)  PROVE FALSE
    BY <1>1, <2>2 DEF RejectReplyAttempt
  <2>3. ASSUME NEW b \in Attempt, ReleasePendingAttempt(b)  PROVE FALSE
    BY <1>2, <2>3 DEF ReleasePendingAttempt
  <2>4. ASSUME NEW b \in Attempt, NEW state \in SettledState, FinishSend(b, state)  PROVE FALSE
    BY <1>2, <2>4 DEF FinishSend
  <2> QED BY <1>8, <2>1, <2>2, <2>3, <2>4
<1>9. ASSUME NEW b \in Attempt, StartReplyAttempt(b)
      PROVE  attempt'[a].window \in OpenWindows
  <2>1. /\ attempt' = [attempt EXCEPT ![b].state = "sending", ![b].sent = TRUE]
        /\ attempt[b].window = session.boundary /\ SessionWindowValid
    BY <1>9 DEF StartReplyAttempt
  <2>2. attempt'[a].window = session.boundary
    BY <2>1 DEF TypeOK, AttemptRow
  <2>3. session.boundary \in OpenWindows
    BY <2>1, SessionTypes DEF SessionWindowValid, OpenWindows
  <2> QED BY <2>2, <2>3
<1>10. ASSUME NEW b \in Attempt, NEW m \in Message, NEW kind \in SystemKind,
              ReserveStartedSystemAttempt(m, b, kind)
       PROVE  attempt'[a].window \in OpenWindows
  <2>1. NewAttempt(b, "sending", "none", kind, m, m) /\ m \in OpenWindows
    BY <1>10 DEF ReserveStartedSystemAttempt, OpenWindows
  <2>2. attempt'[a].window = m
    BY <1>1, <2>1
  <2> QED BY <2>1, <2>2
<1>11. CASE \E old \in SUBSET Attempt : Cleanup(old)
  BY <1>2, <1>11 DEF Cleanup
<1>12. CASE \E settled, unacknowledged \in SUBSET Message :
              RecoverStartup(settled, unacknowledged)
  BY <1>2, <1>12 DEF RecoverStartup
<1>13. CASE RecoverPendingAttempts
  BY <1>2, <1>13 DEF RecoverPendingAttempts
<1>14. CASE CloseAgentSession
  BY <1>14 DEF CloseAgentSession
<1> QED BY <1>3, <1>4, <1>5, <1>6, <1>7, <1>8, <1>9, <1>10, <1>11, <1>12, <1>13, <1>14 DEF Next

\* A send starts for the newest message only (startReplyAttempt, reserveStartedSystemAttempt):
\* whatever came later was merged into it.
THEOREM SendsStartFresh == Spec => SendsAreFresh
<1> DEFINE Freshly == \A a \in Attempt : attempt'[a].sent /\ ~ attempt[a].sent =>
                        Later(attempt'[a].window, InboundStatus \ {"absorbed"}) = {}
<1>1. (IInv /\ TurnInv) /\ [Next]_vars => [Freshly]_vars
  <2> SUFFICES ASSUME IInv, TurnInv, Next, NEW a \in Attempt,
                      attempt'[a].sent, ~ attempt[a].sent
               PROVE  Later(attempt'[a].window, InboundStatus \ {"absorbed"}) = {}
    OBVIOUS
  <2>1. attempt'[a].window \in OpenWindows
    BY NewlySent DEF IInv
  <2> QED BY <2>1 DEF TurnInv, OwnerIsNewest, Later, Has
<1> QED BY <1>1, TurnInvariant, PTL DEF Spec, SendsAreFresh

-----------------------------------------------------------------------------
(* The refinement of ReplyContract.                                        *)

\* A step that starts and settles nothing, and reopens no window.
LEMMA ChangesDirection ==
  ASSUME IInv, IInv',
         \A a \in Attempt : /\ attempt'[a].window = attempt[a].window \/ ~ attempt[a].sent
                            /\ attempt'[a].sent <=> attempt[a].sent,
         Sending' = Sending,
         \A w \in Message : window[w].state = "open" => window'[w].state \in {"open"} \cup PastState,
         \A w \in Message : window[w].state \in PastState => window'[w].state \in PastState
  PROVE  Contract!ChangeDirection
<1>1. \A w \in Message : Spent(w)' = Spent(w)
  BY DEF Spent
<1>2. [w \in Message |-> Spent(w)]' = [w \in Message |-> Spent(w)]
  BY <1>1
<1>3. OneWindowOneSend'
  BY DEF IInv
<1>4. "open" \notin PastState
  BY DEF PastState
<1> QED BY <1>2, <1>3, <1>4 DEF Contract!ChangeDirection, OneWindowOneSend, OpenWindows

\* Attempts that settle without having been started leave the contract alone.
LEMMA PendingGivenUp ==
  ASSUME TypeOK, NEW A, NEW state, NEW code, state # "sending",
         \A a \in A : a \in Attempt => attempt[a].state # "sending",
         attempt' = SetAttempts(A, state, code)
  PROVE  /\ \A a \in Attempt : attempt'[a].window = attempt[a].window
                            /\ attempt'[a].sent = attempt[a].sent
         /\ Sending' = Sending
<1>1. ASSUME NEW a \in Attempt
      PROVE  /\ attempt'[a].window = attempt[a].window
             /\ attempt'[a].sent = attempt[a].sent
             /\ attempt'[a].state = "sending" <=> attempt[a].state = "sending"
  <2>1. attempt[a] \in AttemptRow
    BY DEF TypeOK
  <2>2. CASE a \in A
    BY <2>1, <2>2 DEF SetAttempts, AttemptRow
  <2>3. CASE a \notin A
    BY <2>3 DEF SetAttempts
  <2> QED BY <2>2, <2>3
<1> QED BY <1>1 DEF Sending

\* The contract counts sends with the same function.
LEMMA SameCardinality == \A S : Contract!Cardinality(S) = Cardinality(S)
  BY DEF Cardinality, Contract!Cardinality

\* A send is started: by startReplyAttempt or as a system notice.
LEMMA Transmits ==
  ASSUME IInv, NEW a \in Attempt, NEW w \in Message,
         window[w].state = "open", Sending = {},
         attempt[a].window = w \/ attempt[a].state = "none",
         attempt[a].state \in {"none", "pending"},
         window[w].transmitted < MaxSends,
         attempt'[a].state = "sending", attempt'[a].sent, attempt'[a].window = w,
         \A x \in Attempt \ {a} : attempt'[x] = attempt[x],
         \A x \in Message : window'[x].state = window[x].state
  PROVE  Contract!Transmit(a, w)
<1>1. ~ attempt[a].sent
  BY DEF IInv, RowsTellTruth
<1>2. w \in OpenWindows /\ OpenWindows' = OpenWindows
  BY DEF OpenWindows
<1>3. {m \in Message : window[m].state \in PastState}' = {m \in Message : window[m].state \in PastState}
  OBVIOUS
<1>4. Spent(w)' = Spent(w) \cup {a}
  BY <1>1 DEF Spent
<1>5. \A v \in Message : a \notin Spent(v) /\ (v # w => Spent(v)' = Spent(v))
  BY <1>1 DEF Spent
<1>6. Sending' = {a}
  BY DEF Sending
<1>7. Cardinality(Spent(w)) < MaxSends
  <2>1. WindowLedger(w) /\ TypeOK /\ FiniteLedger /\ RowsTellTruth
    BY DEF IInv
  <2> QED BY <2>1, SetsFinite, NumbersOf DEF WindowLedger
<1>8. [v \in Message |-> Spent(v)]' =
        [[v \in Message |-> Spent(v)] EXCEPT ![w] = @ \cup {a}]
  BY <1>4, <1>5
<1>9. w \in OpenWindows /\ Sending = {}
  BY <1>2
<1>10. \A v \in Message : a \notin [u \in Message |-> Spent(u)][v]
  BY <1>5
<1>11. Contract!Cardinality([u \in Message |-> Spent(u)][w]) < MaxSends
  BY <1>7, SameCardinality
<1>12. UNCHANGED <<OpenWindows, {m \in Message : window[m].state \in PastState}>>
  BY <1>2, <1>3
<1> QED BY <1>6, <1>8, <1>9, <1>10, <1>11, <1>12 DEF Contract!Transmit

LEMMA StartTransmits ==
  ASSUME IInv, NEW a \in Attempt, StartReplyAttempt(a)
  PROVE  \E w \in Message : Contract!Transmit(a, w)
<1>0. TypeOK
  BY DEF IInv
<1>1. PICK w \in Message : /\ w = session.boundary
                           /\ window[w].state = "open"
                           /\ window[w].reserved > 0
                           /\ window[w].reserved + window[w].transmitted <= MaxSends
  BY <1>0, SessionTypes DEF StartReplyAttempt, SessionWindowValid
<1>2. attempt[a].state = "pending" /\ attempt[a].window = w /\ Sending = {}
  BY <1>1 DEF StartReplyAttempt, NothingSending
<1>3. window[w].transmitted < MaxSends
  BY <1>0, <1>1, NumbersOf
<1>4. /\ attempt'[a].state = "sending"
      /\ attempt'[a].sent
      /\ attempt'[a].window = w
      /\ \A x \in Attempt \ {a} : attempt'[x] = attempt[x]
  <2>1. attempt' = [attempt EXCEPT ![a] = [attempt[a] EXCEPT !.state = "sending", !.sent = TRUE]]
    BY DEF StartReplyAttempt
  <2>2. attempt[a] \in AttemptRow
    BY <1>0 DEF TypeOK
  <2> QED BY <1>0, <1>2, <2>1, <2>2 DEF TypeOK, AttemptRow
<1>5. \A x \in Message : window'[x].state = window[x].state
  <2>1. window' = [window EXCEPT ![w] = [window[w] EXCEPT !.reserved = @ - 1, !.transmitted = @ + 1]]
    BY <1>1 DEF StartReplyAttempt
  <2> QED BY <1>0, <2>1 DEF TypeOK, WindowRow
<1> QED BY <1>1, <1>2, <1>3, <1>4, <1>5, Transmits

LEMMA NoticeTransmits ==
  ASSUME IInv, NEW a \in Attempt, NEW w \in Message, NEW kind,
         ReserveStartedSystemAttempt(w, a, kind)
  PROVE  Contract!Transmit(a, w)
<1>0. TypeOK /\ RowsTellTruth
  BY DEF IInv
<1>1. window[w].state = "open" /\ QuotaLeft(w) /\ Sending = {}
  BY DEF ReserveStartedSystemAttempt, NothingSending
<1>2. window[w].transmitted < MaxSends
  BY <1>0, <1>1, NumbersOf DEF QuotaLeft
<1>3. /\ attempt[a] = NoAttempt
      /\ attempt'[a].state = "sending"
      /\ attempt'[a].sent
      /\ attempt'[a].window = w
      /\ \A x \in Attempt \ {a} : attempt'[x] = attempt[x]
  <2>1. NewAttempt(a, "sending", "none", kind, w, w)
    BY DEF ReserveStartedSystemAttempt
  <2> QED BY <1>0, <2>1, NewRow
<1>4. \A x \in Message : window'[x].state = window[x].state
  <2>1. window' = [window EXCEPT ![w] = [window[w] EXCEPT !.transmitted = @ + 1]]
    BY DEF ReserveStartedSystemAttempt
  <2> QED BY <1>0, <2>1 DEF TypeOK, WindowRow
<1> QED BY <1>1, <1>2, <1>3, <1>4, NoAttemptFacts, Transmits

\* Outcomes: of one send, or of whatever was on its way when the worker died.
LEMMA OutcomeSettles ==
  ASSUME IInv, NEW A, A \subseteq Attempt, NEW state \in SettledState, NEW code,
         Sending \subseteq A, A \subseteq Sending,
         attempt' = SetAttempts(A, state, code),
         window' = window
  PROVE  \/ Contract!Settle
         \/ UNCHANGED Contract!cvars
<1>0. TypeOK
  BY DEF IInv
<1>1. state # "sending"
  BY DEF SettledState
<1>2. ASSUME NEW a \in Attempt
      PROVE  /\ attempt'[a].window = attempt[a].window
             /\ attempt'[a].sent = attempt[a].sent
             /\ attempt'[a].state # "sending"
  <2>1. attempt[a] \in AttemptRow
    BY <1>0 DEF TypeOK
  <2>2. CASE a \in A
    BY <1>1, <2>1, <2>2 DEF SetAttempts, AttemptRow
  <2>3. CASE a \notin A
    BY <2>3 DEF SetAttempts, Sending
  <2> QED BY <2>2, <2>3
<1>3. Sending' = {}
  BY <1>2 DEF Sending
<1>4. [v \in Message |-> Spent(v)]' = [v \in Message |-> Spent(v)]
  BY <1>2 DEF Spent
<1>5. /\ OpenWindows' = OpenWindows
      /\ {m \in Message : window[m].state \in PastState}' = {m \in Message : window[m].state \in PastState}
  BY DEF OpenWindows
<1> QED BY <1>3, <1>4, <1>5 DEF Contract!Settle, Contract!cvars

LEMMA Erases ==
  ASSUME IInv, DeleteAccount
  PROVE  Contract!Erase
<1>0. TypeOK /\ RowsTellTruth
  BY DEF IInv
<1>1. Settling /\ \A a \in Attempt : attempt'[a].state # "sending"
  <2>1. attempt' = DeleteAttempts(Attempt)
    BY DEF DeleteAccount
  <2> QED BY <1>0, <2>1, DroppedRows DEF DeleteAttempts, NoAttempt
<1>2. ASSUME NEW w \in Message
      PROVE  window'[w].state = IF window[w].state = "none" THEN "none" ELSE "deleted"
  BY DEF DeleteAccount, NoWindow
<1>3. OpenWindows' = {} /\ Sending' = {}
  BY <1>1, <1>2 DEF OpenWindows, Sending
<1>4. \A w \in Message : window[w].state \in {"none", "open"} \cup PastState
  BY <1>0 DEF TypeOK, WindowRow, WindowState
<1>5. {m \in Message : window[m].state \in PastState}' =
        {m \in Message : window[m].state \in PastState} \cup OpenWindows
  BY <1>2, <1>4 DEF OpenWindows, PastState
<1>6. [v \in Message |-> Spent(v)]' = [v \in Message |-> Spent(v)]
  BY <1>1, SettlingShrinks
<1> QED BY <1>3, <1>5, <1>6 DEF Contract!Erase

-----------------------------------------------------------------------------
(* Every transaction that neither starts nor settles a send.               *)

LEMMA InboxChanges ==
  ASSUME IInv, IInv', UNCHANGED <<attempt, window>>
  PROVE  Contract!ChangeDirection
<1>1. Sending' = Sending
  BY DEF Sending
<1>2. "open" \in {"open"} \cup PastState
  OBVIOUS
<1> QED BY <1>1, <1>2, ChangesDirection

LEMMA PageChanges ==
  ASSUME IInv, IInv', NEW page \in Page, NEW owner \in Message, CommitPollPage(page, owner)
  PROVE  Contract!ChangeDirection
<1>0. TypeOK /\ WindowsAreFresh
  BY DEF IInv
<1>1. PICK fresh, retired : /\ fresh = {page[i] : i \in Fresh(page)}
                            /\ retired = IF owner \in fresh THEN OpenWindows ELSE {}
  OBVIOUS
<1>2. PICK P : /\ P = UNION {Pending(w) : w \in retired}
               /\ attempt' = SetAttempts(P, "failed", "none")
  BY <1>1 DEF CommitPollPage, Retired
<1>3. window' = [m \in Message |->
        IF m \in fresh
        THEN [state |-> IF m = owner THEN "open" ELSE "superseded",
              generation |-> account.generation, reserved |-> 0, transmitted |-> 0]
        ELSE IF m \in retired
        THEN [window[m] EXCEPT !.state = "superseded", !.reserved = 0]
        ELSE window[m]]
  BY <1>1 DEF CommitPollPage, Retired
<1>4. account.active
  BY DEF CommitPollPage
<1>5. \A m \in fresh : window[m].state = "none"
  BY <1>0, <1>1, <1>4, FreshMessages DEF WindowsAreFresh
<1>6. "none" \notin {"open"} \cup PastState /\ "superseded" \in PastState
  BY DEF PastState
<1>7. ASSUME NEW m \in Message, window[m].state \in {"open"} \cup PastState
      PROVE  window'[m].state \in {window[m].state, "superseded"}
  <2>1. m \notin fresh /\ window[m] \in WindowRow
    BY <1>0, <1>5, <1>6, <1>7 DEF TypeOK
  <2> QED BY <1>3, <2>1 DEF WindowRow
<1>8. \A a \in P : a \in Attempt => attempt[a].state # "sending"
  BY <1>2 DEF Pending, AttemptsIn
<1>9. /\ \A a \in Attempt : attempt'[a].window = attempt[a].window
                           /\ attempt'[a].sent = attempt[a].sent
      /\ Sending' = Sending
  BY <1>0, <1>2, <1>8, PendingGivenUp
<1> QED BY <1>6, <1>7, <1>9, ChangesDirection

LEMMA RotationChanges ==
  ASSUME IInv, IInv', RotateAccount
  PROVE  Contract!ChangeDirection
<1>0. TypeOK
  BY DEF IInv
<1>1. PICK P : /\ P = UNION {Pending(w) : w \in OpenWindows}
               /\ attempt' = SetAttempts(P, "failed", "none")
  BY DEF RotateAccount
<1>2. \A a \in P : a \in Attempt => attempt[a].state # "sending"
  BY <1>1 DEF Pending, AttemptsIn
<1>3. /\ \A a \in Attempt : attempt'[a].window = attempt[a].window
                           /\ attempt'[a].sent = attempt[a].sent
      /\ Sending' = Sending
  BY <1>0, <1>1, <1>2, PendingGivenUp
<1>4. ASSUME NEW m \in Message PROVE window'[m].state \in {window[m].state, "cancelled"}
  BY <1>0 DEF RotateAccount, TypeOK, WindowRow
<1>5. "cancelled" \in PastState
  BY DEF PastState
<1> QED BY <1>3, <1>4, <1>5, ChangesDirection

LEMMA SendChanges ==
  ASSUME IInv, IInv', NEW a \in Attempt,
         PrepareReplyAttempt(a) \/ RejectReplyAttempt(a) \/ ReleasePendingAttempt(a)
  PROVE  Contract!ChangeDirection
<1>0. TypeOK /\ RowsTellTruth
  BY DEF IInv
<1>1. /\ attempt[a].state \in {"none", "pending"}
      /\ ~ attempt[a].sent
      /\ ~ attempt'[a].sent
      /\ attempt'[a].state # "sending"
      /\ \A x \in Attempt \ {a} : attempt'[x] = attempt[x]
  <2>1. CASE PrepareReplyAttempt(a)
    <3>1. NewAttempt(a, "pending", "none", "mcp_tool", session.source, session.boundary)
      BY <2>1 DEF PrepareReplyAttempt
    <3> QED BY <1>0, <3>1, NewRow, NoAttemptFacts
  <2>2. CASE RejectReplyAttempt(a)
    <3>1. NewAttempt(a, "failed", "not_transmitted", "mcp_tool", session.source, session.boundary)
      BY <2>2 DEF RejectReplyAttempt
    <3> QED BY <1>0, <3>1, NewRow, NoAttemptFacts
  <2>3. CASE ReleasePendingAttempt(a)
    <3>1. attempt' = SetAttempts({a}, "failed", "not_transmitted") /\ attempt[a].state = "pending"
      BY <2>3 DEF ReleasePendingAttempt
    <3>2. ~ attempt[a].sent /\ attempt[a] \in AttemptRow
      BY <1>0, <3>1 DEF RowsTellTruth, TypeOK
    <3>3. attempt'[a] = [attempt[a] EXCEPT !.state = "failed", !.code = "not_transmitted"]
      BY <3>1 DEF SetAttempts
    <3>4. attempt'[a].state = "failed" /\ attempt'[a].sent = attempt[a].sent
      BY <3>2, <3>3 DEF AttemptRow
    <3>5. \A x \in Attempt \ {a} : attempt'[x] = attempt[x]
      BY <3>1 DEF SetAttempts
    <3> QED BY <3>1, <3>2, <3>4, <3>5
  <2> QED BY <2>1, <2>2, <2>3
<1>2. ASSUME NEW m \in Message PROVE window'[m].state = window[m].state
  <2>1. window[m] \in WindowRow
    BY <1>0 DEF TypeOK
  <2>2. \/ window'[m] = window[m]
        \/ window'[m] = [window[m] EXCEPT !.reserved = @ + 1]
        \/ window'[m] = [window[m] EXCEPT !.reserved = @ - 1]
    BY <1>0 DEF PrepareReplyAttempt, RejectReplyAttempt, ReleasePendingAttempt, TypeOK
  <2> QED BY <2>1, <2>2 DEF WindowRow
<1>3. Sending' = Sending
  BY <1>1 DEF Sending
<1>4. \A x \in Attempt : /\ attempt'[x].window = attempt[x].window \/ ~ attempt[x].sent
                         /\ attempt'[x].sent <=> attempt[x].sent
  BY <1>1
<1> QED BY <1>2, <1>3, <1>4, ChangesDirection

LEMMA SuppressionChanges ==
  ASSUME IInv, IInv', NEW m \in Message, SuppressInbound(m)
  PROVE  Contract!ChangeDirection
<1>0. TypeOK
  BY DEF IInv
<1>1. PICK P : /\ P = AttemptsOf(m, {"pending"})
               /\ attempt' = SetAttempts(P, "failed", "none")
               /\ window' = window
  BY DEF SuppressInbound
<1>2. \A a \in P : a \in Attempt => attempt[a].state # "sending"
  BY <1>1 DEF AttemptsOf
<1>3. /\ \A a \in Attempt : attempt'[a].window = attempt[a].window
                           /\ attempt'[a].sent = attempt[a].sent
      /\ Sending' = Sending
  BY <1>0, <1>1, <1>2, PendingGivenUp
<1> QED BY <1>1, <1>3, ChangesDirection

LEMMA RecoveryChanges ==
  ASSUME IInv, IInv', RecoverPendingAttempts
  PROVE  Contract!ChangeDirection
<1>0. TypeOK
  BY DEF IInv
<1>1. PICK P : /\ P = UNION {Pending(w) : w \in Message}
               /\ attempt' = SetAttempts(P, "failed", "not_transmitted")
  BY DEF RecoverPendingAttempts
<1>2. \A a \in P : a \in Attempt => attempt[a].state # "sending"
  BY <1>1 DEF Pending, AttemptsIn
<1>3. /\ \A a \in Attempt : attempt'[a].window = attempt[a].window
                           /\ attempt'[a].sent = attempt[a].sent
      /\ Sending' = Sending
  BY <1>0, <1>1, <1>2, PendingGivenUp
<1>4. \A w \in Message : window'[w].state = window[w].state
  BY <1>0 DEF RecoverPendingAttempts, TypeOK, WindowRow
<1> QED BY <1>3, <1>4, ChangesDirection

LEMMA CleanupChanges ==
  ASSUME IInv, IInv', NEW old \in SUBSET Attempt, Cleanup(old)
  PROVE  Contract!ChangeDirection
<1>0. TypeOK /\ RowsTellTruth
  BY DEF IInv
<1>1. attempt' = DeleteAttempts(old) /\ \A a \in old : attempt[a].state \in {"accepted", "failed"}
  BY DEF Cleanup
<1>2. Settling
  BY <1>0, <1>1, DroppedRows
<1>3. Sending' = Sending
  BY <1>1 DEF Sending, DeleteAttempts, NoAttempt
<1>4. ASSUME NEW w \in Message
      PROVE  \/ window'[w] = window[w]
             \/ window[w].state = "open" /\ window'[w].state = "closed"
  <2>1. window[w] \in WindowRow
    BY <1>0 DEF TypeOK
  <2>2. \/ window'[w] = window[w]
        \/ /\ window[w].state = "open"
           /\ window'[w] = [window[w] EXCEPT !.state = "closed", !.reserved = 0]
    BY <1>0 DEF Cleanup, Closable, TypeOK
  <2> QED BY <2>1, <2>2 DEF WindowRow
<1>5. "closed" \in PastState /\ "open" \notin PastState
  BY DEF PastState
<1> QED BY <1>2, <1>3, <1>4, <1>5, ChangesDirection DEF Settling

LEMMA OutcomesSettle ==
  ASSUME IInv,
         \/ \E a \in Attempt, state \in SettledState : FinishSend(a, state)
         \/ \E settled, unacknowledged \in SUBSET Message : RecoverStartup(settled, unacknowledged)
  PROVE  Contract!Settle \/ UNCHANGED Contract!cvars
<1>1. ASSUME NEW a \in Attempt, NEW state \in SettledState, FinishSend(a, state)
      PROVE  Contract!Settle \/ UNCHANGED Contract!cvars
  <2>1. attempt[a].state = "sending" /\ attempt' = SetAttempts({a}, state, "none") /\ window' = window
    BY <1>1 DEF FinishSend
  <2>2. {a} \subseteq Attempt /\ {a} \subseteq Sending /\ Sending \subseteq {a}
    BY <2>1 DEF IInv, OneWindowOneSend, Sending
  <2> QED BY <2>1, <2>2, OutcomeSettles
<1>2. ASSUME NEW settled, NEW unacknowledged, RecoverStartup(settled, unacknowledged)
      PROVE  Contract!Settle \/ UNCHANGED Contract!cvars
  <2>1. attempt' = SetAttempts(Sending, "uncertain", "startup_recovery") /\ window' = window
    BY <1>2 DEF RecoverStartup
  <2>2. Sending \subseteq Attempt /\ "uncertain" \in SettledState
    BY DEF Sending, SettledState
  <2> QED BY <2>1, <2>2, OutcomeSettles
<1> QED BY <1>1, <1>2

LEMMA RefinementInit == Init => Contract!Init
<1> SUFFICES ASSUME Init PROVE Contract!Init
  OBVIOUS
<1>1. \A w \in Message : window[w].state = "none"
  BY DEF Init, NoWindow
<1>2. \A a \in Attempt : attempt[a] = NoAttempt
  BY DEF Init
<1>3. OpenWindows = {} /\ {m \in Message : window[m].state \in PastState} = {}
  BY <1>1 DEF OpenWindows, PastState
<1>4. Sending = {} /\ \A w : Spent(w) = {}
  BY <1>2, NoAttemptFacts DEF Sending, Spent
<1> QED BY <1>3, <1>4 DEF Contract!Init

LEMMA RefinementStep == IInv /\ IInv' /\ [Next]_vars => [Contract!Next]_(Contract!cvars)
<1> SUFFICES ASSUME IInv, IInv', [Next]_vars PROVE [Contract!Next]_(Contract!cvars)
  OBVIOUS
<1>1. Contract!ChangeDirection => Contract!Next
  BY DEF Contract!Next
<1>2. ASSUME NEW m \in Message,
             \/ ClaimInbound(m)
             \/ \E p \in Message : BeginInboundSteering(m, p)
             \/ EndInboundSteering(m)
             \/ \E unacknowledged \in SUBSET Group(m) : FailInbound(m, unacknowledged)
             \/ DeferActiveInbound(m)
             \/ MarkInboundIgnored(m)
             \/ FinalizeAgentExecution(m)
             \/ ExpireWindow(m)
             \/ \E b \in Message : CreateAgentSession(m, b)
      PROVE  Contract!Next
  <2>1. UNCHANGED <<attempt, window>>
    BY <1>2 DEF ClaimInbound, BeginInboundSteering, EndInboundSteering, FailInbound,
       DeferActiveInbound, MarkInboundIgnored, FinalizeAgentExecution, ExpireWindow,
       CreateAgentSession
  <2> QED BY <1>1, <2>1, InboxChanges
<1>3. ASSUME CloseAgentSession \/ UNCHANGED vars PROVE Contract!Next
  BY <1>1, <1>3, InboxChanges DEF CloseAgentSession, vars
<1>4. ASSUME NEW page \in Page, NEW owner \in Message, CommitPollPage(page, owner)
      PROVE  Contract!Next
  BY <1>1, <1>4, PageChanges
<1>5. RotateAccount => Contract!Next
  BY <1>1, RotationChanges
<1>6. DeleteAccount => Contract!Next
  BY Erases DEF Contract!Next
<1>7. ASSUME NEW m \in Message, SuppressInbound(m) PROVE Contract!Next
  BY <1>1, <1>7, SuppressionChanges
<1>8. ASSUME NEW a \in Attempt,
             \/ PrepareReplyAttempt(a)
             \/ RejectReplyAttempt(a)
             \/ StartReplyAttempt(a)
             \/ ReleasePendingAttempt(a)
             \/ \E m \in Message, kind \in SystemKind : ReserveStartedSystemAttempt(m, a, kind)
      PROVE  Contract!Next
  BY <1>1, <1>8, SendChanges, StartTransmits, NoticeTransmits DEF Contract!Next
<1>9. ASSUME NEW old \in SUBSET Attempt, Cleanup(old) PROVE Contract!Next
  BY <1>1, <1>9, CleanupChanges
<1>10. RecoverPendingAttempts => Contract!Next
  BY <1>1, RecoveryChanges
<1>11. ASSUME \/ \E a \in Attempt, state \in SettledState : FinishSend(a, state)
              \/ \E settled, unacknowledged \in SUBSET Message :
                   RecoverStartup(settled, unacknowledged)
       PROVE  [Contract!Next]_(Contract!cvars)
  BY <1>11, OutcomesSettle DEF Contract!Next
<1> QED
  BY <1>2, <1>3, <1>4, <1>5, <1>6, <1>7, <1>8, <1>9, <1>10, <1>11 DEF Next

\* Whatever the order of pages, logins, turns, sends, crashes and restarts: a
\* window takes at most MaxSends sends, only while it is the newest one, one at a
\* time, and no send is handed to the network twice.
THEOREM ImplementsContract == Spec => ContractSpec
<1>1. Spec => []IInv
  BY LedgerInvariant
<1> QED
  BY <1>1, RefinementInit, RefinementStep, PTL DEF Spec, ContractSpec, Contract!Spec

-----------------------------------------------------------------------------
(* The executor, for any calls, messages, attempts, budgets and rotations.  *)
(* Every step of it is a step of the ledger or none, so what was proved of  *)
(* the ledger holds under it; on that rest its own invariant and what it    *)
(* hands over.                                                             *)

-----------------------------------------------------------------------------
(* Rows of calls.                                                          *)

CallTyped == call \in [Call -> CallRow] /\ tokens \subseteq Call

\* A call that was made is of a kind and for a window.
CallsNamed ==
  \A c \in Call : call[c].at \notin {"new", "lost"} =>
    call[c].kind \in CallKind /\ call[c].window \in Message

\* What the rows of the other calls keep.
OthersStay(c) == \A d \in Call \ {c} : call'[d] = call[d]

LEMMA CallFields ==
  ASSUME CallTyped, NEW c \in Call
  PROVE  /\ call[c].at \in At /\ call[c].window \in Message \cup {NoMessage}
         /\ call[c].kind \in {"none"} \cup Tool \cup Notice
         /\ call[c].generation \in Nat /\ call[c].aborted \in BOOLEAN
         /\ call[c].receipt \in Receipt /\ call[c].answer \in Answer
         /\ call[c].attempt \subseteq Attempt
         /\ \A a, b \in call[c].attempt : a = b
<1>1. call[c] \in CallRow
  BY DEF CallTyped
<1>2. QED
  BY <1>1 DEF CallRow

\* A call stands elsewhere, with the same window, attempt and generation.
LEMMA Advanced ==
  ASSUME CallTyped, NEW c \in Call, NEW at \in At, Advance(c, at)
  PROVE  /\ CallTyped' /\ OthersStay(c) /\ UNCHANGED tokens
         /\ call'[c].at = at
         /\ call'[c].window = call[c].window /\ call'[c].kind = call[c].kind
         /\ call'[c].generation = call[c].generation
         /\ call'[c].attempt = call[c].attempt
         /\ call'[c].receipt = call[c].receipt /\ call'[c].answer = call[c].answer
<1>1. call[c] \in CallRow
  BY DEF CallTyped
<1>2. /\ [call[c] EXCEPT !.at = at] \in CallRow
      /\ [call[c] EXCEPT !.at = at].at = at
      /\ [call[c] EXCEPT !.at = at].window = call[c].window
      /\ [call[c] EXCEPT !.at = at].kind = call[c].kind
      /\ [call[c] EXCEPT !.at = at].generation = call[c].generation
      /\ [call[c] EXCEPT !.at = at].attempt = call[c].attempt
      /\ [call[c] EXCEPT !.at = at].receipt = call[c].receipt
      /\ [call[c] EXCEPT !.at = at].answer = call[c].answer
  BY <1>1 DEF CallRow
<1>3. /\ call'[c] = [call[c] EXCEPT !.at = at] /\ OthersStay(c)
      /\ call' \in [Call -> CallRow]
  BY <1>2 DEF Advance, CallTyped, OthersStay
<1>4. QED
  BY <1>2, <1>3 DEF Advance, CallTyped

\* A call ends; answer is what became of its message.
Ends(c, r, answer) ==
  call' = [call EXCEPT ![c].at = "done", ![c].receipt = r, ![c].answer = answer]

LEMMA Ended ==
  ASSUME CallTyped, NEW c \in Call, NEW r \in Receipt, NEW answer \in Answer, UNCHANGED tokens,
         Ends(c, r, answer)
  PROVE  /\ CallTyped' /\ OthersStay(c)
         /\ call'[c].at = "done" /\ call'[c].receipt = r /\ call'[c].answer = answer
         /\ call'[c].window = call[c].window /\ call'[c].kind = call[c].kind
<1> DEFINE row == [call[c] EXCEPT !.at = "done", !.receipt = r, !.answer = answer]
<1>1. call[c] \in CallRow
  BY DEF CallTyped
<1>2. /\ row \in CallRow /\ row.at = "done" /\ row.receipt = r /\ row.answer = answer
      /\ row.window = call[c].window /\ row.kind = call[c].kind
  BY <1>1 DEF CallRow, At
<1> HIDE DEF row
<1>3. call'[c] = row /\ OthersStay(c) /\ call' \in [Call -> CallRow]
  <2>1. call' = [call EXCEPT ![c] = row]
    BY DEF Ends, row, CallTyped
  <2>2. QED
    BY <2>1, <1>2 DEF CallTyped, OthersStay
<1>4. QED
  BY <1>2, <1>3 DEF CallTyped

LEMMA Returned ==
  ASSUME CallTyped, NEW c \in Call, NEW r \in Receipt, Return(c, r)
  PROVE  Ends(c, r, call[c].answer)
<1>1. call[c] \in CallRow /\ call[c] = [call[c] EXCEPT !.answer = call[c].answer]
  BY DEF CallTyped, CallRow
<1>2. [call[c] EXCEPT !.at = "done", !.receipt = r]
        = [call[c] EXCEPT !.at = "done", !.receipt = r, !.answer = call[c].answer]
  BY <1>1 DEF CallRow
<1>3. QED
  BY <1>2 DEF Return, Ends, CallTyped

\* A call holds attempt a, under the bot token of the moment.
Takes(c, at, a) ==
  call' = [call EXCEPT ![c].at = at, ![c].attempt = {a}, ![c].generation = BotToken]

LEMMA Taken ==
  ASSUME CallTyped, TypeOK, NEW c \in Call, NEW at \in At, NEW a \in Attempt, UNCHANGED tokens,
         Takes(c, at, a)
  PROVE  /\ CallTyped' /\ OthersStay(c)
         /\ call'[c].at = at /\ call'[c].attempt = {a}
         /\ call'[c].generation = account.generation
         /\ call'[c].window = call[c].window /\ call'[c].kind = call[c].kind
         /\ call'[c].receipt = call[c].receipt /\ call'[c].answer = call[c].answer
<1> DEFINE row == [call[c] EXCEPT !.at = at, !.attempt = {a}, !.generation = BotToken]
<1>1. call[c] \in CallRow /\ BotToken \in Nat
  BY DEF CallTyped, TypeOK, BotToken
<1>2. /\ row \in CallRow /\ row.at = at /\ row.attempt = {a} /\ row.generation = BotToken
      /\ row.window = call[c].window /\ row.kind = call[c].kind
      /\ row.receipt = call[c].receipt /\ row.answer = call[c].answer
  BY <1>1 DEF CallRow
<1> HIDE DEF row
<1>3. call'[c] = row /\ OthersStay(c) /\ call' \in [Call -> CallRow]
  <2>1. call' = [call EXCEPT ![c] = row]
    BY DEF Takes, row, CallTyped
  <2>2. QED
    BY <2>1, <1>2 DEF CallTyped, OthersStay
<1>4. QED
  BY <1>2, <1>3 DEF CallTyped, BotToken

\* A call arrives for window w.
Arrives(c, kind, w) ==
  call' = [call EXCEPT ![c].at = "queued", ![c].kind = kind, ![c].window = w]

LEMMA Arrived ==
  ASSUME CallTyped, NEW c \in Call, NEW kind \in Tool \cup Notice, NEW w \in Message,
         Arrives(c, kind, w)
  PROVE  /\ call' \in [Call -> CallRow] /\ OthersStay(c)
         /\ call'[c].at = "queued" /\ call'[c].window = w /\ call'[c].kind = kind
         /\ call'[c].receipt = call[c].receipt /\ call'[c].answer = call[c].answer
<1> DEFINE row == [call[c] EXCEPT !.at = "queued", !.kind = kind, !.window = w]
<1>1. call[c] \in CallRow
  BY DEF CallTyped
<1>2. /\ row \in CallRow /\ row.at = "queued" /\ row.window = w /\ row.kind = kind
      /\ row.receipt = call[c].receipt /\ row.answer = call[c].answer
  BY <1>1 DEF CallRow, At
<1> HIDE DEF row
<1>3. call' = [call EXCEPT ![c] = row]
  BY DEF Arrives, row, CallTyped
<1>4. QED
  BY <1>2, <1>3 DEF CallTyped, OthersStay

-----------------------------------------------------------------------------
(* The executor on top of the ledger.                                      *)

\* Each step of the executor is one transaction of the ledger, or none.
LEMMA LedgerStep ==
  ASSUME ConstantsOK, CallTyped, CallsNamed, ExecutorNext
  PROVE  [Next]_vars
<1>1. ASSUME NEW c \in Call, NEW kind \in CallKind,
             Execute(c, kind) \/ \E m \in Message : SendSystemText(c, kind, m)
      PROVE  UNCHANGED vars
  BY <1>1 DEF Execute, SendSystemText, vars
<1>2. ASSUME NEW c \in Call, AbortNotice(c)
      PROVE  UNCHANGED vars
  BY <1>2 DEF AbortNotice, vars
<1>3. ASSUME NEW c \in Call, CallSteps(c)
      PROVE  [Next]_vars
  <2>0. call[c].attempt \subseteq Attempt
    BY CallFields
  <2>1. CASE Begin(c)
    BY <2>1 DEF Begin, Next
  <2>2. ASSUME ReleasePending(c)
        PROVE  [Next]_vars
    BY <2>0, <2>2 DEF ReleasePending, Next
  <2>3. ASSUME StartAttempt(c)
        PROVE  [Next]_vars
    BY <2>0, <2>2, <2>3 DEF StartAttempt, Next
  <2>4. CASE Deliver(c) \/ Resolved(c) \/ Uploaded(c)
    BY <2>2, <2>3, <2>4 DEF Deliver, Resolved, Uploaded
  <2>5. CASE BeginNotice(c)
    <3>1. CASE UNCHANGED vars
      BY <3>1
    <3>2. ASSUME NEW a \in Attempt, ReserveStartedSystemAttempt(call[c].window, a, call[c].kind)
          PROVE  Next
      <4>1. call[c].kind \in SystemKind /\ call[c].window \in Message
        BY <2>5 DEF BeginNotice, AtHead, CallsNamed, ConstantsOK, Notice
      <4>2. QED
        BY <3>2, <4>1 DEF Next
    <3>3. QED
      BY <2>5, <3>1, <3>2 DEF BeginNotice
  <2>6. ASSUME NEW answer \in {"taken", "refused", "unknown"}, NEW seen \in Answer,
               Answered(c, answer, seen)
        PROVE  [Next]_vars
    <3>1. Outcome(seen) \in SettledState
      BY <2>6 DEF Answered, Outcome, SettledState
    <3>2. QED
      BY <2>0, <2>6, <3>1 DEF Answered, Next
  <2>7. QED
    BY <1>3, <2>1, <2>4, <2>5, <2>6 DEF CallSteps
<1>4. CASE Interference
  <2>1. ASSUME NEW m \in Message, FailInbound(m, {})
        PROVE  Next
    BY <2>1 DEF Next
  <2>2. QED
    BY <1>4, <2>1 DEF Interference, Next
<1>5. CASE NewSession
  BY <1>5 DEF NewSession, Next
<1>6. CASE Crash
  BY <1>6 DEF Crash, Next
<1>7. CASE Restarted
  BY <1>7 DEF Restarted, Next
<1>8. QED
  BY <1>1, <1>2, <1>3, <1>4, <1>5, <1>6, <1>7 DEF ExecutorNext

-----------------------------------------------------------------------------
(* What a transaction leaves of the reservations.                          *)

\* A reservation that is there afterwards was there before, in the same window, whose
\* generation is still the same; an attempt never changes its window.
Kept(a) ==
  /\ attempt[a].window \in Message => attempt'[a].window = attempt[a].window
  /\ attempt'[a].state = "pending" =>
       /\ attempt[a].state = "pending"
       /\ attempt'[a].window = attempt[a].window
       /\ window'[attempt[a].window].generation = window[attempt[a].window].generation
ReservationsKept == \A a \in Attempt : Kept(a)

\* A reservation is in some window; IInv says that it is open.
ReservedSomewhere == \A a \in Attempt : attempt[a].state = "pending" => attempt[a].window \in Message

LEMMA ReservedOpen ==
  ASSUME IInv, ReservedSomewhere, NEW a \in Attempt, attempt[a].state = "pending"
  PROVE  attempt[a].window \in Message /\ window[attempt[a].window].state = "open"
<1>1. attempt[a].window \in Message
  BY DEF ReservedSomewhere
<1>2. a \in Pending(attempt[a].window)
  BY DEF Pending, AttemptsIn
<1>3. QED
  BY <1>1, <1>2 DEF IInv, WindowLedger

\* The generation of a window is not among what its closing and its counters change.
LEMMA GenerationKept ==
  ASSUME TypeOK, NEW w \in Message
  PROVE  /\ \A state : [window[w] EXCEPT !.state = state, !.reserved = 0].generation
                         = window[w].generation
         /\ \A n : [window[w] EXCEPT !.reserved = n].generation = window[w].generation
         /\ \A n : [window[w] EXCEPT !.transmitted = n].generation = window[w].generation
         /\ \A n, k : [window[w] EXCEPT !.reserved = n, !.transmitted = k].generation
                        = window[w].generation
<1>1. window[w] \in WindowRow
  BY DEF TypeOK
<1>2. QED
  BY <1>1 DEF WindowRow

\* Rows that are settled or deleted reserve nothing.
LEMMA SettlingKeepsReservations ==
  ASSUME Settling, ReservedSomewhere,
         \A w \in Message : window[w].state = "open" => window'[w].generation = window[w].generation,
         IInv
  PROVE  ReservationsKept
<1>1. SUFFICES ASSUME NEW a \in Attempt, attempt'[a].state = "pending"
               PROVE  /\ attempt[a].state = "pending"
                      /\ attempt'[a].window = attempt[a].window
                      /\ window'[attempt[a].window].generation = window[attempt[a].window].generation
  BY DEF ReservationsKept, Kept, Settling
<1>2. attempt[a].state = "pending" /\ attempt'[a].window = attempt[a].window
  BY <1>1 DEF Settling
<1>3. QED
  BY <1>2, ReservedOpen

LEMMA UnchangedKeepsReservations ==
  ASSUME UNCHANGED <<attempt, window>>
  PROVE  ReservationsKept
BY DEF ReservationsKept, Kept

\* The transactions that go on beside the executor, and the restart.
LEMMA InterferenceKeeps ==
  ASSUME IInv, ReservedSomewhere, Interference \/ NewSession \/ Crash \/ Restarted
  PROVE  ReservationsKept
<1>0. TypeOK /\ RowsTellTruth
  BY DEF IInv
<1>1. ASSUME NEW page \in Page, NEW owner \in Message, CommitPollPage(page, owner)
      PROVE  ReservationsKept
  <2> DEFINE fresh == {page[i] : i \in Fresh(page)}
             retired == Retired(owner, fresh)
  <2>1. /\ attempt' = SetAttempts(UNION {Pending(w) : w \in retired}, "failed", "none")
        /\ account.active
    BY <1>1 DEF CommitPollPage
  <2>2. Settling
    <3>1. \A a \in UNION {Pending(w) : w \in retired} :
            a \in Attempt => attempt[a].state \in {"pending", "sending"}
      BY DEF Pending, AttemptsIn
    <3>2. QED
      BY <2>1, <3>1, <1>0, SettledRows DEF SettledState
  <2>3. ASSUME NEW w \in Message, window[w].state = "open"
        PROVE  window'[w].generation = window[w].generation
    <3>1. w \notin fresh
      <4>1. ASSUME w \in fresh
            PROVE  FALSE
        <5>1. Has(w, {"absent"})
          BY <4>1, <1>0, FreshMessages
        <5>2. window[w].state = "none"
          BY <5>1, <2>1 DEF IInv, WindowsAreFresh
        <5>3. QED
          BY <5>2, <2>3
      <4>2. QED
        BY <4>1
    <3>2. window'[w] = IF w \in retired
                       THEN [window[w] EXCEPT !.state = "superseded", !.reserved = 0]
                       ELSE window[w]
      BY <1>1, <3>1 DEF CommitPollPage
    <3>3. QED
      BY <3>2, <1>0, GenerationKept
  <2>4. QED
    BY <2>2, <2>3, SettlingKeepsReservations
<1>2. CASE RotateAccount
  <2>1. attempt' = SetAttempts(UNION {Pending(w) : w \in OpenWindows}, "failed", "none")
    BY <1>2 DEF RotateAccount
  <2>2. Settling
    <3>1. \A a \in UNION {Pending(w) : w \in OpenWindows} :
            a \in Attempt => attempt[a].state \in {"pending", "sending"}
      BY DEF Pending, AttemptsIn
    <3>2. QED
      BY <2>1, <3>1, <1>0, SettledRows DEF SettledState
  <2>3. ASSUME NEW w \in Message
        PROVE  window'[w].generation = window[w].generation
    <3>1. window'[w] = IF w \in OpenWindows
                       THEN [window[w] EXCEPT !.state = "cancelled", !.reserved = 0]
                       ELSE window[w]
      BY <1>2 DEF RotateAccount
    <3>2. QED
      BY <3>1, <1>0, GenerationKept
  <2>4. QED
    BY <2>2, <2>3, SettlingKeepsReservations
<1>3. CASE DeleteAccount
  <2>1. ASSUME NEW a \in Attempt
        PROVE  attempt'[a].state # "pending" /\ attempt'[a].window = attempt[a].window
    <3>1. attempt'[a] = IF attempt[a].state # "none"
                        THEN [NoAttempt EXCEPT !.state = "deleted", !.sent = attempt[a].sent,
                                               !.window = attempt[a].window]
                        ELSE attempt[a]
      BY <1>3 DEF DeleteAccount, DeleteAttempts
    <3>2. QED
      BY <3>1, <1>0 DEF NoAttempt, RowsTellTruth
  <2>2. QED
    BY <2>1 DEF ReservationsKept, Kept
<1>4. ASSUME NEW m \in Message, SuppressInbound(m)
      PROVE  ReservationsKept
  <2>1. attempt' = SetAttempts(AttemptsOf(m, {"pending"}), "failed", "none") /\ UNCHANGED window
    BY <1>4 DEF SuppressInbound
  <2>2. Settling
    BY <2>1, <1>0, SettledRows DEF SettledState, AttemptsOf
  <2>3. QED
    BY <2>1, <2>2, SettlingKeepsReservations
<1>5. ASSUME NEW old \in SUBSET Attempt, Cleanup(old)
      PROVE  ReservationsKept
  <2>1. attempt' = DeleteAttempts(old)
    BY <1>5 DEF Cleanup
  <2>2. Settling
    BY <2>1, <1>0, DroppedRows
  <2>3. ASSUME NEW w \in Message
        PROVE  window'[w].generation = window[w].generation
    <3>1. window'[w] = IF w \in Closable
                       THEN [window[w] EXCEPT !.state = "closed", !.reserved = 0]
                       ELSE window[w]
      BY <1>5 DEF Cleanup
    <3>2. QED
      BY <3>1, <1>0, GenerationKept
  <2>4. QED
    BY <2>2, <2>3, SettlingKeepsReservations
<1>6. ASSUME NEW m \in Message,
             \/ ClaimInbound(m) \/ FailInbound(m, {}) \/ FinalizeAgentExecution(m)
             \/ ExpireWindow(m) \/ CloseAgentSession
             \/ \E b \in Message : CreateAgentSession(m, b)
      PROVE  ReservationsKept
  BY <1>6, UnchangedKeepsReservations DEF ClaimInbound, FailInbound, FinalizeAgentExecution,
     ExpireWindow, CloseAgentSession, CreateAgentSession
<1>7. CASE CloseAgentSession
  BY <1>7, UnchangedKeepsReservations DEF CloseAgentSession
<1>8. ASSUME NEW settled \in SUBSET Message, RecoverStartup(settled, {})
      PROVE  ReservationsKept
  <2>1. attempt' = SetAttempts(Sending, "uncertain", "startup_recovery") /\ UNCHANGED window
    BY <1>8 DEF RecoverStartup
  <2>2. Settling
    BY <2>1, <1>0, SettledRows DEF SettledState, Sending
  <2>3. QED
    BY <2>1, <2>2, SettlingKeepsReservations
<1>9. CASE Restarted
  <2>1. attempt' = SetAttempts(UNION {Pending(w) : w \in Message}, "failed", "not_transmitted")
    BY <1>9 DEF Restarted, RecoverPendingAttempts
  <2>2. Settling
    <3>1. \A a \in UNION {Pending(w) : w \in Message} :
            a \in Attempt => attempt[a].state \in {"pending", "sending"}
      BY DEF Pending, AttemptsIn
    <3>2. QED
      BY <2>1, <3>1, <1>0, SettledRows DEF SettledState
  <2>3. ASSUME NEW w \in Message
        PROVE  window'[w].generation = window[w].generation
    <3>1. window'[w] = [window[w] EXCEPT !.reserved = window[w].reserved - Cardinality(Pending(w))]
      BY <1>9 DEF Restarted, RecoverPendingAttempts
    <3>2. QED
      BY <3>1, <1>0, GenerationKept
  <2>4. QED
    BY <2>2, <2>3, SettlingKeepsReservations
<1>10. CASE Interference
  BY <1>1, <1>2, <1>3, <1>4, <1>5, <1>6, <1>7, <1>10 DEF Interference
<1>11. CASE NewSession
  BY <1>6, <1>11 DEF NewSession
<1>12. CASE Crash
  BY <1>8, <1>12 DEF Crash
<1>13. QED
  BY <1>9, <1>10, <1>11, <1>12

\* The sends of the executor itself: only prepareReplyAttempt reserves anything.
LEMMA SendKeeps ==
  ASSUME IInv, ReservedSomewhere, NEW a \in Attempt,
         \/ RejectReplyAttempt(a)
         \/ StartReplyAttempt(a)
         \/ ReleasePendingAttempt(a)
         \/ \E w \in Message, kind \in SystemKind : ReserveStartedSystemAttempt(w, a, kind)
         \/ \E state \in SettledState : FinishSend(a, state)
  PROVE  /\ ReservationsKept /\ attempt'[a].state # "pending"
         /\ UNCHANGED <<phase, account, session, lapsed>>
<1>0. TypeOK /\ RowsTellTruth
  BY DEF IInv
<1>1. ASSUME attempt'[a].state # "pending",
             attempt[a].window \in Message => attempt'[a].window = attempt[a].window,
             \A x \in Attempt \ {a} : attempt'[x] = attempt[x],
             \A w \in Message : window'[w].generation = window[w].generation
      PROVE  ReservationsKept
  <2>1. SUFFICES ASSUME NEW x \in Attempt, attempt'[x].state = "pending"
                 PROVE  /\ attempt[x].state = "pending"
                        /\ attempt'[x].window = attempt[x].window
                        /\ window'[attempt[x].window].generation = window[attempt[x].window].generation
    BY <1>1 DEF ReservationsKept, Kept
  <2>2. x # a /\ attempt'[x] = attempt[x]
    BY <1>1, <2>1
  <2>3. QED
    BY <2>1, <2>2, <1>1 DEF ReservedSomewhere
<1>2. CASE RejectReplyAttempt(a)
  <2>1. /\ NewAttempt(a, "failed", "not_transmitted", "mcp_tool", session.source, session.boundary)
        /\ UNCHANGED <<phase, account, window, session, lapsed>>
    BY <1>2 DEF RejectReplyAttempt
  <2>2. /\ attempt'[a].state = "failed" /\ attempt[a] = NoAttempt
        /\ \A x \in Attempt \ {a} : attempt'[x] = attempt[x]
    BY <2>1, <1>0, NewRow
  <2>3. attempt[a].window \notin Message
    BY <2>2, NoAttemptFacts, MessageAssumption
  <2>4. QED
    BY <2>1, <2>2, <2>3, <1>1
<1>3. CASE StartReplyAttempt(a)
  <2>1. session.boundary \in Message
    BY <1>0, <1>3, SessionTypes DEF StartReplyAttempt, SessionWindowValid
  <2>2. /\ attempt'[a].state = "sending" /\ attempt'[a].window = attempt[a].window
        /\ \A x \in Attempt \ {a} : attempt'[x] = attempt[x]
    <3>1. attempt' = [attempt EXCEPT ![a] = [attempt[a] EXCEPT !.state = "sending", !.sent = TRUE]]
      BY <1>0, <1>3 DEF StartReplyAttempt, TypeOK
    <3>2. /\ [attempt[a] EXCEPT !.state = "sending", !.sent = TRUE].state = "sending"
          /\ [attempt[a] EXCEPT !.state = "sending", !.sent = TRUE].window = attempt[a].window
      BY <1>0 DEF TypeOK, AttemptRow
    <3>3. QED
      BY <3>1, <3>2, <1>0 DEF TypeOK
  <2>3. \A w \in Message : window'[w].generation = window[w].generation
    <3>1. window' = [window EXCEPT ![session.boundary] =
            [window[session.boundary] EXCEPT !.reserved = @ - 1, !.transmitted = @ + 1]]
      BY <1>0, <1>3, <2>1 DEF StartReplyAttempt, TypeOK
    <3>2. QED
      BY <3>1, <2>1, <1>0, GenerationKept DEF TypeOK
  <2>4. QED
    BY <2>2, <2>3, <1>1, <1>3 DEF StartReplyAttempt
<1>4. CASE ReleasePendingAttempt(a)
  <2>1. attempt[a].window \in Message /\ attempt[a].state = "pending"
    BY <1>4 DEF ReleasePendingAttempt, ReservedSomewhere
  <2>2. /\ attempt'[a].state = "failed" /\ attempt'[a].window = attempt[a].window
        /\ \A x \in Attempt \ {a} : attempt'[x] = attempt[x]
    <3>1. attempt' = SetAttempts({a}, "failed", "not_transmitted")
      BY <1>4 DEF ReleasePendingAttempt
    <3>2. /\ [attempt[a] EXCEPT !.state = "failed", !.code = "not_transmitted"].state = "failed"
          /\ [attempt[a] EXCEPT !.state = "failed", !.code = "not_transmitted"].window
               = attempt[a].window
      BY <1>0 DEF TypeOK, AttemptRow
    <3>3. QED
      BY <3>1, <3>2 DEF SetAttempts
  <2>3. \A w \in Message : window'[w].generation = window[w].generation
    <3>1. window' = [window EXCEPT ![attempt[a].window] =
            [window[attempt[a].window] EXCEPT !.reserved = @ - 1]]
      BY <1>0, <1>4, <2>1 DEF ReleasePendingAttempt, TypeOK
    <3>2. QED
      BY <3>1, <2>1, <1>0, GenerationKept DEF TypeOK
  <2>4. QED
    BY <2>2, <2>3, <1>1, <1>4 DEF ReleasePendingAttempt
<1>5. ASSUME NEW w \in Message, NEW kind \in SystemKind, ReserveStartedSystemAttempt(w, a, kind)
      PROVE  /\ ReservationsKept /\ attempt'[a].state # "pending"
             /\ UNCHANGED <<phase, account, session, lapsed>>
  <2>1. /\ attempt'[a].state = "sending" /\ attempt[a].window \notin Message
        /\ \A x \in Attempt \ {a} : attempt'[x] = attempt[x]
    <3>1. NewAttempt(a, "sending", "none", kind, w, w)
      BY <1>5 DEF ReserveStartedSystemAttempt
    <3>2. QED
      BY <3>1, <1>0, NewRow, NoAttemptFacts, MessageAssumption
  <2>2. \A x \in Message : window'[x].generation = window[x].generation
    <3>1. window' = [window EXCEPT ![w] = [window[w] EXCEPT !.transmitted = @ + 1]]
      BY <1>0, <1>5 DEF ReserveStartedSystemAttempt, TypeOK
    <3>2. QED
      BY <3>1, <1>0, GenerationKept DEF TypeOK
  <2>3. QED
    BY <2>1, <2>2, <1>1, <1>5 DEF ReserveStartedSystemAttempt
<1>6. ASSUME NEW state \in SettledState, FinishSend(a, state)
      PROVE  /\ ReservationsKept /\ attempt'[a].state # "pending"
             /\ UNCHANGED <<phase, account, session, lapsed>>
  <2>1. attempt' = SetAttempts({a}, state, "none")
        /\ UNCHANGED <<phase, account, window, session, lapsed>>
    BY <1>6 DEF FinishSend
  <2>2. /\ attempt'[a].state = state /\ attempt'[a].window = attempt[a].window
        /\ \A x \in Attempt \ {a} : attempt'[x] = attempt[x]
    <3>1. /\ [attempt[a] EXCEPT !.state = state, !.code = "none"].state = state
          /\ [attempt[a] EXCEPT !.state = state, !.code = "none"].window = attempt[a].window
      BY <1>0 DEF TypeOK, AttemptRow
    <3>2. QED
      BY <2>1, <3>1 DEF SetAttempts
  <2>3. QED
    BY <2>1, <2>2, <1>1 DEF SettledState
<1>7. QED
  BY <1>2, <1>3, <1>4, <1>5, <1>6, <1>1

\* What prepareReplyAttempt reserves, and that it leaves the other reservations alone.
LEMMA PrepareReserves ==
  ASSUME IInv, ReservedSomewhere, NEW a \in Attempt, PrepareReplyAttempt(a)
  PROVE  /\ attempt'[a].state = "pending" /\ attempt'[a].window = session.boundary
         /\ session.boundary \in Message
         /\ window'[session.boundary].generation = account.generation
         /\ \A x \in Attempt \ {a} : attempt'[x] = attempt[x]
         /\ \A w \in Message : window'[w].generation = window[w].generation
         /\ UNCHANGED <<phase, account, session, lapsed>>
<1>0. TypeOK /\ RowsTellTruth
  BY DEF IInv
<1>1. session.boundary \in Message
  BY <1>0, SessionTypes DEF PrepareReplyAttempt, SessionWindowValid
<1>2. /\ attempt'[a].state = "pending" /\ attempt'[a].window = session.boundary
      /\ \A x \in Attempt \ {a} : attempt'[x] = attempt[x]
  <2>1. NewAttempt(a, "pending", "none", "mcp_tool", session.source, session.boundary)
    BY DEF PrepareReplyAttempt
  <2>2. QED
    BY <2>1, <1>0, NewRow
<1>3. \A w \in Message : window'[w].generation = window[w].generation
  <2>1. window' = [window EXCEPT ![session.boundary] =
          [window[session.boundary] EXCEPT !.reserved = @ + 1]]
    BY <1>0, <1>1 DEF PrepareReplyAttempt, TypeOK
  <2>2. QED
    BY <2>1, <1>1, <1>0, GenerationKept DEF TypeOK
<1>4. account.generation = window[session.boundary].generation
  BY DEF PrepareReplyAttempt, SessionWindowValid, SessionActive
<1>5. UNCHANGED <<phase, account, session, lapsed>>
  BY DEF PrepareReplyAttempt
<1>6. QED
  BY <1>1, <1>2, <1>3, <1>4, <1>5

-----------------------------------------------------------------------------
(* The inductive invariant.                                                *)

\* A call between its reservation and the start of its send, and the attempt it holds.
Holding == {"reserved", "resolving", "uploading"}
Holds(c, a) == call[c].at \in Holding /\ call[c].attempt = {a}

\* What a call opened its delivery context for is what its attempt is charged to.
ContextsMatch ==
  \A c \in Call, a \in Attempt :
    Holds(c, a) =>
      /\ attempt[a].window = call[c].window
      /\ attempt[a].state = "pending"
           => call[c].generation = window[call[c].window].generation

\* A session token stands for the session there is, which has the window of the call.
TokensCurrent ==
  \A c \in tokens : /\ call[c].at # "new"
                    /\ session # NoSession /\ call[c].window = session.boundary

\* Nothing is known of a call before it ends.
Unanswered ==
  \A c \in Call : call[c].at # "done" => call[c].receipt = "none" /\ call[c].answer = "none"

ExecInv ==
  /\ IInv
  /\ CallTyped /\ CallsNamed
  /\ ReservedSomewhere /\ ContextsMatch /\ ReservationsAreHeld
  /\ TokensCurrent
  /\ Unanswered /\ ReceiptsAreTruthful

\* Its parts that concern the ledger, and those that concern the calls.
Reservations == ReservedSomewhere /\ ContextsMatch /\ ReservationsAreHeld
Calls == CallTyped /\ CallsNamed /\ TokensCurrent /\ Unanswered /\ ReceiptsAreTruthful

\* The part of Calls for one call, but for its types.
CallSound(c) ==
  /\ call[c].at \notin {"new", "lost"} => call[c].kind \in CallKind /\ call[c].window \in Message
  /\ c \in tokens => /\ call[c].at # "new"
                     /\ session # NoSession /\ call[c].window = session.boundary
  /\ call[c].at # "done" => call[c].receipt = "none" /\ call[c].answer = "none"
  /\ call[c].receipt = "accepted" => call[c].answer = "taken"
  /\ call[c].receipt = "failed" => call[c].answer \in {"none", "refused"}

LEMMA CallsOfAll ==
  /\ Calls <=> CallTyped /\ \A c \in Call : CallSound(c)
  /\ Calls' <=> CallTyped' /\ \A c \in Call : CallSound(c)'
BY DEF Calls, CallSound, CallTyped, CallsNamed, TokensCurrent, Unanswered, ReceiptsAreTruthful

-----------------------------------------------------------------------------
(* Reservations.                                                           *)

\* A step of call c that reserves nothing: either the call keeps what it holds, or its attempt
\* is reserved no more.
LEMMA ReservationsStep ==
  ASSUME Reservations, CallsNamed, ReservationsKept, UNCHANGED phase, NEW c \in Call,
         OthersStay(c),
         \A a \in Attempt :
           /\ Holds(c, a) /\ attempt'[a].state = "pending" => Holds(c, a)'
           /\ Holds(c, a)'
                => /\ Holds(c, a)
                   /\ call'[c].window = call[c].window /\ call'[c].generation = call[c].generation
  PROVE  Reservations'
<1>1. ReservedSomewhere'
  BY DEF Reservations, ReservedSomewhere, ReservationsKept, Kept
<1>2. ReservationsAreHeld'
  <2>1. SUFFICES ASSUME phase = "running", NEW a \in Attempt, attempt'[a].state = "pending"
                 PROVE  \E d \in Call : Holds(d, a)'
    BY DEF ReservationsAreHeld, Holds, Holding
  <2>2. attempt[a].state = "pending"
    BY <2>1 DEF ReservationsKept, Kept
  <2>3. PICK d \in Call : Holds(d, a)
    BY <2>1, <2>2 DEF Reservations, ReservationsAreHeld, Holds, Holding
  <2>4. CASE d = c
    BY <2>1, <2>3, <2>4
  <2>5. CASE d # c
    BY <2>3, <2>5 DEF OthersStay, Holds
  <2>6. QED
    BY <2>4, <2>5
<1>3. ContextsMatch'
  <2>1. SUFFICES ASSUME NEW d \in Call, NEW a \in Attempt, Holds(d, a)'
                 PROVE  /\ attempt'[a].window = call'[d].window
                        /\ attempt'[a].state = "pending"
                             => call'[d].generation = window'[call'[d].window].generation
    BY DEF ContextsMatch
  <2>2. /\ Holds(d, a)
        /\ call'[d].window = call[d].window /\ call'[d].generation = call[d].generation
    BY <2>1 DEF OthersStay, Holds
  <2>3. /\ attempt[a].window = call[d].window /\ call[d].window \in Message
        /\ attempt[a].state = "pending"
             => call[d].generation = window[call[d].window].generation
    BY <2>2 DEF Reservations, ContextsMatch, CallsNamed, Holds, Holding
  <2>4. QED
    BY <2>2, <2>3 DEF ReservationsKept, Kept
<1>4. QED
  BY <1>1, <1>2, <1>3 DEF Reservations

\* The same when no call moves.
LEMMA ReservationsBeside ==
  ASSUME Reservations, CallsNamed, ReservationsKept, UNCHANGED <<phase, call>>
  PROVE  Reservations'
<1>1. ReservedSomewhere'
  BY DEF Reservations, ReservedSomewhere, ReservationsKept, Kept
<1>2. ReservationsAreHeld'
  BY DEF Reservations, ReservationsAreHeld, ReservationsKept, Kept
<1>3. ContextsMatch'
  <2>1. SUFFICES ASSUME NEW d \in Call, NEW a \in Attempt, Holds(d, a)
                 PROVE  /\ attempt'[a].window = call[d].window
                        /\ attempt'[a].state = "pending"
                             => call[d].generation = window'[call[d].window].generation
    BY DEF ContextsMatch, Holds
  <2>2. /\ attempt[a].window = call[d].window /\ call[d].window \in Message
        /\ attempt[a].state = "pending"
             => call[d].generation = window[call[d].window].generation
    BY <2>1 DEF Reservations, ContextsMatch, CallsNamed, Holds, Holding
  <2>3. QED
    BY <2>2 DEF ReservationsKept, Kept
<1>4. QED
  BY <1>1, <1>2, <1>3 DEF Reservations

LEMMA ReservationsPrepared ==
  ASSUME IInv, Reservations, Calls, NEW c \in Call, NEW a \in Attempt, c \in tokens,
         call[c].at = "queued", PrepareReplyAttempt(a), Takes(c, "reserved", a), UNCHANGED tokens
  PROVE  Reservations'
<1>0. /\ CallTyped /\ TypeOK /\ "reserved" \in At
      /\ call[c].window = session.boundary /\ attempt[a] = NoAttempt
  BY DEF Calls, IInv, At, TokensCurrent, PrepareReplyAttempt, NewAttempt, RowsTellTruth
<1>1. /\ OthersStay(c) /\ Holds(c, a)'
      /\ call'[c].generation = account.generation /\ call'[c].window = call[c].window
  BY <1>0, Taken DEF Holds, Holding
<1>2. /\ attempt'[a].state = "pending" /\ attempt'[a].window = session.boundary
      /\ session.boundary \in Message
      /\ window'[session.boundary].generation = account.generation
      /\ \A x \in Attempt \ {a} : attempt'[x] = attempt[x]
      /\ \A w \in Message : window'[w].generation = window[w].generation
  BY PrepareReserves DEF Reservations
<1>3. ReservedSomewhere'
  BY <1>2 DEF Reservations, ReservedSomewhere
<1>4. ReservationsAreHeld'
  <2>1. SUFFICES ASSUME NEW x \in Attempt, attempt'[x].state = "pending"
                 PROVE  \E d \in Call : Holds(d, x)'
    BY DEF ReservationsAreHeld, Holds, Holding
  <2>2. CASE x = a
    BY <1>1, <2>2
  <2>3. CASE x # a
    <3>1. attempt[x].state = "pending" /\ phase = "running"
      BY <1>2, <2>1, <2>3 DEF PrepareReplyAttempt
    <3>2. PICK d \in Call : Holds(d, x)
      BY <3>1 DEF Reservations, ReservationsAreHeld, Holds, Holding
    <3>3. d # c
      BY <3>2 DEF Holds, Holding
    <3>4. QED
      BY <1>1, <3>2, <3>3 DEF OthersStay, Holds
  <2>4. QED
    BY <2>2, <2>3
<1>5. ContextsMatch'
  <2>1. SUFFICES ASSUME NEW d \in Call, NEW x \in Attempt, Holds(d, x)'
                 PROVE  /\ attempt'[x].window = call'[d].window
                        /\ attempt'[x].state = "pending"
                             => call'[d].generation = window'[call'[d].window].generation
    BY DEF ContextsMatch
  <2>2. CASE d = c
    <3>1. x = a
      BY <1>1, <2>1, <2>2 DEF Holds
    <3>2. QED
      BY <3>1, <1>0, <1>1, <1>2, <2>2
  <2>3. CASE d # c
    <3>1. Holds(d, x) /\ call'[d] = call[d]
      BY <1>1, <2>1, <2>3 DEF OthersStay, Holds
    <3>2. /\ attempt[x].window = call[d].window
          /\ attempt[x].state = "pending"
               => call[d].generation = window[call[d].window].generation
          /\ call[d].window \in Message
      BY <3>1 DEF Reservations, ContextsMatch, Calls, CallsNamed, Holds, Holding
    <3>3. x # a
      BY <1>0, <3>2, MessageAssumption, NoAttemptFacts
    <3>4. QED
      BY <1>2, <3>1, <3>2, <3>3
  <2>4. QED
    BY <2>2, <2>3
<1>6. QED
  BY <1>3, <1>4, <1>5 DEF Reservations

-----------------------------------------------------------------------------
(* The steps of one call.                                                  *)

\* A step of call c that keeps the session leaves the other calls sound.
LEMMA CallsStep ==
  ASSUME Calls, UNCHANGED session, NEW c \in Call, OthersStay(c), CallTyped',
         tokens' \subseteq tokens \cup {c}, CallSound(c)'
  PROVE  Calls'
<1>1. ASSUME NEW d \in Call \ {c}
      PROVE  CallSound(d)'
  <2>1. CallSound(d) /\ call'[d] = call[d]
    BY CallsOfAll DEF OthersStay
  <2>2. d \in tokens' => d \in tokens
    OBVIOUS
  <2>3. QED
    BY <2>1, <2>2 DEF CallSound
<1>2. QED
  BY <1>1, CallsOfAll

\* A call that ends with nothing known of its message, and not as accepted.
LEMMA EndsSound ==
  ASSUME Calls, NEW c \in Call, call[c].at \notin {"new", "lost", "done"},
         NEW r \in {"failed", "error"}, Return(c, r), UNCHANGED session
  PROVE  Calls' /\ OthersStay(c) /\ call'[c].at = "done"
<1>0. CallTyped /\ CallSound(c) /\ r \in Receipt
  BY CallsOfAll DEF Receipt
<1>1. UNCHANGED tokens /\ call[c].answer \in Answer
  BY <1>0, CallFields DEF Return
<1>2. Ends(c, r, call[c].answer)
  BY <1>0, Returned
<1>3. /\ CallTyped' /\ OthersStay(c)
      /\ call'[c].at = "done" /\ call'[c].receipt = r /\ call'[c].answer = call[c].answer
      /\ call'[c].window = call[c].window /\ call'[c].kind = call[c].kind
  BY <1>0, <1>1, <1>2, Ended
<1>4. CallSound(c)'
  BY <1>0, <1>1, <1>3 DEF CallSound
<1>5. QED
  BY <1>1, <1>3, <1>4, CallsStep

\* A call moves on with what it holds.
LEMMA AdvanceSound ==
  ASSUME Calls, NEW c \in Call, call[c].at \in Holding,
         NEW at \in {"resolving", "uploading", "transmitting"}, Advance(c, at), UNCHANGED session
  PROVE  /\ Calls' /\ OthersStay(c) /\ call'[c].at = at
         /\ call'[c].window = call[c].window /\ call'[c].generation = call[c].generation
         /\ call'[c].attempt = call[c].attempt
<1>0. CallTyped /\ CallSound(c) /\ at \in At
  BY CallsOfAll DEF At
<1>1. /\ CallTyped' /\ OthersStay(c) /\ UNCHANGED tokens
      /\ call'[c].at = at
      /\ call'[c].window = call[c].window /\ call'[c].kind = call[c].kind
      /\ call'[c].generation = call[c].generation
      /\ call'[c].attempt = call[c].attempt
      /\ call'[c].receipt = call[c].receipt /\ call'[c].answer = call[c].answer
  BY <1>0, Advanced
<1>2. CallSound(c)'
  BY <1>0, <1>1 DEF CallSound, Holding
<1>3. Calls'
  BY <1>1, <1>2, CallsStep
<1>4. QED
  BY <1>1, <1>3

\* The reservation is given back, or the ledger gave it up already.
LEMMA ReleaseStep ==
  ASSUME IInv, Reservations, Calls, NEW c \in Call, call[c].at \in Holding, ReleasePending(c)
  PROVE  Reservations' /\ Calls'
<1>0. call[c].attempt \subseteq Attempt /\ \A a, b \in call[c].attempt : a = b
  BY CallFields DEF Calls
<1>1. /\ ReservationsKept /\ UNCHANGED <<phase, session>>
      /\ \A a \in call[c].attempt : attempt'[a].state # "pending"
  <2>1. ASSUME NEW a \in call[c].attempt, ReleasePendingAttempt(a)
        PROVE  /\ ReservationsKept /\ UNCHANGED <<phase, session>>
               /\ attempt'[a].state # "pending"
    <3>1. a \in Attempt
      BY <1>0
    <3>2. QED
      BY <2>1, <3>1, SendKeeps DEF Reservations
  <2>2. ASSUME \A a \in call[c].attempt : attempt[a].state # "pending", UNCHANGED vars
        PROVE  /\ ReservationsKept /\ UNCHANGED <<phase, session>>
               /\ \A a \in call[c].attempt : attempt'[a].state # "pending"
    BY <2>2, UnchangedKeepsReservations DEF vars
  <2>3. QED
    BY <1>0, <2>1, <2>2 DEF ReleasePending
<1>2. Calls' /\ OthersStay(c) /\ call'[c].at = "done"
  BY <1>1, EndsSound DEF ReleasePending, Holding
<1>3. Reservations'
  BY <1>1, <1>2, ReservationsStep DEF Calls, Holds, Holding
<1>4. QED
  BY <1>2, <1>3

\* The call moves on; the ledger does not change.
LEMMA MovesOn ==
  ASSUME Reservations, Calls, NEW c \in Call, call[c].at \in Holding,
         NEW at \in {"resolving", "uploading"}, Advance(c, at), UNCHANGED vars
  PROVE  Reservations' /\ Calls'
<1>1. /\ Calls' /\ OthersStay(c) /\ call'[c].at = at
      /\ call'[c].window = call[c].window /\ call'[c].generation = call[c].generation
      /\ call'[c].attempt = call[c].attempt
  BY AdvanceSound DEF vars
<1>2. ReservationsKept /\ UNCHANGED phase
  BY UnchangedKeepsReservations DEF vars
<1>3. \A a \in Attempt : Holds(c, a)' <=> Holds(c, a)
  BY <1>1 DEF Holds, Holding
<1>4. Reservations'
  BY <1>1, <1>2, <1>3, ReservationsStep DEF Calls
<1>5. QED
  BY <1>1, <1>4

\* The send starts, or the reservation is given back.
LEMMA StartStep ==
  ASSUME IInv, Reservations, Calls, NEW c \in Call, call[c].at \in Holding, StartAttempt(c)
  PROVE  Reservations' /\ Calls'
<1>1. CASE ReleasePending(c)
  BY <1>1, ReleaseStep
<1>2. ASSUME NEW a \in call[c].attempt, StartReplyAttempt(a), Advance(c, "transmitting")
      PROVE  Reservations' /\ Calls'
  <2>1. a \in Attempt /\ \A b \in call[c].attempt : a = b
    BY CallFields DEF Calls
  <2>2. ReservationsKept /\ attempt'[a].state # "pending" /\ UNCHANGED <<phase, session>>
    BY <1>2, <2>1, SendKeeps DEF Reservations
  <2>3. Calls' /\ OthersStay(c) /\ call'[c].at = "transmitting"
    BY <1>2, <2>2, AdvanceSound
  <2>4. Reservations'
    BY <2>1, <2>2, <2>3, ReservationsStep DEF Calls, Holds, Holding
  <2>5. QED
    BY <2>3, <2>4
<1>3. QED
  BY <1>1, <1>2 DEF StartAttempt

LEMMA HeldSteps ==
  ASSUME IInv, Reservations, Calls, NEW c \in Call, Deliver(c) \/ Resolved(c) \/ Uploaded(c)
  PROVE  Reservations' /\ Calls'
<1>1. call[c].at \in Holding
  BY DEF Deliver, Resolved, Uploaded, Holding
<1>2. CASE ReleasePending(c)
  BY <1>1, <1>2, ReleaseStep
<1>3. CASE StartAttempt(c)
  BY <1>1, <1>3, StartStep
<1>4. CASE UNCHANGED vars /\ \E at \in {"resolving", "uploading"} : Advance(c, at)
  BY <1>1, <1>4, MovesOn
<1>5. QED
  BY <1>2, <1>3, <1>4 DEF Deliver, Resolved, Uploaded

\* A call whose turn has not come, or whose message is on its way, holds nothing: a step of
\* the ledger for it that reserves nothing leaves the reservations to the others.
LEMMA ReservationsElsewhere ==
  ASSUME Reservations, CallsNamed, ReservationsKept, UNCHANGED phase, NEW c \in Call,
         OthersStay(c), call[c].at \notin Holding, call'[c].at \notin Holding
  PROVE  Reservations'
BY ReservationsStep DEF Holds

LEMMA BeginStep ==
  ASSUME IInv, Reservations, Calls, NEW c \in Call, Begin(c)
  PROVE  Reservations' /\ Calls'
<1>0. /\ CallTyped /\ CallSound(c) /\ CallsNamed /\ TypeOK
      /\ call[c].at = "queued" /\ call[c].at \notin Holding
  BY CallsOfAll DEF Begin, AtHead, Calls, Holding, IInv
<1>1. ASSUME Return(c, "failed"), ReservationsKept, UNCHANGED <<phase, session>>
      PROVE  Reservations' /\ Calls'
  <2>1. Calls' /\ OthersStay(c) /\ call'[c].at = "done"
    BY <1>0, <1>1, EndsSound
  <2>2. Reservations'
    BY <1>0, <1>1, <2>1, ReservationsElsewhere DEF Holding
  <2>3. QED
    BY <2>1, <2>2
<1>2. CASE Return(c, "failed") /\ UNCHANGED vars
  BY <1>1, <1>2, UnchangedKeepsReservations DEF vars
<1>3. ASSUME NEW a \in Attempt, RejectReplyAttempt(a), Return(c, "failed")
      PROVE  Reservations' /\ Calls'
  BY <1>1, <1>3, SendKeeps DEF Reservations
<1>4. ASSUME NEW a \in Attempt, c \in tokens, PrepareReplyAttempt(a),
             Takes(c, "reserved", a), UNCHANGED tokens
      PROVE  Reservations' /\ Calls'
  <2>1. Reservations'
    BY <1>0, <1>4, ReservationsPrepared
  <2>2. "reserved" \in At
    BY DEF At
  <2>3. /\ CallTyped' /\ OthersStay(c) /\ call'[c].at = "reserved"
        /\ call'[c].window = call[c].window /\ call'[c].kind = call[c].kind
        /\ call'[c].receipt = call[c].receipt /\ call'[c].answer = call[c].answer
    BY <1>0, <1>4, <2>2, Taken
  <2>4. UNCHANGED session
    BY <1>4 DEF PrepareReplyAttempt
  <2>5. CallSound(c)'
    BY <1>0, <1>4, <2>3, <2>4 DEF CallSound
  <2>6. QED
    BY <1>4, <2>1, <2>3, <2>4, <2>5, CallsStep
<1>5. QED
  BY <1>2, <1>3, <1>4 DEF Begin, Usable, Takes

LEMMA NoticeStep ==
  ASSUME ConstantsOK, IInv, Reservations, Calls, NEW c \in Call, BeginNotice(c)
  PROVE  Reservations' /\ Calls'
<1>0. /\ CallTyped /\ CallSound(c) /\ CallsNamed /\ TypeOK /\ "transmitting" \in At
      /\ call[c].at = "queued" /\ call[c].at \notin Holding
      /\ call[c].window \in Message /\ call[c].kind \in SystemKind
  BY CallsOfAll DEF BeginNotice, AtHead, Calls, Holding, IInv, At, CallSound, ConstantsOK, Notice
<1>1. CASE Return(c, "error") /\ UNCHANGED vars
  <2>1. Calls' /\ OthersStay(c) /\ call'[c].at = "done"
    BY <1>0, <1>1, EndsSound DEF vars
  <2>2. ReservationsKept /\ UNCHANGED phase
    BY <1>1, UnchangedKeepsReservations DEF vars
  <2>3. QED
    BY <1>0, <2>1, <2>2, ReservationsElsewhere DEF Holding
<1>2. ASSUME NEW a \in Attempt, ReserveStartedSystemAttempt(call[c].window, a, call[c].kind),
             Takes(c, "transmitting", a), UNCHANGED tokens
      PROVE  Reservations' /\ Calls'
  <2>1. ReservationsKept /\ UNCHANGED <<phase, session>>
    BY <1>0, <1>2, SendKeeps DEF Reservations
  <2>2. /\ CallTyped' /\ OthersStay(c) /\ call'[c].at = "transmitting"
        /\ call'[c].window = call[c].window /\ call'[c].kind = call[c].kind
        /\ call'[c].receipt = call[c].receipt /\ call'[c].answer = call[c].answer
    BY <1>0, <1>2, Taken
  <2>3. CallSound(c)'
    BY <1>0, <1>2, <2>1, <2>2 DEF CallSound
  <2>4. Calls'
    BY <1>2, <2>1, <2>2, <2>3, CallsStep
  <2>5. Reservations'
    BY <1>0, <2>1, <2>2, ReservationsElsewhere DEF Holding
  <2>6. QED
    BY <2>4, <2>5
<1>3. QED
  BY <1>1, <1>2 DEF BeginNotice, Takes

\* What an answer is worth, whether it is seen or not.
LEMMA AnswerStep ==
  ASSUME IInv, Reservations, Calls, NEW c \in Call,
         NEW answer \in {"taken", "refused", "unknown"}, NEW seen \in Answer,
         Answered(c, answer, seen)
  PROVE  Reservations' /\ Calls'
<1>0. /\ CallTyped /\ CallSound(c) /\ CallsNamed /\ answer \in Answer
      /\ call[c].at = "transmitting" /\ call[c].at \notin Holding
      /\ call[c].attempt \subseteq Attempt
  BY CallsOfAll, CallFields DEF Answered, Calls, Holding, Answer
<1>1. PICK a \in call[c].attempt, r \in {"error", Outcome(seen)} :
        /\ IF r = "error" THEN UNCHANGED vars ELSE FinishSend(a, r)
        /\ Ends(c, r, answer) /\ UNCHANGED tokens
  BY DEF Answered, Ends
<1>2. /\ r \in Receipt /\ (r # "error" => r \in SettledState)
      /\ r = "accepted" => answer = "taken"
      /\ r = "failed" => answer = "refused"
  BY DEF Answered, Outcome, Receipt, SettledState
<1>3. ReservationsKept /\ UNCHANGED <<phase, session>>
  <2>1. CASE r = "error"
    BY <1>1, <2>1, UnchangedKeepsReservations DEF vars
  <2>2. CASE r # "error"
    BY <1>0, <1>1, <1>2, <2>2, SendKeeps DEF Reservations
  <2>3. QED
    BY <2>1, <2>2
<1>4. /\ CallTyped' /\ OthersStay(c)
      /\ call'[c].at = "done" /\ call'[c].receipt = r /\ call'[c].answer = answer
      /\ call'[c].window = call[c].window /\ call'[c].kind = call[c].kind
  BY <1>0, <1>1, <1>2, Ended
<1>5. CallSound(c)'
  BY <1>0, <1>1, <1>2, <1>3, <1>4 DEF CallSound
<1>6. Calls'
  BY <1>1, <1>3, <1>4, <1>5, CallsStep
<1>7. Reservations'
  BY <1>0, <1>3, <1>4, ReservationsElsewhere DEF Holding
<1>8. QED
  BY <1>6, <1>7

LEMMA ArrivalStep ==
  ASSUME ConstantsOK, IInv, Reservations, Calls, NEW c \in Call, NEW kind \in CallKind,
         Execute(c, kind) \/ \E m \in Message : SendSystemText(c, kind, m)
  PROVE  Reservations' /\ Calls'
<1>0. /\ CallTyped /\ CallSound(c) /\ CallsNamed /\ TypeOK
      /\ call[c].at = "new" /\ call[c].at \notin Holding /\ kind \in Tool \cup Notice
      /\ UNCHANGED vars
  BY CallsOfAll DEF Execute, SendSystemText, Calls, Holding, IInv
<1>1. PICK w \in Message :
        /\ Arrives(c, kind, w)
        /\ \/ UNCHANGED tokens
           \/ tokens' = tokens \cup {c} /\ session # NoSession /\ w = session.boundary
  <2>1. CASE Execute(c, kind)
    <3>1. session # NoSession
      BY <2>1 DEF Execute
    <3>2. session.boundary \in Message
      BY <1>0, <3>1 DEF TypeOK, SessionRow
    <3>3. QED
      BY <2>1, <3>1, <3>2 DEF Execute, Arrives
  <2>2. CASE \E m \in Message : SendSystemText(c, kind, m)
    BY <2>2 DEF SendSystemText, Arrives
  <2>3. QED
    BY <2>1, <2>2
<1>2. /\ call' \in [Call -> CallRow] /\ OthersStay(c)
      /\ call'[c].at = "queued" /\ call'[c].window = w /\ call'[c].kind = kind
      /\ call'[c].receipt = call[c].receipt /\ call'[c].answer = call[c].answer
  BY <1>0, <1>1, Arrived
<1>3. UNCHANGED <<phase, session>> /\ ReservationsKept
  BY <1>0, UnchangedKeepsReservations DEF vars
<1>4. CallTyped' /\ tokens' \subseteq tokens \cup {c}
  BY <1>0, <1>1, <1>2 DEF CallTyped
<1>5. CallSound(c)'
  BY <1>0, <1>1, <1>2, <1>3 DEF CallSound
<1>6. Calls'
  BY <1>2, <1>3, <1>4, <1>5, CallsStep
<1>7. Reservations'
  BY <1>0, <1>2, <1>3, ReservationsElsewhere DEF Holding
<1>8. QED
  BY <1>6, <1>7

LEMMA AbortStep ==
  ASSUME Reservations, Calls, NEW c \in Call, AbortNotice(c)
  PROVE  Reservations' /\ Calls'
<1>0. /\ CallTyped /\ CallSound(c) /\ CallsNamed
      /\ call[c] \in CallRow /\ call[c].at = "queued"
  BY CallsOfAll DEF AbortNotice, Calls, CallTyped
<1> DEFINE row == [call[c] EXCEPT !.aborted = TRUE]
<1>1. /\ row \in CallRow /\ row.at = "queued" /\ row.window = call[c].window
      /\ row.kind = call[c].kind /\ row.receipt = call[c].receipt /\ row.answer = call[c].answer
  BY <1>0 DEF CallRow
<1>2. call' = [call EXCEPT ![c] = row] /\ UNCHANGED <<tokens, vars>>
  BY <1>0 DEF AbortNotice, CallTyped
<1> HIDE DEF row
<1>3. CallTyped' /\ OthersStay(c) /\ call'[c] = row
  BY <1>0, <1>1, <1>2 DEF CallTyped, OthersStay
<1>4. UNCHANGED <<phase, session>> /\ ReservationsKept
  BY <1>2, UnchangedKeepsReservations DEF vars
<1>5. CallSound(c)'
  BY <1>0, <1>1, <1>2, <1>3, <1>4 DEF CallSound
<1>6. Calls'
  BY <1>2, <1>3, <1>4, <1>5, CallsStep
<1>7. Reservations'
  BY <1>0, <1>1, <1>3, <1>4, ReservationsElsewhere DEF Holding
<1>8. QED
  BY <1>6, <1>7

-----------------------------------------------------------------------------
(* The steps beside the calls.                                             *)

\* Rows change without their calls: the calls in line read the session only through
\* their tokens, which go with it.
LEMMA BesideStep ==
  ASSUME IInv, Reservations, Calls, Interference \/ NewSession
  PROVE  Reservations' /\ Calls'
<1>0. CallTyped /\ CallsNamed /\ UNCHANGED call
  BY DEF Calls, Interference, NewSession
<1>1. UNCHANGED <<session, tokens>> \/ tokens' = {}
  BY DEF Interference, NewSession
<1>2. UNCHANGED phase
  BY DEF Interference, NewSession, CommitPollPage, RotateAccount, DeleteAccount, ClaimInbound,
     FailInbound, SuppressInbound, FinalizeAgentExecution, ExpireWindow, CloseAgentSession,
     Cleanup, CreateAgentSession
<1>3. ReservationsKept
  BY InterferenceKeeps DEF Reservations
<1>4. Reservations'
  BY <1>0, <1>2, <1>3, ReservationsBeside
<1>5. Calls'
  <2>1. CallTyped'
    BY <1>0, <1>1 DEF CallTyped
  <2>2. ASSUME NEW d \in Call
        PROVE  CallSound(d)'
    BY <1>0, <1>1, CallsOfAll DEF CallSound
  <2>3. QED
    BY <2>1, <2>2, CallsOfAll
<1>6. QED
  BY <1>4, <1>5

\* A crash: what the process had reserved waits for the next start, which gives it up.
LEMMA CrashStep ==
  ASSUME IInv, Reservations, Calls, Crash
  PROVE  Reservations' /\ Calls'
<1> DEFINE gone == [NewCall EXCEPT !.at = "lost"]
<1>0. CallTyped /\ ReservationsKept
  BY InterferenceKeeps DEF Reservations, Calls
<1>1. /\ gone \in CallRow /\ gone.at = "lost"
      /\ gone.receipt = "none" /\ gone.answer = "none"
  BY DEF CallRow, NewCall, At, Receipt, Answer
<1>2. /\ call' = [c \in Call |-> IF call[c].at \in {"new", "done"} THEN call[c] ELSE gone]
      /\ tokens' = {} /\ phase' = "recovered"
  BY DEF Crash, RecoverStartup
<1> HIDE DEF gone
<1>3. \A c \in Call : call'[c].at \in {"new", "done", "lost"}
  BY <1>1, <1>2
<1>4. CallTyped'
  BY <1>0, <1>1, <1>2 DEF CallTyped
<1>5. Calls'
  <2>1. ASSUME NEW c \in Call
        PROVE  CallSound(c)'
    BY <1>1, <1>2, CallsOfAll DEF CallSound
  <2>2. QED
    BY <1>4, <2>1, CallsOfAll
<1>6. Reservations'
  <2>1. ReservedSomewhere'
    BY <1>0 DEF Reservations, ReservedSomewhere, ReservationsKept, Kept
  <2>2. ReservationsAreHeld'
    BY <1>2 DEF ReservationsAreHeld
  <2>3. ContextsMatch'
    BY <1>3 DEF ContextsMatch, Holds, Holding
  <2>4. QED
    BY <2>1, <2>2, <2>3 DEF Reservations
<1>7. QED
  BY <1>5, <1>6

LEMMA RestartStep ==
  ASSUME IInv, Reservations, Calls, Restarted
  PROVE  Reservations' /\ Calls'
<1>0. /\ TypeOK /\ ReservationsKept /\ CallsNamed
      /\ UNCHANGED <<call, tokens, session>>
      /\ attempt' = SetAttempts(UNION {Pending(w) : w \in Message}, "failed", "not_transmitted")
  BY InterferenceKeeps DEF Reservations, Calls, IInv, Restarted, RecoverPendingAttempts, executor
<1>1. Calls'
  <2>1. CallTyped'
    BY <1>0 DEF Calls, CallTyped
  <2>2. ASSUME NEW c \in Call
        PROVE  CallSound(c)'
    BY <1>0, CallsOfAll DEF CallSound
  <2>3. QED
    BY <2>1, <2>2, CallsOfAll
<1>2. ASSUME NEW a \in Attempt
      PROVE  attempt'[a].state # "pending"
  <2>1. CASE attempt[a].state = "pending"
    <3>1. a \in UNION {Pending(w) : w \in Message}
      BY <2>1 DEF Reservations, ReservedSomewhere, Pending, AttemptsIn
    <3>2. [attempt[a] EXCEPT !.state = "failed", !.code = "not_transmitted"].state = "failed"
      BY <1>0 DEF TypeOK, AttemptRow
    <3>3. QED
      BY <1>0, <3>1, <3>2 DEF SetAttempts
  <2>2. CASE attempt[a].state # "pending"
    BY <1>0, <2>2 DEF ReservationsKept, Kept
  <2>3. QED
    BY <2>1, <2>2
<1>3. ReservedSomewhere' /\ ReservationsAreHeld'
  BY <1>2 DEF ReservedSomewhere, ReservationsAreHeld
<1>4. ContextsMatch'
  <2>1. SUFFICES ASSUME NEW d \in Call, NEW a \in Attempt, Holds(d, a)
                 PROVE  attempt'[a].window = call[d].window
    BY <1>0, <1>2 DEF ContextsMatch, Holds
  <2>2. attempt[a].window = call[d].window /\ call[d].window \in Message
    BY <1>0, <2>1 DEF Reservations, ContextsMatch, CallsNamed, Holds, Holding
  <2>3. QED
    BY <1>0, <2>2 DEF ReservationsKept, Kept
<1>5. QED
  BY <1>1, <1>3, <1>4 DEF Reservations

-----------------------------------------------------------------------------

LEMMA ExecInvParts == ExecInv <=> IInv /\ Reservations /\ Calls
BY DEF ExecInv, Reservations, Calls

LEMMA ExecInvInit == ExecutorInit => ExecInv
<1> SUFFICES ASSUME ExecutorInit PROVE ExecInv
  OBVIOUS
<1>1. IInv
  BY IInvInit DEF ExecutorInit
<1>2. NewCall \in CallRow
  BY DEF NewCall, CallRow, At, Receipt, Answer
<1>3. /\ \A c \in Call : call[c] = NewCall
      /\ tokens = {} /\ attempt = [a \in Attempt |-> NoAttempt]
  BY DEF ExecutorInit, Init
<1>4. Calls
  BY <1>2, <1>3 DEF Calls, CallTyped, CallsNamed, TokensCurrent, Unanswered, ReceiptsAreTruthful,
     NewCall, ExecutorInit
<1>5. Reservations
  BY <1>3 DEF Reservations, ReservedSomewhere, ContextsMatch, ReservationsAreHeld, Holds, Holding,
     NewCall, NoAttempt
<1>6. QED
  BY <1>1, <1>4, <1>5, ExecInvParts

LEMMA ExecInvStep ==
  ASSUME ConstantsOK, ExecInv, [ExecutorNext]_<<vars, executor>>
  PROVE  ExecInv'
<1>0. IInv /\ Reservations /\ Calls
  BY ExecInvParts
<1>1. CASE UNCHANGED <<vars, executor>>
  <2>1. IInv'
    BY <1>0, <1>1, IInvStep
  <2>2. Reservations'
    BY <1>0, <1>1, UnchangedKeepsReservations, ReservationsBeside DEF vars, executor, Calls
  <2>3. Calls'
    BY <1>0, <1>1 DEF vars, executor, Calls, CallTyped, CallsNamed, TokensCurrent, Unanswered,
       ReceiptsAreTruthful
  <2>4. QED
    BY <2>1, <2>2, <2>3 DEF ExecInv, Reservations, Calls
<1>2. CASE ExecutorNext
  <2>1. IInv'
    BY <1>0, <1>2, LedgerStep, IInvStep DEF Calls
  <2>2. Reservations' /\ Calls'
    <3>1. ASSUME NEW c \in Call, NEW kind \in CallKind,
                 Execute(c, kind) \/ \E m \in Message : SendSystemText(c, kind, m)
          PROVE  Reservations' /\ Calls'
      BY <1>0, <3>1, ArrivalStep
    <3>2. ASSUME NEW c \in Call, AbortNotice(c)
          PROVE  Reservations' /\ Calls'
      BY <1>0, <3>2, AbortStep
    <3>3. ASSUME NEW c \in Call, CallSteps(c)
          PROVE  Reservations' /\ Calls'
      BY <1>0, <3>3, BeginStep, HeldSteps, NoticeStep, AnswerStep DEF CallSteps
    <3>4. CASE Interference \/ NewSession
      BY <1>0, <3>4, BesideStep
    <3>5. CASE Crash
      BY <1>0, <3>5, CrashStep
    <3>6. CASE Restarted
      BY <1>0, <3>6, RestartStep
    <3>7. QED
      BY <1>2, <3>1, <3>2, <3>3, <3>4, <3>5, <3>6 DEF ExecutorNext
  <2>3. QED
    BY <2>1, <2>2 DEF ExecInv, Reservations, Calls
<1>3. QED
  BY <1>1, <1>2

\* What a call hands over.
LEMMA HandsOver ==
  ASSUME ConstantsOK, ExecInv, ExecutorNext, NEW c \in Call, NEW a \in Attempt,
         call[c].at # "transmitting", call'[c].at = "transmitting", call'[c].attempt = {a}
  PROVE  /\ attempt'[a].window = call'[c].window
         /\ window[call'[c].window].state = "open"
         /\ call'[c].window \notin lapsed
         /\ call'[c].generation = account.generation
         /\ account.generation = window[call'[c].window].generation
<1>0. IInv /\ Reservations /\ Calls /\ CallTyped /\ TypeOK /\ "transmitting" \in At
  BY ExecInvParts DEF Calls, IInv, At
<1>1. ASSUME call[c].at \in Holding, StartAttempt(c)
      PROVE  /\ attempt'[a].window = call'[c].window
             /\ window[call'[c].window].state = "open"
             /\ call'[c].window \notin lapsed
             /\ call'[c].generation = account.generation
             /\ account.generation = window[call'[c].window].generation
  <2>0. ~ ReleasePending(c)
    <3>1. ASSUME ReleasePending(c)
          PROVE  FALSE
      <4>1. UNCHANGED session
        BY <3>1 DEF ReleasePending, ReleasePendingAttempt, vars
      <4>2. call'[c].at = "done"
        BY <1>0, <1>1, <3>1, <4>1, EndsSound DEF ReleasePending, Holding
      <4>3. QED
        BY <4>2
    <3>2. QED
      BY <3>1
  <2>1. PICK b \in call[c].attempt : StartReplyAttempt(b) /\ Startable(c) /\ Advance(c, "transmitting")
    BY <1>1, <2>0 DEF StartAttempt
  <2>2. /\ call'[c].window = call[c].window /\ call'[c].generation = call[c].generation
        /\ call'[c].attempt = call[c].attempt
    BY <1>0, <2>1, Advanced
  <2>3. b = a /\ Holds(c, a)
    BY <1>1, <2>1, <2>2 DEF Holds
  <2>4. /\ attempt[a].window = call[c].window /\ attempt[a].state = "pending"
        /\ call[c].generation = window[call[c].window].generation
        /\ attempt[a].window = session.boundary
        /\ SessionWindowValid
    BY <1>0, <2>1, <2>3 DEF Reservations, ContextsMatch, StartReplyAttempt
  <2>5. attempt'[a].window = attempt[a].window
    <3>1. attempt[a] \in AttemptRow /\ attempt' = [attempt EXCEPT ![a] = [attempt[a] EXCEPT !.state = "sending", !.sent = TRUE]]
      BY <1>0, <2>1, <2>3 DEF StartReplyAttempt, TypeOK
    <3>2. [attempt[a] EXCEPT !.state = "sending", !.sent = TRUE].window = attempt[a].window
      BY <3>1 DEF AttemptRow
    <3>3. QED
      BY <3>1, <3>2, <1>0 DEF TypeOK
  <2>6. QED
    BY <2>2, <2>4, <2>5 DEF SessionWindowValid, SessionActive
<1>2. CASE BeginNotice(c)
  <2>1. UNCHANGED vars /\ Return(c, "error") => call'[c].at = "done"
    BY <1>0, <1>2, EndsSound DEF vars, BeginNotice, AtHead
  <2>2. PICK b \in Attempt : /\ ReserveStartedSystemAttempt(call[c].window, b, call[c].kind)
                             /\ Takes(c, "transmitting", b) /\ UNCHANGED tokens
    BY <1>2, <2>1 DEF BeginNotice, Takes
  <2>3. /\ call'[c].window = call[c].window /\ call'[c].generation = account.generation
        /\ call'[c].attempt = {b}
    BY <1>0, <2>2, Taken
  <2>4. a = b
    BY <2>3
  <2>5. attempt'[b].window = call[c].window
    <3>1. NewAttempt(b, "sending", "none", call[c].kind, call[c].window, call[c].window)
      BY <2>2 DEF ReserveStartedSystemAttempt
    <3>2. QED
      BY <1>0, <3>1, NewRow DEF IInv
  <2>6. QED
    BY <2>2, <2>3, <2>4, <2>5 DEF ReserveStartedSystemAttempt
<1>3. ASSUME NEW d \in Call, OthersStay(d)
      PROVE  d = c
  BY <1>3 DEF OthersStay
<1>4. ASSUME NEW d \in Call, NEW kind \in CallKind,
             Execute(d, kind) \/ \E m \in Message : SendSystemText(d, kind, m)
      PROVE  FALSE
  <2>1. call'[c].at = "queued" \/ call'[c] = call[c]
    <3>1. PICK w : call' = [call EXCEPT ![d] = [call[d] EXCEPT !.at = "queued", !.kind = kind, !.window = w]]
      BY <1>4, <1>0 DEF Execute, SendSystemText, CallTyped
    <3>2. [call[d] EXCEPT !.at = "queued", !.kind = kind, !.window = w].at = "queued"
      BY <1>0 DEF CallTyped, CallRow
    <3>3. QED
      BY <3>1, <3>2, <1>0 DEF CallTyped
  <2>2. QED
    BY <2>1
<1>5. ASSUME NEW d \in Call, AbortNotice(d)
      PROVE  FALSE
  <2>1. call'[c].at = call[c].at
    <3>1. call' = [call EXCEPT ![d] = [call[d] EXCEPT !.aborted = TRUE]]
      BY <1>5, <1>0 DEF AbortNotice, CallTyped
    <3>2. [call[d] EXCEPT !.aborted = TRUE].at = call[d].at
      BY <1>0 DEF CallTyped, CallRow
    <3>3. QED
      BY <3>1, <3>2, <1>0 DEF CallTyped
  <2>2. QED
    BY <2>1
<1>6. ASSUME NEW d \in Call, CallSteps(d)
      PROVE  d = c /\ (BeginNotice(c) \/ (call[c].at \in Holding /\ StartAttempt(c)))
  <2>1. UNCHANGED session
    BY <1>6 DEF CallSteps, Begin, Deliver, Resolved, Uploaded, StartAttempt, ReleasePending,
       BeginNotice, Answered, PrepareReplyAttempt, RejectReplyAttempt, StartReplyAttempt,
       ReleasePendingAttempt, ReserveStartedSystemAttempt, FinishSend, vars
  <2>2. ASSUME NEW r \in {"failed", "error"}, Return(d, r), call[d].at \notin {"new", "lost", "done"}
        PROVE  FALSE
    <3>1. OthersStay(d) /\ call'[d].at = "done"
      BY <1>0, <2>1, <2>2, EndsSound
    <3>2. QED
      BY <3>1, <1>3
  <2>3. ASSUME NEW at \in {"resolving", "uploading"}, Advance(d, at)
        PROVE  FALSE
    <3>1. OthersStay(d) /\ call'[d].at = at
      BY <1>0, <2>3, Advanced DEF At
    <3>2. QED
      BY <3>1, <1>3
  <2>4. CASE Begin(d)
    <3>1. call[d].at = "queued" /\ ~ Return(d, "failed")
      BY <2>2, <2>4 DEF Begin, AtHead
    <3>2. PICK b \in Attempt : Takes(d, "reserved", b) /\ UNCHANGED tokens
      BY <2>4, <3>1 DEF Begin, Takes
    <3>3. OthersStay(d) /\ call'[d].at = "reserved"
      BY <1>0, <3>2, Taken DEF At
    <3>4. QED
      BY <3>3, <1>3
  <2>5. CASE Deliver(d) \/ Resolved(d) \/ Uploaded(d)
    <3>1. call[d].at \in Holding /\ call[d].at \notin {"new", "lost", "done"}
      BY <2>5 DEF Deliver, Resolved, Uploaded, Holding
    <3>2. ~ ReleasePending(d)
      BY <2>2, <3>1 DEF ReleasePending
    <3>3. StartAttempt(d)
      BY <2>3, <2>5, <3>2 DEF Deliver, Resolved, Uploaded
    <3>4. Advance(d, "transmitting")
      BY <3>2, <3>3 DEF StartAttempt
    <3>5. d = c
      BY <1>0, <1>3, <3>4, Advanced
    <3>6. QED
      BY <3>1, <3>3, <3>5
  <2>6. CASE BeginNotice(d)
    <3>1. call[d].at = "queued" /\ ~ Return(d, "error")
      BY <2>2, <2>6 DEF BeginNotice, AtHead
    <3>2. PICK b \in Attempt : Takes(d, "transmitting", b) /\ UNCHANGED tokens
      BY <2>6, <3>1 DEF BeginNotice, Takes
    <3>3. d = c
      BY <1>0, <1>3, <3>2, Taken
    <3>4. QED
      BY <2>6, <3>3
  <2>7. ASSUME NEW answer \in {"taken", "refused", "unknown"}, NEW seen \in Answer,
               Answered(d, answer, seen)
        PROVE  FALSE
    <3>1. PICK r \in {"error", Outcome(seen)} : Ends(d, r, answer) /\ UNCHANGED tokens
      BY <2>7 DEF Answered, Ends
    <3>2. r \in Receipt /\ answer \in Answer
      BY <2>7 DEF Answered, Outcome, Receipt, Answer
    <3>3. OthersStay(d) /\ call'[d].at = "done"
      BY <1>0, <3>1, <3>2, Ended
    <3>4. QED
      BY <3>3, <1>3
  <2>8. QED
    BY <1>6, <2>4, <2>5, <2>6, <2>7 DEF CallSteps
<1>7. ~ Crash /\ ~ Interference /\ ~ NewSession /\ ~ Restarted
  <2>1. ASSUME Crash
        PROVE  FALSE
    BY <2>1 DEF Crash, NewCall
  <2>2. QED
    BY <2>1 DEF Interference, NewSession, Restarted, executor
<1>8. QED
  BY <1>1, <1>2, <1>4, <1>5, <1>6, <1>7 DEF ExecutorNext

-----------------------------------------------------------------------------
(* The results.                                                            *)

\* ExecInv: the calls and the attempts they hold agree with the ledger at every moment,
\* whatever the ledger does between two steps of a call.
THEOREM ExecutorInvariant ==
  ASSUME ConstantsOK
  PROVE  ExecutorSpec => []ExecInv
<1>1. ExecutorInit => ExecInv
  BY ExecInvInit
<1>2. ExecInv /\ [ExecutorNext]_<<vars, executor>> => ExecInv'
  BY ExecInvStep
<1>3. QED
  BY <1>1, <1>2, PTL DEF ExecutorSpec

\* The executor only uses the transactions of the ledger: what holds of the ledger on its own
\* holds of it under the calls, the notices and the crashes of the executor.
THEOREM ExecutorImplementsLedger ==
  ASSUME ConstantsOK
  PROVE  ExecutorSpec => Spec
<1>1. ExecutorInit => Init
  BY DEF ExecutorInit
<1>2. ExecInv /\ [ExecutorNext]_<<vars, executor>> => [Next]_vars
  BY LedgerStep DEF ExecInv
<1>3. QED
  BY <1>1, <1>2, ExecutorInvariant, PTL DEF ExecutorSpec, Spec

\* Under the calls, the notices and the crashes of the executor too, the place of a send that
\* never left is free again, unless its message was suppressed (#releasePending).
THEOREM PlacesComeBackToCalls ==
  ASSUME ConstantsOK
  PROVE  ExecutorSpec => []PlacesComeBack
<1>1. QED
  BY ExecutorImplementsLedger, PlacesAlwaysComeBack, PTL

\* While the process runs, every pending attempt is held by a call that is under way:
\* #releasePending and recoverPendingAttempts together leave none behind.
THEOREM ReservationsStayHeld ==
  ASSUME ConstantsOK
  PROVE  ExecutorSpec => []ReservationsAreHeld
<1>1. ExecInv => ReservationsAreHeld
  BY DEF ExecInv
<1>2. QED
  BY <1>1, ExecutorInvariant, PTL

\* A receipt never denies a message the provider took, nor confirms one it refused: what
\* #transmit returns the agent may rely on.
THEOREM ReceiptsTellTruth ==
  ASSUME ConstantsOK
  PROVE  ExecutorSpec => []ReceiptsAreTruthful
<1>1. ExecInv => ReceiptsAreTruthful
  BY DEF ExecInv
<1>2. QED
  BY <1>1, ExecutorInvariant, PTL

\* The calls account for every send, from its reservation to its receipt, whatever the store and
\* the provider do in between (ilink/executor.ts: #transmit, #releasePending).
THEOREM SendsStayAccounted ==
  ASSUME ConstantsOK
  PROVE  ExecutorSpec => []SendsAreAccounted
<1>1. QED
  BY ReservationsStayHeld, ReceiptsTellTruth, PTL DEF SendsAreAccounted

\* Whatever happened while an image was fetched or uploaded, a message leaves with the context
\* token of the open window it is charged to and the bot token that window was opened under.
THEOREM SendsGoOutInContext ==
  ASSUME ConstantsOK
  PROVE  ExecutorSpec => HandedOverInContext
<1> DEFINE InContext ==
      \A c \in Call, a \in Attempt :
        /\ call[c].at # "transmitting" /\ call'[c].at = "transmitting"
        /\ call'[c].attempt = {a}
        => /\ attempt'[a].window = call'[c].window
           /\ window[call'[c].window].state = "open"
           /\ call'[c].window \notin lapsed
           /\ call'[c].generation = account.generation
           /\ account.generation = window[call'[c].window].generation
<1>1. ExecInv /\ [ExecutorNext]_<<vars, executor>> => [InContext]_<<vars, executor>>
  <2>1. ASSUME ExecInv, ExecutorNext
        PROVE  InContext
    BY <2>1, HandsOver
  <2>2. QED
    BY <2>1
<1>2. QED
  BY <1>1, ExecutorInvariant, PTL DEF ExecutorSpec, HandedOverInContext
=============================================================================
