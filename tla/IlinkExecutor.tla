--------------------------- MODULE IlinkExecutor ---------------------------
(***************************************************************************)
(* The sends of one iLink account (src/src/ilink/executor.ts) on top of    *)
(* the reply-window ledger of module ReplyWindow.                          *)
(*                                                                         *)
(* A call is one send_text or send_image of the agent, or one notice.  The *)
(* calls of an account wait in line (#serialize); the one in front         *)
(* reserves a send, prepares what it needs to deliver it, starts it, hands *)
(* it to the network and settles it.  Each transaction of the ledger is    *)
(* the step ReplyWindow names; between two of them that no await separates *)
(* only a crash may come (Busy).  While an image is fetched or uploaded,   *)
(* or an answer is awaited, everything else of the ledger goes on: new     *)
(* messages, rotations, the end of the turn, retention.                    *)
(*                                                                         *)
(* Abstractions.  A call that waits has read nothing but the account it is *)
(* for, so the session it names is only the fact that its token has not    *)
(* been closed since (tokens).  The delivery context is the window whose   *)
(* context token it holds and the generation of the account's bot token.   *)
(***************************************************************************)
EXTENDS ReplyWindow

CONSTANTS
  Call,        \* the calls made
  CallKind     \* "text", "image", and the notices "queue_notice", "agent_approval"

ConstantsOK ==
  /\ NoMessage \notin Message /\ MaxSends \in Nat \ {0} /\ Page \subseteq Seq(Message)
  /\ CallKind \subseteq {"text", "image"} \cup SystemKind

VARIABLES
  call,        \* call[c]: how far c is, and what it returned
  queue,       \* #queues: the calls in line, the running one in front
  tokens       \* calls whose session token was not closed since they were made

executor == <<call, queue, tokens>>

-----------------------------------------------------------------------------

Tool == {"text", "image"}
Notice == {"queue_notice", "agent_approval"}
At == {"new", "queued", "reserved", "resolving", "uploading", "transmitting",
       "done", "lost"}
Receipt == {"none", "accepted", "failed", "uncertain", "error"}
Answer == {"none", "taken", "refused", "unknown"}

NewCall == [at |-> "new", kind |-> "none", window |-> NoMessage, generation |-> 0,
            attempt |-> {}, aborted |-> FALSE, receipt |-> "none", answer |-> "none"]

\* answer is history: what became of the message the call handed over.
CallRow == [at : At, kind : {"none"} \cup Tool \cup Notice,
            window : Message \cup {NoMessage}, generation : Nat,
            attempt : {{}} \cup {{a} : a \in Attempt}, aborted : BOOLEAN,
            receipt : Receipt, answer : Answer]

\* The executor's bookkeeping has its types, the ledger keeps its own, and a
\* call is in line exactly while it is under way.
ExecutorTypeOK ==
  /\ TypeOK
  /\ call \in [Call -> CallRow]
  /\ queue \in Seq(Call)
  /\ tokens \subseteq Call
  /\ \A c \in Call : call[c].at \in {"new", "done", "lost"} <=>
       ~ \E i \in DOMAIN queue : queue[i] = c

ExecutorInit ==
  /\ Init
  /\ call = [c \in Call |-> NewCall]
  /\ queue = <<>>
  /\ tokens = {}

\* Between two transactions of the same synchronous stretch.
Busy == \E c \in Call : call[c].at = "reserved"

\* Mutant: every call starts at once.
AtAnyPlace(c) == call[c].at = "queued"

\* The turn of call c has come.
AtHead(c) == call[c].at = "queued" /\ Head(queue) = c

\* getAgentSession, for the token of call c.
Usable(c) ==
  /\ c \in tokens
  /\ session # NoSession
  /\ Has(session.source, {"active"})
  /\ Later(session.boundary, InboundStatus \ {"ignored", "absorbed"}) = {}

\* Mutant: a call that failed stays in line.
DequeueSuccess(c, r) ==
  IF r \in {"failed", "error"} THEN queue ELSE SelectSeq(queue, LAMBDA x : x # c)

Dequeue(c, r) == SelectSeq(queue, LAMBDA x : x # c)

\* The call returns its receipt, or throws ("error"); the next one is on.
Return(c, r) ==
  /\ call' = [call EXCEPT ![c].at = "done", ![c].receipt = r]
  /\ queue' = Dequeue(c, r)
  /\ UNCHANGED tokens

\* #deliveryContext opens the token the account has now.
BotToken == account.generation

Advance(c, at) ==
  /\ call' = [call EXCEPT ![c].at = at]
  /\ UNCHANGED <<queue, tokens>>

-----------------------------------------------------------------------------
(* Calls arrive.                                                           *)

\* execute: the session is looked up to learn the account, then the call waits.
Execute(c, kind) ==
  /\ phase = "running"
  /\ ~ Busy
  /\ call[c].at = "new"
  /\ kind \in Tool
  /\ session # NoSession
  /\ Has(session.source, {"active"})
  /\ Later(session.boundary, InboundStatus \ {"ignored", "absorbed"}) = {}
  /\ call' = [call EXCEPT ![c].at = "queued", ![c].kind = kind,
                          ![c].window = session.boundary]
  /\ queue' = Append(queue, c)
  /\ tokens' = tokens \cup {c}
  /\ UNCHANGED vars

\* getReplyWindowSecretBySource
HasWindow(m) == window[m].state \notin {"none", "deleted"}

\* notifyQueued and notifyApproval: the window of the message is looked up now,
\* whatever its state.
SendSystemText(c, kind, m) ==
  /\ phase = "running"
  /\ ~ Busy
  /\ call[c].at = "new"
  /\ kind \in Notice
  /\ HasWindow(m)
  /\ call' = [call EXCEPT ![c].at = "queued", ![c].kind = kind, ![c].window = m]
  /\ queue' = Append(queue, c)
  /\ UNCHANGED <<tokens, vars>>

\* The approval is no longer wanted: its signal is aborted.
AbortNotice(c) ==
  /\ ~ Busy
  /\ call[c].at = "queued"
  /\ call[c].kind = "agent_approval"
  /\ ~ call[c].aborted
  /\ call' = [call EXCEPT ![c].aborted = TRUE]
  /\ UNCHANGED <<queue, tokens, vars>>

-----------------------------------------------------------------------------
(* #executeText and #executeImage.                                         *)

\* What prepareReplyAttempt throws on instead of recording a rejection.
Refused == ~ SessionWindowValid /\ ~ (SessionActive /\ session.boundary \in lapsed)

\* The call reserves a send and opens its delivery context; an invalid session, a
\* missing artifact and a window that refuses it end it.
Begin(c) ==
  /\ phase = "running"
  /\ ~ Busy
  /\ AtHead(c)
  /\ call[c].kind \in Tool
  /\ \/ /\ ~ Usable(c) \/ Refused \/ call[c].kind = "image"
        /\ Return(c, "failed")
        /\ UNCHANGED vars
     \/ /\ Usable(c)
        /\ \E a \in Attempt :
             \/ /\ PrepareReplyAttempt(a)
                /\ call' = [call EXCEPT ![c].at = "reserved", ![c].attempt = {a},
                                        ![c].generation = BotToken]
                /\ UNCHANGED <<queue, tokens>>
             \/ RejectReplyAttempt(a) /\ Return(c, "failed")

\* Mutant: the reservation is kept.
KeepPending(c) == Return(c, "failed") /\ UNCHANGED vars

\* #releasePending: every failure after the reservation gives it back, unless
\* the ledger did so already.
ReleasePending(c) ==
  /\ \/ \E a \in call[c].attempt : ReleasePendingAttempt(a)
     \/ /\ \A a \in call[c].attempt : attempt[a].state # "pending"
        /\ UNCHANGED vars
  /\ Return(c, "failed")

\* startReplyAttempt succeeds.
Startable(c) ==
  /\ c \in tokens
  /\ SessionWindowValid
  /\ NothingSending
  /\ \A a \in call[c].attempt : attempt[a].state = "pending"

\* validatePendingReplyAttempt succeeds.
StillReserved(c) ==
  /\ c \in tokens
  /\ SessionWindowValid
  /\ \A a \in call[c].attempt : attempt[a].state = "pending"

\* Mutant: the send starts on the strength of the first check.
StartUnchecked(c) ==
  /\ attempt' = SetAttempts(call[c].attempt, "sending", "none")
  /\ Advance(c, "transmitting")
  /\ UNCHANGED <<phase, account, inbox, lastSeq, window, session, lapsed>>

StartAttempt(c) ==
  \/ /\ Startable(c)
     /\ \E a \in call[c].attempt : StartReplyAttempt(a)
     /\ Advance(c, "transmitting")
  \/ ~ Startable(c) /\ ReleasePending(c)

\* In the same stretch a text is started; an artifact is uploaded, and any other
\* image is fetched first.  Secrets that do not open and references that are
\* unknown end the call.
Deliver(c) ==
  /\ phase = "running"
  /\ call[c].at = "reserved"
  /\ \/ ReleasePending(c)
     \/ call[c].kind = "text" /\ StartAttempt(c)
     \/ /\ call[c].kind = "image"
        /\ \E at \in {"resolving", "uploading"} : Advance(c, at)
        /\ UNCHANGED vars

\* resolveReference returned the image, or failed.
Resolved(c) ==
  /\ phase = "running"
  /\ ~ Busy
  /\ call[c].at = "resolving"
  /\ \/ ReleasePending(c)
     \/ StillReserved(c) /\ Advance(c, "uploading") /\ UNCHANGED vars

\* The upload ended: the session and the window are checked again.
Uploaded(c) ==
  /\ phase = "running"
  /\ ~ Busy
  /\ call[c].at = "uploading"
  /\ \/ ReleasePending(c)
     \/ Usable(c) /\ StartAttempt(c)

-----------------------------------------------------------------------------
(* Notices and answers.                                                    *)

\* The turn of a notice: it is reserved and started at once, or thrown.
BeginNotice(c) ==
  /\ phase = "running"
  /\ ~ Busy
  /\ AtHead(c)
  /\ call[c].kind \in Notice
  /\ \/ /\ ~ call[c].aborted
        /\ account.active
        /\ \E a \in Attempt :
             /\ ReserveStartedSystemAttempt(call[c].window, a, call[c].kind)
             /\ call' = [call EXCEPT ![c].at = "transmitting", ![c].attempt = {a},
                                     ![c].generation = BotToken]
        /\ UNCHANGED <<queue, tokens>>
     \/ /\ Return(c, "error")
        /\ UNCHANGED vars

\* Mutant: every error of the network counts as a refusal.
OutcomeOfAnyError(answer) == IF answer = "taken" THEN "accepted" ELSE "failed"

\* #transmit: only an answer of the provider is definitive.
Outcome(answer) ==
  CASE answer = "taken" -> "accepted"
    [] answer = "refused" -> "failed"
    [] answer = "unknown" -> "uncertain"

\* The answer arrives.  A message the provider took may look unknown.  A row that
\* is gone by now makes the call throw.
Answered(c, answer, seen) ==
  /\ phase = "running"
  /\ ~ Busy
  /\ call[c].at = "transmitting"
  /\ seen \in {answer, "unknown"}
  /\ \E a \in call[c].attempt, r \in {"error", Outcome(seen)} :
       /\ r = "error" <=> attempt[a].state # "sending"
       /\ IF r = "error" THEN UNCHANGED vars ELSE FinishSend(a, r)
       /\ call' = [call EXCEPT ![c].at = "done", ![c].receipt = r, ![c].answer = answer]
       /\ queue' = Dequeue(c, r)
       /\ UNCHANGED tokens

-----------------------------------------------------------------------------
(* The rest of the ledger, between the steps of the executor.              *)

\* The transactions that may close the session close its token with it.
Interference ==
  /\ ~ Busy
  /\ \/ \E page \in Page, owner \in Message : CommitPollPage(page, owner)
     \/ RotateAccount
     \/ DeleteAccount
     \/ \E m \in Message : \/ ClaimInbound(m)
                           \/ FailInbound(m, {})
                           \/ SuppressInbound(m)
                           \/ FinalizeAgentExecution(m)
                           \/ ExpireWindow(m)
     \/ CloseAgentSession
     \/ \E old \in SUBSET Attempt : Cleanup(old)
  /\ tokens' = IF session' = session THEN tokens ELSE {}
  /\ UNCHANGED <<call, queue>>

NewSession ==
  /\ ~ Busy
  /\ \E m, b \in Message : CreateAgentSession(m, b)
  /\ tokens' = {}
  /\ UNCHANGED <<call, queue>>

\* The process dies at any point; nobody waits for the calls any more.
Crash ==
  /\ \E settled \in SUBSET Message : RecoverStartup(settled, {})
  /\ call' = [c \in Call |-> IF call[c].at \in {"new", "done"} THEN call[c]
                             ELSE [NewCall EXCEPT !.at = "lost"]]
  /\ queue' = <<>>
  /\ tokens' = {}

Restarted == RecoverPendingAttempts /\ UNCHANGED executor

CallSteps(c) ==
  \/ Begin(c)
  \/ Deliver(c)
  \/ Resolved(c)
  \/ Uploaded(c)
  \/ BeginNotice(c)
  \/ \E answer \in {"taken", "refused", "unknown"}, seen \in Answer :
       Answered(c, answer, seen)

ExecutorNext ==
  \/ \E c \in Call :
       \/ \E kind \in CallKind : \/ Execute(c, kind)
                                 \/ \E m \in Message : SendSystemText(c, kind, m)
       \/ AbortNotice(c)
       \/ CallSteps(c)
  \/ Interference
  \/ NewSession
  \/ Crash
  \/ Restarted

ExecutorSpec == ExecutorInit /\ [][ExecutorNext]_<<vars, executor>>

\* Requests, uploads and fetches have time limits, so each step of a call ends.
ExecutorFairness ==
  \A c \in Call : WF_<<vars, executor>>(CallSteps(c))
ExecutorFairSpec == ExecutorSpec /\ ExecutorFairness

-----------------------------------------------------------------------------
(* Properties.                                                             *)

\* A pending row belongs to a call that is under way: whichever step of a send fails, and
\* whatever happened meanwhile, the call that returns leaves none behind.  What becomes of
\* its place in the window is PlacesComeBack.
ReservationsAreHeld ==
  phase = "running" =>
    \A a \in Attempt : attempt[a].state = "pending" =>
      \E c \in Call : /\ call[c].attempt = {a}
                      /\ call[c].at \in {"reserved", "resolving", "uploading"}

\* The message is handed over with the context token of the window it is charged
\* to, while that window is open, and with the bot token of the generation the
\* window was opened under: also when an upload came between.
HandedOverInContext ==
  [][\A c \in Call, a \in Attempt :
       /\ call[c].at # "transmitting" /\ call'[c].at = "transmitting"
       /\ call'[c].attempt = {a}
       => /\ attempt'[a].window = call'[c].window
          /\ window[call'[c].window].state = "open"
          /\ call'[c].window \notin lapsed
          /\ call'[c].generation = account.generation
          /\ account.generation = window[call'[c].window].generation]_<<vars, executor>>

\* A receipt never denies a message the provider may have taken, and never
\* confirms one it did not take: the agent may rely on it to send again or not.
ReceiptsAreTruthful ==
  \A c \in Call :
    /\ call[c].receipt = "accepted" => call[c].answer = "taken"
    /\ call[c].receipt = "failed" => call[c].answer \in {"none", "refused"}

\* Sends are accounted for: what is pending is held by a call, and what a call was told is
\* what the provider answered.
SendsAreAccounted == ReservationsAreHeld /\ ReceiptsAreTruthful

\* Standing in line is enough: no call is turned away because another send of
\* the conversation is under way.
TurnedAwayAsBusy ==
  \E c \in Call :
    call[c].at \in {"reserved", "uploading"} /\ call'[c].at = "done" /\ ~NothingSending
NoneTurnedAwayAsBusy == [][~TurnedAwayAsBusy]_<<vars, executor>>

\* Every call gets its answer, whatever became of those before it in line.
CallsReturn ==
  \A c \in Call : call[c].at = "queued" ~> call[c].at \in {"done", "lost"}
=============================================================================
