------------------------------ MODULE Approval ------------------------------
(***************************************************************************)
(* Approvals of a host conversation: Codex asks before it runs a command   *)
(* or changes a file, the question goes to the customer's chat, and the    *)
(* answer comes back as a chat message.                                    *)
(*                                                                         *)
(* The module composes the protocol client (handleApproval and its timer,  *)
(* src/src/services/codex-app-server.ts), the agent's waiting handlers     *)
(* (requestApproval, respondApproval, src/src/services/codex-agent.ts) and *)
(* the processing of the customer's messages                               *)
(* (src/src/services/conversation-processor.ts).  One agent turn is a      *)
(* series of runs on Codex: the first, and corrections after it.           *)
(*                                                                         *)
(* Node runs the continuations of a settled promise before the next event: *)
(* while one is due (Due) no event happens.  Abstractions: the text of a   *)
(* preview is only whether it can be shown; a session token is the number  *)
(* of the message it was created for, and is current while no message of   *)
(* the customer came after it; Codex and the customer do as they please.   *)
(***************************************************************************)
EXTENDS Naturals, Sequences, FiniteSets

CONSTANTS
  Request,         \* approvals Codex may ask for
  MaxRuns,         \* runs of the agent turn
  MaxMessages,     \* messages of the customer
  MaxRevocations   \* times the permission to approve is taken away

ConstantsOK == {MaxRuns, MaxMessages, MaxRevocations} \subseteq Nat

VARIABLES
  active,          \* the agent's #active entry exists
  cancelling,      \* its state.cancelling
  run,             \* the current run on Codex; state.approvalTurn while not "none"
  outcome,         \* outcome[n]: how run n ended
  marked,          \* runs with TurnState.approvalCancelled
  req,             \* req[r]: the approval r in client and agent
  allowed,         \* isAllowed: channel and account enabled, the message active
  revocations,
  arrived,         \* messages of the customer stored so far
  inbox,           \* those not handled yet, with their numbers
  reply,           \* the approval reply whose steering is under way
  connected,       \* the app-server is up
  revoked          \* history: requests shown to the customer before a revocation

vars == <<active, cancelling, run, outcome, marked, req, allowed, revocations,
          arrived, inbox, reply, connected, revoked>>
conversation == <<arrived, inbox, reply>>
permission == <<allowed, revocations, revoked>>

Run == 1 .. MaxRuns
Decision == {"accept", "decline", "cancel"}
HandlerAt == {"none", "resolving", "notifying", "refusing", "waiting", "decided", "closed"}

\* registered: the client still holds the request; by: the message that decided.
RequestRow == [at : HandlerAt, run : {0} \cup Run, registered : BOOLEAN,
               decision : {"none"} \cup Decision, by : 0 .. MaxMessages,
               answer : {"none"} \cup Decision]

NewRequest == [at |-> "none", run |-> 0, registered |-> FALSE,
               decision |-> "none", by |-> 0, answer |-> "none"]

NoReply == [number |-> 0, to |-> {}, option |-> "none"]
Message == [number : 0 .. MaxMessages, to : {{}} \cup {{r} : r \in Request},
            option : {"none"} \cup Decision]

\* The variables have their types, and only a request the client once held has
\* got an answer.
TypeOK ==
  /\ active \in BOOLEAN /\ cancelling \in BOOLEAN /\ connected \in BOOLEAN
  /\ run \in [number : 0 .. MaxRuns, at : {"none", "starting", "running"}]
  /\ outcome \in [Run -> {"none", "open", "completed", "cancelled", "failed"}]
  /\ marked \subseteq Run
  /\ req \in [Request -> RequestRow]
  /\ allowed \in BOOLEAN /\ revocations \in 0 .. MaxRevocations
  /\ arrived \in 0 .. MaxMessages
  /\ inbox \in Seq(Message) /\ reply \in Message
  /\ revoked \subseteq Request
  /\ \A r \in Request : req[r].answer # "none" =>
       /\ req[r].at # "none" /\ ~ req[r].registered
       /\ req[r].answer = "cancel" => req[r].run \in marked

Init ==
  /\ active = TRUE
  /\ cancelling = FALSE
  /\ run = [number |-> 0, at |-> "none"]
  /\ outcome = [n \in Run |-> "none"]
  /\ marked = {}
  /\ req = [r \in Request |-> NewRequest]
  /\ allowed = TRUE
  /\ revocations = 0
  /\ arrived = 0
  /\ inbox = <<>>
  /\ reply = NoReply
  /\ connected = TRUE
  /\ revoked = {}

-----------------------------------------------------------------------------

IsApprovalTurn(n) == active /\ run.at # "none" /\ run.number = n

\* The entries of the agent's #approvals.
Pending == {r \in Request : req[r].at \in {"notifying", "waiting"} /\ req[r].decision = "none"}

\* Mutant: sessions live until they expire.
SessionOpen(number) == number # 0

\* getAgentSession: no message of the customer came after the one of the session.
SessionCurrent(number) == number = arrived

\* pendingApproval
Answerable(r) ==
  /\ r \in Pending
  /\ req[r].at = "waiting"
  /\ req[r].registered
  /\ ~ cancelling
  /\ IsApprovalTurn(req[r].run)
  /\ allowed

\* Continuations that run before the next event.
Due(r) == req[r].at = "decided" \/ (req[r].at = "resolving" /\ run.at # "starting")
Quiet == \A r \in Request : ~ Due(r)

\* A promise that waits for the customer resolves; a handler that still sends the
\* question finds the decision afterwards.
Resolve(row, decision) ==
  IF row.at = "waiting" THEN [row EXCEPT !.at = "decided", !.decision = decision]
  ELSE [row EXCEPT !.decision = decision]

\* Mutant: only a delivered question is withdrawn.
CancelDelivered(R) ==
  LET C == {r \in R \cap Pending : req[r].at = "waiting"} IN
  /\ cancelling' = (cancelling \/ C # {})
  /\ req' = [r \in Request |-> IF r \in C THEN Resolve(req[r], "cancel") ELSE req[r]]

\* cancelApprovals and invalidateApprovals for the entries R.
CancelPending(R) ==
  LET C == R \cap Pending IN
  /\ cancelling' = (cancelling \/ C # {})
  /\ req' = [r \in Request |-> IF r \in C THEN Resolve(req[r], "cancel") ELSE req[r]]

\* Mutant: a cancellation the client decides on is not noted.
NoteAnswers(n, decision) == marked

\* finishApproval notes a cancelled run.
Mark(n, decision) == IF decision = "cancel" THEN marked \cup {n} ELSE marked

\* The abort of its signal reaches a handler that still sends the question.
Aborted(row) ==
  [row EXCEPT !.registered = FALSE,
              !.decision = IF row.at = "notifying" THEN "cancel" ELSE @]

\* finishApproval: the answer goes to Codex, and a cancellation aborts the handler
\* with its reason: the agent turn is cancelled if it is still in that run.
Finish(r, decision, at) ==
  /\ req' = [req EXCEPT ![r] = [Aborted(req[r]) EXCEPT !.at = at, !.answer = decision]]
  /\ marked' = Mark(req[r].run, decision)
  /\ cancelling' = (cancelling \/ (/\ decision = "cancel"
                                   /\ req[r].at \in {"notifying", "waiting", "decided"}
                                   /\ IsApprovalTurn(req[r].run)))

\* The handler returned: its decision counts if the request is still held.
Return(r, decision) ==
  IF req[r].registered THEN Finish(r, decision, "closed")
  ELSE /\ req' = [req EXCEPT ![r].at = "closed"]
       /\ UNCHANGED <<marked, cancelling>>

\* The client forgets requests R without an answer; handlers that wait return.
Withdrawn(R) ==
  [r \in Request |->
     IF r \notin R \/ ~ req[r].registered THEN req[r]
     ELSE [Aborted(req[r]) EXCEPT !.at = IF @ \in {"waiting", "decided"} THEN "closed" ELSE @]]

-----------------------------------------------------------------------------
(* Runs.                                                                   *)

\* #run: the first run, or a correction after a completed one.
StartRun ==
  /\ Quiet
  /\ active /\ connected
  /\ run.at = "none"
  /\ run.number < MaxRuns
  /\ run' = [number |-> run.number + 1, at |-> "starting"]
  /\ outcome' = [outcome EXCEPT ![run.number + 1] = "open"]
  /\ UNCHANGED <<active, cancelling, marked, req, connected, conversation, permission>>

\* turn/start is acknowledged, or fails or times out.
RunAcknowledged ==
  /\ Quiet
  /\ run.at = "starting"
  /\ run' = [run EXCEPT !.at = "running"]
  /\ UNCHANGED <<active, cancelling, outcome, marked, req, connected, conversation, permission>>

RunRefused ==
  /\ Quiet
  /\ run.at = "starting"
  /\ run' = [run EXCEPT !.at = "none"]
  /\ outcome' = [outcome EXCEPT ![run.number] = "failed"]
  /\ active' = FALSE
  /\ UNCHANGED <<cancelling, marked, req, connected, conversation, permission>>

\* Mutant: the flag is not looked at.
EndedAs(result) == result

\* turn/completed: a run in which an approval was cancelled ends as cancelled.
Ended(result) == IF run.number \in marked THEN "cancelled" ELSE result

\* Codex ends the run; it does not complete one that waits for an answer.
RunEnds(result) ==
  /\ Quiet
  /\ run.at = "running"
  /\ result = "completed" => \A r \in Request : req[r].run = run.number => ~ req[r].registered
  /\ outcome' = [outcome EXCEPT ![run.number] = Ended(result)]
  /\ run' = [run EXCEPT !.at = "none"]
  /\ active' = (Ended(result) = "completed")
  /\ req' = Withdrawn({r \in Request : req[r].run = run.number})
  /\ UNCHANGED <<cancelling, marked, connected, conversation, permission>>

\* The agent turn is over.
TurnEnds ==
  /\ Quiet
  /\ active /\ run.at = "none" /\ run.number > 0
  /\ active' = FALSE
  /\ UNCHANGED <<cancelling, run, outcome, marked, req, connected, conversation, permission>>

\* The app-server fails or is closed.
ServerFails ==
  /\ Quiet
  /\ connected
  /\ connected' = FALSE
  /\ active' = FALSE
  /\ outcome' = [n \in Run |-> IF outcome[n] = "open" THEN "failed" ELSE outcome[n]]
  /\ run' = [run EXCEPT !.at = "none"]
  /\ req' = Withdrawn(Request)
  /\ UNCHANGED <<cancelling, marked, conversation, permission>>

-----------------------------------------------------------------------------
(* Requests.                                                               *)

\* handleApproval: Codex may ask before it acknowledged the run.
Ask(r) ==
  /\ Quiet
  /\ connected
  /\ req[r].at = "none"
  /\ run.at # "none"
  /\ req' = [req EXCEPT ![r].at = "resolving", ![r].run = run.number,
                        ![r].registered = TRUE]
  /\ UNCHANGED <<active, cancelling, run, outcome, marked, connected, conversation, permission>>

\* requestApproval goes on once the run is known: the question is sent, or the
\* customer is told that it cannot be shown in the chat.
Prompt(r) ==
  /\ req[r].at = "resolving"
  /\ run.at # "starting"
  /\ IF IsApprovalTurn(req[r].run) /\ req[r].registered /\ allowed
     THEN /\ \E at \in {"notifying", "refusing"} : req' = [req EXCEPT ![r].at = at]
          /\ UNCHANGED <<marked, cancelling>>
     ELSE Return(r, "cancel")
  /\ UNCHANGED <<active, run, outcome, connected, conversation, permission>>

Told(r) ==
  /\ Quiet
  /\ req[r].at = "refusing"
  /\ \E decision \in {"decline", "cancel"} : Return(r, decision)
  /\ UNCHANGED <<active, run, outcome, connected, conversation, permission>>

\* The notice was accepted by the channel: the code counts from now on.
Notified(r) ==
  /\ Quiet
  /\ req[r].at = "notifying"
  /\ IF req[r].registered /\ allowed /\ req[r].decision = "none"
     THEN req' = [req EXCEPT ![r].at = "waiting"] /\ UNCHANGED <<marked, cancelling>>
     ELSE Return(r, "cancel")
  /\ UNCHANGED <<active, run, outcome, connected, conversation, permission>>

\* It failed or its outcome is uncertain.
NotifyFailed(r) ==
  /\ Quiet
  /\ req[r].at = "notifying"
  /\ IF req[r].registered
     THEN req' = [req EXCEPT ![r].at = "closed", ![r].registered = FALSE,
                             ![r].answer = "cancel"]
          /\ marked' = Mark(req[r].run, "cancel")
     ELSE req' = [req EXCEPT ![r].at = "closed"] /\ UNCHANGED marked
  /\ cancelling' = TRUE
  /\ UNCHANGED <<active, run, outcome, connected, conversation, permission>>

\* isAllowed of the returned decision: the final freshness check.
Fresh(r) ==
  /\ req[r].registered
  /\ IsApprovalTurn(req[r].run)
  /\ allowed
  /\ SessionCurrent(req[r].by)

Decide(r) ==
  /\ req[r].at = "decided"
  /\ Return(r, IF Fresh(r) THEN req[r].decision ELSE "cancel")
  /\ UNCHANGED <<active, run, outcome, connected, conversation, permission>>

\* Codex takes the request back, closes the thread or ends it.
Withdraw(r) ==
  /\ Quiet
  /\ req[r].registered
  /\ req' = Withdrawn({r})
  /\ UNCHANGED <<active, cancelling, run, outcome, marked, connected, conversation, permission>>

\* Mutant: the clock runs until the question is delivered.
ExpiresUndelivered(r) == req[r].registered /\ req[r].at # "waiting"

\* A request expires after five minutes, wherever its handler is.
Expires(r) == req[r].registered

\* The timer, or a patch that changed under the question: the client cancels.
Expire(r) ==
  /\ Quiet
  /\ Expires(r)
  /\ Finish(r, "cancel", IF req[r].at \in {"waiting", "decided"} THEN "closed" ELSE req[r].at)
  /\ UNCHANGED <<active, run, outcome, connected, conversation, permission>>

-----------------------------------------------------------------------------
(* The customer, the operator, the host.                                   *)

\* Any message makes older sessions stale the moment it is stored.  A customer
\* can name a question only after it was sent.
MessageArrives(to, option) ==
  /\ Quiet
  /\ arrived < MaxMessages
  /\ \A r \in to : req[r].at \notin {"none", "resolving", "refusing"}
  /\ to = {} <=> option = "none"
  /\ arrived' = arrived + 1
  /\ inbox' = Append(inbox, [number |-> arrived + 1, to |-> to, option |-> option])
  /\ UNCHANGED <<active, cancelling, run, outcome, marked, req, reply, connected, permission>>

\* #process: any other message cancels what is pending; what it does to the turn
\* otherwise is no part of this module.
HandleMessage ==
  /\ Quiet
  /\ inbox # <<>> /\ reply = NoReply
  /\ Head(inbox).to = {}
  /\ inbox' = Tail(inbox)
  /\ CancelPending(Request)
  /\ UNCHANGED <<active, run, outcome, marked, arrived, reply, connected, permission>>

\* An invalid code grants nothing; the control refresh it causes may fail, which
\* suppresses the message of the turn and interrupts it.
HandleInvalidReply ==
  /\ Quiet
  /\ inbox # <<>> /\ reply = NoReply
  /\ Head(inbox).to # {}
  /\ ~ \E r \in Head(inbox).to : Answerable(r)
  /\ inbox' = Tail(inbox)
  /\ \/ UNCHANGED <<cancelling, req, allowed, revocations, revoked>>
     \/ /\ allowed' = FALSE
        /\ revocations' = MaxRevocations
        /\ revoked' = revoked \cup {r \in Request : req[r].at \in {"notifying", "waiting"}}
        /\ CancelPending(Request)
  /\ UNCHANGED <<active, run, outcome, marked, arrived, reply, connected>>

\* #submit of a valid reply: a session for the message, then the steering.
HandleReply ==
  /\ Quiet
  /\ inbox # <<>> /\ reply = NoReply
  /\ \E r \in Head(inbox).to : Answerable(r)
  /\ reply' = Head(inbox)
  /\ inbox' = Tail(inbox)
  /\ UNCHANGED <<active, cancelling, run, outcome, marked, req, arrived, connected, permission>>

\* respondApproval
Respond(r, option, number) ==
  /\ req' = [req EXCEPT ![r].at = "decided", ![r].decision = option, ![r].by = number]
  /\ cancelling' = (cancelling \/ option = "cancel")

\* The reply counts if its session is current and the question still pending.
RespondApproval(r, option, number) ==
  IF SessionCurrent(number) /\ Answerable(r)
  THEN Respond(r, option, number)
  ELSE CancelPending(Request)

\* Codex acknowledges the steering, in the run the question belongs to.
ReplySteered ==
  /\ Quiet
  /\ reply # NoReply
  /\ \A r \in reply.to : IsApprovalTurn(req[r].run)
  /\ \A r \in reply.to : RespondApproval(r, reply.option, reply.number)
  /\ reply' = NoReply
  /\ UNCHANGED <<active, run, outcome, marked, arrived, inbox, connected, permission>>

\* Mutant: the steering has no time limit of its own.
ReplyNeverSteered ==
  /\ ~ connected
  /\ reply # NoReply
  /\ reply' = NoReply
  /\ UNCHANGED <<active, cancelling, run, outcome, marked, req, arrived, inbox, connected, permission>>

\* The steering fails, times out, or another run acknowledges it.
ReplyNotSteered ==
  /\ Quiet
  /\ reply # NoReply
  /\ reply' = NoReply
  /\ CancelPending(Request)
  /\ UNCHANGED <<active, run, outcome, marked, arrived, inbox, connected, permission>>

\* The channel or the account is stopped, or the worker stops accepting; the
\* former two may be undone.
Revoke ==
  /\ Quiet
  /\ allowed
  /\ revocations < MaxRevocations
  /\ allowed' = FALSE
  /\ revocations' = revocations + 1
  /\ revoked' = revoked \cup {r \in Request : req[r].at \in {"notifying", "waiting"}}
  /\ CancelPending(Request)
  /\ UNCHANGED <<active, run, outcome, marked, connected, conversation>>

AllowAgain ==
  /\ Quiet
  /\ ~ allowed
  /\ revocations < MaxRevocations
  /\ allowed' = TRUE
  /\ UNCHANGED <<active, cancelling, run, outcome, marked, req, revocations, revoked,
                 connected, conversation>>

\* interrupt, and close: what is pending is cancelled first.
Interrupt ==
  /\ Quiet
  /\ active /\ run.at = "running"
  /\ CancelPending(Request)
  /\ UNCHANGED <<active, run, outcome, marked, connected, conversation, permission>>

-----------------------------------------------------------------------------

Handlers(r) == Prompt(r) \/ Told(r) \/ Notified(r) \/ NotifyFailed(r) \/ Decide(r)
Replies == HandleMessage \/ HandleInvalidReply \/ HandleReply \/ ReplySteered \/ ReplyNotSteered

Next ==
  \/ StartRun
  \/ RunAcknowledged
  \/ RunRefused
  \/ \E result \in {"completed", "failed"} : RunEnds(result)
  \/ TurnEnds
  \/ ServerFails
  \/ \E r \in Request : \/ Ask(r)
                        \/ Handlers(r)
                        \/ Withdraw(r)
                        \/ Expire(r)
  \/ \E to \in {{}} \cup {{r} : r \in Request}, option \in {"none"} \cup Decision :
       MessageArrives(to, option)
  \/ Replies
  \/ Revoke
  \/ AllowAgain
  \/ Interrupt

Spec == Init /\ [][Next]_vars

\* The client's timers, the time limits of its requests (turn/start) and of the
\* channel's sends; the conversation's queue is worked off.
Fairness ==
  /\ WF_vars(RunAcknowledged \/ RunRefused)
  /\ WF_vars(Replies)
  /\ \A r \in Request : WF_vars(Handlers(r)) /\ WF_vars(Expire(r))
FairSpec == Spec /\ Fairness

-----------------------------------------------------------------------------
(* Properties.                                                             *)

\* Codex is told to go ahead only on a reply of the customer to this very
\* question, in the run that asked it, with no later message of the customer
\* stored, and while the conversation may still approve.
GrantIsCurrent ==
  [][\A r \in Request : req[r].answer = "none" /\ req'[r].answer = "accept" =>
       /\ req[r].by # 0 /\ req[r].by = arrived
       /\ IsApprovalTurn(req[r].run)
       /\ allowed]_vars

\* A question shown before the permission was taken away is never granted
\* afterwards, also when the permission came back in time.
RevokedStaysRevoked == \A r \in revoked : req[r].answer # "accept"

\* A run in which Codex was told to cancel never counts as completed: the message
\* it was for is not taken for answered.
CancelledIsNotCompleted ==
  \A r \in Request : req[r].answer = "cancel" => outcome[req[r].run] # "completed"

\* The types are right, no question outlives a revocation, and no cancelled run counts as
\* completed.
ApprovalsHold == TypeOK /\ RevokedStaysRevoked /\ CancelledIsNotCompleted

\* Codex is never blocked for good: every question is answered or given up, though
\* the customer says nothing or the reply cannot be steered into the blocked run.
RequestsEnd == \A r \in Request : req[r].registered ~> ~ req[r].registered

\* A reply never blocks the conversation: what the customer wrote is worked off.
RepliesEnd == reply # NoReply ~> reply = NoReply
=============================================================================
