----------------------------- MODULE MCAgentLive -----------------------------
(***************************************************************************)
(* CodexTurn, with instances for the liveness of the other parts a turn of *)
(* the agent goes through: AppServer, Approval and IlinkExecutor, which    *)
(* sends what the agent and its approvals have to say.  The run explores   *)
(* one after another: subject names the part or the instance whose steps   *)
(* are taken, while the variables of the other parts stay as they were in  *)
(* the beginning.  Of the turns, those with one run and those with one     *)
(* steering are explored.  Fairness is the premise of a liveness property, *)
(* so that it is that of the part.                                         *)
(***************************************************************************)
EXTENDS CodexTurn, TLC

CONSTANTS
  Subject,    \* the parts and instances a run explores
  t1, q1,     \* a thread, a listing
  r1, r2,     \* requests for approval
  m1, NoMessage, c1, c2, a1, a2   \* a message, two calls that answer it, their attempts

VARIABLES
  subject,
  \* AppServer, whose pipe is output
  process, signalled, closed, failure, initializing, request, turns, stage, step,
  completion, closing, output, chunk, heard, working, lines, reported,
  \* Approval, whose run is asking
  active, cancelling, asking, outcome, marked, req, allowed, revocations, arrived, inbox,
  reply, connected, revoked,
  \* IlinkExecutor, whose inbox is stored
  phase, account, stored, lastSeq, window, session, attempt, lapsed, call, queue, tokens

\* A run beside a listing, with every fault but garbage.
Calls == INSTANCE AppServer WITH
  Thread <- {t1}, Query <- {q1}, MaxRuns <- 1, MaxPages <- 1, MaxLines <- 2,
  Faults <- {"exit", "input", "output", "spawn"}, pipe <- output

\* Two questions of one run, a message of the customer and a revocation.
Questions == INSTANCE Approval WITH
  Request <- {r1, r2}, MaxRuns <- 1, MaxMessages <- 1, MaxRevocations <- 1, run <- asking

\* Two calls that end, an image and a question.
Returns == INSTANCE IlinkExecutor WITH
  Message <- {m1}, Attempt <- {a1, a2}, MaxSends <- 1, MaxGeneration <- 1,
  SystemKind <- {"queue_notice", "agent_approval"}, ProviderSeq <- [m \in {m1} |-> 1],
  SentAt <- [m \in {m1} |-> 0], NumericId <- [m \in {m1} |-> 0], Page <- {<<m1>>},
  Call <- {c1, c2}, CallKind <- {"image", "agent_approval"}, inbox <- stored

ASSUME ConstantsAssumption ==
  ConstantsOK /\ Questions!ConstantsOK /\ Returns!ConstantsOK

appServerVars == <<process, signalled, closed, failure, initializing, request, turns, stage, step,
                   completion, closing, output, chunk, heard, working, lines, reported>>
approvalVars == <<active, cancelling, asking, outcome, marked, req, allowed, revocations, arrived,
                  inbox, reply, connected, revoked>>
executorVars == <<phase, account, stored, lastSeq, window, session, attempt, lapsed, call, queue,
                  tokens>>
allVars == <<subject, vars, appServerVars, approvalVars, executorVars>>

MCInit ==
  /\ subject \in Subject
  /\ Init
  /\ Calls!Init
  /\ Questions!Init
  /\ Returns!ExecutorInit

OneSteering == \A s \in Steer : s > 1 => steer[s].at = "new"
OneTool == \A k \in Tool : k > 1 => codex.of[k] = 0

\* Two steerings of one run or two tool calls in it; one of each in a turn of two runs.
TurnNext ==
  /\ UNCHANGED <<subject, appServerVars, approvalVars, executorVars>>
  /\ Next
  /\ \/ subject = "steered" /\ turn'.run <= 1 /\ (OneSteering \/ OneTool)'
     \/ subject = "repeated" /\ (OneSteering /\ OneTool)'

AppServerNext ==
  /\ UNCHANGED <<subject, vars, approvalVars, executorVars>>
  /\ subject = "calls" /\ Calls!Next

ApprovalNext ==
  /\ UNCHANGED <<subject, vars, appServerVars, executorVars>>
  /\ subject = "approvals" /\ Questions!Next

ExecutorNext ==
  /\ UNCHANGED <<subject, vars, appServerVars, approvalVars>>
  /\ subject = "returns" /\ Returns!ExecutorNext

MCNext == TurnNext \/ AppServerNext \/ ApprovalNext \/ ExecutorNext

MCSpec == MCInit /\ [][MCNext]_allVars

-----------------------------------------------------------------------------
(* Properties: AnswersFollowDirection is that of CodexTurn, the others are *)
(* those of the parts, each on its instance.                               *)

\* A turn ends, whatever becomes of its steerings (CodexTurn).
AgentTurnEnds == subject = "repeated" /\ Fairness => TurnEnds

\* A close asked for is no failure (AppServer).
CloseIsNoFailure == Calls!CloseIsNoFailure

\* Every call is settled, and every close ends (AppServer).
CallsSettle == subject = "calls" /\ Calls!Fairness => Calls!CallsSettle
CloseEnds == subject = "calls" /\ Calls!Fairness => Calls!CloseEnds

\* Every question is answered or given up; no reply blocks the conversation (Approval).
QuestionsEnd == subject = "approvals" /\ Questions!Fairness => Questions!RequestsEnd
AnswersEnd == subject = "approvals" /\ Questions!Fairness => Questions!RepliesEnd

\* Every send gets its answer, whatever became of those before it in line (IlinkExecutor).
CallsReturn == subject = "returns" /\ Returns!ExecutorFairness => Returns!CallsReturn

\* Turns, calls, closes, questions, replies and sends come to an end, and a close asked for is
\* no failure (CodexTurn, AppServer, Approval, IlinkExecutor).
TurnsAndCallsEnd ==
  /\ CloseIsNoFailure /\ AgentTurnEnds /\ CallsSettle /\ CloseEnds
  /\ QuestionsEnd /\ AnswersEnd /\ CallsReturn
=============================================================================
