----------------------------- MODULE CodexTurn -----------------------------
(***************************************************************************)
(* One agent turn of a conversation (start, steer, resultOutput,           *)
(* src/src/services/codex-agent.ts) on a thread of the Codex app-server    *)
(* (startRun, steer and the notifications, codex-app-server.ts).           *)
(*                                                                         *)
(* The turn is a series of runs: the first, and corrections after it.      *)
(* While a run goes on, messages of the customer are steered into it; the  *)
(* run calls tools that send messages.  When it ends, only the tool calls  *)
(* that began after the customer's last direction count as its answer.     *)
(*                                                                         *)
(* Codex writes notifications and responses into one pipe; the client      *)
(* reads them in order and numbers the notifications (eventSequence).      *)
(* Lines that arrive in one chunk are all read before the continuation of  *)
(* a response among them runs.                                             *)
(*                                                                         *)
(* Assumed of Codex (external): it echoes each steered message as an item  *)
(* when it takes it in, takes in all it acknowledged before it completes   *)
(* a run, and takes them in in order.                                      *)
(***************************************************************************)
EXTENDS Naturals, Sequences, FiniteSets

CONSTANTS
  MaxRuns,     \* runs of the turn
  MaxSteers,   \* messages steered into it
  MaxTools     \* tool calls Codex makes

ConstantsOK == MaxRuns \in Nat \ {0} /\ MaxSteers \in Nat /\ MaxTools \in Nat

VARIABLES
  turn,        \* the agent's state of the conversation
  thread,      \* #activeTurnId, #lastSteerClientId and #lastSteerSequence
  steer,       \* steer[s]: the steering of message s
  pendingSteer,\* the steering the end of a run waits for, or 0
  run,         \* run[n]: what the client knows of run n
  eventSequence,
  seen,        \* sequence numbers of the items read, 0 when not read
  answer,      \* answer[n]: the tool calls that count for run n
  codex,       \* Codex: the run it works on, and what it has taken in
  pipe         \* lines written by Codex and not read yet

vars == <<turn, thread, steer, pendingSteer, run, eventSequence, seen, answer, codex, pipe>>
client == <<turn, thread, steer, pendingSteer, run, eventSequence, seen, answer>>

Run == 1 .. MaxRuns
Steer == 1 .. MaxSteers
Tool == 1 .. MaxTools

TurnAt == {"idle", "starting", "running", "settling", "completed", "failed"}
SteerAt == {"new", "staging", "sent", "acknowledged", "confirmed", "refused"}
RunAt == {"none", "requested", "acknowledged", "lost"}

Line == [kind : {"started", "completed", "failed"}, of : Run]
          \cup [kind : {"tool_started", "tool_completed"}, of : Tool]
          \cup [kind : {"taken", "ack"}, of : Steer]

\* The variables have their types, and the client never believes in a run that is
\* over, or in two at once.
TypeOK ==
  /\ turn \in [at : TurnAt, run : 0 .. MaxRuns, finishing : BOOLEAN]
  /\ thread \in [active : 0 .. MaxRuns, last : 0 .. MaxSteers, sequence : Nat]
  /\ steer \in [Steer -> [at : SteerAt, run : 0 .. MaxRuns]]
  /\ pendingSteer \in 0 .. MaxSteers
  /\ run \in [Run -> [at : RunAt, ended : {"no", "completed", "failed"}]]
  /\ eventSequence \in Nat
  /\ seen \in [started : [Tool -> Nat], completed : [Tool -> Nat], taken : [Steer -> Nat]]
  /\ answer \in [Run -> SUBSET Tool]
  /\ codex \in [run : 0 .. MaxRuns, of : [Tool -> 0 .. MaxRuns], open : SUBSET Tool,
                inbox : Seq(Steer), acks : SUBSET Steer]
  /\ pipe \in Seq(Line)
  /\ \A n \in Run : run[n].at = "requested" => thread.active = 0
  /\ thread.active # 0 => thread.active = turn.run /\ turn.at = "running"

Init ==
  /\ turn = [at |-> "idle", run |-> 0, finishing |-> FALSE]
  /\ thread = [active |-> 0, last |-> 0, sequence |-> 0]
  /\ steer = [s \in Steer |-> [at |-> "new", run |-> 0]]
  /\ pendingSteer = 0
  /\ run = [n \in Run |-> [at |-> "none", ended |-> "no"]]
  /\ eventSequence = 0
  /\ seen = [started |-> [k \in Tool |-> 0], completed |-> [k \in Tool |-> 0],
             taken |-> [s \in Steer |-> 0]]
  /\ answer = [n \in Run |-> {}]
  /\ codex = [run |-> 0, of |-> [k \in Tool |-> 0], open |-> {}, inbox |-> <<>>, acks |-> {}]
  /\ pipe = <<>>

-----------------------------------------------------------------------------
(* Codex, external.                                                        *)

Write(line) == pipe' = Append(pipe, line)

\* It acknowledges a run it was asked for, before or after it wrote of its work.
CodexStarted ==
  /\ codex.run # 0
  /\ ~ \E i \in DOMAIN pipe : pipe[i].kind = "started"
  /\ run[codex.run].at = "requested"
  /\ Write([kind |-> "started", of |-> codex.run])
  /\ UNCHANGED <<codex, client>>

CodexCallsTool(k) ==
  /\ codex.run # 0
  /\ codex.of[k] = 0
  /\ \A j \in Tool : j < k => codex.of[j] # 0
  /\ codex' = [codex EXCEPT !.of[k] = codex.run, !.open = @ \cup {k}]
  /\ Write([kind |-> "tool_started", of |-> k])
  /\ UNCHANGED client

CodexToolReturns(k) ==
  /\ k \in codex.open
  /\ codex' = [codex EXCEPT !.open = @ \ {k}]
  /\ Write([kind |-> "tool_completed", of |-> k])
  /\ UNCHANGED client

CodexAcknowledges(s) ==
  /\ s \in codex.acks
  /\ codex' = [codex EXCEPT !.acks = @ \ {s}]
  /\ Write([kind |-> "ack", of |-> s])
  /\ UNCHANGED client

CodexTakesIn ==
  /\ codex.run # 0
  /\ codex.inbox # <<>>
  /\ codex' = [codex EXCEPT !.inbox = Tail(@)]
  /\ Write([kind |-> "taken", of |-> Head(codex.inbox)])
  /\ UNCHANGED client

\* It ends a run; only a failed one leaves tools or messages behind.
CodexEnds(result) ==
  /\ codex.run # 0
  /\ result = "completed" => codex.open = {} /\ codex.inbox = <<>>
  /\ codex' = [codex EXCEPT !.run = 0, !.open = {}, !.inbox = <<>>]
  /\ Write([kind |-> result, of |-> codex.run])
  /\ UNCHANGED client

-----------------------------------------------------------------------------
(* The runs of the turn.                                                   *)

\* #run and startRun: the last steering is forgotten with the run before.
StartRun(n) ==
  /\ thread.active = 0
  /\ run' = [run EXCEPT ![n].at = "requested"]
  /\ thread' = [thread EXCEPT !.last = 0, !.sequence = 0]
  /\ codex' = [codex EXCEPT !.run = n]

\* submit with mode "start", and #start.
Submit ==
  /\ turn.at = "idle"
  /\ turn' = [turn EXCEPT !.at = "starting", !.run = 1]
  /\ StartRun(1)
  /\ UNCHANGED <<steer, pendingSteer, eventSequence, seen, answer, pipe>>

\* turn/start is not answered within its time: the turn fails, whatever Codex does.
StartTimesOut ==
  /\ turn.at = "starting"
  /\ run[turn.run].at = "requested"
  /\ run' = [run EXCEPT ![turn.run].at = "lost"]
  /\ turn' = [turn EXCEPT !.at = "failed"]
  /\ UNCHANGED <<thread, steer, pendingSteer, eventSequence, seen, answer, codex, pipe>>

\* Mutant: the moment of the acknowledgement is the boundary.
AcknowledgedAt == thread.sequence

\* The echo of the last steered message; its acknowledgement when there is none.
Boundary ==
  IF thread.last # 0 /\ seen.taken[thread.last] # 0 THEN seen.taken[thread.last]
                                                    ELSE thread.sequence

\* executedAttemptIds: the completed calls that began after the boundary.
Counted(n) ==
  {k \in Tool : /\ codex.of[k] = n
                /\ seen.completed[k] # 0
                /\ seen.started[k] > Boundary}

\* Mutant: the run stays active on the thread.
StillActive == thread

NoneActive == [thread EXCEPT !.active = 0]

\* A run is over for the agent once its response and its end were read and the
\* continuations of what was read before ran; then no steering is accepted, and
\* one under way is awaited.
RunIsOver ==
  LET n == turn.run IN
  /\ turn.at = "running"
  /\ run[n].at = "acknowledged"
  /\ run[n].ended # "no"
  /\ \A s \in Steer : steer[s].at # "acknowledged"
  /\ thread' = NoneActive
  /\ IF run[n].ended = "completed"
     THEN /\ turn' = [turn EXCEPT !.at = "settling", !.finishing = TRUE]
          /\ answer' = [answer EXCEPT ![n] = Counted(n)]
     ELSE /\ turn' = [turn EXCEPT !.at = "failed"]
          /\ UNCHANGED answer
  /\ UNCHANGED <<steer, pendingSteer, run, eventSequence, seen, codex, pipe>>

\* Mutant: a steering that fails is awaited for ever.
SettledWell == \A s \in Steer : s = pendingSteer => steer[s].at = "confirmed"

Settled == \A s \in Steer : s = pendingSteer => steer[s].at \in {"confirmed", "refused"}

\* #resultOutput: the answer is complete, or the turn needs another run (to
\* correct a missing answer, or to send the image it made), or it failed.
Output ==
  /\ turn.at = "settling"
  /\ turn.run # 1 \/ Settled
  /\ \/ /\ turn' = [turn EXCEPT !.at = IF answer[turn.run] # {} THEN "completed" ELSE @]
        /\ answer[turn.run] # {}
        /\ UNCHANGED <<run, thread, codex>>
     \/ /\ turn.run < MaxRuns
        /\ turn' = [turn EXCEPT !.at = "starting", !.run = @ + 1]
        /\ StartRun(turn.run + 1)
     \/ /\ answer[turn.run] = {}
        /\ \E at \in IF turn.run = 1 THEN {"completed"} ELSE {"failed"} :
             turn' = [turn EXCEPT !.at = at]
        /\ UNCHANGED <<run, thread, codex>>
  /\ UNCHANGED <<steer, pendingSteer, eventSequence, seen, answer, pipe>>

\* The app-server fails, or the agent is closed or aborted.
ConnectionLost ==
  /\ turn.at \in {"starting", "running", "settling"}
  /\ turn' = [turn EXCEPT !.at = "failed"]
  /\ thread' = NoneActive
  /\ steer' = [s \in Steer |-> IF steer[s].at \in {"staging", "sent", "acknowledged"}
                               THEN [steer[s] EXCEPT !.at = "refused"] ELSE steer[s]]
  /\ codex' = [codex EXCEPT !.run = 0, !.open = {}, !.inbox = <<>>, !.acks = {}]
  /\ pipe' = <<>>
  /\ UNCHANGED <<pendingSteer, run, eventSequence, seen, answer>>

-----------------------------------------------------------------------------
(* Steering.                                                               *)

\* submit with mode "steer": a control message may join a turn that finishes.
SubmitSteer(s, control) ==
  /\ steer[s].at = "new"
  /\ \A x \in Steer : steer[x].at \notin {"staging", "sent", "acknowledged"}
  /\ \A x \in Steer : x < s => steer[x].at # "new"
  /\ turn.at \in {"starting", "running", "settling"}
  /\ IF turn.finishing /\ ~ (control /\ turn.at \in {"starting", "running"})
     THEN /\ steer' = [steer EXCEPT ![s].at = "refused"]
          /\ UNCHANGED pendingSteer
     ELSE /\ steer' = [steer EXCEPT ![s].at = "staging"]
          /\ pendingSteer' = s
  /\ UNCHANGED <<turn, thread, run, eventSequence, seen, answer, codex, pipe>>

\* Its images are staged; a control message also waited for the run to be known.
SendSteer(s) ==
  /\ steer[s].at = "staging"
  /\ \/ /\ thread.active # 0
        /\ steer' = [steer EXCEPT ![s] = [at |-> "sent", run |-> thread.active]]
        /\ codex' = IF codex.run = thread.active
                    THEN [codex EXCEPT !.inbox = Append(@, s), !.acks = @ \cup {s}]
                    ELSE codex
     \/ /\ steer' = [steer EXCEPT ![s].at = "refused"]
        /\ UNCHANGED codex
  /\ UNCHANGED <<turn, thread, pendingSteer, run, eventSequence, seen, answer, pipe>>

\* The request fails or times out; Codex may have taken the message in.
SteerTimesOut(s) ==
  /\ steer[s].at = "sent"
  /\ steer' = [steer EXCEPT ![s].at = "refused"]
  /\ UNCHANGED <<turn, thread, pendingSteer, run, eventSequence, seen, answer, codex, pipe>>

\* Mutant: an acknowledgement counts whatever run is active.
AcceptedAnyway(s) == TRUE

Accepted(s) == steer[s].run = thread.active

\* The continuation of the acknowledgement.
SteerConfirmed(s) ==
  /\ steer[s].at = "acknowledged"
  /\ IF Accepted(s)
     THEN /\ steer' = [steer EXCEPT ![s].at = "confirmed"]
          /\ thread' = [thread EXCEPT !.last = s, !.sequence = eventSequence]
     ELSE /\ steer' = [steer EXCEPT ![s].at = "refused"]
          /\ UNCHANGED thread
  /\ UNCHANGED <<turn, pendingSteer, run, eventSequence, seen, answer, codex, pipe>>

-----------------------------------------------------------------------------
(* Reading the pipe.                                                       *)

Reads(kind) == pipe # <<>> /\ Head(pipe).kind = kind /\ pipe' = Tail(pipe)

\* The response to turn/start; one that comes too late is dropped.
ReadStarted ==
  /\ Reads("started")
  /\ LET n == Head(pipe).of IN
     IF turn.at = "starting" /\ run[n].at = "requested"
     THEN /\ run' = [run EXCEPT ![n].at = "acknowledged"]
          /\ turn' = [turn EXCEPT !.at = "running"]
          /\ thread' = [thread EXCEPT !.active = n]
     ELSE UNCHANGED <<run, turn, thread>>
  /\ UNCHANGED <<steer, pendingSteer, eventSequence, seen, answer, codex>>

ReadAcknowledgement ==
  /\ Reads("ack")
  /\ LET s == Head(pipe).of IN
     steer' = IF steer[s].at = "sent" THEN [steer EXCEPT ![s].at = "acknowledged"] ELSE steer
  /\ UNCHANGED <<turn, thread, pendingSteer, run, eventSequence, seen, answer, codex>>

\* Items are numbered as they are read.
ReadItem ==
  /\ \/ Reads("tool_started")
        /\ seen' = [seen EXCEPT !.started[Head(pipe).of] = eventSequence + 1]
     \/ Reads("tool_completed")
        /\ seen' = [seen EXCEPT !.completed[Head(pipe).of] = eventSequence + 1]
     \/ Reads("taken")
        /\ seen' = [seen EXCEPT !.taken[Head(pipe).of] = eventSequence + 1]
  /\ eventSequence' = eventSequence + 1
  /\ UNCHANGED <<turn, thread, steer, pendingSteer, run, answer, codex>>

ReadEnd ==
  /\ \E result \in {"completed", "failed"} :
       /\ Reads(result)
       /\ run' = [run EXCEPT ![Head(pipe).of].ended = result]
  /\ eventSequence' = eventSequence + 1
  /\ UNCHANGED <<turn, thread, steer, pendingSteer, seen, answer, codex>>

-----------------------------------------------------------------------------

Reader == ReadStarted \/ ReadAcknowledgement \/ ReadItem \/ ReadEnd
Steering(s) == SendSteer(s) \/ SteerTimesOut(s) \/ SteerConfirmed(s)
Codex ==
  \/ CodexStarted
  \/ \E k \in Tool : CodexCallsTool(k) \/ CodexToolReturns(k)
  \/ \E s \in Steer : CodexAcknowledges(s)
  \/ CodexTakesIn
  \/ \E result \in {"completed", "failed"} : CodexEnds(result)

Next ==
  \/ Submit
  \/ StartTimesOut
  \/ RunIsOver
  \/ Output
  \/ ConnectionLost
  \/ \E s \in Steer : Steering(s) \/ \E control \in BOOLEAN : SubmitSteer(s, control)
  \/ Reader
  \/ Codex

Spec == Init /\ [][Next]_vars

\* The client reads what it gets and its requests have time limits; Codex ends
\* every run at some time.
Fairness ==
  /\ WF_vars(Reader) /\ WF_vars(RunIsOver) /\ WF_vars(Output) /\ WF_vars(StartTimesOut)
  /\ \A s \in Steer : WF_vars(Steering(s))
  /\ WF_vars(CodexEnds("failed"))
FairSpec == Spec /\ Fairness

-----------------------------------------------------------------------------
(* Properties.                                                             *)

\* The types are right, and a message sent before Codex took in the customer's last
\* direction is never reported as the answer to it.
AnswersFollowDirection ==
  /\ TypeOK
  /\ \A n \in Run, s \in Steer :
       steer[s].at = "confirmed" /\ steer[s].run = n =>
         \A k \in answer[n] : seen.started[k] > seen.taken[s]

\* A turn ends: neither a steering that fails nor one that is never acknowledged
\* holds back its result.
TurnEnds == turn.at = "starting" ~> turn.at \in {"completed", "failed"}
=============================================================================
