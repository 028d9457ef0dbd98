----------------------------- MODULE AppServer -----------------------------
(***************************************************************************)
(* The client of one Codex app-server process:                             *)
(* src/src/services/codex-app-server.ts, but for the approvals (module     *)
(* Approval) and for steering (module CodexTurn).                          *)
(*                                                                         *)
(* Threads and lookups share one child process, started and initialized by *)
(* whoever comes first.  A call is a line written to the child and a timer; *)
(* its answer, the notifications and the end of a turn come back in one     *)
(* pipe.  Any fault of the child or of its pipes closes the client for good *)
(* (fail): all that is outstanding is rejected, the owner is told, and the  *)
(* child is stopped.  The owner may close it at any time as well.           *)
(*                                                                         *)
(* Node hands the lines of one chunk to the client one after the other; the *)
(* continuations of what they settle run when the chunk is over, and before *)
(* the next event.                                                         *)
(*                                                                         *)
(* Abstractions.  A call is named by its caller and its number, and a turn  *)
(* by the call that starts it.  Codex (external) answers in any order, late *)
(* or never, and reports on a turn before and after it answers.             *)
(***************************************************************************)
EXTENDS Naturals, Sequences, FiniteSets

CONSTANTS
  Thread,     \* conversation threads: startRun, again and again
  Query,      \* getThreadState, and readThread and deleteThread as one page
  MaxRuns,    \* bound on the runs of a thread
  MaxPages,   \* bound on the pages of a listing (MAX_THREAD_LIST_PAGES)
  MaxLines,   \* bound on the notifications of Codex
  Faults      \* what may go wrong: "exit", "input", "output", "line", "spawn"

Caller == Thread \cup Query
Start == Thread \X (2 .. MaxRuns + 1)              \* turn/start
Open == Thread \X {1}                              \* thread/start, thread/resume
List == Query \X (1 .. 2 * MaxPages)               \* thread/list
Initialize == <<"initialize", 0>>
Call == Start \cup Open \cup List \cup {Initialize}

VARIABLES
  process,      \* the child: "none", "alive", "dead", or "gone" once its exit is seen
  signalled,    \* what #terminate sent it: "no", "term" or "kill"
  closed,       \* #closed
  failure,      \* the failure promise of the owner is resolved
  initializing, \* #initializing: "no", "waiting", "ok" or "failed"
  request,      \* #pending, and how each call was settled
  turns,        \* #turns: "absent", or how the waiter of the turn stands
  stage,        \* what each caller does
  step,         \* number of its last call
  completion,   \* the completion of a thread's run
  closing,      \* close(): "no", "waiting" or "done"
  pipe,         \* lines Codex wrote, not read yet
  chunk,        \* lines left of the chunk being read
  heard,        \* Codex: calls to answer
  working,      \* Codex: turns under way
  lines,        \* notifications Codex wrote, for the bound
  reported      \* turns whose end the client has read

child == <<process, signalled>>
codex == <<pipe, heard, working, lines>>
client == <<initializing, request, stage, step, turns, completion>>
owner == <<closed, failure, closing>>
vars == <<child, codex, client, owner, chunk, reported>>

-----------------------------------------------------------------------------

Settled == {"answered", "refused", "rejected"}
Notifications == {"item", "completed", "failed"}
Line == [kind : {"answer", "refusal"} \cup Notifications, of : Call]
        \cup [kind : {"garbage"}]

Current(c) == <<c, step[c]>>

TypeOK ==
  /\ process \in {"none", "alive", "dead", "gone"}
  /\ signalled \in {"no", "term", "kill"}
  /\ closed \in BOOLEAN /\ failure \in BOOLEAN
  /\ initializing \in {"no", "waiting", "ok", "failed"}
  /\ request \in [Call -> {"no", "pending"} \cup Settled]
  /\ turns \in [Start -> {"absent", "open", "completed", "failed"}]
  /\ stage \in [Caller -> {"new", "initializing", "asking", "idle", "running", "over"}]
  /\ \A c \in Caller : step[c] = 0 \/ Current(c) \in Call
  /\ completion \in [Thread -> {"none", "waiting", "completed", "failed"}]
  /\ closing \in {"no", "waiting", "done"}
  /\ pipe \in Seq(Line) /\ chunk \in 0 .. Len(pipe)
  /\ heard \subseteq Call /\ working \subseteq Start /\ lines \in 0 .. MaxLines
  /\ reported \subseteq Start
  \* Nothing is outstanding at a closed client, and no child is left alone.
  /\ closed => \A c \in Call : request[c] # "pending"
  /\ closed /\ process \in {"alive", "dead"} => signalled # "no"
  /\ \A t \in Thread : stage[t] = "running" <=> completion[t] # "none"

Init ==
  /\ process = "none" /\ signalled = "no"
  /\ closed = FALSE /\ failure = FALSE /\ closing = "no"
  /\ initializing = "no"
  /\ request = [c \in Call |-> "no"]
  /\ turns = [u \in Start |-> "absent"]
  /\ stage = [c \in Caller |-> "new"]
  /\ step = [c \in Caller |-> 0]
  /\ completion = [t \in Thread |-> "none"]
  /\ pipe = <<>> /\ chunk = 0
  /\ heard = {} /\ working = {} /\ lines = 0
  /\ reported = {}

-----------------------------------------------------------------------------
(* Continuations, which run before anything else happens.                  *)

Due ==
  \/ initializing = "waiting" /\ request[Initialize] \in Settled
  \/ \E c \in Caller :
       \/ stage[c] = "initializing" /\ initializing \in {"ok", "failed"}
       \/ stage[c] = "asking" /\ request[Current(c)] \in Settled
       \/ stage[c] = "running" /\ completion[c] \in {"completed", "failed"}

Quiet == chunk = 0 /\ ~Due

-----------------------------------------------------------------------------
(* fail and close: closed for good, everything outstanding is rejected     *)
(* (rejectAll), and the child gets a SIGTERM (terminate).                   *)

RejectCalls ==
  request' = [c \in Call |-> IF request[c] = "pending" THEN "rejected" ELSE request[c]]

RejectTurns ==
  /\ completion' = [t \in Thread |-> IF completion[t] = "waiting" THEN "failed"
                                     ELSE completion[t]]
  /\ turns' = [u \in Start |-> "absent"]

\* As RejectAll, but the waiters of turns are only forgotten (a mutant).
RejectCallsOnly ==
  /\ RejectCalls /\ turns' = [u \in Start |-> "absent"] /\ UNCHANGED completion

RejectAll == RejectCalls /\ RejectTurns

Stoppable == process \in {"alive", "dead"} /\ signalled = "no"

\* A mutant: a child that is at work is left to itself.
TerminateDead == signalled' = IF Stoppable /\ process = "dead" THEN "term" ELSE signalled

Terminate == signalled' = IF Stoppable THEN "term" ELSE signalled

\* A mutant: the owner is told of what it asked for.
FailAnyway ==
  /\ closed' = TRUE
  /\ failure' = TRUE
  /\ IF closed THEN UNCHANGED <<request, turns, completion, signalled>>
               ELSE RejectAll /\ Terminate

Fail ==
  /\ closed' = TRUE
  /\ failure' = (failure \/ ~closed)
  /\ IF closed THEN UNCHANGED <<request, turns, completion, signalled>>
               ELSE RejectAll /\ Terminate

\* A mutant: close does not wait for a child it has already signalled.
CloseAtOnce ==
  /\ Quiet /\ closing = "no"
  /\ closed' = TRUE
  /\ IF closed THEN UNCHANGED <<request, turns, completion>> ELSE RejectAll
  /\ Terminate
  /\ closing' = IF Stoppable THEN "waiting" ELSE "done"
  /\ UNCHANGED <<process, failure, initializing, stage, step, codex, chunk, reported>>

Close ==
  /\ Quiet /\ closing = "no"
  /\ closed' = TRUE
  /\ IF closed THEN UNCHANGED <<request, turns, completion>> ELSE RejectAll
  /\ Terminate
  /\ closing' = IF process \in {"alive", "dead"} THEN "waiting" ELSE "done"
  /\ UNCHANGED <<process, failure, initializing, stage, step, codex, chunk, reported>>

\* A mutant: the timer is forgotten when the owner closes too.
ForceKillUnclosed ==
  /\ Quiet /\ signalled = "term" /\ process \in {"alive", "dead"} /\ closing = "no"
  /\ signalled' = "kill"
  /\ UNCHANGED <<process, codex, client, owner, chunk, reported>>

\* The child does not go: two seconds after the first signal it gets a second.
ForceKill ==
  /\ Quiet /\ signalled = "term" /\ process \in {"alive", "dead"}
  /\ signalled' = "kill"
  /\ UNCHANGED <<process, codex, client, owner, chunk, reported>>

-----------------------------------------------------------------------------
(* Calls.                                                                  *)

\* request: rejected at once when closed, else written, with a timer.
Ask(c, n) ==
  /\ step' = [step EXCEPT ![c] = n]
  /\ stage' = [stage EXCEPT ![c] = "asking"]
  /\ request' = [request EXCEPT ![<<c, n>>] = IF closed THEN "rejected" ELSE "pending"]
  /\ heard' = IF ~closed /\ process = "alive" THEN heard \cup {<<c, n>>} ELSE heard

\* initialize: refused when closed; the first caller spawns the child, and the
\* others wait with it.
EnsureClient(c) ==
  /\ Quiet /\ stage[c] = "new"
  /\ stage' = [stage EXCEPT ![c] = IF closed THEN "over" ELSE "initializing"]
  /\ IF closed \/ initializing # "no"
     THEN UNCHANGED <<process, initializing, request, heard>>
     ELSE /\ process' = "alive"
          /\ initializing' = "waiting"
          /\ request' = [request EXCEPT ![Initialize] = "pending"]
          /\ heard' = heard \cup {Initialize}
  /\ UNCHANGED <<signalled, pipe, working, lines, step, turns, completion, owner, chunk, reported>>

\* The spawn throws, or its error is the first event.
SpawnFails(c) ==
  /\ "spawn" \in Faults
  /\ Quiet /\ stage[c] = "new" /\ ~closed /\ initializing = "no"
  /\ stage' = [stage EXCEPT ![c] = "initializing"]
  /\ initializing' = "failed" /\ process' = "gone"
  /\ Fail
  /\ UNCHANGED <<codex, step, closing, chunk, reported>>

\* A mutant: the failed attempt is kept, and the client left open.
InitializeSettlesQuietly ==
  /\ chunk = 0 /\ initializing = "waiting" /\ request[Initialize] \in Settled
  /\ initializing' = IF request[Initialize] = "answered" THEN "ok" ELSE "waiting"
  /\ request' = [request EXCEPT ![Initialize] = "no"]
  /\ UNCHANGED <<process, codex, stage, step, closing, chunk, reported>>
  /\ UNCHANGED <<turns, completion, signalled, closed, failure>>

\* The answer to initialize, or its rejection, which closes the client.
InitializeSettles ==
  /\ chunk = 0 /\ initializing = "waiting" /\ request[Initialize] \in Settled
  /\ IF request[Initialize] = "answered" /\ process \in {"alive", "dead"}
     THEN /\ initializing' = "ok"
          /\ UNCHANGED <<request, turns, completion, signalled, closed, failure>>
     ELSE initializing' = "failed" /\ Fail
  /\ UNCHANGED <<process, codex, stage, step, closing, chunk, reported>>

\* A caller goes on with its first call once the client is initialized.
Initialized(c) ==
  /\ chunk = 0 /\ stage[c] = "initializing" /\ initializing \in {"ok", "failed"}
  /\ IF initializing = "ok"
     THEN Ask(c, 1)
     ELSE stage' = [stage EXCEPT ![c] = "over"] /\ UNCHANGED <<step, request, heard>>
  /\ UNCHANGED <<child, pipe, working, lines, initializing, turns, completion>>
  /\ UNCHANGED <<owner, chunk, reported>>

TimesOut(c) ==
  /\ Quiet /\ request[c] = "pending"
  /\ request' = [request EXCEPT ![c] = "rejected"]
  /\ UNCHANGED <<child, codex, initializing, stage, step, turns, completion>>
  /\ UNCHANGED <<owner, chunk, reported>>

-----------------------------------------------------------------------------
(* Threads: ensureThread and startRun.                                     *)

StartRun(t) ==
  /\ Quiet /\ stage[t] = "idle" /\ <<t, step[t] + 1>> \in Start
  /\ Ask(t, step[t] + 1)
  /\ UNCHANGED <<child, pipe, working, lines, initializing, turns, completion>>
  /\ UNCHANGED <<owner, chunk, reported>>

Answered(c) == chunk = 0 /\ stage[c] = "asking" /\ request[Current(c)] = "answered"

\* The thread is open: its first run follows.
Opened(t) ==
  /\ Answered(t) /\ Current(t) \in Open
  /\ Ask(t, 2)
  /\ UNCHANGED <<child, pipe, working, lines, initializing, turns, completion>>
  /\ UNCHANGED <<owner, chunk, reported>>

\* A mutant: a waiter of its own, whatever was reported before.
RunStartedAnew(t) ==
  /\ Answered(t) /\ Current(t) \in Start
  /\ stage' = [stage EXCEPT ![t] = "running"]
  /\ turns' = [turns EXCEPT ![Current(t)] = "open"]
  /\ completion' = [completion EXCEPT ![t] = "waiting"]
  /\ UNCHANGED <<child, codex, initializing, request, step, owner, chunk, reported>>

\* waitForTurn: the waiter that is there, open or settled by now, or a new one.
RunStarted(t) ==
  /\ Answered(t) /\ Current(t) \in Start
  /\ LET u == Current(t) IN
     /\ stage' = [stage EXCEPT ![t] = "running"]
     /\ turns' = [turns EXCEPT ![u] = IF @ = "absent" THEN "open" ELSE @]
     /\ completion' = [completion EXCEPT ![t] =
                         IF turns[u] \in {"absent", "open"} THEN "waiting" ELSE turns[u]]
  /\ UNCHANGED <<child, codex, initializing, request, step, owner, chunk, reported>>

\* The run is over: its entry is dropped, and the thread may start another.
RunEnds(t) ==
  /\ chunk = 0 /\ stage[t] = "running" /\ completion[t] \in {"completed", "failed"}
  /\ stage' = [stage EXCEPT ![t] = "idle"]
  /\ completion' = [completion EXCEPT ![t] = "none"]
  /\ turns' = [turns EXCEPT ![Current(t)] = "absent"]
  /\ UNCHANGED <<child, codex, initializing, request, step, owner, chunk, reported>>

\* Refused or rejected: the thread cannot be opened again by this object, but
\* a run can be started anew.
NotAnswered(c) ==
  /\ chunk = 0 /\ stage[c] = "asking" /\ request[Current(c)] \in {"refused", "rejected"}
  /\ stage' = [stage EXCEPT ![c] = IF Current(c) \in Start THEN "idle" ELSE "over"]
  /\ UNCHANGED <<child, codex, initializing, request, step, turns, completion>>
  /\ UNCHANGED <<owner, chunk, reported>>

-----------------------------------------------------------------------------
(* getThreadState: the pages of the active threads, then of the archived.  *)

\* The thread is on this page, or this was the last page of the second list,
\* or the limit of pages is exceeded.
ListEnds(q) ==
  /\ Answered(q)
  /\ stage' = [stage EXCEPT ![q] = "over"]
  /\ UNCHANGED <<child, codex, initializing, request, step, turns, completion>>
  /\ UNCHANGED <<owner, chunk, reported>>

\* The next page, or the first of the second list.
NextPage(q) ==
  /\ Answered(q)
  /\ \E n \in {step[q] + 1, MaxPages + 1} : n > step[q] /\ <<q, n>> \in List /\ Ask(q, n)
  /\ UNCHANGED <<child, pipe, working, lines, initializing, turns, completion>>
  /\ UNCHANGED <<owner, chunk, reported>>

-----------------------------------------------------------------------------
(* Lines of the child.                                                     *)

\* A chunk of lines arrives; a closed reader is handed no other.
ReadChunk ==
  /\ Quiet /\ ~closed
  /\ chunk' \in 1 .. Len(pipe)
  /\ UNCHANGED <<child, codex, client, owner, reported>>

Reads(kinds) == chunk > 0 /\ Head(pipe).kind \in kinds

TakeLine == pipe' = Tail(pipe) /\ chunk' = chunk - 1

\* An answer to a call that is not pending any more is dropped.
ReadAnswer ==
  /\ Reads({"answer", "refusal"}) /\ TakeLine
  /\ LET line == Head(pipe) IN
     request' = [request EXCEPT ![line.of] =
                   IF @ # "pending" THEN @
                   ELSE IF line.kind = "answer" THEN "answered" ELSE "refused"]
  /\ UNCHANGED <<child, heard, working, lines, initializing, stage, step, turns, completion>>
  /\ UNCHANGED <<owner, reported>>

\* An item of a turn, which makes an entry for it.
ReadItem ==
  /\ Reads({"item"}) /\ TakeLine
  /\ turns' = [turns EXCEPT ![Head(pipe).of] = IF @ = "absent" THEN "open" ELSE @]
  /\ UNCHANGED <<child, heard, working, lines, initializing, request, stage, step, completion>>
  /\ UNCHANGED <<owner, reported>>

\* The end of a turn settles its waiter, whether a caller holds it yet or not.
ReadEnd ==
  /\ Reads({"completed", "failed"}) /\ TakeLine
  /\ LET u == Head(pipe).of  how == Head(pipe).kind IN
     /\ reported' = reported \cup {u}
     /\ turns' = [turns EXCEPT ![u] = IF @ \in {"absent", "open"} THEN how ELSE @]
     /\ completion' = [t \in Thread |->
                         IF u = Current(t) /\ completion[t] = "waiting" THEN how
                         ELSE completion[t]]
  /\ UNCHANGED <<child, heard, working, lines, initializing, request, stage, step, owner>>

\* Not JSON, or not an object.
ReadGarbage ==
  /\ Reads({"garbage"}) /\ TakeLine
  /\ Fail
  /\ UNCHANGED <<process, heard, working, lines, initializing, stage, step, closing, reported>>

-----------------------------------------------------------------------------
(* Faults of the child and of its pipes.                                   *)

\* The exit of the child is seen; a close that waits for it ends.
ChildExits ==
  /\ Quiet /\ process = "dead"
  /\ process' = "gone"
  /\ Fail
  /\ closing' = IF closing = "waiting" THEN "done" ELSE closing
  /\ UNCHANGED <<codex, initializing, stage, step, chunk, reported>>

\* The output ends, which is seen before or after the exit.
OutputCloses ==
  /\ Quiet /\ ~closed /\ process \in {"alive", "dead"} /\ pipe = <<>>
  /\ process = "dead" \/ "output" \in Faults
  /\ Fail
  /\ UNCHANGED <<process, codex, initializing, stage, step, closing, chunk, reported>>

\* What was written could not be delivered.
InputFails ==
  /\ Quiet /\ process \in {"alive", "dead"}
  /\ process = "dead" \/ "input" \in Faults
  /\ Fail
  /\ UNCHANGED <<process, codex, initializing, stage, step, closing, chunk, reported>>

-----------------------------------------------------------------------------
(* Codex (external).                                                       *)

\* What it writes to a closed client is never read.
Writes == Quiet /\ process = "alive" /\ ~closed

Written(line) == pipe' = Append(pipe, line)

CodexAnswers(c) ==
  /\ Writes /\ c \in heard
  /\ heard' = heard \ {c}
  /\ Written([kind |-> "answer", of |-> c])
  /\ working' = IF c \in Start THEN working \cup {c} ELSE working
  /\ UNCHANGED <<child, lines, client, owner, chunk, reported>>

CodexRefuses(c) ==
  /\ Writes /\ c \in heard
  /\ heard' = heard \ {c}
  /\ Written([kind |-> "refusal", of |-> c])
  /\ UNCHANGED <<child, working, lines, client, owner, chunk, reported>>

\* Codex reports on a turn: one it works on, has yet to acknowledge, or ended.
CodexNotifies(u) ==
  /\ Writes /\ lines < MaxLines
  /\ u \in heard \cup working \cup reported
  /\ Written([kind |-> "item", of |-> u])
  /\ lines' = lines + 1
  /\ UNCHANGED <<child, heard, working, client, owner, chunk, reported>>

CodexEnds(u) ==
  /\ Writes /\ lines < MaxLines
  /\ u \in working
  /\ \E how \in {"completed", "failed"} : Written([kind |-> how, of |-> u])
  /\ working' = working \ {u}
  /\ lines' = lines + 1
  /\ UNCHANGED <<child, heard, client, owner, chunk, reported>>

\* It starts and ends a turn before it acknowledges it.
CodexEndsEarly(u) ==
  /\ Writes /\ lines < MaxLines
  /\ u \in heard
  /\ heard' = heard \ {u}
  /\ pipe' = pipe \o <<[kind |-> "completed", of |-> u], [kind |-> "answer", of |-> u]>>
  /\ lines' = lines + 1
  /\ UNCHANGED <<child, working, client, owner, chunk, reported>>

CodexGarbles ==
  /\ "line" \in Faults
  /\ Writes /\ lines < MaxLines
  /\ Written([kind |-> "garbage"])
  /\ lines' = lines + 1
  /\ UNCHANGED <<child, heard, working, client, owner, chunk, reported>>

\* It dies by itself, or by the signal; a first signal may be ignored.
CodexDies ==
  /\ Quiet /\ process = "alive"
  /\ "exit" \in Faults \/ signalled # "no"
  /\ process' = "dead"
  /\ UNCHANGED <<signalled, codex, client, owner, chunk, reported>>

Codex ==
  \/ \E c \in Call : CodexAnswers(c) \/ CodexRefuses(c)
  \/ \E u \in Start : CodexNotifies(u) \/ CodexEnds(u) \/ CodexEndsEarly(u)
  \/ CodexGarbles \/ CodexDies

-----------------------------------------------------------------------------

Continue ==
  \/ InitializeSettles
  \/ \E c \in Caller : Initialized(c) \/ NotAnswered(c)
  \/ \E t \in Thread : Opened(t) \/ RunStarted(t) \/ RunEnds(t)
  \/ \E q \in Query : ListEnds(q) \/ NextPage(q)

Read == ReadAnswer \/ ReadItem \/ ReadEnd \/ ReadGarbage

Fault == ChildExits \/ OutputCloses \/ InputFails

Next ==
  \/ Continue \/ ReadChunk \/ Read \/ Fault \/ Codex
  \/ \E c \in Caller : EnsureClient(c) \/ SpawnFails(c)
  \/ \E t \in Thread : StartRun(t)
  \/ \E c \in Call : TimesOut(c)
  \/ Close \/ ForceKill

Spec == Init /\ [][Next]_vars

\* Continuations and lines of a chunk run, timers fire, a killed child dies and
\* its exit is seen.  Codex need not answer, and no turn need end.
Fairness ==
  /\ WF_vars(Continue) /\ WF_vars(Read) /\ WF_vars(ForceKill) /\ WF_vars(ChildExits)
  /\ \A c \in Call : WF_vars(TimesOut(c))
  /\ WF_vars(signalled = "kill" /\ CodexDies)
FairSpec == Spec /\ Fairness

-----------------------------------------------------------------------------
(* Properties.                                                             *)

\* No run waits on a client that is closed: whoever waits for a turn is told
\* when the child or its pipe fails, also one that comes to wait for it just
\* then.  An agent that stops waits for all its runs.
NobodyWaitsOnClosed ==
  closed /\ Quiet => \A t \in Thread : completion[t] # "waiting"

\* The end of a turn is never missed, not even when it is read before the
\* answer to turn/start, or in one chunk with it.
EndIsHeard ==
  ~closed /\ Quiet =>
    \A t \in Thread : stage[t] = "running" => Current(t) \notin reported

\* A close that is over leaves no child behind.
ClosedLeavesNoChild == closing = "done" => process \in {"none", "gone"}

\* A close asked for is no failure, whatever the child and the pending calls do
\* on the way down: the worker is not restarted for it.
CloseIsNoFailure == [][closed /\ ~failure => ~failure']_vars

\* Every call is settled: answered, refused, timed out or rejected.
CallsSettle ==
  \A c \in Caller : stage[c] \in {"initializing", "asking"}
                      ~> stage[c] \notin {"initializing", "asking"}

\* A close ends, though the child may ignore the first signal.
CloseEnds == closing = "waiting" ~> closing = "done"
=============================================================================
