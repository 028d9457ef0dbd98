----------------------------- MODULE RuntimeUse -----------------------------
(***************************************************************************)
(* Who uses the runtime, and when it may stop by itself                    *)
(* (src/src/runtime.ts): operator clients and their calls, the accounts    *)
(* and their listeners, the WeCom server, logins, and the three ways to    *)
(* stop - unused, idle for an update, and by a signal.                     *)
(*                                                                         *)
(* Two lines of work matter.  Account changes and restarts of the          *)
(* listeners run one after the other (refresh and restart,                 *)
(* src/src/ilink/listener.ts) and wait for the tasks they retire; changes  *)
(* of WeCom run one after the other (wecomChange).  A stop is decided in a *)
(* setImmediate, which runs after everything that waits for nothing.       *)
(*                                                                         *)
(* Abstractions.  A client makes one call at a time.  Everything else the  *)
(* runtime may be busy with (turns, sends, recoveries, drains) is one flag *)
(* the environment moves.  Logins, listeners and turns have modules of     *)
(* their own.                                                              *)
(***************************************************************************)
EXTENDS Naturals, Sequences, FiniteSets

CONSTANTS
  Account,
  Client,
  NoClient,
  MaxCalls    \* bound on calls of the clients

ConstantsOK ==
  NoClient \notin Client /\ MaxCalls \in Nat

VARIABLES
  known, on,   \* accounts enrolled; accounts with runtime_enabled
  live,        \* accounts with a listener task
  jobs,        \* the line of refreshes and restarts (#refreshTail)
  wecom,       \* wecomServer, and the choice kept in the store
  ops,         \* the line of WeCom changes (wecomChange)
  client,      \* operatorClients and their logins
  epoch,       \* accountMutationEpoch
  unused,      \* unusedStopRequested
  immediates,  \* epochs of the stops that are scheduled
  stage,       \* how far the runtime has stopped
  busy,        \* processor, tools, recovery or drain at work
  calls

accounts == <<known, on>>
listeners == <<live, jobs>>
server == <<wecom, ops>>
vars == <<accounts, listeners, server, client, epoch, unused, immediates, stage, busy, calls>>

Mutation == {"enable", "disable", "delete", "restart"}
Job == [client : Client, kind : Mutation \cup {"refresh"}, started : BOOLEAN, retire : SUBSET Account]
Op == [client : Client \cup {NoClient}, action : {"start", "stop", "restart"},
       at : {"waiting", "closing", "opening"}]
Stage == {"up", "unused", "released", "stopping", "closing", "closed", "aborted"}

-----------------------------------------------------------------------------

OperatorInUse == \E c \in Client : client[c].connected \/ client[c].login # "none"

\* activeAccountMutations
Mutating == \E i \in DOMAIN jobs : jobs[i].kind \in Mutation

NoChannel == on = {} /\ wecom.server = "none" /\ ops = <<>>

\* toolsUnavailable
Unavailable == stage # "up"

\* The variables have their types; once no change of accounts is in line, the
\* listeners are those of the enabled accounts.
TypeOK ==
  /\ known \subseteq Account /\ on \subseteq known /\ live \subseteq Account
  /\ jobs \in Seq(Job)
  /\ wecom \in [server : {"none", "opening", "listening"}, enabled : BOOLEAN]
  /\ ops \in Seq(Op)
  /\ client \in [Client -> [connected : BOOLEAN, login : {"none", "beginning", "pending", "confirmed"}]]
  /\ epoch \in Nat /\ unused \in BOOLEAN /\ immediates \subseteq 0 .. epoch
  /\ stage \in Stage /\ busy \in BOOLEAN /\ calls \in 0 .. MaxCalls
  /\ stage = "up" /\ jobs = <<>> => live = on

\* A runtime that has started: its listeners run, and WeCom is being restored
\* when it was enabled.
Init ==
  /\ known \in SUBSET Account
  /\ on \in SUBSET known
  /\ live = on
  /\ jobs = <<>>
  /\ \E enabled \in BOOLEAN :
       /\ wecom = [server |-> "none", enabled |-> enabled]
       /\ ops = IF enabled THEN <<[client |-> NoClient, action |-> "start", at |-> "waiting"]>>
                           ELSE <<>>
  /\ client = [c \in Client |-> [connected |-> FALSE, login |-> "none"]]
  /\ epoch = 0
  /\ unused = FALSE
  /\ immediates = {}
  /\ stage = "up"
  /\ busy \in BOOLEAN
  /\ calls = 0

-----------------------------------------------------------------------------
(* The stop of an unused runtime.                                          *)

\* Mutant: the stop is scheduled for the epoch before the change.
EpochBefore == epoch

ExpectedEpoch == epoch'

\* scheduleRuntimeStop, called when something that used the runtime has ended.
ScheduleStop ==
  immediates' = IF unused' /\ on' = {} /\ wecom'.server = "none" /\ ops' = <<>>
                   /\ ~ OperatorInUse'
                THEN immediates \cup {ExpectedEpoch} ELSE immediates

\* Mutant: calls of clients that are gone are overlooked.
UnattendedByClients(e) == NoChannel /\ ~ OperatorInUse /\ e = epoch

\* What the setImmediate looks at again.
Unattended(e) == NoChannel /\ ~ OperatorInUse /\ ~ Mutating /\ e = epoch

\* A job at the head of the line that waits for nothing runs before.
Runnable == jobs # <<>> /\ (~ Head(jobs).started \/ Head(jobs).retire = {})

RunImmediate(e) ==
  /\ e \in immediates
  /\ ~ Runnable
  /\ immediates' = immediates \ {e}
  /\ stage' = IF ~ Unavailable /\ Unattended(e) THEN "unused" ELSE stage
  /\ UNCHANGED <<accounts, listeners, server, client, epoch, unused, busy, calls>>

-----------------------------------------------------------------------------
(* Operator clients.                                                       *)

Connect(c) ==
  /\ ~ Unavailable
  /\ client[c] = [connected |-> FALSE, login |-> "none"]
  /\ \A i \in DOMAIN jobs : jobs[i].client # c
  /\ client' = [client EXCEPT ![c].connected = TRUE]
  /\ UNCHANGED <<accounts, listeners, server, epoch, unused, immediates, stage, busy, calls>>

\* The calls of a client that goes run on.
Disconnect(c) ==
  /\ client[c].connected
  /\ client' = [client EXCEPT ![c].connected = FALSE]
  /\ UNCHANGED <<accounts, listeners, server, epoch, unused, stage, busy, calls>>
  /\ ScheduleStop

Calls(c) ==
  /\ client[c].connected
  /\ client[c].login # "beginning"
  /\ \A i \in DOMAIN jobs : jobs[i].client # c
  /\ \A i \in DOMAIN ops : ops[i].client # c
  /\ calls < MaxCalls
  /\ calls' = calls + 1

Waiting(c, kind) == Append(jobs, [client |-> c, kind |-> kind, started |-> FALSE, retire |-> {}])

\* setAccountRuntime and deleteAccount up to the wait for the listeners.
ChangeAccount(c, a, kind) ==
  /\ Calls(c)
  /\ ~ Unavailable
  /\ a \in known
  /\ known' = IF kind = "delete" THEN known \ {a} ELSE known
  /\ on' = IF kind = "enable" THEN on \cup {a} ELSE on \ {a}
  /\ jobs' = Waiting(c, kind)
  /\ unused' = TRUE
  /\ UNCHANGED <<live, server, client, epoch, immediates, stage, busy>>

RestartAccounts(c) ==
  /\ Calls(c)
  /\ ~ Unavailable
  /\ jobs' = Waiting(c, "restart")
  /\ unused' = TRUE
  /\ UNCHANGED <<accounts, live, server, client, epoch, immediates, stage, busy>>

-----------------------------------------------------------------------------
(* The line of account changes.                                            *)

\* Mutant: a refresh leaves the listeners of disabled accounts alone.
RetiredNone(kind) == IF kind = "restart" THEN live ELSE {}

Retired(kind) == IF kind = "restart" THEN live ELSE live \ on

JobBegins ==
  /\ jobs # <<>> /\ ~ Head(jobs).started
  /\ jobs' = [jobs EXCEPT ![1].started = TRUE, ![1].retire = Retired(Head(jobs).kind)]
  /\ UNCHANGED <<accounts, live, server, client, epoch, unused, immediates, stage, busy, calls>>

\* A retired task has told the provider that it stops.
TaskEnds(a) ==
  /\ a \in live
  /\ \/ jobs # <<>> /\ a \in Head(jobs).retire
     \/ stage \notin {"up", "unused"}
  /\ live' = live \ {a}
  /\ jobs' = IF jobs = <<>> THEN jobs ELSE [jobs EXCEPT ![1].retire = @ \ {a}]
  /\ UNCHANGED <<accounts, server, client, epoch, unused, immediates, stage, busy, calls>>

\* The listeners run again and the caller goes on; a login is over.
JobEnds ==
  /\ jobs # <<>> /\ Head(jobs).started /\ Head(jobs).retire = {}
  /\ jobs' = Tail(jobs)
  /\ live' = IF stage \in {"up", "unused"} THEN live \cup on ELSE live
  /\ client' = IF Head(jobs).kind = "refresh" THEN [client EXCEPT ![Head(jobs).client].login = "none"]
                                      ELSE client
  /\ epoch' = IF Head(jobs).kind \in {"enable", "disable", "delete"} THEN epoch + 1 ELSE epoch
  /\ UNCHANGED <<accounts, server, unused, stage, busy, calls>>
  /\ IF \/ Head(jobs).kind \in {"disable", "delete"}
        \/ Head(jobs).kind = "refresh" /\ ~ Unavailable
     THEN ScheduleStop ELSE UNCHANGED immediates

-----------------------------------------------------------------------------
(* Logins (module Enrollment), seen from here.                             *)

BeginLogin(c) ==
  /\ Calls(c)
  /\ ~ Unavailable
  /\ client[c].login = "none"
  /\ client' = [client EXCEPT ![c].login = "beginning"]
  /\ unused' = TRUE
  /\ UNCHANGED <<accounts, listeners, server, epoch, immediates, stage, busy>>

\* The offer is made, or refused; the call of a client that is gone ends here.
LoginBegun(c, offered) ==
  /\ client[c].login = "beginning"
  /\ client' = [client EXCEPT ![c].login = IF offered THEN "pending" ELSE "none"]
  /\ UNCHANGED <<accounts, listeners, server, epoch, unused, stage, busy, calls>>
  /\ IF client[c].connected THEN UNCHANGED immediates ELSE ScheduleStop

\* The scan is confirmed: the account is there and the listeners are refreshed.
LoginConfirmed(c, a) ==
  /\ client[c].login = "pending"
  /\ \A i \in DOMAIN jobs : jobs[i].client # c
  /\ client' = [client EXCEPT ![c].login = "confirmed"]
  /\ known' = known \cup {a}
  /\ on' = on \cup {a}
  /\ jobs' = Waiting(c, "refresh")
  /\ UNCHANGED <<live, server, epoch, unused, immediates, stage, busy, calls>>

\* Cancelled, expired or failed.
LoginEnds(c) ==
  /\ client[c].login = "pending"
  /\ client' = [client EXCEPT ![c].login = "none"]
  /\ UNCHANGED <<accounts, listeners, server, epoch, unused, stage, busy, calls>>
  /\ IF Unavailable THEN UNCHANGED immediates ELSE ScheduleStop

-----------------------------------------------------------------------------
(* The line of WeCom changes.                                              *)

NewOp(c, action) == Append(ops, [client |-> c, action |-> action, at |-> "waiting"])

\* wecom_control: accepted at any time, refused when its turn comes.
ControlWecom(c, action) ==
  /\ Calls(c)
  /\ ops' = NewOp(c, action)
  /\ UNCHANGED <<accounts, listeners, wecom, client, epoch, unused, immediates, stage, busy>>

\* The server reports an error of its own.
ServerFails ==
  /\ wecom.server = "listening"
  /\ stage \in {"up", "unused"}
  /\ calls < MaxCalls
  /\ calls' = calls + 1
  /\ ops' = NewOp(NoClient, "stop")
  /\ UNCHANGED <<accounts, listeners, wecom, client, epoch, unused, immediates, stage, busy>>

OpEnds == ops' = Tail(ops) /\ ScheduleStop

OpBegins ==
  /\ ops # <<>> /\ Head(ops).at = "waiting"
  /\ UNCHANGED <<accounts, listeners, client, epoch, stage, busy, calls>>
  /\ IF Unavailable
     THEN UNCHANGED <<wecom, unused>> /\ OpEnds
     ELSE /\ unused' = TRUE
          /\ \/ /\ Head(ops).action # "start"
                /\ wecom' = [server |-> "none", enabled |-> FALSE]
                /\ ops' = [ops EXCEPT ![1].at = "closing"]
                /\ UNCHANGED immediates
             \/ /\ Head(ops).action = "start"
                /\ wecom.server # "listening"
                /\ wecom' = [wecom EXCEPT !.server = "opening"]
                /\ ops' = [ops EXCEPT ![1].at = "opening"]
                /\ UNCHANGED immediates
             \/ /\ Head(ops).action = "start"   \* runs already, or cannot be started
                /\ UNCHANGED wecom
                /\ OpEnds

\* closeWecom is through: its turns have ended.
WecomClosed ==
  /\ ops # <<>> /\ Head(ops).at = "closing"
  /\ UNCHANGED <<accounts, listeners, client, epoch, unused, stage, busy, calls>>
  /\ \/ /\ Head(ops).action = "restart"
        /\ wecom' = [wecom EXCEPT !.server = "opening"]
        /\ ops' = [ops EXCEPT ![1].at = "opening"]
        /\ UNCHANGED immediates
     \/ UNCHANGED wecom /\ OpEnds

\* Mutant: only a start is remembered.
RememberedStart == wecom.enabled \/ Head(ops).action = "start"

Remembered == TRUE

WecomOpened(listening) ==
  /\ ops # <<>> /\ Head(ops).at = "opening"
  /\ wecom' = IF listening THEN [server |-> "listening", enabled |-> Remembered]
                           ELSE [wecom EXCEPT !.server = "none"]
  /\ UNCHANGED <<accounts, listeners, client, epoch, unused, stage, busy, calls>>
  /\ OpEnds

-----------------------------------------------------------------------------
(* Stopping.                                                               *)

\* Mutant: a login that nobody watches any more does not count.
IdleOfClients ==
  ~ busy /\ (\A c \in Client : ~ client[c].connected) /\ ~ Mutating /\ ops = <<>>

Idle == ~ busy /\ ~ OperatorInUse /\ ~ Mutating /\ ops = <<>>

\* stopAcceptingIfIdle, for an update or to give back an unused runtime.
StopIfIdle(requireUnused) ==
  /\ stage \in {"up", "unused"}
  /\ requireUnused => ~ wecom.enabled /\ on = {}
  /\ Idle
  /\ stage' = "released"
  /\ UNCHANGED <<accounts, listeners, server, client, epoch, unused, immediates, busy, calls>>

\* stopAccepting: by a signal, by a failure of Codex, or as the worker was told to.
StopAccepting ==
  /\ stage \in {"up", "unused", "released"}
  /\ stage' = "stopping"
  /\ UNCHANGED <<accounts, listeners, server, client, epoch, unused, immediates, busy, calls>>

\* Mutant: the change of WeCom that is under way is not awaited.
AwaitNothing == TRUE

AwaitChange == ops = <<>>

\* close: the changes under way first, then WeCom.
CloseWecom ==
  /\ stage = "stopping"
  /\ AwaitChange
  /\ stage' = "closing"
  /\ wecom' = [wecom EXCEPT !.server = "none"]
  /\ UNCHANGED <<accounts, listeners, ops, client, epoch, unused, immediates, busy, calls>>

\* Then the listeners, the work, the operator clients and the store.
Close ==
  /\ stage = "closing"
  /\ live = {} /\ jobs = <<>> /\ ~ busy /\ ~ OperatorInUse
  /\ stage' = "closed"
  /\ UNCHANGED <<accounts, listeners, server, client, epoch, unused, immediates, busy, calls>>

\* abort: the close takes too long, the process ends.
Abort ==
  /\ stage \in {"stopping", "closing"}
  /\ stage' = "aborted"
  /\ UNCHANGED <<accounts, listeners, server, client, epoch, unused, immediates, busy, calls>>

\* Everything else starts or ends some work.
Work ==
  /\ stage \in {"up", "unused", "released", "stopping", "closing"}
  /\ busy \/ stage = "up"
  /\ busy' = ~ busy
  /\ UNCHANGED <<accounts, listeners, server, client, epoch, unused, immediates, stage, calls>>

-----------------------------------------------------------------------------

Kinds == {"enable", "disable", "delete"}

Running == stage \notin {"closed", "aborted"}

ClientStep(c) ==
  \/ Connect(c)
  \/ Disconnect(c)
  \/ \E a \in Account, kind \in Kinds : ChangeAccount(c, a, kind)
  \/ RestartAccounts(c)
  \/ BeginLogin(c)
  \/ \E action \in {"start", "stop", "restart"} : ControlWecom(c, action)

JobStep == JobBegins \/ JobEnds
OpStep == OpBegins \/ WecomClosed \/ \E listening \in BOOLEAN : WecomOpened(listening)
LoginStep(c) == LoginEnds(c) \/ \E offered \in BOOLEAN : LoginBegun(c, offered)

Next ==
  /\ Running
  /\ \/ \E c \in Client : ClientStep(c) \/ LoginStep(c)
     \/ \E c \in Client, a \in Account : LoginConfirmed(c, a)
     \/ JobStep
     \/ \E a \in Account : TaskEnds(a)
     \/ OpStep
     \/ ServerFails
     \/ \E e \in immediates : RunImmediate(e)
     \/ \E requireUnused \in BOOLEAN : StopIfIdle(requireUnused)
     \/ StopAccepting \/ CloseWecom \/ Close \/ Abort
     \/ Work

Spec == Init /\ [][Next]_vars

\* Tasks, changes, logins and immediates go on; clients need not.
Fairness ==
  /\ WF_vars(Running /\ JobStep)
  /\ WF_vars(Running /\ OpStep)
  /\ \A a \in Account : WF_vars(Running /\ TaskEnds(a))
  /\ \A c \in Client : WF_vars(Running /\ LoginStep(c))
  /\ WF_vars(Running /\ \E e \in immediates : RunImmediate(e))
FairSpec == Spec /\ Fairness

-----------------------------------------------------------------------------
(* Properties.                                                             *)

\* Neither an update nor the end of the last channel stops a runtime that an
\* operator uses or that has a call of one, even one who is gone, under way.
InterruptsNothing == stage = "up" /\ stage' \in {"unused", "released"} =>
  /\ \A c \in Client : ~ client[c].connected /\ client[c].login = "none"
  /\ \A i \in DOMAIN jobs : jobs[i].kind = "refresh"
  /\ ops = <<>>
  /\ stage' = "unused" => on = {} /\ wecom.server = "none"
StopInterruptsNothing == [][InterruptsNothing]_vars

\* A WeCom listener that runs is one a restart of the worker brings back.
RunningIsRemembered == wecom.server = "listening" /\ ops = <<>> => wecom.enabled

\* A worker that closed left no listener behind, whatever was under way.
ClosedIsQuiet == stage = "closed" => wecom.server = "none" /\ live = {}

\* Once the last channel is off and nobody is connected, the runtime stops, in
\* whichever order the last calls, logins and connections ended.
UnusedStops ==
  (unused /\ NoChannel /\ ~ OperatorInUse) ~>
    (Unavailable \/ ~ NoChannel \/ OperatorInUse)
=============================================================================
