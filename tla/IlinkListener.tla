--------------------------- MODULE IlinkListener ----------------------------
(***************************************************************************)
(* The iLink listeners: src/src/ilink/listener.ts with the account rows and *)
(* the page transaction of src/src/ilink/sqlite-store.ts and the host that  *)
(* src/src/runtime.ts gives it.                                             *)
(*                                                                         *)
(* One task per enabled account polls the provider.  Every change of an     *)
(* account asks for a refresh; refreshes run one after the other and wait   *)
(* for the tasks they retire.  What was sent before a task began is backlog *)
(* and waits until no listener is catching up.                              *)
(*                                                                         *)
(* Abstractions.  A message is its place in the provider's log, a cursor    *)
(* the number of messages before it, a start time the length of the log.    *)
(* The merging of a page (module ReplyWindow) is reduced to what it does to  *)
(* the rows: the newest message of a page absorbs the older ones.  Back-off  *)
(* delays are "some time later".                                            *)
(***************************************************************************)
EXTENDS Naturals, Sequences, FiniteSets

CONSTANTS
  Account,
  Length,       \* messages in the log of an account
  MaxChanges,   \* bound on changes of accounts and on restarts
  MaxFailures,  \* bound on failed polls
  MaxStops      \* bound on stops and crashes

ConstantsOK ==
  Length \in Nat \ {0} /\ MaxChanges \in Nat /\ MaxFailures \in Nat /\ MaxStops \in Nat

VARIABLES
  account,   \* account[a]: the row of the account, or Unknown
  log,       \* log[a]: messages sent
  inbox,     \* inbox[a][i]
  tasks,     \* tasks[a][k]: the tasks of an account that have not ended
  jobs,      \* refreshes and restarts in line
  job,       \* the one that runs: "none", "retiring"
  desired,   \* the accounts it has read
  notified,  \* #backlogReadyNotified
  drain,     \* the drain of the backlog is requested
  mode,      \* "down", "up", "closing"
  changes, failures, stops

store == <<account, inbox>>
line == <<jobs, job, desired>>
bounds == <<changes, failures, stops>>
vars == <<store, log, tasks, line, notified, drain, mode, bounds>>

-----------------------------------------------------------------------------

Message == 1 .. Length
Slot == 1 .. 2
Unknown == [generation |-> 0, token |-> 0, enabled |-> FALSE, cursor |-> 0]
AccountRow == [generation : 0 .. MaxChanges + 1, token : 0 .. MaxChanges + 1,
               enabled : BOOLEAN, cursor : 0 .. Length]
NoTask == [at |-> "none", row |-> Unknown, startedAt |-> 0, catchingUp |-> FALSE,
           aborted |-> FALSE, listed |-> FALSE]
\* row: the account as it was read, with the cursor of the task.  listed: in #listeners.
TaskRow == [at : {"none", "starting", "polling", "sleeping", "stopping"}, row : AccountRow,
            startedAt : 0 .. Length, catchingUp : BOOLEAN, aborted : BOOLEAN, listed : BOOLEAN]

TypeOK ==
  /\ account \in [Account -> AccountRow]
  /\ \A a \in Account : account[a].generation = 0 => account[a] = Unknown
  /\ log \in [Account -> 0 .. Length]
  /\ inbox \in [Account -> [Message -> {"absent", "absorbed", "deferred", "handed"}]]
  /\ tasks \in [Account -> [Slot -> TaskRow]]
  /\ jobs \in Seq({"refresh", "restart"})
  /\ job \in {"none", "retiring"}
  /\ desired \in [Account -> AccountRow]
  /\ notified \in BOOLEAN /\ drain \in BOOLEAN
  /\ mode \in {"down", "up", "closing"}
  /\ changes \in 0 .. MaxChanges /\ failures \in 0 .. MaxFailures /\ stops \in 0 .. MaxStops

Up == mode = "up"
Alive(ts) == {t \in Account \X Slot : ts[t[1]][t[2]].at # "none"}
Listed(ts, a) == \E k \in Slot : ts[a][k].listed
CatchingUp(ts) == \E a \in Account, k \in Slot : ts[a][k].listed /\ ts[a][k].catchingUp
\* listActiveRuntimeAccounts.
Runtime == [a \in Account |-> IF account[a].enabled THEN account[a] ELSE Unknown]

\* #notifyBacklogReadyIfAll, with the tasks as they are then.
Notifies(ts, told) == Up /\ ~told /\ ~CatchingUp(ts)
NotifyIfAll(ts, told) ==
  /\ notified' = (told \/ Notifies(ts, told))
  /\ drain' = (drain \/ Notifies(ts, told))

Set(a, k, t) == [tasks EXCEPT ![a][k] = t]

-----------------------------------------------------------------------------
(* Accounts.  Each change of a row asks for a refresh in the same step. *)

\* refresh.
\* Mutant: a refresh that finds another one in line is dropped.
RefreshOnce == jobs' = IF jobs = <<>> THEN <<"refresh">> ELSE jobs
Refresh == jobs' = Append(jobs, "refresh")

Change(a, row) ==
  /\ Up
  /\ changes < MaxChanges /\ changes' = changes + 1
  /\ account' = [account EXCEPT ![a] = row]
  /\ Refresh
  /\ UNCHANGED <<log, tasks, job, desired, notified, drain, mode, failures, stops>>

\* confirmEnrollment of an account that is not registered, or that is.
Register(a) ==
  /\ account[a].generation = 0
  /\ \E enabled \in BOOLEAN :
       Change(a, [generation |-> 1, token |-> changes + 1, enabled |-> enabled, cursor |-> 0])
  /\ UNCHANGED inbox
Rotate(a) ==
  /\ account[a].generation # 0
  /\ Change(a, [account[a] EXCEPT !.generation = @ + 1, !.token = changes + 1])
  /\ UNCHANGED inbox
SetRuntimeEnabled(a) ==
  /\ account[a].generation # 0
  /\ \E enabled \in BOOLEAN : Change(a, [account[a] EXCEPT !.enabled = enabled])
  /\ UNCHANGED inbox
DeleteAccount(a) ==
  /\ account[a].generation # 0
  /\ Change(a, Unknown)
  /\ inbox' = [inbox EXCEPT ![a] = [i \in Message |-> "absent"]]
Restart ==
  /\ Up
  /\ changes < MaxChanges /\ changes' = changes + 1
  /\ jobs' = Append(jobs, "restart")
  /\ UNCHANGED <<store, log, tasks, job, desired, notified, drain, mode, failures, stops>>

-----------------------------------------------------------------------------
(* Refreshes. *)

SameRuntime(t, row) == t.row = row

\* #reconcile until it waits for the tasks it retires; restart retires all of them.
Retires(a, k) ==
  tasks[a][k].listed /\ (Head(jobs) = "restart" \/ ~SameRuntime(tasks[a][k], Runtime[a]))
TakenOff(t) == [t EXCEPT !.aborted = TRUE, !.listed = FALSE]
Reconcile ==
  /\ jobs # <<>> /\ job = "none"
  /\ IF ~Up
     THEN jobs' = Tail(jobs) /\ UNCHANGED <<tasks, job, desired>>
     ELSE /\ job' = "retiring"
          /\ desired' = Runtime
          /\ tasks' = [a \in Account |-> [k \in Slot |->
               IF Retires(a, k) THEN TakenOff(tasks[a][k]) ELSE tasks[a][k]]]
          /\ UNCHANGED jobs
  /\ UNCHANGED <<store, log, notified, drain, mode, bounds>>

\* The tasks that were retired have ended.
\* Mutant: they are not waited for.
RetiredNow == TRUE
Retired == \A a \in Account, k \in Slot : tasks[a][k].at # "none" => tasks[a][k].listed

\* #startAccount for the accounts that have no listener.
Started(a) ==
  LET k == IF tasks[a][1].at = "none" THEN 1 ELSE 2 IN
  IF Listed(tasks, a) \/ desired[a] = Unknown THEN tasks[a]
  ELSE [tasks[a] EXCEPT ![k] =
         [at |-> "starting", row |-> desired[a], startedAt |-> log[a], catchingUp |-> TRUE,
          aborted |-> FALSE, listed |-> TRUE]]

\* The rest of #reconcile: new tasks for the accounts as they were read before.
\* Mutant: that the backlog was ready once is not forgotten.
StartAccountsUntold ==
  /\ job = "retiring" /\ Head(jobs) = "refresh" /\ Retired
  /\ job' = "none" /\ jobs' = Tail(jobs)
  /\ desired' = [a \in Account |-> Unknown]
  /\ IF ~Up THEN UNCHANGED <<tasks, notified, drain>>
     ELSE /\ tasks' = [a \in Account |-> Started(a)]
          /\ NotifyIfAll(tasks', notified)
  /\ UNCHANGED <<store, log, mode, bounds>>
StartAccounts ==
  /\ job = "retiring" /\ Head(jobs) = "refresh" /\ Retired
  /\ job' = "none" /\ jobs' = Tail(jobs)
  /\ desired' = [a \in Account |-> Unknown]
  /\ IF ~Up THEN UNCHANGED <<tasks, notified, drain>>
     ELSE /\ tasks' = [a \in Account |-> Started(a)]
          /\ NotifyIfAll(tasks', notified /\ tasks' = tasks)
  /\ UNCHANGED <<store, log, mode, bounds>>

\* restart goes on with a reconciliation of its own.
Restarted ==
  /\ job = "retiring" /\ Head(jobs) = "restart" /\ Retired
  /\ job' = "none" /\ jobs' = <<"refresh">> \o Tail(jobs)
  /\ desired' = [a \in Account |-> Unknown]
  /\ notified' = FALSE
  /\ UNCHANGED <<store, log, tasks, drain, mode, bounds>>

-----------------------------------------------------------------------------
(* Tasks. *)

\* notifyStart has answered or failed.
TaskStarted(a, k) ==
  LET t == tasks[a][k] IN
  /\ t.at = "starting"
  /\ tasks' = Set(a, k, [t EXCEPT !.at = IF t.aborted \/ ~Up THEN "stopping" ELSE "polling"])
  /\ UNCHANGED <<store, log, line, notified, drain, mode, bounds>>

\* A poll or a pause that was aborted.
TaskAborted(a, k) ==
  /\ tasks[a][k].at \in {"polling", "sleeping"}
  /\ tasks[a][k].aborted
  /\ tasks' = Set(a, k, [tasks[a][k] EXCEPT !.at = "stopping"])
  /\ UNCHANGED <<store, log, line, notified, drain, mode, bounds>>

\* commitPollPage takes a page only under the generation and the cursor it was read with.
\* Mutants: the cursor or the generation is not compared.
FencedByCursor(a, row) == row.cursor = account[a].cursor
FencedByGeneration(a, row) == row.generation = account[a].generation
Fenced(a, row) == row.generation = account[a].generation /\ row.cursor = account[a].cursor

\* What the page makes of the rows: older messages are absorbed by the newest.
Page(a, from, to, startedAt) ==
  [inbox EXCEPT ![a] = [i \in Message |->
     CASE i = to /\ to > from -> IF to <= startedAt THEN "deferred" ELSE "handed"
       [] i > from /\ i < to -> "absorbed"
       [] i <= from /\ to > from /\ inbox[a][i] = "deferred" -> "absorbed"
       [] OTHER -> inbox[a][i]]]

\* The listener has caught up: there was nothing left, or something sent since it began.
CaughtUp(t, to) == t.catchingUp /\ (to = t.row.cursor \/ to > t.startedAt)
\* Backlog that comes after that.
Late(t, to) == ~t.catchingUp /\ to > t.row.cursor /\ to <= t.startedAt
Polled(t, to) == [t EXCEPT !.row.cursor = to, !.catchingUp = @ /\ ~CaughtUp(t, to)]

\* getUpdates answers: the page is committed, what is live goes to the processor.
\* Mutant: the end of the catch-up tells nobody.
PollSilently(a, k) ==
  LET t == tasks[a][k] IN
  /\ t.at = "polling" /\ ~t.aborted /\ Up
  /\ \E to \in t.row.cursor .. log[a] :
       /\ (to = t.row.cursor) => (to = log[a])
       /\ IF ~Fenced(a, t.row)
          THEN tasks' = Set(a, k, [t EXCEPT !.at = "stopping"]) /\ UNCHANGED store
          ELSE /\ account' = [account EXCEPT ![a].cursor = to]
               /\ inbox' = Page(a, t.row.cursor, to, t.startedAt)
               /\ tasks' = Set(a, k, [Polled(t, to) EXCEPT !.catchingUp = FALSE])
  /\ UNCHANGED <<log, line, notified, drain, mode, bounds>>
Poll(a, k) ==
  LET t == tasks[a][k] IN
  /\ t.at = "polling" /\ ~t.aborted /\ Up
  /\ \E to \in t.row.cursor .. log[a] :
       /\ (to = t.row.cursor) => (to = log[a])
       /\ IF ~Fenced(a, t.row)
          THEN /\ tasks' = Set(a, k, [t EXCEPT !.at = "stopping"])
               /\ UNCHANGED <<store, notified, drain>>
          ELSE LET ts == Set(a, k, Polled(t, to)) IN
               /\ account' = [account EXCEPT ![a].cursor = to]
               /\ inbox' = Page(a, t.row.cursor, to, t.startedAt)
               /\ tasks' = ts
               /\ IF CaughtUp(t, to) THEN NotifyIfAll(ts, notified)
                  ELSE drain' = (drain \/ (Late(t, to) /\ ~CatchingUp(ts))) /\ UNCHANGED notified
  /\ UNCHANGED <<log, line, mode, bounds>>

\* A poll fails: the account does not hold up the backlog of the others any longer.
PollFails(a, k) ==
  LET ts == Set(a, k, [tasks[a][k] EXCEPT !.at = "sleeping", !.catchingUp = FALSE]) IN
  /\ tasks[a][k].at = "polling" /\ ~tasks[a][k].aborted /\ Up
  /\ failures < MaxFailures /\ failures' = failures + 1
  /\ tasks' = ts
  /\ IF tasks[a][k].catchingUp THEN NotifyIfAll(ts, notified) ELSE UNCHANGED <<notified, drain>>
  /\ UNCHANGED <<store, log, line, mode, changes, stops>>

\* The pause is over.
PollAgain(a, k) ==
  /\ tasks[a][k].at = "sleeping" /\ ~tasks[a][k].aborted /\ Up
  /\ tasks' = Set(a, k, [tasks[a][k] EXCEPT !.at = "polling"])
  /\ UNCHANGED <<store, log, line, notified, drain, mode, bounds>>

\* notifyStop has answered or failed: the task ends.
TaskEnds(a, k) ==
  /\ tasks[a][k].at = "stopping"
  /\ tasks' = Set(a, k, NoTask)
  /\ NotifyIfAll(Set(a, k, NoTask), notified)
  /\ UNCHANGED <<store, log, line, mode, bounds>>

-----------------------------------------------------------------------------
(* The provider and the process. *)

Send(a) ==
  /\ log[a] < Length
  /\ log' = [log EXCEPT ![a] = @ + 1]
  /\ UNCHANGED <<store, tasks, line, notified, drain, mode, bounds>>

\* drainDeferred (module Admission).
Drain ==
  /\ drain /\ Up
  /\ drain' = FALSE
  /\ inbox' = [a \in Account |-> [i \in Message |->
       IF inbox[a][i] = "deferred" THEN "handed" ELSE inbox[a][i]]]
  /\ UNCHANGED <<account, log, tasks, line, notified, mode, bounds>>

\* close aborts all tasks, waits for the refreshes and for the tasks.
Told(t) == [t EXCEPT !.aborted = @ \/ t.listed]
Close ==
  /\ Up
  /\ stops < MaxStops /\ stops' = stops + 1
  /\ mode' = "closing"
  /\ tasks' = [a \in Account |-> [k \in Slot |-> Told(tasks[a][k])]]
  /\ UNCHANGED <<store, log, line, notified, drain, changes, failures>>
Closed ==
  /\ mode = "closing" /\ jobs = <<>> /\ Alive(tasks) = {}
  /\ mode' = "down"
  /\ UNCHANGED <<store, log, tasks, line, notified, drain, bounds>>
Crash ==
  /\ Up
  /\ stops < MaxStops /\ stops' = stops + 1
  /\ mode' = "down"
  /\ tasks' = [a \in Account |-> [k \in Slot |-> NoTask]]
  /\ jobs' = <<>> /\ job' = "none" /\ desired' = [a \in Account |-> Unknown]
  /\ UNCHANGED <<store, log, notified, drain, changes, failures>>

\* start: the first refresh.
Start ==
  /\ mode = "down"
  /\ mode' = "up"
  /\ jobs' = <<"refresh">>
  /\ notified' = FALSE /\ drain' = FALSE
  /\ UNCHANGED <<store, log, tasks, job, desired, bounds>>

-----------------------------------------------------------------------------

\* The rows of accounts that an earlier life of the process registered, and left enabled or not.
Disabled == [Unknown EXCEPT !.generation = 1]
Enabled == [Disabled EXCEPT !.enabled = TRUE]

Init ==
  /\ account \in [Account -> {Unknown, Disabled, Enabled}]
  /\ log \in [Account -> 0 .. 1]
  /\ inbox = [a \in Account |-> [i \in Message |-> "absent"]]
  /\ tasks = [a \in Account |-> [k \in Slot |-> NoTask]]
  /\ jobs = <<>> /\ job = "none" /\ desired = [a \in Account |-> Unknown]
  /\ notified = FALSE /\ drain = FALSE
  /\ mode = "down"
  /\ changes = 0 /\ failures = 0 /\ stops = 0

Next ==
  \/ \E a \in Account :
       \/ Register(a) \/ Rotate(a) \/ SetRuntimeEnabled(a) \/ DeleteAccount(a) \/ Send(a)
       \/ \E k \in Slot :
            \/ TaskStarted(a, k) \/ TaskAborted(a, k) \/ Poll(a, k) \/ PollFails(a, k)
            \/ PollAgain(a, k) \/ TaskEnds(a, k)
  \/ Restart \/ Reconcile \/ StartAccounts \/ Restarted \/ Drain
  \/ Close \/ Closed \/ Crash \/ Start

Spec == Init /\ [][Next]_vars

\* Polls end by a time limit, pauses are finite, notifyStart and notifyStop are
\* requests with a time limit; a process that stopped is started again.
Fairness ==
  /\ \A a \in Account, k \in Slot :
       /\ WF_vars(TaskStarted(a, k)) /\ WF_vars(TaskAborted(a, k)) /\ WF_vars(Poll(a, k))
       /\ WF_vars(PollAgain(a, k)) /\ WF_vars(TaskEnds(a, k))
  /\ WF_vars(Reconcile) /\ WF_vars(StartAccounts) /\ WF_vars(Restarted) /\ WF_vars(Drain)
  /\ WF_vars(Closed) /\ WF_vars(Start)
LiveSpec == Spec /\ Fairness

-----------------------------------------------------------------------------
(* Properties.                                                             *)

\* What lies before the cursor of an account is stored and nothing else, whatever
\* was deleted, registered again or confirmed anew while a poll was in flight
\* (commitPollPage).
CursorMatchesInbox ==
  \A a \in Account, i \in Message : inbox[a][i] # "absent" <=> i <= account[a].cursor

\* Two tasks never poll for the same account: a refresh waits for the task it
\* replaces, also when that one ended by itself, when refreshes overlap with a
\* restart and when the account was deleted and registered again.
OnePoller == \A a \in Account : Cardinality({k \in Slot : tasks[a][k].at # "none"}) <= 1

\* Once no refresh is in line the enabled accounts are the ones that are listened to,
\* each with its current registration and token.
ListenersMatchAccounts ==
  Up /\ jobs = <<>> =>
    \A a \in Account :
      /\ account[a].enabled <=> Listed(tasks, a)
      /\ \A k \in Slot : tasks[a][k].listed =>
           SameRuntime(tasks[a][k], account[a]) /\ tasks[a][k].at # "stopping"

\* An enabled account has one listener, and no other account has any once the refreshes are
\* through.
OneListenerPerAccount == OnePoller /\ ListenersMatchAccounts

\* What is sent to an enabled account reaches the processor or is absorbed by a newer
\* message that does, through failures, restarts, changes of other accounts and
\* crashes, unless the account is stopped or deleted.
SentIsDelivered ==
  \A a \in Account, i \in Message :
    (i <= log[a] /\ account[a].enabled)
      ~> (inbox[a][i] \in {"absorbed", "handed"} \/ ~account[a].enabled)

\* Backlog that was stored is drained, even when the account it waited for is stopped
\* or deleted before it has caught up.
BacklogIsDrained ==
  \A a \in Account, i \in Message : inbox[a][i] = "deferred" ~> inbox[a][i] # "deferred"
=============================================================================
