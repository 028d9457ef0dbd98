# Kintio: a verification development

Kintio connects WeChat customers (through WeCom customer service, "KF", and through WeChat
iLink bot accounts) to Codex agents. One worker process receives messages, decides which
conversation may have an agent turn, and lets the agent reply through MCP tools. All state that
must survive is in one SQLite database whose transactions are synchronous; everything else is
JavaScript promises. So two kinds of interleaving exist: *transactions* in any order (two never
overlap, a crash falls between two of them), and *awaits* (between two awaits of one
conversation anything may happen to the others).

This directory holds TLA+ models of that program, the TLC runs that check them and theorems
about them that TLAPS has checked. Paths below are relative to the repository (`src/` here is the
repository root, so its sources are under `src/src/`). `PROJECT.json` maps every definition to
the lines it stands for.

## 1. Inventory

| Component | State | Operations | Hard behaviour | Correct when |
| --- | --- | --- | --- | --- |
| iLink ledger (`ilink/sqlite-store.ts`, shared rows of `state/sqlite-store.ts`) | accounts, reply windows with counters, send attempts, agent sessions, inbox rows | commit a polled page, open and retire windows, create sessions, reserve/start/settle/release a send, finalize a turn, rotate or delete the account, cleanup, startup recovery | counters spread over many transactions; out-of-order pages; crash around a send | budget respected, one window, one send, no reservation lost, the newest input answered |
| Conversation processor (`services/conversation-processor.ts`) | queues, slots, two waiting lines, turns, retries | enqueue, prepare, acquire/release, steer, yield, preempt, retry, recover, stop a channel | every await; slot hand-over on a dozen paths; low-priority backlog | capacity, backlog alone, no lost wake-up, nobody waits for ever, what was answered is not replayed |
| Runtime (`runtime.ts`) | deferred drain, WeCom on/off, startup and shutdown order | start, drain, stop/start WeCom, delete account, stop if idle | idleness tests across awaits | backlog comes back, the worker can become idle |
| Core store (`state/sqlite-store.ts`) | inbox, outbox, authorization, cursors, artifacts, threads | ingest pages, evaluate authorization, reserve and start KF sends, delivery failures, retention, recovery | crash, duplicates, cursor compare-and-set | no lost or repeated message |
| KF tool executor (`mcp/wechat-kf-executor.ts`) | drain promise, observed results | reserve, drain, observe | coalesced drains, uncertain sends | each reserved send is started once or abandoned |
| iLink tool executor (`ilink/executor.ts`) | sends under way | prepare, upload, start, settle, release | upload between reservation and start | a window change stops the send |
| WeCom sync (`services/wecom-sync.ts`) | a worker per account, cursor, retry timers, sync slots | poll, commit a page, retry, wake | callbacks during a page, cursors, back-off | no page skipped, no lost wake-up |
| iLink listeners (`ilink/listener.ts`) | a poll per account, errors, fences | reconcile, poll, commit, stop | generation changes during a poll | no page committed for another generation |
| Enrollment (`ilink/login-manager.ts`, `login-store.ts`, `enrollment.ts`) | login offers | create, poll QR, confirm, expire, cancel | confirmation races expiry and restart | an offer is consumed once |
| Codex agent (`services/codex-agent.ts`, `codex-app-server.ts`) | turns, steering, approvals | start, steer, interrupt, answer approvals | steering races completion | every input is in exactly one turn |
| Single-instance lock (`runtime/single-instance-lock.ts`) | lock file, recovery file | acquire, recover, release | two recoverers, partial writes | one owner |
| Worker and supervisor (`runtime/native-daemon.ts`, `run-worker.ts`) | child, back-off, stop request | start, restart, stop, update | stop races crash and restart | a stop is never undone |
| Operator IPC (`mcp/ipc-host.ts`, `ipc-protocol.ts`, `stdio-relay.ts`) | connections | authenticate, serve, close | close while clients are attached | closed once, nothing leaks |
| Updates (`update/*.ts`) | installed version, runtime state | stop, install, verify, restart, roll back | failure of any step | the old or the new runtime runs |
| Send contracts, wire formats, media, crypto, WeCom API, MCP servers, CLI | none of their own | pure conversions, I/O of one call | none that unit tests miss | not modelled |

Interactions: a listener or the WeCom sync commits a page into the store and calls
`processor.enqueue`; the processor claims inbox rows, obtains a slot, creates an agent session and
starts or steers a turn; the agent's tool calls reach an executor, which goes through the ledger;
completion of the turn settles the inbox rows. The runtime owns the composition: it recovers the
store, starts the channels, drains deferred backlog, and stops when idle.

## 2. What is modelled

| Module | Models | State, and what it is in the code |
| --- | --- | --- |
| `ReplyWindow` | the transactions on one iLink account with one peer | rows of `ilink_accounts`, `inbound_messages`, `ilink_reply_windows`, `agent_sessions`, `send_attempts`; `lapsed` is the set of windows past `expires_at`; `phase` splits the two transactions of a restart |
| `ReplyContract` | abstract: what the provider admits | the live window, the past ones, what was spent in each, the send under way |
| `IlinkExecutor` | the sends of an iLink account; EXTENDS `ReplyWindow`, so that every transaction is the step named there | `call` (how far each call is), `queue` (`#queues`), `tokens` (calls whose session token was not closed) |
| `Admission` | `ConversationProcessor`, the deferred drain, start and stop of WeCom, account deletion | `queue`, `step`, `tries` are the admission queue and how far the prepare at its head is; `slot`, `highWaiters`, `lowWaiters` are `#activeConversations` and the waiting lists; `turn`, `retries`, `recovery`, `draining`, `stopped` |
| `KfOutbox` | what is sent to WeChat KF: tool calls, queue notices, confirmations of an authorization | inbox rows, sessions, `attempts`; where each tool call and the drain is; `rerun`, `kickDue` (coalesced kicks); `posts`, how often each attempt was handed to the provider |
| `WecomSync` | callbacks, catch-up, the worker of each account, pages, retries, request slots | the provider's `log`, `cursor`, `inbox`, `pending`, `worker`, `waiters`, `retries`, `mode` |
| `IlinkListener` | refreshes, restarts, and the poll task of each account | account rows, `tasks`, the line of `jobs`, `notified` (`#backlogReadyNotified`), `mode` |
| `Enrollment` | login offers of terminals and conversations | rows and audit (`offers`), the poll of each, the account rows, the terminals |
| `CodexTurn` | one agent turn: its runs, steering, and which tool calls count as its answer | the client's view of a run, `eventSequence`, what Codex wrote and nobody read yet |
| `Approval` | a question of a run, from Codex to the customer's chat and back | the agent's handlers, the client's timers, the customer's messages |
| `AppServer` | the client of the Codex child process | pending calls, waiters of turns, the child, its pipes, `close` |
| `RuntimeUse` | who uses the runtime and when it stops by itself | clients and their calls, the lines of account and WeCom changes, `accountMutationEpoch`, the scheduled stop |
| `InstanceLock` | every file system call of an acquisition and a release | the two files, the program counter of each process |
| `NativeDaemon` | the daemon, its worker, the channel between them, a control client | `phase`, `worker`, both directions of the channel, `probe`, `restarts` |
| `OperatorIpc` | the local socket of the runtime and its descriptor | the host's close, the handshake of each connection, `sessions`, `descriptors` |
| `RuntimeUpdate` | two updaters, `start`, the daemon, the package manager | the package on `disk`, `locks`, the daemon, the progress of each updater |

The modules `MC*` hold the instances TLC explores, and those ending in `Proofs` hold proofs. Every module says in its head what it abstracts
from. Some points that hold for several:

*Steps.* An action is what the code does between two awaits, or one transaction with everything in
it: a page of `ReplyWindow` inserts its messages one after the other, lets the newest own the
window, retires the old window with its pending attempts and its session, and absorbs what still
waits. Where one `await` follows another the action is cut, and each part re-checks what the code
re-checks and nothing else. In `Approval` and `AppServer` the continuations of a settled promise
run before the next event, as Node has it; in `RuntimeUse` a `setImmediate` runs after whatever
waits for nothing. `InstanceLock` has one action per file system call, because other processes
run between any two.

*Crashes.* A crash is an action that is enabled in every state: it drops what lives in memory and
keeps rows and files. A restart is the recovery the code performs, transaction by transaction.

*The environment.* Customers, operators, the provider and Codex do as they please. What `#admit`
learns about authorization and windows is a free choice (`Admitted`, `Refuse`), and an exception is
possible wherever the code awaits something that may fail (`Throw`).

*Composition.* `IlinkExecutor` is composed with `ReplyWindow`. The others meet at an interface
that one of them leaves free: `Admission` takes any turn that ends, `CodexTurn` any tool calls,
`RuntimeUse` any work. Where two modules share a table (the inbox) each has the columns it reads.

## 3. Properties and runs

Each part is small enough to be explored alone, but a run for each instance would be many. So an
MC module EXTENDS one component, whose variables are its own, holds instances of others, and a run
explores one after another: `subject` names the instance, chosen in the initial state, and only
that instance takes steps. A property of the extended component appears in the cfg under its own
name, so that a run and a theorem are about the same definition; a property of the MC module is that
of a part on each of its instances, and where it stands for several, its definition names them. All
instances are finite through constants that bound what the code does not bound (`MaxCrashes`,
`MaxStops`, `MaxFailures`, ...); bounds that the code has (tries, retries, slots, pages, sends) are
constants with smaller values.

`CHECK_DEADLOCK FALSE` is set wherever the system may rest: a processor with nothing to do, a call
that returned, a process that ended.

### ledger (`MCReplyWindow`)

Parts: two messages and two sends (`turns`), three attempts of every kind that compete for a window
with two sends (`quota`), one send through a rotation of the account (`rotation`), each with
crashes. Attempts are a symmetry set. The interactions are pairwise: an old and a new window, a
pending and a sending attempt, a message in a turn and one after it; the quota needs more
attempts than the budget, and a budget above one, so that counters can differ by one without being
zero.

- `ReservationsCovered`: every pending attempt is covered by its open window's `reserved`. If it
  failed, `recoverPendingAttempts` would throw at every start and the worker could not run.
- `PlacesComeBack`: the other direction. In a window that can still be used, `reserved` counts the
  pending attempts and nothing else, whichever way a reserved send ended; the one exception are the
  attempts of suppressed messages, whose places are lost (§5, 7).
- `BudgetHolds`: attempts that count in a window never exceed its budget, so
  `finalizeAgentExecution` never refuses a turn because of bookkeeping.
- `OwnerIsDelivered`: the owner of the window is absorbed only after joining a turn, so somebody
  answers. `SessionKeepsWindow`: a running session keeps its window until expiry.
- `SendsAreFresh`: a send starts only if nothing arrived after the message that owns its window
  except what was absorbed.
- `ContractSpec`: every behaviour implements `ReplyContract`, where nothing is handed over twice and
  no window takes more than its budget, crashes included.

### admission, admission_capacity, admission_delete (`MCAdmission`)

Instances: one slot with an iLink and a WeCom conversation, a stop of WeCom, 2 tries and 1 retry
(`mixed`); the same with an account that is deleted (`erase`); three conversations in line for one
slot (`contention`). Two slots are in `inbound`. `Init` is every inbox a crash may leave. Two
conversations suffice for every race over a slot, three for an order in a line; a second
message of one conversation is needed for steering, superseding and retrying.

- `WaitersAreServed`: slots are bounded and backlog has the worker to itself (`BacklogRunsAlone`),
  and while anybody waits there is no room for the first of the line (`NoLostWakeup`): no release
  path forgets the next.
- `OnePlaceInLine`: nobody stands in both lines, twice in one, or in line with a slot.
- `NoIdleSlot` (the types and `SlotsAreOwned`): a slot has a prepare or a tracked turn behind it. The
  comment of the definition names the two exceptions, which are findings 1 and 2.
- `AnsweredNeverReplayed`: a message for which something was sent never returns to the inbox as new.
- `LiveInputFirst`: a slot never goes to backlog while live input waits.
- The two violation runs are section 5.

### wecom_safe (`MCWecom`)

Of `KfOutbox`: two tool calls at once under sessions that are replaced (`turns`) or expire
(`expiring`), a crash with an interrupted call and a reported failure (`crash`), notices and their
drain (`notices`), a close beside a call (`closing`), four triggers in two accounts (`auth`). Of
`WecomSync`: four messages in pages of one, two of them missed, with two failures and a stop
(`pages`), two accounts for one request slot (`slots`). The tool calls are a symmetry set. Two
calls are needed to race for one budget; three notices for a kick that comes while a drain runs
and one that comes when it ends; two accounts for a line at the request slots.

- `HandedOverOnce`: no attempt is handed to the provider twice, whoever drains, closes or crashes.
- `ReportedFailureSticks`: a failure the provider reports is not lost, whether it comes before or
  after the send is recorded.
- `AnsweredBeforePutAway`: a message is completed or absorbed only when its sends are settled and it
  was answered.
- `SendsAreCurrent`: a tool send starts only in a session that has seen the customer's last message.
- `OutboxIsServed`: never more than five sends for a message (`SendBudget`), and what is reserved
  when the drain ends was looked at or has a kick to come (`NoLostKick`).
- `ServedInOrder`: on each instance, the types, `SendBudget` and what follows; `AuthorizedByStreak`
  (authorization takes as many triggers in a row, in one account, as required); `SlotsAreUsed` and
  `NoLostRequest` (no slot idle while a worker waits, no accepted request without worker or timer);
  `CursorMatchesInbox` (what lies before the cursor is stored, and nothing else); `HandedInOrder`
  (messages of a conversation reach the processor in the order of the log).

### inbound (`MCInbound`)

Parts of `IlinkListener`, from any accounts and stored messages a process may start with: three
changes of the accounts while one is unregistered (`changes`), two of any two (`pair`), one with a
failing poll and a crash (`faulty`). Of `Admission`: two slots (`parallel`). Accounts are a
symmetry set.

- `CursorMatchesInbox`: as above, through deletions, confirmations and registrations in the
  middle of a poll (the fence of `commitPollPage`).
- `OneListenerPerAccount`: `OnePoller`, and `ListenersMatchAccounts` once no refresh is in line.
- `SlotsAreShared`: the types, and the invariants of `admission` with two slots, where backlog that
  runs alone does not follow from the limit. Two conversations never exhaust two slots: the limit itself
  is contended in `admission`, and proved for any number in section 6.

### inbound_live (`MCInboundLive`)

Of `WecomSync`: a stop, with messages missed while it lasted (`downtime`), a failed request and a
single slot (`failing`); notices of two customers and a crash (`notices`); two conversations in line
(`in line`); two listeners and a failed poll (`broken`), one listener, a crash and an account that
comes (`crashing`).

- Under fairness, `MessagesAreHanded` (announced is read, live and missed messages reach the
  processor), `NothingIsStranded` (reserved notices are sent, every queue of `Admission` empties,
  deferred backlog comes back) and `MessagesAreDelivered` (what is sent to an enabled account
  reaches the processor, stored backlog is drained).

### ilink_sends (`MCIlink`)

Of `IlinkExecutor`: a call whose window is superseded, lapses or rotates, with a restart (`images`),
two calls in line (`line`). Of `ReplyWindow`: pages of three messages in every composition and order,
with and without provider sequences (`pages`). Attempts and calls are symmetry sets.

- `SendsAreAccounted`: `ReservationsAreHeld` (a pending attempt is held by a call under way; that its
  place comes back is `PlacesComeBack` of the ledger, which holds under the calls too, §6) and
  `ReceiptsAreTruthful` (a receipt never denies a message the provider may have taken, and never
  confirms one it did not take).
- `HandedOverInContext`: a send leaves with the tokens of the open window it is charged to.
- `StepsAreSound`: the types; no call that stands in line is turned away as busy; the newest message
  of a page takes the window over (`OlderTakesOver` never; where sequences and times agree:
  `entryIsNewer` is not transitive otherwise).

### agent_safe (`MCAgent`)

Instances: two questions with two replies, revocations and two runs (`approvals`: two messages in one
run, or two runs and one message); a run beside a listing with every fault of the pipes (`calls`,
`garbled`), two runs of a thread (`runs`). Requests are a symmetry set.

- `ApprovalsHold`: the types; a question shown before the permission was taken away is never granted;
  a run in which Codex was told to cancel never counts as completed.
- `GrantIsCurrent`: Codex is told to go ahead only on a current reply to this very question.
- `ClientEndsWell`: nobody waits on a closed client (but see section 5), the end of a turn is heard
  even when it is read before the answer that starts the turn, a closed client leaves no child.

### agent_live (`MCAgentLive`)

Instances: two steerings of a run or two tool calls in it (`steered`), a turn of two runs with one of
each (`repeated`); `calls` as above; two questions, a reply and a revocation (`approvals`); two sends
in line (`returns`).

- `AnswersFollowDirection`: the types; the tool calls that count as the answer began after the
  customer's last direction.
- `TurnsAndCallsEnd`: turns, calls, closes, questions, replies and sends end; a close that was asked
  for is no failure.

### host_safe, host_live (`MCHost`)

Instances: the lock with whatever files a crash left, for two processes that try twice (`alone`) and
for three that try once, with two crashes (`contend`); two
daemons with two or three faults (`daemon`, `faulty`); two hosts and two relays (`ipc`); clients and
accounts (`clients`, `accounts`, `lone`); two updaters, with versions that follow each other (`races`)
or processes that die (`deaths`), or one by itself (`single`); login offers of two terminals and a
conversation for two accounts of which one is allowed, or of one terminal with an end of the
process (`offers`). Accounts, terminals, clients and updaters are symmetry sets of the safety run:
since one instance moves at a time, they share two pairs of names.

- `LockIsKept` (`HolderKeepsFile`, `OneRecovery`; `alone`, `contend`): who holds the lock finds its own record in
  the file, and two processes never replace a lock at once. Both are false of the code as it stands,
  in the two ways of finding 4 of section 5. The history `slips` notes when a step hits one of them, at
  the step itself: `Check` takes the file of a living process for invalid because it is half-written
  ("halfWritten"), or `DropInvalid` or `DropRecovery` removes the guard of another living process
  ("lateUnlink"). The properties say that there is no third: `HolderKeepsFile` holds until the first
  slip, and `OneRecovery` until the first "lateUnlink". A recovery file left by a crash, second
  attempts, a third process and deaths inside a recovery are all in the instances.
- `AccountLimit`: never more accounts than allowed, however many confirmations race.
- `OffersAreFollowed`: an account works with the credentials of an offer that ended as confirmed;
  a good offer is polled; an offer of a terminal that is gone is cancelled.
- `OffersChangeSoundly` (steps): only a terminal grants access to the host, a result of an offer is
  final.
- `CommitmentsAreKept`: the types; `AcceptedIsFinal` (no work after a client was told
  "idle"); `DescriptorIsServed`; `RunningIsRemembered` and `ClosedIsQuiet` (WeCom and the listeners
  at a restart and at the end); `InstallAlone` (one updater changes the package, while nothing runs).
- `EndsAreOrderly` (steps): neither an update nor the end of the last channel stops a runtime in use
  (`StopInterruptsNothing`); a daemon that ends leaves no worker, a gentle close ends no attached
  connection, an update never goes back, and it leaves the runtime as it was or says that it did not.
- `StopsAndUpdatesEnd`: a stale lock is taken over, a worker that stopped accepting work for nothing
  is replaced; stops, sessions, closes, offers and updates end; an unused runtime stops.

Each property of a passing run is paired with a mutant (`mutants`): a small, plausible change of a
mapped definition after which TLC finds the property violated in that run.

## 4. Fairness

Fairness is stated in the modules; a liveness property of a run has it as its premise, so
that it is that of the instance. Everywhere it is fairness of what the code itself will do - a
continuation runs, a timer fires, a request with a deadline is answered or times out, a process that
was killed dies, a stopped process is started again - and never of customers, operators or the
provider.

- `Admission`: weak fairness of each conversation's prepare, of its turn ending, of its recovery
  and of the drain. Requests to the agent end after 30 s (`codex-app-server.ts:9`), approvals after 5
  minutes (`codex-app-server.ts:443`), downloads and HTTP calls after 10 s. That a turn ends is an
  assumption about Codex, whose death also ends its turns.
- `CodexTurn`: the client reads, its requests time out; Codex ends every run, if only by failing.
- `AppServer`: continuations, lines of a chunk, timers, a killed child. Codex need not answer.
- `WecomSync`: weak fairness of pages, workers, retries, the stop and the start. Strong fairness of
  one action, the hand-over of a conversation's backlog: the drain waits until no worker reads and
  then takes one conversation after the other, so that workers that come and go may not keep it
  from its turn for ever.
- `InstanceLock`: each attempt of a living process runs to its end; attempts are synchronous.
- `NativeDaemon`, `OperatorIpc`, `RuntimeUse`, `RuntimeUpdate`, `Enrollment`, `IlinkListener`,
  `KfOutbox`, `Approval`: weak fairness of the code's own steps and of its time limits.

## 5. Findings

With a run:

1. *Two turns under a limit of one* (`admission_capacity`). `#yieldToLiveInput` releases the
   conversation's slot whoever uses it. A failed message that is being prepared again shares the
   low slot of another backlog turn of its conversation (`#acquire` returns at once when the slot is
   taken), yields to a live waiter, and gives the slot away while that turn goes on. The live
   conversation starts a turn beside it. `docs/plans/2026-09-06-project-simplification.md:47` asks the
   one admission path to respect capacity and global-idle backlog admission. The slot map itself
   stays within bounds (`BacklogRunsAlone` holds, and is proved): it is the correspondence of slots
   and turns that is lost. A consequence: the next message of the conversation takes a slot beside
   the running turn and is steered into it or refused; nobody releases that slot until the
   conversation's next message, because `#track` compares the entry of the turn
   (`conversation-processor.ts:399`, `:565`).
2. *A deleted account keeps the worker busy* (`admission_delete`). If an account is deleted while
   one of its messages holds a slot before its turn, `#admit` throws, `#processRecoverably` tries
   again, finds no row and returns without releasing. `isIdle` is false from then on, so a stop
   that asks for idleness is refused and `waitForIdle` does not return.
   `docs/architecture.md:173` says that deleting the last running account closes the runtime.

Met while modelling. The models follow the code; the properties are those below, stated in their
modules, and are not in a cfg because they fail (or are restricted where the text says so):

1. `codex-app-server.ts:359` (`NobodyWaitsOnClosed` of `AppServer`). When the chunk that holds the
   answer to `turn/start` also holds the line that fails the client, `startRun` goes on after
   `#rejectAll`: `waitForTurn` makes a new entry and waits on a promise that nothing settles any more,
   and `CodexAgent.close` waits for that. The comment at `:490` says that a caller that is not
   waiting yet is provided for. `agent_safe` leaves the instance with garbled lines out of this
   property.
2. `wechat-kf-executor.ts:342` (`ReservedIsSent` of `KfOutbox`). The drain passes over a pending send
   while another send of its conversation is under way, and a tool call that ends does not kick it:
   a queue notice reached just then stays pending until something else kicks. `inbound_live` has
   notices without tool calls.
3. `wecom-sync.ts:170` (`BacklogIsHanded` of `WecomSync`). Only a deferred drain that completes asks
   for the backlog. A deferred retry that stores a page and is then interrupted by a callback does
   not, and the live reading promotes only the conversations it read itself. `inbound_live` checks
   `BacklogIsHanded` with stops and without failed requests.
4. `single-instance-lock.ts:69` and `:81` (`OneOwner` of `InstanceLock`): two processes hold the lock,
   in two ways. The file is created first and written afterwards; a second process that reads it in
   between takes it for invalid, replaces it under the guard of the recovery file, and both return a
   lock. And where a crash left a recovery file, two processes read it (`:127`); one removes it and
   makes its own guard, the other then removes that guard by its name (`unlinkIfOwned`, or `:137` when
   the file is unreadable) and makes one of its own; both are past the check of `:192`, so the second
   unlinks (`:209`) the lock the first has written, and both return it.
   `test/recovery/single-instance-lock.test.ts:23` says that O_EXCL rejects a second live process.
5. `runtime-update.ts:242` (`RefusedStopsNothing` of `RuntimeUpdate`). A ping that says "running" is
   taken for the proof that nothing was stopped, while an idle check the client gave up on is still
   open in the daemon, whose answer then stops the runtime with nobody to restore it.
6. `login-manager.ts:317` (`ClosingEndsNoRemoteOffer` of `Enrollment`). `close` aborts the pause after a
   failure, which swallows the abortion, and the loop records the offer of a conversation as expired
   before its time. `test/integration/ilink-login.test.ts:749` expects it to resume after a restart.
7. `state/sqlite-store.ts:1259` (`PlacesComeBack` of `ReplyWindow`). `#suppressGroup` fails the pending
   attempts of a suppressed message and leaves `reserved_send_count` of their window alone; the
   release that follows finds no pending row and returns nothing. The window takes one send less per
   such attempt until a newer message supersedes it. `PlacesComeBack` names these attempts
   (`Stranded`) and says that a place is lost in no other way.

## 6. Proofs

TLC looks at a few messages, accounts and crashes; the theorems say the same of any number. All are
about `Spec` of their module for **every** value of the constants under the named assumption of
that module (`ConstantsOK`, or the `...Assumption`s of `ReplyWindow`), which only types the constants,
keeps the dummies apart from the values, and says that bounds of the code are positive. Bounds of
the model (`MaxCrashes`, ...) are any natural numbers. Each inductive invariant was first
checked by TLC on the instances of its run.

| Theorem | States | Also checked by |
| --- | --- | --- |
| `ReplyWindowProofs!TypeCorrect` | `[]TypeOK` | ledger |
| `ReplyWindowProofs!LedgerInvariant`, `OneWindowAtATime` | `[]IInv`; one open window, one send under way | |
| `ReplyWindowProofs!ReservationsAreCovered`, `BudgetAlwaysHolds` | `[]ReservationsCovered`, `[]BudgetHolds` | ledger |
| `ReplyWindowProofs!PlacesAlwaysComeBack`, `PlacesComeBackToCalls` (of `ExecutorSpec`) | `[]PlacesComeBack` | ledger |
| `ReplyWindowProofs!ImplementsContract` | `ContractSpec` | ledger |
| `ReplyWindowProofs!TurnInvariant`, `OwnersAreDelivered`, `SessionsKeepWindows`, `SendsStartFresh` | `[]TurnInv`, `[]OwnerIsDelivered`, `[]SessionKeepsWindow`, `SendsAreFresh` | ledger |
| `ReplyWindowProofs!ExecutorImplementsLedger` | `ExecutorSpec => Spec`: every step of the executor is one of the ledger, or none | |
| `ReplyWindowProofs!ExecutorInvariant`, `SendsStayAccounted`, `SendsGoOutInContext` | `[]ExecInv`, `[]SendsAreAccounted`, `HandedOverInContext` | ilink_sends |
| `AdmissionProofs!SlotInvHolds`, `LimitIsKept`, `WaitersAreWoken`, `SlotsAreGivenOut` | `[]SlotInv`, `[]BacklogRunsAlone`, `[]NoLostWakeup`, `[]WaitersAreServed` | admission, inbound |
| `AdmissionProofs!OneStandsInLine`, `LiveInputGoesFirst`, `NothingAnsweredIsReplayed` | `[]OnePlaceInLine`, `LiveInputFirst`, `[]AnsweredNeverReplayed` | admission |
| `KfOutboxProofs!InvHolds`, `TypesAreRight`, `StreakAuthorizes` | `[]Inv`, `[]TypeOK`, `[]AuthorizedByStreak` | wecom_safe (per instance) |
| `KfOutboxProofs!BudgetIsKept`, `KicksAreNotLost`, `OutboxServes` | `[]SendBudget`, `[]NoLostKick`, `[]OutboxIsServed` | wecom_safe |
| `KfOutboxProofs!NothingIsSentTwice`, `ReportsStick`, `PutAwayIsAnswered`, `NothingStaleIsSent` | `[]HandedOverOnce`, `[]ReportedFailureSticks`, `[]AnsweredBeforePutAway`, `SendsAreCurrent` | wecom_safe |
| `WecomSyncProofs!InvHolds`, `CursorIsSound`, `RequestsAreKept` | `[]Inv`, `[]CursorMatchesInbox`, `[]NoLostRequest` | wecom_safe (per instance) |
| `WecomSyncProofs!SlotsAreShared`, `MessagesInOrder` | `[]SlotsAreUsed`, `HandedInOrder` | wecom_safe (per instance) |
| `IlinkListenerProofs!InvHolds`, `PollersAreSingle`, `ListenersAreRight`, `ListenersAreUnique` | `[]Inv`, `[]OnePoller`, `[]ListenersMatchAccounts`, `[]OneListenerPerAccount` | inbound |
| `IlinkListenerProofs!PagesAreFenced` | `[]CursorMatchesInbox` | inbound |
| `EnrollmentProofs!EnrollmentInv`, `AccountsStayWithinLimit` | `[]Inv`, `[]AccountLimit` | host_safe |
| `EnrollmentProofs!OffersAreAccountedFor`, `OffersEndSoundly` | `[]OffersAreFollowed`, `OffersChangeSoundly` | host_safe |
| `ApprovalProofs!ApprovalInv`, `ApprovalsAreSafe`, `GrantsAreCurrent` | `[]Inv`, `[]ApprovalsHold`, `GrantIsCurrent` | agent_safe |
| `CodexTurnProofs!TurnInvariant`, `AnswersFollow` | `[]Inv`, `[]AnswersFollowDirection` | agent_live |

*ReplyWindow.* Neither `ReservationsCovered` nor `BudgetHolds` is inductive: a start moves a
reservation to `transmitted`, a release returns it, and only together do they bound what was charged.
`IInv` therefore adds, per window, that the charged attempts are covered by
`reserved + transmitted`, that those are within the budget, and that what was ever handed over is
covered by `transmitted`; that no attempt belongs to a window that does not exist yet; and that a
row's state agrees with its own history. The argument per action is a lemma on cardinalities (one
attempt added, removed or changed in place) applied to the one window the action touches. `Attempt`
and `Message` need not be finite: finiteness of each window's attempts is part of the
invariant. In the refinement, the open window is live, the charged history is `spent`, the sending
attempts are in flight; each action is a `ChangeDirection`, `Erase`, `Transmit`, `Settle` or a
stutter, and `Transmit` needs the counters of `IInv` to know that the contract has room. `PlacesComeBack` is
inductive together with `IInv`: `Occupying` (pending or stranded) is the set `reserved` counts; a
preparation adds one attempt to it, a start, a release or the startup pass removes as many as they
subtract, a suppression moves attempts within it, and suppressed messages stay so. `TurnInv`
adds that sequence numbers are at most `lastSeq`, that the owner of the open window is the newest
message, and that a session has a window of its own.

*IlinkExecutor.* Its proofs stand in `ReplyWindowProofs` after those of the ledger, on which they build: each step of the executor is shown to be a
step of `ReplyWindow` or to leave its rows alone, so that `IInv` holds under it without a word about
the ledger's actions being repeated. `ReservationsAreHeld` is not inductive by itself: a page may
retire the window under a call, a restart may fail its attempt, a rotation may replace the tokens it
took. `ContextsMatch` says what remains true meanwhile: the attempt a call holds is charged to the
window the call opened its delivery context for and, as long as it is pending, that window has the
generation the call noted. So a start that finds its attempt pending leaves with the tokens of
the right window (`HandedOverInContext`), and a call whose attempt is no longer pending releases
nothing. `TokensCurrent` ties session tokens to the session there is. The line of calls
(`SelectSeq`) is not in the invariant: it matters for `TurnedAwayAsBusy`, which stays with TLC.

*Admission.* `SlotInv` is about slots and lines: the lines are disjoint and without repetition and
nobody in them has a slot (`Lined`); the active conversations are finitely many, within the limit, and
a low one is alone (`Bounded`); nobody waits while there is room for the first in line (`Served`); who
waits is in the middle of an acquisition. `Served` is what a release must re-establish: `Wake`
grants slots until the first of the high line, or the first of both, does not fit. It is written with
bounded positions in the lines rather than by recursion, and `WakeLemma` proves once, for all a
dozen callers, that it leaves `Lined`, `Bounded` and `Served` true. A retried conversation that
is active already re-enters with its own slot (`RegrantLemma`), and a promotion from the low to the
high line keeps both (`QueuesLemma`). The code's finitely many conversations need no assumption:
`Conversation` may be infinite. `AnsweredNeverReplayed` follows from `SpokenInv`: an answered message
was claimed, and no step returns a claimed message to the inbox without asking whether it was answered.
`SlotsAreOwned` is not a theorem: findings 1 and 2 are its exceptions. `TypeOK` of the
queues is not proved: an inbox in order exists for every finite set of messages only by induction
over the set.

*KfOutbox.* `HandedOverOnce` needs that every send under way has exactly one carrier, a tool call or
the drain, and that what is pending was never handed over (`Flows`): the drain claims what it read
earlier, and claims nothing that is not pending any more. `SendBudget` needs that a message just
arrived, from a customer not yet authorized, was sent nothing (`Budgeted`), so that the
confirmation of an authorization, which counts with the rest, finds room. `AnsweredBeforePutAway`
needs that tool sends are never pending (`PutAway`). `NoLostKick` needs what a drain that ends
without another kick has looked at (`Looked`). `SendsAreCurrent` needs that the session of a running
message reaches as far as its turn (`Reached`, `Turning`), and `AuthorizedByStreak` that a streak
counts the last evaluated messages, all of them triggers in one account (`Streaks`). The rows are a
sequence that grows; counting in it is done by cardinality lemmas on sets of positions.

*IlinkListener.* A refresh acts on accounts it read before it waited, a poll on a row it was given
when its task began, and both may be outdated. What makes them harmless is that every registration and every confirmation brings a token never used
before (`Numbered`), so that a row that was read earlier is the row of now, up to what was
enabled, exactly if the tokens agree (`Current` for the listed tasks, `Desired` for a refresh under
way). The generation that `commitPollPage` compares would not do: it begins at one again after a
deletion. With `Current`, a task whose page is refused is one whose account has changed, so
that a refresh is in line to replace it (`Settled`). `OnePoller` follows from `Single`: a task off the
list is aborted (`Shaped`), and a refresh starts none before those have ended. `Settled` says what
`ListenersMatchAccounts` says also for the last refresh in line, which has read the accounts as they
are now. `CursorMatchesInbox` needs only the fence: a page is stored where the inbox ends, because
the cursor it was asked with is the cursor of the account, whichever registration it belongs to.

*WecomSync.* `Inv` joins the cursor and the request slots: the line of waiting workers has no
repetitions, each in it is waiting, and it is empty unless all slots are taken (`Queued`), or the
adapter stopped (`NobodyWaits`). `CursorMatchesInbox` is inductive with the types: every page is
committed under the cursor it was asked with. `HandedInOrder` follows, because a worker that hands
live messages over has first drained what is deferred of the same conversation.

*Enrollment.* `AccountLimit` holds because every registration is by a confirmation that counts the
accounts in the transaction that adds one (`Registrations`, where the registered accounts are
finitely many and each has the offer of its credentials, confirmed before). The generation
of an account is bounded by the number of confirmed offers, each of which confirms once; since
deletions reset it, only the bound is inductive. `NoForgottenOffer` needs who polls what: an offer
that is not made has no poll, and only a settled one waits for a refresh (`Polls`).
`NoOrphanedOffer` is about a terminal that closes while the call that creates its offer is
still under way: at any moment either the session lists the offer or that call has it in hand
(`Owners`), and that nobody asks while the manager is down is what makes this true after a
restart. Each action is put into one of two shapes, a step of the offers or of the accounts, and the
invariant is shown for the shapes.

*Approval.* A request lives in four places - the agent's handler, the client's table, the customer's
message, the run - and changes by a dozen steps, but its row changes only in a handful of ways
(answered, abandoned, decided, withdrawn). `Inv` is a predicate on a row (`RowOK`), what ties rows to
runs (`Runs`, `Turns`) and what the customer's messages say (`Replying`); each way of changing a row
has a lemma that it keeps `RowOK`, and each step names the ways it uses, which for a cancellation
or a revocation is one for every request at once. `GrantIsCurrent` follows because `accept` is
written by one step, which looks at the last message, the run and the permission without an await
between.

*CodexTurn.* What counts is decided when the run is over, by numbers that were given to lines as they
were read, for messages that three parties handled: the customer's steering, the line of Codex, the
pipe. `Inv` follows a message through all of them. Messages are steered one at a time (`OneByOne`), so
that the one confirmed last is the newest of the run, and the thread knows it (`LastKnown`). Codex
takes messages in in their order, whether they were read of, are written and not read, or stand in
line (`InOrder`), so that the echo of the newest has the highest number. What Codex acknowledged is in
one of those places, and before the end of a completed run in the pipe (`Delivered`, which needs that
the end of a run is written once and after everything else of it, `Runs`). So when a run is over, the
boundary is the echo of its newest confirmed message and lies after that of every other, and never the
moment of an acknowledgement; the calls that count began behind it (`Counts`). That a confirmation can
still come late, for a run that is over, is harmless because it is compared with the run the thread is
active on, which by then is none. The client's rules alone do not carry this: it rests on what is
assumed of Codex in the head of the module (echoes in order and before the end).

Out of the prover's reach, and left to TLC: liveness (fairness and ENABLED), and everything that
needs induction over data. No module with theorems has a RECURSIVE operator; recursive functions
(`OpenedBy`) are used by their membership only.

Only model-checked: `AppServer`, `RuntimeUse`, `InstanceLock`, `NativeDaemon`,
`OperatorIpc`, `RuntimeUpdate`; of `ReplyWindow`, that the newest message of a page takes the window
over, which depends on values of the constants; of `IlinkExecutor`, the types of its lines and that
nobody in one is turned away; of `Admission`, `SlotsAreOwned` and the types of its queues.

## 7. Not modelled

- In `ReplyWindow`: other accounts and peers (rows of different conversations share no state), sealed
  secrets, payload retention (`sqlite-store.ts:2783`, listed as a hazard without a property).
- In `Admission`: messages that answer an approval (module `Approval`), the authorization conversation
  (`KfOutbox`), queue notices (`KfOutbox`, `IlinkExecutor`), system events, thread and prompt handling.
- Send contracts, the iLink protocol, its media and cryptography, the WeCom API and media, the MCP
  servers and the command line: conversions and I/O of one call, with no state of their own.
- Artifacts, thread rows, the schema checks of the store, and the order of construction in
  `createRuntime` with what is undone when it fails.
- Of each component, what its note in `PROJECT.json` lists.

## 8. What is left

1. Proofs about `AppServer` (`ClosedLeavesNoChild`, `EndIsHeard`) and `NativeDaemon`
   (`AcceptedIsFinal`). Those of `InstanceLock` (`HolderKeepsFile`, `OneRecovery`) would need a model
   without bounds on crashes and attempts: the invariants TLC checks rest on the bounds.
2. Models of artifacts and retention, when their rules grow beyond one statement.
