----------------------------- MODULE WecomSync ------------------------------
(***************************************************************************)
(* The synchronisation of WeChat KF messages: src/src/services/wecom-sync.ts *)
(* with the page transaction of src/src/state/sqlite-store.ts, the callback *)
(* route and the part of src/src/runtime.ts that starts it, stops it and   *)
(* drains the backlog it leaves.                                           *)
(*                                                                         *)
(* The provider keeps a log of messages for every account and calls back    *)
(* when it grows.  One worker per account reads the log page by page from   *)
(* the saved cursor; what was missed while the process was down is read at  *)
(* the start and stored as backlog ("deferred") until a callback turns the  *)
(* worker to live reading.                                                  *)
(*                                                                         *)
(* Abstractions.  A message is its place in the log, a cursor the number of *)
(* messages before it.  Time is left out: a retry fires at some time, a     *)
(* callback token may have expired.  A message is "handed" once the         *)
(* processor has it (module Admission).                                     *)
(***************************************************************************)
EXTENDS Naturals, Sequences, FiniteSets

CONSTANTS
  Account,        \* customer-service accounts
  Length,         \* messages in the log of an account
  Conversation,   \* customers
  ConversationOf, \* [1 .. Length -> Conversation], the same for every account
  Missed,         \* [Account -> Nat]: the log when the process first starts
  PageSize,       \* messages in a page
  MaxPages,       \* pages read in one go, 100
  MaxRequests,    \* requests at the same time, 4
  MaxFailures,    \* bound on failed requests
  MaxStops        \* bound on stops and crashes

ConstantsOK ==
  /\ IsFiniteSet(Account)
  /\ Length \in Nat /\ ConversationOf \in [1 .. Length -> Conversation]
  /\ Missed \in [Account -> 0 .. Length]
  /\ PageSize \in Nat \ {0} /\ MaxPages \in Nat \ {0}
  /\ MaxRequests \in Nat \ {0}
  /\ MaxFailures \in Nat /\ MaxStops \in Nat

VARIABLES
  log,            \* log[a]: messages the provider has
  called,         \* called[a]: the log at the last callback that was accepted
  cursor,         \* cursor[a]: the row of sync_cursors
  inbox,          \* inbox[a][i]: the row of message i
  pending,        \* pending[a]: the request a worker has not taken yet
  liveRequested,  \* accounts with a callback no worker has taken
  retries,        \* accounts with a retry timer
  worker,         \* worker[a]
  waiters,        \* accounts waiting for a request slot
  preempted,      \* preempted[a]: conversations of an interrupted catch-up page
  catchUp,        \* accounts whose catch-up the start still waits for
  drain,          \* the drain of the backlog is requested or running
  mode,           \* "accepting", "stopping" or "stopped"
  failures, stops

durable == <<cursor, inbox>>
requests == <<pending, liveRequested, retries>>
bounds == <<failures, stops>>
vars == <<log, called, durable, requests, worker, waiters, preempted, catchUp, drain, mode,
          bounds>>

-----------------------------------------------------------------------------

Message == 1 .. Length
NoRequest == [live |-> FALSE, deferred |-> FALSE]
Request == [live : BOOLEAN, deferred : BOOLEAN]
\* at: "waiting" for a slot, "reading" a page, "ended" with the worker not yet removed.
NoWorker == [at |-> "none", request |-> NoRequest, pages |-> 0, read |-> {}]
Worker == [at : {"none", "waiting", "reading", "ended"}, request : Request,
           pages : 0 .. MaxPages - 1, read : SUBSET Conversation]

TypeOK ==
  /\ log \in [Account -> 0 .. Length] /\ called \in [Account -> 0 .. Length]
  /\ cursor \in [Account -> 0 .. Length]
  /\ inbox \in [Account -> [Message -> {"absent", "deferred", "received", "handed"}]]
  /\ pending \in [Account -> Request]
  /\ liveRequested \subseteq Account /\ retries \subseteq Account
  /\ worker \in [Account -> Worker]
  /\ waiters \in Seq(Account)
  /\ preempted \in [Account -> SUBSET Conversation]
  /\ catchUp \subseteq Account
  /\ drain \in BOOLEAN
  /\ mode \in {"accepting", "stopping", "stopped"}
  /\ failures \in 0 .. MaxFailures /\ stops \in 0 .. MaxStops

Accepting == mode = "accepting"
Running(w) == {a \in Account : w[a].at # "none"}
Reading(w) == {a \in Account : w[a].at = "reading"}
Merge(r, s) == [live |-> r.live \/ s.live, deferred |-> r.deferred \/ s.deferred]
\* A catch-up without a callback stores what it reads as backlog.
IsCatchUp(request) == ~request.live /\ request.deferred

\* promoteDeferredConversation and the enqueue of what it returns.
\* Mutant: the backlog of the conversation stays where it is.
HandedWithoutBacklog(a, conversations, box) ==
  [box EXCEPT ![a] = [i \in Message |->
     IF box[a][i] = "received" /\ ConversationOf[i] \in conversations
     THEN "handed" ELSE box[a][i]]]
Handed(a, conversations, box) ==
  [box EXCEPT ![a] = [i \in Message |->
     IF box[a][i] \in {"deferred", "received"} /\ ConversationOf[i] \in conversations
     THEN "handed" ELSE box[a][i]]]

-----------------------------------------------------------------------------
(* Workers and request slots. *)

\* #acquireSyncSlot.
Acquire(w, a, line) ==
  IF Cardinality(Reading(w)) < MaxRequests
  THEN worker' = [w EXCEPT ![a].at = "reading"] /\ waiters' = line
  ELSE worker' = [w EXCEPT ![a].at = "waiting"] /\ waiters' = Append(line, a)

\* #runWorker takes the request and starts to read; without one it returns.
Take(w, a, pend, line) ==
  IF pend[a] = NoRequest
  THEN /\ worker' = [w EXCEPT ![a] = [NoWorker EXCEPT !.at = "ended"]]
       /\ waiters' = line /\ pending' = pend /\ UNCHANGED liveRequested
  ELSE /\ Acquire([w EXCEPT ![a] = [NoWorker EXCEPT !.request = pend[a]]], a, line)
       /\ pending' = [pend EXCEPT ![a] = NoRequest]
       /\ liveRequested' = IF pend[a].live THEN liveRequested \ {a} ELSE liveRequested

\* The slot goes to the first in line.
\* Mutant: the first in line is not woken.
ReleaseSilently(w, line) == [workers |-> w, line |-> line]
Release(w, line) ==
  IF line = <<>> THEN [workers |-> w, line |-> line]
  ELSE [workers |-> [w EXCEPT ![Head(line)].at = "reading"], line |-> Tail(line)]

\* The callback route and enqueue: #requestSync for a live request.
Callback(a) ==
  /\ Accepting
  /\ called[a] < log[a]
  /\ called' = [called EXCEPT ![a] = log[a]]
  /\ retries' = retries \ {a}
  /\ LET request == [pending EXCEPT ![a] = Merge(@, [live |-> TRUE, deferred |-> FALSE])] IN
     IF worker[a].at = "none"
     THEN Take(worker, a, request, waiters)
     ELSE /\ pending' = request
          /\ liveRequested' = liveRequested \cup {a}
          /\ UNCHANGED <<worker, waiters>>
  /\ UNCHANGED <<log, durable, preempted, catchUp, drain, mode, bounds>>

\* The finally of #startWorker: a request that came as the worker returned starts
\* the next one, unless a retry timer will.
\* Mutant: the end of the catch-up starts no drain.
WorkerEndsQuietly(a) ==
  /\ worker[a].at = "ended"
  /\ catchUp' = catchUp \ {a} /\ drain' = drain
  /\ IF Accepting /\ pending[a] # NoRequest /\ a \notin retries
     THEN Take(worker, a, pending, waiters)
     ELSE /\ worker' = [worker EXCEPT ![a] = NoWorker]
          /\ UNCHANGED <<pending, liveRequested, waiters>>
  /\ UNCHANGED <<log, called, durable, retries, preempted, mode, bounds>>
WorkerEnds(a) ==
  /\ worker[a].at = "ended"
  /\ catchUp' = catchUp \ {a}
  /\ drain' = (drain \/ catchUp = {a})
  /\ IF Accepting /\ pending[a] # NoRequest /\ a \notin retries
     THEN Take(worker, a, pending, waiters)
     ELSE /\ worker' = [worker EXCEPT ![a] = NoWorker]
          /\ UNCHANGED <<pending, liveRequested, waiters>>
  /\ UNCHANGED <<log, called, durable, retries, preempted, mode, bounds>>

\* The timer of #scheduleRetry.
Retry(a) ==
  /\ a \in retries
  /\ retries' = retries \ {a}
  /\ IF Accepting /\ worker[a].at = "none"
     THEN Take(worker, a, pending, waiters)
     ELSE UNCHANGED <<worker, waiters, pending, liveRequested>>
  /\ UNCHANGED <<log, called, durable, preempted, catchUp, drain, mode, bounds>>

-----------------------------------------------------------------------------
(* Reading. *)

Rest(a) == [worker EXCEPT ![a] = [NoWorker EXCEPT !.at = "ended"]]

\* #enqueueLiveConversations: what was read live, or else what the interrupted
\* catch-up page left.
Enqueue(a, read, box) ==
  /\ inbox' = Handed(a, IF read # {} THEN read ELSE preempted[a], box)
  /\ preempted' = [preempted EXCEPT ![a] = {}]

\* A page in the middle of the log, or its end.  ingestSyncPage stores it and moves
\* the cursor in one transaction.
\* Mutant: a page that a callback interrupts is not stored.
IngestUninterrupted(a, size) ==
  [inbox EXCEPT ![a] = [i \in Message |->
     IF a \notin liveRequested /\ i > cursor[a] /\ i <= cursor[a] + size /\ inbox[a][i] = "absent"
     THEN IF IsCatchUp(worker[a].request) THEN "deferred" ELSE "received"
     ELSE inbox[a][i]]]
Ingest(a, size) ==
  [inbox EXCEPT ![a] = [i \in Message |->
     IF i > cursor[a] /\ i <= cursor[a] + size /\ inbox[a][i] = "absent"
     THEN IF IsCatchUp(worker[a].request) THEN "deferred" ELSE "received"
     ELSE inbox[a][i]]]
Conversations(a, size) == {ConversationOf[i] : i \in cursor[a] + 1 .. cursor[a] + size}

\* The page is the last one: the worker goes on with the next request.
LastPage(a, size) ==
  LET w == worker[a]
      freed == Release(Rest(a), waiters)
      read == w.read \cup Conversations(a, size)
  IN
  /\ IF IsCatchUp(w.request) THEN inbox' = Ingest(a, size) /\ UNCHANGED preempted
     ELSE Enqueue(a, read, Ingest(a, size))
  /\ drain' = (drain \/ IsCatchUp(w.request))
  /\ Take(freed.workers, a, pending, freed.line)
  /\ UNCHANGED retries

\* A callback turns a catch-up into a live reading after the current page.
Interrupted(a, size) ==
  LET freed == Release(Rest(a), waiters) IN
  /\ inbox' = Ingest(a, size)
  /\ preempted' = [preempted EXCEPT ![a] = @ \cup Conversations(a, size)]
  /\ Take(freed.workers, a, pending, freed.line)
  /\ UNCHANGED <<drain, retries>>

\* The request failed, or there are too many pages: what was read live is enqueued
\* and a retry set.
\* Mutant: what was read before the failure stays where it is.
FailSilently(a, read, box) ==
  LET freed == Release(Rest(a), waiters) IN
  /\ inbox' = box /\ UNCHANGED preempted
  /\ pending' = [pending EXCEPT ![a] = Merge(@, worker[a].request)]
  /\ retries' = retries \cup {a}
  /\ worker' = freed.workers /\ waiters' = freed.line
  /\ UNCHANGED <<drain, liveRequested>>
Fail(a, read, box) ==
  LET freed == Release(Rest(a), waiters) IN
  /\ IF ~IsCatchUp(worker[a].request) /\ read # {}
     THEN Enqueue(a, read, box)
     ELSE inbox' = box /\ UNCHANGED preempted
  /\ pending' = [pending EXCEPT ![a] = Merge(@, worker[a].request)]
  /\ retries' = retries \cup {a}
  /\ worker' = freed.workers /\ waiters' = freed.line
  /\ UNCHANGED <<drain, liveRequested>>

\* More pages follow: the slot is given back and asked for again.
\* Mutant: pages are not counted.
NextPageUncounted(a, size) ==
  LET w == [worker EXCEPT ![a].at = "waiting", ![a].pages = @ + 1,
                          ![a].read = @ \cup Conversations(a, size)]
      freed == Release(w, waiters)
  IN
  /\ inbox' = Ingest(a, size)
  /\ Acquire(freed.workers, a, freed.line)
  /\ UNCHANGED <<drain, requests, preempted>>
NextPage(a, size) ==
  LET w == [worker EXCEPT ![a].at = "waiting", ![a].pages = @ + 1,
                          ![a].read = @ \cup Conversations(a, size)]
      freed == Release(w, waiters)
  IN
  /\ worker[a].pages + 1 < MaxPages
  /\ inbox' = Ingest(a, size)
  /\ Acquire(freed.workers, a, freed.line)
  /\ UNCHANGED <<drain, requests, preempted>>

Page(a) ==
  /\ worker[a].at = "reading" /\ Accepting
  /\ \E size \in 0 .. PageSize :
       /\ cursor[a] + size <= log[a]
       /\ cursor' = [cursor EXCEPT ![a] = @ + size]
       /\ LET more == cursor[a] + size < log[a]
              interrupted == IsCatchUp(worker[a].request) /\ a \in liveRequested
          IN
          /\ more => size = PageSize
          /\ \/ interrupted /\ Interrupted(a, size)
             \/ ~interrupted /\ ~more /\ LastPage(a, size)
             \/ ~interrupted /\ more /\ NextPage(a, size)
             \/ /\ ~interrupted /\ more /\ worker[a].pages + 1 >= MaxPages
                /\ Fail(a, worker[a].read \cup Conversations(a, size), Ingest(a, size))
  /\ UNCHANGED <<log, called, catchUp, mode, bounds>>

PageFails(a) ==
  /\ worker[a].at = "reading" /\ Accepting
  /\ failures < MaxFailures /\ failures' = failures + 1
  /\ Fail(a, worker[a].read, inbox)
  /\ UNCHANGED <<log, called, cursor, catchUp, mode, stops>>

\* An answer that comes after the stop is dropped.
PageDropped(a) ==
  /\ worker[a].at = "reading" /\ ~Accepting
  /\ worker' = Rest(a)
  /\ UNCHANGED <<log, called, durable, requests, waiters, preempted, catchUp, drain, mode,
                 bounds>>

-----------------------------------------------------------------------------
(* The runtime. *)

\* The provider's log grows; the callback may be lost.
Grow(a) ==
  /\ log[a] < Length
  /\ log' = [log EXCEPT ![a] = @ + 1]
  /\ UNCHANGED <<called, durable, requests, worker, waiters, preempted, catchUp, drain, mode,
                 bounds>>

\* drainDeferred hands over one conversation after the other, once nothing is read.
DrainConversation(a, c) ==
  /\ drain /\ Accepting /\ Running(worker) = {}
  /\ \E i \in Message : inbox[a][i] = "deferred" /\ ConversationOf[i] = c
  /\ inbox' = Handed(a, {c}, inbox)
  /\ UNCHANGED <<log, called, cursor, requests, worker, waiters, preempted, catchUp, drain, mode,
                 bounds>>
StopDrain ==
  /\ drain /\ Running(worker) = {}
  /\ \A a \in Account, i \in Message : inbox[a][i] # "deferred"
  /\ drain' = FALSE
  /\ UNCHANGED <<log, called, durable, requests, worker, waiters, preempted, catchUp, mode,
                 bounds>>

\* stopAccepting: requests, timers and waiters are dropped.
Stop ==
  /\ Accepting
  /\ stops < MaxStops /\ stops' = stops + 1
  /\ mode' = "stopping"
  /\ pending' = [a \in Account |-> NoRequest]
  /\ retries' = {} /\ waiters' = <<>>
  /\ worker' = [a \in Account |-> IF worker[a].at = "waiting"
                                  THEN [NoWorker EXCEPT !.at = "ended"] ELSE worker[a]]
  /\ UNCHANGED <<log, called, durable, liveRequested, preempted, catchUp, drain, failures>>
\* close waits for the workers.
Stopped ==
  /\ mode = "stopping" /\ Running(worker) = {}
  /\ mode' = "stopped"
  /\ UNCHANGED <<log, called, durable, requests, worker, waiters, preempted, catchUp, drain,
                 bounds>>
\* The process dies.
Crash ==
  /\ Accepting
  /\ stops < MaxStops /\ stops' = stops + 1
  /\ mode' = "stopped"
  /\ worker' = [a \in Account |-> NoWorker] /\ waiters' = <<>>
  /\ UNCHANGED <<log, called, durable, requests, preempted, catchUp, drain, failures>>

\* catchUp and the recovery of the inbox: one worker for every known account, the
\* first MaxRequests of them read at once.
AnyOrder(S) == CHOOSE s \in [1 .. Cardinality(S) -> S] : \A i, j \in DOMAIN s : s[i] = s[j] => i = j
Start ==
  /\ mode = "stopped"
  /\ mode' = "accepting"
  /\ LET s == AnyOrder(Account)
         CatchUpWorker(a) == [NoWorker EXCEPT
           !.at = IF \E i \in DOMAIN s : s[i] = a /\ i <= MaxRequests THEN "reading" ELSE "waiting",
           !.request = [live |-> FALSE, deferred |-> TRUE]]
     IN  /\ worker' = [a \in Account |-> CatchUpWorker(a)]
         /\ waiters' = SubSeq(s, MaxRequests + 1, Len(s))
  /\ inbox' = [a \in Account |-> [i \in Message |->
       IF inbox[a][i] = "received" THEN "handed" ELSE inbox[a][i]]]
  /\ pending' = [a \in Account |-> NoRequest]
  /\ liveRequested' = {} /\ retries' = {}
  /\ preempted' = [a \in Account |-> {}]
  /\ catchUp' = Account
  /\ drain' = FALSE
  /\ UNCHANGED <<log, called, cursor, bounds>>

-----------------------------------------------------------------------------

\* The accounts are known from an earlier run.
Init ==
  /\ log = Missed /\ called = [a \in Account |-> 0]
  /\ cursor = [a \in Account |-> 0]
  /\ inbox = [a \in Account |-> [i \in Message |-> "absent"]]
  /\ pending = [a \in Account |-> NoRequest]
  /\ liveRequested = {} /\ retries = {}
  /\ worker = [a \in Account |-> NoWorker] /\ waiters = <<>>
  /\ preempted = [a \in Account |-> {}]
  /\ catchUp = {} /\ drain = FALSE
  /\ mode = "stopped"
  /\ failures = 0 /\ stops = 0

Next ==
  \/ \E a \in Account :
       \/ Callback(a) \/ WorkerEnds(a) \/ Retry(a) \/ Page(a) \/ PageFails(a) \/ PageDropped(a)
       \/ Grow(a)
       \/ \E c \in Conversation : DrainConversation(a, c)
  \/ StopDrain \/ Stop \/ Stopped \/ Crash \/ Start

Spec == Init /\ [][Next]_vars

\* Requests time out, so each is answered; timers fire; a stopped adapter is
\* started again.  The provider and the operator owe nothing else.
Fairness ==
  /\ \A a \in Account :
       /\ WF_vars(Page(a)) /\ WF_vars(PageDropped(a))
       /\ WF_vars(WorkerEnds(a)) /\ WF_vars(Retry(a))
       /\ \A c \in Conversation : SF_vars(DrainConversation(a, c))
  /\ WF_vars(Stopped) /\ WF_vars(Start)
LiveSpec == Spec /\ Fairness

-----------------------------------------------------------------------------
(* Properties.                                                             *)

\* The cursor never runs ahead of the inbox, nor behind it: what lies before it is
\* stored, whatever interrupts a page, and nothing else is.
CursorMatchesInbox ==
  \A a \in Account, i \in Message : inbox[a][i] # "absent" <=> i <= cursor[a]

\* Messages of a conversation reach the processor in the order of the log, live ones
\* after the backlog of their conversation.  (The recovery at a start goes by another
\* rule: it takes what was read live before a crash ahead of the backlog.)
HandedOutOfOrder ==
  /\ Accepting
  /\ \E a \in Account : \E i, j \in Message :
       /\ i < j /\ ConversationOf[i] = ConversationOf[j]
       /\ inbox[a][j] # "handed" /\ inbox'[a][j] = "handed"
       /\ inbox'[a][i] # "handed"
HandedInOrder == [][~HandedOutOfOrder]_vars

\* A request slot is never left unused while an account waits for one.
SlotsAreUsed ==
  /\ Cardinality(Reading(worker)) <= MaxRequests
  /\ waiters # <<>> => Cardinality(Reading(worker)) = MaxRequests

\* A request that was accepted has a worker or a timer that will take it up.
NoLostRequest ==
  \A a \in Account : Accepting /\ pending[a] # NoRequest =>
    worker[a].at # "none" \/ a \in retries

\* What a callback announced is read, through failures, retries, stops and crashes.
AnnouncedIsRead ==
  \A a \in Account, i \in Message : i <= called[a] ~> i <= cursor[a]

\* What was read live reaches the processor, even when a later page fails.
LiveIsHanded ==
  \A a \in Account, i \in Message : inbox[a][i] = "received" ~> inbox[a][i] = "handed"

\* What was missed while the process was down is processed in the end
\* (docs/architecture.md:84: "processing downtime backfill only when capacity is
\* idle").
BacklogIsHanded ==
  \A a \in Account, i \in Message : inbox[a][i] = "deferred" ~> inbox[a][i] = "handed"
=============================================================================
