----------------------------- MODULE Admission -----------------------------
(***************************************************************************)
(* Admission and scheduling of agent turns (ConversationProcessor in       *)
(* src/src/services/conversation-processor.ts, with the deferred drain of  *)
(* src/src/runtime.ts and the inbox rows it moves).                        *)
(*                                                                         *)
(* The jobs of a conversation are prepared one after the other (#schedule);*)
(* a prepare acquires one of MaxConcurrent slots, starts an agent turn and *)
(* leaves it to run: the slot belongs to the turn until it completes.      *)
(* Input that arrives while a turn runs is steered into it.  Backlog found *)
(* at a start or delivered late runs at low priority: alone, and it gives  *)
(* way to live input.  Every await is a point where the other              *)
(* conversations move, and ends a step here.                               *)
(*                                                                         *)
(* Abstractions.  'processing' and 'preparing' are "active"; the terminal  *)
(* statuses are "done"; 'received' with deferred = 1 is "deferred".  What  *)
(* #admit finds out about the authorization and the reply window of a      *)
(* message is a free choice.  Media, threads, prompts and notices are left *)
(* out; their failures are not.                                            *)
(***************************************************************************)
EXTENDS Naturals, Sequences, FiniteSets

CONSTANTS
  Conversation,   \* conversations, identified by channel, account and peer
  Ilink,          \* those on the channel weixin_ilink; the others are WeCom's
  Message,        \* customer messages
  NoMessage,      \* stands for a NULL message reference
  ConversationOf, \* [Message -> Conversation]
  Order,           \* [Message -> Nat]: the order in which messages reach the inbox
  Live,           \* messages the provider delivers while the worker runs
  Unsupported,    \* messages the processor ignores
  MaxConcurrent,  \* the limit of concurrent conversations, 10 by default
  MaxTries,       \* attempts to prepare a message, 3
  MaxRetries,     \* turns of a message repeated after a failure, 2
  MaxStops,       \* bound on WeCom stops
  Deletable       \* iLink conversations whose account the operator may delete

ConstantsOK ==
  /\ Ilink \subseteq Conversation /\ Deletable \subseteq Ilink
  /\ ConversationOf \in [Message -> Conversation]
  /\ MaxConcurrent \in Nat \ {0}

ASSUME ConstantsAssumption == ConstantsOK

VARIABLES
  status,         \* status[m]: the row of inbound_messages
  primary,        \* primary[m]: the message whose turn m was steered into
  spoke,          \* messages with a row in send_attempts
  queue,          \* queue[c]: the admission queue, its head being prepared
  step,           \* step[c]: where the prepare of the head stands
  tries,          \* tries[c]: failed tries of the prepare
  slot,           \* slot[c]: the entry of #activeConversations
  highWaiters,    \* conversations waiting for a slot with live input
  lowWaiters,     \* conversations waiting for a slot with backlog
  turn,           \* turn[c]: the agent's turn
  retries,        \* #onlineRetries
  recovery,       \* recovery[c]: what #recoverConversation still has to do
  draining,       \* the deferred drain is requested or running
  stopped,        \* WeCom is stopped (#pausedChannels)
  stops           \* how often WeCom was stopped

inbox == <<status, primary, spoke>>
jobs == <<queue, step, tries, recovery>>
slots == <<slot, highWaiters, lowWaiters>>
control == <<draining, stopped, stops>>
vars == <<inbox, jobs, slots, turn, retries, control>>

-----------------------------------------------------------------------------

Received == {"received", "deferred"}
Status == {"absent", "active", "steering", "steered", "failed", "done", "gone"}
            \cup Received
Step == {"idle", "backoff", "awaiting", "admitted", "inspecting", "resolving",
         "reawaiting", "claiming", "threading", "starting", "steering"}
JobKind == {"live", "plain", "unit"}
Job == [message : Message, kind : JobKind]

NoTurn == [state |-> "none", primary |-> NoMessage, preempted |-> FALSE, held |-> FALSE]
TurnRow == [state : {"none", "starting", "running", "finishing", "untracked"},
            primary : Message \cup {NoMessage}, preempted : BOOLEAN,
            held : BOOLEAN]     \* the slot of the conversation is still its own
RecoveryRow == [at : {"next", "prepare", "turn"}, units : Seq(Message)]

TypeOK ==
  /\ status \in [Message -> Status]
  /\ primary \in [Message -> Message \cup {NoMessage}]
  /\ spoke \subseteq Message
  /\ queue \in [Conversation -> Seq(Job)]
  /\ step \in [Conversation -> Step]
  /\ tries \in [Conversation -> 0 .. MaxTries - 1]
  /\ slot \in [Conversation -> {"none", "low", "high"}]
  /\ highWaiters \in Seq(Conversation)
  /\ lowWaiters \in Seq(Conversation)
  /\ turn \in [Conversation -> TurnRow]
  /\ retries \in [Message -> 0 .. MaxRetries]
  /\ recovery \in [Conversation -> RecoveryRow]
  /\ draining \in BOOLEAN
  /\ stopped \in BOOLEAN
  /\ stops \in 0 .. MaxStops

MessagesOf(c) == {m \in Message : ConversationOf[m] = c}
InOrder(M) == CHOOSE s \in [1 .. Cardinality(M) -> M] :
                \A i, j \in 1 .. Cardinality(M) : i < j => Order[s[i]] < Order[s[j]]

Has(m, statuses) == status[m] \in statuses
Group(m) == {x \in Message : primary[x] = m /\ Has(x, {"steering", "steered"})}
Paused(c) == stopped /\ c \notin Ilink

First(c) == Head(queue[c])
Current(c) == First(c).message
IsUnit(c) == First(c).kind = "unit"

\* agent.activePrimary: the turn accepts more input.
Steerable(c) == turn[c].state \in {"starting", "running", "untracked"}
Tracked(c) == turn[c].state \in {"running", "finishing"}
\* The slot holds a tracked turn.
SlotTurn(c) == Tracked(c) /\ turn[c].held

Active(s) == {c \in Conversation : s[c] # "none"}
LowActive(s) == {c \in Conversation : s[c] = "low"}
InLine(c, waiters) == \E i \in DOMAIN waiters : waiters[i] = c
IsWaiting(c) == InLine(c, highWaiters) \/ InLine(c, lowWaiters)

\* A line without its first entry for c, and what a line keeps of the conversations C.
Without(c, waiters) ==
  LET i == CHOOSE i \in DOMAIN waiters : waiters[i] = c /\ ~ InLine(c, SubSeq(waiters, 1, i - 1))
  IN  SubSeq(waiters, 1, i - 1) \o SubSeq(waiters, i + 1, Len(waiters))
Nth(I, k) == CHOOSE i \in I : Cardinality({j \in I : j <= i}) = k
Kept(waiters, C) ==
  LET I == {i \in DOMAIN waiters : waiters[i] \in C}
  IN  [k \in 1 .. Cardinality(I) |-> waiters[Nth(I, k)]]

SetStatus(M, value) == [m \in Message |-> IF m \in M THEN value ELSE status[m]]
Detach(M) == [m \in Message |-> IF m \in M THEN NoMessage ELSE primary[m]]

\* What the customer wrote after p and nobody has taken up.
LaterInput(p) ==
  {x \in MessagesOf(ConversationOf[p]) : Order[x] > Order[p] /\ Has(x, Received)}

\* listRecoverableInbound, failed and active messages first, as
\* #recoverConversation orders its units.
Units(c, st) ==
  InOrder({m \in MessagesOf(c) : st[m] \in {"failed", "active"}})
    \o InOrder({m \in MessagesOf(c) : st[m] = "received"})

\* recover starts with the first unit at once.
RecoveryOf(units) ==
  [at |-> IF units = <<>> THEN "next" ELSE "prepare", units |-> units]
UnitJobs(units) ==
  IF units = <<>> THEN <<>> ELSE <<[message |-> Head(units), kind |-> "unit"]>>

InitialUnits(c) == IF c \in Ilink THEN Units(c, status) ELSE <<>>

\* A crash leaves messages steered into a turn with the message of that turn.
Init ==
  /\ status \in [Message -> {"absent", "failed", "active", "steering", "steered"} \cup Received]
  /\ \A m \in Live : status[m] = "absent"
  /\ primary \in [Message -> Message \cup {NoMessage}]
  /\ \A m \in Message :
       IF Has(m, {"steering", "steered"})
       THEN \E p \in MessagesOf(ConversationOf[m]) :
              primary[m] = p /\ Order[p] < Order[m] /\ Has(p, {"failed", "active"})
       ELSE primary[m] = NoMessage
  /\ spoke \in SUBSET {m \in Message : Has(m, {"failed", "active"})}
  /\ queue = [c \in Conversation |-> UnitJobs(InitialUnits(c))]
  /\ step = [c \in Conversation |-> "idle"]
  /\ tries = [c \in Conversation |-> 0]
  /\ slot = [c \in Conversation |-> "none"]
  /\ highWaiters = <<>>
  /\ lowWaiters = <<>>
  /\ turn = [c \in Conversation |-> NoTurn]
  /\ retries = [m \in Message |-> 0]
  /\ recovery = [c \in Conversation |-> RecoveryOf(InitialUnits(c))]
  /\ draining = TRUE
  /\ stopped = TRUE
  /\ stops = 0

-----------------------------------------------------------------------------
(* Slots.                                                                  *)

\* Mutant: backlog is served before live input.
WakeBacklogFirst(s, high, low) ==
  LET backlog == Active(s) = {} /\ low # <<>>
      live == Active(s) = {} /\ low = <<>> /\ high # <<>>
  IN  [slot |-> IF backlog THEN [s EXCEPT ![Head(low)] = "low"]
                ELSE IF live THEN [s EXCEPT ![Head(high)] = "high"] ELSE s,
       high |-> IF live THEN Tail(high) ELSE high,
       low |-> IF backlog THEN Tail(low) ELSE low]

\* #wakeWaiters: hand free slots to the waiters.
Wake(s, high, low) ==
  LET free == IF LowActive(s) # {} THEN 0 ELSE MaxConcurrent - Cardinality(Active(s))
      n == IF Len(high) <= free THEN Len(high) ELSE free
      live == [c \in Conversation |-> IF InLine(c, SubSeq(high, 1, n)) THEN "high" ELSE s[c]]
      rest == SubSeq(high, n + 1, Len(high))
      backlog == Active(live) = {} /\ rest = <<>> /\ low # <<>>
  IN  [slot |-> IF backlog THEN [live EXCEPT ![Head(low)] = "low"] ELSE live,
       high |-> rest,
       low |-> IF backlog THEN Tail(low) ELSE low]

Regrant(s, high, low) ==
  LET woken == Wake(s, high, low) IN
  /\ slot' = woken.slot
  /\ highWaiters' = woken.high
  /\ lowWaiters' = woken.low

\* Mutant: the next in line is not woken.
ReleaseSilently(c) ==
  slot' = [slot EXCEPT ![c] = "none"] /\ UNCHANGED <<highWaiters, lowWaiters>>

Release(c) == Regrant([slot EXCEPT ![c] = "none"], highWaiters, lowWaiters)

Busy(c) == SlotTurn(c) \/ Steerable(c)

\* Mutant: the slot is kept.
KeepSlot(c) == UNCHANGED slots

ReleaseIfInactive(c) == IF Busy(c) THEN UNCHANGED slots ELSE Release(c)

\* #preemptLow: interrupt the backlog turn of another conversation, unless it
\* has already sent something.
Preempted(c) ==
  [d \in Conversation |->
     IF d # c /\ slot[d] = "low" /\ Steerable(d) /\ turn[d].primary \notin spoke
     THEN [turn[d] EXCEPT !.preempted = TRUE] ELSE turn[d]]

\* Mutants: one conversation too many; backlog beside live input.
RoomAtLimit(priority) ==
  LowActive(slot) = {} /\ Cardinality(Active(slot)) <= MaxConcurrent
RoomForBoth(priority) ==
  LowActive(slot) = {} /\ Cardinality(Active(slot)) < MaxConcurrent

Room(priority) ==
  IF priority = "high"
  THEN LowActive(slot) = {} /\ Cardinality(Active(slot)) < MaxConcurrent
  ELSE Active(slot) = {} /\ highWaiters = <<>>

Priority(c) ==
  IF IsUnit(c) /\ \A i \in DOMAIN queue[c] : queue[c][i].kind # "live"
  THEN "low" ELSE "high"

\* #acquire: get a slot, share the slot of the running turn, wait in line, or
\* wait for a turn that takes no more input.
Acquire(c, then, again) ==
  LET priority == Priority(c) IN
  \/ /\ SlotTurn(c) /\ ~ Steerable(c)
     /\ step' = [step EXCEPT ![c] = again]
     /\ UNCHANGED <<slots, turn>>
  \/ /\ ~ SlotTurn(c) \/ Steerable(c)
     /\ slot[c] # "none"
     /\ step' = [step EXCEPT ![c] = then]
     /\ UNCHANGED <<slots, turn>>
  \/ /\ slot[c] = "none"
     /\ Room(priority)
     /\ slot' = [slot EXCEPT ![c] = priority]
     /\ step' = [step EXCEPT ![c] = then]
     /\ UNCHANGED <<highWaiters, lowWaiters, turn>>
  \/ /\ slot[c] = "none"
     /\ ~ Room(priority)
     /\ step' = [step EXCEPT ![c] = then]
     /\ highWaiters' = IF priority = "high" THEN Append(highWaiters, c) ELSE highWaiters
     /\ lowWaiters' = IF priority = "low" THEN Append(lowWaiters, c) ELSE lowWaiters
     /\ turn' = IF priority = "high" THEN Preempted(c) ELSE turn
     /\ UNCHANGED slot

-----------------------------------------------------------------------------
(* The end of a prepare.                                                   *)

\* The recovery of c goes on once the turn its unit started, or found running,
\* is over; a unit that found one is tried again.
Recovered(c, at, again) ==
  IF ~ IsUnit(c) THEN recovery
  ELSE [recovery EXCEPT ![c].at = at, ![c].units = IF again THEN @ ELSE Tail(@)]

End(c) ==
  /\ queue' = [queue EXCEPT ![c] = Tail(@)]
  /\ step' = [step EXCEPT ![c] = "idle"]
  /\ tries' = [tries EXCEPT ![c] = 0]

Finish(c) == End(c) /\ recovery' = Recovered(c, "next", FALSE)

\* An exception: the message is tried again after a pause; a recovery gives up
\* the rest of the conversation.
Fail(c, busy) ==
  \/ /\ ~ IsUnit(c) /\ ~ Paused(c) /\ tries[c] + 1 < MaxTries
     /\ step' = [step EXCEPT ![c] = "backoff"]
     /\ tries' = [tries EXCEPT ![c] = @ + 1]
     /\ UNCHANGED <<queue, recovery, slots>>
  \/ /\ IsUnit(c) \/ Paused(c) \/ tries[c] + 1 = MaxTries
     /\ End(c)
     /\ recovery' = IF IsUnit(c) THEN [recovery EXCEPT ![c] = [at |-> "next", units |-> <<>>]]
                    ELSE recovery
     /\ IF busy THEN UNCHANGED slots ELSE Release(c)

Throw(c) == Fail(c, Busy(c))

\* #admit refuses: the message and what was steered into it are suppressed.
Refuse(c) ==
  LET m == Current(c) IN
  /\ ~ Paused(c)
  /\ ~ Has(m, {"gone"})
  /\ status' = SetStatus({x \in {m} \cup Group(m) : ~ Has(x, {"done"})}, "done")
  /\ ReleaseIfInactive(c)
  /\ Finish(c)
  /\ UNCHANGED <<primary, spoke, turn, retries, control>>

\* #admit finds the channel stopped, or the row deleted.
Barred(c) ==
  \/ /\ Paused(c)
     /\ ReleaseIfInactive(c)
     /\ Finish(c)
     /\ UNCHANGED <<inbox, turn, retries, control>>
  \/ /\ Has(Current(c), {"gone"})
     /\ Throw(c)
     /\ UNCHANGED <<inbox, turn, retries, control>>
  \/ Refuse(c)

\* #admit lets the message through.
Admitted(c) == ~ Paused(c) /\ ~ Has(Current(c), {"gone", "done"})

\* Mutant: what has been answered yields too.
YieldsAnyway(c) == slot[c] = "low" /\ highWaiters # <<>>

\* #yieldToLiveInput
Yields(c) == slot[c] = "low" /\ highWaiters # <<>> /\ Current(c) \notin spoke

Yield(c) ==
  LET M == {Current(c)} \cup Group(Current(c)) IN
  /\ Admitted(c)
  /\ Yields(c)
  /\ status' = SetStatus(M, "deferred")
  /\ primary' = Detach(M)
  /\ Release(c)
  /\ turn' = [turn EXCEPT ![c].held = FALSE]
  /\ Finish(c)
  /\ UNCHANGED <<spoke, retries, control>>

-----------------------------------------------------------------------------
(* The prepare of the message at the head of a queue (#processRecoverably, *)
(* #process, #recoverPrimary and #submit).                                 *)

AtHead(c, where) == queue[c] # <<>> /\ step[c] \in where

Goto(c, where) == step' = [step EXCEPT ![c] = where]

\* The slot of c, if it needed to wait for one, has been given or given up.
Resumed(c, where) == AtHead(c, {where}) /\ ~ IsWaiting(c)

\* A message processed again waits for the interrupted turn of its conversation
\* to be over.
Starts(c) ==
  /\ AtHead(c, {"idle", "backoff"})
  /\ IsUnit(c) \/ Paused(c) \/ ~ (turn[c].preempted /\ turn[c].held)

\* Nothing is left to do for the message.
Skip(c) ==
  LET m == Current(c) IN
  /\ Starts(c)
  /\ ~ Paused(c)
  /\ ~ (IsUnit(c) /\ SlotTurn(c))
  /\ \/ ~ Has(m, Received \cup {"failed", "active"})
     \/ ~ IsUnit(c) /\ Steerable(c) /\ turn[c].primary = m
  /\ Finish(c)
  /\ UNCHANGED <<inbox, slots, turn, retries, control>>

\* The channel was stopped meanwhile.
SkipPaused(c) ==
  /\ Starts(c)
  /\ Paused(c)
  /\ ~ (IsUnit(c) /\ SlotTurn(c))
  /\ Finish(c)
  /\ IF IsUnit(c) /\ Has(Current(c), Received) THEN UNCHANGED slots ELSE ReleaseIfInactive(c)
  /\ UNCHANGED <<inbox, turn, retries, control>>

\* A recovery that finds a turn waits for it and tries the unit again.
JoinTurn(c) ==
  /\ Starts(c)
  /\ IsUnit(c)
  /\ SlotTurn(c)
  /\ End(c)
  /\ recovery' = Recovered(c, "turn", TRUE)
  /\ UNCHANGED <<inbox, slots, turn, retries, control>>

Ready(c) ==
  /\ Starts(c)
  /\ Admitted(c)
  /\ ~ (IsUnit(c) /\ SlotTurn(c))
  /\ Has(Current(c), Received \cup {"failed", "active"})
  /\ ~ (Steerable(c) /\ turn[c].primary = Current(c))

Ignore(c) ==
  /\ Ready(c)
  /\ Current(c) \in Unsupported
  /\ status' = SetStatus({Current(c)}, "done")
  /\ Finish(c)
  /\ UNCHANGED <<primary, spoke, slots, turn, retries, control>>

\* A failed message is claimed again before it is prepared.
Request(c) ==
  LET m == Current(c) IN
  /\ Ready(c)
  /\ m \notin Unsupported
  /\ \/ Refuse(c)
     \/ /\ status' = IF Has(m, {"failed"}) /\ ~ IsUnit(c)
                     THEN SetStatus({m}, "active") ELSE status
        /\ Acquire(c, "admitted", "awaiting")
        /\ UNCHANGED <<primary, spoke, queue, tries, recovery, retries, control>>

\* The turn that held the slot is over.
AcquireAgain(c) ==
  /\ AtHead(c, {"awaiting", "reawaiting"})
  /\ ~ (SlotTurn(c) /\ ~ Steerable(c))
  /\ \/ /\ Paused(c)
        /\ Throw(c)
        /\ UNCHANGED <<inbox, turn, retries, control>>
     \/ /\ ~ Paused(c)
        /\ IF step[c] = "awaiting" THEN Acquire(c, "admitted", "awaiting")
           ELSE Acquire(c, "claiming", "reawaiting")
        /\ UNCHANGED <<inbox, queue, tries, recovery, retries, control>>

\* What the slot was requested for goes on: media are resolved for a new
\* message, the thread is searched for traces of one claimed before.
Proceed(c) ==
  LET m == Current(c) IN
  /\ Resumed(c, "admitted")
  /\ \/ Barred(c)
     \/ ~ Has(m, Received) /\ Yield(c)
     \/ /\ Admitted(c)
        /\ Has(m, Received) \/ ~ Yields(c)
        /\ Goto(c, IF Has(m, Received) THEN "resolving" ELSE "inspecting")
        /\ status' = IF Has(m, {"failed"}) THEN SetStatus({m}, "active") ELSE status
        /\ UNCHANGED <<primary, spoke, queue, tries, recovery, slots, turn, retries, control>>

\* A turn the crash cut off after it had sent everything is complete.
Inspect(c) ==
  LET m == Current(c) IN
  /\ AtHead(c, {"inspecting"})
  /\ \/ Throw(c) /\ UNCHANGED <<inbox, turn, retries, control>>
     \/ Barred(c)
     \/ Yield(c)
     \/ /\ Admitted(c)
        /\ ~ Yields(c)
        /\ m \in spoke
        /\ status' = SetStatus({m} \cup Group(m) \cup (LaterInput(m) \cap Unsupported), "done")
        /\ ReleaseIfInactive(c)
        /\ Finish(c)
        /\ UNCHANGED <<primary, spoke, turn, retries, control>>
     \/ /\ Admitted(c)
        /\ ~ Yields(c)
        /\ Goto(c, "resolving")
        /\ UNCHANGED <<inbox, queue, tries, recovery, slots, turn, retries, control>>

\* Once the media are there, the message is steered into the running turn, or
\* asks (again) for a slot to start one.
Resolve(c) ==
  LET m == Current(c) IN
  /\ AtHead(c, {"resolving"})
  /\ \/ Throw(c) /\ UNCHANGED <<inbox, turn, retries, control>>
     \/ Barred(c)
     \/ /\ Admitted(c)
        /\ Steerable(c)
        /\ Has(m, Received)
        /\ Has(turn[c].primary, {"active"})
        /\ status' = SetStatus({m}, "steering")
        /\ primary' = [primary EXCEPT ![m] = turn[c].primary]
        /\ Goto(c, "steering")
        /\ UNCHANGED <<spoke, queue, tries, recovery, slots, turn, retries, control>>
     \/ /\ Admitted(c)
        /\ ~ Steerable(c)
        /\ Acquire(c, "claiming", "reawaiting")
        /\ UNCHANGED <<inbox, queue, tries, recovery, retries, control>>

Claim(c) ==
  LET m == Current(c) IN
  /\ Resumed(c, "claiming")
  /\ \/ /\ Paused(c)
        /\ Throw(c)
        /\ UNCHANGED <<inbox, turn, retries, control>>
     \/ ~ Paused(c) /\ Barred(c)
     \/ Yield(c)
     \/ /\ Admitted(c)
        /\ ~ Yields(c)
        /\ status' = SetStatus({m}, "active")
        /\ Goto(c, "threading")
        /\ UNCHANGED <<primary, spoke, queue, tries, recovery, slots, turn, retries, control>>

\* ensureThread is back: the turn is submitted.
Submit(c) ==
  /\ AtHead(c, {"threading"})
  /\ \/ Throw(c) /\ UNCHANGED <<inbox, turn, retries, control>>
     \/ Barred(c)
     \/ Yield(c)
     \/ /\ Admitted(c)
        /\ ~ Yields(c)
        /\ turn[c] = NoTurn
        /\ turn' = [turn EXCEPT ![c].state = "starting", ![c].primary = Current(c)]
        /\ Goto(c, "starting")
        /\ UNCHANGED <<inbox, queue, tries, recovery, slots, retries, control>>

\* The agent has started the turn, or could not.  A turn whose message was
\* deleted meanwhile runs on untracked.
Start(c) ==
  LET m == Current(c) IN
  /\ AtHead(c, {"starting"})
  /\ \/ /\ turn' = [turn EXCEPT ![c] = NoTurn]
        /\ Fail(c, FALSE)
        /\ UNCHANGED <<inbox, retries, control>>
     \/ /\ Has(m, {"gone"})
        /\ turn' = [turn EXCEPT ![c].state = "untracked"]
        /\ Throw(c)
        /\ UNCHANGED <<inbox, retries, control>>
     \/ /\ Has(m, {"active"})
        /\ status' = SetStatus({x \in Group(m) : Has(x, {"steering"})}, "steered")
        /\ turn' = LET preempted == IF highWaiters = <<>> THEN turn
                                    ELSE Preempted(Head(highWaiters))
                   IN  [preempted EXCEPT ![c].state = "running",
                                           ![c].held = slot[c] # "none"]
        /\ End(c)
        /\ recovery' = Recovered(c, "turn", FALSE)
        /\ UNCHANGED <<primary, spoke, slots, retries, control>>

\* The agent has taken the message in, or refused it.
Steer(c) ==
  LET m == Current(c) IN
  /\ AtHead(c, {"steering"})
  /\ \/ /\ Has(m, {"steering"})
        /\ status' = SetStatus({m}, "steered")
        /\ Finish(c)
        /\ UNCHANGED <<primary, spoke, slots, turn, retries, control>>
     \/ /\ IF Has(m, {"steering"})
           THEN status' = SetStatus({m}, "received") /\ primary' = Detach({m})
           ELSE UNCHANGED <<status, primary>>
        /\ Throw(c)
        /\ UNCHANGED <<spoke, turn, retries, control>>

-----------------------------------------------------------------------------
(* The agent's turns.                                                      *)

\* A tool call of the turn leaves its row in send_attempts.
Speak(c) ==
  /\ Tracked(c)
  /\ Has(turn[c].primary, {"active"})
  /\ spoke' = spoke \cup {turn[c].primary}
  /\ UNCHANGED <<status, primary, jobs, slots, turn, retries, control>>

\* The run is over; its outcome is being collected.
FinishRun(c) ==
  /\ turn[c].state = "running"
  /\ turn' = [turn EXCEPT ![c].state = "finishing"]
  /\ UNCHANGED <<inbox, jobs, slots, retries, control>>

\* The interrupt of #preemptLow came too late or between two runs of the turn.
MissInterrupt(c) ==
  /\ turn[c].preempted
  /\ turn' = [turn EXCEPT ![c].preempted = FALSE]
  /\ UNCHANGED <<inbox, jobs, slots, retries, control>>

UntrackedEnds(c) ==
  /\ turn[c].state = "untracked"
  /\ turn' = [turn EXCEPT ![c] = NoTurn]
  /\ UNCHANGED <<inbox, jobs, slots, retries, control>>

\* The tracked completion of a turn gives the slot back and lets the recovery
\* that waits for it go on.
Over(c) ==
  /\ turn' = [turn EXCEPT ![c] = NoTurn]
  /\ recovery' = IF recovery[c].at = "turn"
                 THEN [recovery EXCEPT ![c].at = "next"] ELSE recovery
  /\ IF turn[c].held THEN Release(c) ELSE UNCHANGED slots

\* #complete and #finalizeAttempts: the turn sent something, or decided not to.
\* Unsupported input that arrived meanwhile is ignored.
Complete(c) ==
  LET p == turn[c].primary IN
  /\ turn[c].state = "finishing"
  /\ p \in spoke
  /\ Has(p, {"active", "done"})
  /\ \A x \in Group(p) : ~ Has(x, {"steering"})
  /\ status' = SetStatus({p} \cup Group(p) \cup (LaterInput(p) \cap Unsupported), "done")
  /\ Over(c)
  /\ UNCHANGED <<primary, spoke, queue, step, tries, retries, control>>

\* A failed turn is not repeated once the customer has written again; nor is a
\* silent one, for which only supported input counts and the rest is ignored.
Supersede(c) ==
  LET p == turn[c].primary
      later == LaterInput(p) IN
  /\ Tracked(c)
  /\ \/ /\ ~ turn[c].preempted
        /\ later # {}
        /\ status' = SetStatus({p} \cup Group(p), "done")
     \/ /\ turn[c].state = "finishing"
        /\ later \ Unsupported # {}
        /\ status' = SetStatus({p} \cup Group(p) \cup (later \cap Unsupported), "done")
  /\ Over(c)
  /\ UNCHANGED <<primary, spoke, queue, step, tries, retries, control>>

\* The approval a turn waited for was answered with "cancel", expired or was
\* invalidated; only iLink turns ask for one.
Cancel(c) ==
  LET p == turn[c].primary IN
  /\ c \in Ilink
  /\ Tracked(c)
  /\ ~ turn[c].preempted
  /\ status' = SetStatus({x \in {p} \cup Group(p) : ~ Has(x, {"done", "gone"})}, "done")
  /\ Over(c)
  /\ UNCHANGED <<primary, spoke, queue, step, tries, retries, control>>

\* Mutant: one retry too many.
RetriesLeftAtLimit(p) == retries[p] <= MaxRetries

RetriesLeft(p) == retries[p] < MaxRetries

\* #track: a turn that failed is prepared again a bounded number of times.
FailTurn(c) ==
  LET p == turn[c].primary
      again == RetriesLeft(p) IN
  /\ Tracked(c)
  /\ ~ turn[c].preempted
  /\ LaterInput(p) \subseteq IF turn[c].state = "finishing" THEN Unsupported ELSE {}
  /\ ~ Has(p, {"done"})
  /\ status' = [m \in Message |-> IF m = p /\ Has(p, {"active"}) THEN "failed"
                                  ELSE IF m \in LaterInput(p) THEN "done" ELSE status[m]]
  /\ retries' = IF again THEN [retries EXCEPT ![p] = @ + 1] ELSE retries
  /\ queue' = IF again /\ ~ Has(p, {"gone"})
              THEN [queue EXCEPT ![c] = Append(@, [message |-> p, kind |-> "plain"])]
              ELSE queue
  /\ Over(c)
  /\ UNCHANGED <<primary, spoke, step, tries, control>>

\* The interrupt succeeded: the backlog goes back to the inbox, unless it has
\* sent something by now.
Preempt(c) ==
  LET p == turn[c].primary
      M == {x \in {p} \cup Group(p) : ~ Has(x, {"done", "gone"})} IN
  /\ Tracked(c)
  /\ turn[c].preempted
  /\ IF p \in spoke
     THEN status' = SetStatus({p} \cap M, "failed") /\ UNCHANGED primary
     ELSE status' = SetStatus(M, "deferred") /\ primary' = Detach(M)
  /\ Over(c)
  /\ UNCHANGED <<spoke, queue, step, tries, retries, control>>

-----------------------------------------------------------------------------
(* Live input, recovery and the operator.                                  *)

Arrived(m) == ~ Has(m, {"absent", "gone"})
Arrivable(m) ==
  /\ Has(m, {"absent"})
  /\ ~ Paused(ConversationOf[m])
  /\ \A x \in MessagesOf(ConversationOf[m]) : Order[x] < Order[m] => Arrived(x)

\* Mutant: the place among the backlog is kept.
PromotedTwice(c) ==
  LET s == IF slot[c] = "low" THEN [slot EXCEPT ![c] = "high"] ELSE slot
  IN  Wake(s, IF InLine(c, lowWaiters) THEN Append(highWaiters, c) ELSE highWaiters, lowWaiters)

\* #promote: the slot or the place in line of a conversation with live input
\* becomes a live one.
Promoted(c) ==
  LET s == IF slot[c] = "low" THEN [slot EXCEPT ![c] = "high"] ELSE slot
  IN  IF InLine(c, lowWaiters)
      THEN Wake(s, Append(highWaiters, c), Without(c, lowWaiters))
      ELSE IF slot[c] # "none" THEN Wake(s, highWaiters, lowWaiters)
      ELSE [slot |-> s, high |-> highWaiters, low |-> lowWaiters]

\* enqueue of a delivered message.  A newer iLink message absorbs those still
\* waiting; WeCom enqueues all that wait in the conversation.
Arrive(m) ==
  LET c == ConversationOf[m]
      st == [x \in Message |->
               IF x = m THEN "received"
               ELSE IF x \in MessagesOf(c) /\ Has(x, Received)
               THEN (IF c \in Ilink THEN "done" ELSE "received") ELSE status[x]]
      enqueued == InOrder({x \in MessagesOf(c) : st[x] = "received"})
      job(x) == [message |-> x, kind |-> IF x \in Unsupported THEN "plain" ELSE "live"]
      live == \E i \in DOMAIN enqueued : enqueued[i] \notin Unsupported IN
  /\ m \in Live
  /\ Arrivable(m)
  /\ status' = st
  /\ queue' = [queue EXCEPT ![c] = @ \o [i \in DOMAIN enqueued |-> job(enqueued[i])]]
  /\ IF live
     THEN /\ slot' = Promoted(c).slot
          /\ highWaiters' = Promoted(c).high
          /\ lowWaiters' = Promoted(c).low
          /\ turn' = IF InLine(c, lowWaiters) /\ slot'[c] = "none" THEN Preempted(c) ELSE turn
     ELSE UNCHANGED <<slots, turn>>
  /\ UNCHANGED <<primary, spoke, step, tries, recovery, retries, control>>

\* A message the provider held back while the worker was down comes in as
\* backlog, and the drain is requested.
ArriveDeferred(m) ==
  /\ m \notin Live
  /\ Arrivable(m)
  /\ status' = SetStatus({m}, "deferred")
  /\ draining' = TRUE
  /\ UNCHANGED <<primary, spoke, jobs, slots, turn, retries, stopped, stops>>

\* #recoverConversation schedules its next unit.
RecoverNext(c) ==
  /\ recovery[c].at = "next"
  /\ recovery[c].units # <<>>
  /\ recovery' = [recovery EXCEPT ![c].at = "prepare"]
  /\ queue' = [queue EXCEPT ![c] = @ \o UnitJobs(recovery[c].units)]
  /\ UNCHANGED <<inbox, step, tries, slots, turn, retries, control>>

Recovering(c) == recovery[c].at # "next" \/ recovery[c].units # <<>>

\* waitForChannelIdle looks at queues, recoveries and slots; waitForIdle and
\* isIdle see the turns that run without a slot too.
Idle(c) == queue[c] = <<>> /\ ~ Recovering(c) /\ slot[c] = "none"
AllIdle == \A c \in Conversation : Idle(c) /\ ~ Tracked(c)

Deferred(c) == {m \in MessagesOf(c) : Has(m, {"deferred"})}

\* drainDeferred: one conversation at a time, when nothing else is going on.
Drain(c) ==
  LET st == [m \in Message |-> IF m \in Deferred(c) THEN "received" ELSE status[m]]
      units == InOrder({m \in MessagesOf(c) : st[m] = "received"}) IN
  /\ draining
  /\ AllIdle
  /\ ~ Paused(c)
  /\ Deferred(c) # {}
  /\ status' = st
  /\ recovery' = [recovery EXCEPT ![c] = RecoveryOf(units)]
  /\ queue' = [queue EXCEPT ![c] = UnitJobs(units)]
  /\ UNCHANGED <<primary, spoke, step, tries, slots, turn, retries, control>>

\* Mutant: the drain does not wait for the backlog that still runs.
StopDrainEarly ==
  /\ draining
  /\ \A c \in Conversation : Paused(c) \/ Deferred(c) = {}
  /\ draining' = FALSE
  /\ UNCHANGED <<inbox, jobs, slots, turn, retries, stopped, stops>>

StopDrain ==
  /\ draining
  /\ AllIdle
  /\ \A c \in Conversation : Paused(c) \/ Deferred(c) = {}
  /\ draining' = FALSE
  /\ UNCHANGED <<inbox, jobs, slots, turn, retries, stopped, stops>>

\* setChannelEnabled(wechat_kf, false): the waiters of the channel go on without
\* a slot.
StopWecom ==
  /\ ~ stopped
  /\ stops < MaxStops
  /\ stopped' = TRUE
  /\ stops' = stops + 1
  /\ Regrant(slot, Kept(highWaiters, Ilink), Kept(lowWaiters, Ilink))
  /\ UNCHANGED <<inbox, jobs, turn, retries, draining>>

\* A start waits until the channel is idle (closeWecom, waitForChannelIdle) and
\* recovers what it finds in the inbox.
StartWecom ==
  /\ stopped
  /\ \A c \in Conversation \ Ilink : Idle(c)
  /\ stopped' = FALSE
  /\ draining' = TRUE
  /\ recovery' = [c \in Conversation |->
       IF c \in Ilink THEN recovery[c] ELSE RecoveryOf(Units(c, status))]
  /\ queue' = [c \in Conversation |->
       IF c \in Ilink THEN queue[c] ELSE UnitJobs(Units(c, status))]
  /\ UNCHANGED <<inbox, step, tries, slots, turn, retries, stops>>

\* deleteAccountCompletely, while the processor works on the conversation.
Delete(c) ==
  /\ c \in Deletable
  /\ \E m \in MessagesOf(c) : Arrived(m)
  /\ status' = SetStatus(MessagesOf(c), "gone")
  /\ UNCHANGED <<primary, spoke, jobs, slots, turn, retries, control>>

-----------------------------------------------------------------------------

Prepare(c) ==
  \/ Skip(c)
  \/ SkipPaused(c)
  \/ JoinTurn(c)
  \/ Ignore(c)
  \/ Request(c)
  \/ AcquireAgain(c)
  \/ Proceed(c)
  \/ Inspect(c)
  \/ Resolve(c)
  \/ Claim(c)
  \/ Submit(c)
  \/ Start(c)
  \/ Steer(c)

EndTurn(c) ==
  \/ Complete(c)
  \/ Supersede(c)
  \/ Cancel(c)
  \/ FailTurn(c)
  \/ Preempt(c)
  \/ UntrackedEnds(c)

DrainStep == StopDrain \/ \E c \in Conversation : Drain(c)

Next ==
  \/ \E c \in Conversation :
       \/ Prepare(c)
       \/ Speak(c)
       \/ FinishRun(c)
       \/ MissInterrupt(c)
       \/ EndTurn(c)
       \/ RecoverNext(c)
       \/ Drain(c)
       \/ Delete(c)
  \/ \E m \in Message : Arrive(m) \/ ArriveDeferred(m)
  \/ StopDrain
  \/ StopWecom
  \/ StartWecom

Spec == Init /\ [][Next]_vars

\* Every awaited call of a prepare settles, every turn ends, and the drain goes
\* on; customers and operators owe nothing.
Fairness ==
  /\ \A c \in Conversation :
       WF_vars(Prepare(c)) /\ WF_vars(EndTurn(c)) /\ WF_vars(RecoverNext(c))
  /\ WF_vars(DrainStep)
LiveSpec == Spec /\ Fairness

-----------------------------------------------------------------------------
(* Properties.                                                             *)

\* No more conversations work at once than configured, and backlog never works
\* beside anything else, however slots are promoted, shared, released and
\* handed on.
BacklogRunsAlone ==
  /\ Cardinality(Active(slot)) <= MaxConcurrent
  /\ LowActive(slot) # {} => Cardinality(Active(slot)) = 1

\* Backlog is given a slot only when no live input waits for one and no other
\* conversation works (architecture.md: live traffic receives agent concurrency
\* first).
BacklogFirst == \E c \in Conversation :
  slot[c] # "low" /\ slot'[c] = "low" /\ (highWaiters' # <<>> \/ Active(slot') # {c})
LiveInputFirst == [][~BacklogFirst]_vars

\* Nobody waits while there is room: no release, promotion, stop or failure
\* forgets to wake the next in line.
NoLostWakeup ==
  /\ highWaiters # <<>> =>
       LowActive(slot) # {} \/ Cardinality(Active(slot)) = MaxConcurrent
  /\ lowWaiters # <<>> => Active(slot) # {} \/ highWaiters # <<>>

\* The slots are given out as they are: to everybody there is room for, and to nobody else.
WaitersAreServed == BacklogRunsAlone /\ NoLostWakeup

\* A conversation stands in line at most once, and only while it holds no slot.
OnePlaceInLine ==
  \A c \in Conversation :
    LET line == highWaiters \o lowWaiters IN
    /\ \A i, j \in DOMAIN line : line[i] = line[j] => i = j
    /\ IsWaiting(c) => slot[c] = "none" /\ step[c] \in {"admitted", "claiming"}

\* A slot never outlives the work it was given for: a prepare is under way that
\* will use or release it, or a tracked turn will (waitForIdle and isIdle rely on
\* it).  Not once the account was deleted, nor once a slot was given away under its
\* turn: the next message takes a slot, is steered into the turn, and leaves it.
SlotsAreOwned ==
  \A c \in Conversation : slot[c] # "none" =>
    SlotTurn(c) \/ (queue[c] # <<>> /\ step[c] # "idle")

\* The turns that run stay within the configured concurrency
\* (docs/plans/2026-09-06-project-simplification.md:47: respect capacity).
TurnsWithinCapacity ==
  Cardinality({c \in Conversation : turn[c].state # "none"}) <= MaxConcurrent

\* What was answered, even partly, never goes back to the inbox as if it were
\* new: neither preemption nor a failed steering replays it.
AnsweredNeverReplayed ==
  \A m \in Message : m \in spoke => ~ Has(m, Received)

\* Every message that is enqueued is worked on: no conversation waits for ever
\* for its slot, for a turn or for another conversation.
EveryJobEnds ==
  \A c \in Conversation : queue[c] # <<>> ~> queue[c] = <<>>

\* Backlog that gave way to live input comes back, unless WeCom stays stopped.
BacklogComesBack ==
  \A m \in Message : Has(m, {"deferred"}) ~> ~ Has(m, {"deferred"}) \/ stopped

\* A deleted account leaves nothing behind that keeps the processor busy
\* (architecture.md: deleting the last running account also closes the runtime,
\* which asks isIdle).
DeletedBecomesIdle ==
  \A c \in Conversation :
    (\A m \in MessagesOf(c) : Has(m, {"gone"})) ~> Idle(c)
=============================================================================
