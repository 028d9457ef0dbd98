------------------------------ MODULE KfOutbox ------------------------------
(***************************************************************************)
(* What Kintio sends to WeChat KF: tool calls of a turn, the notice that a  *)
(* conversation is queued and the confirmation of an authorization          *)
(* (src/src/mcp/wechat-kf-executor.ts, the send_attempts transactions of    *)
(* src/src/state/sqlite-store.ts and their callers in                      *)
(* src/src/services/conversation-processor.ts).                            *)
(*                                                                         *)
(* A tool call prepares its media, then reserves and claims its send in one *)
(* transaction; notices and confirmations are only reserved and a drain     *)
(* sends them.  Either hands the payload to the provider and records what   *)
(* became of it.  The provider may report later that it could not deliver.  *)
(*                                                                         *)
(* Abstractions.  'processing' and 'preparing' are "active"; a message is   *)
(* its place in the inbox (inbox_seq); 'uncertain' with the error code      *)
(* startup_recovery is "interrupted".  Payloads, media and retention are    *)
(* left out, as are steering that fails and backlog that is deferred        *)
(* (modules ReplyWindow and Admission).                                    *)
(***************************************************************************)
EXTENDS Naturals, Sequences, FiniteSets

CONSTANTS
  Messages,       \* customer messages: 1 .. Messages, in the order of the inbox
  Peer, Account,  \* customers and customer-service accounts
  PeerOf,         \* [1 .. Messages -> Peer]
  AccountOf,      \* [1 .. Messages -> Account]
  Trigger,        \* messages whose text is the authorization trigger
  Known,          \* peers authorized before
  Required,       \* consecutive triggers that authorize, 3 by default
  Budget,         \* sends for a message, 5
  Call,           \* tool calls that run at the same time
  Waits,          \* messages that may find no free slot
  Closes,         \* the executor may be closed
  MaxSessions,    \* bound on the sessions of a message
  MaxExpiries,    \* bound on sessions that expire
  MaxInterrupts,  \* bound on turns that end under a running tool call
  MaxReports,     \* bound on reported delivery failures
  MaxCrashes      \* bound on crashes

Message == 1 .. Messages

ConstantsOK ==
  /\ Messages \in Nat
  /\ PeerOf \in [Message -> Peer] /\ AccountOf \in [Message -> Account]
  /\ Required \in Nat \ {0} /\ Budget \in Nat \ {0}
  /\ Waits \subseteq Message /\ Trigger \subseteq Message /\ Closes \in BOOLEAN
  /\ MaxSessions \in Nat /\ MaxExpiries \in Nat /\ MaxInterrupts \in Nat /\ MaxCrashes \in Nat

VARIABLES
  status,         \* status[m]: the row of inbound_messages
  primary,        \* primary[m]: the message whose turn m was steered into, or 0
  session,        \* session[m]: the newest agent session of m
  attempts,       \* the rows of send_attempts in the order of their creation
  failures,       \* attempts whose message id is in delivery_failures
  authorization,  \* authorization[p]: the row of authorizations
  turn,           \* messages with a running agent turn
  call,           \* call[k]: a tool call under way
  drain,          \* #draining: where #runDrain stands
  rerun,          \* #rerun
  closed,         \* #closed: "open", "closing" (close waits for the drain) or "closed"
  kickDue,        \* the kick that follows a start has not come yet
  posts,          \* posts[a]: how often attempt a was handed to the provider (history)
  taken,          \* attempts the provider accepted
  passed,         \* pending attempts a drain passed over (history)
  evaluated,      \* evaluated[p]: messages of p that were evaluated (history)
  expiries, interrupts, crashes

inbox == <<status, primary, session, authorization, evaluated>>
executor == <<drain, rerun, closed, kickDue, passed>>
provider == <<failures, taken>>
bounds == <<expiries, interrupts, crashes>>
vars == <<inbox, attempts, provider, turn, call, executor, posts, bounds>>

-----------------------------------------------------------------------------

Status == {"absent", "received", "active", "steered", "ready", "failed",
           "completed", "absorbed", "ignored", "suppressed"}
Source == {"mcp_tool", "queue_notice", "authorization"}
InFlight == {"pending", "sending"}
Terminal == {"accepted", "failed", "uncertain", "interrupted"}
Attempt == [message : Message, source : Source, status : InFlight \cup Terminal,
            direction : 0 .. Messages]
Verdict == {"none", "accepted", "rejected"}

NoSession == [serial |-> 0, boundary |-> 0, state |-> "closed"]
NoCall == [at |-> "idle", message |-> 0, serial |-> 0, attempt |-> 0, verdict |-> "none"]
NoDrain == [at |-> "off", attempt |-> 0, verdict |-> "none"]

TypeOK ==
  /\ status \in [Message -> Status]
  /\ primary \in [Message -> 0 .. Messages]
  /\ session \in [Message -> [serial : 0 .. MaxSessions, boundary : 0 .. Messages,
                              state : {"open", "expired", "closed"}]]
  /\ attempts \in Seq(Attempt)
  /\ failures \subseteq taken /\ taken \subseteq DOMAIN attempts
  /\ authorization \in [Peer -> [authorized : BOOLEAN, streak : 0 .. Required,
                                 account : Account \cup {0}]]
  /\ turn \subseteq Message
  /\ call \in [Call -> [at : {"idle", "preparing", "sending", "answered"},
                        message : 0 .. Messages, serial : 0 .. MaxSessions,
                        attempt : {0} \cup DOMAIN attempts, verdict : Verdict]]
  /\ drain \in [at : {"off", "sending", "answered", "looping", "returned", "ended"},
                attempt : {0} \cup DOMAIN attempts, verdict : Verdict]
  /\ rerun \in BOOLEAN
  /\ closed \in {"open", "closing", "closed"}
  /\ kickDue \in BOOLEAN
  /\ posts \in [DOMAIN attempts -> Nat]
  /\ passed \subseteq DOMAIN attempts
  /\ evaluated \in [Peer -> Seq(Message)]
  /\ expiries \in 0 .. MaxExpiries
  /\ interrupts \in 0 .. MaxInterrupts
  /\ crashes \in 0 .. MaxCrashes

\* The messages of m's conversation.
Dialog(m) == {x \in Message : PeerOf[x] = PeerOf[m] /\ AccountOf[x] = AccountOf[m]}
Has(m, statuses) == status[m] \in statuses
AttemptsOf(m, att) == {a \in DOMAIN att : att[a].message = m}
With(att, st) == {a \in DOMAIN att : att[a].status = st}
Group(m) == {x \in Message : primary[x] = m /\ status[x] = "steered"}
\* The newest message the turn of m has taken up.
Newest(m) == CHOOSE x \in Group(m) \cup {m} : \A y \in Group(m) \cup {m} : y <= x
SetStatus(M, value) == [m \in Message |-> IF m \in M THEN value ELSE status[m]]

\* Mutant: what the peer earned is not looked at.
AuthorizedBefore(m) == PeerOf[m] \in Known
Authorized(m) == PeerOf[m] \in Known \/ authorization[PeerOf[m]].authorized

\* Mutant: one send too many.
WithinBudgetAtLimit(m) == Cardinality(AttemptsOf(m, attempts)) <= Budget
WithinBudget(m) == Cardinality(AttemptsOf(m, attempts)) < Budget

\* #validatedAgentSession, of the session with this serial of message m.
Valid(m, serial) ==
  /\ session[m].serial = serial /\ session[m].state = "open"
  /\ Has(m, {"active"})
  /\ ~ \E x \in Dialog(m) : x > session[m].boundary /\ ~Has(x, {"absent", "ignored"})
  /\ WithinBudget(m)

Live == {"received", "active", "ready", "steered", "failed"}
Newer(m) == {x \in Dialog(m) : x > m /\ Has(x, Live)}
\* What #settleSourceMessage asks of m itself, with these attempts and sessions.
Ended(att, ses, m) ==
  /\ Has(m, {"ready", "active"})
  /\ \A a \in AttemptsOf(m, att) : att[a].status \notin InFlight
  /\ ses[m].state # "open"

\* Mutant: sends under way do not count.
SettleEarly(att, m) ==
  IF Has(m, {"ready", "active"}) /\ session[m].state # "open"
  THEN SetStatus({m}, "completed") ELSE status

\* #settleSourceMessage after the attempts became att.
Settle(att, m) ==
  IF Ended(att, session, m) /\ Newer(m) = {} THEN SetStatus({m}, "completed") ELSE status

\* #insertAttempt, as the last row.
Insert(m, source, st, direction) ==
  /\ posts' = Append(posts, 0)
  /\ attempts' = Append(attempts, [message |-> m, source |-> source, status |-> st,
                                   direction |-> direction])

-----------------------------------------------------------------------------
(* The drain. *)

\* What beginNextSend may claim: the oldest pending attempt of a conversation
\* with no send under way.
Claimable(att) ==
  {a \in With(att, "pending") :
     ~ \E b \in With(att, "sending") : att[b].message \in Dialog(att[a].message)}

\* #drain goes on, or returns when there is nothing to claim.
Drain(att) ==
  IF closed = "closed" \/ Claimable(att) = {}
  THEN /\ drain' = [NoDrain EXCEPT !.at = "returned"]
       /\ attempts' = att
       /\ passed' = passed \cup With(att, "pending")
  ELSE LET a == CHOOSE a \in Claimable(att) : \A b \in Claimable(att) : a <= b
       IN  /\ drain' = [NoDrain EXCEPT !.at = "sending", !.attempt = a]
           /\ attempts' = [att EXCEPT ![a].status = "sending"]
           /\ UNCHANGED passed

\* kick: one drain runs at a time, and runs again when it was kicked meanwhile.
Kick(att) ==
  IF closed = "closed" THEN attempts' = att /\ UNCHANGED <<drain, rerun, passed>>
  ELSE IF drain.at # "off"
  THEN rerun' = TRUE /\ attempts' = att /\ UNCHANGED <<drain, passed>>
  ELSE rerun' = FALSE /\ Drain(att)

DrainNext ==
  /\ drain.at = "looping"
  /\ Drain(attempts)
  /\ UNCHANGED <<inbox, provider, turn, call, rerun, closed, kickDue, posts,
                 bounds>>

\* #runDrain after #drain returned.
DrainReturned ==
  /\ drain.at = "returned"
  /\ IF rerun /\ closed # "closed"
     THEN rerun' = FALSE /\ Drain(attempts)
     ELSE drain' = [NoDrain EXCEPT !.at = "ended"] /\ UNCHANGED <<rerun, attempts, passed>>
  /\ UNCHANGED <<inbox, provider, turn, call, closed, kickDue, posts, bounds>>

\* Mutant: the finally only clears #draining.
DrainEndedForGood ==
  /\ drain.at = "ended"
  /\ drain' = NoDrain
  /\ UNCHANGED <<inbox, attempts, provider, turn, call, rerun, closed, kickDue, passed, posts,
                 bounds>>

\* The finally of kick: #draining is cleared and a kick that came too late for
\* #runDrain starts another.
DrainEnded ==
  /\ drain.at = "ended"
  /\ IF rerun /\ closed # "closed"
     THEN rerun' = FALSE /\ Drain(attempts)
     ELSE drain' = NoDrain /\ UNCHANGED <<rerun, attempts, passed>>
  /\ UNCHANGED <<inbox, provider, turn, call, closed, kickDue, posts, bounds>>

\* The kick that follows the recovery at a start.
StartupKick ==
  /\ kickDue
  /\ kickDue' = FALSE
  /\ Kick(attempts)
  /\ UNCHANGED <<inbox, provider, turn, call, closed, posts, bounds>>

\* close: a last kick, and no claim after it.
BeginClose ==
  /\ Closes /\ closed = "open" /\ ~kickDue
  /\ closed' = "closing"
  /\ Kick(attempts)
  /\ UNCHANGED <<inbox, provider, turn, call, kickDue, posts, bounds>>
FinishClose ==
  /\ closed = "closing" /\ drain.at = "off"
  /\ closed' = "closed"
  /\ UNCHANGED <<inbox, attempts, provider, turn, call, drain, rerun, kickDue, passed,
                 posts, bounds>>
\* abort, when the runtime is torn down.
Abort ==
  /\ Closes /\ closed # "closed" /\ ~kickDue
  /\ closed' = "closed" /\ rerun' = FALSE
  /\ UNCHANGED <<inbox, attempts, provider, turn, call, drain, kickDue, passed, posts,
                 bounds>>

-----------------------------------------------------------------------------
(* Transmission. *)

\* Mutant: earlier reports are not looked up.
FinishedBlindly(a, outcome) == [attempts EXCEPT ![a].status = outcome]

\* completeSend, failSend or markSendUncertain of attempt a.
Finished(a, outcome) ==
  [attempts EXCEPT ![a].status =
     IF outcome = "accepted" /\ a \in failures THEN "failed" ELSE outcome]
Finish(a, outcome) ==
  /\ attempts' = Finished(a, outcome)
  /\ status' = Settle(Finished(a, outcome), attempts[a].message)
  /\ UNCHANGED <<primary, session, authorization, evaluated>>

\* What sendPreparedMessage comes to.  An answer may get lost, the request too;
\* without an access token the refusal is definitive.
Outcome(flow) ==
  {"uncertain"} \cup (CASE flow.verdict = "accepted" -> {"accepted"}
                        [] OTHER -> {"failed"})

\* The provider takes the message or refuses it.
Post(a, verdict) ==
  /\ posts' = [posts EXCEPT ![a] = @ + 1]
  /\ taken' = IF verdict = "accepted" THEN taken \cup {a} ELSE taken
CallPosted(k) ==
  /\ call[k].at = "sending"
  /\ \E v \in {"accepted", "rejected"} :
       /\ Post(call[k].attempt, v)
       /\ call' = [call EXCEPT ![k].at = "answered", ![k].verdict = v]
  /\ UNCHANGED <<inbox, attempts, failures, turn, executor, bounds>>
DrainPosted ==
  /\ drain.at = "sending"
  /\ \E v \in {"accepted", "rejected"} :
       /\ Post(drain.attempt, v)
       /\ drain' = [drain EXCEPT !.at = "answered", !.verdict = v]
  /\ UNCHANGED <<inbox, attempts, failures, turn, call, rerun, closed, kickDue, passed,
                 bounds>>

CallReturns(k) ==
  /\ call[k].at \in {"sending", "answered"}
  /\ \E o \in Outcome(call[k]) : Finish(call[k].attempt, o)
  /\ call' = [call EXCEPT ![k] = NoCall]
  /\ UNCHANGED <<provider, turn, executor, posts, bounds>>
DrainReturns ==
  /\ drain.at \in {"sending", "answered"}
  /\ \E o \in Outcome(drain) : Finish(drain.attempt, o)
  /\ drain' = [NoDrain EXCEPT !.at = "looping"]
  /\ UNCHANGED <<provider, turn, call, rerun, closed, kickDue, passed, posts, bounds>>

\* #systemEvent, msg_send_fail: before or after the answer to the send itself.
DeliveryFails(a) ==
  /\ a \in taken
  /\ Cardinality(failures \cup {a}) <= MaxReports
  /\ failures' = failures \cup {a}
  /\ attempts' = [attempts EXCEPT ![a].status = IF @ = "accepted" THEN "failed" ELSE @]
  /\ UNCHANGED <<inbox, taken, turn, call, executor, posts, bounds>>

-----------------------------------------------------------------------------
(* Tool calls. *)

\* execute, up to the media that #payload prepares.
Execute(k, m) ==
  /\ call[k].at = "idle"
  /\ m \in turn
  /\ Valid(m, session[m].serial)
  /\ call' = [call EXCEPT ![k] = [NoCall EXCEPT !.at = "preparing", !.message = m,
                                                !.serial = session[m].serial]]
  /\ UNCHANGED <<inbox, attempts, provider, turn, executor, posts, bounds>>

\* Mutant: the session was valid when the media was prepared.
ReserveUnchecked(k) ==
  LET m == call[k].message IN
  /\ call[k].at = "preparing" /\ WithinBudget(m)
  /\ Insert(m, "mcp_tool", "sending", Newest(m))
  /\ call' = [call EXCEPT ![k].at = "sending", ![k].attempt = Len(attempts) + 1]
  /\ UNCHANGED <<inbox, provider, turn, executor, bounds>>

\* reserveAgentSend: the session is validated again, the send inserted and claimed.
Reserve(k) ==
  LET m == call[k].message IN
  /\ call[k].at = "preparing"
  /\ Valid(m, call[k].serial)
  /\ Insert(m, "mcp_tool", "sending", Newest(m))
  /\ call' = [call EXCEPT ![k].at = "sending", ![k].attempt = Len(attempts) + 1]
  /\ UNCHANGED <<inbox, provider, turn, executor, bounds>>

\* The media cannot be prepared, or the session went stale meanwhile.
Refuse(k) ==
  /\ call[k].at = "preparing"
  /\ call' = [call EXCEPT ![k] = NoCall]
  /\ UNCHANGED <<inbox, attempts, provider, turn, executor, posts, bounds>>

-----------------------------------------------------------------------------
(* Messages and turns. *)

Arrive(m) ==
  /\ status[m] = "absent"
  /\ \A x \in Message : x < m => status[x] # "absent"
  /\ status' = [status EXCEPT ![m] = "received"]
  /\ UNCHANGED <<primary, session, authorization, evaluated, attempts, provider, turn, call,
                 executor, posts, bounds>>

\* Mutant: triggers in another account count.
StreakAnywhere(m) ==
  IF m \notin Trigger THEN 0 ELSE authorization[PeerOf[m]].streak + 1

\* evaluateAuthorization: Required triggers in a row, in one account, authorize.
Streak(m) ==
  LET auth == authorization[PeerOf[m]] IN
  IF m \notin Trigger THEN 0
  ELSE (IF auth.account = AccountOf[m] THEN auth.streak ELSE 0) + 1
Evaluate(m) ==
  /\ status[m] = "received" /\ ~Authorized(m)
  /\ authorization' = [authorization EXCEPT ![PeerOf[m]] =
       [authorized |-> Streak(m) >= Required, streak |-> Streak(m), account |-> AccountOf[m]]]
  /\ evaluated' = [evaluated EXCEPT ![PeerOf[m]] = Append(@, m)]
  /\ IF Streak(m) >= Required
     THEN /\ status' = [status EXCEPT ![m] = "ready"]
          /\ posts' = Append(posts, 0)
          /\ Kick(Append(attempts, [message |-> m, source |-> "authorization",
                                    status |-> "pending", direction |-> 0]))
     ELSE /\ status' = [status EXCEPT ![m] = "ignored"]
          /\ UNCHANGED <<attempts, posts, drain, rerun, passed>>
  /\ UNCHANGED <<primary, session, provider, turn, call, closed, kickDue, bounds>>

\* #notifyQueued: a message that waits for a slot gets one notice.
QueueNotice(m) ==
  /\ m \in Waits /\ status[m] = "received" /\ Authorized(m)
  /\ turn \cap Dialog(m) = {}
  /\ AttemptsOf(m, attempts) = {}
  /\ posts' = Append(posts, 0)
  /\ Kick(Append(attempts, [message |-> m, source |-> "queue_notice",
                            status |-> "pending", direction |-> 0]))
  /\ UNCHANGED <<inbox, provider, turn, call, closed, kickDue, bounds>>

\* createAgentSession closes the sessions of the conversation and opens one.
Open(m, boundary) ==
  /\ session[m].serial < MaxSessions
  /\ session' = [x \in Message |->
       IF x = m THEN [serial |-> session[m].serial + 1, boundary |-> boundary, state |-> "open"]
       ELSE IF x \in Dialog(m) /\ session[x].state = "open"
       THEN [session[x] EXCEPT !.state = "closed"] ELSE session[x]]

\* claimInbound and the start of a turn, the first or a later one.
StartTurn(m) ==
  /\ Has(m, {"received", "failed", "active"}) /\ Authorized(m)
  /\ turn \cap Dialog(m) = {}
  /\ \A x \in Dialog(m) : x < m => ~Has(x, {"received", "failed", "active"})
  /\ Open(m, Newest(m))
  /\ status' = [status EXCEPT ![m] = "active"]
  /\ turn' = turn \cup {m}
  /\ UNCHANGED <<primary, authorization, evaluated, attempts, provider, call, executor, posts,
                 bounds>>

\* beginInboundSteering to confirmInboundSteered: the turn takes up x.
Steer(p, x) ==
  /\ p \in turn /\ status[p] = "active"
  /\ x \in Dialog(p) /\ x > p /\ status[x] = "received"
  /\ Open(p, x)
  /\ status' = [status EXCEPT ![x] = "steered"]
  /\ primary' = [primary EXCEPT ![x] = p]
  /\ UNCHANGED <<authorization, evaluated, attempts, provider, turn, call, executor, posts,
                 bounds>>

\* fifteen minutes passed since the session was created.
SessionExpires(m) ==
  /\ session[m].state = "open"
  /\ expiries < MaxExpiries /\ expiries' = expiries + 1
  /\ session' = [session EXCEPT ![m].state = "expired"]
  /\ UNCHANGED <<status, primary, authorization, evaluated, attempts, provider, turn, call,
                 executor, posts, interrupts,
                 crashes>>

\* #finalizeAttempts and finalizeAgentExecution: every tool send has ended, and
\* one answers the newest message of the group.
Sends(m) == {a \in AttemptsOf(m, attempts) : attempts[a].source = "mcp_tool"}
\* Mutant: any answer will do.
AnsweredAtAll(m) == Sends(m) # {}
Answered(m) == \E a \in Sends(m) : attempts[a].direction = Newest(m)
Finalize(m) ==
  /\ m \in turn
  /\ Answered(m)
  /\ \A a \in Sends(m) : attempts[a].status \in Terminal
  /\ Has(m, {"active", "ready", "completed"})
  /\ status' = [x \in Message |-> CASE x = m -> "completed"
                                    [] x \in Group(m) -> "absorbed"
                                    [] OTHER -> status[x]]
  /\ session' = [session EXCEPT ![m].state = "closed"]
  /\ turn' = turn \ {m}
  /\ UNCHANGED <<primary, authorization, evaluated, attempts, provider, call, executor, posts,
                 bounds>>

\* #suppressGroup: what has not ended is given up, its pending sends too.
Suppress(m) ==
  /\ status' = SetStatus({x \in Message : (x = m \/ primary[x] = m)
                            /\ ~Has(x, {"completed", "ignored", "absorbed"})}, "suppressed")
  /\ attempts' = [a \in DOMAIN attempts |->
       IF attempts[a].message = m /\ attempts[a].status = "pending"
       THEN [attempts[a] EXCEPT !.status = "failed"] ELSE attempts[a]]
Superseded(m) == \E x \in Dialog(m) : x > m /\ status[x] = "received"

\* #complete without a send: a message that arrived meanwhile takes over.
Supersede(m) ==
  /\ m \in turn /\ Superseded(m)
  /\ Suppress(m)
  /\ turn' = turn \ {m}
  /\ UNCHANGED <<primary, session, authorization, evaluated, provider, call, executor, posts,
                 bounds>>

\* The turn fails, or its result cannot be finalized (#track).
Busy(m) == \E k \in Call : call[k].message = m
TurnFails(m) ==
  /\ m \in turn
  /\ IF Busy(m) THEN interrupts < MaxInterrupts /\ interrupts' = interrupts + 1
     ELSE UNCHANGED interrupts
  /\ turn' = turn \ {m}
  /\ IF Has(m, {"completed", "ignored", "suppressed", "absorbed"})
     THEN UNCHANGED <<status, session, attempts>>
     ELSE /\ session' = [session EXCEPT ![m].state = "closed"]
          /\ IF Superseded(m) THEN Suppress(m)
             ELSE /\ status' = [status EXCEPT ![m] = IF @ = "active" THEN "failed" ELSE @]
                  /\ UNCHANGED attempts
  /\ UNCHANGED <<primary, authorization, evaluated, provider, call, executor, posts, expiries,
                 crashes>>

\* The process dies and starts again: recoverStartup.
\* Mutant: what was being sent is sent again.
RecoveredPending ==
  [a \in DOMAIN attempts |-> IF attempts[a].status = "sending"
     THEN [attempts[a] EXCEPT !.status = "pending"] ELSE attempts[a]]
Recovered ==
  [a \in DOMAIN attempts |-> IF attempts[a].status = "sending"
     THEN [attempts[a] EXCEPT !.status = "interrupted"] ELSE attempts[a]]
\* What settling the sources of interrupted sends one after the other, in whatever order,
\* may complete: a message only once nothing newer of its conversation is left.
Completions(ses) ==
  LET ended == {m \in {Recovered[a].message : a \in With(Recovered, "interrupted")} :
                  Ended(Recovered, ses, m)}
  IN  {M \in SUBSET ended :
         \A m \in ended : IF m \in M THEN Newer(m) \subseteq M ELSE Newer(m) # {}}
Restart ==
  /\ crashes < MaxCrashes /\ crashes' = crashes + 1
  /\ session' = [m \in Message |-> [session[m] EXCEPT !.state = "closed"]]
  /\ attempts' = Recovered
  /\ \E M \in Completions(session') : status' = SetStatus(M, "completed")
  /\ turn' = {} /\ call' = [k \in Call |-> NoCall]
  /\ drain' = NoDrain /\ rerun' = FALSE /\ closed' = "open" /\ kickDue' = TRUE
  /\ UNCHANGED <<primary, authorization, evaluated, provider, passed, posts, expiries,
                 interrupts>>

-----------------------------------------------------------------------------

Init ==
  /\ status = [m \in Message |-> "absent"]
  /\ primary = [m \in Message |-> 0]
  /\ session = [m \in Message |-> NoSession]
  /\ attempts = <<>> /\ posts = <<>>
  /\ failures = {} /\ taken = {} /\ passed = {}
  /\ authorization = [p \in Peer |-> [authorized |-> FALSE, streak |-> 0, account |-> 0]]
  /\ evaluated = [p \in Peer |-> <<>>]
  /\ turn = {}
  /\ call = [k \in Call |-> NoCall]
  /\ drain = NoDrain /\ rerun = FALSE /\ closed = "open"
  /\ kickDue = FALSE     \* the first kick finds nothing
  /\ expiries = 0 /\ interrupts = 0 /\ crashes = 0

Transmission ==
  \/ DrainNext \/ DrainReturned \/ DrainEnded \/ StartupKick
  \/ DrainPosted \/ DrainReturns
  \/ \E k \in Call : CallPosted(k) \/ CallReturns(k)
Next ==
  \/ Transmission
  \/ BeginClose \/ FinishClose \/ Abort \/ Restart
  \/ \E a \in DOMAIN attempts : DeliveryFails(a)
  \/ \E k \in Call : Reserve(k) \/ Refuse(k) \/ \E m \in Message : Execute(k, m)
  \/ \E m \in Message :
       \/ Arrive(m) \/ Evaluate(m) \/ QueueNotice(m) \/ StartTurn(m) \/ SessionExpires(m)
       \/ Finalize(m) \/ Supersede(m) \/ TurnFails(m)
       \/ \E x \in Message : Steer(m, x)

Spec == Init /\ [][Next]_vars

\* The API call of a send times out, so every send that began comes to an end.
Fairness ==
  /\ WF_vars(DrainNext) /\ WF_vars(DrainReturned) /\ WF_vars(DrainEnded)
  /\ WF_vars(StartupKick) /\ WF_vars(DrainReturns)
  /\ \A k \in Call : WF_vars(CallReturns(k))
LiveSpec == Spec /\ Fairness

-----------------------------------------------------------------------------
(* Properties.                                                             *)

\* Nothing is handed to the provider twice, whatever crashes, drains and tool
\* calls come together (docs/architecture.md: a send whose result is unknown "is
\* not retried automatically").
HandedOverOnce == \A a \in DOMAIN posts : posts[a] <= 1

\* A reported delivery failure is never lost on a send that counts as accepted,
\* whichever of the report and the answer comes first.
ReportedFailureSticks == \A a \in failures : attempts[a].status # "accepted"

\* A message never has more sends than the provider permits, notices and
\* confirmations included.
SendBudget == \A m \in Message : Cardinality(AttemptsOf(m, attempts)) <= Budget

\* A send starts only for a running message that nothing newer of the customer
\* has overtaken, however long its media took to prepare.
SendOvertaken ==
  \E a \in DOMAIN attempts' \ DOMAIN attempts :
    /\ attempts'[a].source = "mcp_tool"
    /\ LET m == attempts'[a].message IN
       \/ status[m] # "active"
       \/ \E x \in Dialog(m) : x > Newest(m) /\ ~Has(x, {"absent", "ignored"})
SendsAreCurrent == [][~SendOvertaken]_vars

\* No message is completed while a tool send of it is under way: neither a settled
\* sibling, an expired session, a finalization nor a restart closes it early.
CompletedIsSettled ==
  \A m \in Message : Has(m, {"completed"}) => \A a \in Sends(m) : attempts[a].status \in Terminal

\* A message steered into a turn is only put away with a send that was made after
\* the turn took it up.
AbsorbedIsAnswered ==
  \A x \in Message : Has(x, {"absorbed"}) =>
    \E a \in Sends(primary[x]) : attempts[a].direction >= x

\* No message is put away unanswered, neither while a send of it is under way nor with a send
\* that was made before the turn took it up.
AnsweredBeforePutAway == CompletedIsSettled /\ AbsorbedIsAnswered

\* No kick is lost: while no drain runs, what is pending was passed over by a drain
\* because a send of the same conversation was under way.
NoLostKick ==
  drain.at = "off" /\ closed # "closed" /\ ~kickDue => With(attempts, "pending") \subseteq passed

\* What may be sent is sent: no more than the provider permits, and nothing that a drain never
\* came past.
OutboxIsServed == SendBudget /\ NoLostKick

\* A peer is authorized by Required triggers in a row, in one account.
AuthorizedByStreak ==
  \A p \in Peer : authorization[p].authorized =>
    LET s == evaluated[p] IN
    /\ Len(s) >= Required
    /\ \A i \in Len(s) - Required + 1 .. Len(s) :
         s[i] \in Trigger /\ AccountOf[s[i]] = AccountOf[s[Len(s)]]

\* What is reserved for the drain is sent or given up, unless the executor closes
\* or the process dies for good.
ReservedIsSent ==
  \A a \in 1 .. Messages :
    a \in With(attempts, "pending") ~> a \notin With(attempts, "pending") \/ closed = "closed"
=============================================================================
