---------------------------- MODULE ReplyWindow ----------------------------
(***************************************************************************)
(* The WeChat iLink reply-window ledger of one account and its one peer    *)
(* (src/src/ilink/sqlite-store.ts with the rows it shares with the core    *)
(* store, src/src/state/sqlite-store.ts).                                  *)
(*                                                                         *)
(* Every customer message opens a reply window: a context token that lets  *)
(* the bot send at most MaxSends messages while the window is the newest   *)
(* one of the conversation and has not expired.  A send is a row of        *)
(* send_attempts; it is reserved in the window ("pending"), then started   *)
(* ("sending"), then settled by the answer of the network.  Windows,       *)
(* attempts, agent sessions and inbox rows are tied together by counters   *)
(* and statuses that many transactions update; each transaction is one     *)
(* action here.  Transactions are synchronous, so they interleave freely   *)
(* and never overlap.                                                      *)
(*                                                                         *)
(* Abstractions.  A window is named by its source message (the column is   *)
(* UNIQUE).  The inbox statuses 'processing' and 'preparing', which every  *)
(* guard of this component treats alike, are the one status "active".      *)
(* Expiry is an event: lapsed holds the open windows whose expires_at has  *)
(* passed.  Creating an agent session closes the others of the             *)
(* conversation, and every query treats closed and expired ones alike, so  *)
(* the variable session is the one token that still validates.             *)
(***************************************************************************)
EXTENDS Naturals, FiniteSets, Sequences

CONSTANTS
  Message,        \* customer messages the provider may deliver
  NoMessage,      \* stands for a NULL message reference
  Attempt,        \* rows of send_attempts
  MaxSends,       \* ILINK_REPLY_WINDOW_MAX_SENDS
  SystemKind,     \* the notices sent: "queue_notice", "agent_approval"
  MaxGeneration,  \* bound on account rotations
  ProviderSeq,    \* [Message -> Nat]: the provider's sequence, 0 when absent
  SentAt,         \* [Message -> Nat]: the provider's timestamp
  NumericId,      \* [Message -> Nat]: number in 'message:<n>', 0 when absent
  Page            \* the pages of messages a poll may return

ASSUME MessageAssumption == NoMessage \notin Message
ASSUME MaxSendsAssumption == MaxSends \in Nat \ {0}
ASSUME SystemKindAssumption == SystemKind \subseteq {"queue_notice", "agent_approval"}
ASSUME MaxGenerationAssumption == MaxGeneration \in Nat \ {0}
ASSUME PageAssumption == Page \subseteq Seq(Message)

VARIABLES
  phase,          \* "running", or "recovered" half-way through a restart
  account,        \* the row of ilink_accounts
  inbox,          \* inbox[m]: the row of inbound_messages
  lastSeq,        \* the AUTOINCREMENT counter behind inbox_seq
  window,         \* window[m]: the row of ilink_reply_windows of source m
  session,        \* the usable row of agent_sessions, or NoSession
  attempt,        \* attempt[a]: the row of send_attempts; the field sent is
                  \* history: it tells whether a was ever handed to the network
  lapsed          \* windows past their expires_at

vars == <<phase, account, inbox, lastSeq, window, session, attempt, lapsed>>

-----------------------------------------------------------------------------
(* Rows.                                                                   *)

LiveStatus == {"received", "active", "steering", "steered", "failed"}
TerminalStatus == {"completed", "absorbed", "suppressed", "ignored"}
InboundStatus == {"absent"} \cup LiveStatus \cup TerminalStatus

PastState == {"superseded", "closed", "cancelled", "deleted"}
WindowState == {"none", "open"} \cup PastState

SettledState == {"accepted", "failed", "uncertain"}
RowState == {"pending", "sending"} \cup SettledState
AttemptState == {"none", "deleted"} \cup RowState

\* The error codes that finalizeAgentExecution leaves out of the window budget
\* (abandoned_before_transmit, cancelled_before_transmit, reply_window_expired,
\* reply_quota_exhausted) are one code here.
AttemptCode == {"none", "not_transmitted", "startup_recovery"}

AttemptKind == {"none", "mcp_tool", "queue_notice", "agent_approval"}

NoInbound == [status |-> "absent", seq |-> 0, primary |-> NoMessage]
NoWindow == [state |-> "none", generation |-> 0, reserved |-> 0, transmitted |-> 0]
NoSession == [source |-> NoMessage, boundary |-> NoMessage]
NoAttempt == [state |-> "none", code |-> "none", kind |-> "none", sent |-> FALSE,
              source |-> NoMessage, window |-> NoMessage]

InboundRow == [status : InboundStatus, seq : Nat, primary : Message \cup {NoMessage}]
WindowRow == [state : WindowState, generation : Nat, reserved : Nat, transmitted : Nat]
SessionRow == [source : Message, boundary : Message]
AttemptRow == [state : AttemptState, code : AttemptCode, kind : AttemptKind,
               sent : BOOLEAN, source : Message \cup {NoMessage},
               window : Message \cup {NoMessage}]

TypeOK ==
  /\ phase \in {"running", "recovered"}
  /\ account \in [active : BOOLEAN, generation : Nat]
  /\ inbox \in [Message -> InboundRow]
  /\ lastSeq \in Nat
  /\ window \in [Message -> WindowRow]
  /\ session \in SessionRow \cup {NoSession}
  /\ attempt \in [Attempt -> AttemptRow]
  /\ lapsed \subseteq Message

Init ==
  /\ phase = "running"
  /\ account = [active |-> TRUE, generation |-> 1]
  /\ inbox = [m \in Message |-> NoInbound]
  /\ lastSeq = 0
  /\ window = [m \in Message |-> NoWindow]
  /\ session = NoSession
  /\ attempt = [a \in Attempt |-> NoAttempt]
  /\ lapsed = {}

-----------------------------------------------------------------------------
(* Derived rows.                                                           *)

Has(m, statuses) == inbox[m].status \in statuses

OpenWindows == {m \in Message : window[m].state = "open"}
OpenWindow == IF OpenWindows = {} THEN NoMessage
              ELSE CHOOSE m \in OpenWindows : TRUE

AttemptsIn(w, states) ==
  {a \in Attempt : attempt[a].window = w /\ attempt[a].state \in states}
AttemptsOf(m, states) ==
  {a \in Attempt : attempt[a].source = m /\ attempt[a].state \in states}

Pending(w) == AttemptsIn(w, {"pending"})

\* The attempts that count against the budget of window w.
Charged(w) ==
  {a \in AttemptsIn(w, RowState) : attempt[a].code # "not_transmitted"}

\* History: the attempts handed to the network in window w.
Spent(w) == {a \in Attempt : attempt[a].window = w /\ attempt[a].sent}

Sending == {a \in Attempt : attempt[a].state = "sending"}

Group(m) == {x \in Message : inbox[x].primary = m /\ Has(x, {"steering", "steered"})}

Later(m, statuses) ==
  {x \in Message : inbox[x].seq > inbox[m].seq /\ Has(x, statuses)}

\* Mutant: the code of a released attempt is lost.
SetAttemptsWithoutCode(A, state, code) ==
  [a \in Attempt |-> IF a \in A THEN [attempt[a] EXCEPT !.state = state] ELSE attempt[a]]

SetAttempts(A, state, code) ==
  [a \in Attempt |-> IF a \in A THEN [attempt[a] EXCEPT !.state = state, !.code = code]
                     ELSE attempt[a]]

\* A deleted row leaves its history only.
DeleteAttempts(A) ==
  [a \in Attempt |-> IF a \in A /\ attempt[a].state # "none"
                     THEN [NoAttempt EXCEPT !.state = "deleted", !.sent = attempt[a].sent,
                                            !.window = attempt[a].window]
                     ELSE attempt[a]]

\* Mutants: the session is forgotten, or keeps its row.
CloseNoSession(condition) == session' = session
CloseHalfASession(condition) ==
  session' = IF condition THEN [session EXCEPT !.boundary = NoMessage] ELSE session

CloseSessionIf(condition) == session' = IF condition THEN NoSession ELSE session

-----------------------------------------------------------------------------
(* Polled pages: commitPollPage and #insertReplyWindow.                    *)

\* entryIsNewer: is polled message m newer than the open window of message w?
EntryIsNewer(m, w, samePage) ==
  IF ProviderSeq[m] # 0 /\ ProviderSeq[w] # 0 /\ ProviderSeq[m] # ProviderSeq[w]
  THEN ProviderSeq[m] > ProviderSeq[w]
  ELSE IF SentAt[m] # SentAt[w]
  THEN SentAt[m] > SentAt[w]
  ELSE IF (ProviderSeq[m] = 0) # (ProviderSeq[w] = 0)
          \/ NumericId[m] = 0 \/ NumericId[w] = 0
  THEN samePage
  ELSE NumericId[m] > NumericId[w]

Fresh(page) == {i \in DOMAIN page : ~ Has(page[i], InboundStatus \ {"absent"})}

\* Mutant: the last message of the page wins.
OpenedByTheLast(page) ==
  IF Fresh(page) = {} THEN OpenWindow
  ELSE page[CHOOSE i \in Fresh(page) : \A j \in Fresh(page) : j <= i]

\* The message that owns the open window after the entries of the page have
\* been inserted one by one.
OpenedBy(page) ==
  LET Owner[i \in 0 .. Len(page)] ==
        IF i = 0 THEN OpenWindow
        ELSE IF /\ i \in Fresh(page)
                /\ \/ Owner[i-1] = NoMessage
                   \/ EntryIsNewer(page[i], Owner[i-1], Owner[i-1] # OpenWindow)
        THEN page[i]
        ELSE Owner[i-1]
  IN  Owner[Len(page)]

\* Mutants: a new window opens beside the old one; a page absorbs the owner.
RetiredNone(owner, fresh) == {}
MergedAlways(owner, fresh) == {m \in Message : Has(m, {"received"})}

\* The windows that give way, and the waiting messages that are merged into the
\* new owner, when the page brings one.
Retired(owner, fresh) == IF owner \in fresh THEN OpenWindows ELSE {}
Merged(owner, fresh) == {m \in Message : owner \in fresh /\ Has(m, {"received"})}

\* Only the owner of the open window is delivered; the rest of the page is
\* absorbed by it.
CommitPollPage(page, owner) ==
  LET fresh == {page[i] : i \in Fresh(page)}
      seq(m) == lastSeq + (CHOOSE i \in Fresh(page) : page[i] = m)
      retired == Retired(owner, fresh)
  IN
  /\ phase = "running"
  /\ account.active
  /\ owner = OpenedBy(page)
  /\ fresh # {}
  /\ lastSeq' = lastSeq + Len(page)
  /\ inbox' = [m \in Message |->
       IF m \in fresh
       THEN [status |-> IF m = owner THEN "received" ELSE "absorbed",
             seq |-> seq(m), primary |-> NoMessage]
       ELSE IF m \in Merged(owner, fresh)
       THEN [inbox[m] EXCEPT !.status = "absorbed"]
       ELSE inbox[m]]
  /\ window' = [m \in Message |->
       IF m \in fresh
       THEN [state |-> IF m = owner THEN "open" ELSE "superseded",
             generation |-> account.generation, reserved |-> 0, transmitted |-> 0]
       ELSE IF m \in retired
       THEN [window[m] EXCEPT !.state = "superseded", !.reserved = 0]
       ELSE window[m]]
  /\ attempt' = SetAttempts(UNION {Pending(w) : w \in retired}, "failed", "none")
  /\ CloseSessionIf(session.boundary \in retired)
  /\ UNCHANGED <<phase, account, lapsed>>

-----------------------------------------------------------------------------
(* Account changes.                                                        *)

\* rotateAccount: a confirmed login renews the token and the generation.
RotateAccount ==
  /\ phase = "running"
  /\ account.active
  /\ account.generation < MaxGeneration
  /\ account' = [account EXCEPT !.generation = @ + 1]
  /\ attempt' = SetAttempts(UNION {Pending(w) : w \in OpenWindows}, "failed", "none")
  /\ CloseSessionIf(session.boundary \in OpenWindows)
  /\ window' = [m \in Message |->
       IF m \in OpenWindows
       THEN [window[m] EXCEPT !.state = "cancelled", !.reserved = 0]
       ELSE window[m]]
  /\ UNCHANGED <<phase, inbox, lastSeq, lapsed>>

\* deleteAccountCompletely: every row of the account goes.
DeleteAccount ==
  /\ phase = "running"
  /\ account.active
  /\ account' = [account EXCEPT !.active = FALSE]
  /\ inbox' = [m \in Message |-> NoInbound]
  /\ window' = [m \in Message |-> IF window[m].state = "none" THEN window[m]
                                   ELSE [NoWindow EXCEPT !.state = "deleted"]]
  /\ session' = NoSession
  /\ attempt' = DeleteAttempts(Attempt)
  /\ UNCHANGED <<phase, lastSeq, lapsed>>

-----------------------------------------------------------------------------
(* The conversation's own transitions of inbox rows and sessions.          *)

SetInbox(M, status) ==
  [m \in Message |-> IF m \in M THEN [inbox[m] EXCEPT !.status = status] ELSE inbox[m]]

Requeue(M) ==
  [m \in Message |-> IF m \in M
     THEN [inbox[m] EXCEPT !.status = "received", !.primary = NoMessage] ELSE inbox[m]]

\* claimInbound
ClaimInbound(m) ==
  /\ phase = "running"
  /\ Has(m, {"received", "failed"})
  /\ inbox' = SetInbox({m}, "active")
  /\ UNCHANGED <<phase, account, lastSeq, window, session, attempt, lapsed>>

\* beginInboundSteering: the message joins the running turn of primary p.
BeginInboundSteering(m, p) ==
  /\ phase = "running"
  /\ Has(m, {"received"})
  /\ Has(p, {"active"})
  /\ inbox' = [inbox EXCEPT ![m].status = "steering", ![m].primary = p]
  /\ UNCHANGED <<phase, account, lastSeq, window, session, attempt, lapsed>>

\* confirmInboundSteered, or requeueInboundSteering when the agent refused it.
EndInboundSteering(m) ==
  /\ phase = "running"
  /\ Has(m, {"steering"})
  /\ inbox' \in {SetInbox({m}, "steered"), Requeue({m})}
  /\ UNCHANGED <<phase, account, lastSeq, window, session, attempt, lapsed>>

\* failInbound: a member whose steering started before the turn had an id
\* (codex_turn_id is '') goes back to the inbox.
FailInbound(m, unacknowledged) ==
  /\ phase = "running"
  /\ Has(m, {"active"})
  /\ unacknowledged \subseteq {x \in Group(m) : Has(x, {"steering"})}
  /\ inbox' = [x \in Message |-> IF x = m THEN [inbox[x] EXCEPT !.status = "failed"]
                                 ELSE Requeue(unacknowledged)[x]]
  /\ UNCHANGED <<phase, account, lastSeq, window, session, attempt, lapsed>>

\* deferActiveInbound: a backlog turn that has sent nothing yields to live input.
DeferActiveInbound(m) ==
  /\ phase = "running"
  /\ \A a \in AttemptsOf(m, RowState) : attempt[a].kind = "agent_approval"
  /\ Has(m, {"active", "failed"})
  /\ inbox' = Requeue({m} \cup Group(m))
  /\ CloseSessionIf(session.source = m)
  /\ UNCHANGED <<phase, account, lastSeq, window, attempt, lapsed>>

\* markInboundIgnored
MarkInboundIgnored(m) ==
  /\ phase = "running"
  /\ Has(m, {"received"})
  /\ inbox' = SetInbox({m}, "ignored")
  /\ UNCHANGED <<phase, account, lastSeq, window, session, attempt, lapsed>>

\* suppressInbound: pending attempts fail, but their reservation stays.
SuppressInbound(m) ==
  /\ phase = "running"
  /\ Has(m, LiveStatus)
  /\ inbox' = SetInbox({x \in {m} \cup Group(m) : Has(x, LiveStatus)}, "suppressed")
  /\ attempt' = SetAttempts(AttemptsOf(m, {"pending"}), "failed", "none")
  /\ UNCHANGED <<phase, account, lastSeq, window, session, lapsed>>

\* createAgentSession for primary m bound to the window of message b; the open
\* sessions of the conversation close.
CreateAgentSession(m, b) ==
  /\ phase = "running"
  /\ Has(m, {"active"})
  /\ window[b].state = "open"
  /\ b \notin lapsed
  /\ session' = [source |-> m, boundary |-> b]
  /\ UNCHANGED <<phase, account, inbox, lastSeq, window, attempt, lapsed>>

\* closeAgentSessions, closeAgentSession, or the passing of expires_at.
CloseAgentSession ==
  /\ session # NoSession
  /\ session' = NoSession
  /\ UNCHANGED <<phase, account, inbox, lastSeq, window, attempt, lapsed>>

-----------------------------------------------------------------------------
(* Sends.                                                                  *)

SessionActive ==
  /\ session # NoSession
  /\ Has(session.source, {"active"})
  /\ account.active
  /\ account.generation = window[session.boundary].generation

\* #validateSessionWindow
SessionWindowValid ==
  /\ SessionActive
  /\ session.boundary \notin lapsed
  /\ window[session.boundary].state = "open"

\* Mutants: notices pass a send under way; one send too many.
NoToolSending == \A a \in Sending : attempt[a].kind # "mcp_tool"
QuotaLeftAtLimit(w) == window[w].reserved + window[w].transmitted <= MaxSends

\* The conversation has one send on its way at most.
NothingSending == Sending = {}

QuotaLeft(w) == window[w].reserved + window[w].transmitted < MaxSends

NewAttempt(a, state, code, kind, m, w) ==
  /\ attempt[a].state = "none"
  /\ attempt' = [attempt EXCEPT ![a] =
       [state |-> state, code |-> code, kind |-> kind,
        sent |-> (state = "sending"), source |-> m, window |-> w]]

\* prepareReplyAttempt reserves a send in the window of the session ...
PrepareReplyAttempt(a) ==
  LET w == session.boundary IN
  /\ phase = "running"
  /\ SessionWindowValid
  /\ QuotaLeft(w)
  /\ NewAttempt(a, "pending", "none", "mcp_tool", session.source, w)
  /\ window' = [window EXCEPT ![w].reserved = @ + 1]
  /\ UNCHANGED <<phase, account, inbox, lastSeq, session, lapsed>>

\* ... or records why the window refuses it.
RejectReplyAttempt(a) ==
  LET w == session.boundary IN
  /\ phase = "running"
  /\ \/ SessionActive /\ w \in lapsed
     \/ SessionWindowValid /\ ~ QuotaLeft(w)
  /\ NewAttempt(a, "failed", "not_transmitted", "mcp_tool", session.source, w)
  /\ UNCHANGED <<phase, account, inbox, lastSeq, window, session, lapsed>>

\* startReplyAttempt: the reservation becomes a transmission.
StartReplyAttempt(a) ==
  LET w == session.boundary IN
  /\ phase = "running"
  /\ SessionWindowValid
  /\ attempt[a].state = "pending"
  /\ attempt[a].window = w
  /\ NothingSending
  /\ window[w].reserved > 0
  /\ window[w].reserved + window[w].transmitted <= MaxSends
  /\ attempt' = [attempt EXCEPT ![a].state = "sending", ![a].sent = TRUE]
  /\ window' = [window EXCEPT ![w].reserved = @ - 1, ![w].transmitted = @ + 1]
  /\ UNCHANGED <<phase, account, inbox, lastSeq, session, lapsed>>

\* Mutant: the counter of the window is forgotten.
ReleaseRowOnly(a) ==
  /\ phase = "running"
  /\ attempt[a].state = "pending"
  /\ attempt' = SetAttempts({a}, "failed", "not_transmitted")
  /\ UNCHANGED <<phase, account, inbox, lastSeq, window, session, lapsed>>

\* releasePendingAttempt: a call that cannot go on gives its reservation back.
ReleasePendingAttempt(a) ==
  LET w == attempt[a].window IN
  /\ phase = "running"
  /\ attempt[a].state = "pending"
  /\ window[w].reserved > 0
  /\ attempt' = SetAttempts({a}, "failed", "not_transmitted")
  /\ window' = [window EXCEPT ![w].reserved = @ - 1]
  /\ UNCHANGED <<phase, account, inbox, lastSeq, session, lapsed>>

\* reserveStartedSystemAttempt: a queue or approval notice in the window of m.
ReserveStartedSystemAttempt(m, a, kind) ==
  /\ phase = "running"
  /\ window[m].state = "open"
  /\ account.active
  /\ account.generation = window[m].generation
  /\ m \notin lapsed
  /\ QuotaLeft(m)
  /\ NothingSending
  /\ NewAttempt(a, "sending", "none", kind, m, m)
  /\ window' = [window EXCEPT ![m].transmitted = @ + 1]
  /\ UNCHANGED <<phase, account, inbox, lastSeq, session, lapsed>>

\* #settleSourceMessage, once live are the unsettled attempts of m.
Settles(m, live) ==
  /\ Has(m, {"active"})
  /\ live = {}
  /\ session.source # m
  /\ Later(m, LiveStatus) = {}

\* completeSend, failSend and markSendUncertain.
FinishSend(a, state) ==
  LET m == attempt[a].source
      live == AttemptsOf(m, {"pending", "sending"}) \ {a} IN
  /\ phase = "running"
  /\ attempt[a].state = "sending"
  /\ attempt' = SetAttempts({a}, state, "none")
  /\ inbox' = SetInbox({x \in {m} : Settles(x, live)}, "completed")
  /\ UNCHANGED <<phase, account, lastSeq, window, session, lapsed>>

\* The newest message the turn of m has taken in.
Direction(m) ==
  CHOOSE x \in {m} \cup Group(m) : \A y \in {m} \cup Group(m) : inbox[y].seq <= inbox[x].seq

ToolAttempts(m) == {a \in AttemptsOf(m, RowState) : attempt[a].kind = "mcp_tool"}

WithinBudget(m) ==
  \A w \in Message : Cardinality(Charged(w) \cap ToolAttempts(m)) <= MaxSends

\* #finalizeAttempts and finalizeAgentExecution: the turn of m is complete.
FinalizeAgentExecution(m) ==
  /\ phase = "running"
  /\ Has(m, {"active", "completed"})
  /\ ~ \E x \in Group(m) : Has(x, {"steering"})
  /\ \E a \in ToolAttempts(m) : attempt[a].window = Direction(m)
  /\ \A a \in ToolAttempts(m) : attempt[a].state \in SettledState
  /\ WithinBudget(m)
  /\ inbox' = [x \in Message |->
       IF x = m THEN [inbox[x] EXCEPT !.status = "completed"]
       ELSE IF x \in Group(m) THEN [inbox[x] EXCEPT !.status = "absorbed"]
       ELSE inbox[x]]
  /\ CloseSessionIf(session.source = m)
  /\ UNCHANGED <<phase, account, lastSeq, window, attempt, lapsed>>

-----------------------------------------------------------------------------
(* Time, retention and restarts.                                           *)

ExpireWindow(w) ==
  /\ window[w].state = "open"
  /\ w \notin lapsed
  /\ lapsed' = lapsed \cup {w}
  /\ UNCHANGED <<phase, account, inbox, lastSeq, window, session, attempt>>

\* Mutant: reserved sends are not looked at.
ClosableReserved == {w \in lapsed : window[w].state = "open" /\ ~ Has(w, LiveStatus)}

\* Expired windows nobody works for.
Closable ==
  {w \in lapsed : /\ window[w].state = "open"
                  /\ ~ Has(w, LiveStatus)
                  /\ AttemptsIn(w, {"pending", "sending"}) = {}}

\* cleanup, hourly and first thing at a start.  old holds the settled attempts
\* past the retention of 30 days, which outlasts every window.
Cleanup(old) ==
  /\ phase = "running"
  /\ old \subseteq {a \in Attempt : /\ attempt[a].state \in {"accepted", "failed"}
                                    /\ \/ attempt[a].window \in lapsed
                                       \/ window[attempt[a].window].state # "open"}
  /\ attempt' = DeleteAttempts(old)
  /\ window' = [w \in Message |-> IF w \in Closable
                  THEN [window[w] EXCEPT !.state = "closed", !.reserved = 0] ELSE window[w]]
  /\ UNCHANGED <<phase, account, inbox, lastSeq, session, lapsed>>

\* The process dies at any point and starts again; recoverStartup runs first.
\* The outcome of an interrupted send is never known.  settled is the set of
\* sources that #settleSourceMessage completes, in whatever order the query
\* returns them.
RecoverStartup(settled, unacknowledged) ==
  LET uncertain == {a \in Attempt : \/ attempt[a].state = "sending"
                                    \/ /\ attempt[a].state = "uncertain"
                                       /\ attempt[a].code = "startup_recovery"}
      ready == {m \in {attempt[a].source : a \in uncertain} :
                  Has(m, {"active"}) /\ AttemptsOf(m, {"pending"}) = {}} IN
  /\ phase' = "recovered"
  /\ settled \subseteq ready
  /\ \A m \in settled : Later(m, LiveStatus) \subseteq settled
  /\ \A m \in ready \ settled : Later(m, LiveStatus) # {}
  /\ unacknowledged \subseteq {x \in Message : Has(x, {"steering"})}
  /\ session' = NoSession
  /\ attempt' = SetAttempts(Sending, "uncertain", "startup_recovery")
  /\ inbox' = [m \in Message |-> IF m \in settled THEN [inbox[m] EXCEPT !.status = "completed"]
                                 ELSE Requeue(unacknowledged)[m]]
  /\ UNCHANGED <<account, lastSeq, window, lapsed>>

\* recoverPendingAttempts: what was reserved and never started is given up.
RecoverPendingAttempts ==
  /\ phase = "recovered"
  /\ phase' = "running"
  /\ \A w \in Message : Cardinality(Pending(w)) <= window[w].reserved
  /\ attempt' = SetAttempts(UNION {Pending(w) : w \in Message},
                            "failed", "not_transmitted")
  /\ window' = [w \in Message |->
       [window[w] EXCEPT !.reserved = @ - Cardinality(Pending(w))]]
  /\ UNCHANGED <<account, inbox, lastSeq, session, lapsed>>

-----------------------------------------------------------------------------

Next ==
  \/ \E page \in Page, owner \in Message : CommitPollPage(page, owner)
  \/ RotateAccount
  \/ DeleteAccount
  \/ \E m \in Message :
       \/ ClaimInbound(m)
       \/ \E p \in Message : BeginInboundSteering(m, p)
       \/ EndInboundSteering(m)
       \/ \E unacknowledged \in SUBSET Group(m) : FailInbound(m, unacknowledged)
       \/ DeferActiveInbound(m)
       \/ MarkInboundIgnored(m)
       \/ SuppressInbound(m)
       \/ FinalizeAgentExecution(m)
       \/ ExpireWindow(m)
       \/ \E b \in Message : CreateAgentSession(m, b)
  \/ CloseAgentSession
  \/ \E a \in Attempt :
       \/ PrepareReplyAttempt(a)
       \/ RejectReplyAttempt(a)
       \/ StartReplyAttempt(a)
       \/ ReleasePendingAttempt(a)
       \/ \E m \in Message, kind \in SystemKind : ReserveStartedSystemAttempt(m, a, kind)
       \/ \E state \in SettledState : FinishSend(a, state)
  \/ \E old \in SUBSET Attempt : Cleanup(old)
  \/ \E settled, unacknowledged \in SUBSET Message :
       RecoverStartup(settled, unacknowledged)
  \/ RecoverPendingAttempts

Spec == Init /\ [][Next]_vars

-----------------------------------------------------------------------------
(* Properties.                                                             *)

\* Every reservation a pending attempt holds is counted in an open window, so
\* neither releasePendingAttempt nor the startup pass recoverPendingAttempts can
\* ever find the counters inconsistent and refuse (the latter would keep the
\* worker from starting).
ReservationsCovered ==
  \A w \in Message : /\ Cardinality(Pending(w)) <= window[w].reserved
                     /\ Pending(w) # {} => window[w].state = "open"

\* The attempts of a window that failed without being sent or released.
Stranded(w) == {a \in AttemptsIn(w, {"failed"}) : attempt[a].code = "none" /\ ~ attempt[a].sent}

Suppressed == {m \in Message : Has(m, {"suppressed"})}

\* Whichever way a reserved send ends, its place in an open window is free again: the
\* counter is the number of pending attempts, but for those #suppressGroup failed (it
\* leaves the counter alone), and a place is stranded in no other way.
PlacesComeBack ==
  \A w \in OpenWindows \ lapsed :
    /\ window[w].reserved = Cardinality(Pending(w) \cup Stranded(w))
    /\ \A a \in Stranded(w) : attempt[a].source \in Suppressed

\* However windows are superseded, messages suppressed and sends released, the
\* attempts finalizeAgentExecution counts in one window stay within its budget:
\* a finished turn is never refused because of its own bookkeeping.
BudgetHolds == \A w \in Message : Cardinality(Charged(w)) <= MaxSends

\* No two windows of the conversation accept sends at once, and no two sends
\* are on their way at once.
OneWindowOneSend ==
  /\ \A m, x \in OpenWindows : m = x
  /\ \A a, b \in Sending : a = b

\* A send starts only against the newest thing the customer said: whatever
\* arrived after the message that owns the window has been merged into it.
SendsAreFresh ==
  [][\A a \in Attempt : attempt'[a].sent /\ ~ attempt[a].sent =>
        Later(attempt'[a].window, InboundStatus \ {"absorbed"}) = {}]_vars

\* What the counters of an open window cover: the attempts that were, are or may
\* still be transmitted in it.
CountersCover ==
  \A w \in OpenWindows :
    /\ Cardinality(Charged(w)) <= window[w].reserved + window[w].transmitted
    /\ window[w].reserved + window[w].transmitted <= MaxSends
    /\ Cardinality(Spent(w)) <= window[w].transmitted

\* Nothing happens to a window before it exists, and no window exists before its
\* message: a polled message always gets a window nothing was ever charged to.
WindowsAreFresh ==
  /\ \A w \in Message : window[w].state = "none" =>
       w \notin lapsed /\ \A a \in Attempt : attempt[a].window # w
  /\ account.active =>
       \A m \in Message : Has(m, {"absent"}) => window[m].state = "none"

\* What a row says of itself agrees with whether it was handed to the network.
RowsTellTruth ==
  \A a \in Attempt :
    /\ attempt[a].state = "none" => attempt[a] = NoAttempt
    /\ attempt[a].state \in {"none", "pending"} => ~ attempt[a].sent
    /\ attempt[a].state = "sending" => attempt[a].sent
    /\ attempt[a].code = "not_transmitted" => attempt[a].state = "failed"

\* The bookkeeping behind the three properties above; with them it is inductive.
LedgerConsistent == CountersCover /\ WindowsAreFresh /\ RowsTellTruth

\* A page never leaves the window with a message that is older than one it
\* supersedes, in whatever order the provider lists its messages.
OlderTakesOver ==
  \E m \in Message, w \in OpenWindows' :
    /\ window[m].state # "superseded" /\ window'[m].state = "superseded"
    /\ EntryIsNewer(m, w, FALSE)
NewestTakesOver == [][~OlderTakesOver]_vars

\* The message that owns the open window is the one the agent will be given: it
\* is absorbed only after it joined the turn of another message.
OwnerIsDelivered ==
  \A m \in OpenWindows : Has(m, {"absorbed"}) => inbox[m].primary # NoMessage

\* A session whose turn still runs keeps the window it was created for until
\* the window expires: no other path closes a window under a usable session.
SessionKeepsWindow ==
  session # NoSession /\ Has(session.source, {"active"}) =>
    window[session.boundary].state = "open" \/ session.boundary \in lapsed

\* The contract the provider gives: at most MaxSends messages per window, only
\* in the newest window, each handed over once and one at a time.
Contract == INSTANCE ReplyContract WITH
  Window <- Message, Send <- Attempt,
  live <- OpenWindows,
  past <- {m \in Message : window[m].state \in PastState},
  spent <- [w \in Message |-> Spent(w)],
  inflight <- Sending

ContractSpec == Contract!Spec
=============================================================================
