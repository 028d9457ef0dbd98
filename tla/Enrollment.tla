----------------------------- MODULE Enrollment -----------------------------
(***************************************************************************)
(* iLink enrollment: src/src/ilink/login-manager.ts over login-store.ts, the  *)
(* confirmations of src/src/ilink/sqlite-store.ts, and the terminal sessions   *)
(* of src/src/mcp/ilink-login-server.ts.                                      *)
(*                                                                         *)
(* A terminal, or a WeChat conversation, asks for a QR code; the manager       *)
(* polls the provider until the code is scanned and confirmed, is cancelled,   *)
(* fails or expires, and a confirmation registers an account or renews it.     *)
(* The QR is created and the status is asked over the network, so terminals    *)
(* come and go, codes expire and the manager closes in between.               *)
(*                                                                         *)
(* Abstractions.  A row of the offers and its audit entry are one record; a    *)
(* scanned offer is a pending one.  The secrets are the offer they came from.   *)
(* conflict stands for whatever else makes a confirmation fail.               *)
(***************************************************************************)
EXTENDS Naturals, FiniteSets

CONSTANTS
  Session,      \* terminals; each is one connection
  Peer,         \* conversations an offer is made to
  NoSource,     \* of an offer that was not made yet
  Account,
  MaxAccounts,  \* maxAccounts
  MaxOffers,    \* bound on offers
  MaxClosings,  \* bound on orderly ends and crashes of the process
  MaxDeletions  \* bound on deletions of accounts

ConstantsOK ==
  /\ Session \cap Peer = {} /\ NoSource \notin Session \cup Peer
  /\ {MaxAccounts, MaxOffers, MaxClosings, MaxDeletions} \subseteq Nat

VARIABLES
  manager,      \* "open", "closed" or "down"
  offers,       \* the rows and their audit
  late,         \* offers whose expires_at has passed
  poll,         \* where the task of an offer is
  aborted,      \* offers whose controller is aborted
  account,
  begin,        \* where the creation of an offer for a source is
  made,         \* the offer it created
  session,      \* "new", "open" or "closed"
  mine,         \* the offers a session answers for
  closings, deletions

asking == <<begin, made, session, mine>>
vars == <<manager, offers, late, poll, aborted, account, asking, closings, deletions>>

-----------------------------------------------------------------------------

Source == Session \cup Peer
Offer == 1 .. MaxOffers
Result == {"confirmed", "already_connected", "verification_required", "failed", "cancelled",
           "expired"}
Unmade == [source |-> NoSource, result |-> "unmade", candidates |-> {}]
NoAccount == [generation |-> 0, access |-> "none", from |-> 0]

TypeOK ==
  /\ manager \in {"open", "closed", "down"}
  /\ offers \in [Offer -> [source : Source \cup {NoSource},
                           result : Result \cup {"pending", "unmade"},
                           candidates : SUBSET Account]]
  /\ late \subseteq Offer /\ aborted \subseteq Offer
  /\ poll \in [Offer -> {"none", "asking", "sleeping", "pausing", "refreshing"}]
  /\ account \in [Account -> [generation : 0 .. MaxOffers, access : {"none", "restricted", "host"},
                              from : 0 .. MaxOffers]]
  /\ \A a \in Account : account[a].access = "none" <=> account[a].generation = 0
  /\ begin \in [Source -> {"idle", "asking", "returning"}]
  /\ made \in [Source -> 0 .. MaxOffers]
  /\ session \in [Session -> {"new", "open", "closed"}]
  /\ mine \in [Session -> SUBSET Offer]
  /\ closings \in 0 .. MaxClosings /\ deletions \in 0 .. MaxDeletions

Registered == {a \in Account : account[a].generation > 0}
Pending(o) == offers[o].result = "pending"
Local(o) == offers[o].source \in Session

\* isActive.
Active(o) == Pending(o) /\ o \notin late
\* listActive after it expired the others.
ActiveOffers == {o \in Offer : Active(o)}

\* #finishRow: the row becomes an audit entry; without a row nothing happens.
\* Mutant: a later end overwrites the entry.
EndedAnyway(table, ended, result) ==
  [o \in Offer |-> IF o \in ended THEN [table[o] EXCEPT !.result = result] ELSE table[o]]
Ended(table, ended, result) ==
  [o \in Offer |-> IF o \in ended /\ table[o].result = "pending"
                   THEN [table[o] EXCEPT !.result = result] ELSE table[o]]
\* #expire.
Expired(table) == Ended(table, late, "expired")

Settles(o) == poll' = [poll EXCEPT ![o] = "none"] /\ aborted' = aborted \ {o}
Goes(o, where) == poll' = [poll EXCEPT ![o] = where] /\ UNCHANGED aborted

-----------------------------------------------------------------------------
(* A terminal connects, asks for a code, and goes away. *)

Connect(s) ==
  /\ manager = "open" /\ session[s] = "new"
  /\ session' = [session EXCEPT ![s] = "open"]
  /\ UNCHANGED <<manager, offers, late, poll, aborted, account, begin, made, mine, closings,
                 deletions>>

\* onclose: the pending offers of the connection are cancelled.
Disconnect(s) ==
  /\ session[s] = "open"
  /\ session' = [session EXCEPT ![s] = "closed"] /\ mine' = [mine EXCEPT ![s] = {}]
  /\ offers' = Ended(offers, mine[s], "cancelled")
  /\ aborted' = aborted \cup {o \in mine[s] : poll[o] # "none"}
  /\ UNCHANGED <<manager, late, poll, account, begin, made, closings, deletions>>

\* An offer made to a conversation counts against the limit, with those that are pending.
LimitReached == Cardinality(Registered) + Cardinality(ActiveOffers) >= MaxAccounts

\* offer(), until createQr.
OfferAsked(src) ==
  /\ manager = "open" /\ begin[src] = "idle"
  /\ src \in Session => session[src] = "open"
  /\ src \in Peer => ~LimitReached
  /\ \A o \in Offer : Active(o) => offers[o].source # src
  /\ begin' = [begin EXCEPT ![src] = "asking"]
  /\ offers' = Expired(offers)
  /\ UNCHANGED <<manager, late, poll, aborted, account, made, session, mine, closings, deletions>>

\* createQr failed, the caller is gone, or another offer took the place or the limit.
OfferFails(src) ==
  /\ begin[src] = "asking"
  /\ begin' = [begin EXCEPT ![src] = "idle"]
  /\ UNCHANGED <<manager, offers, late, poll, aborted, account, made, session, mine, closings,
                 deletions>>
\* The code is there.  A manager that closed meanwhile does not poll.
OfferCreated(src, o) ==
  /\ begin[src] = "asking"
  /\ offers[o].result = "unmade" /\ \A p \in Offer : p < o => offers[p].result # "unmade"
  /\ src \in Peer => ~LimitReached
  /\ \A p \in Offer : Active(p) => offers[p].source # src
  /\ \E candidates \in IF src \in Session THEN {{}} \cup {{a} : a \in Registered} ELSE {{}} :
       /\ Registered # {} /\ src \in Session => candidates # {}
       /\ offers' = [Expired(offers) EXCEPT
                       ![o] = [source |-> src, result |-> "pending", candidates |-> candidates]]
  /\ poll' = [poll EXCEPT ![o] = IF manager = "open" THEN "asking" ELSE "none"]
  /\ made' = [made EXCEPT ![src] = o]
  /\ begin' = [begin EXCEPT ![src] = IF src \in Session THEN "returning" ELSE "idle"]
  /\ UNCHANGED <<manager, late, aborted, account, session, mine, closings, deletions>>

\* begin_login gets its offer.
\* Mutant: it does not look whether the terminal is still there.
BeginReturnsBlindly(s) ==
  /\ begin[s] = "returning"
  /\ begin' = [begin EXCEPT ![s] = "idle"]
  /\ mine' = [mine EXCEPT ![s] = @ \cup {made[s]}]
  /\ UNCHANGED <<manager, offers, late, poll, aborted, account, made, session, closings, deletions>>
BeginReturns(s) ==
  /\ begin[s] = "returning"
  /\ begin' = [begin EXCEPT ![s] = "idle"]
  /\ \/ /\ session[s] = "open"
        /\ mine' = [mine EXCEPT ![s] = @ \cup {made[s]}]
        /\ UNCHANGED <<offers, aborted>>
     \/ /\ session[s] # "open"
        /\ offers' = Ended(offers, {made[s]}, "cancelled")
        /\ aborted' = aborted \cup {o \in {made[s]} : poll[o] # "none"}
        /\ UNCHANGED mine
  /\ UNCHANGED <<manager, late, poll, account, made, session, closings, deletions>>

\* cancel_login.
Cancel(s, o) ==
  /\ session[s] = "open" /\ o \in mine[s]
  /\ offers' = Ended(offers, {o}, "cancelled")
  /\ aborted' = aborted \cup {p \in {o} : poll[p] # "none"}
  /\ mine' = IF Pending(o) THEN [mine EXCEPT ![s] = @ \ {o}] ELSE mine
  /\ UNCHANGED <<manager, late, poll, account, begin, made, session, closings, deletions>>
\* login_status.
Status(s, o) ==
  /\ session[s] = "open" /\ o \in mine[s]
  /\ offers' = Expired(offers)
  /\ aborted' = aborted \cup {p \in {o} : poll[p] # "none" /\ ~Active(p)}
  /\ mine' = IF Active(o) THEN mine ELSE [mine EXCEPT ![s] = @ \ {o}]
  /\ UNCHANGED <<manager, late, poll, account, begin, made, session, closings, deletions>>

-----------------------------------------------------------------------------
(* The poll of an offer. *)

TimePasses(o) ==
  /\ Active(o) /\ late' = late \cup {o}
  /\ UNCHANGED <<manager, offers, poll, aborted, account, asking, closings, deletions>>
ExpiryTimer(o) ==
  /\ o \in late \ aborted /\ poll[o] # "none"
  /\ offers' = Ended(offers, {o}, "expired") /\ aborted' = aborted \cup {o}
  /\ UNCHANGED <<manager, late, poll, account, asking, closings, deletions>>

\* The answer comes too late, or the request was aborted.
AnswerIgnored(o) ==
  /\ poll[o] = "asking" /\ (o \in aborted \/ ~Active(o))
  /\ Settles(o)
  /\ UNCHANGED <<manager, offers, late, account, asking, closings, deletions>>
\* Mutant: whether the offer is still good is not looked at.
AnsweredLate(o) == poll[o] = "asking"
Answered(o) == poll[o] = "asking" /\ o \notin aborted /\ Active(o)

\* wait, scaned and scaned_but_redirect.
AnswerWait(o) ==
  /\ Answered(o)
  /\ offers' = Expired(offers) /\ Goes(o, "sleeping")
  /\ UNCHANGED <<manager, late, account, asking, closings, deletions>>
\* The network fails; a wrong configuration fails the offer (AnswerEnds).
AnswerFails(o) ==
  /\ Answered(o) /\ Goes(o, "pausing")
  /\ UNCHANGED <<manager, offers, late, account, asking, closings, deletions>>
\* need_verifycode, verify_code_blocked, expired, anything unknown.
AnswerEnds(o) ==
  /\ Answered(o)
  /\ \E result \in {"verification_required", "expired", "failed"} :
       offers' = Ended(offers, {o}, result)
  /\ Settles(o)
  /\ UNCHANGED <<manager, late, account, asking, closings, deletions>>

\* confirmEnrollment: the account is registered, or renewed under its next generation.
\* Mutant: the limit is what the offer was checked against.
RoomUnchecked(a) == TRUE
Room(a) == a \in Registered \/ Cardinality(Registered) < MaxAccounts
\* Mutants: whoever confirms gets the host; a conversation keeps the access there was.
HostForAll(o, a) == "host"
AccessKept(o, a) == IF Local(o) THEN "host" ELSE account[a].access
Access(o, a) == IF Local(o) \/ account[a].access = "host" THEN "host" ELSE "restricted"
Confirmed(o, a) ==
  [generation |-> account[a].generation + 1, access |-> Access(o, a), from |-> o]
AnswerConfirmed(o, a) ==
  /\ Answered(o)
  /\ \/ /\ Room(a)
        /\ account' = [account EXCEPT ![a] = Confirmed(o, a)]
        /\ offers' = Ended(offers, {o}, "confirmed")
        /\ Goes(o, "refreshing")
     \/ /\ offers' = Ended(offers, {o}, "failed")   \* no room, or a conflict
        /\ Settles(o)
        /\ UNCHANGED account
  /\ UNCHANGED <<manager, late, asking, closings, deletions>>
\* onAccountsChanged ends; if it fails, so does the offer, unless it is settled.
RefreshEnds(o) ==
  /\ poll[o] = "refreshing"
  /\ Settles(o)
  /\ offers' \in {offers, Ended(offers, {o}, "failed")}
  /\ UNCHANGED <<manager, late, account, asking, closings, deletions>>

\* binded_redirect: the account is the one reported or the only candidate.
\* Mutant: an account that is not there any more ends the poll.
AnswerBoundQuietly(o) ==
  /\ Answered(o)
  /\ \/ /\ ~Local(o)
        /\ offers' = Ended(offers, {o}, "already_connected") /\ Settles(o) /\ UNCHANGED account
     \/ /\ Local(o) /\ offers[o].candidates = {}
        /\ offers' = Ended(offers, {o}, "failed") /\ Settles(o) /\ UNCHANGED account
     \/ \E a \in offers[o].candidates \cap Registered :
          /\ account' = [account EXCEPT ![a].access = "host"]
          /\ offers' = Ended(offers, {o}, "already_connected") /\ Settles(o)
     \/ /\ offers[o].candidates \ Registered # {}
        /\ Settles(o) /\ UNCHANGED <<offers, account>>
  /\ UNCHANGED <<manager, late, asking, closings, deletions>>
AnswerBound(o) ==
  /\ Answered(o)
  /\ \/ /\ ~Local(o)
        /\ offers' = Ended(offers, {o}, "already_connected") /\ Settles(o) /\ UNCHANGED account
     \/ /\ Local(o) /\ offers[o].candidates = {}
        /\ offers' = Ended(offers, {o}, "failed") /\ Settles(o) /\ UNCHANGED account
     \/ \E a \in offers[o].candidates \cap Registered :
          /\ account' = [account EXCEPT ![a].access = "host"]
          /\ offers' = Ended(offers, {o}, "already_connected") /\ Settles(o)
     \/ /\ offers[o].candidates \ Registered # {}   \* confirmExistingEnrollment throws
        /\ Goes(o, "pausing") /\ UNCHANGED <<offers, account>>
  /\ UNCHANGED <<manager, late, asking, closings, deletions>>

\* The sleep between two polls; its abortion ends the task.
Wake(o) ==
  /\ poll[o] = "sleeping"
  /\ \/ o \in aborted /\ Settles(o) /\ UNCHANGED offers
     \/ o \notin aborted /\ o \notin late /\ Goes(o, "asking") /\ UNCHANGED offers
     \/ o \notin aborted /\ o \in late /\ Settles(o) /\ offers' = Ended(offers, {o}, "expired")
  /\ UNCHANGED <<manager, late, account, asking, closings, deletions>>
\* The pause after a failure; its abortion is ignored and the loop ends as if the offer
\* had expired.
Retry(o) ==
  /\ poll[o] = "pausing"
  /\ \/ o \notin aborted \cup late /\ Goes(o, "asking") /\ UNCHANGED offers
     \/ o \in aborted \cup late /\ Settles(o) /\ offers' = Ended(offers, {o}, "expired")
  /\ UNCHANGED <<manager, late, account, asking, closings, deletions>>

-----------------------------------------------------------------------------
(* The manager and the process. *)

\* cleanup(), every hour.
\* Mutant: only the audit is cleaned.
CleanupOfAudit == FALSE /\ UNCHANGED vars
Cleanup ==
  /\ manager # "down" /\ Expired(offers) # offers
  /\ offers' = Expired(offers)
  /\ UNCHANGED <<manager, late, poll, aborted, account, asking, closings, deletions>>

\* An operator deletes an account.
Delete(a) ==
  /\ manager = "open" /\ a \in Registered
  /\ deletions < MaxDeletions /\ deletions' = deletions + 1
  /\ account' = [account EXCEPT ![a] = NoAccount]
  /\ UNCHANGED <<manager, offers, late, poll, aborted, asking, closings>>

Close ==
  /\ manager = "open" /\ closings < MaxClosings /\ closings' = closings + 1
  /\ manager' = "closed"
  /\ aborted' = {o \in Offer : poll[o] # "none"}
  /\ UNCHANGED <<offers, late, poll, account, asking, deletions>>

Gone ==
  /\ manager' = "down"
  /\ poll' = [o \in Offer |-> "none"] /\ aborted' = {}
  /\ begin' = [s \in Source |-> "idle"] /\ UNCHANGED made
  /\ session' = [s \in Session |-> IF session[s] = "open" THEN "closed" ELSE session[s]]
  /\ mine' = [s \in Session |-> {}]
\* The tasks have settled, the offers of terminals are cancelled; the process ends.
Closed ==
  /\ manager = "closed" /\ \A o \in Offer : poll[o] = "none"
  /\ offers' = Ended(Expired(offers), {o \in Offer : Local(o)}, "cancelled")
  /\ Gone
  /\ UNCHANGED <<late, account, closings, deletions>>
Crash ==
  /\ manager # "down" /\ closings < MaxClosings /\ closings' = closings + 1
  /\ Gone
  /\ UNCHANGED <<offers, late, account, deletions>>

\* start(): the offers of terminals are cancelled, the others are polled again.
Start ==
  /\ manager = "down" /\ manager' = "open"
  /\ offers' = Ended(Expired(offers), {o \in Offer : Local(o)}, "cancelled")
  /\ poll' = [o \in Offer |-> IF Active(o) /\ ~Local(o) THEN "asking" ELSE "none"]
  /\ UNCHANGED <<late, aborted, account, asking, closings, deletions>>

-----------------------------------------------------------------------------

Init ==
  /\ manager = "down"
  /\ offers = [o \in Offer |-> Unmade] /\ late = {}
  /\ poll = [o \in Offer |-> "none"] /\ aborted = {}
  /\ account = [a \in Account |-> NoAccount]
  /\ begin = [s \in Source |-> "idle"] /\ made = [s \in Source |-> 0]
  /\ session = [s \in Session |-> "new"] /\ mine = [s \in Session |-> {}]
  /\ closings = 0 /\ deletions = 0

Answer(o) ==
  \/ AnswerIgnored(o) \/ AnswerWait(o) \/ AnswerFails(o) \/ AnswerEnds(o) \/ AnswerBound(o)
  \/ \E a \in Account : AnswerConfirmed(o, a)
Terminal(s) ==
  \/ Connect(s) \/ Disconnect(s) \/ BeginReturns(s)
  \/ \E o \in Offer : Cancel(s, o) \/ Status(s, o)
Asking(src) == OfferAsked(src) \/ OfferFails(src) \/ \E o \in Offer : OfferCreated(src, o)

Next ==
  \/ \E s \in Session : Terminal(s)
  \/ \E src \in Source : Asking(src)
  \/ \E o \in Offer :
       TimePasses(o) \/ ExpiryTimer(o) \/ Answer(o) \/ RefreshEnds(o) \/ Wake(o) \/ Retry(o)
  \/ Cleanup \/ Close \/ Closed \/ Crash \/ Start
  \/ \E a \in Account : Delete(a)

Spec == Init /\ [][Next]_vars

\* Time passes, the requests of a closed manager are aborted, and the process is started
\* again; the retention runs every hour.
Fairness ==
  /\ \A o \in Offer :
       /\ WF_vars(TimePasses(o)) /\ WF_vars(AnswerIgnored(o)) /\ WF_vars(RefreshEnds(o))
       /\ WF_vars(Wake(o)) /\ WF_vars(Retry(o))
  /\ WF_vars(Cleanup) /\ WF_vars(Closed) /\ WF_vars(Start)
LiveSpec == Spec /\ Fairness

-----------------------------------------------------------------------------
(* Properties.                                                             *)

\* However terminals and conversations are told their results, there are never more
\* accounts than maxAccounts: terminals are not limited when they ask (offer, confirmEnrollment).
AccountLimit == Cardinality(Registered) <= MaxAccounts

\* What an offer ended as is never changed by whatever comes later: a failed refresh, a
\* cancellation, the expiry or a late status (#finishRow).
ResultIsFinal ==
  [][\A o \in Offer : offers[o].result \in Result => offers'[o].result = offers[o].result]_vars

\* An account works with the credentials of an offer that ended as confirmed: never of one
\* that its terminal cancelled or that expired while the provider answered.
CredentialsAreConfirmed == \A a \in Registered : offers[account[a].from].result = "confirmed"

\* Only a terminal gives an account access to the host, and an account registered anew
\* begins without (registerAccount, rotateAccount, confirmExistingEnrollment).
HostIsLocal ==
  [][\A a \in Account :
       account[a].access # "host" /\ account'[a].access = "host"
         => \E o \in Offer : Pending(o) /\ Local(o) /\ offers'[o].result # "pending"]_vars

\* While the manager is open every offer that is still good is polled.
NoForgottenOffer ==
  manager = "open" => \A o \in ActiveOffers : poll[o] # "none" /\ o \notin aborted

\* An offer of a terminal that is gone is cancelled, also when it was created after the
\* terminal had gone (test/integration/ilink-login-mcp.test.ts:80).
NoOrphanedOffer ==
  manager = "open" =>
    \A o \in Offer : Pending(o) /\ Local(o) /\ session[offers[o].source] = "closed"
      => begin[offers[o].source] = "returning"

\* Offers are neither forgotten nor left to a terminal that is gone, and accounts have the
\* credentials of confirmed ones.
OffersAreFollowed == CredentialsAreConfirmed /\ NoForgottenOffer /\ NoOrphanedOffer

\* The changes that no step of an offer may make: of a result, or to host access from afar.
OffersChangeSoundly == ResultIsFinal /\ HostIsLocal

\* Every offer ends.
OfferEnds == \A o \in Offer : Pending(o) ~> ~Pending(o)

\* The offer of a conversation survives a restart of the manager
\* (test/integration/ilink-login.test.ts:749 "pending QR offer resumes after manager restart").
ClosingEndsNoRemoteOffer ==
  [][manager = "closed" =>
       \A o \in ActiveOffers : ~Local(o) => offers'[o].result = "pending"]_vars
=============================================================================
