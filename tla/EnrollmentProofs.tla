-------------------------- MODULE EnrollmentProofs --------------------------
(***************************************************************************)
(* What Enrollment guarantees for any terminals, conversations, accounts    *)
(* and limits: accounts stay within their limit and work with the          *)
(* credentials of confirmed offers, only a terminal opens the host, what    *)
(* an offer ended as is final, and no offer is forgotten or left behind.    *)
(***************************************************************************)
EXTENDS Enrollment, TLAPS, FiniteSetTheorems

-----------------------------------------------------------------------------
(* Offers.                                                                 *)

Row == [source : Source \cup {NoSource}, result : Result \cup {"pending", "unmade"},
        candidates : SUBSET Account]

LEMMA EndedFacts ==
  ASSUME NEW table \in [Offer -> Row], NEW ended, NEW result \in Result
  PROVE  /\ Ended(table, ended, result) \in [Offer -> Row]
         /\ \A o \in Offer :
              /\ Ended(table, ended, result)[o].source = table[o].source
              /\ Ended(table, ended, result)[o].candidates = table[o].candidates
              /\ o \in ended /\ table[o].result = "pending"
                   => Ended(table, ended, result)[o].result = result
              /\ o \notin ended \/ table[o].result # "pending"
                   => Ended(table, ended, result)[o] = table[o]
<1>1. ASSUME NEW o \in Offer
      PROVE  /\ [table[o] EXCEPT !.result = result] \in Row
             /\ [table[o] EXCEPT !.result = result].source = table[o].source
             /\ [table[o] EXCEPT !.result = result].candidates = table[o].candidates
             /\ [table[o] EXCEPT !.result = result].result = result
  <2>1. table[o] \in Row
    OBVIOUS
  <2>2. QED
    BY <2>1 DEF Row
<1>2. QED
  BY <1>1 DEF Ended

LEMMA ResultFacts ==
  /\ {"confirmed", "already_connected", "verification_required", "failed", "cancelled",
      "expired"} = Result
  /\ "pending" \notin Result /\ "unmade" \notin Result
BY DEF Result

\* What a step may do to an offer: nothing, end it while it is pending, make it.
Ends(o) ==
  /\ Pending(o)
  /\ offers'[o].source = offers[o].source
  /\ offers'[o].candidates = offers[o].candidates
  /\ offers'[o].result \in Result
Makes(o) ==
  /\ offers[o].result = "unmade"
  /\ offers'[o].result = "pending"
  /\ offers'[o].source \in Source
  /\ offers'[o].candidates # {} => offers'[o].source \in Session
OffersStep ==
  /\ offers' \in [Offer -> Row]
  /\ \A o \in Offer : offers'[o] = offers[o] \/ Ends(o) \/ Makes(o)

LEMMA OffersEnded ==
  ASSUME offers \in [Offer -> Row], NEW ended, NEW result \in Result,
         offers' = Ended(offers, ended, result)
  PROVE  /\ OffersStep
         /\ \A o \in Offer :
              /\ offers'[o].source = offers[o].source
              /\ offers'[o].result = IF o \in ended /\ Pending(o) THEN result ELSE offers[o].result
<1>1. \A o \in Offer : offers[o] \in Row
  OBVIOUS
<1>2. QED
  BY <1>1, EndedFacts DEF OffersStep, Ends, Pending

LEMMA OffersExpired ==
  ASSUME offers \in [Offer -> Row], offers' = Expired(offers)
  PROVE  /\ OffersStep
         /\ \A o \in Offer :
              /\ offers'[o].source = offers[o].source
              /\ offers'[o].result = IF o \in late /\ Pending(o) THEN "expired"
                                     ELSE offers[o].result
BY OffersEnded, ResultFacts DEF Expired

LEMMA OffersClosed ==
  ASSUME offers \in [Offer -> Row], NEW ended,
         offers' = Ended(Expired(offers), ended, "cancelled")
  PROVE  /\ OffersStep
         /\ \A o \in Offer :
              /\ offers'[o].source = offers[o].source
              /\ offers'[o].result =
                   IF o \in late /\ Pending(o) THEN "expired"
                   ELSE IF o \in ended /\ Pending(o) THEN "cancelled" ELSE offers[o].result
<1> DEFINE table == Expired(offers)
<1>1. /\ table \in [Offer -> Row]
      /\ \A o \in Offer : /\ table[o].source = offers[o].source
                          /\ table[o].candidates = offers[o].candidates
                          /\ o \in late /\ Pending(o) => table[o].result = "expired"
                          /\ o \notin late \/ ~ Pending(o) => table[o] = offers[o]
  BY EndedFacts, ResultFacts DEF Expired, Pending
<1> HIDE DEF table
<1>2. /\ offers' \in [Offer -> Row]
      /\ \A o \in Offer : /\ offers'[o].source = table[o].source
                          /\ offers'[o].candidates = table[o].candidates
                          /\ o \in ended /\ table[o].result = "pending"
                               => offers'[o].result = "cancelled"
                          /\ o \notin ended \/ table[o].result # "pending"
                               => offers'[o] = table[o]
  <2>1. offers' = Ended(table, ended, "cancelled")
    BY DEF table
  <2>2. QED
    BY <2>1, <1>1, EndedFacts, ResultFacts
<1>3. QED
  BY <1>1, <1>2, ResultFacts DEF OffersStep, Ends, Pending

LEMMA OffersMade ==
  ASSUME offers \in [Offer -> Row], NEW src \in Source, NEW o \in Offer,
         offers[o].result = "unmade", NEW candidates \in SUBSET Account,
         candidates # {} => src \in Session,
         offers' = [Expired(offers) EXCEPT
                      ![o] = [source |-> src, result |-> "pending", candidates |-> candidates]]
  PROVE  /\ OffersStep
         /\ offers'[o].source = src /\ offers'[o].result = "pending"
         /\ \A p \in Offer \ {o} :
              /\ offers'[p].source = offers[p].source
              /\ \/ offers'[p].result = offers[p].result
                 \/ Pending(p) /\ offers'[p].result = "expired"
<1> DEFINE table == Expired(offers)
           row == [source |-> src, result |-> "pending", candidates |-> candidates]
<1>1. /\ table \in [Offer -> Row]
      /\ \A p \in Offer : /\ table[p].source = offers[p].source
                          /\ table[p].candidates = offers[p].candidates
                          /\ p \in late /\ Pending(p) => table[p].result = "expired"
                          /\ p \notin late \/ ~ Pending(p) => table[p] = offers[p]
  BY EndedFacts, ResultFacts DEF Expired, Pending
<1>2. row \in Row /\ row.source = src /\ row.result = "pending" /\ row.candidates = candidates
  BY DEF Row
<1> HIDE DEF table, row
<1>3. offers' = [table EXCEPT ![o] = row]
  BY DEF table, row
<1>4. /\ offers' \in [Offer -> Row]
      /\ offers'[o] = row
      /\ \A p \in Offer \ {o} : offers'[p] = table[p]
  BY <1>1, <1>2, <1>3
<1>5. QED
  BY <1>1, <1>2, <1>4, ResultFacts DEF OffersStep, Ends, Makes, Pending

-----------------------------------------------------------------------------
(* The inductive invariant.                                                *)

ConfirmedIn(table) == {o \in Offer : table[o].result = "confirmed"}

\* The registered accounts are few, each confirmation of one came from an offer of its own,
\* and the last of them gave it its credentials; a conversation names no candidates.
Registrations ==
  /\ IsFiniteSet(Registered) /\ AccountLimit
  /\ \A o \in Offer : offers[o].candidates # {} => Local(o)
  /\ \A a \in Account : account[a].generation <= Cardinality(ConfirmedIn(offers))
  /\ \A a \in Registered :
       account[a].from \in Offer /\ offers[account[a].from].result = "confirmed"

\* An offer that is not made is new to everybody; a controller belongs to a task; a manager
\* that is down has none; only a settled offer waits for a refresh.
Polls ==
  /\ \A o \in Offer : offers[o].result = "unmade" => poll[o] = "none" /\ o \notin late
  /\ \A o \in aborted : poll[o] # "none"
  /\ manager = "down" => \A o \in Offer : poll[o] = "none"
  /\ \A o \in Offer : poll[o] = "refreshing" => ~Pending(o)
  /\ NoForgottenOffer

\* Somebody answers for every pending offer of a terminal while the manager runs: its
\* session, or the call that has just created it; nobody asks while it is down.
AnsweredFor(o) ==
  \/ o \in mine[offers[o].source]
  \/ begin[offers[o].source] = "returning" /\ made[offers[o].source] = o
Owners ==
  /\ \A o \in Offer : Pending(o) => offers[o].source \in Source
  /\ \A s \in Session : mine[s] # {} => session[s] = "open"
  /\ \A s \in Session : begin[s] = "returning" => made[s] \in Offer
  /\ manager = "down" => \A src \in Source : begin[src] = "idle"
  /\ manager # "down" => \A o \in Offer : Pending(o) /\ Local(o) => AnsweredFor(o)

Inv == TypeOK /\ Registrations /\ Polls /\ Owners

-----------------------------------------------------------------------------
(* What every step does to the offers.                                     *)

LEMMA OffersKept ==
  ASSUME TypeOK, UNCHANGED offers
  PROVE  OffersStep
BY DEF TypeOK, OffersStep, Row

LEMMA StepsOnOffers ==
  ASSUME TypeOK, Next
  PROVE  OffersStep
<1> USE ResultFacts
<1>0. offers \in [Offer -> Row]
  BY DEF TypeOK, Row
<1>1. ASSUME NEW s \in Session, Terminal(s)
      PROVE  OffersStep
  <2>1. CASE Connect(s)
    BY <2>1, OffersKept DEF Connect
  <2>2. CASE Disconnect(s)
    BY <2>2, <1>0, OffersEnded DEF Disconnect
  <2>3. CASE BeginReturns(s)
    BY <2>3, <1>0, OffersEnded, OffersKept DEF BeginReturns
  <2>4. ASSUME NEW o \in Offer, Cancel(s, o)
        PROVE  OffersStep
    BY <2>4, <1>0, OffersEnded DEF Cancel
  <2>5. ASSUME NEW o \in Offer, Status(s, o)
        PROVE  OffersStep
    BY <2>5, <1>0, OffersExpired DEF Status
  <2>6. QED
    BY <1>1, <2>1, <2>2, <2>3, <2>4, <2>5 DEF Terminal
<1>2. ASSUME NEW src \in Source, Asking(src)
      PROVE  OffersStep
  <2>1. CASE OfferAsked(src)
    BY <2>1, <1>0, OffersExpired DEF OfferAsked
  <2>2. CASE OfferFails(src)
    BY <2>2, OffersKept DEF OfferFails
  <2>3. ASSUME NEW o \in Offer, OfferCreated(src, o)
        PROVE  OffersStep
    <3>1. PICK candidates \in IF src \in Session THEN {{}} \cup {{a} : a \in Registered} ELSE {{}} :
            offers' = [Expired(offers) EXCEPT
                         ![o] = [source |-> src, result |-> "pending", candidates |-> candidates]]
      BY <2>3 DEF OfferCreated
    <3>2. candidates \in SUBSET Account /\ (candidates # {} => src \in Session)
      BY <3>1 DEF Registered
    <3>3. offers[o].result = "unmade"
      BY <2>3 DEF OfferCreated
    <3>4. QED
      BY <3>1, <3>2, <3>3, <1>0, OffersMade
  <2>4. QED
    BY <1>2, <2>1, <2>2, <2>3 DEF Asking
<1>3. ASSUME NEW o \in Offer, Answer(o)
      PROVE  OffersStep
  <2>1. CASE AnswerIgnored(o)
    BY <2>1, OffersKept DEF AnswerIgnored
  <2>2. CASE AnswerWait(o)
    BY <2>2, <1>0, OffersExpired DEF AnswerWait
  <2>3. CASE AnswerFails(o)
    BY <2>3, OffersKept DEF AnswerFails
  <2>4. CASE AnswerEnds(o)
    BY <2>4, <1>0, OffersEnded DEF AnswerEnds
  <2>5. CASE AnswerBound(o)
    BY <2>5, <1>0, OffersEnded, OffersKept DEF AnswerBound
  <2>6. ASSUME NEW a \in Account, AnswerConfirmed(o, a)
        PROVE  OffersStep
    BY <2>6, <1>0, OffersEnded DEF AnswerConfirmed
  <2>7. QED
    BY <1>3, <2>1, <2>2, <2>3, <2>4, <2>5, <2>6 DEF Answer
<1>4. ASSUME NEW o \in Offer, TimePasses(o) \/ ExpiryTimer(o) \/ RefreshEnds(o) \/ Wake(o) \/ Retry(o)
      PROVE  OffersStep
  BY <1>4, <1>0, OffersEnded, OffersKept DEF TimePasses, ExpiryTimer, RefreshEnds, Wake, Retry
<1>5. ASSUME Cleanup \/ Close \/ Closed \/ Crash \/ Start
      PROVE  OffersStep
  BY <1>5, <1>0, OffersExpired, OffersClosed, OffersKept DEF Cleanup, Close, Closed, Crash, Start
<1>6. ASSUME NEW a \in Account, Delete(a)
      PROVE  OffersStep
  BY <1>6, OffersKept DEF Delete
<1>7. QED
  BY <1>1, <1>2, <1>3, <1>4, <1>5, <1>6 DEF Next

-----------------------------------------------------------------------------
(* Accounts.                                                               *)

LEMMA ConfirmationsGrow ==
  ASSUME ConstantsOK, TypeOK, OffersStep
  PROVE  /\ IsFiniteSet(ConfirmedIn(offers)) /\ IsFiniteSet(ConfirmedIn(offers'))
         /\ Cardinality(ConfirmedIn(offers)) \in Nat
         /\ Cardinality(ConfirmedIn(offers')) \in 0 .. MaxOffers
         /\ ConfirmedIn(offers) \subseteq ConfirmedIn(offers')
         /\ Cardinality(ConfirmedIn(offers)) <= Cardinality(ConfirmedIn(offers'))
         /\ (\E o \in Offer : Pending(o) /\ offers'[o].result = "confirmed")
              => Cardinality(ConfirmedIn(offers)) < Cardinality(ConfirmedIn(offers'))
<1> DEFINE old == ConfirmedIn(offers)
           new == ConfirmedIn(offers')
<1>1. MaxOffers \in Nat
  BY DEF ConstantsOK
<1>2. IsFiniteSet(Offer) /\ Cardinality(Offer) = MaxOffers
  BY <1>1, FS_Interval DEF Offer
<1>3. old \subseteq Offer /\ new \subseteq Offer /\ old \subseteq new
  BY ResultFacts DEF ConfirmedIn, OffersStep, Ends, Makes, Pending
<1>4. ASSUME NEW o \in Offer, Pending(o), offers'[o].result = "confirmed"
      PROVE  o \in new \ old
  BY <1>4 DEF ConfirmedIn, Pending
<1> HIDE DEF old, new
<1>5. IsFiniteSet(new) /\ Cardinality(new) \in Nat /\ Cardinality(new) <= MaxOffers
  BY <1>1, <1>2, <1>3, FS_Subset, FS_CardinalityType
<1>6. IsFiniteSet(old) /\ Cardinality(old) \in Nat /\ Cardinality(old) <= Cardinality(new)
  BY <1>3, <1>5, FS_Subset, FS_CardinalityType
<1>7. old # new => Cardinality(old) < Cardinality(new)
  <2>1. Cardinality(old) = Cardinality(new) => old = new
    BY <1>3, <1>5, FS_Subset
  <2>2. QED
    BY <2>1, <1>5, <1>6
<1>8. (\E o \in Offer : Pending(o) /\ offers'[o].result = "confirmed") => old # new
  BY <1>4
<1>9. Cardinality(new) \in 0 .. MaxOffers
  BY <1>1, <1>5
<1>10. QED
  BY <1>3, <1>5, <1>6, <1>7, <1>8, <1>9 DEF old, new

AccountRow == [generation : 0 .. MaxOffers, access : {"none", "restricted", "host"},
               from : 0 .. MaxOffers]
LEMMA AccountTypes ==
  ASSUME ConstantsOK, TypeOK
  PROVE  /\ MaxOffers \in Nat /\ MaxAccounts \in Nat
         /\ account \in [Account -> AccountRow]
         /\ \A a \in Account : /\ account[a].generation \in Nat
                               /\ a \in Registered <=> account[a].access # "none"
                               /\ a \in Registered <=> account[a].generation > 0
         /\ NoAccount \in AccountRow
         /\ Offer \subseteq 0 .. MaxOffers
<1>1. MaxOffers \in Nat /\ MaxAccounts \in Nat
  BY DEF ConstantsOK
<1>2. account \in [Account -> AccountRow]
  BY DEF TypeOK, AccountRow
<1>3. \A a \in Account : /\ account[a].generation \in Nat
                         /\ account[a].access = "none" <=> account[a].generation = 0
  BY <1>1, <1>2 DEF AccountRow, TypeOK
<1>4. NoAccount \in AccountRow
  BY <1>1 DEF NoAccount, AccountRow
<1>5. Offer \subseteq 0 .. MaxOffers
  BY <1>1 DEF Offer
<1>6. QED
  BY <1>1, <1>2, <1>3, <1>4, <1>5 DEF Registered

\* What becomes of the accounts: one is confirmed from an offer that was pending, one that is
\* there gets the host from a terminal, or one is deleted.
Confirms(o, a) ==
  /\ Pending(o) /\ offers'[o].result = "confirmed"
  /\ Room(a) /\ account' = [account EXCEPT ![a] = Confirmed(o, a)]
Opens(o, a) ==
  /\ Pending(o) /\ Local(o) /\ offers'[o].result = "already_connected"
  /\ a \in Registered /\ account' = [account EXCEPT ![a].access = "host"]
Deletes(a) == account' = [account EXCEPT ![a] = NoAccount]

AccountStep ==
  \/ UNCHANGED account
  \/ \E o \in Offer, a \in Account : Confirms(o, a) \/ Opens(o, a)
  \/ \E a \in Account : Deletes(a)

LEMMA StepsOnAccounts ==
  ASSUME TypeOK, Registrations, Next
  PROVE  AccountStep
<1>0. offers \in [Offer -> Row]
  BY DEF TypeOK, Row
<1>1. ASSUME NEW s \in Session, Terminal(s)
      PROVE  UNCHANGED account
  BY <1>1 DEF Terminal, Connect, Disconnect, BeginReturns, Cancel, Status
<1>2. ASSUME NEW src \in Source, Asking(src)
      PROVE  UNCHANGED account
  BY <1>2 DEF Asking, OfferAsked, OfferFails, OfferCreated
<1>3. ASSUME NEW o \in Offer, Answer(o)
      PROVE  AccountStep
  <2>1. CASE AnswerIgnored(o) \/ AnswerWait(o) \/ AnswerFails(o) \/ AnswerEnds(o)
    BY <2>1 DEF AnswerIgnored, AnswerWait, AnswerFails, AnswerEnds, AccountStep
  <2>2. CASE AnswerBound(o)
    <3>1. Pending(o)
      BY <2>2 DEF AnswerBound, Answered, Active
    <3>2. UNCHANGED account \/ \E a \in offers[o].candidates \cap Registered : Opens(o, a)
      <4>1. ASSUME NEW a \in offers[o].candidates \cap Registered,
                   account' = [account EXCEPT ![a].access = "host"],
                   offers' = Ended(offers, {o}, "already_connected")
            PROVE  Opens(o, a)
        <5>1. Local(o)
          BY <4>1 DEF Registrations
        <5>2. QED
          BY <4>1, <5>1, <3>1, <1>0, OffersEnded, ResultFacts DEF Opens
      <4>2. QED
        BY <2>2, <4>1 DEF AnswerBound
    <3>3. Registered \subseteq Account
      BY DEF Registered
    <3>4. QED
      BY <3>2, <3>3 DEF AccountStep
  <2>3. ASSUME NEW a \in Account, AnswerConfirmed(o, a)
        PROVE  AccountStep
    <3>1. Pending(o)
      BY <2>3 DEF AnswerConfirmed, Answered, Active
    <3>2. UNCHANGED account \/ Confirms(o, a)
      BY <2>3, <3>1, <1>0, OffersEnded, ResultFacts DEF AnswerConfirmed, Confirms
    <3>3. QED
      BY <3>2 DEF AccountStep
  <2>4. QED
    BY <1>3, <2>1, <2>2, <2>3 DEF Answer
<1>4. ASSUME NEW o \in Offer, TimePasses(o) \/ ExpiryTimer(o) \/ RefreshEnds(o) \/ Wake(o) \/ Retry(o)
      PROVE  UNCHANGED account
  BY <1>4 DEF TimePasses, ExpiryTimer, RefreshEnds, Wake, Retry
<1>5. ASSUME Cleanup \/ Close \/ Closed \/ Crash \/ Start
      PROVE  UNCHANGED account
  BY <1>5 DEF Cleanup, Close, Closed, Crash, Start
<1>6. ASSUME NEW a \in Account, Delete(a)
      PROVE  Deletes(a)
  BY <1>6 DEF Delete, Deletes
<1>7. QED
  BY <1>1, <1>2, <1>3, <1>4, <1>5, <1>6 DEF Next, AccountStep

LEMMA ConfirmedFacts ==
  ASSUME ConstantsOK, TypeOK, NEW o \in Offer, NEW a \in Account,
         account[a].generation < MaxOffers
  PROVE  /\ Confirmed(o, a) \in AccountRow
         /\ Confirmed(o, a).generation = account[a].generation + 1
         /\ Confirmed(o, a).access = Access(o, a)
         /\ Confirmed(o, a).from = o
         /\ Access(o, a) \in {"restricted", "host"}
<1>1. account[a] \in AccountRow /\ MaxOffers \in Nat /\ o \in 0 .. MaxOffers
  BY AccountTypes
<1>2. account[a].generation + 1 \in 0 .. MaxOffers
  BY <1>1 DEF AccountRow
<1>3. Access(o, a) \in {"restricted", "host"}
  BY DEF Access
<1>4. QED
  BY <1>1, <1>2, <1>3 DEF Confirmed, AccountRow

LEMMA OpenedFacts ==
  ASSUME TypeOK, NEW a \in Account
  PROVE  /\ [account[a] EXCEPT !.access = "host"] \in AccountRow
         /\ [account[a] EXCEPT !.access = "host"].generation = account[a].generation
         /\ [account[a] EXCEPT !.access = "host"].from = account[a].from
         /\ [account[a] EXCEPT !.access = "host"].access = "host"
<1>1. account[a] \in AccountRow
  BY DEF TypeOK, AccountRow
<1>2. QED
  BY <1>1 DEF AccountRow

\* The accounts after a step, one by one.
LEMMA AccountsAfter ==
  ASSUME ConstantsOK, TypeOK, Registrations, OffersStep, AccountStep
  PROVE  /\ account' \in [Account -> AccountRow]
         /\ \A a \in Account :
              /\ account'[a].access = "none" <=> account'[a].generation = 0
              /\ \/ account'[a] = account[a]
                 \/ account'[a] = NoAccount
                 \/ \E o \in Offer :
                      /\ Confirms(o, a)
                      /\ account[a].generation < MaxOffers
                      /\ account'[a] = Confirmed(o, a)
                 \/ /\ \E o \in Offer : Opens(o, a)
                    /\ account'[a] = [account[a] EXCEPT !.access = "host"]
<1>0. /\ account \in [Account -> AccountRow] /\ MaxOffers \in Nat
      /\ \A a \in Account : account[a].access = "none" <=> account[a].generation = 0
      /\ \A a \in Account : account[a].generation \in Nat
  BY AccountTypes DEF TypeOK
<1>1. CASE UNCHANGED account
  BY <1>0, <1>1
<1>2. ASSUME NEW o \in Offer, NEW b \in Account, Confirms(o, b)
      PROVE  /\ account[b].generation < MaxOffers
             /\ account' \in [Account -> AccountRow]
             /\ account'[b] = Confirmed(o, b)
             /\ \A a \in Account \ {b} : account'[a] = account[a]
  <2>1. account[b].generation <= Cardinality(ConfirmedIn(offers))
    BY DEF Registrations
  <2>2. Cardinality(ConfirmedIn(offers)) < Cardinality(ConfirmedIn(offers'))
    BY <1>2, ConfirmationsGrow DEF Confirms
  <2>3. /\ Cardinality(ConfirmedIn(offers)) \in Nat
        /\ Cardinality(ConfirmedIn(offers')) \in 0 .. MaxOffers
    BY ConfirmationsGrow
  <2>4. account[b].generation < MaxOffers
    BY <2>1, <2>2, <2>3, <1>0
  <2>5. Confirmed(o, b) \in AccountRow
    BY <2>4, ConfirmedFacts
  <2>6. account' = [account EXCEPT ![b] = Confirmed(o, b)]
    BY <1>2 DEF Confirms
  <2>7. QED
    BY <2>4, <2>5, <2>6, <1>0
<1>3. ASSUME NEW o \in Offer, NEW b \in Account, Opens(o, b)
      PROVE  /\ account' \in [Account -> AccountRow]
             /\ account'[b] = [account[b] EXCEPT !.access = "host"]
             /\ \A a \in Account \ {b} : account'[a] = account[a]
  <2>1. account' = [account EXCEPT ![b].access = "host"]
    BY <1>3 DEF Opens
  <2>2. [account[b] EXCEPT !.access = "host"] \in AccountRow
    BY OpenedFacts
  <2>3. QED
    BY <2>1, <2>2, <1>0
<1>4. ASSUME NEW b \in Account, Deletes(b)
      PROVE  /\ account' \in [Account -> AccountRow]
             /\ account'[b] = NoAccount
             /\ \A a \in Account \ {b} : account'[a] = account[a]
  BY <1>0, <1>4, AccountTypes DEF Deletes
<1>5. account' \in [Account -> AccountRow]
  BY <1>0, <1>1, <1>2, <1>3, <1>4 DEF AccountStep
<1>6. ASSUME NEW a \in Account
      PROVE  /\ account'[a].access = "none" <=> account'[a].generation = 0
             /\ \/ account'[a] = account[a]
                \/ account'[a] = NoAccount
                \/ \E o \in Offer :
                     /\ Confirms(o, a)
                     /\ account[a].generation < MaxOffers
                     /\ account'[a] = Confirmed(o, a)
                \/ /\ \E o \in Offer : Opens(o, a)
                   /\ account'[a] = [account[a] EXCEPT !.access = "host"]
  <2>1. \/ account'[a] = account[a]
        \/ account'[a] = NoAccount
        \/ \E o \in Offer : /\ Confirms(o, a)
                            /\ account[a].generation < MaxOffers
                            /\ account'[a] = Confirmed(o, a)
        \/ /\ \E o \in Offer : Opens(o, a)
           /\ account'[a] = [account[a] EXCEPT !.access = "host"]
    BY <1>1, <1>2, <1>3, <1>4 DEF AccountStep
  <2>2. ASSUME NEW o \in Offer, account[a].generation < MaxOffers,
               account'[a] = Confirmed(o, a)
        PROVE  account'[a].access = "none" <=> account'[a].generation = 0
    BY <2>2, <1>0, ConfirmedFacts
  <2>3. ASSUME NEW o \in Offer, Opens(o, a),
               account'[a] = [account[a] EXCEPT !.access = "host"]
        PROVE  account'[a].access = "none" <=> account'[a].generation = 0
    <3>1. account[a].generation # 0
      BY <2>3, <1>0 DEF Opens, Registered
    <3>2. QED
      BY <2>3, <3>1, OpenedFacts
  <2>4. QED
    BY <2>1, <2>2, <2>3, <1>0 DEF NoAccount
<1>7. QED
  BY <1>5, <1>6

LEMMA RegistrationsNext ==
  ASSUME ConstantsOK, TypeOK, Registrations, OffersStep, AccountStep
  PROVE  Registrations'
<1>0. /\ MaxAccounts \in Nat /\ MaxOffers \in Nat
      /\ \A a \in Account : account[a].generation \in Nat
      /\ IsFiniteSet(Registered) /\ Cardinality(Registered) <= MaxAccounts
      /\ Registered \subseteq Account
  BY AccountTypes DEF Registrations, AccountLimit, Registered
<1>1. account' \in [Account -> AccountRow]
  BY AccountsAfter
<1>2. \A a \in Account : account'[a].generation \in Nat
  BY <1>0, <1>1 DEF AccountRow
<1>3. IsFiniteSet(Registered') /\ Cardinality(Registered') <= MaxAccounts
  <2>1. Cardinality(Registered) \in Nat
    BY <1>0, FS_CardinalityType
  <2>2. CASE Registered' \subseteq Registered
    <3>1. IsFiniteSet(Registered') /\ Cardinality(Registered') <= Cardinality(Registered)
      BY <2>2, <1>0, FS_Subset
    <3>2. Cardinality(Registered') \in Nat
      BY <3>1, FS_CardinalityType
    <3>3. QED
      BY <3>1, <3>2, <2>1, <1>0
  <2>3. ASSUME NEW a \in Account, Room(a), Registered' = Registered \cup {a}
        PROVE  IsFiniteSet(Registered') /\ Cardinality(Registered') <= MaxAccounts
    <3>1. CASE a \in Registered
      BY <3>1, <2>3, <2>2
    <3>2. CASE a \notin Registered
      <4>1. /\ IsFiniteSet(Registered \cup {a})
            /\ Cardinality(Registered \cup {a}) = Cardinality(Registered) + 1
        BY <3>2, <1>0, FS_AddElement
      <4>2. Cardinality(Registered) < MaxAccounts
        BY <3>2, <2>3 DEF Room
      <4>3. QED
        BY <4>1, <4>2, <2>1, <2>3, <1>0
    <3>3. QED
      BY <3>1, <3>2
  <2>4. ASSUME NEW o \in Offer, NEW b \in Account, Confirms(o, b)
        PROVE  Room(b) /\ Registered' = Registered \cup {b}
    <3>1. account' = [account EXCEPT ![b] = Confirmed(o, b)] /\ Room(b)
      BY <2>4 DEF Confirms
    <3>2. /\ account'[b].generation > 0
          /\ \A a \in Account \ {b} : account'[a] = account[a]
      <4>1. account'[b].generation = account[b].generation + 1
        BY <3>1, AccountTypes DEF Confirmed
      <4>2. QED
        BY <3>1, <4>1, <1>0, AccountTypes
    <3>3. QED
      BY <3>1, <3>2 DEF Registered
  <2>5. ASSUME NEW o \in Offer, NEW b \in Account, Opens(o, b)
        PROVE  Registered' \subseteq Registered
    <3>1. account' = [account EXCEPT ![b].access = "host"]
      BY <2>5 DEF Opens
    <3>2. \A a \in Account : account'[a].generation = account[a].generation
      BY <3>1, AccountTypes DEF AccountRow
    <3>3. QED
      BY <3>2 DEF Registered
  <2>6. ASSUME NEW b \in Account, Deletes(b)
        PROVE  Registered' \subseteq Registered
    <3>1. account' = [account EXCEPT ![b] = NoAccount]
      BY <2>6 DEF Deletes
    <3>2. \A a \in Account : account'[a] = account[a] \/ account'[a].generation = 0
      BY <3>1, AccountTypes DEF NoAccount
    <3>3. QED
      BY <3>2 DEF Registered
  <2>7. CASE UNCHANGED account
    BY <2>7, <2>2 DEF Registered
  <2>8. QED
    BY <2>2, <2>3, <2>4, <2>5, <2>6, <2>7 DEF AccountStep
<1>4. \A o \in Offer : offers'[o].candidates # {} => offers'[o].source \in Session
  BY DEF Registrations, Local, OffersStep, Ends, Makes
<1>5. ASSUME NEW a \in Account
      PROVE  account'[a].generation <= Cardinality(ConfirmedIn(offers'))
  <2>1. /\ Cardinality(ConfirmedIn(offers)) \in Nat
        /\ Cardinality(ConfirmedIn(offers')) \in Nat
        /\ Cardinality(ConfirmedIn(offers)) <= Cardinality(ConfirmedIn(offers'))
        /\ (\E o \in Offer : Pending(o) /\ offers'[o].result = "confirmed")
             => Cardinality(ConfirmedIn(offers)) < Cardinality(ConfirmedIn(offers'))
    BY ConfirmationsGrow, <1>0
  <2>2. account[a].generation <= Cardinality(ConfirmedIn(offers)) /\ account[a].generation \in Nat
    BY <1>0 DEF Registrations
  <2>3. ASSUME NEW o \in Offer, Confirms(o, a), account[a].generation < MaxOffers,
               account'[a] = Confirmed(o, a)
        PROVE  account'[a].generation <= Cardinality(ConfirmedIn(offers'))
    <3>1. account'[a].generation = account[a].generation + 1
      BY <2>3, ConfirmedFacts
    <3>2. Cardinality(ConfirmedIn(offers)) < Cardinality(ConfirmedIn(offers'))
      BY <2>1, <2>3 DEF Confirms
    <3>3. QED
      BY <2>1, <2>2, <3>1, <3>2
  <2>4. CASE account'[a].generation = account[a].generation \/ account'[a].generation = 0
    BY <2>1, <2>2, <2>4
  <2>5. account'[a] = NoAccount => account'[a].generation = 0
    BY DEF NoAccount
  <2>6. account'[a] = [account[a] EXCEPT !.access = "host"]
          => account'[a].generation = account[a].generation
    BY OpenedFacts
  <2>7. QED
    BY <2>3, <2>4, <2>5, <2>6, AccountsAfter
<1>6. ASSUME NEW a \in Account, a \in Registered'
      PROVE  account'[a].from \in Offer /\ offers'[account'[a].from].result = "confirmed"
  <2>1. account'[a].generation > 0
    BY <1>6 DEF Registered
  <2>2. ASSUME NEW o \in Offer, Confirms(o, a), account[a].generation < MaxOffers,
               account'[a] = Confirmed(o, a)
        PROVE  account'[a].from \in Offer /\ offers'[account'[a].from].result = "confirmed"
    BY <2>2, ConfirmedFacts DEF Confirms
  <2>3. CASE account'[a].from = account[a].from /\ a \in Registered
    <3>1. account[a].from \in Offer /\ offers[account[a].from].result = "confirmed"
      BY <2>3 DEF Registrations
    <3>2. offers'[account[a].from] = offers[account[a].from]
      BY <3>1 DEF OffersStep, Ends, Makes, Pending
    <3>3. QED
      BY <2>3, <3>1, <3>2
  <2>4. account'[a] = account[a] => a \in Registered
    BY <2>1 DEF Registered
  <2>5. ASSUME NEW o \in Offer, Opens(o, a),
               account'[a] = [account[a] EXCEPT !.access = "host"]
        PROVE  account'[a].from = account[a].from /\ a \in Registered
    BY <2>5, OpenedFacts DEF Opens
  <2>6. account'[a] # NoAccount
    BY <2>1 DEF NoAccount
  <2>7. QED
    BY <2>2, <2>3, <2>4, <2>5, <2>6, AccountsAfter
<1>7. QED
  BY <1>3, <1>4, <1>5, <1>6 DEF Registrations, AccountLimit, Local, ConfirmedIn, Registered

-----------------------------------------------------------------------------
(* Types.                                                                  *)

\* TypeOK of everything but the offers and the accounts.
ManagerTyped ==
  /\ manager \in {"open", "closed", "down"}
  /\ late \subseteq Offer /\ aborted \subseteq Offer
  /\ poll \in [Offer -> {"none", "asking", "sleeping", "pausing", "refreshing"}]
  /\ closings \in 0 .. MaxClosings /\ deletions \in 0 .. MaxDeletions
AskingTyped ==
  /\ begin \in [Source -> {"idle", "asking", "returning"}]
  /\ made \in [Source -> 0 .. MaxOffers]
  /\ session \in [Session -> {"new", "open", "closed"}]
  /\ mine \in [Session -> SUBSET Offer]

LEMMA TypesNext ==
  ASSUME ConstantsOK, TypeOK, Registrations, Owners, OffersStep, AccountStep, Next
  PROVE  TypeOK'
<1>0. /\ MaxClosings \in Nat /\ MaxDeletions \in Nat /\ MaxOffers \in Nat
      /\ Offer \subseteq 0 .. MaxOffers /\ Session \subseteq Source
      /\ ManagerTyped /\ AskingTyped
  BY AccountTypes DEF ConstantsOK, TypeOK, ManagerTyped, AskingTyped, Source
<1>1. ASSUME NEW s \in Session, Terminal(s)
      PROVE  ManagerTyped' /\ AskingTyped'
  <2>1. CASE Connect(s)
    BY <2>1, <1>0 DEF Connect, ManagerTyped, AskingTyped
  <2>2. CASE Disconnect(s)
    BY <2>2, <1>0 DEF Disconnect, ManagerTyped, AskingTyped
  <2>3. CASE BeginReturns(s)
    <3>1. made[s] \in Offer
      BY <2>3 DEF BeginReturns, Owners
    <3>2. QED
      BY <2>3, <3>1, <1>0 DEF BeginReturns, ManagerTyped, AskingTyped
  <2>4. ASSUME NEW o \in Offer, Cancel(s, o)
        PROVE  ManagerTyped' /\ AskingTyped'
    BY <2>4, <1>0 DEF Cancel, ManagerTyped, AskingTyped
  <2>5. ASSUME NEW o \in Offer, Status(s, o)
        PROVE  ManagerTyped' /\ AskingTyped'
    BY <2>5, <1>0 DEF Status, ManagerTyped, AskingTyped
  <2>6. QED
    BY <1>1, <2>1, <2>2, <2>3, <2>4, <2>5 DEF Terminal
<1>2. ASSUME NEW src \in Source, Asking(src)
      PROVE  ManagerTyped' /\ AskingTyped'
  <2>1. CASE OfferAsked(src)
    BY <2>1, <1>0 DEF OfferAsked, ManagerTyped, AskingTyped
  <2>2. CASE OfferFails(src)
    BY <2>2, <1>0 DEF OfferFails, ManagerTyped, AskingTyped
  <2>3. ASSUME NEW o \in Offer, OfferCreated(src, o)
        PROVE  ManagerTyped' /\ AskingTyped'
    BY <2>3, <1>0 DEF OfferCreated, ManagerTyped, AskingTyped
  <2>4. QED
    BY <1>2, <2>1, <2>2, <2>3 DEF Asking
<1>3. ASSUME NEW o \in Offer, Answer(o)
      PROVE  ManagerTyped' /\ AskingTyped'
  <2>1. /\ aborted' = aborted \/ aborted' = aborted \ {o}
        /\ \E where \in {"none", "sleeping", "pausing", "refreshing"} :
             poll' = [poll EXCEPT ![o] = where]
    BY <1>3 DEF Answer, AnswerIgnored, AnswerWait, AnswerFails, AnswerEnds, AnswerBound,
                AnswerConfirmed, Settles, Goes
  <2>2. UNCHANGED <<manager, late, asking, closings, deletions>>
    BY <1>3 DEF Answer, AnswerIgnored, AnswerWait, AnswerFails, AnswerEnds, AnswerBound,
                AnswerConfirmed
  <2>3. QED
    BY <2>1, <2>2, <1>0 DEF asking, ManagerTyped, AskingTyped
<1>4. ASSUME NEW o \in Offer, TimePasses(o) \/ ExpiryTimer(o) \/ RefreshEnds(o) \/ Wake(o) \/ Retry(o)
      PROVE  ManagerTyped' /\ AskingTyped'
  BY <1>4, <1>0 DEF TimePasses, ExpiryTimer, RefreshEnds, Wake, Retry, Settles, Goes, asking,
                    ManagerTyped, AskingTyped
<1>5. ASSUME Cleanup \/ Close
      PROVE  ManagerTyped' /\ AskingTyped'
  <2>1. CASE Cleanup
    BY <2>1, <1>0 DEF Cleanup, ManagerTyped, asking, AskingTyped
  <2>2. CASE Close
    BY <2>2, <1>0 DEF Close, ManagerTyped, asking, AskingTyped
  <2>3. QED
    BY <1>5, <2>1, <2>2
<1>6. ASSUME Closed \/ Crash
      PROVE  ManagerTyped' /\ AskingTyped'
  <2>1. closings' \in 0 .. MaxClosings /\ UNCHANGED <<late, deletions>>
    BY <1>6, <1>0 DEF Closed, Crash, ManagerTyped
  <2>2. Gone
    BY <1>6 DEF Closed, Crash
  <2>3. QED
    BY <2>1, <2>2, <1>0 DEF Gone, ManagerTyped, AskingTyped
<1>7. ASSUME Start
      PROVE  ManagerTyped' /\ AskingTyped'
  <2>1. /\ manager' = "open"
        /\ poll' \in [Offer -> {"none", "asking", "sleeping", "pausing", "refreshing"}]
        /\ UNCHANGED <<late, aborted, closings, deletions>>
    BY <1>7 DEF Start
  <2>2. UNCHANGED <<begin, made, session, mine>>
    BY <1>7 DEF Start, asking
  <2>3. QED
    BY <2>1, <2>2, <1>0 DEF ManagerTyped, AskingTyped
<1>8. ASSUME NEW a \in Account, Delete(a)
      PROVE  ManagerTyped' /\ AskingTyped'
  <2>1. /\ deletions' \in 0 .. MaxDeletions
        /\ UNCHANGED <<manager, late, poll, aborted, closings>>
    BY <1>8, <1>0 DEF Delete, ManagerTyped
  <2>2. UNCHANGED <<begin, made, session, mine>>
    BY <1>8 DEF Delete, asking
  <2>3. QED
    BY <2>1, <2>2, <1>0 DEF ManagerTyped, AskingTyped
<1>9. ManagerTyped' /\ AskingTyped'
  BY <1>1, <1>2, <1>3, <1>4, <1>5, <1>6, <1>7, <1>8 DEF Next
<1>10. /\ account' \in [Account -> AccountRow]
       /\ \A a \in Account : account'[a].access = "none" <=> account'[a].generation = 0
  BY AccountsAfter
<1>11. QED
  BY <1>9, <1>10 DEF TypeOK, ManagerTyped, AskingTyped, OffersStep, Row, AccountRow

-----------------------------------------------------------------------------
(* Polls.                                                                  *)

\* Polls of one offer.
Followed(o) ==
  /\ offers[o].result = "unmade" => poll[o] = "none" /\ o \notin late
  /\ o \in aborted => poll[o] # "none"
  /\ manager = "down" => poll[o] = "none"
  /\ poll[o] = "refreshing" => ~Pending(o)
  /\ manager = "open" /\ Pending(o) /\ o \notin late => poll[o] # "none" /\ o \notin aborted

\* No offer is made: one that is pending may end.
Quiet(o) == \/ offers'[o].result = offers[o].result
            \/ Pending(o) /\ offers'[o].result \in Result

LEMMA QuietlyFollowed ==
  ASSUME NEW o \in Offer, Followed(o), Quiet(o), UNCHANGED <<manager, late>>,
         poll'[o] = poll[o], (o \in aborted') = (o \in aborted)
  PROVE  Followed(o)'
BY ResultFacts DEF Followed, Quiet, Pending

LEMMA QuietlyEnded ==
  ASSUME TypeOK, NEW ended, NEW result \in Result, offers' = Ended(offers, ended, result),
         NEW o \in Offer
  PROVE  /\ Quiet(o) /\ offers'[o].source = offers[o].source
         /\ o \in ended => offers'[o].result # "pending"
<1>1. offers \in [Offer -> Row]
  BY DEF TypeOK, Row
<1>2. /\ offers'[o].source = offers[o].source
      /\ offers'[o].result = IF o \in ended /\ Pending(o) THEN result ELSE offers[o].result
  BY <1>1, OffersEnded
<1>3. QED
  BY <1>2, ResultFacts DEF Quiet, Pending

LEMMA QuietlyExpired ==
  ASSUME TypeOK, offers' = Expired(offers), NEW o \in Offer
  PROVE  /\ Quiet(o) /\ offers'[o].source = offers[o].source
         /\ o \in late => offers'[o].result # "pending"
BY QuietlyEnded, ResultFacts DEF Expired

LEMMA CreatedFacts ==
  ASSUME TypeOK, NEW src \in Source, NEW o \in Offer, OfferCreated(src, o)
  PROVE  /\ offers[o].result = "unmade"
         /\ offers'[o].source = src /\ offers'[o].result = "pending"
         /\ \A p \in Offer \ {o} : Quiet(p) /\ offers'[p].source = offers[p].source
<1>1. PICK candidates \in IF src \in Session THEN {{}} \cup {{a} : a \in Registered} ELSE {{}} :
        offers' = [Expired(offers) EXCEPT
                     ![o] = [source |-> src, result |-> "pending", candidates |-> candidates]]
  BY DEF OfferCreated
<1>2. candidates \in SUBSET Account /\ (candidates # {} => src \in Session)
  BY <1>1 DEF Registered
<1>3. offers[o].result = "unmade" /\ offers \in [Offer -> Row]
  BY DEF OfferCreated, TypeOK, Row
<1>4. /\ OffersStep
      /\ offers'[o].source = src /\ offers'[o].result = "pending"
      /\ \A p \in Offer \ {o} :
           /\ offers'[p].source = offers[p].source
           /\ \/ offers'[p].result = offers[p].result
              \/ Pending(p) /\ offers'[p].result = "expired"
  BY <1>1, <1>2, <1>3, OffersMade
<1>5. QED
  BY <1>3, <1>4, ResultFacts DEF Quiet

\* An offer that has ended, and whose task has settled, needs nothing any more.
LEMMA SettledFollowed ==
  ASSUME NEW o \in Offer, Followed(o), offers'[o].result \in Result,
         o \in aborted' => poll'[o] # "none", manager' = "down" => poll'[o] = "none"
  PROVE  Followed(o)'
BY ResultFacts DEF Followed, Pending

LEMMA TerminalPolls ==
  ASSUME TypeOK, NEW s \in Session, Terminal(s), NEW p \in Offer, Followed(p)
  PROVE  Followed(p)'
<1>1. CASE Connect(s)
  BY <1>1, QuietlyFollowed DEF Connect, Quiet
<1>2. CASE Disconnect(s)
  <2>1. Quiet(p) /\ (p \in mine[s] => offers'[p].result # "pending")
    BY <1>2, QuietlyEnded, ResultFacts DEF Disconnect
  <2>2. UNCHANGED <<manager, late, poll>> /\ aborted' = aborted \cup {o \in mine[s] : poll[o] # "none"}
    BY <1>2 DEF Disconnect
  <2>3. QED
    BY <2>1, <2>2, ResultFacts DEF Followed, Quiet, Pending
<1>3. CASE BeginReturns(s)
  <2>1. CASE UNCHANGED <<offers, aborted>>
    BY <1>3, <2>1, QuietlyFollowed DEF BeginReturns, Quiet
  <2>2. UNCHANGED <<manager, late, poll>>
    BY <1>3 DEF BeginReturns
  <2>3. ASSUME offers' = Ended(offers, {made[s]}, "cancelled"),
               aborted' = aborted \cup {o \in {made[s]} : poll[o] # "none"}
        PROVE  Followed(p)'
    <3>1. Quiet(p) /\ (p = made[s] => offers'[p].result # "pending")
      BY <2>3, QuietlyEnded, ResultFacts
    <3>2. QED
      BY <3>1, <2>2, <2>3, ResultFacts DEF Followed, Quiet, Pending
  <2>4. QED
    BY <1>3, <2>1, <2>3 DEF BeginReturns
<1>4. ASSUME NEW o \in Offer, Cancel(s, o)
      PROVE  Followed(p)'
  <2>1. Quiet(p) /\ (p = o => offers'[p].result # "pending")
    BY <1>4, QuietlyEnded, ResultFacts DEF Cancel
  <2>2. /\ UNCHANGED <<manager, late, poll>>
        /\ aborted' = aborted \cup {q \in {o} : poll[q] # "none"}
    BY <1>4 DEF Cancel
  <2>3. QED
    BY <2>1, <2>2, ResultFacts DEF Followed, Quiet, Pending
<1>5. ASSUME NEW o \in Offer, Status(s, o)
      PROVE  Followed(p)'
  <2>1. Quiet(p)
    BY <1>5, QuietlyExpired DEF Status
  <2>2. /\ UNCHANGED <<manager, late, poll>>
        /\ aborted' = aborted \cup {q \in {o} : poll[q] # "none" /\ ~Active(q)}
    BY <1>5 DEF Status
  <2>3. QED
    BY <2>1, <2>2, ResultFacts DEF Followed, Quiet, Pending, Active
<1>6. QED
  BY <1>1, <1>2, <1>3, <1>4, <1>5 DEF Terminal

LEMMA AskingPolls ==
  ASSUME TypeOK, NEW src \in Source, Asking(src), NEW p \in Offer, Followed(p),
         manager = "down" => begin[src] = "idle"
  PROVE  Followed(p)'
<1>1. CASE OfferAsked(src)
  BY <1>1, QuietlyFollowed, QuietlyExpired DEF OfferAsked
<1>2. CASE OfferFails(src)
  BY <1>2, QuietlyFollowed DEF OfferFails, Quiet
<1>3. ASSUME NEW o \in Offer, OfferCreated(src, o)
      PROVE  Followed(p)'
  <2>1. /\ offers[o].result = "unmade" /\ offers'[o].result = "pending"
        /\ p # o => Quiet(p)
    BY <1>3, CreatedFacts
  <2>2. /\ UNCHANGED <<manager, late, aborted>> /\ manager # "down"
        /\ poll'[o] = IF manager = "open" THEN "asking" ELSE "none"
        /\ p # o => poll'[p] = poll[p]
    BY <1>3 DEF OfferCreated, TypeOK
  <2>3. CASE p = o
    BY <2>1, <2>2, <2>3 DEF Followed, Pending
  <2>4. CASE p # o
    BY <2>1, <2>2, <2>4, QuietlyFollowed
  <2>5. QED
    BY <2>3, <2>4
<1>4. QED
  BY <1>1, <1>2, <1>3 DEF Asking

LEMMA TaskPolls ==
  ASSUME TypeOK, NEW o \in Offer, Answer(o) \/ ExpiryTimer(o) \/ RefreshEnds(o) \/ Wake(o) \/ Retry(o),
         NEW p \in Offer, Followed(p)
  PROVE  Followed(p)'
<1>0. /\ poll \in [Offer -> {"none", "asking", "sleeping", "pausing", "refreshing"}]
      /\ aborted \subseteq Offer
  BY DEF TypeOK
<1>1. \/ UNCHANGED offers
      \/ offers' = Expired(offers)
      \/ \E result \in Result : offers' = Ended(offers, {o}, result)
  BY ResultFacts DEF Answer, AnswerIgnored, AnswerWait, AnswerFails, AnswerEnds, AnswerBound,
     AnswerConfirmed, ExpiryTimer, RefreshEnds, Wake, Retry
<1>2. Quiet(p)
  BY <1>1, QuietlyEnded, QuietlyExpired DEF Quiet
<1>3. UNCHANGED <<manager, late>>
  BY DEF Answer, AnswerIgnored, AnswerWait, AnswerFails, AnswerEnds, AnswerBound,
     AnswerConfirmed, ExpiryTimer, RefreshEnds, Wake, Retry
<1>4. CASE p # o
  <2>1. /\ poll'[p] = poll[p]
        /\ p \in aborted' <=> p \in aborted
    BY <1>0, <1>4 DEF Answer, AnswerIgnored, AnswerWait, AnswerFails, AnswerEnds, AnswerBound,
       AnswerConfirmed, ExpiryTimer, RefreshEnds, Wake, Retry, Settles, Goes
  <2>2. QED
    BY <2>1, <1>2, <1>3, QuietlyFollowed
<1>5. CASE p = o
  <2>1. CASE AnswerIgnored(o)
    <3>1. /\ o \in aborted \/ ~Active(o)
          /\ poll'[o] = "none" /\ o \notin aborted' /\ UNCHANGED offers
      BY <2>1, <1>0 DEF AnswerIgnored, Settles
    <3>2. QED
      BY <3>1, <1>3, <1>5 DEF Followed, Active, Pending
  <2>2. CASE AnswerWait(o) \/ AnswerFails(o)
    <3>1. /\ Active(o) /\ poll[o] = "asking" /\ o \notin aborted
          /\ poll'[o] \in {"sleeping", "pausing"} /\ o \notin aborted'
      BY <2>2, <1>0 DEF AnswerWait, AnswerFails, Answered, Goes
    <3>2. QED
      BY <3>1, <1>2, <1>3, <1>5, ResultFacts DEF Followed, Quiet, Active, Pending
  <2>3. CASE AnswerEnds(o)
    <3>1. /\ \E result \in Result : offers' = Ended(offers, {o}, result)
          /\ poll'[o] = "none" /\ o \notin aborted' /\ Active(o)
      BY <2>3, <1>0, ResultFacts DEF AnswerEnds, Answered, Settles
    <3>2. QED
      BY <3>1, <1>2, <1>3, <1>5, QuietlyEnded, ResultFacts DEF Followed, Quiet, Active, Pending
  <2>4. CASE AnswerBound(o)
    <3>1. Active(o) /\ poll[o] = "asking" /\ o \notin aborted
      BY <2>4 DEF AnswerBound, Answered
    <3>2. CASE UNCHANGED offers /\ Goes(o, "pausing")
      <4>1. poll'[o] = "pausing" /\ UNCHANGED aborted
        BY <3>2, <1>0 DEF Goes
      <4>2. QED
        BY <4>1, <3>1, <3>2, <1>3, <1>5 DEF Followed, Active, Pending
    <3>3. ASSUME NEW result \in Result, offers' = Ended(offers, {o}, result), Settles(o)
          PROVE  Followed(p)'
      <4>1. poll'[o] = "none" /\ o \notin aborted'
        BY <3>3, <1>0 DEF Settles
      <4>2. QED
        BY <4>1, <3>1, <3>3, <1>2, <1>3, <1>5, QuietlyEnded, ResultFacts
        DEF Followed, Quiet, Active, Pending
    <3>4. QED
      BY <2>4, <3>2, <3>3, ResultFacts DEF AnswerBound
  <2>5. ASSUME NEW a \in Account, AnswerConfirmed(o, a)
        PROVE  Followed(p)'
    <3>1. /\ Active(o) /\ poll[o] = "asking" /\ o \notin aborted
          /\ \E result \in Result : offers' = Ended(offers, {o}, result)
      BY <2>5, ResultFacts DEF AnswerConfirmed, Answered
    <3>2. o \notin aborted' /\ poll'[o] \in {"none", "refreshing"}
      BY <2>5, <3>1, <1>0 DEF AnswerConfirmed, Goes, Settles
    <3>3. offers'[o].result \in Result /\ manager # "down"
      BY <3>1, <1>2, <1>5, QuietlyEnded DEF Quiet, Pending, Active, Followed
    <3>4. QED
      BY <3>2, <3>3, <1>3, <1>5, ResultFacts DEF Followed, Pending
  <2>6. CASE ExpiryTimer(o)
    <3>1. /\ offers' = Ended(offers, {o}, "expired") /\ UNCHANGED poll /\ poll[o] # "none"
          /\ aborted' = aborted \cup {o}
      BY <2>6 DEF ExpiryTimer
    <3>2. QED
      BY <3>1, <1>2, <1>3, <1>5, QuietlyEnded, ResultFacts DEF Followed, Quiet, Pending
  <2>7. CASE RefreshEnds(o)
    <3>1. poll[o] = "refreshing" /\ poll'[o] = "none" /\ o \notin aborted'
      BY <2>7, <1>0 DEF RefreshEnds, Settles
    <3>2. QED
      BY <3>1, <1>2, <1>3, <1>5, ResultFacts DEF Followed, Quiet, Pending
  <2>8. CASE Wake(o) \/ Retry(o)
    <3>1. CASE /\ o \notin aborted \cup late /\ poll'[o] = "asking"
               /\ UNCHANGED <<offers, aborted>>
      <4>1. poll[o] # "none" /\ poll[o] # "refreshing"
        BY <2>8 DEF Wake, Retry
      <4>2. QED
        BY <3>1, <4>1, <1>3, <1>5 DEF Followed, Pending
    <3>2. CASE /\ o \in aborted \cup late /\ poll'[o] = "none" /\ o \notin aborted'
      BY <3>2, <1>2, <1>3, <1>5, <2>8, ResultFacts DEF Wake, Retry, Followed, Quiet, Pending
    <3>3. QED
      <4>1. CASE Wake(o)
        BY <4>1, <3>1, <3>2, <1>0 DEF Wake, Goes, Settles
      <4>2. CASE Retry(o)
        BY <4>2, <3>1, <3>2, <1>0 DEF Retry, Goes, Settles
      <4>3. QED
        BY <2>8, <4>1, <4>2
  <2>9. QED
    BY <2>1, <2>2, <2>3, <2>4, <2>5, <2>6, <2>7, <2>8 DEF Answer
<1>6. QED
  BY <1>4, <1>5

LEMMA ManagerPolls ==
  ASSUME TypeOK, Cleanup \/ Close \/ Closed \/ Crash \/ Start, NEW p \in Offer, Followed(p)
  PROVE  Followed(p)'
<1>1. CASE Cleanup
  BY <1>1, QuietlyFollowed, QuietlyExpired DEF Cleanup
<1>2. CASE Close
  <2>1. /\ manager' = "closed" /\ UNCHANGED <<offers, late, poll>>
        /\ p \in aborted' => poll[p] # "none"
    BY <1>2 DEF Close
  <2>2. QED
    BY <2>1 DEF Followed, Pending
<1>3. ASSUME Gone, UNCHANGED late, offers'[p].result = "unmade" => offers[p].result = "unmade"
      PROVE  Followed(p)'
  <2>1. poll'[p] = "none" /\ p \notin aborted' /\ manager' = "down"
    BY <1>3 DEF Gone
  <2>2. QED
    BY <2>1, <1>3 DEF Followed
<1>4. CASE Crash
  BY <1>4, <1>3 DEF Crash
<1>5. CASE Closed \/ Start
  <2>1. /\ offers' = Ended(Expired(offers), {o \in Offer : Local(o)}, "cancelled")
        /\ UNCHANGED late /\ offers \in [Offer -> Row]
    BY <1>5 DEF Closed, Start, TypeOK, Row
  <2>2. offers'[p].result = IF p \in late /\ Pending(p) THEN "expired"
                            ELSE IF p \in {o \in Offer : Local(o)} /\ Pending(p) THEN "cancelled"
                            ELSE offers[p].result
    BY <2>1, OffersClosed
  <2>3. offers'[p].result = "unmade" => offers[p].result = "unmade"
    BY <2>2
  <2>4. CASE Closed
    BY <2>1, <2>3, <2>4, <1>3 DEF Closed
  <2>5. CASE Start
    <3>1. /\ manager' = "open" /\ UNCHANGED aborted
          /\ poll'[p] = IF Active(p) /\ ~Local(p) THEN "asking" ELSE "none"
          /\ p \notin aborted
      BY <2>5 DEF Start, Followed
    <3>2. QED
      BY <2>1, <2>2, <3>1 DEF Followed, Pending, Active
  <2>6. QED
    BY <1>5, <2>4, <2>5
<1>6. QED
  BY <1>1, <1>2, <1>4, <1>5

LEMMA PollsNext ==
  ASSUME TypeOK, TypeOK', Polls, Owners, Next
  PROVE  Polls'
<1>1. \A p \in Offer : Followed(p)
  BY DEF Polls, NoForgottenOffer, ActiveOffers, Active, Followed
<1>2. ASSUME NEW p \in Offer
      PROVE  Followed(p)'
  <2>1. Followed(p)
    BY <1>1
  <2>2. ASSUME NEW o \in Offer, TimePasses(o)
        PROVE  Followed(p)'
    BY <2>1, <2>2 DEF TimePasses, Followed, Pending, Active
  <2>3. ASSUME NEW a \in Account, Delete(a)
        PROVE  Followed(p)'
    BY <2>1, <2>3 DEF Delete, Followed, Pending
  <2>4. manager = "down" => \A src \in Source : begin[src] = "idle"
    BY DEF Owners
  <2>5. QED
    BY <2>1, <2>2, <2>3, <2>4, TerminalPolls, AskingPolls, TaskPolls, ManagerPolls DEF Next
<1>3. aborted' \subseteq Offer
  BY DEF TypeOK
<1>4. QED
  BY <1>2, <1>3 DEF Polls, NoForgottenOffer, ActiveOffers, Active, Followed, Pending

-----------------------------------------------------------------------------
(* Owners.                                                                 *)

\* Owners for one offer, and for one terminal.
Owned(o) ==
  Pending(o) => /\ offers[o].source \in Source
                /\ manager # "down" /\ Local(o) => AnsweredFor(o)
Owner(s) ==
  /\ mine[s] # {} => session[s] = "open"
  /\ begin[s] = "returning" => made[s] \in Offer

\* The owners stay when nobody asks, the manager stays up or down, and offers at most end.
LEMMA OwnersKept ==
  ASSUME Owners, UNCHANGED asking, manager' = "down" <=> manager = "down",
         \A o \in Offer : Quiet(o) /\ offers'[o].source = offers[o].source
  PROVE  Owners'
<1>1. UNCHANGED <<begin, made, session, mine>>
  BY DEF asking
<1>2. ASSUME NEW o \in Offer
      PROVE  /\ Pending(o)' => Pending(o)
             /\ offers'[o].source = offers[o].source
  BY ResultFacts DEF Quiet, Pending
<1>3. QED
  BY <1>1, <1>2 DEF Owners, AnsweredFor, Local

LEMMA OwnersOfAll ==
  /\ Owners <=> /\ \A o \in Offer : Owned(o)
                /\ \A s \in Session : Owner(s)
                /\ manager = "down" => \A src \in Source : begin[src] = "idle"
  /\ Owners' <=> /\ \A o \in Offer : Owned(o)'
                 /\ \A s \in Session : Owner(s)'
                 /\ manager' = "down" => \A src \in Source : begin'[src] = "idle"
BY DEF Owners, Owned, Owner, Pending, Local, AnsweredFor

LEMMA TerminalOwners ==
  ASSUME TypeOK, Owners, NEW s \in Session, Terminal(s)
  PROVE  Owners'
<1>0. /\ session \in [Session -> {"new", "open", "closed"}] /\ mine \in [Session -> SUBSET Offer]
      /\ begin \in [Source -> {"idle", "asking", "returning"}] /\ s \in Source
      /\ \A o \in Offer : Owned(o)
      /\ \A t \in Session : Owner(t)
      /\ manager = "down" => \A src \in Source : begin[src] = "idle"
  BY OwnersOfAll DEF TypeOK, Source
<1>1. manager' = "down" => \A src \in Source : begin'[src] = "idle"
  BY <1>0 DEF Terminal, Connect, Disconnect, BeginReturns, Cancel, Status
<1>2. ASSUME NEW t \in Session
      PROVE  Owner(t)'
  <2>1. Owner(t) /\ made' = made /\ (begin'[t] = "returning" => begin[t] = "returning")
    <3>1. begin' = begin \/ begin' = [begin EXCEPT ![s] = "idle"]
      BY DEF Terminal, Connect, Disconnect, BeginReturns, Cancel, Status
    <3>2. made' = made
      BY DEF Terminal, Connect, Disconnect, BeginReturns, Cancel, Status
    <3>3. Owner(t) /\ t \in Source
      BY <1>0 DEF Source
    <3>4. QED
      BY <1>0, <3>1, <3>2, <3>3
  <2>2. CASE t # s
    <3>1. mine'[t] = mine[t] /\ session'[t] = session[t]
      BY <2>2, <1>0 DEF Terminal, Connect, Disconnect, BeginReturns, Cancel, Status
    <3>2. QED
      BY <2>1, <3>1 DEF Owner
  <2>3. CASE t = s
    <3>1. CASE Connect(s) \/ Disconnect(s)
      BY <2>1, <2>3, <3>1, <1>0 DEF Connect, Disconnect, Owner
    <3>2. CASE BeginReturns(s)
      BY <2>1, <2>3, <3>2, <1>0 DEF BeginReturns, Owner
    <3>3. CASE \E o \in Offer : Cancel(s, o) \/ Status(s, o)
      BY <2>1, <2>3, <3>3, <1>0 DEF Cancel, Status, Owner
    <3>4. QED
      BY <3>1, <3>2, <3>3 DEF Terminal
  <2>4. QED
    BY <2>2, <2>3
<1>3. ASSUME NEW p \in Offer
      PROVE  Owned(p)'
  <2>0. Owned(p)
    BY <1>0
  <2>1. CASE Connect(s)
    BY <2>0, <2>1 DEF Connect, Owned, Pending, Local, AnsweredFor
  <2>2. CASE Disconnect(s)
    <3>1. /\ Quiet(p) /\ offers'[p].source = offers[p].source
          /\ p \in mine[s] => offers'[p].result # "pending"
      BY <2>2, QuietlyEnded, ResultFacts DEF Disconnect
    <3>2. /\ UNCHANGED <<manager, begin, made>>
          /\ \A t \in Session \ {s} : mine'[t] = mine[t]
      BY <2>2, <1>0 DEF Disconnect
    <3>3. QED
      BY <2>0, <3>1, <3>2, ResultFacts DEF Owned, Pending, Local, AnsweredFor, Quiet
  <2>3. CASE BeginReturns(s)
    <3>1. /\ UNCHANGED <<manager, made>>
          /\ \A t \in Session \ {s} : begin'[t] = begin[t]
      BY <2>3, <1>0 DEF BeginReturns, Source
    <3>2. CASE UNCHANGED offers /\ mine' = [mine EXCEPT ![s] = @ \cup {made[s]}]
      BY <2>0, <3>1, <3>2, <1>0 DEF Owned, Pending, Local, AnsweredFor
    <3>3. CASE offers' = Ended(offers, {made[s]}, "cancelled") /\ UNCHANGED mine
      <4>1. /\ Quiet(p) /\ offers'[p].source = offers[p].source
            /\ p = made[s] => offers'[p].result # "pending"
        BY <3>3, QuietlyEnded, ResultFacts
      <4>2. QED
        BY <2>0, <3>1, <3>3, <4>1, ResultFacts DEF Owned, Pending, Local, AnsweredFor, Quiet
    <3>4. QED
      BY <2>3, <3>2, <3>3 DEF BeginReturns
  <2>4. ASSUME NEW o \in Offer, Cancel(s, o)
        PROVE  Owned(p)'
    <3>1. /\ Quiet(p) /\ offers'[p].source = offers[p].source
          /\ p = o => offers'[p].result # "pending"
      BY <2>4, QuietlyEnded, ResultFacts DEF Cancel
    <3>2. /\ UNCHANGED <<manager, begin, made>>
          /\ \A t \in Session : mine[t] \ {o} \subseteq mine'[t]
      BY <2>4, <1>0 DEF Cancel
    <3>3. QED
      BY <2>0, <3>1, <3>2, ResultFacts DEF Owned, Pending, Local, AnsweredFor, Quiet
  <2>5. ASSUME NEW o \in Offer, Status(s, o)
        PROVE  Owned(p)'
    <3>1. /\ Quiet(p) /\ offers'[p].source = offers[p].source
          /\ p \in late => offers'[p].result # "pending"
      BY <2>5, QuietlyExpired DEF Status
    <3>2. /\ UNCHANGED <<manager, begin, made>>
          /\ \A t \in Session : mine[t] \ {q \in {o} : ~Active(q)} \subseteq mine'[t]
      BY <2>5, <1>0 DEF Status
    <3>3. QED
      BY <2>0, <3>1, <3>2, ResultFacts DEF Owned, Pending, Local, AnsweredFor, Quiet, Active
  <2>6. QED
    BY <2>1, <2>2, <2>3, <2>4, <2>5 DEF Terminal
<1>4. QED
  BY <1>1, <1>2, <1>3, OwnersOfAll

LEMMA AskingOwners ==
  ASSUME TypeOK, Owners, NEW src \in Source, Asking(src)
  PROVE  Owners'
<1>0. /\ mine \in [Session -> SUBSET Offer] /\ made \in [Source -> 0 .. MaxOffers]
      /\ begin \in [Source -> {"idle", "asking", "returning"}] /\ Session \subseteq Source
      /\ \A o \in Offer : Owned(o)
      /\ \A t \in Session : Owner(t)
      /\ manager = "down" => \A q \in Source : begin[q] = "idle"
  BY OwnersOfAll DEF TypeOK, Source
<1>1. manager' = "down" => \A q \in Source : begin'[q] = "idle"
  BY <1>0 DEF Asking, OfferAsked, OfferFails, OfferCreated
<1>2. ASSUME NEW t \in Session
      PROVE  Owner(t)'
  BY <1>0 DEF Asking, OfferAsked, OfferFails, OfferCreated, Owner
<1>3. ASSUME NEW p \in Offer
      PROVE  Owned(p)'
  <2>0. Owned(p)
    BY <1>0
  <2>1. CASE OfferAsked(src)
    <3>1. Quiet(p) /\ offers'[p].source = offers[p].source
      BY <2>1, QuietlyExpired DEF OfferAsked
    <3>2. /\ UNCHANGED <<manager, made, mine>>
          /\ \A t \in Session : begin[t] = "returning" => begin'[t] = "returning"
      BY <2>1, <1>0 DEF OfferAsked
    <3>3. QED
      BY <2>0, <3>1, <3>2, ResultFacts DEF Owned, Pending, Local, AnsweredFor, Quiet
  <2>2. CASE OfferFails(src)
    <3>1. /\ UNCHANGED <<manager, offers, made, mine>>
          /\ \A t \in Session : begin[t] = "returning" => begin'[t] = "returning"
      BY <2>2, <1>0 DEF OfferFails
    <3>2. QED
      BY <2>0, <3>1 DEF Owned, Pending, Local, AnsweredFor
  <2>3. ASSUME NEW o \in Offer, OfferCreated(src, o)
        PROVE  Owned(p)'
    <3>1. /\ offers'[o].source = src
          /\ p # o => Quiet(p) /\ offers'[p].source = offers[p].source
      BY <2>3, CreatedFacts
    <3>2. /\ UNCHANGED <<manager, mine>>
          /\ made'[src] = o
          /\ src \in Session => begin'[src] = "returning"
          /\ begin[src] = "asking"
          /\ \A t \in Session \ {src} : begin'[t] = begin[t] /\ made'[t] = made[t]
      BY <2>3, <1>0 DEF OfferCreated
    <3>3. CASE p = o
      BY <3>1, <3>2, <3>3 DEF Owned, Local, AnsweredFor
    <3>4. CASE p # o
      BY <2>0, <3>1, <3>2, <3>4, ResultFacts DEF Owned, Pending, Local, AnsweredFor, Quiet
    <3>5. QED
      BY <3>3, <3>4
  <2>4. QED
    BY <2>1, <2>2, <2>3 DEF Asking
<1>4. QED
  BY <1>1, <1>2, <1>3, OwnersOfAll

LEMMA OwnersNext ==
  ASSUME TypeOK, Owners, Next
  PROVE  Owners'
<1>1. ASSUME NEW o \in Offer,
             Answer(o) \/ ExpiryTimer(o) \/ RefreshEnds(o) \/ Wake(o) \/ Retry(o) \/ TimePasses(o)
      PROVE  Owners'
  <2>1. \/ UNCHANGED offers
        \/ offers' = Expired(offers)
        \/ \E result \in Result : offers' = Ended(offers, {o}, result)
    BY <1>1, ResultFacts DEF Answer, AnswerIgnored, AnswerWait, AnswerFails, AnswerEnds, AnswerBound,
       AnswerConfirmed, ExpiryTimer, RefreshEnds, Wake, Retry, TimePasses
  <2>2. \A p \in Offer : Quiet(p) /\ offers'[p].source = offers[p].source
    BY <2>1, QuietlyEnded, QuietlyExpired DEF Quiet
  <2>3. UNCHANGED <<manager, asking>>
    BY <1>1 DEF Answer, AnswerIgnored, AnswerWait, AnswerFails, AnswerEnds, AnswerBound,
       AnswerConfirmed, ExpiryTimer, RefreshEnds, Wake, Retry, TimePasses
  <2>4. QED
    BY <2>2, <2>3, OwnersKept
<1>2. CASE Cleanup
  BY <1>2, OwnersKept, QuietlyExpired DEF Cleanup
<1>3. CASE Close
  BY <1>3, OwnersKept DEF Close, Quiet
<1>4. ASSUME Gone, \A p \in Offer : Quiet(p) /\ offers'[p].source = offers[p].source
      PROVE  Owners'
  <2>1. /\ manager' = "down"
        /\ \A src \in Source : begin'[src] = "idle"
        /\ \A s \in Session : mine'[s] = {} /\ begin'[s] = "idle"
    BY <1>4 DEF Gone, Source
  <2>2. \A p \in Offer : Pending(p)' => offers'[p].source \in Source
    BY <1>4, ResultFacts DEF Quiet, Pending, Owners
  <2>3. QED
    BY <2>1, <2>2 DEF Owners
<1>5. CASE Crash
  BY <1>5, <1>4 DEF Crash, Quiet
<1>6. ASSUME Closed \/ Start, NEW p \in Offer
      PROVE  /\ Quiet(p) /\ offers'[p].source = offers[p].source
             /\ Local(p) => offers'[p].result # "pending"
  <2>1. /\ offers' = Ended(Expired(offers), {o \in Offer : Local(o)}, "cancelled")
        /\ offers \in [Offer -> Row]
    BY <1>6 DEF Closed, Start, TypeOK, Row
  <2>2. /\ offers'[p].source = offers[p].source
        /\ offers'[p].result = IF p \in late /\ Pending(p) THEN "expired"
                               ELSE IF p \in {o \in Offer : Local(o)} /\ Pending(p) THEN "cancelled"
                               ELSE offers[p].result
    BY <2>1, OffersClosed
  <2>3. QED
    BY <2>2, ResultFacts DEF Quiet, Pending
<1>7. CASE Closed
  BY <1>7, <1>6, <1>4 DEF Closed
<1>8. CASE Start
  <2>1. UNCHANGED <<begin, made, session, mine>> /\ manager' = "open"
    BY <1>8 DEF Start, asking
  <2>2. \A p \in Offer : Pending(p)' => Pending(p) /\ ~Local(p)' /\ offers'[p].source = offers[p].source
    BY <1>8, <1>6, ResultFacts DEF Quiet, Pending, Local
  <2>3. QED
    BY <2>1, <2>2 DEF Owners
<1>9. ASSUME NEW a \in Account, Delete(a)
      PROVE  Owners'
  BY <1>9, OwnersKept DEF Delete, Quiet
<1>10. QED
  BY <1>1, <1>2, <1>3, <1>5, <1>7, <1>8, <1>9, TerminalOwners, AskingOwners DEF Next

-----------------------------------------------------------------------------
(* Theorems.                                                               *)

LEMMA InvInit ==
  ASSUME ConstantsOK, Init
  PROVE  Inv
<1>1. MaxOffers \in Nat /\ MaxAccounts \in Nat /\ MaxClosings \in Nat /\ MaxDeletions \in Nat
  BY DEF ConstantsOK
<1>2. Unmade \in Row /\ Unmade.result = "unmade" /\ Unmade.candidates = {}
  BY DEF Unmade, Row
<1>3. /\ NoAccount \in AccountRow
      /\ NoAccount.generation = 0 /\ NoAccount.access = "none"
  BY <1>1 DEF NoAccount, AccountRow
<1>4. /\ \A o \in Offer : offers[o] = Unmade
      /\ \A a \in Account : account[a] = NoAccount
  BY DEF Init
<1>5. TypeOK
  <2>1. offers \in [Offer -> Row] /\ account \in [Account -> AccountRow]
    BY <1>2, <1>3 DEF Init
  <2>2. /\ closings \in 0 .. MaxClosings /\ deletions \in 0 .. MaxDeletions
        /\ made \in [Source -> 0 .. MaxOffers]
    BY <1>1 DEF Init
  <2>3. \A a \in Account : account[a].access = "none" <=> account[a].generation = 0
    BY <1>3, <1>4
  <2>4. QED
    BY <2>1, <2>2, <2>3 DEF Init, TypeOK, Row, AccountRow
<1>6. Registrations
  <2>1. Registered = {}
    BY <1>3, <1>4 DEF Registered
  <2>2. IsFiniteSet(Registered) /\ Cardinality(Registered) = 0
    BY <2>1, FS_EmptySet
  <2>3. ConfirmedIn(offers) = {}
    BY <1>2, <1>4 DEF ConfirmedIn
  <2>4. Cardinality(ConfirmedIn(offers)) = 0
    BY <2>3, FS_EmptySet
  <2>5. \A o \in Offer : offers[o].candidates = {}
    BY <1>2, <1>4
  <2>6. \A a \in Account : account[a].generation <= Cardinality(ConfirmedIn(offers))
    BY <1>3, <1>4, <2>4
  <2>7. QED
    BY <2>1, <2>2, <2>5, <2>6, <1>1 DEF Registrations, AccountLimit
<1>7. Polls
  BY <1>2, <1>4 DEF Init, Polls, NoForgottenOffer, Pending
<1>8. Owners
  BY <1>2, <1>4 DEF Init, Owners, Pending, Source
<1>9. QED
  BY <1>5, <1>6, <1>7, <1>8 DEF Inv

LEMMA InvNext ==
  ASSUME ConstantsOK, Inv, [Next]_vars
  PROVE  Inv'
<1>1. CASE Next
  <2>1. TypeOK /\ Registrations /\ Polls /\ Owners
    BY DEF Inv
  <2>2. OffersStep /\ AccountStep
    BY <1>1, <2>1, StepsOnOffers, StepsOnAccounts
  <2>3. TypeOK'
    BY <1>1, <2>1, <2>2, TypesNext
  <2>4. Registrations'
    BY <2>1, <2>2, RegistrationsNext
  <2>5. Polls'
    BY <1>1, <2>1, <2>3, PollsNext
  <2>6. Owners'
    BY <1>1, <2>1, OwnersNext
  <2>7. QED
    BY <2>3, <2>4, <2>5, <2>6 DEF Inv
<1>2. CASE UNCHANGED vars
  <2>1. UNCHANGED <<manager, offers, late, poll, aborted, account, begin, made, session, mine,
                    closings, deletions>>
    BY <1>2 DEF vars, asking
  <2>2. TypeOK'
    BY <2>1 DEF Inv, TypeOK
  <2>3. Registrations'
    BY <2>1 DEF Inv, Registrations, Registered, AccountLimit, Local, ConfirmedIn
  <2>4. Polls'
    BY <2>1 DEF Inv, Polls, Pending, NoForgottenOffer, ActiveOffers, Active
  <2>5. Owners'
    BY <2>1 DEF Inv, Owners, Pending, Local, AnsweredFor
  <2>6. QED
    BY <2>2, <2>3, <2>4, <2>5 DEF Inv
<1>3. QED
  BY <1>1, <1>2

\* Enrollment never leaves its types and its inductive invariant: every account registered is
\* backed by a confirmed offer, every live offer by a task, every local one by a terminal.
THEOREM EnrollmentInv ==
  ASSUME ConstantsOK
  PROVE  Spec => []Inv
<1>1. Init => Inv
  BY InvInit
<1>2. Inv /\ [Next]_vars => Inv'
  BY InvNext
<1>3. QED
  BY <1>1, <1>2, PTL DEF Spec

\* There are never more accounts than maxAccounts, whatever terminals and conversations
\* are told (confirmEnrollment of sqlite-store.ts counts again in its transaction).
THEOREM AccountsStayWithinLimit ==
  ASSUME ConstantsOK
  PROVE  Spec => []AccountLimit
<1>1. Inv => AccountLimit
  BY DEF Inv, Registrations
<1>2. QED
  BY <1>1, EnrollmentInv, PTL

\* No account works with the credentials of an offer that was cancelled or had expired.
THEOREM CredentialsComeFromConfirmations ==
  ASSUME ConstantsOK
  PROVE  Spec => []CredentialsAreConfirmed
<1>1. Inv => CredentialsAreConfirmed
  BY DEF Inv, Registrations, CredentialsAreConfirmed
<1>2. QED
  BY <1>1, EnrollmentInv, PTL

\* While the manager is open every offer that is still good has its poll, and nobody has
\* aborted it.
THEOREM OffersArePolled ==
  ASSUME ConstantsOK
  PROVE  Spec => []NoForgottenOffer
<1>1. Inv => NoForgottenOffer
  BY DEF Inv, Polls
<1>2. QED
  BY <1>1, EnrollmentInv, PTL

\* The offer of a terminal that is gone is cancelled, or the call that created it is about to
\* find out.
THEOREM OffersAreNotOrphaned ==
  ASSUME ConstantsOK
  PROVE  Spec => []NoOrphanedOffer
<1>1. Inv => NoOrphanedOffer
  <2>1. SUFFICES ASSUME Inv, manager = "open", NEW o \in Offer, Pending(o), Local(o),
                        session[offers[o].source] = "closed"
                 PROVE  begin[offers[o].source] = "returning"
    BY DEF NoOrphanedOffer
  <2>2. mine[offers[o].source] = {}
    BY <2>1 DEF Inv, Owners, Local
  <2>3. AnsweredFor(o)
    BY <2>1 DEF Inv, Owners
  <2>4. QED
    BY <2>2, <2>3 DEF AnsweredFor
<1>2. QED
  BY <1>1, EnrollmentInv, PTL

\* What an offer ended as is final: no later answer, refresh, cancellation, expiry or restart
\* rewrites its audit entry.
THEOREM ResultsAreFinal ==
  ASSUME ConstantsOK
  PROVE  Spec => ResultIsFinal
<1>1. Inv /\ [Next]_vars
        => [\A o \in Offer : offers[o].result \in Result => offers'[o].result = offers[o].result]_vars
  <2>1. SUFFICES ASSUME Inv, Next, NEW o \in Offer, offers[o].result \in Result
                 PROVE  offers'[o].result = offers[o].result
    OBVIOUS
  <2>2. OffersStep
    BY <2>1, StepsOnOffers DEF Inv
  <2>3. QED
    BY <2>1, <2>2, ResultFacts DEF OffersStep, Ends, Makes, Pending
<1>2. QED
  BY <1>1, EnrollmentInv, PTL DEF Spec, ResultIsFinal

\* An account gets the host only while a terminal's offer is being settled; a conversation that
\* confirms keeps what there was, or begins restricted.
THEOREM HostOpensLocally ==
  ASSUME ConstantsOK
  PROVE  Spec => HostIsLocal
<1>1. Inv /\ [Next]_vars
        => [\A a \in Account :
              account[a].access # "host" /\ account'[a].access = "host"
                => \E o \in Offer : Pending(o) /\ Local(o) /\ offers'[o].result # "pending"]_vars
  <2>1. SUFFICES ASSUME Inv, Next, NEW a \in Account,
                        account[a].access # "host", account'[a].access = "host"
                 PROVE  \E o \in Offer : Pending(o) /\ Local(o) /\ offers'[o].result # "pending"
    OBVIOUS
  <2>2. TypeOK /\ Registrations
    BY <2>1 DEF Inv
  <2>3. OffersStep /\ AccountStep
    BY <2>1, <2>2, StepsOnOffers, StepsOnAccounts
  <2>4. \/ account'[a] = account[a]
        \/ account'[a] = NoAccount
        \/ \E o \in Offer : /\ Confirms(o, a)
                            /\ account[a].generation < MaxOffers
                            /\ account'[a] = Confirmed(o, a)
        \/ /\ \E o \in Offer : Opens(o, a)
           /\ account'[a] = [account[a] EXCEPT !.access = "host"]
    BY <2>2, <2>3, AccountsAfter
  <2>5. NoAccount.access # "host"
    BY DEF NoAccount
  <2>6. ASSUME NEW o \in Offer, Confirms(o, a), account[a].generation < MaxOffers,
               account'[a] = Confirmed(o, a)
        PROVE  Pending(o) /\ Local(o) /\ offers'[o].result # "pending"
    <3>1. Access(o, a) = "host"
      BY <2>1, <2>2, <2>6, ConfirmedFacts
    <3>2. QED
      BY <3>1, <2>1, <2>6 DEF Access, Confirms
  <2>7. ASSUME NEW o \in Offer, Opens(o, a)
        PROVE  Pending(o) /\ Local(o) /\ offers'[o].result # "pending"
    BY <2>7 DEF Opens
  <2>8. QED
    BY <2>1, <2>4, <2>5, <2>6, <2>7
<1>2. QED
  BY <1>1, EnrollmentInv, PTL DEF Spec, HostIsLocal

\* Offers are followed to their end, by their polls and by their terminals, and what an account
\* works with is what one of them confirmed.
THEOREM OffersAreAccountedFor ==
  ASSUME ConstantsOK
  PROVE  Spec => []OffersAreFollowed
<1> QED
  BY CredentialsComeFromConfirmations, OffersArePolled, OffersAreNotOrphaned, PTL
  DEF OffersAreFollowed

\* No step rewrites what an offer ended as, and none but a terminal's confirmation opens the
\* host to an account.
THEOREM OffersEndSoundly ==
  ASSUME ConstantsOK
  PROVE  Spec => OffersChangeSoundly
<1> QED
  BY ResultsAreFinal, HostOpensLocally DEF OffersChangeSoundly
=============================================================================
