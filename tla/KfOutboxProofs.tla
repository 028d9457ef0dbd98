--------------------------- MODULE KfOutboxProofs ---------------------------
(***************************************************************************)
(* Theorems about KfOutbox for any customers, accounts, messages and tool   *)
(* calls, any budget, and any number of sessions, crashes and reports.      *)
(*                                                                         *)
(* The inductive invariant Inv has one sender for every send under way      *)
(* (Flows), what a message was sent before and after it is put away         *)
(* (Budgeted, PutAway), what a session has seen (Reached), what the drain   *)
(* has looked at (Looked) and what a streak stands for (Streaks).  First    *)
(* what each step makes of the rows of send_attempts, of those who carry    *)
(* them and of the types; then what it makes of the other parts of Inv, one *)
(* part after the other; then the theorems.                                *)
(***************************************************************************)
EXTENDS KfOutbox, SequenceTheorems, FiniteSetTheorems, WellFoundedInduction, TLAPS

\* A tool call or the drain that has a send under way.
Flying(f) == f.at \in {"sending", "answered"}
Carries(f, att, ps) ==
  /\ f.attempt \in DOMAIN att
  /\ att[f.attempt].status = "sending"
  /\ f.at = "sending" => ps[f.attempt] = 0

\* Every send under way has a sender of its own and was handed over by nobody else.
Flows(att, ps, cl, dr) ==
  /\ \A k \in Call : Flying(cl[k]) => Carries(cl[k], att, ps)
  /\ Flying(dr) => Carries(dr, att, ps)
  /\ \A k, l \in Call :
       k # l /\ Flying(cl[k]) /\ Flying(cl[l]) => cl[k].attempt # cl[l].attempt
  /\ \A k \in Call : Flying(cl[k]) /\ Flying(dr) => cl[k].attempt # dr.attempt
  /\ \A a \in DOMAIN att : att[a].status = "pending" => ps[a] = 0
  /\ \A a \in DOMAIN att : ps[a] <= 1

\* A message that has just come, from a customer who is not authorized, was sent nothing, so
\* that its confirmation finds the budget untouched.
Budgeted ==
  /\ SendBudget
  /\ \A m \in Message :
       Has(m, {"absent"}) \/ (Has(m, {"received"}) /\ ~Authorized(m)) => AttemptsOf(m, attempts) = {}

\* Tool sends never wait, so that what is put away stays settled and answered.
PutAway ==
  /\ \A a \in DOMAIN attempts :
       attempts[a].source = "mcp_tool" => attempts[a].status # "pending"
  /\ CompletedIsSettled /\ AbsorbedIsAnswered

\* A turn and a tool call are of a message that was started.
Turning ==
  /\ \A m \in turn : ~Has(m, {"absent", "received", "steered"})
  /\ \A k \in Call : call[k].at # "idle" => call[k].message \in Message

\* The session of a running message reaches as far as its turn.
Reached ==
  \A m \in Message :
    session[m].state = "open" /\ Has(m, {"active"}) => session[m].boundary \in Group(m) \cup {m}

\* A drain that ends without another kick has looked at everything that is pending.
Looked ==
  /\ closed # "closed"
  /\ \/ drain.at = "off" /\ ~kickDue
     \/ drain.at \in {"returned", "ended"} /\ ~rerun
  => With(attempts, "pending") \subseteq passed

\* A streak counts the last messages that were evaluated: triggers in one account.
Streaks ==
  \A p \in Peer :
    LET s == evaluated[p]
        n == authorization[p].streak
    IN  /\ n <= Len(s)
        /\ authorization[p].authorized <=> n >= Required
        /\ \A i \in Len(s) - n + 1 .. Len(s) :
             s[i] \in Trigger /\ AccountOf[s[i]] = authorization[p].account

Inv ==
  /\ TypeOK /\ Flows(attempts, posts, call, drain) /\ ReportedFailureSticks
  /\ Budgeted /\ PutAway /\ Turning /\ Reached /\ Looked /\ Streaks

\* What a row may become.
Forward(s, t) ==
  \/ s = t
  \/ s = "pending" /\ t \in {"sending", "failed"}
  \/ s = "sending" /\ t \in Terminal
  \/ s = "accepted" /\ t = "failed"
Kept(a, att) ==
  /\ a \in DOMAIN att
  /\ att[a].message = attempts[a].message /\ att[a].source = attempts[a].source
  /\ att[a].direction = attempts[a].direction
  /\ Forward(attempts[a].status, att[a].status)
New(a) == a = Len(attempts) + 1
Evolved(att) ==
  /\ att \in Seq(Attempt)
  /\ \A a \in DOMAIN attempts : Kept(a, att)
  /\ \A a \in DOMAIN att : a \in DOMAIN attempts \/ New(a)

\* The rows with a new one at most.
Extended(att, ps) ==
  /\ att \in Seq(Attempt) /\ ps \in [DOMAIN att -> Nat]
  /\ \A a \in DOMAIN attempts : a \in DOMAIN att /\ att[a] = attempts[a] /\ ps[a] = posts[a]
  /\ \A a \in DOMAIN att : a \in DOMAIN attempts \/ (New(a) /\ ps[a] = 0)

-----------------------------------------------------------------------------
(* Lemmas about the helpers.                                               *)

LEMMA Least ==
  ASSUME NEW S \in SUBSET Nat, S # {}
  PROVE  \E x \in S : \A y \in S : x <= y
<1>1. IsWellFoundedOn(OpToRel(<, Nat), Nat)
  BY NatLessThanWellFounded
<1>2. PICK x \in S : \A y \in S : ~ (<<y, x>> \in OpToRel(<, Nat))
  BY ONLY <1>1, WFMin, S \in SUBSET Nat, S # {}, Zenon
<1>3. \A y \in S : ~ (y < x)
  BY <1>2 DEF OpToRel
<1> QED BY <1>3

LEMMA Greatest ==
  ASSUME NEW n \in Nat, NEW S \in SUBSET (1 .. n), S # {}
  PROVE  \E x \in S : \A y \in S : y <= x
<1> DEFINE T == {n - y : y \in S}
<1>1. \A y \in S : n - y \in Nat
  OBVIOUS
<1>2. T \in SUBSET Nat /\ T # {}
  BY <1>1
<1>3. PICK x \in T : \A y \in T : x <= y
  BY <1>2, Least
<1>4. PICK z \in S : x = n - z
  BY <1>3
<1>5. \A y \in S : n - z <= n - y
  BY <1>3, <1>4
<1> QED BY <1>4, <1>5

\* The newest message of a turn is one of its messages.
LEMMA NewestOfGroup ==
  ASSUME ConstantsOK, NEW m \in Message
  PROVE  /\ Newest(m) \in Group(m) \cup {m} /\ Newest(m) \in Message
         /\ \A y \in Group(m) \cup {m} : y <= Newest(m)
<1> DEFINE G == Group(m) \cup {m}
<1>1. G \in SUBSET (1 .. Messages) /\ G # {} /\ Messages \in Nat
  BY DEF Group, Message, ConstantsOK
<1>2. \E x \in G : \A y \in G : y <= x
  BY <1>1, Greatest
<1>3. Newest(m) \in G /\ \A y \in G : y <= Newest(m)
  BY <1>2 DEF Newest
<1> QED BY <1>1, <1>3 DEF Message

\* Functions on the rows are rows again.
LEMMA MappedRows ==
  ASSUME NEW att \in Seq(Attempt), NEW f \in [DOMAIN att -> Attempt]
  PROVE  f \in Seq(Attempt) /\ DOMAIN f = DOMAIN att /\ Len(f) = Len(att)
BY LenProperties, IsASeq

\* What #insertAttempt adds.
LEMMA InsertExtends ==
  ASSUME attempts \in Seq(Attempt), posts \in [DOMAIN attempts -> Nat], NEW row \in Attempt
  PROVE  /\ Extended(Append(attempts, row), Append(posts, 0))
         /\ Len(attempts) + 1 \in DOMAIN Append(attempts, row)
         /\ Append(attempts, row)[Len(attempts) + 1] = row
         /\ (Append(posts, 0))[Len(attempts) + 1] = 0
<1> DEFINE n == Len(attempts)
           att == Append(attempts, row)
           ps == Append(posts, 0)
<1>1. n \in Nat /\ DOMAIN attempts = 1 .. n
  BY LenProperties
<1>2. posts \in Seq(Nat) /\ Len(posts) = n
  BY <1>1, IsASeq, LenProperties
<1>3. /\ att \in Seq(Attempt) /\ DOMAIN att = 1 .. n + 1
      /\ \A i \in 1 .. n : att[i] = attempts[i]
      /\ att[n + 1] = row
  BY <1>1, AppendProperties, LenProperties
<1>4. /\ ps \in Seq(Nat) /\ Len(ps) = n + 1
      /\ \A i \in 1 .. n : ps[i] = posts[i]
      /\ ps[n + 1] = 0
  BY <1>1, <1>2, AppendProperties
<1>5. ps \in [1 .. n + 1 -> Nat]
  BY <1>1, <1>4, LenProperties
<1> HIDE DEF ps, att
<1> QED BY <1>1, <1>3, <1>4, <1>5 DEF Extended, New, att, ps

LEMMA SameExtends ==
  ASSUME attempts \in Seq(Attempt), posts \in [DOMAIN attempts -> Nat]
  PROVE  Extended(attempts, posts)
BY DEF Extended

\* What a drain does with the rows att: it ends, or claims one of them.
Passed(att) ==
  /\ drain' = [NoDrain EXCEPT !.at = "returned"] /\ attempts' = att
  /\ passed' = passed \cup With(att, "pending")
Claimed(att, a) ==
  /\ a \in DOMAIN att /\ att[a].status = "pending"
  /\ drain' = [NoDrain EXCEPT !.at = "sending", !.attempt = a]
  /\ attempts' = [att EXCEPT ![a].status = "sending"]
  /\ passed' = passed
Begun(att) == Passed(att) \/ \E a \in DOMAIN att : Claimed(att, a)

LEMMA DrainBegins ==
  ASSUME NEW att \in Seq(Attempt), Drain(att)
  PROVE  Begun(att)
<1>1. CASE closed = "closed" \/ Claimable(att) = {}
  BY <1>1 DEF Drain, Begun, Passed
<1>2. CASE ~(closed = "closed" \/ Claimable(att) = {})
  <2> DEFINE a == CHOOSE a \in Claimable(att) : \A b \in Claimable(att) : a <= b
  <2>1. Claimable(att) \in SUBSET Nat
    BY LenProperties DEF Claimable, With
  <2>2. a \in Claimable(att)
    BY <1>2, <2>1, Least
  <2>3. a \in DOMAIN att /\ att[a].status = "pending"
    BY <2>2 DEF Claimable, With
  <2>4. Claimed(att, a)
    BY <1>2, <2>3 DEF Drain, Claimed
  <2> QED BY <2>3, <2>4 DEF Begun
<1> QED BY <1>1, <1>2

\* What a kick does with the rows att.
Ignored(att) ==
  /\ attempts' = att /\ UNCHANGED <<drain, passed>>
  /\ \/ closed = "closed" /\ rerun' = rerun
     \/ closed # "closed" /\ drain.at # "off" /\ rerun' = TRUE
Started(att) == closed # "closed" /\ drain.at = "off" /\ rerun' = FALSE /\ Begun(att)
Kicked(att) == Ignored(att) \/ Started(att)

LEMMA KickStarts ==
  ASSUME NEW att \in Seq(Attempt), Kick(att)
  PROVE  Kicked(att)
BY DrainBegins DEF Kick, Kicked, Ignored, Started

-----------------------------------------------------------------------------
(* The rows of send_attempts.                                              *)

RowsOK == attempts \in Seq(Attempt) /\ posts \in [DOMAIN attempts -> Nat]
NextRowsOK == Evolved(attempts') /\ posts' \in [DOMAIN attempts' -> Nat]

LEMMA ExtendedEvolves ==
  ASSUME RowsOK, NEW att, NEW ps, Extended(att, ps)
  PROVE  Evolved(att)
BY DEF RowsOK, Extended, Evolved, Kept, Forward

\* The state of the drain, with rows numbered as in D.
DrainState(D) ==
  [at : {"off", "sending", "answered", "looping", "returned", "ended"},
   attempt : {0} \cup D, verdict : Verdict]

LEMMA BegunRows ==
  ASSUME RowsOK, passed \in SUBSET DOMAIN attempts,
         NEW att, NEW ps, Extended(att, ps), Begun(att)
  PROVE  /\ Evolved(attempts') /\ DOMAIN attempts' = DOMAIN att
         /\ drain' \in DrainState(DOMAIN attempts')
         /\ passed' \in SUBSET DOMAIN attempts'
<1>0. passed \in SUBSET DOMAIN att
  BY DEF Extended
<1>1. CASE Passed(att)
  <2>1. Evolved(attempts') /\ attempts' = att /\ drain' \in DrainState(DOMAIN att)
    BY <1>1, ExtendedEvolves DEF Passed, NoDrain, DrainState, Verdict
  <2>2. passed' \in SUBSET DOMAIN att
    BY <1>0, <1>1 DEF Passed, With
  <2> QED BY <2>1, <2>2
<1>2. ASSUME NEW a \in DOMAIN att, Claimed(att, a)
      PROVE  /\ Evolved(attempts') /\ DOMAIN attempts' = DOMAIN att
             /\ drain' \in DrainState(DOMAIN attempts')
             /\ passed' \in SUBSET DOMAIN attempts'
  <2>1. att \in Seq(Attempt) /\ att[a] \in Attempt
    BY ElementOfSeq, LenProperties DEF Extended
  <2>2. [att[a] EXCEPT !.status = "sending"] \in Attempt
    BY <2>1 DEF Attempt, InFlight
  <2>3. attempts' \in Seq(Attempt) /\ DOMAIN attempts' = DOMAIN att
    <3>1. attempts' = [att EXCEPT ![a] = [att[a] EXCEPT !.status = "sending"]]
      BY <1>2 DEF Claimed
    <3>2. attempts' \in [DOMAIN att -> Attempt]
      BY <2>1, <2>2, <3>1, ElementOfSeq, LenProperties
    <3> QED BY <2>1, <3>2, MappedRows
  <2>4. /\ attempts'[a] = [att[a] EXCEPT !.status = "sending"]
        /\ \A b \in DOMAIN att : b # a => attempts'[b] = att[b]
    BY <1>2 DEF Claimed
  <2>5. att[a].status = "pending"
    BY <1>2 DEF Claimed
  <2>6. ASSUME NEW b \in DOMAIN attempts PROVE Kept(b, attempts')
    <3>1. b \in DOMAIN att /\ att[b] = attempts[b]
      BY DEF Extended
    <3>2. CASE b = a
      BY <2>1, <2>3, <2>4, <2>5, <3>1, <3>2 DEF Kept, Forward, Attempt
    <3>3. CASE b # a
      BY <2>3, <2>4, <3>1, <3>3 DEF Kept, Forward
    <3> QED BY <3>2, <3>3
  <2>7. Evolved(attempts')
    BY <2>3, <2>6 DEF Evolved, Extended
  <2>8. drain' \in DrainState(DOMAIN attempts')
    BY <1>2, <2>3 DEF Claimed, NoDrain, DrainState, Verdict
  <2>9. passed' \in SUBSET DOMAIN attempts'
    BY <1>0, <1>2, <2>3 DEF Claimed
  <2> QED BY <2>3, <2>7, <2>8, <2>9
<1> QED BY <1>1, <1>2 DEF Begun

LEMMA KickedRows ==
  ASSUME RowsOK, NEW att, NEW ps, Extended(att, ps), Kicked(att),
         passed \in SUBSET DOMAIN attempts, drain \in DrainState(DOMAIN attempts)
  PROVE  /\ Evolved(attempts') /\ DOMAIN attempts' = DOMAIN att
         /\ drain' \in DrainState(DOMAIN attempts')
         /\ passed' \in SUBSET DOMAIN attempts'
<1>1. CASE Ignored(att)
  <2>1. DOMAIN attempts \subseteq DOMAIN att
    BY DEF Extended
  <2> QED BY <1>1, <2>1, ExtendedEvolves DEF Ignored, DrainState
<1>2. CASE Started(att)
  BY <1>2, BegunRows DEF Started
<1> QED BY <1>1, <1>2 DEF Kicked

\* Rows of which every one moves forward in place.
LEMMA MappedEvolves ==
  ASSUME RowsOK, NEW att, att \in [DOMAIN attempts -> Attempt],
         \A a \in DOMAIN attempts : Kept(a, att)
  PROVE  Evolved(att) /\ DOMAIN att = DOMAIN attempts
BY MappedRows DEF RowsOK, Evolved

LEMMA RowTypes ==
  ASSUME RowsOK
  PROVE  /\ \A a \in DOMAIN attempts : attempts[a] \in Attempt
         /\ \A a \in DOMAIN attempts, s \in InFlight \cup Terminal :
              [attempts[a] EXCEPT !.status = s] \in Attempt
<1>1. \A a \in DOMAIN attempts : attempts[a] \in Attempt
  BY ElementOfSeq, LenProperties DEF RowsOK
<1> QED BY <1>1 DEF Attempt

LEMMA FinishedRows ==
  ASSUME RowsOK, NEW a \in DOMAIN attempts, attempts[a].status = "sending",
         NEW o \in {"accepted", "failed", "uncertain"}
  PROVE  /\ Evolved(Finished(a, o)) /\ DOMAIN Finished(a, o) = DOMAIN attempts
         /\ Finished(a, o)[a].status \in Terminal
         /\ Finished(a, o)[a].status = "accepted" => a \notin failures
         /\ \A b \in DOMAIN attempts : b # a => Finished(a, o)[b] = attempts[b]
<1> DEFINE s == IF o = "accepted" /\ a \in failures THEN "failed" ELSE o
           att == Finished(a, o)
<1>1. att = [attempts EXCEPT ![a].status = s]
  BY DEF Finished
<1>2. s \in Terminal /\ (s = "accepted" => a \notin failures)
  BY DEF Terminal
<1> HIDE DEF s, att
<1>3. /\ att[a] = [attempts[a] EXCEPT !.status = s]
      /\ \A b \in DOMAIN attempts : b # a => att[b] = attempts[b]
      /\ DOMAIN att = DOMAIN attempts
  BY <1>1
<1>4. /\ attempts[a] \in Attempt /\ att[a] \in Attempt /\ att[a].status = s
      /\ \A b \in DOMAIN attempts : attempts[b] \in Attempt
  BY <1>2, <1>3, RowTypes DEF Attempt
<1>5. att \in [DOMAIN attempts -> Attempt]
  BY <1>1, <1>3, <1>4
<1>6. \A b \in DOMAIN attempts : Kept(b, att)
  BY <1>2, <1>3, <1>4 DEF Kept, Forward, Attempt
<1>7. Evolved(att)
  BY <1>5, <1>6, MappedEvolves
<1> QED BY <1>2, <1>3, <1>4, <1>7 DEF att

LEMMA DeliveryRows ==
  ASSUME RowsOK, NEW a \in DOMAIN attempts,
         attempts' = [attempts EXCEPT ![a].status = IF @ = "accepted" THEN "failed" ELSE @]
  PROVE  /\ Evolved(attempts') /\ DOMAIN attempts' = DOMAIN attempts
         /\ attempts'[a].status # "accepted"
         /\ attempts[a].status # "accepted" => attempts'[a] = attempts[a]
         /\ \A b \in DOMAIN attempts : b # a => attempts'[b] = attempts[b]
<1> DEFINE s == IF attempts[a].status = "accepted" THEN "failed" ELSE attempts[a].status
<1>1. attempts' = [attempts EXCEPT ![a].status = s]
  OBVIOUS
<1>2. attempts[a] \in Attempt /\ \A b \in DOMAIN attempts : attempts[b] \in Attempt
  BY RowTypes
<1>3. s \in InFlight \cup Terminal /\ Forward(attempts[a].status, s) /\ s # "accepted"
      /\ (attempts[a].status # "accepted" => s = attempts[a].status)
  BY <1>2 DEF Attempt, Terminal, Forward
<1> HIDE DEF s
<1>4. /\ attempts'[a] = [attempts[a] EXCEPT !.status = s]
      /\ \A b \in DOMAIN attempts : b # a => attempts'[b] = attempts[b]
      /\ DOMAIN attempts' = DOMAIN attempts
  BY <1>1
<1>5. attempts'[a] \in Attempt /\ attempts'[a].status = s
  BY <1>2, <1>3, <1>4, RowTypes DEF Attempt
<1>6. attempts' \in [DOMAIN attempts -> Attempt]
  BY <1>1, <1>2, <1>4, <1>5
<1>7. \A b \in DOMAIN attempts : Kept(b, attempts')
  BY <1>2, <1>3, <1>4, <1>5 DEF Kept, Forward, Attempt
<1>8. Evolved(attempts') /\ DOMAIN attempts' = DOMAIN attempts
  BY <1>6, <1>7, MappedEvolves
<1>9. attempts[a].status # "accepted" => attempts'[a] = attempts[a]
  BY <1>2, <1>3, <1>4 DEF Attempt
<1> QED BY <1>3, <1>4, <1>5, <1>8, <1>9

\* Rows that #suppressGroup or recoverStartup change: those in state s, to t.
LEMMA MovedRows ==
  ASSUME RowsOK, NEW s, NEW t \in InFlight \cup Terminal, Forward(s, t),
         NEW C, NEW att,
         att = [a \in DOMAIN attempts |->
                  IF a \in C /\ attempts[a].status = s
                  THEN [attempts[a] EXCEPT !.status = t] ELSE attempts[a]]
  PROVE  /\ Evolved(att) /\ DOMAIN att = DOMAIN attempts
         /\ \A a \in DOMAIN attempts :
              /\ att[a].message = attempts[a].message /\ att[a].source = attempts[a].source
              /\ att[a].direction = attempts[a].direction
              /\ IF a \in C /\ attempts[a].status = s
                 THEN att[a].status = t ELSE att[a].status = attempts[a].status
<1>1. DOMAIN att = DOMAIN attempts
  OBVIOUS
<1>2. \A a \in DOMAIN attempts :
        att[a] = IF a \in C /\ attempts[a].status = s
                 THEN [attempts[a] EXCEPT !.status = t] ELSE attempts[a]
  OBVIOUS
<1>3. \A a \in DOMAIN attempts :
        /\ att[a].message = attempts[a].message /\ att[a].source = attempts[a].source
        /\ att[a].direction = attempts[a].direction
        /\ IF a \in C /\ attempts[a].status = s
           THEN att[a].status = t ELSE att[a].status = attempts[a].status
  BY <1>2, RowTypes DEF Attempt
<1>4. att \in [DOMAIN attempts -> Attempt]
  BY <1>2, RowTypes
<1>5. \A a \in DOMAIN attempts : Kept(a, att)
  BY <1>1, <1>3 DEF Kept, Forward
<1> QED BY <1>1, <1>3, <1>4, <1>5, MappedEvolves

-----------------------------------------------------------------------------
(* The steps, by what they change.                                         *)

DrainStep ==
  \/ DrainNext \/ DrainReturned \/ DrainEnded \/ StartupKick
  \/ BeginClose \/ FinishClose \/ Abort
CallStep(k) == Reserve(k) \/ Refuse(k) \/ \E m \in Message : Execute(k, m)
TurnStep(m) ==
  \/ Arrive(m) \/ StartTurn(m) \/ SessionExpires(m)
  \/ Finalize(m) \/ Supersede(m) \/ TurnFails(m) \/ \E x \in Message : Steer(m, x)

LEMMA StepKinds ==
  ASSUME Next
  PROVE  \/ DrainStep \/ DrainPosted \/ DrainReturns \/ Restart
         \/ \E a \in DOMAIN attempts : DeliveryFails(a)
         \/ \E k \in Call : CallPosted(k) \/ CallReturns(k) \/ CallStep(k)
         \/ \E m \in Message : Evaluate(m) \/ QueueNotice(m) \/ TurnStep(m)
BY DEF Next, Transmission, DrainStep, CallStep, TurnStep

\* The drain goes on with the rows as they are, or changes none of them.
Idles ==
  /\ attempts' = attempts
  /\ \/ drain' = drain
     \/ ~Flying(drain) /\ drain' \in {NoDrain, [NoDrain EXCEPT !.at = "ended"]}
LEMMA DrainSteps ==
  ASSUME RowsOK, DrainStep
  PROVE  /\ UNCHANGED <<inbox, provider, turn, call, posts, bounds>>
         /\ (Idles /\ passed' = passed) \/ (~Flying(drain) /\ Begun(attempts))
<1>0. attempts \in Seq(Attempt)
  BY DEF RowsOK
<1>1. CASE DrainNext
  BY <1>0, <1>1, DrainBegins DEF DrainNext, Flying
<1>2. CASE DrainReturned
  BY <1>0, <1>2, DrainBegins DEF DrainReturned, Flying, Idles, NoDrain
<1>3. CASE DrainEnded
  BY <1>0, <1>3, DrainBegins DEF DrainEnded, Flying, Idles, NoDrain
<1>4. ASSUME Kick(attempts)
      PROVE  (Idles /\ passed' = passed) \/ (~Flying(drain) /\ Begun(attempts))
  BY <1>0, <1>4, KickStarts DEF Kicked, Ignored, Started, Idles, Flying
<1>5. CASE StartupKick
  BY <1>4, <1>5 DEF StartupKick
<1>6. CASE BeginClose
  BY <1>4, <1>6 DEF BeginClose
<1>7. CASE FinishClose
  BY <1>7 DEF FinishClose, Idles
<1>8. CASE Abort
  BY <1>8 DEF Abort, Idles
<1> QED BY <1>1, <1>2, <1>3, <1>5, <1>6, <1>7, <1>8 DEF DrainStep

\* A queue notice or a confirmation is inserted as the last row, and the drain kicked.
Note(row) ==
  /\ posts' = Append(posts, 0)
  /\ Kick(Append(attempts, row))
  /\ row \in Attempt /\ row.status = "pending" /\ row.source # "mcp_tool"
NoteOf(m, source) == [message |-> m, source |-> source, status |-> "pending", direction |-> 0]
LEMMA NoteRow ==
  ASSUME ConstantsOK, NEW m \in Message, NEW source \in {"queue_notice", "authorization"}
  PROVE  /\ NoteOf(m, source) \in Attempt /\ NoteOf(m, source).status = "pending"
         /\ NoteOf(m, source).source # "mcp_tool" /\ NoteOf(m, source).message = m
BY DEF NoteOf, Attempt, Source, InFlight, ConstantsOK, Message

\* What a step makes of the rows and of the drain.
RowsStep ==
  /\ Evolved(attempts') /\ posts' \in [DOMAIN attempts' -> Nat]
  /\ drain' \in DrainState(DOMAIN attempts') /\ passed' \in SUBSET DOMAIN attempts'
Typed ==
  RowsOK /\ drain \in DrainState(DOMAIN attempts) /\ passed \in SUBSET DOMAIN attempts

LEMMA TypedRows ==
  ASSUME TypeOK
  PROVE  Typed
BY DEF TypeOK, Typed, RowsOK, DrainState

LEMMA SameRows ==
  ASSUME Typed, attempts' = attempts, posts' = posts
  PROVE  Evolved(attempts') /\ posts' \in [DOMAIN attempts' -> Nat]
BY DEF Typed, RowsOK, Evolved, Kept, Forward

LEMMA NoteRows ==
  ASSUME Typed, NEW row, Note(row)
  PROVE  RowsStep
<1> DEFINE att == Append(attempts, row)
           ps == Append(posts, 0)
<1>1. Extended(att, ps) /\ att \in Seq(Attempt) /\ ps \in [DOMAIN att -> Nat]
  BY InsertExtends DEF Typed, RowsOK, Note, Extended
<1>2. Kicked(att)
  BY <1>1, KickStarts DEF Note
<1>3. posts' = ps
  BY DEF Note
<1> HIDE DEF att, ps
<1> QED BY <1>1, <1>2, <1>3, KickedRows DEF Typed, RowsStep

LEMMA DrainRows ==
  ASSUME Typed, DrainStep
  PROVE  RowsStep
<1>1. posts' = posts /\ ((Idles /\ passed' = passed) \/ Begun(attempts))
  BY DrainSteps DEF Typed
<1>2. CASE Begun(attempts)
  BY <1>1, <1>2, SameExtends, BegunRows DEF Typed, RowsOK, RowsStep
<1>3. CASE Idles /\ passed' = passed
  <2>1. drain' \in DrainState(DOMAIN attempts)
    BY <1>3 DEF Idles, Typed, NoDrain, DrainState, Verdict
  <2> QED BY <1>1, <1>3, <2>1, SameRows DEF Idles, RowsStep, Typed
<1> QED BY <1>1, <1>2, <1>3

\* A send is handed over, or its result recorded, by the one that carries it.
LEMMA Carried ==
  ASSUME Flows(attempts, posts, call, drain)
  PROVE  /\ \A k \in Call : Flying(call[k]) =>
              call[k].attempt \in DOMAIN attempts /\ attempts[call[k].attempt].status = "sending"
         /\ Flying(drain) =>
              drain.attempt \in DOMAIN attempts /\ attempts[drain.attempt].status = "sending"
BY DEF Flows, Carries

LEMMA Outcomes ==
  ASSUME NEW f
  PROVE  Outcome(f) \subseteq {"accepted", "failed", "uncertain"}
BY DEF Outcome

LEMMA PostRows ==
  ASSUME Typed, NEW a \in DOMAIN attempts, NEW v, Post(a, v), attempts' = attempts
  PROVE  Evolved(attempts') /\ posts' \in [DOMAIN attempts' -> Nat]
<1>1. Evolved(attempts')
  BY DEF Typed, RowsOK, Evolved, Kept, Forward
<1> QED BY <1>1 DEF Post, Typed, RowsOK

LEMMA FinishRows ==
  ASSUME Typed, NEW a \in DOMAIN attempts, attempts[a].status = "sending", NEW f,
         NEW o \in Outcome(f), Finish(a, o), posts' = posts
  PROVE  /\ Evolved(attempts') /\ DOMAIN attempts' = DOMAIN attempts
         /\ posts' \in [DOMAIN attempts' -> Nat]
         /\ attempts'[a].status \in Terminal
         /\ attempts'[a].status = "accepted" => a \notin failures
         /\ \A b \in DOMAIN attempts : b # a => attempts'[b] = attempts[b]
BY Outcomes, FinishedRows DEF Typed, RowsOK, Finish

LEMMA SuppressRows ==
  ASSUME Typed, NEW m, Suppress(m)
  PROVE  /\ Evolved(attempts') /\ DOMAIN attempts' = DOMAIN attempts
         /\ \A a \in DOMAIN attempts :
              \/ attempts'[a].status = attempts[a].status
              \/ attempts[a].status = "pending" /\ attempts'[a].status = "failed"
<1>1. attempts' = [a \in DOMAIN attempts |->
                     IF a \in AttemptsOf(m, attempts) /\ attempts[a].status = "pending"
                     THEN [attempts[a] EXCEPT !.status = "failed"] ELSE attempts[a]]
  BY DEF Suppress, AttemptsOf
<1>2. "failed" \in InFlight \cup Terminal /\ Forward("pending", "failed") /\ RowsOK
  BY DEF Terminal, Forward, Typed
<1> QED BY <1>1, <1>2, MovedRows

LEMMA RecoveredRows ==
  ASSUME RowsOK
  PROVE  /\ Evolved(Recovered) /\ DOMAIN Recovered = DOMAIN attempts
         /\ \A a \in DOMAIN attempts :
              /\ Recovered[a].message = attempts[a].message
              /\ IF attempts[a].status = "sending" THEN Recovered[a].status = "interrupted"
                 ELSE Recovered[a].status = attempts[a].status
<1>1. Recovered = [a \in DOMAIN attempts |->
                     IF a \in DOMAIN attempts /\ attempts[a].status = "sending"
                     THEN [attempts[a] EXCEPT !.status = "interrupted"] ELSE attempts[a]]
  BY DEF Recovered
<1>2. "interrupted" \in InFlight \cup Terminal /\ Forward("sending", "interrupted")
  BY DEF Terminal, Forward
<1> QED BY <1>1, <1>2, MovedRows

LEMMA ReserveRow ==
  ASSUME ConstantsOK, Typed, NEW m \in Message, NEW d \in Message,
         Insert(m, "mcp_tool", "sending", d)
  PROVE  /\ Extended(attempts', posts') /\ Evolved(attempts')
         /\ Len(attempts) + 1 \in DOMAIN attempts'
         /\ attempts'[Len(attempts) + 1].status = "sending"
         /\ attempts'[Len(attempts) + 1].message = m
         /\ posts'[Len(attempts) + 1] = 0
<1> DEFINE row == [message |-> m, source |-> "mcp_tool", status |-> "sending", direction |-> d]
<1>1. row \in Attempt /\ row.status = "sending" /\ row.message = m
  BY DEF Attempt, Source, InFlight, ConstantsOK, Message
<1> HIDE DEF row
<1>2. attempts' = Append(attempts, row) /\ posts' = Append(posts, 0)
  BY DEF Insert, row
<1> QED BY <1>1, <1>2, InsertExtends, ExtendedEvolves DEF Typed, RowsOK

LEMMA StepRows ==
  ASSUME ConstantsOK, Inv, Next
  PROVE  RowsStep
<1>0. /\ Typed /\ RowsOK /\ Flows(attempts, posts, call, drain) /\ Turning
      /\ drain \in DrainState(DOMAIN attempts) /\ passed \in SUBSET DOMAIN attempts
  BY TypedRows DEF Inv, Typed
<1>1. CASE DrainStep
  BY <1>0, <1>1, DrainRows
<1>2. CASE DrainPosted
  <2>1. PICK v : Post(drain.attempt, v) /\ drain' = [drain EXCEPT !.at = "answered", !.verdict = v]
                 /\ v \in Verdict
    BY <1>2 DEF DrainPosted, Verdict
  <2>2. drain.attempt \in DOMAIN attempts /\ attempts' = attempts /\ passed' = passed
    BY <1>0, <1>2, Carried DEF DrainPosted, Flying
  <2>3. drain' \in DrainState(DOMAIN attempts)
    BY <1>0, <2>1 DEF DrainState
  <2> QED BY <1>0, <2>1, <2>2, <2>3, PostRows DEF RowsStep
<1>3. CASE DrainReturns
  <2>1. /\ drain.attempt \in DOMAIN attempts /\ attempts[drain.attempt].status = "sending"
        /\ posts' = posts /\ drain' = [NoDrain EXCEPT !.at = "looping"] /\ passed' = passed
    BY <1>0, <1>3, Carried DEF DrainReturns, Flying
  <2>2. PICK o \in Outcome(drain) : Finish(drain.attempt, o)
    BY <1>3 DEF DrainReturns
  <2>3. drain' \in DrainState(DOMAIN attempts)
    BY <2>1 DEF NoDrain, DrainState, Verdict
  <2> QED BY <1>0, <2>1, <2>2, <2>3, FinishRows DEF RowsStep
<1>4. CASE Restart
  <2>1. attempts' = Recovered /\ posts' = posts /\ drain' = NoDrain /\ passed' = passed
    BY <1>4 DEF Restart
  <2>2. Evolved(Recovered) /\ DOMAIN Recovered = DOMAIN attempts
    BY <1>0, RecoveredRows
  <2> QED BY <1>0, <2>1, <2>2 DEF RowsStep, NoDrain, DrainState, Verdict, RowsOK
<1>5. ASSUME NEW a \in DOMAIN attempts, DeliveryFails(a) PROVE RowsStep
  <2>1. Evolved(attempts') /\ DOMAIN attempts' = DOMAIN attempts
    BY <1>0, <1>5, DeliveryRows DEF DeliveryFails
  <2>2. posts' = posts /\ drain' = drain /\ passed' = passed
    BY <1>5 DEF DeliveryFails, executor
  <2> QED BY <1>0, <2>1, <2>2 DEF RowsStep, RowsOK
<1>6. ASSUME NEW k \in Call, CallPosted(k) PROVE RowsStep
  <2>1. PICK v : Post(call[k].attempt, v)
    BY <1>6 DEF CallPosted
  <2>2. call[k].attempt \in DOMAIN attempts /\ attempts' = attempts /\ drain' = drain /\ passed' = passed
    BY <1>0, <1>6, Carried DEF CallPosted, Flying, executor
  <2> QED BY <1>0, <2>1, <2>2, PostRows DEF RowsStep
<1>7. ASSUME NEW k \in Call, CallReturns(k) PROVE RowsStep
  <2>1. /\ call[k].attempt \in DOMAIN attempts /\ attempts[call[k].attempt].status = "sending"
        /\ posts' = posts /\ drain' = drain /\ passed' = passed
    BY <1>0, <1>7, Carried DEF CallReturns, Flying, executor
  <2>2. PICK o \in Outcome(call[k]) : Finish(call[k].attempt, o)
    BY <1>7 DEF CallReturns
  <2> QED BY <1>0, <2>1, <2>2, FinishRows DEF RowsStep
<1>8. ASSUME NEW k \in Call, Reserve(k) PROVE RowsStep
  <2>1. call[k].message \in Message
    BY <1>0, <1>8 DEF Turning, Reserve
  <2>2. Insert(call[k].message, "mcp_tool", "sending", Newest(call[k].message)) /\ drain' = drain /\ passed' = passed
    BY <1>8 DEF Reserve, executor
  <2>3. Newest(call[k].message) \in Message
    BY <2>1, NewestOfGroup
  <2>4. Extended(attempts', posts') /\ Evolved(attempts')
    BY <1>0, <2>1, <2>2, <2>3, ReserveRow
  <2> QED BY <1>0, <2>2, <2>4 DEF RowsStep, Extended, DrainState
<1>9. ASSUME NEW k \in Call, Refuse(k) \/ \E m \in Message : Execute(k, m) PROVE RowsStep
  <2>1. attempts' = attempts /\ posts' = posts /\ drain' = drain /\ passed' = passed
    BY <1>9 DEF Refuse, Execute, executor
  <2> QED BY <1>0, <2>1, SameRows DEF RowsStep
<1>10. ASSUME NEW m \in Message, Evaluate(m) PROVE RowsStep
  <2>1. CASE Streak(m) >= Required
    <3>1. Note(NoteOf(m, "authorization"))
      BY <1>10, <2>1, NoteRow DEF Evaluate, Note, NoteOf
    <3> QED BY <1>0, <3>1, NoteRows
  <2>2. CASE ~(Streak(m) >= Required)
    <3>1. attempts' = attempts /\ posts' = posts /\ drain' = drain /\ passed' = passed
      BY <1>10, <2>2 DEF Evaluate
    <3> QED BY <1>0, <3>1, SameRows DEF RowsStep
  <2> QED BY <2>1, <2>2
<1>11. ASSUME NEW m \in Message, QueueNotice(m) PROVE RowsStep
  <2>1. Note(NoteOf(m, "queue_notice"))
    BY <1>11, NoteRow DEF QueueNotice, Note, NoteOf
  <2> QED BY <1>0, <2>1, NoteRows
<1>12. ASSUME NEW m \in Message, TurnStep(m) PROVE RowsStep
  <2>1. posts' = posts /\ drain' = drain /\ passed' = passed
    BY <1>12 DEF TurnStep, Arrive, StartTurn, SessionExpires, Finalize, Supersede, TurnFails,
                 Steer, executor
  <2>2. attempts' = attempts \/ Suppress(m)
    BY <1>12 DEF TurnStep, Arrive, StartTurn, SessionExpires, Finalize, Supersede, TurnFails,
                 Steer
  <2>3. CASE attempts' = attempts
    BY <1>0, <2>1, <2>3, SameRows DEF RowsStep
  <2>4. CASE Suppress(m)
    BY <1>0, <2>1, <2>4, SuppressRows DEF RowsStep, RowsOK
  <2> QED BY <2>2, <2>3, <2>4
<1> QED BY StepKinds, <1>1, <1>2, <1>3, <1>4, <1>5, <1>6, <1>7, <1>8, <1>9, <1>10, <1>11, <1>12
        DEF CallStep

-----------------------------------------------------------------------------
(* Who carries a send.                                                     *)

\* A new row that nobody carries, or one that is claimed, keeps the senders apart.
LEMMA ExtendedFlows ==
  ASSUME Typed, Flows(attempts, posts, call, drain), NEW att, NEW ps, Extended(att, ps)
  PROVE  Flows(att, ps, call, drain)
<1>1. /\ \A k \in Call : Flying(call[k]) => Carries(call[k], att, ps)
      /\ Flying(drain) => Carries(drain, att, ps)
  BY DEF Flows, Carries, Extended
<1>2. \A a \in DOMAIN att : (att[a].status = "pending" => ps[a] = 0) /\ ps[a] <= 1
  BY DEF Flows, Extended
<1> QED BY <1>1, <1>2 DEF Flows

LEMMA BegunFlows ==
  ASSUME NEW att \in Seq(Attempt), NEW ps, Flows(att, ps, call, drain), ~Flying(drain), Begun(att)
  PROVE  Flows(attempts', ps, call, drain')
<1>1. CASE Passed(att)
  BY <1>1 DEF Passed, Flows, Flying, NoDrain
<1>2. ASSUME NEW a \in DOMAIN att, Claimed(att, a)
      PROVE  Flows(attempts', ps, call, drain')
  <2>1. att[a] \in Attempt /\ att[a].status = "pending" /\ ps[a] = 0
    BY <1>2, ElementOfSeq, LenProperties DEF Claimed, Flows
  <2>2. /\ DOMAIN attempts' = DOMAIN att
        /\ attempts'[a].status = "sending"
        /\ \A b \in DOMAIN att : b # a => attempts'[b] = att[b]
    BY <1>2, <2>1 DEF Claimed, Attempt
  <2>3. drain'.attempt = a /\ drain'.at = "sending"
    BY <1>2 DEF Claimed, NoDrain
  <2>4. \A k \in Call : Flying(call[k]) => Carries(call[k], attempts', ps) /\ call[k].attempt # a
    BY <2>1, <2>2 DEF Flows, Carries
  <2>5. Carries(drain', attempts', ps)
    BY <2>1, <2>2, <2>3 DEF Carries
  <2>6. \A b \in DOMAIN attempts' : (attempts'[b].status = "pending" => ps[b] = 0) /\ ps[b] <= 1
    BY <2>1, <2>2 DEF Flows
  <2> QED BY <2>3, <2>4, <2>5, <2>6 DEF Flows
<1> QED BY <1>1, <1>2 DEF Begun

\* Rows that move forward without those under way keep their senders.
LEMMA MovedFlows ==
  ASSUME Flows(attempts, posts, call, drain), posts' = posts,
         DOMAIN attempts' = DOMAIN attempts,
         \A a \in DOMAIN attempts :
           /\ attempts[a].status = "sending" => attempts'[a].status = "sending"
           /\ attempts'[a].status = "pending" => attempts[a].status = "pending"
  PROVE  Flows(attempts', posts', call, drain)
<1>1. /\ \A k \in Call : Flying(call[k]) => Carries(call[k], attempts', posts')
      /\ Flying(drain) => Carries(drain, attempts', posts')
  BY DEF Flows, Carries
<1>2. \A a \in DOMAIN attempts' :
        (attempts'[a].status = "pending" => posts'[a] = 0) /\ posts'[a] <= 1
  BY DEF Flows
<1> QED BY <1>1, <1>2 DEF Flows

NextFlows == Flows(attempts', posts', call', drain')

LEMMA NoteFlows ==
  ASSUME Typed, Flows(attempts, posts, call, drain), NEW row, Note(row), call' = call
  PROVE  NextFlows
<1> DEFINE att == Append(attempts, row)
           ps == Append(posts, 0)
<1>1. Extended(att, ps) /\ att \in Seq(Attempt)
  BY InsertExtends DEF Typed, RowsOK, Note, Extended
<1>2. Kicked(att) /\ posts' = ps
  BY <1>1, KickStarts DEF Note
<1> HIDE DEF att, ps
<1>3. Flows(att, ps, call, drain)
  BY <1>1, ExtendedFlows
<1>4. CASE Ignored(att)
  BY <1>2, <1>3, <1>4 DEF Ignored, NextFlows
<1>5. CASE Started(att)
  <2>1. Flows(attempts', ps, call, drain')
    BY <1>1, <1>3, <1>5, BegunFlows DEF Started, Flying
  <2> QED BY <1>2, <2>1 DEF NextFlows
<1> QED BY <1>2, <1>4, <1>5 DEF Kicked

LEMMA StepFlows ==
  ASSUME ConstantsOK, Inv, Next
  PROVE  NextFlows
<1>0. /\ Typed /\ RowsOK /\ Flows(attempts, posts, call, drain) /\ Turning
      /\ attempts \in Seq(Attempt) /\ posts \in [DOMAIN attempts -> Nat]
      /\ \A a \in DOMAIN attempts : posts[a] \in Nat
  BY TypedRows DEF Inv, Typed, RowsOK
<1>1. CASE DrainStep
  <2>1. call' = call /\ posts' = posts /\ (Idles \/ (~Flying(drain) /\ Begun(attempts)))
    BY <1>0, <1>1, DrainSteps
  <2>2. CASE Idles
    BY <1>0, <2>1, <2>2 DEF Idles, NextFlows, Flows, Flying, NoDrain
  <2>3. CASE ~Flying(drain) /\ Begun(attempts)
    <3>1. Flows(attempts', posts, call, drain')
      BY <1>0, <2>3, BegunFlows
    <3> QED BY <2>1, <3>1 DEF NextFlows
  <2> QED BY <2>1, <2>2, <2>3
<1>2. CASE DrainPosted
  <2>1. /\ posts' = [posts EXCEPT ![drain.attempt] = @ + 1]
        /\ drain'.attempt = drain.attempt /\ drain'.at = "answered"
        /\ attempts' = attempts /\ call' = call /\ drain.at = "sending"
    BY <1>2 DEF DrainPosted, Post, Inv, TypeOK
  <2>2. /\ drain.attempt \in DOMAIN attempts /\ attempts[drain.attempt].status = "sending"
        /\ posts[drain.attempt] = 0
    BY <1>0, <2>1 DEF Flows, Carries, Flying
  <2>3. /\ posts'[drain.attempt] = 1
        /\ \A b \in DOMAIN attempts : b # drain.attempt => posts'[b] = posts[b]
    BY <1>0, <2>1, <2>2
  <2>4. Flying(drain) /\ Flying(drain')
    BY <2>1 DEF Flying
  <2>5. \A k \in Call : Flying(call[k]) =>
          Carries(call[k], attempts', posts') /\ call[k].attempt # drain.attempt
    BY <1>0, <2>1, <2>3, <2>4 DEF Flows, Carries
  <2>6. Carries(drain', attempts', posts')
    BY <2>1, <2>2 DEF Carries
  <2>7. \A b \in DOMAIN attempts' :
          (attempts'[b].status = "pending" => posts'[b] = 0) /\ posts'[b] <= 1
    BY <1>0, <2>1, <2>2, <2>3 DEF Flows
  <2>8. \A k, l \in Call :
          k # l /\ Flying(call[k]) /\ Flying(call[l]) => call[k].attempt # call[l].attempt
    BY <1>0 DEF Flows
  <2> QED BY <2>1, <2>5, <2>6, <2>7, <2>8 DEF Flows, NextFlows
<1>3. CASE DrainReturns
  <2>1. /\ drain.attempt \in DOMAIN attempts /\ attempts[drain.attempt].status = "sending"
        /\ posts' = posts /\ call' = call /\ Flying(drain) /\ ~Flying(drain')
    BY <1>0, <1>3, Carried DEF DrainReturns, Flying, NoDrain
  <2>2. PICK o \in Outcome(drain) : Finish(drain.attempt, o)
    BY <1>3 DEF DrainReturns
  <2>3. /\ DOMAIN attempts' = DOMAIN attempts /\ attempts'[drain.attempt].status \in Terminal
        /\ \A b \in DOMAIN attempts : b # drain.attempt => attempts'[b] = attempts[b]
    BY <1>0, <2>1, <2>2, FinishRows
  <2>4. \A k \in Call : Flying(call[k]) => Carries(call[k], attempts', posts')
    BY <1>0, <2>1, <2>3 DEF Flows, Carries
  <2>5. \A b \in DOMAIN attempts' :
          (attempts'[b].status = "pending" => posts'[b] = 0) /\ posts'[b] <= 1
    BY <1>0, <2>1, <2>3 DEF Flows, Terminal
  <2>6. \A k, l \in Call :
          k # l /\ Flying(call[k]) /\ Flying(call[l]) => call[k].attempt # call[l].attempt
    BY <1>0 DEF Flows
  <2> QED BY <2>1, <2>4, <2>5, <2>6 DEF Flows, NextFlows
<1>4. CASE Restart
  <2>1. attempts' = Recovered /\ posts' = posts /\ ~Flying(drain')
        /\ \A k \in Call : ~Flying(call'[k])
    BY <1>4 DEF Restart, NoDrain, NoCall, Flying
  <2>2. \A b \in DOMAIN attempts' :
          (attempts'[b].status = "pending" => posts'[b] = 0) /\ posts'[b] <= 1
    BY <1>0, <2>1, RecoveredRows DEF Flows
  <2> QED BY <2>1, <2>2 DEF Flows, NextFlows
<1>5. ASSUME NEW a \in DOMAIN attempts, DeliveryFails(a) PROVE NextFlows
  <2>1. /\ DOMAIN attempts' = DOMAIN attempts
        /\ attempts[a].status # "accepted" => attempts'[a] = attempts[a]
        /\ \A b \in DOMAIN attempts : b # a => attempts'[b] = attempts[b]
    BY <1>0, <1>5, DeliveryRows DEF DeliveryFails
  <2>2. posts' = posts /\ drain' = drain /\ call' = call
    BY <1>5 DEF DeliveryFails, executor
  <2>3. Kept(a, attempts')
    BY <1>0, <1>5, DeliveryRows DEF DeliveryFails, Evolved
  <2>4. attempts'[a].status = "pending" => attempts[a].status = "pending"
    BY <2>3 DEF Kept, Forward, Terminal
  <2>5. Flows(attempts', posts', call, drain)
    BY <1>0, <2>1, <2>2, <2>4, MovedFlows
  <2> QED BY <2>2, <2>5 DEF NextFlows
<1>6. ASSUME NEW k \in Call, CallPosted(k) PROVE NextFlows
  <2>0. DOMAIN call = Call /\ call[k].attempt \in {0} \cup DOMAIN attempts
    BY DEF Inv, TypeOK
  <2>1. /\ posts' = [posts EXCEPT ![call[k].attempt] = @ + 1]
        /\ call'[k].attempt = call[k].attempt /\ call'[k].at = "answered"
        /\ \A l \in Call : l # k => call'[l] = call[l]
        /\ attempts' = attempts /\ drain' = drain /\ call[k].at = "sending"
    BY <1>6, <2>0 DEF CallPosted, Post, Inv, TypeOK, executor
  <2> DEFINE a == call[k].attempt
  <2>2. a \in DOMAIN attempts /\ attempts[a].status = "sending" /\ posts[a] = 0
    BY <1>0, <2>1 DEF Flows, Carries, Flying
  <2>3. posts'[a] = 1 /\ \A b \in DOMAIN attempts : b # a => posts'[b] = posts[b]
    BY <1>0, <2>1, <2>2
  <2>4. Flying(call[k]) /\ Flying(call'[k])
    BY <2>1 DEF Flying
  <2>5. \A l \in Call : l # k /\ Flying(call[l]) =>
          Carries(call[l], attempts', posts') /\ call[l].attempt # a
    BY <1>0, <2>1, <2>3, <2>4 DEF Flows, Carries
  <2>6. Carries(call'[k], attempts', posts')
    BY <2>1, <2>2 DEF Carries
  <2>7. Flying(drain) => Carries(drain, attempts', posts') /\ drain.attempt # a
    BY <1>0, <2>1, <2>3, <2>4 DEF Flows, Carries
  <2>8. \A b \in DOMAIN attempts' :
          (attempts'[b].status = "pending" => posts'[b] = 0) /\ posts'[b] <= 1
    BY <1>0, <2>1, <2>2, <2>3 DEF Flows
  <2> HIDE DEF a
  <2>9. \A l, j \in Call :
          l # j /\ Flying(call'[l]) /\ Flying(call'[j]) => call'[l].attempt # call'[j].attempt
    BY <1>0, <2>1, <2>5 DEF Flows, a
  <2>10. \A l \in Call : Flying(call'[l]) /\ Flying(drain') => call'[l].attempt # drain'.attempt
    BY <1>0, <2>1, <2>7 DEF Flows, a
  <2> QED BY <2>1, <2>5, <2>6, <2>7, <2>8, <2>9, <2>10 DEF Flows, NextFlows
<1>7. ASSUME NEW k \in Call, CallReturns(k) PROVE NextFlows
  <2> DEFINE a == call[k].attempt
  <2>1. /\ a \in DOMAIN attempts /\ attempts[a].status = "sending"
        /\ posts' = posts /\ drain' = drain /\ Flying(call[k])
    BY <1>0, <1>7, Carried DEF CallReturns, Flying, executor
  <2>2. PICK o \in Outcome(call[k]) : Finish(a, o)
    BY <1>7 DEF CallReturns
  <2>3. /\ DOMAIN attempts' = DOMAIN attempts /\ attempts'[a].status \in Terminal
        /\ \A b \in DOMAIN attempts : b # a => attempts'[b] = attempts[b]
    BY <1>0, <2>1, <2>2, FinishRows
  <2>4. ~Flying(call'[k]) /\ \A l \in Call : l # k => call'[l] = call[l]
    BY <1>7 DEF CallReturns, Flying, NoCall, Inv, TypeOK
  <2> HIDE DEF a
  <2>5. \A l \in Call : l # k /\ Flying(call[l]) => Carries(call[l], attempts', posts')
    BY <1>0, <2>1, <2>3 DEF Flows, Carries, a
  <2>6. Flying(drain) => Carries(drain, attempts', posts')
    BY <1>0, <2>1, <2>3 DEF Flows, Carries, a
  <2>7. \A b \in DOMAIN attempts' :
          (attempts'[b].status = "pending" => posts'[b] = 0) /\ posts'[b] <= 1
    BY <1>0, <2>1, <2>3 DEF Flows, Terminal
  <2>8. \A l, j \in Call :
          l # j /\ Flying(call'[l]) /\ Flying(call'[j]) => call'[l].attempt # call'[j].attempt
    BY <1>0, <2>4 DEF Flows
  <2>9. \A l \in Call : Flying(call'[l]) /\ Flying(drain') => call'[l].attempt # drain'.attempt
    BY <1>0, <2>1, <2>4 DEF Flows
  <2> QED BY <2>1, <2>4, <2>5, <2>6, <2>7, <2>8, <2>9 DEF Flows, NextFlows
<1>8. ASSUME NEW k \in Call, Reserve(k) PROVE NextFlows
  <2> DEFINE n == Len(attempts) + 1
             m == call[k].message
  <2>1. m \in Message /\ Newest(m) \in Message
    BY <1>0, <1>8, NewestOfGroup DEF Turning, Reserve
  <2>2. Insert(m, "mcp_tool", "sending", Newest(m)) /\ drain' = drain
    BY <1>8 DEF Reserve, executor
  <2>3. /\ Extended(attempts', posts') /\ n \in DOMAIN attempts'
        /\ attempts'[n].status = "sending" /\ posts'[n] = 0
    BY <1>0, <2>1, <2>2, ReserveRow
  <2>4. /\ call'[k].at = "sending" /\ call'[k].attempt = n
        /\ \A l \in Call : l # k => call'[l] = call[l]
    BY <1>8 DEF Reserve, Inv, TypeOK
  <2>5. n \notin DOMAIN attempts
    BY <1>0, LenProperties
  <2>6. Flows(attempts', posts', call, drain)
    BY <1>0, <2>3, ExtendedFlows
  <2> HIDE DEF n, m
  <2>7. Carries(call'[k], attempts', posts')
    BY <2>3, <2>4 DEF Carries
  <2>8. /\ \A l \in Call : Flying(call[l]) => call[l].attempt # n
        /\ Flying(drain) => drain.attempt # n
    BY <1>0, <2>5 DEF Flows, Carries
  <2>9. \A l, j \in Call :
          l # j /\ Flying(call'[l]) /\ Flying(call'[j]) => call'[l].attempt # call'[j].attempt
    BY <2>4, <2>6, <2>8 DEF Flows
  <2>10. \A l \in Call : Flying(call'[l]) /\ Flying(drain') => call'[l].attempt # drain'.attempt
    BY <2>2, <2>4, <2>6, <2>8 DEF Flows
  <2> QED BY <2>2, <2>4, <2>6, <2>7, <2>9, <2>10 DEF Flows, NextFlows
<1>9. ASSUME NEW k \in Call, Refuse(k) \/ \E m \in Message : Execute(k, m) PROVE NextFlows
  <2>1. attempts' = attempts /\ posts' = posts /\ drain' = drain
    BY <1>9 DEF Refuse, Execute, executor
  <2>2. /\ call'[k].at \in {"idle", "preparing"}
        /\ \A l \in Call : l # k => call'[l] = call[l]
    <3>1. DOMAIN call = Call
      BY DEF Inv, TypeOK
    <3>2. CASE Refuse(k)
      BY <3>1, <3>2 DEF Refuse, NoCall
    <3>3. ASSUME NEW m \in Message, Execute(k, m)
          PROVE  /\ call'[k].at \in {"idle", "preparing"}
                 /\ \A l \in Call : l # k => call'[l] = call[l]
      BY <3>1, <3>3 DEF Execute, NoCall
    <3> QED BY <1>9, <3>2, <3>3
  <2>3. ~Flying(call'[k])
    BY <2>2 DEF Flying
  <2> QED BY <1>0, <2>1, <2>2, <2>3 DEF NextFlows, Flows
<1>10. ASSUME NEW m \in Message, Evaluate(m) PROVE NextFlows
  <2>0. call' = call
    BY <1>10 DEF Evaluate
  <2>1. CASE Streak(m) >= Required
    <3>1. Note(NoteOf(m, "authorization"))
      BY <1>10, <2>1, NoteRow DEF Evaluate, Note, NoteOf
    <3> QED BY <1>0, <2>0, <3>1, NoteFlows
  <2>2. CASE ~(Streak(m) >= Required)
    <3>1. attempts' = attempts /\ posts' = posts /\ drain' = drain
      BY <1>10, <2>2 DEF Evaluate
    <3> QED BY <1>0, <2>0, <3>1 DEF NextFlows
  <2> QED BY <2>1, <2>2
<1>11. ASSUME NEW m \in Message, QueueNotice(m) PROVE NextFlows
  <2>1. Note(NoteOf(m, "queue_notice")) /\ call' = call
    BY <1>11, NoteRow DEF QueueNotice, Note, NoteOf
  <2> QED BY <1>0, <2>1, NoteFlows
<1>12. ASSUME NEW m \in Message, TurnStep(m) PROVE NextFlows
  <2>1. posts' = posts /\ drain' = drain /\ call' = call
    BY <1>12 DEF TurnStep, Arrive, StartTurn, SessionExpires, Finalize, Supersede, TurnFails,
                 Steer, executor
  <2>2. attempts' = attempts \/ Suppress(m)
    BY <1>12 DEF TurnStep, Arrive, StartTurn, SessionExpires, Finalize, Supersede, TurnFails,
                 Steer
  <2>3. CASE attempts' = attempts
    BY <1>0, <2>1, <2>3 DEF NextFlows
  <2>4. CASE Suppress(m)
    <3>1. /\ DOMAIN attempts' = DOMAIN attempts
          /\ \A a \in DOMAIN attempts :
               /\ attempts[a].status = "sending" => attempts'[a].status = "sending"
               /\ attempts'[a].status = "pending" => attempts[a].status = "pending"
      BY <1>0, <2>4, SuppressRows
    <3> QED BY <1>0, <2>1, <3>1, MovedFlows DEF NextFlows
  <2> QED BY <2>2, <2>3, <2>4
<1> QED BY StepKinds, <1>1, <1>2, <1>3, <1>4, <1>5, <1>6, <1>7, <1>8, <1>9, <1>10, <1>11, <1>12
        DEF CallStep

-----------------------------------------------------------------------------
(* Types.                                                                  *)

CallState(D) ==
  [at : {"idle", "preparing", "sending", "answered"}, message : 0 .. Messages,
   serial : 0 .. MaxSessions, attempt : {0} \cup D, verdict : Verdict]
SessionState ==
  [serial : 0 .. MaxSessions, boundary : 0 .. Messages, state : {"open", "expired", "closed"}]
Standing == [authorized : BOOLEAN, streak : 0 .. Required, account : Account \cup {0}]

\* What the provider and the tool calls know of the rows.
LinksOK ==
  /\ failures \in SUBSET taken /\ taken \in SUBSET DOMAIN attempts
  /\ call \in [Call -> CallState(DOMAIN attempts)]
InboxOK ==
  /\ status \in [Message -> Status] /\ primary \in [Message -> 0 .. Messages]
  /\ session \in [Message -> SessionState] /\ authorization \in [Peer -> Standing]
  /\ evaluated \in [Peer -> Seq(Message)] /\ turn \in SUBSET Message
FlagsOK ==
  /\ rerun \in BOOLEAN /\ closed \in {"open", "closing", "closed"} /\ kickDue \in BOOLEAN
  /\ expiries \in 0 .. MaxExpiries /\ interrupts \in 0 .. MaxInterrupts
  /\ crashes \in 0 .. MaxCrashes

LEMMA TypesByParts == TypeOK <=> Typed /\ LinksOK /\ InboxOK /\ FlagsOK
BY DEF TypeOK, Typed, RowsOK, DrainState, LinksOK, CallState, InboxOK, SessionState, Standing,
       FlagsOK

LEMMA RowsKept ==
  ASSUME RowsStep
  PROVE  DOMAIN attempts \subseteq DOMAIN attempts'
BY DEF RowsStep, Evolved, Kept

\* Steps of neither the provider nor a tool call.
LEMMA SameLinks ==
  ASSUME LinksOK, RowsStep, provider' = provider, call' = call
  PROVE  LinksOK'
<1>1. taken' = taken /\ failures' = failures /\ DOMAIN attempts \subseteq DOMAIN attempts'
  BY RowsKept DEF provider
<1>2. taken' \in SUBSET DOMAIN attempts'
  BY <1>1 DEF LinksOK
<1>3. call' \in [Call -> CallState(DOMAIN attempts')]
  BY <1>1 DEF LinksOK, CallState
<1> QED BY <1>1, <1>2, <1>3 DEF LinksOK

LEMMA StepLinks ==
  ASSUME ConstantsOK, Inv, Next
  PROVE  LinksOK'
<1>0. /\ LinksOK /\ RowsStep /\ Flows(attempts, posts, call, drain) /\ Typed
      /\ DOMAIN attempts \subseteq DOMAIN attempts' /\ Turning /\ InboxOK
  BY TypesByParts, StepRows, RowsKept DEF Inv
<1>1. CASE DrainStep
  BY <1>0, <1>1, DrainSteps, SameLinks DEF Typed
<1>2. ASSUME NEW a \in DOMAIN attempts, NEW v, Post(a, v), failures' = failures
      PROVE  failures' \in SUBSET taken' /\ taken' \in SUBSET DOMAIN attempts'
  BY <1>0, <1>2 DEF Post, LinksOK
<1>3. CASE DrainPosted
  <2>1. PICK v : Post(drain.attempt, v)
    BY <1>3 DEF DrainPosted
  <2>2. drain.attempt \in DOMAIN attempts /\ failures' = failures /\ call' = call
    BY <1>0, <1>3, Carried DEF DrainPosted, Flying
  <2>3. call' \in [Call -> CallState(DOMAIN attempts')]
    BY <1>0, <2>2 DEF LinksOK, CallState
  <2> QED BY <1>2, <2>1, <2>2, <2>3 DEF LinksOK
<1>4. CASE DrainReturns
  BY <1>0, <1>4, SameLinks DEF DrainReturns
<1>5. CASE Restart
  <2>1. taken' = taken /\ failures' = failures /\ call' = [k \in Call |-> NoCall]
    BY <1>5 DEF Restart, provider
  <2>2. NoCall \in CallState(DOMAIN attempts')
    BY DEF NoCall, CallState, ConstantsOK, Verdict
  <2> QED BY <1>0, <2>1, <2>2 DEF LinksOK
<1>6. ASSUME NEW a \in DOMAIN attempts, DeliveryFails(a) PROVE LinksOK'
  <2>1. failures' = failures \cup {a} /\ a \in taken /\ taken' = taken /\ call' = call
    BY <1>6 DEF DeliveryFails
  <2>2. call' \in [Call -> CallState(DOMAIN attempts')]
    BY <1>0, <2>1 DEF LinksOK, CallState
  <2> QED BY <1>0, <2>1, <2>2 DEF LinksOK
<1>7. ASSUME NEW k \in Call, NEW f \in CallState(DOMAIN attempts'), call' = [call EXCEPT ![k] = f]
      PROVE  call' \in [Call -> CallState(DOMAIN attempts')]
  <2>1. call \in [Call -> CallState(DOMAIN attempts')]
    BY <1>0 DEF LinksOK, CallState
  <2> QED BY <2>1, <1>7
<1>8. \A k \in Call : call[k] \in CallState(DOMAIN attempts')
  BY <1>0 DEF LinksOK, CallState
<1>9. ASSUME NEW k \in Call, CallPosted(k) PROVE LinksOK'
  <2>1. PICK v \in {"accepted", "rejected"} :
          /\ Post(call[k].attempt, v)
          /\ call' = [call EXCEPT ![k].at = "answered", ![k].verdict = v]
    BY <1>9 DEF CallPosted
  <2>2. call[k].attempt \in DOMAIN attempts /\ failures' = failures
    BY <1>0, <1>9, Carried DEF CallPosted, Flying
  <2>3. call' = [call EXCEPT ![k] = [call[k] EXCEPT !.at = "answered", !.verdict = v]]
    BY <1>0, <2>1 DEF LinksOK
  <2>4. [call[k] EXCEPT !.at = "answered", !.verdict = v] \in CallState(DOMAIN attempts')
    BY <1>8 DEF CallState, Verdict
  <2>5. call' \in [Call -> CallState(DOMAIN attempts')]
    BY <1>7, <2>3, <2>4
  <2> QED BY <1>2, <2>1, <2>2, <2>5 DEF LinksOK
<1>10. ASSUME NEW k \in Call, CallReturns(k) \/ Refuse(k) PROVE LinksOK'
  <2>1. call' = [call EXCEPT ![k] = NoCall] /\ taken' = taken /\ failures' = failures
    BY <1>10 DEF CallReturns, Refuse, provider
  <2>2. NoCall \in CallState(DOMAIN attempts')
    BY DEF NoCall, CallState, ConstantsOK, Verdict
  <2>3. call' \in [Call -> CallState(DOMAIN attempts')]
    BY <1>7, <2>1, <2>2
  <2> QED BY <1>0, <2>1, <2>3 DEF LinksOK
<1>11. ASSUME NEW k \in Call, Reserve(k) PROVE LinksOK'
  <2>1. /\ call' = [call EXCEPT ![k].at = "sending", ![k].attempt = Len(attempts) + 1]
        /\ taken' = taken /\ failures' = failures
    BY <1>11 DEF Reserve, provider
  <2>2. call' = [call EXCEPT ![k] = [call[k] EXCEPT !.at = "sending", !.attempt = Len(attempts) + 1]]
    BY <1>0, <2>1 DEF LinksOK
  <2>3. Len(attempts) + 1 \in DOMAIN attempts'
    <3>1. call[k].message \in Message /\ Newest(call[k].message) \in Message
      BY <1>0, <1>11, NewestOfGroup DEF Turning, Reserve
    <3>2. Insert(call[k].message, "mcp_tool", "sending", Newest(call[k].message))
      BY <1>11 DEF Reserve
    <3> QED BY <1>0, <3>1, <3>2, ReserveRow
  <2>4. [call[k] EXCEPT !.at = "sending", !.attempt = Len(attempts) + 1]
          \in CallState(DOMAIN attempts')
    BY <1>8, <2>3 DEF CallState
  <2>5. call' \in [Call -> CallState(DOMAIN attempts')]
    BY <1>7, <2>2, <2>4
  <2> QED BY <1>0, <2>1, <2>5 DEF LinksOK
<1>12. ASSUME NEW k \in Call, NEW m \in Message, Execute(k, m) PROVE LinksOK'
  <2>1. /\ call' = [call EXCEPT ![k] = [NoCall EXCEPT !.at = "preparing", !.message = m,
                                                      !.serial = session[m].serial]]
        /\ taken' = taken /\ failures' = failures
    BY <1>12 DEF Execute, provider
  <2>2. m \in 0 .. Messages /\ session[m].serial \in 0 .. MaxSessions
    BY <1>0 DEF InboxOK, SessionState, Message, ConstantsOK
  <2>3. [NoCall EXCEPT !.at = "preparing", !.message = m, !.serial = session[m].serial]
          \in CallState(DOMAIN attempts')
    BY <2>2 DEF NoCall, CallState, Verdict
  <2>4. call' \in [Call -> CallState(DOMAIN attempts')]
    BY <1>7, <2>1, <2>3
  <2> QED BY <1>0, <2>1, <2>4 DEF LinksOK
<1>13. ASSUME NEW m \in Message, Evaluate(m) \/ QueueNotice(m) \/ TurnStep(m) PROVE LinksOK'
  <2>1. provider' = provider /\ call' = call
    BY <1>13 DEF Evaluate, QueueNotice, TurnStep, Arrive, StartTurn, SessionExpires, Finalize,
                 Supersede, TurnFails, Steer
  <2> QED BY <1>0, <2>1, SameLinks
<1> QED BY StepKinds, <1>1, <1>3, <1>4, <1>5, <1>6, <1>9, <1>10, <1>11, <1>12, <1>13
        DEF CallStep

\* Rewriting the status of some messages.
LEMMA SettingStatus ==
  ASSUME status \in [Message -> Status], NEW M, NEW v \in Status
  PROVE  /\ SetStatus(M, v) \in [Message -> Status]
         /\ \A m \in Message : SetStatus(M, v)[m] = IF m \in M THEN v ELSE status[m]
BY DEF SetStatus

LEMMA SettlingStatus ==
  ASSUME status \in [Message -> Status], NEW att, NEW m
  PROVE  /\ Settle(att, m) \in [Message -> Status]
         /\ \A x \in Message :
              \/ Settle(att, m)[x] = status[x]
              \/ x = m /\ Ended(att, session, m) /\ Settle(att, m)[x] = "completed"
<1>1. "completed" \in Status
  BY DEF Status
<1> QED BY <1>1, SettingStatus DEF Settle

\* The sessions of a conversation that is given a new one.
LEMMA OpenedSessions ==
  ASSUME ConstantsOK, InboxOK, NEW m \in Message, NEW b \in 0 .. Messages, Open(m, b)
  PROVE  /\ session' \in [Message -> SessionState]
         /\ session'[m].boundary = b
         /\ \A x \in Message : \/ x = m \/ session'[x] = session[x]
                               \/ session'[x].state = "closed"
<1>1. /\ session \in [Message -> SessionState] /\ session[m].serial + 1 \in 0 .. MaxSessions
      /\ \A x \in Message : session[x] \in SessionState
  BY DEF InboxOK, Open, SessionState, ConstantsOK
<1>2. [serial |-> session[m].serial + 1, boundary |-> b, state |-> "open"] \in SessionState
  BY <1>1 DEF SessionState
<1>3. \A x \in Message : [session[x] EXCEPT !.state = "closed"] \in SessionState
                         /\ [session[x] EXCEPT !.state = "closed"].state = "closed"
  BY <1>1 DEF SessionState
<1>4. \A x \in Message :
        session'[x] = IF x = m
                      THEN [serial |-> session[m].serial + 1, boundary |-> b, state |-> "open"]
                      ELSE IF x \in Dialog(m) /\ session[x].state = "open"
                      THEN [session[x] EXCEPT !.state = "closed"] ELSE session[x]
  BY DEF Open
<1>5. \A x \in Message : session'[x] \in SessionState
  BY <1>1, <1>2, <1>3, <1>4
<1>6. session' \in [Message -> SessionState]
  BY <1>5 DEF Open
<1>7. session'[m].boundary = b
  <2>1. session'[m] = [serial |-> session[m].serial + 1, boundary |-> b, state |-> "open"]
    BY <1>4
  <2> QED BY <2>1
<1>8. ASSUME NEW x \in Message, x # m, session'[x] # session[x]
      PROVE  session'[x].state = "closed"
  <2>1. session'[x] = [session[x] EXCEPT !.state = "closed"]
    BY <1>4, <1>8
  <2> QED BY <1>3, <2>1
<1> QED BY <1>6, <1>7, <1>8

\* Triggers are counted up to what authorizes.
LEMMA StreakCounts ==
  ASSUME ConstantsOK, InboxOK, Streaks, NEW m \in Message, ~Authorized(m)
  PROVE  Streak(m) \in 0 .. Required
<1>1. PeerOf[m] \in Peer
  BY DEF ConstantsOK
<1>2. authorization[PeerOf[m]] \in Standing /\ Required \in Nat \ {0}
  BY <1>1 DEF InboxOK, ConstantsOK
<1>3. ~(authorization[PeerOf[m]].streak >= Required)
  BY <1>1 DEF Streaks, Authorized
<1> QED BY <1>2, <1>3 DEF Streak, Standing

LEMMA StepInbox ==
  ASSUME ConstantsOK, Inv, Next
  PROVE  InboxOK'
<1>0. /\ InboxOK /\ Typed /\ status \in [Message -> Status] /\ Streaks /\ Messages \in Nat
      /\ primary \in [Message -> 0 .. Messages] /\ session \in [Message -> SessionState]
      /\ \A m \in Message : m \in 0 .. Messages /\ session[m] \in SessionState
  BY TypesByParts DEF Inv, InboxOK, ConstantsOK, Message
<1>1. ASSUME inbox' = inbox, turn' = turn PROVE InboxOK'
  BY <1>0, <1>1 DEF inbox, InboxOK
<1>2. CASE DrainStep
  BY <1>0, <1>1, <1>2, DrainSteps DEF Typed
<1>3. CASE DrainPosted
  BY <1>1, <1>3 DEF DrainPosted
<1>4. ASSUME NEW a, NEW o, Finish(a, o), turn' = turn PROVE InboxOK'
  BY <1>0, <1>4, SettlingStatus DEF Finish, InboxOK
<1>5. CASE DrainReturns
  BY <1>4, <1>5 DEF DrainReturns
<1>6. CASE Restart
  <2>1. PICK M : status' = SetStatus(M, "completed")
    BY <1>6 DEF Restart
  <2>2. "completed" \in Status
    BY DEF Status
  <2>3. session' = [m \in Message |-> [session[m] EXCEPT !.state = "closed"]]
        /\ turn' = {} /\ primary' = primary /\ authorization' = authorization
        /\ evaluated' = evaluated
    BY <1>6 DEF Restart
  <2>4. \A m \in Message : [session[m] EXCEPT !.state = "closed"] \in SessionState
    BY <1>0 DEF SessionState
  <2>5. session' \in [Message -> SessionState]
    BY <2>3, <2>4
  <2>6. status' \in [Message -> Status]
    BY <1>0, <2>1, <2>2, SettingStatus
  <2> QED BY <1>0, <2>3, <2>5, <2>6 DEF InboxOK
<1>7. ASSUME NEW a \in DOMAIN attempts, DeliveryFails(a) PROVE InboxOK'
  BY <1>1, <1>7 DEF DeliveryFails
<1>8. ASSUME NEW k \in Call, CallPosted(k) PROVE InboxOK'
  BY <1>1, <1>8 DEF CallPosted
<1>9. ASSUME NEW k \in Call, CallReturns(k) PROVE InboxOK'
  BY <1>4, <1>9 DEF CallReturns
<1>10. ASSUME NEW k \in Call, CallStep(k) PROVE InboxOK'
  BY <1>1, <1>10 DEF CallStep, Reserve, Refuse, Execute
<1>11. ASSUME NEW m \in Message, Evaluate(m) PROVE InboxOK'
  <2>1. PeerOf[m] \in Peer /\ AccountOf[m] \in Account /\ Streak(m) \in 0 .. Required
    BY <1>0, <1>11, StreakCounts DEF Evaluate, ConstantsOK
  <2>2. [authorized |-> Streak(m) >= Required, streak |-> Streak(m), account |-> AccountOf[m]]
          \in Standing
    BY <2>1 DEF Standing
  <2>3. authorization' \in [Peer -> Standing]
    BY <1>0, <1>11, <2>1, <2>2 DEF Evaluate, InboxOK
  <2>4. Append(evaluated[PeerOf[m]], m) \in Seq(Message)
    BY <1>0, <2>1, AppendProperties DEF InboxOK
  <2>5. evaluated' \in [Peer -> Seq(Message)]
    BY <1>0, <1>11, <2>1, <2>4 DEF Evaluate, InboxOK
  <2>6. status' \in [Message -> Status]
    BY <1>0, <1>11 DEF Evaluate, Status
  <2>7. primary' = primary /\ session' = session /\ turn' = turn
    BY <1>11 DEF Evaluate
  <2> QED BY <1>0, <2>3, <2>5, <2>6, <2>7 DEF InboxOK
<1>12. ASSUME NEW m \in Message, QueueNotice(m) PROVE InboxOK'
  BY <1>1, <1>12 DEF QueueNotice
<1>13. ASSUME NEW m \in Message, Arrive(m) PROVE InboxOK'
  BY <1>0, <1>13 DEF Arrive, InboxOK, Status
<1>14. ASSUME NEW m \in Message, StartTurn(m) PROVE InboxOK'
  <2>1. Newest(m) \in 0 .. Messages
    BY <1>0, NewestOfGroup
  <2>2. session' \in [Message -> SessionState]
    BY <1>0, <1>14, <2>1, OpenedSessions DEF StartTurn
  <2>3. status' \in [Message -> Status] /\ turn' \in SUBSET Message
    BY <1>0, <1>14 DEF StartTurn, InboxOK, Status
  <2> QED BY <1>0, <1>14, <2>2, <2>3 DEF StartTurn, InboxOK
<1>15. ASSUME NEW m \in Message, NEW x \in Message, Steer(m, x) PROVE InboxOK'
  <2>1. x \in 0 .. Messages /\ m \in 0 .. Messages
    BY <1>0
  <2>2. session' \in [Message -> SessionState]
    BY <1>0, <1>15, <2>1, OpenedSessions DEF Steer
  <2>3. status' \in [Message -> Status] /\ primary' \in [Message -> 0 .. Messages]
    BY <1>0, <1>15, <2>1 DEF Steer, InboxOK, Status
  <2> QED BY <1>0, <1>15, <2>2, <2>3 DEF Steer, InboxOK
<1>16. ASSUME NEW m \in Message, NEW st \in {"expired", "closed"}
       PROVE  [session EXCEPT ![m].state = st] \in [Message -> SessionState]
  <2>1. [session EXCEPT ![m].state = st] = [session EXCEPT ![m] = [session[m] EXCEPT !.state = st]]
    BY <1>0
  <2>2. [session[m] EXCEPT !.state = st] \in SessionState
    BY <1>0 DEF SessionState
  <2> QED BY <1>0, <2>1, <2>2
<1>17. ASSUME NEW m \in Message, SessionExpires(m) PROVE InboxOK'
  <2>1. session' \in [Message -> SessionState]
    BY <1>16, <1>17 DEF SessionExpires
  <2> QED BY <1>0, <1>17, <2>1 DEF SessionExpires, InboxOK
<1>18. ASSUME NEW m \in Message, Finalize(m) PROVE InboxOK'
  <2>1. session' \in [Message -> SessionState]
    BY <1>16, <1>18 DEF Finalize
  <2>2. status' \in [Message -> Status]
    BY <1>0, <1>18 DEF Finalize, Status
  <2> QED BY <1>0, <1>18, <2>1, <2>2 DEF Finalize, InboxOK
<1>19. ASSUME NEW m \in Message, Suppress(m) PROVE status' \in [Message -> Status]
  <2>1. "suppressed" \in Status
    BY DEF Status
  <2> QED BY <1>0, <1>19, <2>1, SettingStatus DEF Suppress
<1>20. ASSUME NEW m \in Message, Supersede(m) PROVE InboxOK'
  BY <1>0, <1>19, <1>20 DEF Supersede, InboxOK
<1>21. ASSUME NEW m \in Message, TurnFails(m) PROVE InboxOK'
  <2>1. session' \in [Message -> SessionState]
    BY <1>0, <1>16, <1>21 DEF TurnFails
  <2>2. status' \in [Message -> Status]
    BY <1>0, <1>19, <1>21 DEF TurnFails, Status
  <2> QED BY <1>0, <1>21, <2>1, <2>2 DEF TurnFails, InboxOK
<1> QED BY StepKinds, <1>2, <1>3, <1>5, <1>6, <1>7, <1>8, <1>9, <1>10, <1>11, <1>12, <1>13, <1>14,
           <1>15, <1>17, <1>18, <1>20, <1>21 DEF TurnStep

LEMMA StepFlags ==
  ASSUME ConstantsOK, Inv, Next
  PROVE  FlagsOK'
<1>0. /\ FlagsOK /\ Typed /\ attempts \in Seq(Attempt)
      /\ MaxExpiries \in Nat /\ MaxInterrupts \in Nat /\ MaxCrashes \in Nat
  BY TypesByParts DEF Inv, ConstantsOK, Typed, RowsOK
<1>1. ASSUME rerun' \in BOOLEAN, closed' \in {"open", "closing", "closed"}, kickDue' \in BOOLEAN,
             bounds' = bounds
      PROVE  FlagsOK'
  BY <1>0, <1>1 DEF FlagsOK, bounds
<1>2. ASSUME NEW att, Kick(att) PROVE rerun' \in BOOLEAN
  BY <1>0, <1>2 DEF Kick, FlagsOK
<1>3. CASE DrainStep
  <2>1. rerun' \in BOOLEAN
    BY <1>0, <1>2, <1>3 DEF DrainStep, DrainNext, DrainReturned, DrainEnded, StartupKick, BeginClose,
                       FinishClose, Abort, FlagsOK
  <2>2. closed' \in {"open", "closing", "closed"} /\ kickDue' \in BOOLEAN /\ bounds' = bounds
    BY <1>0, <1>3 DEF DrainStep, DrainNext, DrainReturned, DrainEnded, StartupKick, BeginClose,
                 FinishClose, Abort, FlagsOK
  <2> QED BY <1>1, <2>1, <2>2
<1>4. CASE Restart
  <2>1. /\ rerun' = FALSE /\ closed' = "open" /\ kickDue' = TRUE
        /\ crashes < MaxCrashes /\ crashes' = crashes + 1
        /\ expiries' = expiries /\ interrupts' = interrupts
    BY <1>4 DEF Restart
  <2>2. rerun' \in BOOLEAN /\ kickDue' \in BOOLEAN
    BY <2>1
  <2>3. crashes \in 0 .. MaxCrashes /\ expiries \in 0 .. MaxExpiries
        /\ interrupts \in 0 .. MaxInterrupts
    BY <1>0 DEF FlagsOK
  <2>4. crashes' \in 0 .. MaxCrashes
    BY <1>0, <2>1, <2>3
  <2> QED BY <2>1, <2>2, <2>3, <2>4 DEF FlagsOK
<1>5. ASSUME rerun' = rerun, closed' = closed, kickDue' = kickDue, bounds' = bounds PROVE FlagsOK'
  BY <1>0, <1>5 DEF FlagsOK, bounds
<1>6. CASE DrainPosted \/ DrainReturns
  BY <1>5, <1>6 DEF DrainPosted, DrainReturns
<1>7. ASSUME NEW a, DeliveryFails(a) PROVE FlagsOK'
  BY <1>5, <1>7 DEF DeliveryFails, executor
<1>8. ASSUME NEW k, CallPosted(k) \/ CallReturns(k) \/ CallStep(k) PROVE FlagsOK'
  BY <1>5, <1>8 DEF CallPosted, CallReturns, CallStep, Reserve, Refuse, Execute, executor
<1>9. ASSUME NEW m, Evaluate(m) \/ QueueNotice(m) PROVE FlagsOK'
  <2>1. rerun' \in BOOLEAN
    BY <1>0, <1>2, <1>9 DEF Evaluate, QueueNotice, FlagsOK
  <2>2. closed' = closed /\ kickDue' = kickDue /\ bounds' = bounds
    BY <1>9 DEF Evaluate, QueueNotice
  <2> QED BY <1>0, <1>1, <2>1, <2>2 DEF FlagsOK
<1>10. ASSUME NEW m, TurnStep(m) PROVE FlagsOK'
  <2>1. rerun' = rerun /\ closed' = closed /\ kickDue' = kickDue /\ crashes' = crashes
    BY <1>10 DEF TurnStep, Arrive, StartTurn, SessionExpires, Finalize, Supersede, TurnFails,
                 Steer, executor, bounds
  <2>2. expiries' = expiries \/ (expiries < MaxExpiries /\ expiries' = expiries + 1)
    BY <1>10 DEF TurnStep, Arrive, StartTurn, SessionExpires, Finalize, Supersede, TurnFails,
                 Steer, bounds
  <2>3. interrupts' = interrupts \/ (interrupts < MaxInterrupts /\ interrupts' = interrupts + 1)
    BY <1>10 DEF TurnStep, Arrive, StartTurn, SessionExpires, Finalize, Supersede, TurnFails,
                 Steer, bounds
  <2> QED BY <1>0, <2>1, <2>2, <2>3 DEF FlagsOK
<1> QED BY StepKinds, <1>3, <1>4, <1>6, <1>7, <1>8, <1>9, <1>10

LEMMA StepTypes ==
  ASSUME ConstantsOK, Inv, Next
  PROVE  TypeOK'
<1>1. (Typed /\ LinksOK /\ InboxOK /\ FlagsOK)'
  BY StepRows, StepLinks, StepInbox, StepFlags
     DEF Typed, RowsOK, RowsStep, Evolved
<1> QED BY <1>1, TypesByParts DEF TypeOK, Typed, RowsOK, DrainState, LinksOK, CallState, InboxOK,
           SessionState, Standing, FlagsOK

-----------------------------------------------------------------------------
(* What a step makes of the other parts of Inv.                            *)

\* What a drain makes of the rows att: they stay, or one that waited is claimed.
Claims(att) ==
  /\ DOMAIN attempts' = DOMAIN att
  /\ \A a \in DOMAIN att :
       /\ attempts'[a].message = att[a].message /\ attempts'[a].source = att[a].source
       /\ attempts'[a].direction = att[a].direction
       /\ \/ attempts'[a].status = att[a].status
          \/ att[a].status = "pending" /\ attempts'[a].status = "sending"

LEMMA BegunClaims ==
  ASSUME NEW att \in Seq(Attempt), Begun(att)
  PROVE  Claims(att)
<1>1. CASE Passed(att)
  BY <1>1 DEF Passed, Claims
<1>2. ASSUME NEW a \in DOMAIN att, Claimed(att, a) PROVE Claims(att)
  <2>1. att[a] \in Attempt /\ att[a].status = "pending"
    BY <1>2, ElementOfSeq, LenProperties DEF Claimed
  <2>2. /\ DOMAIN attempts' = DOMAIN att
        /\ attempts'[a] = [att[a] EXCEPT !.status = "sending"]
        /\ \A b \in DOMAIN att : b # a => attempts'[b] = att[b]
    BY <1>2 DEF Claimed
  <2>3. /\ attempts'[a].message = att[a].message /\ attempts'[a].source = att[a].source
        /\ attempts'[a].direction = att[a].direction /\ attempts'[a].status = "sending"
    BY <2>1, <2>2 DEF Attempt
  <2> QED BY <2>1, <2>2, <2>3 DEF Claims
<1> QED BY <1>1, <1>2 DEF Begun

\* A note adds one row, which is not of a tool call; the others may be claimed.
LEMMA NoteClaims ==
  ASSUME Typed, NEW row, Note(row)
  PROVE  /\ Claims(Append(attempts, row))
         /\ Append(attempts, row) \in Seq(Attempt)
         /\ Extended(Append(attempts, row), Append(posts, 0))
         /\ Append(attempts, row)[Len(attempts) + 1] = row
<1> DEFINE att == Append(attempts, row)
<1>1. /\ Extended(att, Append(posts, 0)) /\ att \in Seq(Attempt)
      /\ att[Len(attempts) + 1] = row
  BY InsertExtends DEF Typed, RowsOK, Note, Extended
<1>2. Kicked(att)
  BY <1>1, KickStarts DEF Note
<1>3. ASSUME NEW rows, rows = att PROVE Ignored(rows) => Claims(rows)
  BY DEF Ignored, Claims
<1>4. Started(att) => Claims(att)
  BY <1>1, BegunClaims DEF Started
<1>5. Claims(att)
  BY <1>2, <1>3, <1>4 DEF Kicked
<1> QED BY <1>1, <1>5

\* The row that a step adds, if any: n is its number.
Added(n, m, source) ==
  /\ n \notin DOMAIN attempts /\ DOMAIN attempts' = DOMAIN attempts \cup {n}
  /\ attempts'[n].message = m /\ attempts'[n].source = source

LEMMA NoteAdds ==
  ASSUME Typed, NEW row, Note(row)
  PROVE  Added(Len(attempts) + 1, row.message, row.source)
<1> DEFINE n == Len(attempts) + 1
           att == Append(attempts, row)
<1>1. /\ Claims(att) /\ Extended(att, Append(posts, 0)) /\ att[n] = row
      /\ n \in DOMAIN att /\ n \notin DOMAIN attempts
  BY NoteClaims, InsertExtends, LenProperties DEF Typed, RowsOK, Note
<1> HIDE DEF n, att
<1>2. DOMAIN att = DOMAIN attempts \cup {n}
  BY <1>1 DEF Extended, New, n
<1> QED BY <1>1, <1>2 DEF Added, Claims, n

\* The three kinds of steps that add a row.
LEMMA ReserveAdds ==
  ASSUME ConstantsOK, Inv, NEW k \in Call, Reserve(k)
  PROVE  /\ call[k].message \in Message
         /\ Added(Len(attempts) + 1, call[k].message, "mcp_tool")
         /\ attempts'[Len(attempts) + 1].status = "sending"
         /\ \A a \in DOMAIN attempts : attempts'[a] = attempts[a]
<1> DEFINE n == Len(attempts) + 1
           m == call[k].message
<1>1. Typed /\ Turning /\ attempts \in Seq(Attempt)
  BY TypedRows DEF Inv, Typed, RowsOK
<1>2. m \in Message /\ Newest(m) \in Message
  BY <1>1, NewestOfGroup DEF Turning, Reserve
<1>3. Insert(m, "mcp_tool", "sending", Newest(m))
  BY DEF Reserve
<1>4. attempts'[n].source = "mcp_tool"
  <2>1. attempts' = Append(attempts, [message |-> m, source |-> "mcp_tool", status |-> "sending",
                                      direction |-> Newest(m)])
    BY <1>3 DEF Insert
  <2> QED BY <1>1, <2>1
<1>5. /\ Extended(attempts', posts') /\ n \in DOMAIN attempts'
      /\ attempts'[n].status = "sending" /\ attempts'[n].message = m
  BY <1>1, <1>2, <1>3, ReserveRow
<1>6. n \notin DOMAIN attempts
  BY <1>1, LenProperties
<1> HIDE DEF n, m
<1>7. DOMAIN attempts' = DOMAIN attempts \cup {n}
  BY <1>5 DEF Extended, New, n
<1>8. \A a \in DOMAIN attempts : attempts'[a] = attempts[a]
  BY <1>5 DEF Extended
<1> QED BY <1>2, <1>4, <1>5, <1>6, <1>7, <1>8 DEF Added, n, m

LEMMA NotesAdd ==
  ASSUME ConstantsOK, Typed, NEW m \in Message, NEW source \in {"queue_notice", "authorization"},
         Note(NoteOf(m, source))
  PROVE  Added(Len(attempts) + 1, m, source)
<1>1. NoteOf(m, source).message = m /\ NoteOf(m, source).source = source
  BY DEF NoteOf
<1> QED BY <1>1, NoteAdds

\* Any step but these keeps the rows it finds.
LEMMA Additions ==
  ASSUME ConstantsOK, Inv, Next
  PROVE  \/ DOMAIN attempts' = DOMAIN attempts
         \/ \E k \in Call : Reserve(k)
         \/ \E m \in Message :
              /\ Evaluate(m) /\ Streak(m) >= Required
              /\ Added(Len(attempts) + 1, m, "authorization")
         \/ \E m \in Message :
              QueueNotice(m) /\ Added(Len(attempts) + 1, m, "queue_notice")
<1> DEFINE Same == DOMAIN attempts' = DOMAIN attempts
<1>0. Typed /\ RowsOK /\ Flows(attempts, posts, call, drain)
  BY TypedRows DEF Inv, Typed
<1>1. ASSUME DrainStep PROVE Same
  <2>1. Idles \/ Begun(attempts)
    BY <1>0, <1>1, DrainSteps
  <2> QED BY <1>0, <2>1, BegunClaims DEF Idles, Claims, RowsOK
<1>3. (DrainPosted \/ DrainReturns) => Same
  BY DEF DrainPosted, DrainReturns, Finish, Finished
<1>4. Restart => Same
  BY <1>0, RecoveredRows DEF Restart
<1>5. ASSUME NEW a, DeliveryFails(a) PROVE Same
  BY <1>5 DEF DeliveryFails
<1>6. ASSUME NEW k, CallPosted(k) \/ CallReturns(k) PROVE Same
  BY <1>6 DEF CallPosted, CallReturns, Finish, Finished
<1>7. ASSUME NEW k, Refuse(k) \/ \E m \in Message : Execute(k, m) PROVE Same
  BY <1>7 DEF Refuse, Execute
<1>8. ASSUME NEW m \in Message, Evaluate(m)
      PROVE  \/ Same
             \/ Streak(m) >= Required /\ Added(Len(attempts) + 1, m, "authorization")
  <2>1. CASE Streak(m) >= Required
    <3>1. Note(NoteOf(m, "authorization"))
      BY <1>8, <2>1, NoteRow DEF Evaluate, Note, NoteOf
    <3> QED BY <1>0, <2>1, <3>1, NotesAdd
  <2>2. CASE ~(Streak(m) >= Required)
    BY <1>8, <2>2 DEF Evaluate
  <2> QED BY <2>1, <2>2
<1>9. ASSUME NEW m \in Message, QueueNotice(m)
      PROVE  Added(Len(attempts) + 1, m, "queue_notice")
  <2>1. Note(NoteOf(m, "queue_notice"))
    BY <1>9, NoteRow DEF QueueNotice, Note, NoteOf
  <2> QED BY <1>0, <2>1, NotesAdd
<1>10. ASSUME NEW m \in Message, TurnStep(m) PROVE Same
  BY <1>10 DEF TurnStep, Arrive, StartTurn, SessionExpires, Finalize, Supersede, TurnFails,
               Steer, Suppress
<1> HIDE DEF Same
<1>11. \/ Same
       \/ \E k \in Call : Reserve(k)
       \/ \E m \in Message :
            /\ Evaluate(m) /\ Streak(m) >= Required
            /\ Added(Len(attempts) + 1, m, "authorization")
       \/ \E m \in Message :
            QueueNotice(m) /\ Added(Len(attempts) + 1, m, "queue_notice")
  BY StepKinds, <1>1, <1>3, <1>4, <1>5, <1>6, <1>7, <1>8, <1>9, <1>10 DEF CallStep
<1> QED BY <1>11 DEF Same

-----------------------------------------------------------------------------
(* What becomes of a message.                                              *)

\* It is completed because nothing of it is under way any more, by the finalization of a
\* turn, or given up with one.
SettledNow(x) ==
  /\ Has(x, {"ready", "active"}) /\ status'[x] = "completed"
  /\ \A a \in AttemptsOf(x, attempts') : attempts'[a].status \notin InFlight
FinalizedBy(p, x) ==
  /\ Finalize(p)
  /\ \/ x = p /\ status'[x] = "completed"
     \/ x \in Group(p) /\ status'[x] = "absorbed"
SuppressedBy(p, x) ==
  /\ p \in turn /\ Suppress(p) /\ status'[x] = "suppressed"
  /\ x = p \/ primary[x] = p

Fate(x) ==
  \/ status'[x] = status[x]
  \/ Has(x, {"absent"}) /\ status'[x] = "received"
  \/ Evaluate(x) /\ status'[x] \in {"ready", "ignored"}
  \/ StartTurn(x) /\ status'[x] = "active"
  \/ \E p \in Message : Steer(p, x) /\ status'[x] = "steered"
  \/ SettledNow(x)
  \/ \E p \in Message : FinalizedBy(p, x)
  \/ \E p \in Message : SuppressedBy(p, x)
  \/ Has(x, {"active"}) /\ status'[x] = "failed"

LEMMA FinishFate ==
  ASSUME InboxOK, NEW a, NEW o, Finish(a, o), NEW x \in Message
  PROVE  Fate(x)
<1> DEFINE att == Finished(a, o)
           m == attempts[a].message
<1>1. attempts' = att /\ status' = Settle(att, m)
  BY DEF Finish
<1> HIDE DEF att, m
<1>2. \/ status'[x] = status[x]
      \/ x = m /\ Ended(att, session, m) /\ status'[x] = "completed"
  BY <1>1, SettlingStatus DEF InboxOK
<1>3. Ended(att, session, x) /\ status'[x] = "completed" => SettledNow(x)
  BY <1>1 DEF Ended, SettledNow
<1> QED BY <1>2, <1>3 DEF Fate

LEMMA RestartFate ==
  ASSUME InboxOK, Restart, NEW x \in Message
  PROVE  Fate(x)
<1>1. attempts' = Recovered
  BY DEF Restart
<1>2. PICK M \in Completions(session') : status' = SetStatus(M, "completed")
  BY DEF Restart
<1>3. "completed" \in Status
  BY DEF Status
<1>4. status'[x] = IF x \in M THEN "completed" ELSE status[x]
  BY <1>2, <1>3, SettingStatus DEF InboxOK
<1>5. x \in M => Ended(Recovered, session', x)
  BY <1>2 DEF Completions
<1>6. x \in M => SettledNow(x)
  BY <1>1, <1>4, <1>5 DEF Ended, SettledNow
<1> QED BY <1>4, <1>6 DEF Fate

LEMMA SuppressFate ==
  ASSUME InboxOK, NEW m \in turn, Suppress(m), NEW x \in Message
  PROVE  /\ status'[x] = status[x] \/ SuppressedBy(m, x)
         /\ status'[m] # "active"
<1> DEFINE M == {y \in Message : (y = m \/ primary[y] = m)
                                 /\ ~Has(y, {"completed", "ignored", "absorbed"})}
<1>1. status' = SetStatus(M, "suppressed")
  BY DEF Suppress
<1>2. "suppressed" \in Status /\ m \in Message
  BY DEF Status, InboxOK
<1>3. \A y \in Message : status'[y] = IF y \in M THEN "suppressed" ELSE status[y]
  BY <1>1, <1>2, SettingStatus DEF InboxOK
<1>4. status'[x] = status[x] \/ SuppressedBy(m, x)
  BY <1>3 DEF SuppressedBy
<1>5. status'[m] # "active"
  BY <1>2, <1>3 DEF Has
<1> QED BY <1>4, <1>5

LEMMA Fates ==
  ASSUME ConstantsOK, Inv, Next, NEW x \in Message
  PROVE  Fate(x)
<1>0. InboxOK /\ Typed /\ status \in [Message -> Status] /\ turn \in SUBSET Message
  BY TypesByParts DEF Inv, InboxOK
<1>1. ASSUME status' = status PROVE Fate(x)
  BY <1>1 DEF Fate
<1>2. DrainStep => Fate(x)
  BY <1>0, <1>1, DrainSteps DEF Typed, inbox
<1>3. DrainPosted \/ (\E k \in Call : CallPosted(k) \/ CallStep(k)) => Fate(x)
  BY <1>1 DEF DrainPosted, CallPosted, CallStep, Reserve, Refuse, Execute, inbox
<1>4. DrainReturns \/ (\E k \in Call : CallReturns(k)) => Fate(x)
  BY <1>0, FinishFate DEF DrainReturns, CallReturns
<1>5. Restart => Fate(x)
  BY <1>0, RestartFate
<1>6. (\E a \in DOMAIN attempts : DeliveryFails(a)) \/ (\E m \in Message : QueueNotice(m)) => Fate(x)
  BY <1>1 DEF DeliveryFails, QueueNotice, inbox
<1>7. ASSUME NEW m \in Message, Evaluate(m) PROVE Fate(x)
  <2>1. \E v \in {"ready", "ignored"} : status' = [status EXCEPT ![m] = v]
    BY <1>7 DEF Evaluate
  <2>2. x # m => status'[x] = status[x]
    BY <1>0, <2>1
  <2>3. x = m => Evaluate(x) /\ status'[x] \in {"ready", "ignored"}
    BY <1>0, <1>7, <2>1
  <2> QED BY <2>2, <2>3 DEF Fate
<1>8. ASSUME NEW m \in Message, Arrive(m) PROVE Fate(x)
  <2>1. status[m] = "absent" /\ status' = [status EXCEPT ![m] = "received"]
    BY <1>8 DEF Arrive
  <2> QED BY <1>0, <2>1 DEF Fate, Has
<1>9. ASSUME NEW m \in Message, StartTurn(m) PROVE Fate(x)
  <2>1. status' = [status EXCEPT ![m] = "active"]
    BY <1>9 DEF StartTurn
  <2> QED BY <1>0, <1>9, <2>1 DEF Fate
<1>10. ASSUME NEW m \in Message, SessionExpires(m) PROVE Fate(x)
  BY <1>1, <1>10 DEF SessionExpires
<1>11. ASSUME NEW m \in Message, Finalize(m) PROVE Fate(x)
  <2>1. status'[x] = CASE x = m -> "completed" [] x \in Group(m) -> "absorbed" [] OTHER -> status[x]
    BY <1>11 DEF Finalize
  <2>2. status'[x] = status[x] \/ FinalizedBy(m, x)
    BY <1>11, <2>1 DEF FinalizedBy
  <2> QED BY <2>2 DEF Fate
<1>12. ASSUME NEW m \in Message, Supersede(m) PROVE Fate(x)
  <2>1. m \in turn /\ Suppress(m)
    BY <1>12 DEF Supersede
  <2> QED BY <1>0, <2>1, SuppressFate DEF Fate
<1>13. ASSUME NEW m \in Message, TurnFails(m) PROVE Fate(x)
  <2>1. m \in turn
    BY <1>13 DEF TurnFails
  <2>2. \/ status' = status \/ Suppress(m)
        \/ status' = [status EXCEPT ![m] = IF @ = "active" THEN "failed" ELSE @]
    BY <1>13 DEF TurnFails
  <2>3. CASE Suppress(m)
    BY <1>0, <2>1, <2>3, SuppressFate DEF Fate
  <2>4. CASE status' = [status EXCEPT ![m] = IF @ = "active" THEN "failed" ELSE @]
    BY <1>0, <2>4 DEF Fate, Has
  <2> QED BY <1>1, <2>2, <2>3, <2>4
<1>14. ASSUME NEW p \in Message, NEW y \in Message, Steer(p, y) PROVE Fate(x)
  <2>1. status' = [status EXCEPT ![y] = "steered"]
    BY <1>14 DEF Steer
  <2>2. x = y => Steer(p, x) /\ status'[x] = "steered"
    BY <1>0, <1>14, <2>1
  <2>3. x # y => status'[x] = status[x]
    BY <1>0, <2>1
  <2> QED BY <2>2, <2>3 DEF Fate
<1> QED BY StepKinds, <1>2, <1>3, <1>4, <1>5, <1>6, <1>7, <1>8, <1>9, <1>10, <1>11, <1>12, <1>13,
           <1>14 DEF TurnStep

\* A message changes turns by steering alone.
LEMMA PrimaryKept ==
  ASSUME Typed, Next
  PROVE  primary' = primary \/ \E p, x \in Message : Steer(p, x)
<1>1. DrainStep \/ DrainPosted \/ DrainReturns \/ Restart => primary' = primary
  BY DrainSteps DEF DrainPosted, DrainReturns, Restart, Finish, inbox, Typed
<1>2. ASSUME NEW a, DeliveryFails(a) PROVE primary' = primary
  BY <1>2 DEF DeliveryFails, inbox
<1>3. ASSUME NEW k, CallPosted(k) \/ CallReturns(k) \/ CallStep(k) PROVE primary' = primary
  BY <1>3 DEF CallPosted, CallReturns, CallStep, Reserve, Refuse, Execute, Finish, inbox
<1>4. ASSUME NEW m \in Message, Evaluate(m) \/ QueueNotice(m) \/ TurnStep(m)
      PROVE  primary' = primary \/ \E p, x \in Message : Steer(p, x)
  BY <1>4 DEF Evaluate, QueueNotice, TurnStep, Arrive, StartTurn, SessionExpires, Finalize,
              Supersede, TurnFails, inbox
<1> QED BY StepKinds, <1>1, <1>2, <1>3, <1>4

-----------------------------------------------------------------------------
(* ReportedFailureSticks.                                                  *)

\* A row counts as accepted by the answer to its send alone, which looks up the reports.
LEMMA StepReported ==
  ASSUME ConstantsOK, Inv, Next
  PROVE  ReportedFailureSticks'
<1>0. /\ Typed /\ RowsOK /\ LinksOK /\ Flows(attempts, posts, call, drain)
      /\ attempts \in Seq(Attempt) /\ failures \in SUBSET DOMAIN attempts
      /\ \A a \in failures : attempts[a].status # "accepted"
  BY TypesByParts DEF Inv, Typed, RowsOK, LinksOK, ReportedFailureSticks
<1>1. ASSUME failures' = failures,
             \A a \in DOMAIN attempts :
               attempts'[a].status = "accepted" => attempts[a].status = "accepted" \/ a \notin failures
      PROVE  ReportedFailureSticks'
  BY <1>0, <1>1 DEF ReportedFailureSticks
<1>2. ASSUME failures' = failures, attempts' = attempts PROVE ReportedFailureSticks'
  BY <1>1, <1>2
<1>3. ASSUME DrainStep PROVE ReportedFailureSticks'
  <2>1. failures' = failures /\ (attempts' = attempts \/ Begun(attempts))
    BY <1>0, <1>3, DrainSteps DEF Idles, provider
  <2>2. Begun(attempts) => Claims(attempts)
    BY <1>0, BegunClaims
  <2> QED BY <1>1, <1>2, <2>1, <2>2 DEF Claims
<1>4. DrainPosted => ReportedFailureSticks'
  BY <1>2 DEF DrainPosted
<1>5. ASSUME NEW a \in DOMAIN attempts, attempts[a].status = "sending", NEW f,
             NEW o \in Outcome(f), Finish(a, o), posts' = posts, failures' = failures
      PROVE  ReportedFailureSticks'
  <2>1. /\ attempts'[a].status = "accepted" => a \notin failures
        /\ \A b \in DOMAIN attempts : b # a => attempts'[b] = attempts[b]
    BY <1>0, <1>5, FinishRows
  <2> QED BY <1>1, <1>5, <2>1
<1>6. ASSUME DrainReturns PROVE ReportedFailureSticks'
  <2>1. /\ drain.attempt \in DOMAIN attempts /\ attempts[drain.attempt].status = "sending"
        /\ posts' = posts /\ failures' = failures
    BY <1>0, <1>6, Carried DEF DrainReturns, Flying, provider
  <2>2. PICK o \in Outcome(drain) : Finish(drain.attempt, o)
    BY <1>6 DEF DrainReturns
  <2> QED BY <1>5, <2>1, <2>2
<1>7. ASSUME Restart PROVE ReportedFailureSticks'
  <2>1. attempts' = Recovered /\ failures' = failures
    BY <1>7 DEF Restart, provider
  <2> QED BY <1>0, <1>1, <2>1, RecoveredRows
<1>8. ASSUME NEW a \in DOMAIN attempts, DeliveryFails(a) PROVE ReportedFailureSticks'
  <2>1. failures' = failures \cup {a}
    BY <1>8 DEF DeliveryFails
  <2>2. /\ attempts'[a].status # "accepted"
        /\ \A b \in DOMAIN attempts : b # a => attempts'[b] = attempts[b]
    BY <1>0, <1>8, DeliveryRows DEF DeliveryFails
  <2> QED BY <1>0, <2>1, <2>2 DEF ReportedFailureSticks
<1>9. ASSUME NEW k \in Call, CallPosted(k) PROVE ReportedFailureSticks'
  BY <1>2, <1>9 DEF CallPosted
<1>10. ASSUME NEW k \in Call, CallReturns(k) PROVE ReportedFailureSticks'
  <2>1. /\ call[k].attempt \in DOMAIN attempts /\ attempts[call[k].attempt].status = "sending"
        /\ posts' = posts /\ failures' = failures
    BY <1>0, <1>10, Carried DEF CallReturns, Flying, provider
  <2>2. PICK o \in Outcome(call[k]) : Finish(call[k].attempt, o)
    BY <1>10 DEF CallReturns
  <2> QED BY <1>5, <2>1, <2>2
<1>11. ASSUME NEW k \in Call, CallStep(k) PROVE ReportedFailureSticks'
  <2>1. failures' = failures
    BY <1>11 DEF CallStep, Reserve, Refuse, Execute, provider
  <2>2. Reserve(k) \/ attempts' = attempts
    BY <1>11 DEF CallStep, Refuse, Execute
  <2>3. Reserve(k) => \A a \in DOMAIN attempts : attempts'[a] = attempts[a]
    BY ReserveAdds
  <2> QED BY <1>1, <1>2, <2>1, <2>2, <2>3
<1>12. ASSUME NEW row, Note(row), failures' = failures PROVE ReportedFailureSticks'
  <2> DEFINE att == Append(attempts, row)
  <2>1. Claims(att) /\ Extended(att, Append(posts, 0))
    BY <1>0, <1>12, NoteClaims
  <2> HIDE DEF att
  <2> QED BY <1>1, <1>12, <2>1 DEF Claims, Extended
<1>13. ASSUME NEW m \in Message, Evaluate(m) PROVE ReportedFailureSticks'
  <2>1. failures' = failures
    BY <1>13 DEF Evaluate, provider
  <2>2. attempts' = attempts \/ Note(NoteOf(m, "authorization"))
    BY <1>13, NoteRow DEF Evaluate, Note, NoteOf
  <2> QED BY <1>2, <1>12, <2>1, <2>2
<1>14. ASSUME NEW m \in Message, QueueNotice(m) PROVE ReportedFailureSticks'
  <2>1. failures' = failures /\ Note(NoteOf(m, "queue_notice"))
    BY <1>14, NoteRow DEF QueueNotice, Note, NoteOf, provider
  <2> QED BY <1>12, <2>1
<1>15. ASSUME NEW m \in Message, TurnStep(m) PROVE ReportedFailureSticks'
  <2>1. failures' = failures
    BY <1>15 DEF TurnStep, Arrive, StartTurn, SessionExpires, Finalize, Supersede, TurnFails,
                 Steer, provider
  <2>2. attempts' = attempts \/ Suppress(m)
    BY <1>15 DEF TurnStep, Arrive, StartTurn, SessionExpires, Finalize, Supersede, TurnFails,
                 Steer
  <2>3. Suppress(m) => \A a \in DOMAIN attempts :
          attempts'[a].status = attempts[a].status \/ attempts'[a].status = "failed"
    BY <1>0, SuppressRows
  <2> QED BY <1>1, <1>2, <2>1, <2>2, <2>3
<1> QED BY StepKinds, <1>3, <1>4, <1>6, <1>7, <1>8, <1>9, <1>10, <1>11, <1>13, <1>14, <1>15

-----------------------------------------------------------------------------
(* Budgeted.                                                               *)

\* The sends of a message, before and after a step.
LEMMA SendsFinite ==
  ASSUME attempts \in Seq(Attempt), NEW m
  PROVE  IsFiniteSet(AttemptsOf(m, attempts)) /\ Cardinality(AttemptsOf(m, attempts)) \in Nat
<1>1. Len(attempts) \in Nat /\ DOMAIN attempts = 1 .. Len(attempts)
  BY LenProperties
<1>2. IsFiniteSet(1 .. Len(attempts))
  BY <1>1, FS_Interval
<1>3. AttemptsOf(m, attempts) \in SUBSET (1 .. Len(attempts))
  BY <1>1 DEF AttemptsOf
<1> QED BY <1>2, <1>3, FS_Subset, FS_CardinalityType

LEMMA SendsKept ==
  ASSUME Evolved(attempts'), DOMAIN attempts' = DOMAIN attempts, NEW m
  PROVE  AttemptsOf(m, attempts') = AttemptsOf(m, attempts)
BY DEF Evolved, Kept, AttemptsOf

LEMMA SendsAdded ==
  ASSUME Evolved(attempts'), NEW n, NEW x, NEW source, Added(n, x, source), NEW m
  PROVE  /\ m # x => AttemptsOf(m, attempts') = AttemptsOf(m, attempts)
         /\ m = x => AttemptsOf(m, attempts') = AttemptsOf(m, attempts) \cup {n}
         /\ n \notin AttemptsOf(m, attempts)
BY DEF Evolved, Kept, AttemptsOf, Added

\* Who is authorized stays so.
LEMMA StaysAuthorized ==
  ASSUME ConstantsOK, Inv, Next, NEW m \in Message, Authorized(m)
  PROVE  Authorized(m)'
<1>0. InboxOK /\ authorization \in [Peer -> Standing] /\ Typed
  BY TypesByParts DEF Inv, InboxOK
<1>1. ASSUME authorization' = authorization PROVE Authorized(m)'
  BY <1>1 DEF Authorized
<1>2. ASSUME NEW x \in Message, Evaluate(x) PROVE Authorized(m)'
  <2>1. PICK v : authorization' = [authorization EXCEPT ![PeerOf[x]] = v]
    BY <1>2 DEF Evaluate
  <2>2. ~Authorized(x)
    BY <1>2 DEF Evaluate
  <2>3. CASE PeerOf[m] = PeerOf[x]
    BY <2>2, <2>3 DEF Authorized
  <2>4. CASE PeerOf[m] # PeerOf[x]
    BY <1>0, <2>1, <2>4 DEF Authorized
  <2> QED BY <2>3, <2>4
<1>3. DrainStep \/ DrainPosted \/ DrainReturns \/ Restart => authorization' = authorization
  BY <1>0, DrainSteps DEF DrainPosted, DrainReturns, Restart, Finish, inbox, Typed
<1>4. ASSUME NEW a, DeliveryFails(a) PROVE authorization' = authorization
  BY <1>4 DEF DeliveryFails, inbox
<1>5. ASSUME NEW k, CallPosted(k) \/ CallReturns(k) \/ CallStep(k) PROVE authorization' = authorization
  BY <1>5 DEF CallPosted, CallReturns, CallStep, Reserve, Refuse, Execute, Finish, inbox
<1>6. ASSUME NEW x, QueueNotice(x) \/ TurnStep(x) PROVE authorization' = authorization
  BY <1>6 DEF QueueNotice, TurnStep, Arrive, StartTurn, SessionExpires, Finalize, Supersede,
              TurnFails, Steer, inbox
<1> QED BY StepKinds, <1>1, <1>2, <1>3, <1>4, <1>5, <1>6

\* A message that was sent nothing is one that has just come, and was so before.
Unsent(m) == Has(m, {"absent"}) \/ (Has(m, {"received"}) /\ ~Authorized(m))
LEMMA UnsentBefore ==
  ASSUME ConstantsOK, Inv, Next, NEW m \in Message, Unsent(m)'
  PROVE  Unsent(m)
<1>1. status \in [Message -> Status]
  BY DEF Inv, TypeOK
<1>2. status'[m] \in {"absent", "received"}
  BY DEF Unsent, Has
<1>3. status'[m] = status[m] \/ status[m] = "absent"
  BY <1>2, Fates DEF Fate, Has, SettledNow, FinalizedBy, SuppressedBy
<1>4. ~Authorized(m)' => ~Authorized(m)
  BY StaysAuthorized
<1> QED BY <1>2, <1>3, <1>4 DEF Unsent, Has

LEMMA StepBudgeted ==
  ASSUME ConstantsOK, Inv, Next
  PROVE  Budgeted'
<1>0. /\ Evolved(attempts') /\ Typed /\ attempts \in Seq(Attempt) /\ Budget \in Nat \ {0}
      /\ status \in [Message -> Status]
  BY StepRows, TypesByParts DEF Inv, RowsStep, Typed, RowsOK, ConstantsOK, InboxOK
<1>1. /\ \A m \in Message : Cardinality(AttemptsOf(m, attempts)) <= Budget
      /\ \A m \in Message : Unsent(m) => AttemptsOf(m, attempts) = {}
  BY DEF Inv, Budgeted, SendBudget, Unsent
<1> SUFFICES /\ \A m \in Message : Cardinality(AttemptsOf(m, attempts')) <= Budget
             /\ \A m \in Message : Unsent(m)' => AttemptsOf(m, attempts') = {}
  BY DEF Budgeted, SendBudget, Unsent
<1>2. CASE DOMAIN attempts' = DOMAIN attempts
  BY <1>0, <1>1, <1>2, SendsKept, UnsentBefore
\* One more send of a message that has room for it and has not just come.
<1>3. ASSUME NEW n, NEW x \in Message, NEW source, Added(n, x, source),
             Cardinality(AttemptsOf(x, attempts)) < Budget, ~Unsent(x)'
      PROVE  /\ \A m \in Message : Cardinality(AttemptsOf(m, attempts')) <= Budget
             /\ \A m \in Message : Unsent(m)' => AttemptsOf(m, attempts') = {}
  <2>1. ASSUME NEW m \in Message
        PROVE  /\ Cardinality(AttemptsOf(m, attempts')) <= Budget
               /\ Unsent(m)' => AttemptsOf(m, attempts') = {}
    <3>1. CASE m # x
      BY <1>0, <1>1, <1>3, <3>1, SendsAdded, UnsentBefore
    <3>2. CASE m = x
      <4>1. /\ AttemptsOf(m, attempts') = AttemptsOf(m, attempts) \cup {n}
            /\ n \notin AttemptsOf(m, attempts)
        BY <1>0, <1>3, <3>2, SendsAdded
      <4>2. Cardinality(AttemptsOf(m, attempts')) = Cardinality(AttemptsOf(m, attempts)) + 1
        BY <1>0, <4>1, SendsFinite, FS_AddElement
      <4> QED BY <1>0, <1>3, <3>2, <4>2, SendsFinite
    <3> QED BY <3>1, <3>2
  <2> QED BY <2>1
<1>4. ASSUME NEW k \in Call, Reserve(k)
      PROVE  /\ \A m \in Message : Cardinality(AttemptsOf(m, attempts')) <= Budget
             /\ \A m \in Message : Unsent(m)' => AttemptsOf(m, attempts') = {}
  <2>0. PICK x \in Message : x = call[k].message
    BY <1>4, ReserveAdds
  <2>1. Added(Len(attempts) + 1, x, "mcp_tool")
    BY <1>4, <2>0, ReserveAdds
  <2>2. WithinBudget(x) /\ status[x] = "active" /\ status' = status
    BY <1>4, <2>0 DEF Reserve, Valid, Has, inbox
  <2>3. ~Unsent(x)' /\ Cardinality(AttemptsOf(x, attempts)) < Budget
    BY <2>2 DEF Unsent, Has, WithinBudget
  <2> QED BY <1>3, <2>1, <2>3
<1>5. ASSUME NEW x \in Message, AttemptsOf(x, attempts) = {}
      PROVE  Cardinality(AttemptsOf(x, attempts)) < Budget
  BY <1>0, <1>5, FS_EmptySet
<1>6. ASSUME NEW x \in Message, Evaluate(x), Streak(x) >= Required,
             Added(Len(attempts) + 1, x, "authorization")
      PROVE  /\ \A m \in Message : Cardinality(AttemptsOf(m, attempts')) <= Budget
             /\ \A m \in Message : Unsent(m)' => AttemptsOf(m, attempts') = {}
  <2>1. status[x] = "received" /\ ~Authorized(x) /\ status'[x] = "ready"
    BY <1>0, <1>6 DEF Evaluate
  <2>2. Unsent(x) /\ ~Unsent(x)'
    BY <2>1 DEF Unsent, Has
  <2> QED BY <1>1, <1>3, <1>5, <1>6, <2>2
<1>7. ASSUME NEW x \in Message, QueueNotice(x), Added(Len(attempts) + 1, x, "queue_notice")
      PROVE  /\ \A m \in Message : Cardinality(AttemptsOf(m, attempts')) <= Budget
             /\ \A m \in Message : Unsent(m)' => AttemptsOf(m, attempts') = {}
  <2>1. Authorized(x) /\ AttemptsOf(x, attempts) = {} /\ status'[x] = "received"
    BY <1>7 DEF QueueNotice, inbox
  <2>2. ~Unsent(x)'
    BY <2>1, StaysAuthorized DEF Unsent, Has
  <2> QED BY <1>3, <1>5, <1>7, <2>1, <2>2
<1> QED BY Additions, <1>2, <1>4, <1>6, <1>7

-----------------------------------------------------------------------------
(* PutAway.                                                                *)

LEMMA StepPutAway ==
  ASSUME ConstantsOK, Inv, Next
  PROVE  PutAway'
<1>0. /\ Evolved(attempts') /\ Typed /\ attempts \in Seq(Attempt) /\ attempts' \in Seq(Attempt)
      /\ status \in [Message -> Status] /\ primary \in [Message -> 0 .. Messages]
      /\ PutAway
  BY StepRows, TypesByParts DEF Inv, RowsStep, Typed, RowsOK, InboxOK, Evolved
<1>1. /\ \A a \in DOMAIN attempts : /\ a \in DOMAIN attempts'
                                    /\ attempts'[a].message = attempts[a].message
                                    /\ attempts'[a].source = attempts[a].source
                                    /\ attempts'[a].direction = attempts[a].direction
                                    /\ Forward(attempts[a].status, attempts'[a].status)
      /\ \A a \in DOMAIN attempts' : attempts'[a] \in Attempt
  BY <1>0, ElementOfSeq, LenProperties DEF Evolved, Kept
\* A tool send is added as one under way, of a running message.
<1>2. ASSUME NEW a \in DOMAIN attempts' \ DOMAIN attempts, attempts'[a].source = "mcp_tool"
      PROVE  attempts'[a].status = "sending" /\ status'[attempts'[a].message] = "active"
  <2>1. ASSUME NEW m, NEW source, Added(Len(attempts) + 1, m, source), source # "mcp_tool"
        PROVE  FALSE
    BY <1>2, <2>1 DEF Added
  <2>2. PICK k \in Call : Reserve(k)
    BY <1>2, <2>1, Additions
  <2>3. status[call[k].message] = "active" /\ status' = status
    BY <2>2 DEF Reserve, Valid, Has, inbox
  <2>4. Added(Len(attempts) + 1, call[k].message, "mcp_tool")
        /\ attempts'[Len(attempts) + 1].status = "sending"
    BY <2>2, ReserveAdds
  <2> QED BY <1>2, <2>3, <2>4 DEF Added
<1>3. \A a \in DOMAIN attempts' : attempts'[a].source = "mcp_tool" => attempts'[a].status # "pending"
  BY <1>0, <1>1, <1>2 DEF PutAway, Forward, Terminal
<1>4. ASSUME NEW m \in Message, status'[m] = "completed", NEW a \in AttemptsOf(m, attempts'),
             attempts'[a].source = "mcp_tool"
      PROVE  attempts'[a].status \in Terminal
  <2>0. a \in DOMAIN attempts' /\ attempts'[a].message = m
    BY <1>4 DEF AttemptsOf
  <2>1. a \in DOMAIN attempts
    BY <1>2, <1>4, <2>0
  <2>2. attempts[a].message = m /\ attempts[a].source = "mcp_tool" /\ a \in Sends(m)
    BY <1>1, <1>4, <2>0, <2>1 DEF Sends, AttemptsOf
  <2>3. attempts[a].status \in Terminal => attempts'[a].status \in Terminal
    BY <1>1, <2>1 DEF Forward, Terminal
  <2>4. CASE status[m] = "completed"
    BY <1>0, <2>2, <2>3, <2>4 DEF PutAway, CompletedIsSettled, Has
  <2>5. CASE SettledNow(m)
    BY <1>1, <1>4, <2>0, <2>5 DEF SettledNow, Attempt
  <2>6. ASSUME NEW p \in Message, FinalizedBy(p, m) PROVE attempts[a].status \in Terminal
    <3>1. Finalize(p) /\ p = m
      BY <1>4, <2>6 DEF FinalizedBy
    <3> QED BY <2>2, <3>1 DEF Finalize
  <2> QED BY <1>4, <2>3, <2>4, <2>5, <2>6, Fates DEF Fate, SuppressedBy
<1>5. ASSUME NEW x \in Message
      PROVE  primary'[x] = primary[x] \/ status'[x] = "steered"
  <2>1. ASSUME NEW p \in Message, NEW y \in Message, Steer(p, y)
        PROVE  primary'[x] = primary[x] \/ status'[x] = "steered"
    <3>1. primary' = [primary EXCEPT ![y] = p] /\ status' = [status EXCEPT ![y] = "steered"]
      BY <2>1 DEF Steer
    <3> QED BY <1>0, <3>1
  <2>2. primary' = primary \/ \E p, y \in Message : Steer(p, y)
    BY <1>0, PrimaryKept
  <2> QED BY <2>1, <2>2
<1>6. ASSUME NEW x \in Message, status'[x] = "absorbed"
      PROVE  \E a \in AttemptsOf(primary'[x], attempts') :
               attempts'[a].source = "mcp_tool" /\ attempts'[a].direction >= x
  <2>1. ASSUME NEW a \in Sends(primary[x]), attempts[a].direction >= x
        PROVE  \E b \in AttemptsOf(primary'[x], attempts') :
                 attempts'[b].source = "mcp_tool" /\ attempts'[b].direction >= x
    <3>1. primary'[x] = primary[x]
      BY <1>5, <1>6
    <3>2. /\ a \in AttemptsOf(primary[x], attempts')
          /\ attempts'[a].source = "mcp_tool" /\ attempts'[a].direction >= x
      BY <1>1, <2>1 DEF Sends, AttemptsOf
    <3> QED BY <3>1, <3>2
  <2>2. CASE status[x] = "absorbed"
    <3>1. PICK a \in Sends(primary[x]) : attempts[a].direction >= x
      BY <1>0, <2>2 DEF PutAway, AbsorbedIsAnswered, Has
    <3> QED BY <2>1, <3>1
  <2>3. ASSUME NEW p \in Message, FinalizedBy(p, x)
        PROVE  \E a \in Sends(primary[x]) : attempts[a].direction >= x
    <3>1. Finalize(p) /\ x \in Group(p) /\ primary[x] = p
      BY <1>6, <2>3 DEF FinalizedBy, Group
    <3>2. PICK a \in Sends(p) : attempts[a].direction = Newest(p)
      BY <3>1 DEF Finalize, Answered
    <3>3. x <= Newest(p)
      BY <3>1, NewestOfGroup
    <3>4. attempts[a].direction >= x
      BY <3>2, <3>3, NewestOfGroup DEF Message
    <3> QED BY <3>1, <3>2, <3>4
  <2> QED BY <1>6, <2>1, <2>2, <2>3, Fates DEF Fate, SettledNow, SuppressedBy
<1>7. CompletedIsSettled'
  BY <1>4 DEF CompletedIsSettled, Sends, Has
<1>8. AbsorbedIsAnswered'
  BY <1>6 DEF AbsorbedIsAnswered, Sends, Has
<1> QED BY <1>3, <1>7, <1>8 DEF PutAway

-----------------------------------------------------------------------------
(* Turning and Reached.                                                    *)

LEMMA TurnsGrow ==
  ASSUME ConstantsOK, Inv, Next
  PROVE  \A m \in turn' : m \in turn \/ StartTurn(m)
<1>0. Typed
  BY TypedRows DEF Inv
<1>1. DrainStep \/ DrainPosted \/ DrainReturns \/ Restart => \A m \in turn' : m \in turn
  BY <1>0, DrainSteps DEF DrainPosted, DrainReturns, Restart, Typed
<1>2. ASSUME NEW a, DeliveryFails(a) PROVE turn' = turn
  BY <1>2 DEF DeliveryFails
<1>3. ASSUME NEW k, CallPosted(k) \/ CallReturns(k) \/ CallStep(k) PROVE turn' = turn
  BY <1>3 DEF CallPosted, CallReturns, CallStep, Reserve, Refuse, Execute
<1>4. ASSUME NEW x \in Message, Evaluate(x) \/ QueueNotice(x) \/ TurnStep(x)
      PROVE  \A m \in turn' : m \in turn \/ StartTurn(m)
  BY <1>4 DEF Evaluate, QueueNotice, TurnStep, Arrive, StartTurn, SessionExpires, Finalize,
              Supersede, TurnFails, Steer
<1> QED BY StepKinds, <1>1, <1>2, <1>3, <1>4

LEMMA CallsOfMessages ==
  ASSUME ConstantsOK, Inv, Next, NEW k \in Call, call'[k].at # "idle"
  PROVE  call'[k].message \in Message
<1>0. /\ Typed /\ call \in [Call -> CallState(DOMAIN attempts)]
      /\ \A l \in Call : call[l].at # "idle" => call[l].message \in Message
  BY TypesByParts DEF Inv, LinksOK, Turning
<1>1. call' = call => call'[k].message \in Message
  BY <1>0
<1>2. ~Restart
  BY DEF Restart, NoCall
<1>3. ASSUME NEW l \in Call, CallPosted(l) PROVE call'[k].message \in Message
  <2>1. PICK v : call' = [call EXCEPT ![l] = [call[l] EXCEPT !.at = "answered", !.verdict = v]]
    BY <1>3 DEF CallPosted
  <2>2. call[l].at = "sending"
    BY <1>3 DEF CallPosted
  <2>3. call[l].message \in Message
    BY <1>0, <2>2
  <2>4. [call[l] EXCEPT !.at = "answered", !.verdict = v].message = call[l].message
    BY <1>0 DEF CallState
  <2> QED BY <1>0, <2>1, <2>3, <2>4
<1>4. ASSUME NEW l \in Call, CallReturns(l) \/ Refuse(l) PROVE call'[k].message \in Message
  <2>1. call' = [call EXCEPT ![l] = NoCall]
    BY <1>4 DEF CallReturns, Refuse
  <2> QED BY <1>0, <2>1 DEF NoCall
<1>5. ASSUME NEW l \in Call, Reserve(l) PROVE call'[k].message \in Message
  <2>1. call' = [call EXCEPT ![l] = [call[l] EXCEPT !.at = "sending", !.attempt = Len(attempts) + 1]]
    BY <1>5 DEF Reserve
  <2>2. call[l].message \in Message
    BY <1>5, ReserveAdds
  <2>3. [call[l] EXCEPT !.at = "sending", !.attempt = Len(attempts) + 1].message = call[l].message
    BY <1>0 DEF CallState
  <2> QED BY <1>0, <2>1, <2>2, <2>3
<1>6. ASSUME NEW l \in Call, NEW m \in Message, Execute(l, m) PROVE call'[k].message \in Message
  <2> DEFINE f == [NoCall EXCEPT !.at = "preparing", !.message = m, !.serial = session[m].serial]
  <2>1. call' = [call EXCEPT ![l] = f] /\ f.message = m
    BY <1>6 DEF Execute, NoCall
  <2> HIDE DEF f
  <2> QED BY <1>0, <1>6, <2>1
<1>7. DrainStep \/ DrainPosted \/ DrainReturns => call' = call
  BY <1>0, DrainSteps DEF DrainPosted, DrainReturns, Typed
<1>8. ASSUME NEW a, DeliveryFails(a) PROVE call' = call
  BY <1>8 DEF DeliveryFails
<1>9. ASSUME NEW m \in Message, Evaluate(m) \/ QueueNotice(m) \/ TurnStep(m) PROVE call' = call
  BY <1>9 DEF Evaluate, QueueNotice, TurnStep, Arrive, StartTurn, SessionExpires, Finalize,
              Supersede, TurnFails, Steer
<1> QED BY StepKinds, <1>1, <1>2, <1>3, <1>4, <1>5, <1>6, <1>7, <1>8, <1>9 DEF CallStep

LEMMA StepTurning ==
  ASSUME ConstantsOK, Inv, Next
  PROVE  Turning'
<1>0. /\ status \in [Message -> Status] /\ turn \in SUBSET Message
      /\ \A m \in turn : status[m] \notin {"absent", "received", "steered"}
  BY TypesByParts DEF Inv, Turning, InboxOK, Has
<1>1. ASSUME NEW m \in turn' PROVE status'[m] \notin {"absent", "received", "steered"}
  <2>1. CASE m \in turn
    <3>1. m \in Message /\ status[m] \notin {"absent", "received", "steered"}
      BY <1>0, <2>1
    <3>2. \A p \in Message : ~Steer(p, m)
      BY <3>1 DEF Steer
    <3> QED BY <3>1, <3>2, Fates DEF Fate, SettledNow, FinalizedBy, SuppressedBy, Has
  <2>2. CASE StartTurn(m)
    <3>1. m \in Message /\ status'[m] = "active"
      <4>1. status' = [status EXCEPT ![m] = "active"] /\ Has(m, {"received", "failed", "active"})
        BY <2>2 DEF StartTurn
      <4>2. m \in Message
        BY <2>2, StepInbox, <1>1 DEF InboxOK
      <4> QED BY <1>0, <4>1, <4>2
    <3> QED BY <3>1
  <2> QED BY <2>1, <2>2, TurnsGrow
<1> QED BY <1>1, CallsOfMessages DEF Turning, Has

\* A message that keeps running keeps what its turn took up.
LEMMA GroupsGrow ==
  ASSUME ConstantsOK, Inv, Next, NEW m \in Message, status'[m] = "active",
         NEW x \in Group(m)
  PROVE  x \in Group(m)'
<1>0. /\ Typed /\ InboxOK /\ status \in [Message -> Status] /\ turn \in SUBSET Message
      /\ primary \in [Message -> 0 .. Messages]
      /\ \A y \in turn : status[y] \notin {"absent", "received", "steered"}
  BY TypesByParts DEF Inv, Turning, InboxOK, Has
<1>1. x \in Message /\ primary[x] = m /\ status[x] = "steered"
  BY DEF Group
<1>2. primary'[x] = primary[x]
  <2>1. ASSUME NEW p \in Message, NEW y \in Message, Steer(p, y) PROVE primary'[x] = primary[x]
    <3>1. primary' = [primary EXCEPT ![y] = p] /\ status[y] = "received"
      BY <2>1 DEF Steer
    <3> QED BY <1>0, <1>1, <3>1
  <2> QED BY <1>0, <2>1, PrimaryKept
<1>3. ASSUME NEW p \in Message, FinalizedBy(p, x) PROVE FALSE
  <2>1. Finalize(p) /\ p \in turn
    BY <1>3 DEF FinalizedBy, Finalize
  <2>2. p = m
    BY <1>0, <1>1, <1>3, <2>1 DEF FinalizedBy, Group
  <2>3. status'[p] = "completed"
    <3>1. status' = [y \in Message |-> CASE y = p -> "completed" [] y \in Group(p) -> "absorbed"
                                          [] OTHER -> status[y]]
      BY <2>1 DEF Finalize
    <3>2. status'[p] = CASE p = p -> "completed" [] p \in Group(p) -> "absorbed"
                         [] OTHER -> status[p]
      BY <3>1
    <3> QED BY <1>0, <2>1, <3>2 DEF Group
  <2> QED BY <2>2, <2>3
<1>4. ASSUME NEW p \in Message, SuppressedBy(p, x) PROVE FALSE
  <2>1. p \in turn /\ Suppress(p)
    BY <1>4 DEF SuppressedBy
  <2>2. p = m
    BY <1>0, <1>1, <1>4, <2>1 DEF SuppressedBy
  <2>3. status'[p] # "active"
    BY <1>0, <2>1, SuppressFate
  <2> QED BY <2>2, <2>3
<1>5. status'[x] = "steered"
  <2>1. ~Evaluate(x) /\ ~StartTurn(x)
    BY <1>1 DEF Evaluate, StartTurn, Has
  <2> QED BY <1>1, <1>3, <1>4, <2>1, Fates DEF Fate, SettledNow, Has
<1> QED BY <1>1, <1>2, <1>5 DEF Group

\* What becomes of a session: it stays, ends, or is a new one of its message.
LEMMA SessionFates ==
  ASSUME ConstantsOK, Inv, Next, NEW m \in Message
  PROVE  \/ session'[m] = session[m]
         \/ session'[m].state # "open"
         \/ StartTurn(m) /\ session'[m].boundary = Newest(m)
         \/ \E x \in Message : Steer(m, x) /\ session'[m].boundary = x
<1>0. /\ Typed /\ InboxOK /\ session \in [Message -> SessionState]
      /\ \A x \in Message : session[x] \in SessionState
  BY TypesByParts DEF Inv, InboxOK
<1>1. DrainStep \/ DrainPosted \/ DrainReturns => session' = session
  BY <1>0, DrainSteps DEF DrainPosted, DrainReturns, Finish, inbox, Typed
<1>2. ASSUME NEW st \in {"expired", "closed"}, NEW x \in Message,
             session' = [session EXCEPT ![x].state = st]
      PROVE  session'[m] = session[m] \/ session'[m].state # "open"
  <2>1. session' = [session EXCEPT ![x] = [session[x] EXCEPT !.state = st]]
    BY <1>2
  <2>2. [session[x] EXCEPT !.state = st].state = st
    BY <1>0 DEF SessionState
  <2> QED BY <1>0, <2>1, <2>2
<1>3. Restart => session'[m].state # "open"
  <2>1. [session[m] EXCEPT !.state = "closed"].state = "closed"
    BY <1>0 DEF SessionState
  <2>2. Restart => session'[m] = [session[m] EXCEPT !.state = "closed"]
    BY DEF Restart
  <2> QED BY <2>1, <2>2
<1>4. ASSUME NEW a, DeliveryFails(a) PROVE session' = session
  BY <1>4 DEF DeliveryFails, inbox
<1>5. ASSUME NEW k, CallPosted(k) \/ CallReturns(k) \/ CallStep(k) PROVE session' = session
  BY <1>5 DEF CallPosted, CallReturns, CallStep, Reserve, Refuse, Execute, Finish, inbox
<1>6. ASSUME NEW x \in Message, Evaluate(x) \/ QueueNotice(x) \/ Arrive(x) \/ Supersede(x)
      PROVE session' = session
  BY <1>6 DEF Evaluate, QueueNotice, Arrive, Supersede, inbox
<1>7. ASSUME NEW x \in Message, SessionExpires(x) \/ Finalize(x) \/ TurnFails(x)
      PROVE  session'[m] = session[m] \/ session'[m].state # "open"
  <2>1. \/ session' = session
        \/ \E st \in {"expired", "closed"} : session' = [session EXCEPT ![x].state = st]
    BY <1>7 DEF SessionExpires, Finalize, TurnFails
  <2> QED BY <1>2, <2>1
<1>8. ASSUME NEW x \in Message, StartTurn(x)
      PROVE  \/ session'[m] = session[m] \/ session'[m].state # "open"
             \/ StartTurn(m) /\ session'[m].boundary = Newest(m)
  <2>1. Newest(x) \in 0 .. Messages /\ Open(x, Newest(x))
    BY <1>8, NewestOfGroup DEF StartTurn, Message, ConstantsOK
  <2>2. /\ session'[x].boundary = Newest(x)
        /\ m = x \/ session'[m] = session[m] \/ session'[m].state = "closed"
    BY <1>0, <2>1, OpenedSessions
  <2> QED BY <1>8, <2>2
<1>9. ASSUME NEW x \in Message, NEW y \in Message, Steer(x, y)
      PROVE  \/ session'[m] = session[m] \/ session'[m].state # "open"
             \/ Steer(m, y) /\ session'[m].boundary = y
  <2>1. y \in 0 .. Messages /\ Open(x, y)
    BY <1>9 DEF Steer, Message, ConstantsOK
  <2>2. /\ session'[x].boundary = y
        /\ m = x \/ session'[m] = session[m] \/ session'[m].state = "closed"
    BY <1>0, <2>1, OpenedSessions
  <2> QED BY <1>9, <2>2
<1> QED BY StepKinds, <1>1, <1>3, <1>4, <1>5, <1>6, <1>7, <1>8, <1>9 DEF TurnStep

LEMMA StepReached ==
  ASSUME ConstantsOK, Inv, Next
  PROVE  Reached'
<1>0. /\ InboxOK /\ status \in [Message -> Status] /\ primary \in [Message -> 0 .. Messages]
      /\ \A m \in Message : session[m].state = "open" /\ status[m] = "active" =>
           session[m].boundary \in Group(m) \cup {m}
  BY TypesByParts DEF Inv, InboxOK, Reached, Has
<1>1. ASSUME NEW m \in Message, session'[m].state = "open", status'[m] = "active"
      PROVE  session'[m].boundary \in Group(m)' \cup {m}
  <2>1. ASSUME StartTurn(m), session'[m].boundary = Newest(m)
        PROVE  session'[m].boundary \in Group(m)' \cup {m}
    BY <1>1, <2>1, NewestOfGroup, GroupsGrow
  <2>2. ASSUME NEW x \in Message, Steer(m, x), session'[m].boundary = x
        PROVE  session'[m].boundary \in Group(m)' \cup {m}
    <3>1. primary' = [primary EXCEPT ![x] = m] /\ status' = [status EXCEPT ![x] = "steered"]
      BY <2>2 DEF Steer
    <3>2. primary'[x] = m /\ status'[x] = "steered"
      BY <1>0, <3>1
    <3> QED BY <2>2, <3>2 DEF Group
  <2>3. ASSUME session'[m] = session[m], ~StartTurn(m)
        PROVE  session'[m].boundary \in Group(m)' \cup {m}
    <3>1. status[m] = "active"
      BY <1>1, <2>3, Fates DEF Fate, SettledNow, FinalizedBy, SuppressedBy
    <3>2. session[m].boundary \in Group(m) \cup {m}
      BY <1>0, <1>1, <2>3, <3>1
    <3> QED BY <1>1, <2>3, <3>2, GroupsGrow
  <2>4. StartTurn(m) => session'[m].boundary = Newest(m)
    <3>1. ASSUME StartTurn(m) PROVE session'[m].boundary = Newest(m)
      <4>1. Newest(m) \in 0 .. Messages /\ Open(m, Newest(m))
        BY <3>1, NewestOfGroup DEF StartTurn, Message, ConstantsOK
      <4> QED BY <1>0, <4>1, OpenedSessions
    <3> QED BY <3>1
  <2> QED BY <1>1, <2>1, <2>2, <2>3, <2>4, SessionFates
<1> QED BY <1>1 DEF Reached, Has

-----------------------------------------------------------------------------
(* Looked.                                                                 *)

\* A drain that begins ends with a look at everything, or has a send to carry.
LEMMA BegunLooks ==
  ASSUME NEW att, Begun(att)
  PROVE  Looked'
<1>1. Passed(att) => With(attempts', "pending") \subseteq passed'
  BY DEF Passed
<1>2. (\E a \in DOMAIN att : Claimed(att, a)) => drain'.at = "sending"
  BY DEF Claimed, NoDrain
<1> QED BY <1>1, <1>2 DEF Begun, Looked

LEMMA KickedLooks ==
  ASSUME NEW att, Kicked(att), closed = "closed" => closed' = "closed"
  PROVE  Looked'
<1>1. Started(att) => Looked'
  BY BegunLooks DEF Started
<1>2. Ignored(att) => Looked'
  BY DEF Ignored, Looked
<1> QED BY <1>1, <1>2 DEF Kicked

\* Elsewhere nothing that the drain passed over comes to wait.
LEMMA SameLooks ==
  ASSUME Looked, UNCHANGED executor, With(attempts', "pending") \subseteq With(attempts, "pending")
  PROVE  Looked'
BY DEF Looked, executor

LEMMA StepLooked ==
  ASSUME ConstantsOK, Inv, Next
  PROVE  Looked'
<1>0. /\ Typed /\ RowsOK /\ attempts \in Seq(Attempt) /\ Looked
      /\ Flows(attempts, posts, call, drain)
  BY TypedRows DEF Inv, Typed, RowsOK
<1>1. DrainNext => Looked'
  BY <1>0, DrainBegins, BegunLooks DEF DrainNext
<1>2. ASSUME DrainReturned PROVE Looked'
  <2>1. CASE rerun /\ closed # "closed"
    BY <1>0, <1>2, <2>1, DrainBegins, BegunLooks DEF DrainReturned
  <2>2. CASE ~(rerun /\ closed # "closed")
    <3>1. /\ drain'.at = "ended" /\ drain.at = "returned" /\ rerun' = rerun
          /\ attempts' = attempts /\ passed' = passed /\ closed' = closed
      BY <1>2, <2>2 DEF DrainReturned, NoDrain
    <3> QED BY <1>0, <2>2, <3>1 DEF Looked
  <2> QED BY <2>1, <2>2
<1>3. ASSUME DrainEnded PROVE Looked'
  <2>1. CASE rerun /\ closed # "closed"
    BY <1>0, <1>3, <2>1, DrainBegins, BegunLooks DEF DrainEnded
  <2>2. CASE ~(rerun /\ closed # "closed")
    <3>1. /\ drain'.at = "off" /\ drain.at = "ended" /\ rerun' = rerun
          /\ attempts' = attempts /\ passed' = passed /\ closed' = closed
      BY <1>3, <2>2 DEF DrainEnded, NoDrain
    <3> QED BY <1>0, <2>2, <3>1 DEF Looked
  <2> QED BY <2>1, <2>2
<1>4. StartupKick => Looked'
  BY <1>0, KickStarts, KickedLooks DEF StartupKick
<1>5. BeginClose => Looked'
  BY <1>0, KickStarts, KickedLooks DEF BeginClose
<1>6. FinishClose \/ Abort => Looked'
  BY DEF FinishClose, Abort, Looked
<1>7. DrainPosted \/ DrainReturns => Looked'
  <2>1. DrainPosted \/ DrainReturns => drain'.at \in {"answered", "looping"}
    <3>1. DrainPosted => drain'.at = "answered"
      <4>1. DrainPosted => \E v : drain' = [drain EXCEPT !.at = "answered", !.verdict = v]
        BY DEF DrainPosted
      <4> QED BY <1>0, <4>1 DEF Typed, DrainState
    <3>2. DrainReturns => drain'.at = "looping"
      BY DEF DrainReturns, NoDrain
    <3> QED BY <3>1, <3>2
  <2> QED BY <2>1 DEF Looked
<1>8. Restart => Looked'
  BY DEF Restart, NoDrain, Looked
<1>9. ASSUME NEW a \in DOMAIN attempts, DeliveryFails(a) PROVE Looked'
  <2>1. UNCHANGED executor
    BY <1>9 DEF DeliveryFails
  <2>2. /\ DOMAIN attempts' = DOMAIN attempts
        /\ attempts[a].status # "accepted" => attempts'[a] = attempts[a]
        /\ \A b \in DOMAIN attempts : b # a => attempts'[b] = attempts[b]
    BY <1>0, <1>9, DeliveryRows DEF DeliveryFails
  <2>3. Kept(a, attempts')
    BY <1>0, <1>9, DeliveryRows DEF DeliveryFails, Evolved
  <2>4. attempts'[a].status = "pending" => attempts[a].status = "pending"
    BY <2>3 DEF Kept, Forward, Terminal
  <2>5. With(attempts', "pending") \subseteq With(attempts, "pending")
    BY <2>2, <2>4 DEF With
  <2> QED BY <1>0, <2>1, <2>5, SameLooks
<1>10. ASSUME NEW k \in Call, CallPosted(k) PROVE Looked'
  <2>1. attempts' = attempts /\ UNCHANGED executor
    BY <1>10 DEF CallPosted
  <2> QED BY <1>0, <2>1, SameLooks
<1>11. ASSUME NEW k \in Call, CallReturns(k) PROVE Looked'
  <2>1. /\ call[k].attempt \in DOMAIN attempts /\ attempts[call[k].attempt].status = "sending"
        /\ posts' = posts /\ UNCHANGED executor
    BY <1>0, <1>11, Carried DEF CallReturns, Flying
  <2>2. PICK o \in Outcome(call[k]) : Finish(call[k].attempt, o)
    BY <1>11 DEF CallReturns
  <2>3. /\ DOMAIN attempts' = DOMAIN attempts /\ attempts'[call[k].attempt].status \in Terminal
        /\ \A b \in DOMAIN attempts : b # call[k].attempt => attempts'[b] = attempts[b]
    BY <1>0, <2>1, <2>2, FinishRows
  <2>4. With(attempts', "pending") \subseteq With(attempts, "pending")
    BY <2>3 DEF With, Terminal
  <2> QED BY <1>0, <2>1, <2>4, SameLooks
<1>12. ASSUME NEW k \in Call, CallStep(k) PROVE Looked'
  <2>1. UNCHANGED executor
    BY <1>12 DEF CallStep, Reserve, Refuse, Execute
  <2>2. attempts' = attempts \/ Reserve(k)
    BY <1>12 DEF CallStep, Refuse, Execute
  <2>3. Reserve(k) => With(attempts', "pending") \subseteq With(attempts, "pending")
    BY ReserveAdds DEF With, Added
  <2> QED BY <1>0, <2>1, <2>2, <2>3, SameLooks
<1>13. ASSUME NEW row, Note(row), closed' = closed PROVE Looked'
  <2>1. Append(attempts, row) \in Seq(Attempt)
    BY <1>0, <1>13, NoteClaims
  <2> QED BY <1>13, <2>1, KickStarts, KickedLooks DEF Note
<1>14. ASSUME NEW m \in Message, Evaluate(m) PROVE Looked'
  <2>1. closed' = closed
    BY <1>14 DEF Evaluate
  <2>2. CASE Streak(m) >= Required
    <3>1. Note(NoteOf(m, "authorization"))
      BY <1>14, <2>2, NoteRow DEF Evaluate, Note, NoteOf
    <3> QED BY <1>13, <2>1, <3>1
  <2>3. CASE ~(Streak(m) >= Required)
    <3>1. attempts' = attempts /\ UNCHANGED executor
      BY <1>14, <2>3 DEF Evaluate, executor
    <3> QED BY <1>0, <3>1, SameLooks
  <2> QED BY <2>2, <2>3
<1>15. ASSUME NEW m \in Message, QueueNotice(m) PROVE Looked'
  <2>1. closed' = closed /\ Note(NoteOf(m, "queue_notice"))
    BY <1>15, NoteRow DEF QueueNotice, Note, NoteOf
  <2> QED BY <1>13, <2>1
<1>16. ASSUME NEW m \in Message, TurnStep(m) PROVE Looked'
  <2>1. UNCHANGED executor
    BY <1>16 DEF TurnStep, Arrive, StartTurn, SessionExpires, Finalize, Supersede, TurnFails, Steer,
                 executor
  <2>2. attempts' = attempts \/ Suppress(m)
    BY <1>16 DEF TurnStep, Arrive, StartTurn, SessionExpires, Finalize, Supersede, TurnFails,
                 Steer
  <2>3. Suppress(m) => With(attempts', "pending") \subseteq With(attempts, "pending")
    BY <1>0, SuppressRows DEF With
  <2> QED BY <1>0, <2>1, <2>2, <2>3, SameLooks
<1> QED BY StepKinds, <1>1, <1>2, <1>3, <1>4, <1>5, <1>6, <1>7, <1>8, <1>9, <1>10, <1>11, <1>12,
           <1>14, <1>15, <1>16 DEF DrainStep

-----------------------------------------------------------------------------
(* Streaks.                                                                *)

StreakOf(p) ==
  LET s == evaluated[p]
      n == authorization[p].streak
  IN  /\ n <= Len(s)
      /\ authorization[p].authorized <=> n >= Required
      /\ \A i \in Len(s) - n + 1 .. Len(s) :
           s[i] \in Trigger /\ AccountOf[s[i]] = authorization[p].account

LEMMA EvaluateCounts ==
  ASSUME ConstantsOK, InboxOK, Streaks, NEW m \in Message, Evaluate(m)
  PROVE  StreakOf(PeerOf[m])'
<1> DEFINE p == PeerOf[m]
           s == evaluated[p]
           n == authorization[p].streak
           k == Streak(m)
<1>1. p \in Peer /\ AccountOf[m] \in Account /\ ~Authorized(m)
  BY DEF ConstantsOK, Evaluate
<1>2. /\ s \in Seq(Message) /\ n \in Nat /\ n <= Len(s) /\ Len(s) \in Nat
      /\ \A i \in Len(s) - n + 1 .. Len(s) :
           s[i] \in Trigger /\ AccountOf[s[i]] = authorization[p].account
  BY <1>1, LenProperties DEF InboxOK, Standing, Streaks, ConstantsOK
<1>3. /\ evaluated'[p] = Append(s, m)
      /\ authorization'[p] = [authorized |-> k >= Required, streak |-> k, account |-> AccountOf[m]]
  BY <1>1 DEF Evaluate, InboxOK
<1>4. \/ k = 0
      \/ k = 1 /\ m \in Trigger
      \/ k = n + 1 /\ m \in Trigger /\ authorization[p].account = AccountOf[m]
  BY <1>2 DEF Streak
<1>5. authorization'[p].streak = k /\ authorization'[p].account = AccountOf[m]
      /\ authorization'[p].authorized = (k >= Required)
  BY <1>3
<1>6. /\ Len(Append(s, m)) = Len(s) + 1
      /\ \A i \in 1 .. Len(s) : Append(s, m)[i] = s[i]
      /\ Append(s, m)[Len(s) + 1] = m
  BY <1>2, AppendProperties
<1> HIDE DEF k, n, s, p
<1>7. k \in Nat /\ k <= Len(s) + 1
  BY <1>2, <1>4
<1>8. ASSUME NEW i \in (Len(s) + 1) - k + 1 .. Len(s) + 1
      PROVE  Append(s, m)[i] \in Trigger /\ AccountOf[Append(s, m)[i]] = AccountOf[m]
  <2>1. CASE i = Len(s) + 1
    BY <1>2, <1>4, <1>6, <1>8, <2>1
  <2>2. CASE i # Len(s) + 1
    <3>1. k = n + 1 /\ authorization[p].account = AccountOf[m]
          /\ i \in Len(s) - n + 1 .. Len(s) /\ i \in 1 .. Len(s)
      BY <1>2, <1>4, <1>7, <1>8, <2>2
    <3> QED BY <1>2, <1>6, <3>1
  <2> QED BY <2>1, <2>2
<1>9. /\ authorization'[p].streak <= Len(evaluated'[p])
      /\ authorization'[p].authorized <=> authorization'[p].streak >= Required
      /\ \A i \in Len(evaluated'[p]) - authorization'[p].streak + 1 .. Len(evaluated'[p]) :
           evaluated'[p][i] \in Trigger
           /\ AccountOf[evaluated'[p][i]] = authorization'[p].account
  BY <1>3, <1>5, <1>6, <1>7, <1>8
<1> QED BY <1>9 DEF StreakOf, p

LEMMA StepStreaks ==
  ASSUME ConstantsOK, Inv, Next
  PROVE  Streaks'
<1>0. /\ Typed /\ InboxOK /\ Streaks
      /\ authorization \in [Peer -> Standing] /\ evaluated \in [Peer -> Seq(Message)]
  BY TypesByParts DEF Inv, InboxOK
<1>1. ASSUME authorization' = authorization, evaluated' = evaluated PROVE Streaks'
  BY <1>0, <1>1 DEF Streaks
<1>2. ASSUME NEW m \in Message, Evaluate(m) PROVE Streaks'
  <2>1. ASSUME NEW p \in Peer PROVE StreakOf(p)'
    <3>1. CASE p = PeerOf[m]
      BY <1>0, <1>2, <3>1, EvaluateCounts
    <3>2. CASE p # PeerOf[m]
      <4>1. authorization'[p] = authorization[p] /\ evaluated'[p] = evaluated[p]
        BY <1>0, <1>2, <3>2 DEF Evaluate
      <4>2. StreakOf(p)
        BY <1>0 DEF Streaks, StreakOf
      <4> QED BY <4>1, <4>2 DEF StreakOf
    <3> QED BY <3>1, <3>2
  <2> QED BY <2>1 DEF Streaks, StreakOf
<1>3. DrainStep \/ DrainPosted \/ DrainReturns \/ Restart
        => authorization' = authorization /\ evaluated' = evaluated
  BY <1>0, DrainSteps DEF DrainPosted, DrainReturns, Restart, Finish, inbox, Typed
<1>4. ASSUME NEW a, DeliveryFails(a) PROVE authorization' = authorization /\ evaluated' = evaluated
  BY <1>4 DEF DeliveryFails, inbox
<1>5. ASSUME NEW k, CallPosted(k) \/ CallReturns(k) \/ CallStep(k)
      PROVE  authorization' = authorization /\ evaluated' = evaluated
  BY <1>5 DEF CallPosted, CallReturns, CallStep, Reserve, Refuse, Execute, Finish, inbox
<1>6. ASSUME NEW x, QueueNotice(x) \/ TurnStep(x)
      PROVE  authorization' = authorization /\ evaluated' = evaluated
  BY <1>6 DEF QueueNotice, TurnStep, Arrive, StartTurn, SessionExpires, Finalize, Supersede,
              TurnFails, Steer, inbox
<1> QED BY StepKinds, <1>1, <1>2, <1>3, <1>4, <1>5, <1>6

-----------------------------------------------------------------------------
(* The theorems.                                                           *)

LEMMA InitInv ==
  ASSUME ConstantsOK, Init
  PROVE  Inv
<1>1. attempts \in Seq(Attempt) /\ DOMAIN attempts = {} /\ Len(attempts) = 0
  BY DEF Init
<1>2. posts \in [DOMAIN attempts -> Nat]
  BY <1>1 DEF Init
<1>3. NoDrain \in DrainState({}) /\ passed = {} /\ drain = NoDrain
  BY DEF Init, NoDrain, DrainState, Verdict
<1>4. Typed
  BY <1>1, <1>2, <1>3 DEF Typed, RowsOK
<1>5. LinksOK
  BY <1>1 DEF Init, LinksOK, NoCall, CallState, Verdict, ConstantsOK
<1>6. InboxOK
  <2>1. NoSession \in SessionState /\ "absent" \in Status
    BY DEF NoSession, SessionState, Status, ConstantsOK
  <2>2. [authorized |-> FALSE, streak |-> 0, account |-> 0] \in Standing
    BY DEF Standing, ConstantsOK
  <2>3. <<>> \in Seq(Message)
    OBVIOUS
  <2>4. status \in [Message -> Status] /\ primary \in [Message -> 0 .. Messages]
        /\ session \in [Message -> SessionState]
    BY <2>1 DEF Init, ConstantsOK
  <2>5. authorization \in [Peer -> Standing]
    BY <2>2 DEF Init
  <2>6. evaluated \in [Peer -> Seq(Message)] /\ turn \in SUBSET Message
    BY <2>3 DEF Init
  <2> QED BY <2>4, <2>5, <2>6 DEF InboxOK
<1>7. FlagsOK
  <2>1. rerun \in BOOLEAN /\ closed \in {"open", "closing", "closed"} /\ kickDue \in BOOLEAN
    BY DEF Init
  <2>2. expiries = 0 /\ interrupts = 0 /\ crashes = 0
    BY DEF Init
  <2>3. expiries \in 0 .. MaxExpiries /\ interrupts \in 0 .. MaxInterrupts
        /\ crashes \in 0 .. MaxCrashes
    BY <2>2 DEF ConstantsOK
  <2> QED BY <2>1, <2>3 DEF FlagsOK
<1>8. TypeOK
  BY <1>4, <1>5, <1>6, <1>7, TypesByParts
<1>9. Flows(attempts, posts, call, drain)
  BY <1>1 DEF Init, Flows, Flying, NoCall, NoDrain
<1>10. ReportedFailureSticks
  BY DEF Init, ReportedFailureSticks
<1>11. Budgeted
  <2>1. \A m \in Message : AttemptsOf(m, attempts) = {}
    BY <1>1 DEF AttemptsOf
  <2> QED BY <2>1, FS_EmptySet DEF Budgeted, SendBudget, ConstantsOK
<1>12. PutAway
  BY <1>1 DEF PutAway, CompletedIsSettled, AbsorbedIsAnswered, Init, Has
<1>13. Turning
  BY DEF Turning, Init, NoCall
<1>14. Reached
  BY DEF Reached, Init, Has
<1>15. Looked
  BY <1>1 DEF Looked, With
<1>16. Streaks
  BY DEF Streaks, Init, ConstantsOK
<1> QED BY <1>8, <1>9, <1>10, <1>11, <1>12, <1>13, <1>14, <1>15, <1>16 DEF Inv

LEMMA StepInv ==
  ASSUME ConstantsOK, Inv, [Next]_vars
  PROVE  Inv'
<1>1. CASE Next
  <2>1. Flows(attempts, posts, call, drain)'
    BY <1>1, StepFlows DEF NextFlows
  <2> QED BY <1>1, <2>1, StepTypes, StepReported, StepBudgeted, StepPutAway, StepTurning,
             StepReached, StepLooked, StepStreaks DEF Inv
<1>2. CASE UNCHANGED vars
  BY <1>2 DEF vars, inbox, provider, executor, bounds, Inv, TypeOK, Flows, Flying, Carries,
     ReportedFailureSticks, Budgeted, SendBudget, AttemptsOf, Has, Authorized, PutAway,
     CompletedIsSettled, AbsorbedIsAnswered, Sends, Turning, Reached, Group, Looked, With, Streaks
<1> QED BY <1>1, <1>2

\* Inv is an invariant of KfOutbox.
THEOREM InvHolds ==
  ASSUME ConstantsOK
  PROVE  Spec => []Inv
<1>1. Init => Inv
  BY InitInv
<1>2. Inv /\ [Next]_vars => Inv'
  BY StepInv
<1> QED BY <1>1, <1>2, PTL DEF Spec

\* The types of the inbox, of the sends, of the tool calls and of the drain are right.
THEOREM TypesAreRight ==
  ASSUME ConstantsOK
  PROVE  Spec => []TypeOK
<1>1. Inv => TypeOK
  BY DEF Inv
<1> QED BY <1>1, InvHolds, PTL

\* Nothing is handed to the provider twice, however crashes, drains and tool calls come
\* together (sendPreparedMessage of wechat-kf-executor.ts, recoverStartup of sqlite-store.ts).
THEOREM NothingIsSentTwice ==
  ASSUME ConstantsOK
  PROVE  Spec => []HandedOverOnce
<1>1. Inv => HandedOverOnce
  BY DEF Inv, TypeOK, Flows, HandedOverOnce
<1> QED BY <1>1, InvHolds, PTL

\* A send whose delivery failed never counts as accepted, whether the report or the answer to
\* the send comes first (completeSend and the msg_send_fail event of sqlite-store.ts).
THEOREM ReportsStick ==
  ASSUME ConstantsOK
  PROVE  Spec => []ReportedFailureSticks
<1>1. Inv => ReportedFailureSticks
  BY DEF Inv
<1> QED BY <1>1, InvHolds, PTL

\* A message never has more sends than the provider permits, notices and confirmations
\* included (#insertAttempt and reserveAgentSend of sqlite-store.ts).
THEOREM BudgetIsKept ==
  ASSUME ConstantsOK
  PROVE  Spec => []SendBudget
<1>1. Inv => SendBudget
  BY DEF Inv, Budgeted
<1> QED BY <1>1, InvHolds, PTL

\* No message is completed while a tool send of it is under way, and what a turn took up is
\* put away only with a send that was made after it (#settleSourceMessage, #finalizeAttempts).
THEOREM PutAwayIsAnswered ==
  ASSUME ConstantsOK
  PROVE  Spec => []AnsweredBeforePutAway
<1>1. Inv => AnsweredBeforePutAway
  BY DEF Inv, PutAway, AnsweredBeforePutAway
<1> QED BY <1>1, InvHolds, PTL

\* No kick of the drain is lost: while no drain runs, a drain has passed over what waits
\* (kick and #runDrain of wechat-kf-executor.ts).
THEOREM KicksAreNotLost ==
  ASSUME ConstantsOK
  PROVE  Spec => []NoLostKick
<1>1. Inv => NoLostKick
  BY DEF Inv, Looked, NoLostKick
<1> QED BY <1>1, InvHolds, PTL

\* The outbox neither exceeds what the provider permits nor forgets what it may send, whatever
\* drains, tool calls, reports and crashes come together.
THEOREM OutboxServes ==
  ASSUME ConstantsOK
  PROVE  Spec => []OutboxIsServed
<1> QED BY BudgetIsKept, KicksAreNotLost, PTL DEF OutboxIsServed

\* Only Required triggers in a row, in one account, authorize (evaluateAuthorization).
THEOREM StreakAuthorizes ==
  ASSUME ConstantsOK
  PROVE  Spec => []AuthorizedByStreak
<1>1. ASSUME Inv PROVE AuthorizedByStreak
  <2>1. ASSUME NEW p \in Peer, authorization[p].authorized
        PROVE  /\ Len(evaluated[p]) >= Required
               /\ \A i \in Len(evaluated[p]) - Required + 1 .. Len(evaluated[p]) :
                    /\ evaluated[p][i] \in Trigger
                    /\ AccountOf[evaluated[p][i]] = AccountOf[evaluated[p][Len(evaluated[p])]]
    <3> DEFINE s == evaluated[p]
               n == authorization[p].streak
    <3>1. /\ n \in Nat /\ n <= Len(s) /\ Len(s) \in Nat /\ n >= Required
          /\ Required \in Nat \ {0}
          /\ \A i \in Len(s) - n + 1 .. Len(s) :
               s[i] \in Trigger /\ AccountOf[s[i]] = authorization[p].account
      <4>1. n \in Nat /\ Len(s) \in Nat
        BY <1>1, LenProperties DEF Inv, TypeOK, ConstantsOK
      <4> QED BY <1>1, <2>1, <4>1 DEF Inv, Streaks, ConstantsOK
    <3> HIDE DEF s, n
    <3>2. Len(s) \in Len(s) - n + 1 .. Len(s)
      BY <3>1
    <3>3. \A i \in Len(s) - Required + 1 .. Len(s) : i \in Len(s) - n + 1 .. Len(s)
      BY <3>1
    <3>4. Len(s) >= Required
      BY <3>1
    <3>5. \A i \in Len(s) - Required + 1 .. Len(s) :
            s[i] \in Trigger /\ AccountOf[s[i]] = AccountOf[s[Len(s)]]
      BY <3>1, <3>2, <3>3
    <3> QED BY <3>4, <3>5 DEF s
  <2> QED BY <2>1 DEF AuthorizedByStreak
<1>2. Inv => AuthorizedByStreak
  BY <1>1
<1> QED BY <1>2, InvHolds, PTL

\* A tool send starts only for a running message that nothing newer of the customer has
\* overtaken, however long its media took (reserveAgentSend, #validatedAgentSession).
THEOREM NothingStaleIsSent ==
  ASSUME ConstantsOK
  PROVE  Spec => SendsAreCurrent
<1>1. ASSUME Inv, [Next]_vars PROVE ~SendOvertaken
  <2>1. CASE UNCHANGED vars
    BY <2>1 DEF vars, SendOvertaken
  <2>2. ASSUME Next, NEW a \in DOMAIN attempts' \ DOMAIN attempts,
               attempts'[a].source = "mcp_tool"
        PROVE  /\ status[attempts'[a].message] = "active"
               /\ \A x \in Dialog(attempts'[a].message) :
                    x > Newest(attempts'[a].message) => Has(x, {"absent", "ignored"})
    <3>1. ASSUME NEW m, NEW source, Added(Len(attempts) + 1, m, source), source # "mcp_tool"
          PROVE  FALSE
      BY <2>2, <3>1 DEF Added
    <3>2. PICK k \in Call : Reserve(k)
      BY <1>1, <2>2, <3>1, Additions
    <3>3. PICK m \in Message : m = call[k].message
      BY <1>1, <3>2, ReserveAdds
    <3>4. attempts'[a].message = m
      BY <1>1, <2>2, <3>2, <3>3, ReserveAdds DEF Added
    <3>5. /\ session[m].state = "open" /\ status[m] = "active"
          /\ ~ \E x \in Dialog(m) : x > session[m].boundary /\ ~Has(x, {"absent", "ignored"})
      BY <3>2, <3>3 DEF Reserve, Valid, Has
    <3>6. session[m].boundary \in Group(m) \cup {m}
      BY <1>1, <3>5 DEF Inv, Reached, Has
    <3>7. session[m].boundary <= Newest(m) /\ Newest(m) \in Nat /\ session[m].boundary \in Nat
      BY <3>6, NewestOfGroup DEF Group, Message
    <3>8. \A x \in Dialog(m) : x > Newest(m) => x > session[m].boundary
      BY <3>7 DEF Dialog, Message
    <3> QED BY <3>4, <3>5, <3>8
  <2>3. Next => ~SendOvertaken
    BY <2>2 DEF SendOvertaken
  <2> QED BY <1>1, <2>1, <2>3
<1>2. Inv /\ [Next]_vars => [~SendOvertaken]_vars
  BY <1>1
<1> QED BY <1>2, InvHolds, PTL DEF Spec, SendsAreCurrent
=============================================================================
