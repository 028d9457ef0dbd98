---------------------------- MODULE ApprovalProofs ----------------------------
(***************************************************************************)
(* What an approval guarantees for any requests, runs, messages and         *)
(* revocations: Codex goes ahead only on a reply that is current, what was   *)
(* revoked is never granted, and a run that was told to cancel is not        *)
(* completed.  A request is changed in a handful of ways - resolved,         *)
(* finished, withdrawn - by many steps, so that each way has a lemma about   *)
(* its row, and each step names the ways it uses.                            *)
(***************************************************************************)
EXTENDS Approval, TLAPS

-----------------------------------------------------------------------------
(* The inductive invariant.                                                *)

\* A row, of a question that was shown before a revocation if gone.
RowOK(row, gone) ==
  /\ row \in RequestRow
  /\ row.at = "none" => row.run = 0 /\ ~ row.registered /\ row.decision = "none" /\ row.answer = "none"
  /\ row.at # "none" => row.run \in Run
  /\ row.answer # "none" => ~ row.registered
  /\ row.at \in {"resolving", "refusing", "waiting"} => row.decision = "none"
  /\ row.at = "notifying" => row.decision \in {"none", "cancel"}
  /\ row.at = "decided" => row.decision # "none"
  /\ row.decision = "accept" => row.by # 0
  /\ row.answer = "accept" => row.at = "closed"
  /\ gone => /\ row.at \in {"notifying", "decided", "closed"}
             /\ row.at # "closed" => row.decision = "cancel"
             /\ row.answer # "accept"

Rows == req \in [Request -> RequestRow] /\ \A r \in Request : RowOK(req[r], r \in revoked)

\* The run a request belongs to: it is noted when the request is cancelled, and cannot be
\* completed while the client holds the request.
Runs ==
  \A r \in Request : /\ req[r].answer = "cancel" => req[r].run \in marked
                     /\ req[r].registered => outcome[req[r].run] # "completed"

\* The run of the turn is open, and a run that was noted is not completed.
Turns ==
  /\ run.at # "none" => run.number \in Run /\ outcome[run.number] = "open"
  /\ \A n \in marked : outcome[n] # "completed"

\* A message has a number, and one that names a question a decision; a reply is of that kind.
MessageOK(message) == message.number # 0 /\ (message.to # {} => message.option # "none")
Replying ==
  /\ \A i \in 1 .. Len(inbox) : MessageOK(inbox[i])
  /\ reply # NoReply => MessageOK(reply) /\ reply.to # {}

\* The types of the variables but req.
Types ==
  /\ active \in BOOLEAN /\ cancelling \in BOOLEAN /\ connected \in BOOLEAN
  /\ run \in [number : 0 .. MaxRuns, at : {"none", "starting", "running"}]
  /\ outcome \in [Run -> {"none", "open", "completed", "cancelled", "failed"}]
  /\ marked \subseteq Run
  /\ allowed \in BOOLEAN /\ revocations \in 0 .. MaxRevocations
  /\ arrived \in 0 .. MaxMessages
  /\ inbox \in Seq(Message) /\ reply \in Message
  /\ revoked \subseteq Request

Inv == Types /\ Rows /\ Runs /\ Turns /\ Replying

LEMMA InvMeans == Inv => TypeOK /\ RevokedStaysRevoked /\ CancelledIsNotCompleted
<1> SUFFICES ASSUME Inv PROVE TypeOK /\ RevokedStaysRevoked /\ CancelledIsNotCompleted
  OBVIOUS
<1>1. ASSUME NEW r \in Request
      PROVE  /\ req[r].answer # "none" =>
                  /\ req[r].at # "none" /\ ~ req[r].registered
                  /\ req[r].answer = "cancel" => req[r].run \in marked
             /\ r \in revoked => req[r].answer # "accept"
             /\ req[r].answer = "cancel" => outcome[req[r].run] # "completed"
  BY DEF Inv, Rows, RowOK, Runs, Turns
<1>2. TypeOK
  BY <1>1 DEF TypeOK, Inv, Types, Rows
<1>3. QED
  BY <1>1, <1>2 DEF RevokedStaysRevoked, CancelledIsNotCompleted, Inv, Types

-----------------------------------------------------------------------------
(* The ways a row changes.                                                 *)

\* What every way but the first question and the last answer leaves: the run, and nothing is
\* registered or granted anew.
SameRun(row, new) ==
  /\ new.run = row.run
  /\ new.registered => row.registered
  /\ new.answer = "accept" => row.answer = "accept"

\* cancelApprovals: from now on the question is answered by nothing but cancel.
LEMMA ResolvedRow ==
  ASSUME NEW row, RowOK(row, FALSE), row.at \in {"notifying", "waiting"}, row.decision = "none"
  PROVE  /\ RowOK(Resolve(row, "cancel"), TRUE)
         /\ SameRun(row, Resolve(row, "cancel")) /\ Resolve(row, "cancel").answer = row.answer
<1>1. row \in RequestRow
  BY DEF RowOK
<1>2. CASE row.at = "waiting"
  <2> DEFINE new == [row EXCEPT !.at = "decided", !.decision = "cancel"]
  <2>1. /\ new \in RequestRow /\ new.at = "decided" /\ new.decision = "cancel"
        /\ new.run = row.run /\ new.registered = row.registered
        /\ new.answer = row.answer /\ new.by = row.by
    BY <1>1 DEF RequestRow, HandlerAt, Decision
  <2>2. Resolve(row, "cancel") = new
    BY <1>2 DEF Resolve
  <2> HIDE DEF new
  <2>3. QED
    BY <1>2, <2>1, <2>2 DEF RowOK, SameRun
<1>3. CASE row.at = "notifying"
  <2> DEFINE new == [row EXCEPT !.decision = "cancel"]
  <2>1. /\ new \in RequestRow /\ new.at = row.at /\ new.decision = "cancel"
        /\ new.run = row.run /\ new.registered = row.registered
        /\ new.answer = row.answer /\ new.by = row.by
    BY <1>1 DEF RequestRow, HandlerAt, Decision
  <2>2. Resolve(row, "cancel") = new
    BY <1>3 DEF Resolve
  <2> HIDE DEF new
  <2>3. QED
    BY <1>3, <2>1, <2>2 DEF RowOK, SameRun
<1>4. QED
  BY <1>2, <1>3

\* The abort of a registered request.
LEMMA AbortedRow ==
  ASSUME NEW row, NEW gone \in BOOLEAN, RowOK(row, gone)
  PROVE  /\ Aborted(row) \in RequestRow
         /\ Aborted(row).at = row.at /\ ~ Aborted(row).registered
         /\ Aborted(row).run = row.run /\ Aborted(row).answer = row.answer
         /\ Aborted(row).by = row.by
         /\ Aborted(row).decision = IF row.at = "notifying" THEN "cancel" ELSE row.decision
BY DEF Aborted, RowOK, RequestRow, Decision

\* finishApproval: the answer leaves.
Answered(row, at, decision) == [Aborted(row) EXCEPT !.at = at, !.answer = decision]
LEMMA FinishedRow ==
  ASSUME NEW row, NEW gone \in BOOLEAN, RowOK(row, gone), row.registered,
         NEW decision \in Decision, NEW at \in HandlerAt,
         \/ at = "closed" /\ (gone => decision # "accept")
         \/ decision = "cancel" /\ row.at \notin {"waiting", "decided"} /\ at = row.at
  PROVE  /\ RowOK(Answered(row, at, decision), gone)
         /\ Answered(row, at, decision).run = row.run
         /\ Answered(row, at, decision).answer = decision
         /\ ~ Answered(row, at, decision).registered
<1> DEFINE new == [Aborted(row) EXCEPT !.at = at, !.answer = decision]
<1>1. /\ Aborted(row) \in RequestRow
      /\ Aborted(row).at = row.at /\ ~ Aborted(row).registered
      /\ Aborted(row).run = row.run /\ Aborted(row).by = row.by
      /\ Aborted(row).decision = IF row.at = "notifying" THEN "cancel" ELSE row.decision
  BY AbortedRow
<1>2. /\ new \in RequestRow /\ new.at = at /\ new.answer = decision
      /\ ~ new.registered /\ new.run = row.run /\ new.by = row.by
      /\ new.decision = IF row.at = "notifying" THEN "cancel" ELSE row.decision
  BY <1>1 DEF RequestRow, Decision
<1> HIDE DEF new
<1>3. row.at # "none"
  BY DEF RowOK
<1>4. RowOK(new, gone)
  BY <1>2, <1>3 DEF RowOK
<1>5. QED
  BY <1>2, <1>4 DEF new, Answered

\* The client forgets a request: handlers that wait return.
Forgotten(row) == [Aborted(row) EXCEPT !.at = IF @ \in {"waiting", "decided"} THEN "closed" ELSE @]
LEMMA ForgottenRow ==
  ASSUME NEW row, NEW gone \in BOOLEAN, RowOK(row, gone), row.registered
  PROVE  /\ RowOK(Forgotten(row), gone) /\ SameRun(row, Forgotten(row))
         /\ Forgotten(row).answer = row.answer /\ ~ Forgotten(row).registered
<1> DEFINE at == IF row.at \in {"waiting", "decided"} THEN "closed" ELSE row.at
           new == [Aborted(row) EXCEPT !.at = at]
<1>1. /\ Aborted(row) \in RequestRow
      /\ Aborted(row).at = row.at /\ ~ Aborted(row).registered
      /\ Aborted(row).run = row.run /\ Aborted(row).by = row.by /\ Aborted(row).answer = row.answer
      /\ Aborted(row).decision = IF row.at = "notifying" THEN "cancel" ELSE row.decision
  BY AbortedRow
<1>2. Forgotten(row) = new /\ row.at # "none" /\ row.at \in HandlerAt
  BY <1>1 DEF Forgotten, RowOK, RequestRow
<1>3. /\ new \in RequestRow /\ new.at = at /\ new.answer = row.answer
      /\ ~ new.registered /\ new.run = row.run /\ new.by = row.by
      /\ new.decision = IF row.at = "notifying" THEN "cancel" ELSE row.decision
  BY <1>1, <1>2 DEF RequestRow, HandlerAt
<1> HIDE DEF new
<1>4. RowOK(new, gone)
  BY <1>2, <1>3 DEF RowOK
<1>5. QED
  BY <1>2, <1>3, <1>4 DEF SameRun

\* The handler goes on to at without touching the rest.
LEMMA MovedRow ==
  ASSUME NEW row, NEW gone \in BOOLEAN, RowOK(row, gone),
         NEW at \in HandlerAt \ {"none", "decided"}, row.at \notin {"none", "closed"},
         \/ at = "closed"
         \/ ~ gone /\ row.decision = "none"
  PROVE  /\ RowOK([row EXCEPT !.at = at], gone) /\ SameRun(row, [row EXCEPT !.at = at])
         /\ [row EXCEPT !.at = at].answer = row.answer
<1> DEFINE new == [row EXCEPT !.at = at]
<1>1. row \in RequestRow
  BY DEF RowOK
<1>2. /\ new \in RequestRow /\ new.at = at /\ new.answer = row.answer
      /\ new.registered = row.registered /\ new.run = row.run /\ new.by = row.by
      /\ new.decision = row.decision
  BY <1>1 DEF RequestRow
<1> HIDE DEF new
<1>3. RowOK(new, gone) /\ SameRun(row, new)
  BY <1>2 DEF RowOK, SameRun
<1>4. QED
  BY <1>2, <1>3 DEF new

-----------------------------------------------------------------------------
(* Steps that change rows.                                                 *)

\* What such a step leaves of request r.
RowStep(r) ==
  /\ RowOK(req'[r], r \in revoked')
  /\ req'[r].run = req[r].run
  /\ req'[r].registered => req[r].registered
  /\ req'[r].answer = "cancel" => req'[r].run \in marked'

LEMMA RowsAfter ==
  ASSUME Inv, req' \in [Request -> RequestRow], \A r \in Request : RowStep(r),
         UNCHANGED <<run, outcome>>,
         \A n \in marked' : n \in marked \/ outcome[n] # "completed"
  PROVE  Rows' /\ Runs' /\ Turns'
BY DEF Inv, Rows, Runs, Turns, RowStep

\* A row that stays is as good as before.
LEMMA StayingRow ==
  ASSUME Inv, NEW r \in Request, req'[r] = req[r], marked \subseteq marked',
         r \in revoked' => r \in revoked
  PROVE  RowStep(r)
BY DEF Inv, Rows, Runs, RowStep, RowOK

LEMMA RequestFacts ==
  ASSUME Inv, NEW r \in Request
  PROVE  /\ RowOK(req[r], r \in revoked) /\ RowOK(req[r], FALSE) /\ (r \in revoked) \in BOOLEAN
         /\ req[r] \in RequestRow
         /\ req[r].answer = "cancel" => req[r].run \in marked
         /\ req[r].registered => /\ outcome[req[r].run] # "completed" /\ req[r].run \in Run
                                 /\ req[r].answer = "none"
BY DEF Inv, Rows, Runs, RowOK

\* No request is granted.
NoGrant == \A r \in Request : req'[r].answer = "accept" => req[r].answer = "accept"

\* cancelApprovals and invalidateApprovals, with what is revoked at the same time.
LEMMA CancelStep ==
  ASSUME Inv, CancelPending(Request), UNCHANGED <<run, outcome, marked>>,
         revoked' \subseteq revoked \cup {r \in Request : req[r].at \in {"notifying", "waiting"}}
  PROVE  Rows' /\ Runs' /\ Turns' /\ NoGrant /\ cancelling' \in BOOLEAN
<1>1. ASSUME NEW r \in Request
      PROVE  /\ RowStep(r) /\ req'[r] \in RequestRow
             /\ req'[r].answer = "accept" => req[r].answer = "accept"
  <2>0. /\ RowOK(req[r], r \in revoked) /\ RowOK(req[r], FALSE)
        /\ req[r].answer = "cancel" => req[r].run \in marked
    BY RequestFacts
  <2>1. CASE r \in Pending
    <3>1. req'[r] = Resolve(req[r], "cancel")
      BY <2>1 DEF CancelPending
    <3>2. /\ RowOK(req'[r], TRUE) /\ SameRun(req[r], req'[r]) /\ req'[r].answer = req[r].answer
      BY <2>0, <2>1, <3>1, ResolvedRow DEF Pending
    <3>3. RowOK(req'[r], r \in revoked')
      BY <3>2 DEF RowOK
    <3>4. QED
      BY <2>0, <3>2, <3>3 DEF RowStep, SameRun, RowOK
  <2>2. CASE r \notin Pending
    <3>1. req'[r] = req[r]
      BY <2>2 DEF CancelPending
    <3>2. RowOK(req'[r], r \in revoked')
      <4>1. CASE r \in revoked
        BY <2>0, <3>1, <4>1 DEF RowOK
      <4>2. CASE r \notin revoked /\ r \in revoked'
        <5>1. req[r].at \in {"notifying", "waiting"}
          BY <4>2
        <5>2. req[r].at = "notifying" /\ req[r].decision = "cancel" /\ req[r].answer # "accept"
          BY <2>0, <2>2, <5>1 DEF Pending, RowOK
        <5>3. QED
          BY <2>0, <3>1, <5>2 DEF RowOK
      <4>3. CASE r \notin revoked'
        BY <2>0, <3>1, <4>3 DEF RowOK
      <4>4. QED
        BY <4>1, <4>2, <4>3
    <3>3. QED
      BY <2>0, <3>1, <3>2 DEF RowStep, RowOK
  <2>3. QED
    BY <2>1, <2>2
<1>2. req' \in [Request -> RequestRow]
  BY <1>1 DEF CancelPending
<1>3. cancelling' \in BOOLEAN
  BY DEF CancelPending, Inv, Types
<1>4. QED
  BY <1>1, <1>2, <1>3, RowsAfter DEF NoGrant

\* One row changes.
LEMMA OneRowStep ==
  ASSUME Inv, NEW r \in Request, NEW new, req' = [req EXCEPT ![r] = new],
         RowOK(new, r \in revoked), new.run = req[r].run, new.registered => req[r].registered,
         new.answer = "cancel" => new.run \in marked',
         UNCHANGED <<run, outcome, revoked>>,
         marked \subseteq marked',
         \A n \in marked' : n \in marked \/ outcome[n] # "completed"
  PROVE  Rows' /\ Runs' /\ Turns' /\ req'[r] = new /\ \A x \in Request \ {r} : req'[x] = req[x]
<1>1. new \in RequestRow /\ req \in [Request -> RequestRow]
  BY DEF RowOK, Inv, Rows
<1>2. /\ req' \in [Request -> RequestRow] /\ req'[r] = new
      /\ \A x \in Request \ {r} : req'[x] = req[x]
  BY <1>1
<1>3. ASSUME NEW x \in Request
      PROVE  RowStep(x)
  <2>1. CASE x = r
    BY <1>2, <2>1 DEF RowStep
  <2>2. CASE x # r
    BY <1>2, <2>2, StayingRow
  <2>3. QED
    BY <2>1, <2>2
<1>4. QED
  BY <1>2, <1>3, RowsAfter

LEMMA FinishStep ==
  ASSUME Inv, NEW r \in Request, req[r].registered, NEW decision \in Decision, NEW at \in HandlerAt,
         \/ at = "closed" /\ (r \in revoked => decision # "accept")
         \/ decision = "cancel" /\ req[r].at \notin {"waiting", "decided"} /\ at = req[r].at,
         Finish(r, decision, at), UNCHANGED <<run, outcome, revoked>>
  PROVE  /\ Rows' /\ Runs' /\ Turns' /\ cancelling' \in BOOLEAN /\ marked' \subseteq Run
         /\ req'[r].answer = decision /\ \A x \in Request \ {r} : req'[x] = req[x]
<1> DEFINE new == Answered(req[r], at, decision)
<1>0. /\ RowOK(req[r], r \in revoked) /\ (r \in revoked) \in BOOLEAN
      /\ outcome[req[r].run] # "completed" /\ req[r].run \in Run
  BY RequestFacts
<1>1. /\ RowOK(new, r \in revoked) /\ new.run = req[r].run
      /\ new.answer = decision /\ ~ new.registered
  <2> DEFINE row == req[r]
             gone == r \in revoked
  <2>1. /\ RowOK(row, gone) /\ gone \in BOOLEAN /\ row.registered
        /\ \/ at = "closed" /\ (gone => decision # "accept")
           \/ decision = "cancel" /\ row.at \notin {"waiting", "decided"} /\ at = row.at
    BY <1>0
  <2> HIDE DEF row, gone
  <2>2. /\ RowOK(Answered(row, at, decision), gone)
        /\ Answered(row, at, decision).run = row.run
        /\ Answered(row, at, decision).answer = decision
        /\ ~ Answered(row, at, decision).registered
    BY <2>1, FinishedRow
  <2>3. QED
    BY <2>2 DEF row, gone
<1>2. req' = [req EXCEPT ![r] = new] /\ marked' = Mark(req[r].run, decision)
  BY DEF Finish, Answered
<1>3. /\ marked \subseteq marked' /\ marked' \subseteq marked \cup {req[r].run}
      /\ decision = "cancel" => req[r].run \in marked'
  BY <1>2 DEF Mark
<1> HIDE DEF new
<1>4. Rows' /\ Runs' /\ Turns' /\ req'[r] = new /\ \A x \in Request \ {r} : req'[x] = req[x]
  BY <1>0, <1>1, <1>2, <1>3, OneRowStep
<1>5. cancelling' \in BOOLEAN
  BY DEF Finish, Inv, Types
<1>6. marked' \subseteq Run
  BY <1>0, <1>3 DEF Inv, Types
<1>7. QED
  BY <1>1, <1>4, <1>5, <1>6

\* The handler of r returns: its decision counts if the request is still held.
LEMMA ReturnStep ==
  ASSUME Inv, NEW r \in Request, req[r].at \notin {"none", "closed"}, NEW decision \in Decision,
         decision = "accept" => r \notin revoked,
         Return(r, decision), UNCHANGED <<run, outcome, revoked>>
  PROVE  /\ Rows' /\ Runs' /\ Turns' /\ cancelling' \in BOOLEAN /\ marked' \subseteq Run
         /\ \A x \in Request : req'[x].answer = "accept" /\ req[x].answer # "accept" =>
              x = r /\ decision = "accept"
<1>0. /\ RowOK(req[r], r \in revoked) /\ (r \in revoked) \in BOOLEAN
      /\ req[r].answer = "cancel" => req[r].run \in marked
  BY RequestFacts
<1>1. CASE req[r].registered
  <2>1. Finish(r, decision, "closed") /\ "closed" \in HandlerAt
    BY <1>1 DEF Return, HandlerAt
  <2>2. QED
    BY <1>1, <2>1, FinishStep
<1>2. CASE ~ req[r].registered
  <2> DEFINE new == [req[r] EXCEPT !.at = "closed"]
  <2>1. req' = [req EXCEPT ![r] = new] /\ UNCHANGED <<marked, cancelling>>
    BY <1>2 DEF Return, Inv, Rows
  <2>2. RowOK(new, r \in revoked) /\ SameRun(req[r], new) /\ new.answer = req[r].answer
    BY <1>0, MovedRow DEF HandlerAt
  <2> HIDE DEF new
  <2>3. Rows' /\ Runs' /\ Turns' /\ req'[r] = new /\ \A x \in Request \ {r} : req'[x] = req[x]
    BY <1>0, <2>1, <2>2, OneRowStep DEF SameRun
  <2>4. QED
    BY <2>1, <2>2, <2>3 DEF Inv, Types
<1>3. QED
  BY <1>1, <1>2

\* Requests R are forgotten.
LEMMA WithdrawnStep ==
  ASSUME Inv, NEW R \in SUBSET Request, req' = Withdrawn(R), UNCHANGED <<marked, revoked>>
  PROVE  /\ Rows' /\ NoGrant
         /\ \A r \in Request : /\ RowStep(r)
                               /\ req'[r].registered => r \notin R /\ req[r].registered
<1>1. ASSUME NEW r \in Request
      PROVE  /\ RowStep(r) /\ req'[r] \in RequestRow
             /\ req'[r].answer = "accept" => req[r].answer = "accept"
             /\ req'[r].registered => r \notin R /\ req[r].registered
  <2>0. /\ RowOK(req[r], r \in revoked) /\ (r \in revoked) \in BOOLEAN
        /\ req[r].answer = "cancel" => req[r].run \in marked
    BY RequestFacts
  <2>1. CASE r \in R /\ req[r].registered
    <3>1. req'[r] = Forgotten(req[r])
      BY <2>1 DEF Withdrawn, Forgotten
    <3>2. /\ RowOK(req'[r], r \in revoked) /\ SameRun(req[r], req'[r])
          /\ req'[r].answer = req[r].answer /\ ~ req'[r].registered
      BY <2>0, <2>1, <3>1, ForgottenRow
    <3>3. QED
      BY <2>0, <3>2 DEF RowStep, SameRun, RowOK
  <2>2. CASE ~ (r \in R /\ req[r].registered)
    <3>1. req'[r] = req[r]
      BY <2>2 DEF Withdrawn
    <3>2. QED
      BY <2>0, <2>2, <3>1, StayingRow DEF RowOK
  <2>3. QED
    BY <2>1, <2>2
<1>2. req' \in [Request -> RequestRow]
  BY <1>1 DEF Withdrawn
<1>3. QED
  BY <1>1, <1>2 DEF Rows, RowStep, NoGrant

-----------------------------------------------------------------------------
(* One lemma per action: it keeps Inv, and but for Decide grants nothing.  *)

\* Runs.

LEMMA StartRunStep ==
  ASSUME ConstantsOK, Inv, StartRun
  PROVE  Inv' /\ NoGrant
<1>1. /\ run.number + 1 \in Run /\ run.number + 1 \in 0 .. MaxRuns
      /\ run' = [number |-> run.number + 1, at |-> "starting"]
      /\ outcome' = [outcome EXCEPT ![run.number + 1] = "open"]
  BY DEF StartRun, ConstantsOK, Inv, Types, Run
<1>2. Types' /\ Replying'
  BY <1>1 DEF StartRun, conversation, permission, Inv, Types, Replying
<1>3. /\ Rows' /\ NoGrant
  BY DEF StartRun, permission, Inv, Rows, NoGrant
<1>4. \A n \in Run : outcome[n] # "completed" => outcome'[n] # "completed"
  BY <1>1 DEF Inv, Types
<1>5. Runs'
  BY <1>4, RequestFacts DEF StartRun, Inv, Runs
<1>6. Turns'
  BY <1>1, <1>4 DEF StartRun, Inv, Types, Turns
<1>7. QED
  BY <1>2, <1>3, <1>5, <1>6 DEF Inv

LEMMA RunAcknowledgedStep ==
  ASSUME Inv, RunAcknowledged
  PROVE  Inv' /\ NoGrant
<1>1. run'.number = run.number /\ run' \in [number : 0 .. MaxRuns, at : {"none", "starting", "running"}]
  BY DEF RunAcknowledged, Inv, Types
<1>2. Types' /\ Replying'
  BY <1>1 DEF RunAcknowledged, conversation, permission, Inv, Types, Replying
<1>3. Rows' /\ Runs' /\ NoGrant
  BY DEF RunAcknowledged, permission, Inv, Rows, Runs, NoGrant
<1>4. Turns'
  BY <1>1 DEF RunAcknowledged, Inv, Turns
<1>5. QED
  BY <1>2, <1>3, <1>4 DEF Inv

LEMMA RunRefusedStep ==
  ASSUME Inv, RunRefused
  PROVE  Inv' /\ NoGrant
<1>1. /\ run' \in [number : 0 .. MaxRuns, at : {"none", "starting", "running"}] /\ run'.at = "none"
      /\ run.number \in Run /\ outcome' = [outcome EXCEPT ![run.number] = "failed"]
  BY DEF RunRefused, Inv, Types, Turns
<1>2. Types' /\ Replying'
  BY <1>1 DEF RunRefused, conversation, permission, Inv, Types, Replying
<1>3. /\ Rows' /\ NoGrant
  BY DEF RunRefused, permission, Inv, Rows, NoGrant
<1>4. \A n \in Run : outcome[n] # "completed" => outcome'[n] # "completed"
  BY <1>1 DEF Inv, Types
<1>5. Runs'
  BY <1>4, RequestFacts DEF RunRefused, Inv, Runs
<1>6. Turns'
  BY <1>1, <1>4 DEF RunRefused, Inv, Types, Turns
<1>7. QED
  BY <1>2, <1>3, <1>5, <1>6 DEF Inv

LEMMA RunEndsStep ==
  ASSUME Inv, NEW result \in {"completed", "failed"}, RunEnds(result)
  PROVE  Inv' /\ NoGrant
<1> DEFINE R == {r \in Request : req[r].run = run.number}
<1>1. /\ run' \in [number : 0 .. MaxRuns, at : {"none", "starting", "running"}] /\ run'.at = "none"
      /\ run.number \in Run /\ outcome' = [outcome EXCEPT ![run.number] = Ended(result)]
      /\ Ended(result) \in {"completed", "failed", "cancelled"}
      /\ run.number \in marked => Ended(result) # "completed"
  BY DEF RunEnds, Ended, Inv, Types, Turns
<1>2. Types' /\ Replying'
  BY <1>1 DEF RunEnds, conversation, permission, Inv, Types, Replying
<1>3. /\ Rows' /\ NoGrant
      /\ \A r \in Request : RowStep(r) /\ (req'[r].registered => r \notin R /\ req[r].registered)
  BY WithdrawnStep DEF RunEnds, permission
<1>4. \A n \in Run : n # run.number => outcome'[n] = outcome[n]
  BY <1>1 DEF Inv, Types
<1>5. Runs'
  <2>1. ASSUME NEW r \in Request, req'[r].registered
        PROVE  outcome'[req'[r].run] # "completed"
    <3>1. req[r].registered /\ req[r].run # run.number /\ req'[r].run = req[r].run
      BY <1>3, <2>1 DEF RowStep
    <3>2. QED
      BY <1>4, <3>1, RequestFacts
  <2>2. QED
    BY <1>3, <2>1 DEF Runs, RowStep
<1>6. Turns'
  BY <1>1, <1>4 DEF RunEnds, Inv, Types, Turns
<1>7. QED
  BY <1>2, <1>3, <1>5, <1>6 DEF Inv

LEMMA TurnEndsStep ==
  ASSUME Inv, TurnEnds
  PROVE  Inv' /\ NoGrant
BY DEF TurnEnds, conversation, permission, Inv, Types, Rows, Runs, Turns, Replying, NoGrant

LEMMA ServerFailsStep ==
  ASSUME Inv, ServerFails
  PROVE  Inv' /\ NoGrant
<1>1. /\ run' \in [number : 0 .. MaxRuns, at : {"none", "starting", "running"}] /\ run'.at = "none"
      /\ outcome' \in [Run -> {"none", "open", "completed", "cancelled", "failed"}]
      /\ \A n \in Run : outcome[n] # "completed" => outcome'[n] # "completed"
  BY DEF ServerFails, Inv, Types
<1>2. Types' /\ Replying'
  BY <1>1 DEF ServerFails, conversation, permission, Inv, Types, Replying
<1>3. /\ Rows' /\ NoGrant
      /\ \A r \in Request : RowStep(r) /\ (req'[r].registered => r \notin Request /\ req[r].registered)
  BY WithdrawnStep DEF ServerFails, permission
<1>4. Runs'
  BY <1>3 DEF Runs, RowStep
<1>5. Turns'
  BY <1>1 DEF ServerFails, Inv, Types, Turns
<1>6. QED
  BY <1>2, <1>3, <1>4, <1>5 DEF Inv

\* Requests.

\* These steps leave the run and the conversation alone.
LEMMA HandlersKeep ==
  ASSUME Inv, UNCHANGED <<active, run, outcome, connected, conversation, permission>>,
         Rows', Runs', Turns', cancelling' \in BOOLEAN, marked' \subseteq Run
  PROVE  Inv'
BY DEF conversation, permission, Inv, Types, Replying

\* The handler of r goes on to at.
LEMMA MoveStep ==
  ASSUME Inv, NEW r \in Request, req[r].at \notin {"none", "closed"},
         NEW at \in HandlerAt \ {"none", "decided"},
         at = "closed" \/ (r \notin revoked /\ req[r].decision = "none"),
         req' = [req EXCEPT ![r].at = at], UNCHANGED <<run, outcome, revoked>>,
         marked \subseteq marked',
         \A n \in marked' : n \in marked \/ outcome[n] # "completed"
  PROVE  Rows' /\ Runs' /\ Turns' /\ NoGrant
<1> DEFINE new == [req[r] EXCEPT !.at = at]
<1>0. /\ RowOK(req[r], r \in revoked) /\ (r \in revoked) \in BOOLEAN
      /\ req[r].answer = "cancel" => req[r].run \in marked
  BY RequestFacts
<1>1. req' = [req EXCEPT ![r] = new]
  BY DEF Inv, Rows
<1>2. RowOK(new, r \in revoked) /\ SameRun(req[r], new) /\ new.answer = req[r].answer
  BY <1>0, MovedRow
<1> HIDE DEF new
<1>3. Rows' /\ Runs' /\ Turns' /\ req'[r] = new /\ \A x \in Request \ {r} : req'[x] = req[x]
  BY <1>0, <1>1, <1>2, OneRowStep DEF SameRun
<1>4. QED
  BY <1>2, <1>3 DEF NoGrant

\* handleApproval registers the request.
Asked(row, number) == [row EXCEPT !.at = "resolving", !.run = number, !.registered = TRUE]
LEMMA AskedRow ==
  ASSUME NEW row, NEW gone \in BOOLEAN, RowOK(row, gone), row.at = "none", NEW number \in Run
  PROVE  /\ RowOK(Asked(row, number), gone)
         /\ Asked(row, number).run = number /\ Asked(row, number).answer = "none"
<1>1. /\ Asked(row, number) \in RequestRow
      /\ Asked(row, number).at = "resolving" /\ Asked(row, number).run = number
      /\ Asked(row, number).answer = row.answer /\ Asked(row, number).decision = row.decision
  BY DEF Asked, RequestRow, HandlerAt, RowOK
<1>2. row.answer = "none" /\ row.decision = "none" /\ ~ gone
  BY DEF RowOK
<1>3. QED
  BY <1>1, <1>2 DEF RowOK

LEMMA AskStep ==
  ASSUME Inv, NEW r \in Request, Ask(r)
  PROVE  Inv' /\ NoGrant
<1> DEFINE new == Asked(req[r], run.number)
<1>1. run.number \in Run /\ outcome[run.number] = "open" /\ req[r].at = "none"
  BY DEF Ask, Inv, Turns
<1>2. RowOK(req[r], r \in revoked) /\ (r \in revoked) \in BOOLEAN
  BY RequestFacts
<1>3. RowOK(new, r \in revoked) /\ new.run = run.number /\ new.answer = "none"
  <2> DEFINE gone == r \in revoked
  <2> HIDE DEF gone
  <2>1. RowOK(req[r], gone) /\ gone \in BOOLEAN
    BY <1>2 DEF gone
  <2>2. RowOK(new, gone) /\ new.run = run.number /\ new.answer = "none"
    BY <1>1, <2>1, AskedRow
  <2>3. QED
    BY <2>2 DEF gone
<1>4. req' = [req EXCEPT ![r] = new]
  BY DEF Ask, Asked, Inv, Rows
<1> HIDE DEF new
<1>5. /\ req' \in [Request -> RequestRow] /\ req'[r] = new
      /\ \A x \in Request \ {r} : req'[x] = req[x]
  BY <1>3, <1>4 DEF RowOK, Inv, Rows
<1>6. Rows'
  BY <1>3, <1>5 DEF Ask, permission, Inv, Rows
<1>7. Runs'
  BY <1>1, <1>3, <1>5 DEF Ask, Inv, Runs
<1>8. NoGrant
  BY <1>3, <1>5 DEF NoGrant
<1>9. QED
  BY <1>6, <1>7, <1>8 DEF Ask, conversation, permission, Inv, Types, Turns, Replying

LEMMA PromptStep ==
  ASSUME Inv, NEW r \in Request, Prompt(r)
  PROVE  Inv' /\ NoGrant
<1>0. /\ RowOK(req[r], r \in revoked) /\ req[r].at = "resolving"
      /\ UNCHANGED <<active, run, outcome, connected, conversation, permission>>
  BY RequestFacts DEF Prompt
<1>1. ASSUME NEW at \in {"notifying", "refusing"}, req' = [req EXCEPT ![r].at = at],
             UNCHANGED <<marked, cancelling>>
      PROVE  Inv' /\ NoGrant
  <2>1. r \notin revoked /\ req[r].decision = "none" /\ at \in HandlerAt \ {"none", "decided"}
    BY <1>0 DEF RowOK, HandlerAt
  <2>2. Rows' /\ Runs' /\ Turns' /\ NoGrant
    BY <1>0, <1>1, <2>1, MoveStep DEF permission
  <2>3. cancelling' \in BOOLEAN /\ marked' \subseteq Run
    BY <1>1 DEF Inv, Types
  <2>4. QED
    BY <1>0, <2>2, <2>3, HandlersKeep
<1>2. CASE Return(r, "cancel")
  <2>1. /\ Rows' /\ Runs' /\ Turns' /\ cancelling' \in BOOLEAN /\ marked' \subseteq Run
        /\ \A x \in Request : req'[x].answer = "accept" /\ req[x].answer # "accept" =>
             x = r /\ "cancel" = "accept"
    BY <1>0, <1>2, ReturnStep DEF permission, Decision
  <2>2. QED
    BY <1>0, <2>1, HandlersKeep DEF NoGrant
<1>3. QED
  BY <1>1, <1>2 DEF Prompt

LEMMA ToldStep ==
  ASSUME Inv, NEW r \in Request, Told(r)
  PROVE  Inv' /\ NoGrant
<1>0. /\ req[r].at = "refusing"
      /\ UNCHANGED <<active, run, outcome, connected, conversation, permission>>
  BY DEF Told
<1>1. PICK decision \in {"decline", "cancel"} : Return(r, decision)
  BY DEF Told
<1>2. /\ Rows' /\ Runs' /\ Turns' /\ cancelling' \in BOOLEAN /\ marked' \subseteq Run
      /\ \A x \in Request : req'[x].answer = "accept" /\ req[x].answer # "accept" =>
           x = r /\ decision = "accept"
  <2>1. decision \in Decision /\ decision # "accept"
    BY DEF Decision
  <2>2. QED
    BY <1>0, <1>1, <2>1, ReturnStep DEF permission
<1>3. QED
  BY <1>0, <1>2, HandlersKeep DEF NoGrant

LEMMA NotifiedStep ==
  ASSUME Inv, NEW r \in Request, Notified(r)
  PROVE  Inv' /\ NoGrant
<1>0. /\ RowOK(req[r], r \in revoked) /\ req[r].at = "notifying"
      /\ UNCHANGED <<active, run, outcome, connected, conversation, permission>>
  BY RequestFacts DEF Notified
<1>1. CASE /\ req[r].decision = "none" /\ req' = [req EXCEPT ![r].at = "waiting"]
           /\ UNCHANGED <<marked, cancelling>>
  <2>1. r \notin revoked /\ "waiting" \in HandlerAt \ {"none", "decided"}
    BY <1>0, <1>1 DEF RowOK, HandlerAt
  <2>2. Rows' /\ Runs' /\ Turns' /\ NoGrant
    BY <1>0, <1>1, <2>1, MoveStep DEF permission
  <2>3. cancelling' \in BOOLEAN /\ marked' \subseteq Run
    BY <1>1 DEF Inv, Types
  <2>4. QED
    BY <1>0, <2>2, <2>3, HandlersKeep
<1>2. CASE Return(r, "cancel")
  <2>1. /\ Rows' /\ Runs' /\ Turns' /\ cancelling' \in BOOLEAN /\ marked' \subseteq Run
        /\ \A x \in Request : req'[x].answer = "accept" /\ req[x].answer # "accept" =>
             x = r /\ "cancel" = "accept"
    BY <1>0, <1>2, ReturnStep DEF permission, Decision
  <2>2. QED
    BY <1>0, <2>1, HandlersKeep DEF NoGrant
<1>3. QED
  BY <1>1, <1>2 DEF Notified

\* A notice that failed cancels the request, and ends the handler.
Given(row) == [row EXCEPT !.at = "closed", !.registered = FALSE, !.answer = "cancel"]
LEMMA GivenRow ==
  ASSUME NEW row, NEW gone \in BOOLEAN, RowOK(row, gone), row.at = "notifying"
  PROVE  /\ RowOK(Given(row), gone)
         /\ Given(row).run = row.run /\ Given(row).answer = "cancel" /\ ~ Given(row).registered
<1>1. /\ Given(row) \in RequestRow /\ Given(row).at = "closed"
      /\ Given(row).run = row.run /\ Given(row).answer = "cancel" /\ ~ Given(row).registered
      /\ Given(row).decision = row.decision /\ Given(row).by = row.by
  BY DEF Given, RequestRow, HandlerAt, Decision, RowOK
<1>2. QED
  BY <1>1 DEF RowOK

LEMMA NotifyFailedStep ==
  ASSUME Inv, NEW r \in Request, NotifyFailed(r)
  PROVE  Inv' /\ NoGrant
<1>0. /\ RowOK(req[r], r \in revoked) /\ (r \in revoked) \in BOOLEAN /\ req[r].at = "notifying"
      /\ cancelling' \in BOOLEAN
      /\ UNCHANGED <<active, run, outcome, connected, conversation, permission>>
  BY RequestFacts DEF NotifyFailed
<1>1. CASE req[r].registered
  <2> DEFINE new == Given(req[r])
  <2>1. /\ req' = [req EXCEPT ![r] = new] /\ marked' = marked \cup {req[r].run}
    BY <1>1 DEF NotifyFailed, Mark, Given, Inv, Rows
  <2>2. /\ RowOK(new, r \in revoked) /\ new.run = req[r].run
        /\ new.answer = "cancel" /\ ~ new.registered
    <3> DEFINE gone == r \in revoked
    <3> HIDE DEF gone
    <3>1. RowOK(req[r], gone) /\ gone \in BOOLEAN
      BY <1>0 DEF gone
    <3>2. /\ RowOK(new, gone) /\ new.run = req[r].run
          /\ new.answer = "cancel" /\ ~ new.registered
      BY <1>0, <3>1, GivenRow
    <3>3. QED
      BY <3>2 DEF gone
  <2> HIDE DEF new
  <2>3. outcome[req[r].run] # "completed" /\ req[r].run \in Run
    BY <1>1, RequestFacts
  <2>4. Rows' /\ Runs' /\ Turns' /\ req'[r] = new /\ \A x \in Request \ {r} : req'[x] = req[x]
    BY <1>0, <2>1, <2>2, <2>3, OneRowStep DEF permission
  <2>5. marked' \subseteq Run
    BY <2>1, <2>3 DEF Inv, Types
  <2>6. QED
    BY <1>0, <2>2, <2>4, <2>5, HandlersKeep DEF NoGrant
<1>2. CASE ~ req[r].registered
  <2>1. req' = [req EXCEPT ![r].at = "closed"] /\ UNCHANGED marked /\ "closed" \in HandlerAt \ {"none", "decided"}
    BY <1>2 DEF NotifyFailed, HandlerAt
  <2>2. Rows' /\ Runs' /\ Turns' /\ NoGrant
    BY <1>0, <2>1, MoveStep DEF permission
  <2>3. marked' \subseteq Run
    BY <2>1 DEF Inv, Types
  <2>4. QED
    BY <1>0, <2>2, <2>3, HandlersKeep
<1>3. QED
  BY <1>1, <1>2

\* Decide grants, after the final check.
LEMMA DecideStep ==
  ASSUME Inv, NEW r \in Request, Decide(r)
  PROVE  /\ Inv'
         /\ \A x \in Request : req'[x].answer = "accept" /\ req[x].answer # "accept" =>
              x = r /\ Fresh(r) /\ req[r].by # 0
<1> DEFINE decision == IF Fresh(r) THEN req[r].decision ELSE "cancel"
<1>0. /\ RowOK(req[r], r \in revoked) /\ req[r].at = "decided"
      /\ Return(r, decision)
      /\ UNCHANGED <<active, run, outcome, connected, conversation, permission>>
  BY RequestFacts DEF Decide
<1>1. decision \in Decision
  BY <1>0 DEF RowOK, RequestRow, Decision
<1>2. decision = "accept" => Fresh(r) /\ req[r].by # 0 /\ r \notin revoked
  BY <1>0 DEF RowOK
<1> HIDE DEF decision
<1>3. /\ Rows' /\ Runs' /\ Turns' /\ cancelling' \in BOOLEAN /\ marked' \subseteq Run
      /\ \A x \in Request : req'[x].answer = "accept" /\ req[x].answer # "accept" =>
           x = r /\ decision = "accept"
  BY <1>0, <1>1, <1>2, ReturnStep DEF permission
<1>4. QED
  BY <1>0, <1>2, <1>3, HandlersKeep

LEMMA WithdrawStep ==
  ASSUME Inv, NEW r \in Request, Withdraw(r)
  PROVE  Inv' /\ NoGrant
<1>1. /\ req' = Withdrawn({r}) /\ {r} \in SUBSET Request
      /\ UNCHANGED <<active, run, outcome, connected, conversation, permission>>
      /\ UNCHANGED <<cancelling, marked>>
  BY DEF Withdraw
<1>2. /\ Rows' /\ NoGrant
      /\ \A x \in Request : RowStep(x) /\ (req'[x].registered => x \notin {r} /\ req[x].registered)
  BY <1>1, WithdrawnStep DEF permission
<1>3. Runs' /\ Turns'
  BY <1>1, <1>2, RowsAfter DEF Rows
<1>4. cancelling' \in BOOLEAN /\ marked' \subseteq Run
  BY <1>1 DEF Inv, Types
<1>5. QED
  BY <1>1, <1>2, <1>3, <1>4, HandlersKeep

LEMMA ExpireStep ==
  ASSUME Inv, NEW r \in Request, Expire(r)
  PROVE  Inv' /\ NoGrant
<1> DEFINE at == IF req[r].at \in {"waiting", "decided"} THEN "closed" ELSE req[r].at
<1>1. /\ req[r].registered /\ Finish(r, "cancel", at) /\ "cancel" \in Decision
      /\ UNCHANGED <<active, run, outcome, connected, conversation, permission>>
  BY DEF Expire, Expires, Decision
<1>2. /\ at \in HandlerAt
      /\ \/ at = "closed" /\ (r \in revoked => "cancel" # "accept")
         \/ "cancel" = "cancel" /\ req[r].at \notin {"waiting", "decided"} /\ at = req[r].at
  BY RequestFacts DEF RequestRow, HandlerAt
<1> HIDE DEF at
<1>3. /\ Rows' /\ Runs' /\ Turns' /\ cancelling' \in BOOLEAN /\ marked' \subseteq Run
      /\ req'[r].answer = "cancel" /\ \A x \in Request \ {r} : req'[x] = req[x]
  BY <1>1, <1>2, FinishStep DEF permission
<1>4. QED
  BY <1>1, <1>3, HandlersKeep DEF NoGrant

-----------------------------------------------------------------------------
\* The customer, the operator, the host.

LEMMA InboxAfterTail ==
  ASSUME Inv, inbox # <<>>, inbox' = Tail(inbox)
  PROVE  /\ Head(inbox) \in Message /\ MessageOK(Head(inbox))
         /\ inbox' \in Seq(Message) /\ \A i \in 1 .. Len(inbox') : MessageOK(inbox'[i])
<1>1. inbox \in Seq(Message) /\ \A i \in 1 .. Len(inbox) : MessageOK(inbox[i])
  BY DEF Inv, Types, Replying
<1>2. /\ Head(inbox) = inbox[1] /\ 1 \in 1 .. Len(inbox) /\ Head(inbox) \in Message
      /\ inbox' \in Seq(Message) /\ Len(inbox') = Len(inbox) - 1 /\ Len(inbox) \in Nat
      /\ \A i \in 1 .. Len(inbox') : inbox'[i] = inbox[i + 1]
  BY <1>1
<1>3. \A i \in 1 .. Len(inbox') : i + 1 \in 1 .. Len(inbox)
  BY <1>2
<1>4. QED
  BY <1>1, <1>2, <1>3

LEMMA MessageArrivesStep ==
  ASSUME ConstantsOK, Inv, NEW to \in {{}} \cup {{r} : r \in Request},
         NEW option \in {"none"} \cup Decision, MessageArrives(to, option)
  PROVE  Inv' /\ NoGrant
<1> DEFINE message == [number |-> arrived + 1, to |-> to, option |-> option]
<1>1. /\ arrived + 1 \in 0 .. MaxMessages /\ arrived + 1 # 0 /\ arrived' = arrived + 1
  BY DEF MessageArrives, ConstantsOK, Inv, Types
<1>2. message \in Message /\ MessageOK(message) /\ inbox' = Append(inbox, message)
  BY <1>1 DEF MessageArrives, Message, MessageOK
<1> HIDE DEF message
<1>3. inbox \in Seq(Message) /\ \A i \in 1 .. Len(inbox) : MessageOK(inbox[i])
  BY DEF Inv, Types, Replying
<1>4. /\ inbox' \in Seq(Message) /\ Len(inbox') = Len(inbox) + 1 /\ Len(inbox) \in Nat
      /\ inbox'[Len(inbox) + 1] = message
      /\ \A i \in 1 .. Len(inbox) : inbox'[i] = inbox[i]
  BY <1>2, <1>3
<1>5. \A i \in 1 .. Len(inbox') : i \in 1 .. Len(inbox) \/ i = Len(inbox) + 1
  BY <1>4
<1>6. \A i \in 1 .. Len(inbox') : MessageOK(inbox'[i])
  BY <1>2, <1>3, <1>4, <1>5
<1>7. QED
  BY <1>1, <1>4, <1>6
  DEF MessageArrives, permission, Inv, Types, Rows, Runs, Turns, Replying, NoGrant

\* A step that cancels what is pending, whatever it does to the messages and the permission.
LEMMA CancelKeeps ==
  ASSUME Inv, CancelPending(Request), UNCHANGED <<active, run, outcome, marked, connected>>,
         allowed' \in BOOLEAN, revocations' \in 0 .. MaxRevocations,
         revoked' \subseteq revoked \cup {r \in Request : req[r].at \in {"notifying", "waiting"}},
         arrived' = arrived,
         inbox' \in Seq(Message), \A i \in 1 .. Len(inbox') : MessageOK(inbox'[i]),
         reply' = reply \/ reply' = NoReply, NoReply \in Message
  PROVE  Inv' /\ NoGrant
<1>1. Rows' /\ Runs' /\ Turns' /\ NoGrant /\ cancelling' \in BOOLEAN
  BY CancelStep
<1>2. revoked' \subseteq Request
  BY DEF Inv, Types
<1>3. Types'
  BY <1>1, <1>2 DEF Inv, Types
<1>4. Replying'
  BY DEF Inv, Replying
<1>5. QED
  BY <1>1, <1>3, <1>4 DEF Inv

LEMMA Bounds ==
  ASSUME ConstantsOK
  PROVE  /\ MaxRuns \in Nat /\ MaxMessages \in Nat /\ MaxRevocations \in Nat
         /\ 0 \in 0 .. MaxRuns /\ 0 \in 0 .. MaxMessages
         /\ 0 \in 0 .. MaxRevocations /\ MaxRevocations \in 0 .. MaxRevocations
BY DEF ConstantsOK

LEMMA NoReplyIsMessage ==
  ASSUME ConstantsOK
  PROVE  NoReply \in Message
BY Bounds DEF NoReply, Message

LEMMA HandleMessageStep ==
  ASSUME ConstantsOK, Inv, HandleMessage
  PROVE  Inv' /\ NoGrant
<1>1. inbox' \in Seq(Message) /\ \A i \in 1 .. Len(inbox') : MessageOK(inbox'[i])
  BY InboxAfterTail DEF HandleMessage
<1>2. allowed' \in BOOLEAN /\ revocations' \in 0 .. MaxRevocations
  BY DEF HandleMessage, permission, Inv, Types
<1>3. QED
  BY <1>1, <1>2, CancelKeeps, NoReplyIsMessage DEF HandleMessage, permission

LEMMA HandleInvalidReplyStep ==
  ASSUME ConstantsOK, Inv, HandleInvalidReply
  PROVE  Inv' /\ NoGrant
<1>1. inbox' \in Seq(Message) /\ \A i \in 1 .. Len(inbox') : MessageOK(inbox'[i])
  BY InboxAfterTail DEF HandleInvalidReply
<1>2. CASE UNCHANGED <<cancelling, req, allowed, revocations, revoked>>
  BY <1>1, <1>2 DEF HandleInvalidReply, Inv, Types, Rows, Runs, Turns, Replying, NoGrant
<1>3. CASE /\ allowed' = FALSE
           /\ revocations' = MaxRevocations
           /\ revoked' = revoked \cup {r \in Request : req[r].at \in {"notifying", "waiting"}}
           /\ CancelPending(Request)
  <2>0. allowed' = FALSE /\ revocations' = MaxRevocations
    BY <1>3
  <2>1. allowed' \in BOOLEAN /\ revocations' \in 0 .. MaxRevocations
    BY <2>0, Bounds
  <2>2. QED
    BY <1>1, <1>3, <2>1, CancelKeeps, NoReplyIsMessage DEF HandleInvalidReply
<1>4. QED
  BY <1>2, <1>3 DEF HandleInvalidReply

LEMMA HandleReplyStep ==
  ASSUME Inv, HandleReply
  PROVE  Inv' /\ NoGrant
<1>1. inbox # <<>>
  BY DEF HandleReply
<1>2. /\ Head(inbox) \in Message /\ MessageOK(Head(inbox))
      /\ inbox' \in Seq(Message) /\ \A i \in 1 .. Len(inbox') : MessageOK(inbox'[i])
  BY <1>1, InboxAfterTail DEF HandleReply
<1>3. Head(inbox).to # {}
  BY DEF HandleReply
<1>4. QED
  BY <1>2, <1>3
  DEF HandleReply, permission, Inv, Types, Rows, Runs, Turns, Replying, NoGrant

\* respondApproval: the reply decides.
Chosen(row, option, number) ==
  [row EXCEPT !.at = "decided", !.decision = option, !.by = number]
LEMMA ChosenRow ==
  ASSUME NEW row, NEW gone \in BOOLEAN, RowOK(row, gone), row.at = "waiting",
         NEW option \in Decision, NEW number \in 0 .. MaxMessages, number # 0
  PROVE  /\ RowOK(Chosen(row, option, number), gone)
         /\ SameRun(row, Chosen(row, option, number))
         /\ Chosen(row, option, number).answer = row.answer
<1>1. /\ Chosen(row, option, number) \in RequestRow
      /\ Chosen(row, option, number).at = "decided"
      /\ Chosen(row, option, number).decision = option
      /\ Chosen(row, option, number).by = number
      /\ Chosen(row, option, number).run = row.run
      /\ Chosen(row, option, number).registered = row.registered
      /\ Chosen(row, option, number).answer = row.answer
  BY DEF Chosen, RequestRow, HandlerAt, RowOK
<1>2. ~ gone /\ option # "none"
  BY DEF RowOK, Decision
<1>3. QED
  BY <1>1, <1>2 DEF RowOK, SameRun

LEMMA RespondStep ==
  ASSUME Inv, NEW r \in Request, req[r].at = "waiting", NEW option \in Decision,
         NEW number \in 0 .. MaxMessages, number # 0, Respond(r, option, number),
         UNCHANGED <<run, outcome, marked, revoked>>
  PROVE  Rows' /\ Runs' /\ Turns' /\ cancelling' \in BOOLEAN /\ NoGrant
<1> DEFINE new == Chosen(req[r], option, number)
<1>1. /\ RowOK(req[r], r \in revoked) /\ (r \in revoked) \in BOOLEAN
      /\ req[r].answer = "cancel" => req[r].run \in marked
  BY RequestFacts
<1>2. RowOK(new, r \in revoked) /\ SameRun(req[r], new) /\ new.answer = req[r].answer
  <2> DEFINE gone == r \in revoked
  <2> HIDE DEF gone
  <2>1. RowOK(req[r], gone) /\ gone \in BOOLEAN
    BY <1>1 DEF gone
  <2>2. RowOK(new, gone) /\ SameRun(req[r], new) /\ new.answer = req[r].answer
    BY <2>1, ChosenRow
  <2>3. QED
    BY <2>2 DEF gone
<1>3. req' = [req EXCEPT ![r] = new]
  BY DEF Respond, Chosen, Inv, Rows
<1> HIDE DEF new
<1>4. Rows' /\ Runs' /\ Turns' /\ req'[r] = new /\ \A x \in Request \ {r} : req'[x] = req[x]
  BY <1>1, <1>2, <1>3, OneRowStep DEF SameRun
<1>5. cancelling' \in BOOLEAN
  BY DEF Respond, Inv, Types
<1>6. QED
  BY <1>2, <1>4, <1>5 DEF NoGrant

LEMMA ReplySteeredStep ==
  ASSUME ConstantsOK, Inv, ReplySteered
  PROVE  Inv' /\ NoGrant
<1>1. /\ reply.number \in 0 .. MaxMessages /\ reply.number # 0
      /\ reply.option \in Decision
      /\ reply.to \in {{r} : r \in Request}
  BY DEF ReplySteered, Inv, Types, Replying, Message, MessageOK, NoReply
<1>2. PICK r \in Request : reply.to = {r}
  BY <1>1
<1>3. RespondApproval(r, reply.option, reply.number)
  BY <1>2 DEF ReplySteered
<1>4. CASE Respond(r, reply.option, reply.number) /\ Answerable(r)
  <2>1. Rows' /\ Runs' /\ Turns' /\ cancelling' \in BOOLEAN /\ NoGrant
    BY <1>1, <1>4, RespondStep DEF ReplySteered, Answerable, permission
  <2>2. QED
    BY <2>1, NoReplyIsMessage DEF ReplySteered, permission, Inv, Types, Replying
<1>5. CASE CancelPending(Request)
  <2>1. /\ inbox' \in Seq(Message) /\ \A i \in 1 .. Len(inbox') : MessageOK(inbox'[i])
        /\ allowed' \in BOOLEAN /\ revocations' \in 0 .. MaxRevocations
    BY DEF ReplySteered, permission, Inv, Types, Replying
  <2>2. QED
    BY <1>5, <2>1, CancelKeeps, NoReplyIsMessage DEF ReplySteered, permission
<1>6. QED
  BY <1>3, <1>4, <1>5 DEF RespondApproval

LEMMA ReplyNotSteeredStep ==
  ASSUME ConstantsOK, Inv, ReplyNotSteered
  PROVE  Inv' /\ NoGrant
<1>1. /\ inbox' \in Seq(Message) /\ \A i \in 1 .. Len(inbox') : MessageOK(inbox'[i])
      /\ allowed' \in BOOLEAN /\ revocations' \in 0 .. MaxRevocations
  BY DEF ReplyNotSteered, permission, Inv, Types, Replying
<1>2. QED
  BY <1>1, CancelKeeps, NoReplyIsMessage DEF ReplyNotSteered, permission

LEMMA RevokeStep ==
  ASSUME ConstantsOK, Inv, Revoke
  PROVE  Inv' /\ NoGrant
<1>1. /\ inbox' \in Seq(Message) /\ \A i \in 1 .. Len(inbox') : MessageOK(inbox'[i])
      /\ allowed' \in BOOLEAN /\ revocations' \in 0 .. MaxRevocations
  <2>1. /\ revocations \in 0 .. MaxRevocations /\ revocations < MaxRevocations
        /\ revocations' = revocations + 1 /\ allowed' = FALSE /\ inbox' = inbox
    BY DEF Revoke, conversation, Inv, Types
  <2>2. revocations' \in 0 .. MaxRevocations
    BY <2>1, Bounds
  <2>3. inbox \in Seq(Message) /\ \A i \in 1 .. Len(inbox) : MessageOK(inbox[i])
    BY DEF Inv, Types, Replying
  <2>4. QED
    BY <2>1, <2>2, <2>3
<1>2. QED
  BY <1>1, CancelKeeps, NoReplyIsMessage DEF Revoke, conversation

LEMMA AllowAgainStep ==
  ASSUME Inv, AllowAgain
  PROVE  Inv' /\ NoGrant
BY DEF AllowAgain, conversation, Inv, Types, Rows, Runs, Turns, Replying, NoGrant

LEMMA InterruptStep ==
  ASSUME ConstantsOK, Inv, Interrupt
  PROVE  Inv' /\ NoGrant
<1>1. /\ inbox' \in Seq(Message) /\ \A i \in 1 .. Len(inbox') : MessageOK(inbox'[i])
      /\ allowed' \in BOOLEAN /\ revocations' \in 0 .. MaxRevocations
  BY DEF Interrupt, conversation, permission, Inv, Types, Replying
<1>2. QED
  BY <1>1, CancelKeeps, NoReplyIsMessage DEF Interrupt, conversation, permission

-----------------------------------------------------------------------------
(* The theorems.                                                           *)

LEMMA InitInv ==
  ASSUME ConstantsOK, Init
  PROVE  Inv
<1>1. NewRequest \in RequestRow /\ RowOK(NewRequest, FALSE)
  BY DEF NewRequest, RequestRow, HandlerAt, RowOK, ConstantsOK
<1>2. Types
  <2>1. [number |-> 0, at |-> "none"] \in [number : 0 .. MaxRuns, at : {"none", "starting", "running"}]
    BY Bounds
  <2>2. <<>> \in Seq(Message) /\ NoReply \in Message
    BY NoReplyIsMessage
  <2>3. [n \in Run |-> "none"] \in [Run -> {"none", "open", "completed", "cancelled", "failed"}]
    OBVIOUS
  <2>4. QED
    BY <2>1, <2>2, <2>3, Bounds DEF Init, Types
<1>3. Rows /\ Runs
  <2>1. req = [r \in Request |-> NewRequest] /\ \A r \in Request : (r \in revoked) = FALSE
    BY DEF Init
  <2>2. \A r \in Request : req[r] = NewRequest
    BY <2>1
  <2>3. NewRequest.answer = "none" /\ ~ NewRequest.registered
    BY DEF NewRequest
  <2>4. \A r \in Request : RowOK(req[r], r \in revoked)
    BY <1>1, <2>1, <2>2
  <2>5. req \in [Request -> RequestRow]
    BY <1>1, <2>1
  <2>6. QED
    BY <2>2, <2>3, <2>4, <2>5 DEF Rows, Runs
<1>4. Turns /\ Replying
  BY DEF Init, Turns, Replying
<1>5. QED
  BY <1>2, <1>3, <1>4 DEF Inv

\* What a step grants is current.
Granting == \A r \in Request : req'[r].answer = "accept" /\ req[r].answer # "accept" =>
              Fresh(r) /\ req[r].by # 0

LEMMA StepInv ==
  ASSUME ConstantsOK, Inv, Next
  PROVE  Inv' /\ Granting
<1>1. CASE \E r \in Request : Decide(r)
  BY <1>1, DecideStep DEF Granting
<1>2. CASE Inv' /\ NoGrant
  BY <1>2 DEF NoGrant, Granting
<1>3. CASE StartRun \/ RunAcknowledged \/ RunRefused \/ TurnEnds \/ ServerFails
  BY <1>2, <1>3, StartRunStep, RunAcknowledgedStep, RunRefusedStep, TurnEndsStep, ServerFailsStep
<1>4. CASE \E result \in {"completed", "failed"} : RunEnds(result)
  BY <1>2, <1>4, RunEndsStep
<1>5. CASE \E r \in Request : Ask(r) \/ Prompt(r) \/ Told(r) \/ Notified(r) \/ NotifyFailed(r)
                              \/ Withdraw(r) \/ Expire(r)
  BY <1>2, <1>5, AskStep, PromptStep, ToldStep, NotifiedStep, NotifyFailedStep,
     WithdrawStep, ExpireStep
<1>6. CASE \E to \in {{}} \cup {{r} : r \in Request}, option \in {"none"} \cup Decision :
             MessageArrives(to, option)
  BY <1>2, <1>6, MessageArrivesStep
<1>7. CASE Replies \/ Revoke \/ AllowAgain \/ Interrupt
  BY <1>2, <1>7, HandleMessageStep, HandleInvalidReplyStep, HandleReplyStep, ReplySteeredStep,
     ReplyNotSteeredStep, RevokeStep, AllowAgainStep, InterruptStep DEF Replies
<1>8. QED
  BY <1>1, <1>3, <1>4, <1>5, <1>6, <1>7 DEF Next, Handlers

\* The invariant holds in every reachable state.
THEOREM ApprovalInv ==
  ASSUME ConstantsOK
  PROVE  Spec => []Inv
<1>1. Init => Inv
  BY InitInv
<1>2. Inv /\ [Next]_vars => Inv'
  <2>1. Inv /\ Next => Inv'
    BY StepInv
  <2>2. Inv /\ UNCHANGED vars => Inv'
    BY DEF vars, Inv, Types, Rows, Runs, Turns, Replying
  <2>3. QED
    BY <2>1, <2>2
<1>3. QED
  BY <1>1, <1>2, PTL DEF Spec

\* A question shown before the permission was taken away is never granted (isAllowed after a
\* revocation), and a run that was told to cancel never counts as completed (approvalCancelled).
THEOREM ApprovalsAreSafe ==
  ASSUME ConstantsOK
  PROVE  Spec => []ApprovalsHold
<1>1. Spec => []Inv
  BY ApprovalInv
<1>2. Inv => ApprovalsHold
  BY InvMeans DEF ApprovalsHold
<1>3. QED
  BY <1>1, <1>2, PTL

\* Codex goes ahead only on a current reply of the customer to this very question, in the run that
\* asked it, and while the conversation may approve: the final check of respondApproval's decision.
THEOREM GrantsAreCurrent ==
  ASSUME ConstantsOK
  PROVE  Spec => GrantIsCurrent
<1> DEFINE Current == \A r \in Request : req[r].answer = "none" /\ req'[r].answer = "accept" =>
                        /\ req[r].by # 0 /\ req[r].by = arrived
                        /\ IsApprovalTurn(req[r].run)
                        /\ allowed
<1>1. Spec => []Inv
  BY ApprovalInv
<1>2. Inv /\ [Next]_vars => [Current]_vars
  <2>1. Inv /\ Next => Current
    <3> SUFFICES ASSUME Inv, Next PROVE Current
      OBVIOUS
    <3>1. Granting
      BY StepInv
    <3>2. QED
      BY <3>1 DEF Granting, Fresh, SessionCurrent
  <2>2. QED
    BY <2>1
<1>3. QED
  BY <1>1, <1>2, PTL DEF Spec, GrantIsCurrent
=============================================================================
