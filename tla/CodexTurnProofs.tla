--------------------------- MODULE CodexTurnProofs ---------------------------
(***************************************************************************)
(* What a turn guarantees for any number of runs, steerings and tool calls: *)
(* its types, and that a tool call that counts as the answer of a run began *)
(* after Codex took in the customer's last direction in that run.           *)
(***************************************************************************)
EXTENDS CodexTurn, TLAPS

-----------------------------------------------------------------------------
(* The inductive invariant.                                                *)

\* A line that is not read yet.
Unread(kind, of, i) == i \in 1 .. Len(pipe) /\ pipe[i].kind = kind /\ pipe[i].of = of
Queued(s) == \E i \in 1 .. Len(codex.inbox) : codex.inbox[i] = s

InFlight == {"staging", "sent", "acknowledged"}

\* Messages are steered one at a time, in their order.
OneByOne ==
  \A s, x \in Steer : x < s =>
    /\ steer[s].at # "new" => steer[x].at # "new"
    /\ steer[x].at \in InFlight => steer[s].at = "new"

\* What was not sent is unknown to Codex.
Unsent ==
  \A s \in Steer : steer[s].at \in {"new", "staging"} =>
    /\ s \notin codex.acks /\ ~ Queued(s) /\ seen.taken[s] = 0
    /\ \A i \in 1 .. Len(pipe) : ~ Unread("ack", s, i) /\ ~ Unread("taken", s, i)

\* Codex takes messages in in their order: first what was read of, then what is written and
\* not read yet, then what stands in line.
InOrder ==
  /\ \A i, j \in 1 .. Len(pipe), s, x \in Steer :
       i < j /\ Unread("taken", x, i) /\ Unread("taken", s, j) => x < s
  /\ \A i, j \in 1 .. Len(codex.inbox) : i < j => codex.inbox[i] < codex.inbox[j]
  /\ \A i \in 1 .. Len(pipe), s, x \in Steer : Unread("taken", x, i) /\ Queued(s) => x < s
  /\ \A i \in 1 .. Len(pipe), s, x \in Steer :
       seen.taken[x] # 0 /\ Unread("taken", s, i) => x < s
  /\ \A s, x \in Steer : seen.taken[x] # 0 /\ Queued(s) => x < s
  /\ \A s, x \in Steer :
       x < s /\ seen.taken[x] # 0 /\ seen.taken[s] # 0 => seen.taken[x] < seen.taken[s]
  /\ \A s \in Steer : seen.taken[s] <= eventSequence

\* A tool call is announced once.
Announced ==
  \A k \in Tool :
    /\ codex.of[k] = 0 => seen.started[k] = 0
    /\ \A i \in 1 .. Len(pipe) : Unread("tool_started", k, i) =>
         /\ codex.of[k] # 0 /\ seen.started[k] = 0
         /\ \A j \in 1 .. Len(pipe) : Unread("tool_started", k, j) => i = j

\* The runs begin one after another, and Codex works on one that has not ended.
Runs ==
  /\ IF turn.at = "idle" THEN turn.run = 0 ELSE turn.run \in Run
  /\ turn.at = "running" => thread.active = turn.run
  /\ codex.run <= turn.run
  /\ \A n \in Run : run[n].at = "requested" => n = turn.run /\ turn.at \in {"starting", "failed"}
  /\ \A n \in Run : turn.run < n \/ codex.run = n =>
       /\ run[n].ended = "no"
       /\ \A i \in 1 .. Len(pipe) : ~ Unread("completed", n, i) /\ ~ Unread("failed", n, i)
  /\ \A s \in Steer : /\ steer[s].run <= turn.run
                      /\ steer[s].at \in {"sent", "acknowledged"} => steer[s].run # 0

\* Codex promised to take a message in.
Promised(s) ==
  \/ s \in codex.acks
  \/ \E i \in 1 .. Len(pipe) : Unread("ack", s, i)
  \/ steer[s].at \in {"acknowledged", "confirmed"}

\* What Codex promised it does before it completes the run.
Delivered ==
  \A s \in Steer : Promised(s) /\ steer[s].run # 0 =>
    /\ codex.run = steer[s].run
         => Queued(s) \/ seen.taken[s] # 0 \/ \E i \in 1 .. Len(pipe) : Unread("taken", s, i)
    /\ \A i \in 1 .. Len(pipe) : Unread("completed", steer[s].run, i)
         => seen.taken[s] # 0 \/ \E j \in 1 .. Len(pipe) : j < i /\ Unread("taken", s, j)
    /\ run[steer[s].run].ended = "completed" => seen.taken[s] # 0

\* The thread knows the last message that was steered into the run.
LastKnown ==
  /\ thread.last # 0 => /\ steer[thread.last].at = "confirmed"
                        /\ thread.active # 0 => steer[thread.last].run = thread.active
  /\ \A s \in Steer : thread.active # 0 /\ steer[s].at = "confirmed" /\ steer[s].run = thread.active
       => thread.last # 0 /\ s <= thread.last
  /\ turn.at = "starting" => thread.last = 0 /\ \A s \in Steer : steer[s].run # turn.run

\* What counts began after everything that was steered into the run.
Counts ==
  /\ \A n \in Run, s \in Steer : \A k \in answer[n] :
       steer[s].at = "confirmed" /\ steer[s].run = n
         => seen.taken[s] # 0 /\ seen.started[k] > seen.taken[s]
  /\ \A n \in Run : \A k \in answer[n] : seen.started[k] # 0
  /\ \A n \in Run : answer[n] # {} =>
       \/ n < turn.run
       \/ n = turn.run /\ turn.at \in {"settling", "completed", "failed"}

Inv ==
  /\ TypeOK /\ OneByOne /\ Unsent /\ InOrder /\ Announced /\ Runs /\ Delivered /\ LastKnown
  /\ Counts

LEMMA InitInv == ConstantsOK /\ Init => Inv
<1> SUFFICES ASSUME ConstantsOK, Init
             PROVE  Inv
  OBVIOUS
<1>1. /\ Len(pipe) = 0 /\ pipe \in Seq(Line) /\ codex.inbox = <<>> /\ Len(codex.inbox) = 0
      /\ codex.acks = {} /\ codex.run = 0 /\ codex.inbox \in Seq(Steer)
  BY DEF Init
<1>2. /\ 0 \in 0 .. MaxRuns /\ 0 \in 0 .. MaxSteers
      /\ [s \in Steer |-> [at |-> "new", run |-> 0]] \in [Steer -> [at : SteerAt, run : 0 .. MaxRuns]]
  BY DEF ConstantsOK, SteerAt
<1>3. TypeOK
  BY <1>1, <1>2 DEF Init, TypeOK, TurnAt, RunAt, ConstantsOK
<1>4. OneByOne /\ Unsent /\ InOrder /\ Announced
  BY <1>1 DEF Init, OneByOne, Unsent, InOrder, Announced, Unread, Queued, InFlight
<1>5. Runs /\ Delivered /\ LastKnown /\ Counts
  BY <1>1 DEF Init, Runs, Delivered, LastKnown, Counts, Unread, Promised, Run, Steer, ConstantsOK
<1>6. QED
  BY <1>3, <1>4, <1>5 DEF Inv

-----------------------------------------------------------------------------
(* Lines that are written and read.                                        *)

LEMMA WriteFacts ==
  ASSUME pipe \in Seq(Line), NEW line \in Line, Write(line)
  PROVE  /\ pipe' \in Seq(Line) /\ Len(pipe') = Len(pipe) + 1
         /\ \A kind, of, i : Unread(kind, of, i)' <=>
              \/ Unread(kind, of, i)
              \/ i = Len(pipe) + 1 /\ line.kind = kind /\ line.of = of
<1>1. /\ pipe' \in Seq(Line) /\ Len(pipe') = Len(pipe) + 1
      /\ \A i \in 1 .. Len(pipe) : pipe'[i] = pipe[i]
      /\ pipe'[Len(pipe) + 1] = line
  BY DEF Write
<1>2. QED
  BY <1>1 DEF Unread

LEMMA ReadFacts ==
  ASSUME pipe \in Seq(Line), NEW kind, Reads(kind)
  PROVE  /\ pipe' \in Seq(Line) /\ Len(pipe') = Len(pipe) - 1 /\ Len(pipe) \in Nat \ {0}
         /\ Head(pipe) \in Line /\ Head(pipe).kind = kind
         /\ Unread(kind, Head(pipe).of, 1)
         /\ \A k, of, i : Unread(k, of, i)' <=> i \in Nat \ {0} /\ Unread(k, of, i + 1)
         /\ \A k, of : Unread(k, of, 1) => k = kind /\ of = Head(pipe).of
<1>1. /\ pipe' \in Seq(Line) /\ Len(pipe') = Len(pipe) - 1 /\ Len(pipe) \in Nat \ {0}
      /\ \A i \in 1 .. Len(pipe) - 1 : pipe'[i] = pipe[i + 1]
      /\ Head(pipe) = pipe[1] /\ Head(pipe).kind = kind /\ pipe[1] \in Line
  BY DEF Reads
<1>2. QED
  BY <1>1 DEF Unread

-----------------------------------------------------------------------------
(* The steps of Codex.                                                     *)

\* What holds of the client, of the tools and of the runs when Codex writes a line.
LEMMA CodexStartedInv ==
  ASSUME ConstantsOK, Inv, CodexStarted
  PROVE  Inv'
<1> DEFINE line == [kind |-> "started", of |-> codex.run]
<1>1. /\ codex.run \in Run /\ line \in Line /\ Write(line) /\ UNCHANGED <<codex, client>>
      /\ line.kind = "started" /\ line.of = codex.run
  BY DEF CodexStarted, Inv, TypeOK, Run, Line
<1>2. /\ pipe' \in Seq(Line) /\ Len(pipe') = Len(pipe) + 1
      /\ \A kind, of, i : kind # "started" => (Unread(kind, of, i)' <=> Unread(kind, of, i))
  BY <1>1, WriteFacts DEF Inv, TypeOK
<1> HIDE DEF line
<1>3. TypeOK'
  BY <1>1, <1>2 DEF Inv, TypeOK, client
<1>4. \A i, kind, of : Unread(kind, of, i) => i \in 1 .. Len(pipe)
  BY DEF Unread
<1>5. OneByOne' /\ Unsent' /\ LastKnown' /\ Counts'
  BY <1>1, <1>2, <1>4 DEF Inv, OneByOne, Unsent, LastKnown, Counts, client, Queued
<1>6. InOrder'
  BY <1>1, <1>2, <1>4 DEF Inv, InOrder, client, Queued
<1>7. Announced'
  BY <1>1, <1>2, <1>4 DEF Inv, Announced, client
<1>8. Runs'
  BY <1>1, <1>2, <1>4 DEF Inv, Runs, client
<1>9. Delivered'
  BY <1>1, <1>2, <1>4 DEF Inv, Delivered, Promised, client, Queued
<1>10. QED
  BY <1>3, <1>5, <1>6, <1>7, <1>8, <1>9 DEF Inv

LEMMA CodexCallsToolInv ==
  ASSUME ConstantsOK, Inv, NEW k \in Tool, CodexCallsTool(k)
  PROVE  Inv'
<1> DEFINE line == [kind |-> "tool_started", of |-> k]
<1>1. /\ line \in Line /\ Write(line) /\ UNCHANGED client
      /\ line.kind = "tool_started" /\ line.of = k
      /\ codex.run # 0 /\ codex.of[k] = 0
  BY DEF CodexCallsTool, Line
<1>2. /\ pipe' \in Seq(Line) /\ Len(pipe') = Len(pipe) + 1 /\ Len(pipe) \in Nat
      /\ \A kind, of, i : Unread(kind, of, i)' <=>
           \/ Unread(kind, of, i)
           \/ i = Len(pipe) + 1 /\ kind = "tool_started" /\ of = k
  BY <1>1, WriteFacts DEF Inv, TypeOK
<1> HIDE DEF line
<1>3. /\ codex'.run = codex.run /\ codex'.inbox = codex.inbox /\ codex'.acks = codex.acks
      /\ codex'.of = [codex.of EXCEPT ![k] = codex.run]
  BY DEF CodexCallsTool, Inv, TypeOK
<1>4. codex' \in [run : 0 .. MaxRuns, of : [Tool -> 0 .. MaxRuns], open : SUBSET Tool,
                  inbox : Seq(Steer), acks : SUBSET Steer]
  BY DEF CodexCallsTool, Inv, TypeOK
<1>5. TypeOK'
  BY <1>1, <1>2, <1>4 DEF Inv, TypeOK, client
<1>6. \A i, kind, of : Unread(kind, of, i) => i \in 1 .. Len(pipe)
  BY DEF Unread
<1>7. OneByOne' /\ Unsent' /\ LastKnown' /\ Counts'
  BY <1>1, <1>2, <1>3, <1>6 DEF Inv, OneByOne, Unsent, LastKnown, Counts, client, Queued
<1>8. InOrder'
  BY <1>1, <1>2, <1>3, <1>6 DEF Inv, InOrder, client, Queued
<1>9. Announced'
  <2>1. codex.of \in [Tool -> 0 .. MaxRuns] /\ seen.started[k] = 0
        /\ \A i \in 1 .. Len(pipe) : ~ Unread("tool_started", k, i)
    BY <1>1 DEF Inv, TypeOK, Announced
  <2>2. codex'.of[k] # 0 /\ \A x \in Tool : x # k => codex'.of[x] = codex.of[x]
    BY <1>1, <1>3, <2>1
  <2>3. QED
    BY <1>1, <1>2, <1>6, <2>1, <2>2 DEF Inv, Announced, client
<1>10. Runs'
  BY <1>1, <1>2, <1>3, <1>6 DEF Inv, Runs, client
<1>11. Delivered'
  BY <1>1, <1>2, <1>3, <1>6 DEF Inv, Delivered, Promised, client, Queued
<1>12. QED
  BY <1>5, <1>7, <1>8, <1>9, <1>10, <1>11 DEF Inv

LEMMA CodexToolReturnsInv ==
  ASSUME ConstantsOK, Inv, NEW k \in Tool, CodexToolReturns(k)
  PROVE  Inv'
<1> DEFINE line == [kind |-> "tool_completed", of |-> k]
<1>1. /\ line \in Line /\ Write(line) /\ UNCHANGED client
      /\ line.kind = "tool_completed" /\ line.of = k
  BY DEF CodexToolReturns, Line
<1>2. /\ pipe' \in Seq(Line) /\ Len(pipe') = Len(pipe) + 1 /\ Len(pipe) \in Nat
      /\ \A kind, of, i : kind # "tool_completed" =>
           (Unread(kind, of, i)' <=> Unread(kind, of, i))
  BY <1>1, WriteFacts DEF Inv, TypeOK
<1> HIDE DEF line
<1>3. /\ codex'.run = codex.run /\ codex'.inbox = codex.inbox /\ codex'.acks = codex.acks
      /\ codex'.of = codex.of
  BY DEF CodexToolReturns, Inv, TypeOK
<1>4. codex' \in [run : 0 .. MaxRuns, of : [Tool -> 0 .. MaxRuns], open : SUBSET Tool,
                  inbox : Seq(Steer), acks : SUBSET Steer]
  BY DEF CodexToolReturns, Inv, TypeOK
<1>5. TypeOK'
  BY <1>1, <1>2, <1>4 DEF Inv, TypeOK, client
<1>6. \A i, kind, of : Unread(kind, of, i) => i \in 1 .. Len(pipe)
  BY DEF Unread
<1>7. OneByOne' /\ Unsent' /\ LastKnown' /\ Counts'
  BY <1>1, <1>2, <1>3, <1>6 DEF Inv, OneByOne, Unsent, LastKnown, Counts, client, Queued
<1>8. InOrder'
  BY <1>1, <1>2, <1>3, <1>6 DEF Inv, InOrder, client, Queued
<1>9. Announced'
  BY <1>1, <1>2, <1>3, <1>6 DEF Inv, Announced, client
<1>10. Runs'
  BY <1>1, <1>2, <1>3, <1>6 DEF Inv, Runs, client
<1>11. Delivered'
  BY <1>1, <1>2, <1>3, <1>6 DEF Inv, Delivered, Promised, client, Queued
<1>12. QED
  BY <1>5, <1>7, <1>8, <1>9, <1>10, <1>11 DEF Inv

LEMMA CodexAcknowledgesInv ==
  ASSUME ConstantsOK, Inv, NEW s \in Steer, CodexAcknowledges(s)
  PROVE  Inv'
<1> DEFINE line == [kind |-> "ack", of |-> s]
<1>1. /\ line \in Line /\ Write(line) /\ UNCHANGED client
      /\ line.kind = "ack" /\ line.of = s /\ s \in codex.acks
  BY DEF CodexAcknowledges, Line
<1>2. /\ pipe' \in Seq(Line) /\ Len(pipe') = Len(pipe) + 1 /\ Len(pipe) \in Nat
      /\ \A kind, of, i : Unread(kind, of, i)' <=>
           \/ Unread(kind, of, i)
           \/ i = Len(pipe) + 1 /\ kind = "ack" /\ of = s
  BY <1>1, WriteFacts DEF Inv, TypeOK
<1> HIDE DEF line
<1>3. /\ codex'.run = codex.run /\ codex'.inbox = codex.inbox /\ codex'.acks = codex.acks \ {s}
      /\ codex'.of = codex.of
  BY DEF CodexAcknowledges, Inv, TypeOK
<1>4. codex' \in [run : 0 .. MaxRuns, of : [Tool -> 0 .. MaxRuns], open : SUBSET Tool,
                  inbox : Seq(Steer), acks : SUBSET Steer]
  BY DEF CodexAcknowledges, Inv, TypeOK
<1>5. TypeOK'
  BY <1>1, <1>2, <1>4 DEF Inv, TypeOK, client
<1>6. \A i, kind, of : Unread(kind, of, i) => i \in 1 .. Len(pipe)
  BY DEF Unread
<1>7. OneByOne' /\ Unsent' /\ LastKnown' /\ Counts'
  BY <1>1, <1>2, <1>3, <1>6 DEF Inv, OneByOne, Unsent, LastKnown, Counts, client, Queued
<1>8. InOrder'
  BY <1>1, <1>2, <1>3, <1>6 DEF Inv, InOrder, client, Queued
<1>9. Announced'
  BY <1>1, <1>2, <1>3, <1>6 DEF Inv, Announced, client
<1>10. Runs'
  BY <1>1, <1>2, <1>3, <1>6 DEF Inv, Runs, client
<1>11. Delivered'
  <2>1. \A x \in Steer : Promised(x)' => Promised(x)
    BY <1>1, <1>2, <1>3, <1>6 DEF Promised, client
  <2>2. QED
    BY <1>1, <1>2, <1>3, <1>6, <2>1 DEF Inv, Delivered, client, Queued
<1>12. QED
  BY <1>5, <1>7, <1>8, <1>9, <1>10, <1>11 DEF Inv

LEMMA CodexTakesInInv ==
  ASSUME ConstantsOK, Inv, CodexTakesIn
  PROVE  Inv'
<1>0. PICK s \in Steer : /\ s = Head(codex.inbox) /\ s = codex.inbox[1]
                         /\ codex.inbox \in Seq(Steer) /\ Len(codex.inbox) \in Nat \ {0}
                         /\ Tail(codex.inbox) \in Seq(Steer)
  BY DEF CodexTakesIn, Inv, TypeOK
<1> DEFINE line == [kind |-> "taken", of |-> s]
<1>1. /\ line \in Line /\ Write(line) /\ UNCHANGED client
      /\ line.kind = "taken" /\ line.of = s
  BY <1>0 DEF CodexTakesIn, Line
<1>2. /\ pipe' \in Seq(Line) /\ Len(pipe') = Len(pipe) + 1 /\ Len(pipe) \in Nat
      /\ \A kind, of, i : Unread(kind, of, i)' <=>
           \/ Unread(kind, of, i)
           \/ i = Len(pipe) + 1 /\ kind = "taken" /\ of = s
  BY <1>1, WriteFacts DEF Inv, TypeOK
<1> HIDE DEF line
<1>3. /\ codex'.run = codex.run /\ codex'.inbox = Tail(codex.inbox) /\ codex'.acks = codex.acks
      /\ codex'.of = codex.of
  BY DEF CodexTakesIn, Inv, TypeOK
<1>4. codex' \in [run : 0 .. MaxRuns, of : [Tool -> 0 .. MaxRuns], open : SUBSET Tool,
                  inbox : Seq(Steer), acks : SUBSET Steer]
  BY <1>0 DEF CodexTakesIn, Inv, TypeOK
<1>5. TypeOK'
  BY <1>1, <1>2, <1>4 DEF Inv, TypeOK, client
<1>6. \A i, kind, of : Unread(kind, of, i) => i \in 1 .. Len(pipe)
  BY DEF Unread
<1>7. /\ Len(codex'.inbox) = Len(codex.inbox) - 1
      /\ \A i \in 1 .. Len(codex.inbox) - 1 : codex'.inbox[i] = codex.inbox[i + 1]
  BY <1>0, <1>3
<1>8. /\ Queued(s) /\ \A x : Queued(x)' => Queued(x)
      /\ \A x : Queued(x) => Queued(x)' \/ x = s
  <2>1. Queued(s)
    BY <1>0 DEF Queued
  <2>2. ASSUME NEW x, Queued(x)
        PROVE  Queued(x)' \/ x = s
    <3>1. PICK i \in 1 .. Len(codex.inbox) : codex.inbox[i] = x
      BY <2>2 DEF Queued
    <3>2. CASE i = 1
      BY <1>0, <3>1, <3>2
    <3>3. CASE i # 1
      <4>1. i - 1 \in 1 .. Len(codex'.inbox) /\ codex'.inbox[i - 1] = x
        BY <1>0, <1>7, <3>1, <3>3
      <4>2. QED
        BY <4>1 DEF Queued
    <3>4. QED
      BY <3>2, <3>3
  <2>3. ASSUME NEW x, Queued(x)'
        PROVE  Queued(x)
    BY <1>0, <1>7, <2>3 DEF Queued
  <2>4. QED
    BY <2>1, <2>2, <2>3
<1>9. /\ \A x \in Steer : Queued(x)' => s < x
      /\ \A i, j \in 1 .. Len(codex.inbox)' : i < j => codex'.inbox[i] < codex'.inbox[j]
  <2>1. \A i, j \in 1 .. Len(codex.inbox) : i < j => codex.inbox[i] < codex.inbox[j]
    BY DEF Inv, InOrder
  <2>2. ASSUME NEW i \in 1 .. Len(codex.inbox)'
        PROVE  /\ i \in Nat /\ i + 1 \in 1 .. Len(codex.inbox) /\ 1 \in 1 .. Len(codex.inbox)
               /\ 1 < i + 1 /\ codex'.inbox[i] = codex.inbox[i + 1]
    BY <1>0, <1>7
  <2>3. \A i, j \in 1 .. Len(codex.inbox)' : i < j => codex'.inbox[i] < codex'.inbox[j]
    <3>1. SUFFICES ASSUME NEW i \in 1 .. Len(codex.inbox)', NEW j \in 1 .. Len(codex.inbox)', i < j
                   PROVE  codex'.inbox[i] < codex'.inbox[j]
      OBVIOUS
    <3>2. i + 1 < j + 1
      BY <2>2, <3>1
    <3>3. QED
      BY <2>1, <2>2, <3>2
  <2>4. \A x \in Steer : Queued(x)' => s < x
    BY <1>0, <2>1, <2>2 DEF Queued
  <2>5. QED
    BY <2>3, <2>4
<1>10. OneByOne' /\ LastKnown' /\ Counts'
  BY <1>1, <1>2, <1>3, <1>6 DEF Inv, OneByOne, LastKnown, Counts, client
<1>11. Unsent'
  BY <1>0, <1>1, <1>2, <1>3, <1>6, <1>8 DEF Inv, Unsent, client
<1>12. InOrder'
  <2>2. \A i, j \in 1 .. Len(pipe)', t, x \in Steer :
          i < j /\ Unread("taken", x, i)' /\ Unread("taken", t, j)' => x < t
    BY <1>0, <1>2, <1>6, <1>8 DEF Inv, InOrder
  <2>3. \A i \in 1 .. Len(pipe)', t, x \in Steer : Unread("taken", x, i)' /\ Queued(t)' => x < t
    BY <1>2, <1>6, <1>8, <1>9 DEF Inv, InOrder
  <2>4. \A i \in 1 .. Len(pipe)', t, x \in Steer : seen.taken[x] # 0 /\ Unread("taken", t, i)' => x < t
    BY <1>0, <1>2, <1>6, <1>8 DEF Inv, InOrder
  <2>5. \A t, x \in Steer : seen.taken[x] # 0 /\ Queued(t)' => x < t
    BY <1>8 DEF Inv, InOrder
  <2>6. QED
    BY <1>1, <1>9, <2>2, <2>3, <2>4, <2>5 DEF Inv, InOrder, client
<1>13. Announced'
  BY <1>1, <1>2, <1>3, <1>6 DEF Inv, Announced, client
<1>14. Runs'
  BY <1>1, <1>2, <1>3, <1>6 DEF Inv, Runs, client
<1>15. Delivered'
  <2>1. \A x \in Steer : Promised(x)' => Promised(x)
    BY <1>1, <1>2, <1>3, <1>6 DEF Promised, client
  <2>2. \E j \in 1 .. Len(pipe)' : Unread("taken", s, j)'
    <3>1. Len(pipe) + 1 \in 1 .. Len(pipe)'
      BY <1>2
    <3>2. QED
      BY <1>2, <3>1
  <2>3. \A x \in Steer, i \in 1 .. Len(pipe) :
          Unread("taken", x, i) => i \in 1 .. Len(pipe)' /\ Unread("taken", x, i)'
    BY <1>2
  <2>4. \A of, i : Unread("completed", of, i)' <=> Unread("completed", of, i)
    BY <1>2
  <2>5. QED
    BY <1>1, <1>3, <1>6, <1>8, <2>1, <2>2, <2>3, <2>4 DEF Inv, Delivered, client
<1>16. QED
  BY <1>5, <1>10, <1>11, <1>12, <1>13, <1>14, <1>15 DEF Inv

LEMMA CodexEndsInv ==
  ASSUME ConstantsOK, Inv, NEW result \in {"completed", "failed"}, CodexEnds(result)
  PROVE  Inv'
<1> DEFINE n == codex.run
<1> DEFINE line == [kind |-> result, of |-> n]
<1>1. /\ n \in Run /\ line \in Line /\ Write(line) /\ UNCHANGED client
      /\ line.kind = result /\ line.of = n
      /\ result = "completed" => codex.inbox = <<>>
  BY DEF CodexEnds, Line, Inv, TypeOK, Run
<1>2. /\ pipe' \in Seq(Line) /\ Len(pipe') = Len(pipe) + 1 /\ Len(pipe) \in Nat
      /\ \A kind, of, i : Unread(kind, of, i)' <=>
           \/ Unread(kind, of, i)
           \/ i = Len(pipe) + 1 /\ kind = result /\ of = n
  BY <1>1, WriteFacts DEF Inv, TypeOK
<1> HIDE DEF line
<1>3. /\ codex'.run = 0 /\ codex'.inbox = <<>> /\ codex'.acks = codex.acks
      /\ codex'.of = codex.of
  BY DEF CodexEnds, Inv, TypeOK
<1>4. codex' \in [run : 0 .. MaxRuns, of : [Tool -> 0 .. MaxRuns], open : SUBSET Tool,
                  inbox : Seq(Steer), acks : SUBSET Steer]
  <2>1. <<>> \in Seq(Steer) /\ 0 \in 0 .. MaxRuns
    BY DEF ConstantsOK
  <2>2. QED
    BY <2>1 DEF CodexEnds, Inv, TypeOK
<1>5. TypeOK'
  BY <1>1, <1>2, <1>4 DEF Inv, TypeOK, client
<1>6. \A i, kind, of : Unread(kind, of, i) => i \in 1 .. Len(pipe)
  BY DEF Unread
<1>7. \A x : ~ Queued(x)'
  BY <1>3 DEF Queued
<1>8. OneByOne' /\ LastKnown' /\ Counts'
  BY <1>1, <1>2, <1>3, <1>6 DEF Inv, OneByOne, LastKnown, Counts, client
<1>9. Unsent'
  BY <1>1, <1>2, <1>3, <1>6, <1>7 DEF Inv, Unsent, client
<1>10. InOrder'
  <2>1. \A of, i : Unread("taken", of, i)' <=> Unread("taken", of, i)
    BY <1>2
  <2>2. Len(codex.inbox)' = 0
    BY <1>3
  <2>3. QED
    BY <1>1, <1>6, <1>7, <2>1, <2>2 DEF Inv, InOrder, client
<1>11. Announced'
  BY <1>1, <1>2, <1>3, <1>6 DEF Inv, Announced, client
<1>12. Runs'
  <2>1. turn.run \in 0 .. MaxRuns /\ n <= turn.run
    BY DEF Inv, TypeOK, Runs
  <2>2. \A m \in Run : turn.run < m \/ codex'.run = m =>
          /\ run[m].ended = "no"
          /\ \A i \in 1 .. Len(pipe)' : ~ Unread("completed", m, i)' /\ ~ Unread("failed", m, i)'
    <3>1. \A m \in Run : turn.run < m \/ codex'.run = m => m # n /\ turn.run < m
      BY <1>1, <1>3, <2>1 DEF Run
    <3>2. QED
      BY <1>2, <1>6, <3>1 DEF Inv, Runs
  <2>3. QED
    BY <1>1, <1>3, <2>1, <2>2 DEF Inv, Runs, client
<1>13. Delivered'
  <2>1. \A x \in Steer : Promised(x)' => Promised(x)
    BY <1>1, <1>2, <1>3, <1>6 DEF Promised, client
  <2>2. \A of, i : Unread("taken", of, i)' <=> Unread("taken", of, i)
    BY <1>2
  <2>3. ASSUME NEW x \in Steer, Promised(x)', steer[x].run # 0, NEW i \in 1 .. Len(pipe)',
               Unread("completed", steer[x].run, i)'
        PROVE  seen.taken[x] # 0 \/ \E j \in 1 .. Len(pipe)' : j < i /\ Unread("taken", x, j)'
    <3>1. CASE Unread("completed", steer[x].run, i)
      BY <1>2, <1>6, <2>1, <2>2, <2>3, <3>1 DEF Inv, Delivered
    <3>2. CASE i = Len(pipe) + 1 /\ result = "completed" /\ steer[x].run = n
      <4>1. ~ Queued(x)
        BY <1>1, <3>2 DEF Queued
      <4>2. seen.taken[x] # 0 \/ \E j \in 1 .. Len(pipe) : Unread("taken", x, j)
        BY <2>1, <2>3, <3>2, <4>1 DEF Inv, Delivered
      <4>3. QED
        BY <1>2, <2>2, <3>2, <4>2
    <3>3. steer' = steer
      BY <1>1 DEF client
    <3>4. QED
      BY <1>2, <2>3, <3>1, <3>2, <3>3
  <2>4. QED
    BY <1>1, <1>3, <2>1, <2>3 DEF Inv, Delivered, client
<1>14. QED
  BY <1>5, <1>8, <1>9, <1>10, <1>11, <1>12, <1>13 DEF Inv

-----------------------------------------------------------------------------
(* Reading keeps what is said of the lines that remain.                    *)

LEMMA ReadKeepsOrder ==
  ASSUME Inv, NEW kind, Reads(kind), kind # "taken", codex' = codex, seen'.taken = seen.taken,
         eventSequence' \in Nat, eventSequence <= eventSequence'
  PROVE  InOrder'
<1>1. /\ \A k, of, i : Unread(k, of, i)' <=> i \in Nat \ {0} /\ Unread(k, of, i + 1)
      /\ Len(pipe') = Len(pipe) - 1
  BY ReadFacts DEF Inv, TypeOK
<1>2. \A i, k, of : Unread(k, of, i) => i \in 1 .. Len(pipe)
  BY DEF Unread
<1>3. \A i, j \in 1 .. Len(pipe)', s, x \in Steer :
        i < j /\ Unread("taken", x, i)' /\ Unread("taken", s, j)' => x < s
  <2>1. SUFFICES ASSUME NEW i \in 1 .. Len(pipe)', NEW j \in 1 .. Len(pipe)', NEW s \in Steer,
                        NEW x \in Steer,
                        i < j, Unread("taken", x, i)', Unread("taken", s, j)'
                 PROVE  x < s
    OBVIOUS
  <2>2. i + 1 < j + 1 /\ Unread("taken", x, i + 1) /\ Unread("taken", s, j + 1)
    BY <1>1, <2>1
  <2>3. QED
    BY <1>2, <2>2 DEF Inv, InOrder
<1>4. \A i \in 1 .. Len(pipe)', s, x \in Steer : Unread("taken", x, i)' /\ Queued(s) => x < s
  BY <1>1, <1>2 DEF Inv, InOrder
<1>5. \A i \in 1 .. Len(pipe)', s, x \in Steer :
        seen.taken[x] # 0 /\ Unread("taken", s, i)' => x < s
  BY <1>1, <1>2 DEF Inv, InOrder
<1>6. \A s \in Steer : seen.taken[s] \in Nat
  BY DEF Inv, TypeOK
<1>7. eventSequence \in Nat /\ \A s \in Steer : seen.taken[s] <= eventSequence'
  BY <1>6 DEF Inv, TypeOK, InOrder
<1>8. QED
  BY <1>3, <1>4, <1>5, <1>7 DEF Inv, InOrder, Queued

LEMMA ReadKeepsCalls ==
  ASSUME Inv, NEW kind, Reads(kind), kind # "tool_started", codex' = codex,
         seen'.started = seen.started
  PROVE  Announced'
<1>1. /\ \A k, of, i : Unread(k, of, i)' <=> i \in Nat \ {0} /\ Unread(k, of, i + 1)
      /\ Len(pipe') = Len(pipe) - 1
  BY ReadFacts DEF Inv, TypeOK
<1>2. \A i, k, of : Unread(k, of, i) => i \in 1 .. Len(pipe)
  BY DEF Unread
<1>3. SUFFICES ASSUME NEW k \in Tool, NEW i \in 1 .. Len(pipe)', NEW j \in 1 .. Len(pipe)',
                      Unread("tool_started", k, i)', Unread("tool_started", k, j)'
               PROVE  codex.of[k] # 0 /\ seen.started[k] = 0 /\ i = j
  BY DEF Inv, Announced
<1>4. Unread("tool_started", k, i + 1) /\ Unread("tool_started", k, j + 1)
  BY <1>1, <1>3
<1>5. codex.of[k] # 0 /\ seen.started[k] = 0 /\ i + 1 = j + 1
  BY <1>2, <1>4 DEF Inv, Announced
<1>6. QED
  BY <1>5

LEMMA ReadKeepsUnsent ==
  ASSUME Inv, NEW kind, Reads(kind), codex' = codex, seen'.taken = seen.taken,
         \A s \in Steer : steer'[s].at \in {"new", "staging"} => steer[s].at \in {"new", "staging"}
  PROVE  Unsent'
<1>1. /\ \A k, of, i : Unread(k, of, i)' <=> i \in Nat \ {0} /\ Unread(k, of, i + 1)
      /\ Len(pipe') = Len(pipe) - 1
  BY ReadFacts DEF Inv, TypeOK
<1>2. \A i, k, of : Unread(k, of, i) => i \in 1 .. Len(pipe)
  BY DEF Unread
<1>3. QED
  BY <1>1, <1>2 DEF Inv, Unsent, Queued

LEMMA ReadKeepsDelivered ==
  ASSUME Inv, NEW kind, Reads(kind), kind \notin {"taken", "completed"}, codex' = codex,
         seen'.taken = seen.taken,
         \A s \in Steer : steer'[s].run = steer[s].run /\ (Promised(s)' => Promised(s)),
         \A n \in Run : run'[n].ended = run[n].ended
  PROVE  Delivered'
<1>1. /\ \A k, of, i : Unread(k, of, i)' <=> i \in Nat \ {0} /\ Unread(k, of, i + 1)
      /\ Len(pipe') = Len(pipe) - 1 /\ Len(pipe) \in Nat \ {0}
      /\ \A k, of : Unread(k, of, 1) => k = kind
  BY ReadFacts DEF Inv, TypeOK
<1>2. \A i, k, of : Unread(k, of, i) => i \in 1 .. Len(pipe)
  BY DEF Unread
<1>3. SUFFICES ASSUME NEW s \in Steer, Promised(s), steer[s].run # 0
               PROVE  /\ codex.run = steer[s].run => \/ Queued(s) \/ seen.taken[s] # 0
                                                     \/ \E i \in 1 .. Len(pipe)' : Unread("taken", s, i)'
                      /\ \A n, i \in Nat : n = steer[s].run /\ Unread("completed", n, i)' =>
                           \/ seen.taken[s] # 0
                           \/ \E j \in 1 .. Len(pipe)' : j < i /\ Unread("taken", s, j)'
                      /\ run[steer[s].run].ended = "completed" => seen.taken[s] # 0
  <2>1. \A x \in Steer : steer[x].run \in 0 .. MaxRuns
    BY DEF Inv, TypeOK
  <2>2. QED
    BY <1>3, <2>1 DEF Delivered, Queued, Run
<1>4. \A i \in 1 .. Len(pipe) : Unread("taken", s, i) =>
        i - 1 \in 1 .. Len(pipe)' /\ Unread("taken", s, i - 1)'
  <2>1. ASSUME NEW i \in 1 .. Len(pipe), Unread("taken", s, i)
        PROVE  \E j \in 1 .. Len(pipe)' : j = i - 1 /\ Unread("taken", s, j)'
    <3>1. i # 1
      BY <1>1, <2>1
    <3>2. i - 1 \in 1 .. Len(pipe)' /\ i - 1 \in Nat \ {0} /\ (i - 1) + 1 = i
      BY <1>1, <3>1
    <3>3. QED
      BY <1>1, <2>1, <3>2
  <2>2. QED
    BY <2>1
<1>5. QED
  BY <1>1, <1>2, <1>3, <1>4 DEF Inv, Delivered

-----------------------------------------------------------------------------
(* The steps that read.                                                    *)

LEMMA ReadStartedInv ==
  ASSUME ConstantsOK, Inv, ReadStarted
  PROVE  Inv'
<1>1. /\ Reads("started") /\ pipe \in Seq(Line)
      /\ UNCHANGED <<steer, pendingSteer, eventSequence, seen, answer, codex>>
  BY DEF ReadStarted, Inv, TypeOK
<1>2. PICK n \in Run : n = Head(pipe).of
  BY <1>1, ReadFacts DEF Line
<1>3. /\ pipe' \in Seq(Line) /\ Len(pipe') = Len(pipe) - 1
      /\ \A k, of, i : Unread(k, of, i)' <=> i \in Nat \ {0} /\ Unread(k, of, i + 1)
  BY <1>1, ReadFacts
<1>4. \A i, k, of : Unread(k, of, i) => i \in 1 .. Len(pipe)
  BY DEF Unread
<1>5. \/ UNCHANGED <<run, turn, thread>>
      \/ /\ turn.at = "starting" /\ run[n].at = "requested" /\ n = turn.run
         /\ run' = [run EXCEPT ![n].at = "acknowledged"]
         /\ turn' = [turn EXCEPT !.at = "running"]
         /\ thread' = [thread EXCEPT !.active = n]
  BY <1>2 DEF ReadStarted, Inv, Runs
<1>6. /\ run \in [Run -> [at : RunAt, ended : {"no", "completed", "failed"}]]
      /\ turn \in [at : TurnAt, run : 0 .. MaxRuns, finishing : BOOLEAN]
      /\ thread \in [active : 0 .. MaxRuns, last : 0 .. MaxSteers, sequence : Nat]
      /\ steer \in [Steer -> [at : SteerAt, run : 0 .. MaxRuns]]
  BY DEF Inv, TypeOK
<1>7. /\ \A m \in Run : run'[m].ended = run[m].ended
      /\ turn'.run = turn.run /\ thread'.last = thread.last
  BY <1>5, <1>6
<1>8. TypeOK'
  <2>1. CASE UNCHANGED <<run, turn, thread>>
    BY <1>1, <1>3, <2>1 DEF Inv, TypeOK
  <2>2. CASE ~ UNCHANGED <<run, turn, thread>>
    <3>1. /\ \A m \in Run : run'[m].at # "requested"
          /\ run' \in [Run -> [at : RunAt, ended : {"no", "completed", "failed"}]]
      <4>1. run' = [run EXCEPT ![n] = [run[n] EXCEPT !.at = "acknowledged"]]
        BY <1>5, <2>2
      <4>2. /\ [run[n] EXCEPT !.at = "acknowledged"] \in [at : RunAt, ended : {"no", "completed", "failed"}]
            /\ [run[n] EXCEPT !.at = "acknowledged"].at = "acknowledged"
        BY <1>2, <1>6 DEF RunAt
      <4>3. \A m \in Run : m # n => run[m].at # "requested"
        BY <1>5, <2>2 DEF Inv, Runs
      <4>4. QED
        BY <1>2, <1>6, <4>1, <4>2, <4>3
    <3>2. /\ turn' \in [at : TurnAt, run : 0 .. MaxRuns, finishing : BOOLEAN]
          /\ thread' \in [active : 0 .. MaxRuns, last : 0 .. MaxSteers, sequence : Nat]
          /\ thread'.active = n /\ n = turn'.run /\ turn'.at = "running"
      BY <1>2, <1>5, <1>6, <2>2 DEF TurnAt, Run
    <3>3. QED
      BY <1>1, <1>3, <3>1, <3>2 DEF Inv, TypeOK
  <2>3. QED
    BY <2>1, <2>2
<1>9. InOrder' /\ Announced' /\ Unsent'
  <2>1. codex' = codex /\ seen' = seen /\ eventSequence' \in Nat /\ eventSequence <= eventSequence'
    BY <1>1 DEF Inv, TypeOK
  <2>2. InOrder'
    BY <1>1, <2>1, ReadKeepsOrder
  <2>3. Announced'
    BY <1>1, <2>1, ReadKeepsCalls
  <2>4. Unsent'
    BY <1>1, <2>1, ReadKeepsUnsent
  <2>5. QED
    BY <2>2, <2>3, <2>4
<1>10. \A s \in Steer : Promised(s)' => Promised(s)
  BY <1>1, <1>3, <1>4 DEF Promised
<1>11. Delivered'
  BY <1>1, <1>7, <1>10, ReadKeepsDelivered
<1>12. OneByOne'
  BY <1>1 DEF Inv, OneByOne
<1>13. Runs'
  <2>1. \A m \in Run : turn.run < m \/ codex.run = m =>
          \A i \in 1 .. Len(pipe)' : ~ Unread("completed", m, i)' /\ ~ Unread("failed", m, i)'
    BY <1>3, <1>4 DEF Inv, Runs
  <2>2. /\ turn'.at # "idle" => turn'.run \in Run
        /\ turn'.at = "running" => thread'.active = turn'.run
    BY <1>2, <1>5, <1>6 DEF Inv, Runs
  <2>3. \A m \in Run : run'[m].at = "requested" => m = turn'.run /\ turn'.at \in {"starting", "failed"}
    <3>1. \A m \in Run : run[m].at = "requested" => m = turn.run /\ turn.at \in {"starting", "failed"}
      BY DEF Inv, Runs
    <3>2. CASE UNCHANGED <<run, turn, thread>>
      BY <3>1, <3>2
    <3>3. CASE /\ turn.at = "starting" /\ run[n].at = "requested" /\ n = turn.run
               /\ run' = [run EXCEPT ![n].at = "acknowledged"]
      <4>1. run'[n].at = "acknowledged" /\ \A m \in Run : m # n => run'[m] = run[m]
        BY <1>6, <3>3
      <4>2. QED
        BY <3>1, <3>3, <4>1
    <3>4. QED
      BY <1>5, <3>2, <3>3
  <2>4. \A x \in Steer : /\ steer[x].run <= turn'.run
                         /\ steer[x].at \in {"sent", "acknowledged"} => steer[x].run # 0
    BY <1>7 DEF Inv, Runs
  <2>5. /\ IF turn'.at = "idle" THEN turn'.run = 0 ELSE turn'.run \in Run
        /\ codex.run <= turn'.run
        /\ \A m \in Run : turn.run < m \/ codex.run = m => run'[m].ended = "no"
    <3>1. turn'.at = "idle" => turn.at = "idle"
      BY <1>5, <1>6
    <3>2. QED
      BY <1>7, <2>2, <3>1 DEF Inv, Runs
  <2>6. QED
    BY <1>1, <1>7, <2>1, <2>2, <2>3, <2>4, <2>5 DEF Runs
<1>14. LastKnown'
  BY <1>1, <1>5, <1>6, <1>7 DEF Inv, LastKnown
<1>15. Counts'
  BY <1>1, <1>5, <1>6, <1>7 DEF Inv, Counts
<1>16. QED
  BY <1>8, <1>9, <1>11, <1>12, <1>13, <1>14, <1>15 DEF Inv

LEMMA ReadAcknowledgementInv ==
  ASSUME ConstantsOK, Inv, ReadAcknowledgement
  PROVE  Inv'
<1>1. /\ Reads("ack") /\ pipe \in Seq(Line)
      /\ UNCHANGED <<turn, thread, pendingSteer, run, eventSequence, seen, answer, codex>>
  BY DEF ReadAcknowledgement, Inv, TypeOK
<1>2. PICK s \in Steer : s = Head(pipe).of /\ Unread("ack", s, 1)
  BY <1>1, ReadFacts DEF Line
<1>3. /\ pipe' \in Seq(Line) /\ Len(pipe') = Len(pipe) - 1
      /\ \A k, of, i : Unread(k, of, i)' <=> i \in Nat \ {0} /\ Unread(k, of, i + 1)
  BY <1>1, ReadFacts
<1>4. \A i, k, of : Unread(k, of, i) => i \in 1 .. Len(pipe)
  BY DEF Unread
<1>5. steer \in [Steer -> [at : SteerAt, run : 0 .. MaxRuns]]
  BY DEF Inv, TypeOK
<1>6. steer' = IF steer[s].at = "sent" THEN [steer EXCEPT ![s].at = "acknowledged"] ELSE steer
  BY <1>2 DEF ReadAcknowledgement
<1>7. /\ steer' \in [Steer -> [at : SteerAt, run : 0 .. MaxRuns]]
      /\ \A x \in Steer : /\ steer'[x].run = steer[x].run
                          /\ \/ steer'[x].at = steer[x].at
                             \/ x = s /\ steer[x].at = "sent" /\ steer'[x].at = "acknowledged"
  BY <1>5, <1>6 DEF SteerAt
<1>8. TypeOK'
  BY <1>1, <1>3, <1>7 DEF Inv, TypeOK
<1>9. InOrder' /\ Announced' /\ Unsent'
  <2>1. codex' = codex /\ seen' = seen /\ eventSequence' \in Nat /\ eventSequence <= eventSequence'
    BY <1>1 DEF Inv, TypeOK
  <2>2. InOrder'
    BY <1>1, <2>1, ReadKeepsOrder
  <2>3. Announced'
    BY <1>1, <2>1, ReadKeepsCalls
  <2>4. Unsent'
    BY <1>1, <1>7, <2>1, ReadKeepsUnsent
  <2>5. QED
    BY <2>2, <2>3, <2>4
<1>10. \A x \in Steer : Promised(x)' => Promised(x)
  BY <1>1, <1>2, <1>3, <1>4, <1>7 DEF Promised
<1>11. Delivered'
  BY <1>1, <1>7, <1>10, ReadKeepsDelivered
<1>12. OneByOne'
  BY <1>7 DEF Inv, OneByOne, InFlight
<1>13. Runs'
  BY <1>1, <1>3, <1>4, <1>7 DEF Inv, Runs
<1>14. LastKnown' /\ Counts'
  <2>1. \A x \in Steer : steer'[x].at = "confirmed" <=> steer[x].at = "confirmed"
    BY <1>7
  <2>2. thread.last # 0 => thread.last \in Steer
    BY DEF Inv, TypeOK, Steer
  <2>3. LastKnown'
    BY <1>1, <1>7, <2>1, <2>2 DEF Inv, LastKnown
  <2>4. Counts'
    BY <1>1, <1>7, <2>1 DEF Inv, Counts
  <2>5. QED
    BY <2>3, <2>4
<1>15. QED
  BY <1>8, <1>9, <1>11, <1>12, <1>13, <1>14 DEF Inv

LEMMA ReadToolStartedInv ==
  ASSUME ConstantsOK, Inv, ReadItem, Reads("tool_started"),
         seen' = [seen EXCEPT !.started[Head(pipe).of] = eventSequence + 1]
  PROVE  Inv'
<1>1. /\ pipe \in Seq(Line) /\ eventSequence' = eventSequence + 1 /\ eventSequence \in Nat
      /\ UNCHANGED <<turn, thread, steer, pendingSteer, run, answer, codex>>
      /\ seen \in [started : [Tool -> Nat], completed : [Tool -> Nat], taken : [Steer -> Nat]]
  BY DEF ReadItem, Inv, TypeOK
<1>2. PICK k \in Tool : k = Head(pipe).of /\ Unread("tool_started", k, 1)
  BY <1>1, ReadFacts DEF Line
<1>3. /\ pipe' \in Seq(Line) /\ Len(pipe') = Len(pipe) - 1 /\ Len(pipe) \in Nat \ {0}
      /\ \A kind, of, i : Unread(kind, of, i)' <=> i \in Nat \ {0} /\ Unread(kind, of, i + 1)
  BY <1>1, ReadFacts
<1>4. \A i, kind, of : Unread(kind, of, i) => i \in 1 .. Len(pipe)
  BY DEF Unread
<1>5. /\ seen' \in [started : [Tool -> Nat], completed : [Tool -> Nat], taken : [Steer -> Nat]]
      /\ seen'.taken = seen.taken
      /\ seen'.started = [seen.started EXCEPT ![k] = eventSequence + 1]
  <2>1. [seen.started EXCEPT ![k] = eventSequence + 1] \in [Tool -> Nat]
    BY <1>1
  <2>2. seen' = [seen EXCEPT !.started = [seen.started EXCEPT ![k] = eventSequence + 1]]
    BY <1>2
  <2>3. QED
    BY <1>1, <2>1, <2>2
<1>6. TypeOK'
  <2>1. eventSequence' \in Nat
    BY <1>1
  <2>2. UNCHANGED <<turn, thread, steer, pendingSteer, run, answer, codex>>
    BY <1>1
  <2>3. QED
    BY <1>3, <1>5, <2>1, <2>2 DEF Inv, TypeOK
<1>7. InOrder' /\ Unsent'
  <2>1. /\ codex' = codex /\ steer' = steer
        /\ eventSequence' \in Nat /\ eventSequence <= eventSequence'
    BY <1>1
  <2>2. InOrder'
    BY <1>5, <2>1, ReadKeepsOrder
  <2>3. Unsent'
    BY <1>5, <2>1, ReadKeepsUnsent
  <2>4. QED
    BY <2>2, <2>3
<1>8. codex.of[k] # 0 /\ seen.started[k] = 0
  BY <1>2, <1>4 DEF Inv, Announced
<1>9. Announced'
  <2>1. SUFFICES ASSUME NEW t \in Tool
                 PROVE  /\ codex.of[t] = 0 => seen'.started[t] = 0
                        /\ \A i, j \in 1 .. Len(pipe)' :
                             Unread("tool_started", t, i)' =>
                               /\ codex.of[t] # 0 /\ seen'.started[t] = 0
                               /\ Unread("tool_started", t, j)' => i = j
    BY <1>1, <1>3 DEF Announced
  <2>2. CASE t = k
    <3>1. ASSUME NEW i \in 1 .. Len(pipe)', Unread("tool_started", t, i)'
          PROVE  FALSE
      <4>1. Unread("tool_started", t, i + 1) /\ i + 1 # 1
        BY <1>3, <3>1
      <4>2. QED
        BY <1>2, <1>4, <2>2, <4>1 DEF Inv, Announced
    <3>2. QED
      BY <1>8, <2>2, <3>1
  <2>3. CASE t # k
    <3>1. seen'.started[t] = seen.started[t]
      BY <1>1, <1>5, <2>3
    <3>2. ASSUME NEW i \in 1 .. Len(pipe)', Unread("tool_started", t, i)'
          PROVE  /\ codex.of[t] # 0 /\ seen.started[t] = 0
                 /\ \A j \in 1 .. Len(pipe)' : Unread("tool_started", t, j)' => i = j
      <4>1. Unread("tool_started", t, i + 1)
        BY <1>3, <3>2
      <4>2. ASSUME NEW j \in 1 .. Len(pipe)', Unread("tool_started", t, j)'
            PROVE  i = j
        <5>1. Unread("tool_started", t, j + 1)
          BY <1>3, <4>2
        <5>2. i + 1 = j + 1
          BY <1>4, <4>1, <5>1 DEF Inv, Announced
        <5>3. QED
          BY <1>3, <5>2
      <4>3. QED
        BY <1>4, <4>1, <4>2 DEF Inv, Announced
    <3>3. QED
      BY <3>1, <3>2 DEF Inv, Announced
  <2>4. QED
    BY <2>2, <2>3
<1>10. \A s \in Steer : Promised(s)' => Promised(s)
  BY <1>1, <1>3, <1>4 DEF Promised
<1>11. Delivered'
  <2>1. codex' = codex /\ \A s \in Steer : steer'[s].run = steer[s].run
    BY <1>1
  <2>2. \A n \in Run : run'[n].ended = run[n].ended
    BY <1>1
  <2>3. QED
    BY <1>5, <1>10, <2>1, <2>2, ReadKeepsDelivered
<1>12. OneByOne' /\ LastKnown'
  BY <1>1 DEF Inv, OneByOne, LastKnown
<1>13. Runs'
  BY <1>1, <1>3, <1>4 DEF Inv, Runs
<1>14. Counts'
  <2>1. \A n \in Run : answer[n] \subseteq Tool /\ k \notin answer[n]
    BY <1>8 DEF Inv, TypeOK, Counts
  <2>2. \A n \in Run : \A t \in answer[n] : seen'.started[t] = seen.started[t]
    BY <1>1, <1>5, <2>1
  <2>3. QED
    BY <1>1, <1>5, <2>2 DEF Inv, Counts
<1>15. QED
  BY <1>6, <1>7, <1>9, <1>11, <1>12, <1>13, <1>14 DEF Inv

LEMMA ReadToolCompletedInv ==
  ASSUME ConstantsOK, Inv, ReadItem, Reads("tool_completed"),
         seen' = [seen EXCEPT !.completed[Head(pipe).of] = eventSequence + 1]
  PROVE  Inv'
<1>1. /\ pipe \in Seq(Line) /\ eventSequence' = eventSequence + 1 /\ eventSequence \in Nat
      /\ UNCHANGED <<turn, thread, steer, pendingSteer, run, answer, codex>>
      /\ seen \in [started : [Tool -> Nat], completed : [Tool -> Nat], taken : [Steer -> Nat]]
  BY DEF ReadItem, Inv, TypeOK
<1>2. /\ pipe' \in Seq(Line) /\ Len(pipe') = Len(pipe) - 1 /\ Len(pipe) \in Nat \ {0}
      /\ \A kind, of, i : Unread(kind, of, i)' <=> i \in Nat \ {0} /\ Unread(kind, of, i + 1)
  BY <1>1, ReadFacts
<1>3. \A i, kind, of : Unread(kind, of, i) => i \in 1 .. Len(pipe)
  BY DEF Unread
<1>4. /\ seen' \in [started : [Tool -> Nat], completed : [Tool -> Nat], taken : [Steer -> Nat]]
      /\ seen'.taken = seen.taken /\ seen'.started = seen.started
  <2>1. PICK k \in Tool : k = Head(pipe).of
    BY <1>1, ReadFacts DEF Line
  <2>2. [seen.completed EXCEPT ![k] = eventSequence + 1] \in [Tool -> Nat]
    BY <1>1
  <2>3. seen' = [seen EXCEPT !.completed = [seen.completed EXCEPT ![k] = eventSequence + 1]]
    BY <2>1
  <2>4. QED
    BY <1>1, <2>2, <2>3
<1>5. TypeOK'
  <2>1. eventSequence' \in Nat
    BY <1>1
  <2>2. UNCHANGED <<turn, thread, steer, pendingSteer, run, answer, codex>>
    BY <1>1
  <2>3. QED
    BY <1>2, <1>4, <2>1, <2>2 DEF Inv, TypeOK
<1>6. InOrder' /\ Announced' /\ Unsent'
  <2>1. /\ codex' = codex /\ steer' = steer
        /\ eventSequence' \in Nat /\ eventSequence <= eventSequence'
    BY <1>1
  <2>2. InOrder'
    BY <1>4, <2>1, ReadKeepsOrder
  <2>3. Announced'
    BY <1>4, <2>1, ReadKeepsCalls
  <2>4. Unsent'
    BY <1>4, <2>1, ReadKeepsUnsent
  <2>5. QED
    BY <2>2, <2>3, <2>4
<1>7. \A s \in Steer : Promised(s)' => Promised(s)
  BY <1>1, <1>2, <1>3 DEF Promised
<1>8. Delivered'
  <2>1. codex' = codex /\ \A s \in Steer : steer'[s].run = steer[s].run
    BY <1>1
  <2>2. \A n \in Run : run'[n].ended = run[n].ended
    BY <1>1
  <2>3. QED
    BY <1>4, <1>7, <2>1, <2>2, ReadKeepsDelivered
<1>9. OneByOne' /\ LastKnown'
  BY <1>1 DEF Inv, OneByOne, LastKnown
<1>10. Runs'
  BY <1>1, <1>2, <1>3 DEF Inv, Runs
<1>11. Counts'
  BY <1>1, <1>4 DEF Inv, Counts
<1>12. QED
  BY <1>5, <1>6, <1>8, <1>9, <1>10, <1>11 DEF Inv

LEMMA ReadTakenInv ==
  ASSUME ConstantsOK, Inv, ReadItem, Reads("taken"),
         seen' = [seen EXCEPT !.taken[Head(pipe).of] = eventSequence + 1]
  PROVE  Inv'
<1>1. /\ pipe \in Seq(Line) /\ eventSequence' = eventSequence + 1 /\ eventSequence \in Nat
      /\ UNCHANGED <<turn, thread, steer, pendingSteer, run, answer, codex>>
      /\ seen \in [started : [Tool -> Nat], completed : [Tool -> Nat], taken : [Steer -> Nat]]
  BY DEF ReadItem, Inv, TypeOK
<1>2. PICK s \in Steer : s = Head(pipe).of /\ Unread("taken", s, 1)
  BY <1>1, ReadFacts DEF Line
<1>3. /\ pipe' \in Seq(Line) /\ Len(pipe') = Len(pipe) - 1 /\ Len(pipe) \in Nat \ {0}
      /\ \A kind, of, i : Unread(kind, of, i)' <=> i \in Nat \ {0} /\ Unread(kind, of, i + 1)
      /\ \A kind, of : Unread(kind, of, 1) => kind = "taken" /\ of = s
  BY <1>1, <1>2, ReadFacts
<1>4. \A i, kind, of : Unread(kind, of, i) => i \in 1 .. Len(pipe)
  BY DEF Unread
<1>5. /\ seen' \in [started : [Tool -> Nat], completed : [Tool -> Nat], taken : [Steer -> Nat]]
      /\ seen'.taken = [seen.taken EXCEPT ![s] = eventSequence + 1]
      /\ seen'.started = seen.started
  <2>1. [seen.taken EXCEPT ![s] = eventSequence + 1] \in [Steer -> Nat]
    BY <1>1
  <2>2. seen' = [seen EXCEPT !.taken = [seen.taken EXCEPT ![s] = eventSequence + 1]]
    BY <1>2
  <2>3. QED
    BY <1>1, <2>1, <2>2
<1>6. /\ \A x \in Steer : x # s => seen'.taken[x] = seen.taken[x]
      /\ seen'.taken[s] = eventSequence + 1 /\ seen.taken[s] = 0
      /\ \A x \in Steer : seen.taken[x] \in Nat /\ (seen.taken[x] # 0 => x < s)
      /\ \A x \in Steer : seen.taken[x] # 0 => seen'.taken[x] # 0
  <2>1. \A x \in Steer : seen.taken[x] # 0 => x < s
    BY <1>2, <1>4 DEF Inv, InOrder
  <2>2. seen.taken[s] = 0
    BY <2>1 DEF Steer
  <2>3. QED
    BY <1>1, <1>5, <2>1, <2>2
<1>7. TypeOK'
  <2>1. eventSequence' \in Nat
    BY <1>1
  <2>2. UNCHANGED <<turn, thread, steer, pendingSteer, run, answer, codex>>
    BY <1>1
  <2>3. QED
    BY <1>3, <1>5, <2>1, <2>2 DEF Inv, TypeOK
<1>8. Announced'
  <2>1. codex' = codex
    BY <1>1
  <2>2. QED
    BY <1>5, <2>1, ReadKeepsCalls
<1>9. \A i \in 1 .. Len(pipe)', x \in Steer : Unread("taken", x, i)' => s < x
  <2>1. ASSUME NEW i \in 1 .. Len(pipe)', NEW x \in Steer, Unread("taken", x, i)'
        PROVE  s < x
    <3>1. Unread("taken", x, i + 1) /\ 1 < i + 1
      BY <1>3, <2>1
    <3>2. QED
      BY <1>2, <1>4, <3>1 DEF Inv, InOrder
  <2>2. QED
    BY <2>1
<1>10. \A x \in Steer : Queued(x) => s < x
  BY <1>2, <1>4 DEF Inv, InOrder
<1>11. InOrder'
  <2>1. \A i, j \in 1 .. Len(pipe)', t, x \in Steer :
          i < j /\ Unread("taken", x, i)' /\ Unread("taken", t, j)' => x < t
    <3>1. SUFFICES ASSUME NEW i \in 1 .. Len(pipe)', NEW j \in 1 .. Len(pipe)', NEW t \in Steer,
                          NEW x \in Steer,
                          i < j, Unread("taken", x, i)', Unread("taken", t, j)'
                   PROVE  x < t
      OBVIOUS
    <3>2. i + 1 < j + 1 /\ Unread("taken", x, i + 1) /\ Unread("taken", t, j + 1)
      BY <1>3, <3>1
    <3>3. QED
      BY <1>4, <3>2 DEF Inv, InOrder
  <2>2. \A i \in 1 .. Len(pipe)', t, x \in Steer : Unread("taken", x, i)' /\ Queued(t) => x < t
    BY <1>3, <1>4 DEF Inv, InOrder
  <2>3. \A i \in 1 .. Len(pipe)', t, x \in Steer :
          seen'.taken[x] # 0 /\ Unread("taken", t, i)' => x < t
    <3>1. \A i \in 1 .. Len(pipe)', t, x \in Steer :
            seen.taken[x] # 0 /\ Unread("taken", t, i)' => x < t
      BY <1>3, <1>4 DEF Inv, InOrder
    <3>2. QED
      BY <1>6, <1>9, <3>1
  <2>4. \A t, x \in Steer : seen'.taken[x] # 0 /\ Queued(t) => x < t
    BY <1>6, <1>10 DEF Inv, InOrder
  <2>5. \A x \in Steer : seen.taken[x] <= eventSequence
    BY DEF Inv, InOrder
  <2>6. \A t, x \in Steer :
          x < t /\ seen'.taken[x] # 0 /\ seen'.taken[t] # 0 => seen'.taken[x] < seen'.taken[t]
    <3>1. SUFFICES ASSUME NEW t \in Steer, NEW x \in Steer,
                          x < t, seen'.taken[x] # 0, seen'.taken[t] # 0
                   PROVE  seen'.taken[x] < seen'.taken[t]
      OBVIOUS
    <3>2. CASE t = s
      BY <1>1, <1>6, <2>5, <3>1, <3>2 DEF Steer
    <3>3. CASE t # s
      <4>1. t < s /\ x # s
        BY <1>6, <3>1, <3>3 DEF Steer
      <4>2. QED
        BY <1>6, <3>1, <3>3, <4>1 DEF Inv, InOrder
    <3>4. QED
      BY <3>2, <3>3
  <2>7. \A x \in Steer : seen'.taken[x] <= eventSequence'
    BY <1>1, <1>6, <2>5
  <2>8. QED
    BY <1>1, <2>1, <2>2, <2>3, <2>4, <2>6, <2>7 DEF Inv, InOrder, Queued
<1>12. Unsent'
  <2>1. steer[s].at \notin {"new", "staging"}
    BY <1>2, <1>4 DEF Inv, Unsent
  <2>2. QED
    BY <1>1, <1>3, <1>4, <1>6, <2>1 DEF Inv, Unsent, Queued
<1>13. \A x \in Steer : Promised(x)' => Promised(x)
  BY <1>1, <1>3, <1>4 DEF Promised
<1>14. Delivered'
  <2>1. SUFFICES ASSUME NEW x \in Steer, Promised(x), steer[x].run # 0
                 PROVE  /\ codex.run = steer[x].run =>
                             \/ Queued(x) \/ seen'.taken[x] # 0
                             \/ \E i \in 1 .. Len(pipe)' : Unread("taken", x, i)'
                        /\ \A n, i \in Nat : n = steer[x].run /\ Unread("completed", n, i)' =>
                             \/ seen'.taken[x] # 0
                             \/ \E j \in 1 .. Len(pipe)' : j < i /\ Unread("taken", x, j)'
                        /\ run[steer[x].run].ended = "completed" => seen'.taken[x] # 0
    <3>1. \A t \in Steer : steer[t].run \in 0 .. MaxRuns
      BY DEF Inv, TypeOK
    <3>2. QED
      BY <1>1, <1>13, <2>1, <3>1 DEF Delivered, Queued, Run
  <2>2. CASE x = s
    BY <1>1, <1>6, <2>2
  <2>3. CASE x # s
    <3>1. \A i \in 1 .. Len(pipe) : Unread("taken", x, i) =>
            \E j \in 1 .. Len(pipe)' : j = i - 1 /\ Unread("taken", x, j)'
      <4>1. ASSUME NEW i \in 1 .. Len(pipe), Unread("taken", x, i)
            PROVE  \E j \in 1 .. Len(pipe)' : j = i - 1 /\ Unread("taken", x, j)'
        <5>1. i # 1
          BY <1>3, <2>3, <4>1
        <5>2. i - 1 \in 1 .. Len(pipe)' /\ i - 1 \in Nat \ {0} /\ (i - 1) + 1 = i
          BY <1>3, <5>1
        <5>3. QED
          BY <1>3, <4>1, <5>2
      <4>2. QED
        BY <4>1
    <3>2. seen'.taken[x] = seen.taken[x]
      BY <1>6, <2>3
    <3>3. QED
      BY <1>3, <1>4, <2>1, <3>1, <3>2 DEF Inv, Delivered
  <2>4. QED
    BY <2>2, <2>3
<1>15. OneByOne' /\ LastKnown'
  BY <1>1 DEF Inv, OneByOne, LastKnown
<1>16. Runs'
  BY <1>1, <1>3, <1>4 DEF Inv, Runs
<1>17. Counts'
  <2>1. \A n \in Run, x \in Steer : \A t \in answer[n] :
          steer[x].at = "confirmed" /\ steer[x].run = n => x # s
    BY <1>6 DEF Inv, Counts
  <2>2. QED
    BY <1>1, <1>5, <1>6, <2>1 DEF Inv, Counts
<1>18. QED
  BY <1>7, <1>8, <1>11, <1>12, <1>14, <1>15, <1>16, <1>17 DEF Inv

LEMMA ReadEndInv ==
  ASSUME ConstantsOK, Inv, NEW result \in {"completed", "failed"}, Reads(result),
         run' = [run EXCEPT ![Head(pipe).of].ended = result],
         eventSequence' = eventSequence + 1,
         UNCHANGED <<turn, thread, steer, pendingSteer, seen, answer, codex>>
  PROVE  Inv'
<1>1. /\ pipe \in Seq(Line) /\ eventSequence \in Nat
      /\ run \in [Run -> [at : RunAt, ended : {"no", "completed", "failed"}]]
  BY DEF Inv, TypeOK
<1>2. PICK n \in Run : n = Head(pipe).of /\ Unread(result, n, 1)
  BY <1>1, ReadFacts DEF Line
<1>3. /\ pipe' \in Seq(Line) /\ Len(pipe') = Len(pipe) - 1 /\ Len(pipe) \in Nat \ {0}
      /\ \A kind, of, i : Unread(kind, of, i)' <=> i \in Nat \ {0} /\ Unread(kind, of, i + 1)
      /\ \A kind, of : Unread(kind, of, 1) => kind = result /\ of = n
  BY <1>1, <1>2, ReadFacts
<1>4. \A i, kind, of : Unread(kind, of, i) => i \in 1 .. Len(pipe)
  BY DEF Unread
<1>5. /\ run' = [run EXCEPT ![n] = [run[n] EXCEPT !.ended = result]]
      /\ [run[n] EXCEPT !.ended = result] \in [at : RunAt, ended : {"no", "completed", "failed"}]
      /\ [run[n] EXCEPT !.ended = result].at = run[n].at
      /\ [run[n] EXCEPT !.ended = result].ended = result
  BY <1>1, <1>2
<1>6. /\ run' \in [Run -> [at : RunAt, ended : {"no", "completed", "failed"}]]
      /\ \A m \in Run : run'[m].at = run[m].at /\ (m # n => run'[m] = run[m])
      /\ run'[n].ended = result
  BY <1>1, <1>2, <1>5
<1>7. TypeOK'
  BY <1>1, <1>3, <1>6 DEF Inv, TypeOK
<1>8. InOrder' /\ Announced' /\ Unsent'
  <2>1. /\ codex' = codex /\ steer' = steer /\ seen' = seen /\ result # "taken" /\ result # "tool_started"
        /\ eventSequence' \in Nat /\ eventSequence <= eventSequence'
    BY <1>1
  <2>2. InOrder'
    BY <2>1, ReadKeepsOrder
  <2>3. Announced'
    BY <2>1, ReadKeepsCalls
  <2>4. Unsent'
    BY <2>1, ReadKeepsUnsent
  <2>5. QED
    BY <2>2, <2>3, <2>4
<1>9. OneByOne' /\ LastKnown' /\ Counts'
  BY DEF Inv, OneByOne, LastKnown, Counts
<1>10. Runs'
  <2>1. ~ (turn.run < n \/ codex.run = n)
    BY <1>2, <1>4 DEF Inv, Runs
  <2>2. \A m \in Run : turn.run < m \/ codex.run = m =>
          /\ run'[m].ended = "no"
          /\ \A i \in 1 .. Len(pipe)' : ~ Unread("completed", m, i)' /\ ~ Unread("failed", m, i)'
    BY <1>3, <1>4, <1>6, <2>1 DEF Inv, Runs
  <2>3. QED
    BY <1>6, <2>2 DEF Inv, Runs
<1>11. \A x \in Steer : Promised(x)' => Promised(x)
  BY <1>3, <1>4 DEF Promised
<1>12. Delivered'
  <2>1. SUFFICES ASSUME NEW x \in Steer, Promised(x), steer[x].run # 0
                 PROVE  /\ codex.run = steer[x].run =>
                             \/ Queued(x) \/ seen.taken[x] # 0
                             \/ \E i \in 1 .. Len(pipe)' : Unread("taken", x, i)'
                        /\ \A m, i \in Nat : m = steer[x].run /\ Unread("completed", m, i)' =>
                             \/ seen.taken[x] # 0
                             \/ \E j \in 1 .. Len(pipe)' : j < i /\ Unread("taken", x, j)'
                        /\ run'[steer[x].run].ended = "completed" => seen.taken[x] # 0
    <3>1. \A t \in Steer : steer[t].run \in 0 .. MaxRuns
      BY DEF Inv, TypeOK
    <3>2. QED
      BY <1>11, <2>1, <3>1 DEF Delivered, Queued, Run
  <2>2. \A i \in 1 .. Len(pipe) : Unread("taken", x, i) =>
          \E j \in 1 .. Len(pipe)' : j = i - 1 /\ Unread("taken", x, j)'
    <3>1. ASSUME NEW i \in 1 .. Len(pipe), Unread("taken", x, i)
          PROVE  \E j \in 1 .. Len(pipe)' : j = i - 1 /\ Unread("taken", x, j)'
      <4>1. i # 1
        BY <1>3, <3>1
      <4>2. i - 1 \in 1 .. Len(pipe)' /\ i - 1 \in Nat \ {0} /\ (i - 1) + 1 = i
        BY <1>3, <4>1
      <4>3. QED
        BY <1>3, <3>1, <4>2
    <3>2. QED
      BY <3>1
  <2>3. run'[steer[x].run].ended = "completed" => seen.taken[x] # 0
    <3>1. steer[x].run \in Run
      BY <2>1 DEF Inv, TypeOK, Run
    <3>2. CASE steer[x].run = n /\ result = "completed"
      BY <1>2, <1>3, <1>4, <2>1, <3>2 DEF Inv, Delivered
    <3>3. CASE steer[x].run # n
      BY <1>6, <2>1, <3>1, <3>3 DEF Inv, Delivered
    <3>4. QED
      BY <1>6, <3>2, <3>3
  <2>4. QED
    BY <1>3, <1>4, <2>1, <2>2, <2>3 DEF Inv, Delivered
<1>13. QED
  BY <1>7, <1>8, <1>9, <1>10, <1>12 DEF Inv

-----------------------------------------------------------------------------
(* The steps of the runs.                                                  *)

LEMMA StartRunInv ==
  ASSUME ConstantsOK, Inv, NEW n \in Run, StartRun(n), n = turn.run + 1,
         turn.at \in {"idle", "settling"},
         turn' \in [at : TurnAt, run : 0 .. MaxRuns, finishing : BOOLEAN],
         turn'.at = "starting", turn'.run = n,
         UNCHANGED <<steer, pendingSteer, eventSequence, seen, answer, pipe>>
  PROVE  Inv'
<1>1. /\ run \in [Run -> [at : RunAt, ended : {"no", "completed", "failed"}]]
      /\ codex \in [run : 0 .. MaxRuns, of : [Tool -> 0 .. MaxRuns], open : SUBSET Tool,
                    inbox : Seq(Steer), acks : SUBSET Steer]
      /\ thread \in [active : 0 .. MaxRuns, last : 0 .. MaxSteers, sequence : Nat]
      /\ turn.run \in 0 .. MaxRuns /\ n \in 0 .. MaxRuns /\ n # 0
      /\ \A s \in Steer : steer[s].run \in 0 .. MaxRuns
  BY DEF Inv, TypeOK, Run
<1>2. /\ codex' \in [run : 0 .. MaxRuns, of : [Tool -> 0 .. MaxRuns], open : SUBSET Tool,
                     inbox : Seq(Steer), acks : SUBSET Steer]
      /\ codex'.run = n /\ codex'.of = codex.of /\ codex'.inbox = codex.inbox
      /\ codex'.acks = codex.acks
  BY <1>1 DEF StartRun
<1>3. /\ thread' \in [active : 0 .. MaxRuns, last : 0 .. MaxSteers, sequence : Nat]
      /\ thread'.active = 0 /\ thread'.last = 0
  <2>1. 0 \in 0 .. MaxSteers /\ 0 \in Nat
    BY DEF ConstantsOK
  <2>2. thread' = [thread EXCEPT !.last = 0, !.sequence = 0] /\ thread.active = 0
    BY DEF StartRun
  <2>3. QED
    BY <1>1, <2>1, <2>2
<1>4. /\ run' = [run EXCEPT ![n] = [run[n] EXCEPT !.at = "requested"]]
      /\ [run[n] EXCEPT !.at = "requested"] \in [at : RunAt, ended : {"no", "completed", "failed"}]
      /\ [run[n] EXCEPT !.at = "requested"].ended = run[n].ended
  BY <1>1 DEF StartRun, RunAt
<1>5. /\ run' \in [Run -> [at : RunAt, ended : {"no", "completed", "failed"}]]
      /\ \A m \in Run : run'[m].ended = run[m].ended /\ (m # n => run'[m] = run[m])
  BY <1>1, <1>4
<1>6. TypeOK'
  BY <1>2, <1>3, <1>5 DEF Inv, TypeOK
<1>7. OneByOne' /\ InOrder' /\ Announced'
  BY <1>2 DEF Inv, OneByOne, InOrder, Announced, Queued, Unread
<1>8. Unsent'
  BY <1>2 DEF Inv, Unsent, Queued, Unread
<1>9. Runs'
  <2>1. /\ codex'.run <= turn'.run
        /\ \A s \in Steer : /\ steer[s].run <= n
                            /\ steer[s].at \in {"sent", "acknowledged"} => steer[s].run # 0
    <3>1. \A s \in Steer : /\ steer[s].run <= turn.run
                           /\ steer[s].at \in {"sent", "acknowledged"} => steer[s].run # 0
      BY DEF Inv, Runs
    <3>2. turn.run \in Nat /\ \A s \in Steer : steer[s].run \in Nat
      BY <1>1 DEF ConstantsOK
    <3>3. \A s \in Steer : steer[s].run <= n
      BY <3>1, <3>2
    <3>4. codex'.run = n /\ turn'.run = n /\ n \in Nat
      BY <1>2, <3>2
    <3>5. codex'.run <= turn'.run
      BY <3>4
    <3>6. QED
      BY <3>1, <3>3, <3>5
  <2>2. \A m \in Run : run'[m].at = "requested" => m = n
    <3>1. \A m \in Run : run[m].at # "requested"
      BY DEF Inv, Runs
    <3>2. QED
      BY <1>5, <3>1
  <2>3. \A m \in Run : n < m \/ codex'.run = m => turn.run < m
    BY <1>1, <1>2 DEF Run
  <2>4. \A m \in Run : n < m \/ codex'.run = m =>
          /\ run'[m].ended = "no"
          /\ \A i \in 1 .. Len(pipe) : ~ Unread("completed", m, i) /\ ~ Unread("failed", m, i)
    BY <1>5, <2>3 DEF Inv, Runs
  <2>5. \A kind, of, i : Unread(kind, of, i)' <=> Unread(kind, of, i)
    BY DEF Unread
  <2>6. /\ turn'.at = "starting" /\ turn'.run = n /\ n \in Run
        /\ steer' = steer /\ pipe' = pipe
    OBVIOUS
  <2>7. QED
    BY <2>1, <2>2, <2>4, <2>5, <2>6 DEF Runs
<1>10. Delivered'
  <2>1. \A s \in Steer : steer[s].run # n
    BY <1>1 DEF Inv, Runs
  <2>2. \A s \in Steer : Promised(s)' <=> Promised(s)
    BY <1>2 DEF Promised, Unread
  <2>3. \A s \in Steer : steer[s].run # 0 => run'[steer[s].run].ended = run[steer[s].run].ended
    BY <1>1, <1>5 DEF Run
  <2>4. QED
    BY <1>2, <2>1, <2>2, <2>3 DEF Inv, Delivered, Unread
<1>11. LastKnown'
  BY <1>1, <1>3 DEF Inv, Runs, LastKnown
<1>12. Counts'
  <2>1. \A m \in Run : answer[m] # {} => m < n
    BY <1>1 DEF Inv, Counts, Run
  <2>2. QED
    BY <2>1 DEF Inv, Counts
<1>13. QED
  BY <1>6, <1>7, <1>8, <1>9, <1>10, <1>11, <1>12 DEF Inv

LEMMA SubmitInv ==
  ASSUME ConstantsOK, Inv, Submit
  PROVE  Inv'
<1>1. /\ turn \in [at : TurnAt, run : 0 .. MaxRuns, finishing : BOOLEAN] /\ 1 \in Run
      /\ turn.run = 0 /\ turn.at = "idle"
  BY DEF Inv, TypeOK, Runs, Submit, ConstantsOK, Run
<1>2. /\ turn' \in [at : TurnAt, run : 0 .. MaxRuns, finishing : BOOLEAN]
      /\ turn'.at = "starting" /\ turn'.run = 1
  <2>1. 1 \in 0 .. MaxRuns /\ "starting" \in TurnAt
    BY <1>1 DEF Run, TurnAt
  <2>2. turn' = [turn EXCEPT !.at = "starting", !.run = 1]
    BY DEF Submit
  <2>3. QED
    BY <1>1, <2>1, <2>2
<1>3. QED
  BY <1>1, <1>2, StartRunInv DEF Submit

\* What holds when the turn goes on or ends while neither Codex nor the pipe nor a steering
\* moves, and no run is asked for.
LEMMA TurnMoves ==
  ASSUME ConstantsOK, Inv,
         UNCHANGED <<steer, pendingSteer, eventSequence, seen, codex, pipe>>,
         turn' \in [at : TurnAt, run : 0 .. MaxRuns, finishing : BOOLEAN],
         turn'.run = turn.run, turn.at # "idle", turn'.at \notin {"idle", "starting", "running"},
         thread' \in [active : 0 .. MaxRuns, last : 0 .. MaxSteers, sequence : Nat],
         thread'.active = 0, thread'.last = thread.last,
         run' \in [Run -> [at : RunAt, ended : {"no", "completed", "failed"}]],
         \A m \in Run : run'[m].ended = run[m].ended,
         \A m \in Run : run'[m].at = "requested" => run[m].at = "requested",
         turn.at \in {"starting", "failed"} => turn'.at = "failed",
         answer' \in [Run -> SUBSET Tool], Counts'
  PROVE  Inv'
<1>1. \A s \in Steer : steer[s].run \in 0 .. MaxRuns
  BY DEF Inv, TypeOK
<1>2. TypeOK'
  BY DEF Inv, TypeOK
<1>3. OneByOne' /\ InOrder' /\ Announced' /\ Unsent'
  BY DEF Inv, OneByOne, InOrder, Announced, Unsent, Queued, Unread
<1>4. Runs'
  <2>1. \A m \in Run : run'[m].at = "requested" => m = turn.run /\ turn'.at = "failed"
    BY DEF Inv, Runs
  <2>2. QED
    BY <2>1 DEF Inv, Runs, Unread
<1>5. Delivered'
  BY <1>1 DEF Inv, Delivered, Promised, Queued, Unread, Run
<1>6. LastKnown'
  BY DEF Inv, LastKnown
<1>7. QED
  BY <1>2, <1>3, <1>4, <1>5, <1>6 DEF Inv

LEMMA StartTimesOutInv ==
  ASSUME ConstantsOK, Inv, StartTimesOut
  PROVE  Inv'
<1>1. /\ turn \in [at : TurnAt, run : 0 .. MaxRuns, finishing : BOOLEAN] /\ turn.run \in Run
      /\ run \in [Run -> [at : RunAt, ended : {"no", "completed", "failed"}]]
      /\ turn.at = "starting" /\ run[turn.run].at = "requested"
      /\ thread \in [active : 0 .. MaxRuns, last : 0 .. MaxSteers, sequence : Nat]
      /\ thread.active = 0 /\ answer \in [Run -> SUBSET Tool]
  BY DEF StartTimesOut, Inv, TypeOK, Runs
<1>2. /\ turn' \in [at : TurnAt, run : 0 .. MaxRuns, finishing : BOOLEAN]
      /\ turn'.at = "failed" /\ turn'.run = turn.run
  BY <1>1 DEF StartTimesOut, TurnAt
<1>3. /\ run' \in [Run -> [at : RunAt, ended : {"no", "completed", "failed"}]]
      /\ \A m \in Run : run'[m].ended = run[m].ended
      /\ \A m \in Run : run'[m].at = "requested" => run[m].at = "requested"
  <2>1. /\ run' = [run EXCEPT ![turn.run] = [run[turn.run] EXCEPT !.at = "lost"]]
        /\ [run[turn.run] EXCEPT !.at = "lost"] \in [at : RunAt, ended : {"no", "completed", "failed"}]
        /\ [run[turn.run] EXCEPT !.at = "lost"].ended = run[turn.run].ended
    BY <1>1 DEF StartTimesOut, RunAt
  <2>2. QED
    BY <1>1, <2>1
<1>4. UNCHANGED <<thread, steer, pendingSteer, eventSequence, seen, answer, codex, pipe>>
  BY DEF StartTimesOut
<1>5. Counts'
  BY <1>1, <1>2, <1>4 DEF Inv, Counts
<1>6. QED
  BY <1>1, <1>2, <1>3, <1>4, <1>5, TurnMoves

\* A run that is over: what Codex promised was taken in, and what counts began after it.
LEMMA RunIsOverInv ==
  ASSUME ConstantsOK, Inv, RunIsOver
  PROVE  Inv'
<1> DEFINE n == turn.run
<1>1. /\ turn \in [at : TurnAt, run : 0 .. MaxRuns, finishing : BOOLEAN] /\ n \in Run
      /\ turn.at = "running" /\ thread.active = n /\ n # 0
      /\ thread \in [active : 0 .. MaxRuns, last : 0 .. MaxSteers, sequence : Nat]
      /\ answer \in [Run -> SUBSET Tool]
      /\ run \in [Run -> [at : RunAt, ended : {"no", "completed", "failed"}]]
      /\ \A s \in Steer : seen.taken[s] \in Nat
      /\ \A k \in Tool : seen.started[k] \in Nat
  BY DEF RunIsOver, Inv, TypeOK, Runs, Run
<1>2. /\ thread' \in [active : 0 .. MaxRuns, last : 0 .. MaxSteers, sequence : Nat]
      /\ thread'.active = 0 /\ thread'.last = thread.last
  <2>1. 0 \in 0 .. MaxRuns /\ thread' = [thread EXCEPT !.active = 0]
    BY DEF RunIsOver, NoneActive, ConstantsOK
  <2>2. QED
    BY <1>1, <2>1
<1>3. UNCHANGED <<steer, pendingSteer, run, eventSequence, seen, codex, pipe>>
  BY DEF RunIsOver
<1>4. CASE run[n].ended = "completed"
  <2>1. /\ turn' \in [at : TurnAt, run : 0 .. MaxRuns, finishing : BOOLEAN]
        /\ turn'.at = "settling" /\ turn'.run = n
        /\ answer' = [answer EXCEPT ![n] = Counted(n)]
    BY <1>1, <1>4 DEF RunIsOver, TurnAt
  <2>2. Counted(n) \subseteq Tool
    BY DEF Counted
  <2>3. ASSUME NEW s \in Steer, steer[s].at = "confirmed", steer[s].run = n, NEW k \in Counted(n)
        PROVE  seen.taken[s] # 0 /\ seen.started[k] > seen.taken[s]
    <3>1. /\ thread.last \in Steer /\ steer[thread.last].at = "confirmed"
          /\ steer[thread.last].run = n /\ thread.last # 0
      BY <1>1, <2>3 DEF Inv, LastKnown, Steer
    <3>2. s <= thread.last
      BY <1>1, <2>3 DEF Inv, LastKnown
    <3>3. \A x \in Steer : steer[x].at = "confirmed" /\ steer[x].run = n => seen.taken[x] # 0
      BY <1>1, <1>4 DEF Inv, Delivered, Promised
    <3>4. seen.taken[s] # 0 /\ seen.taken[thread.last] # 0
      BY <2>3, <3>1, <3>3
    <3>5. seen.taken[s] <= seen.taken[thread.last]
      <4>1. CASE s = thread.last
        BY <1>1, <4>1
      <4>2. CASE s < thread.last
        BY <1>1, <3>1, <3>4, <4>2 DEF Inv, InOrder
      <4>3. QED
        BY <3>1, <3>2, <4>1, <4>2 DEF Steer
    <3>6. k \in Tool /\ seen.started[k] > Boundary
      BY DEF Counted
    <3>7. Boundary = seen.taken[thread.last]
      BY <3>1, <3>4 DEF Boundary
    <3>8. QED
      BY <1>1, <3>1, <3>4, <3>5, <3>6, <3>7
  <2>4. \A k \in Counted(n) : seen.started[k] # 0
    <3>1. Boundary \in Nat
      BY <1>1 DEF Boundary, Steer
    <3>2. \A k \in Counted(n) : k \in Tool /\ seen.started[k] > Boundary
      BY DEF Counted
    <3>3. QED
      BY <1>1, <3>1, <3>2
  <2>5. answer' \in [Run -> SUBSET Tool] /\ answer'[n] = Counted(n)
        /\ \A m \in Run : m # n => answer'[m] = answer[m]
    BY <1>1, <2>1, <2>2
  <2>6. Counts'
    <3>1. ASSUME NEW m \in Run
          PROVE  /\ \A s \in Steer : \A k \in answer'[m] :
                      steer[s].at = "confirmed" /\ steer[s].run = m
                        => seen.taken[s] # 0 /\ seen.started[k] > seen.taken[s]
                 /\ \A k \in answer'[m] : seen.started[k] # 0
                 /\ answer'[m] # {} => m < n \/ m = n
      <4>1. CASE m = n
        BY <2>3, <2>4, <2>5, <4>1
      <4>2. CASE m # n
        BY <1>1, <2>5, <4>2 DEF Inv, Counts
      <4>3. QED
        BY <4>1, <4>2
    <3>2. QED
      BY <1>3, <2>1, <3>1 DEF Counts
  <2>7. QED
    BY <1>1, <1>2, <1>3, <2>1, <2>5, <2>6, TurnMoves
<1>5. CASE run[n].ended # "completed"
  <2>1. /\ turn' \in [at : TurnAt, run : 0 .. MaxRuns, finishing : BOOLEAN]
        /\ turn'.at = "failed" /\ turn'.run = n /\ answer' = answer
    BY <1>1, <1>5 DEF RunIsOver, TurnAt
  <2>2. Counts'
    BY <1>1, <1>3, <2>1 DEF Inv, Counts
  <2>3. QED
    BY <1>1, <1>2, <1>3, <2>1, <2>2, TurnMoves
<1>6. QED
  BY <1>4, <1>5

LEMMA OutputInv ==
  ASSUME ConstantsOK, Inv, Output
  PROVE  Inv'
<1>1. /\ turn \in [at : TurnAt, run : 0 .. MaxRuns, finishing : BOOLEAN] /\ turn.run \in Run
      /\ turn.at = "settling" /\ thread.active = 0
      /\ thread \in [active : 0 .. MaxRuns, last : 0 .. MaxSteers, sequence : Nat]
      /\ answer \in [Run -> SUBSET Tool]
      /\ run \in [Run -> [at : RunAt, ended : {"no", "completed", "failed"}]]
  BY DEF Output, Inv, TypeOK, Runs
<1>2. UNCHANGED <<steer, pendingSteer, eventSequence, seen, answer, pipe>>
  BY DEF Output
<1>3. CASE /\ turn.run < MaxRuns
           /\ turn' = [turn EXCEPT !.at = "starting", !.run = @ + 1]
           /\ StartRun(turn.run + 1)
  <2>1. turn.run + 1 \in Run /\ turn.run + 1 \in 0 .. MaxRuns
    BY <1>1, <1>3 DEF Run, ConstantsOK
  <2>2. /\ turn' \in [at : TurnAt, run : 0 .. MaxRuns, finishing : BOOLEAN]
        /\ turn'.at = "starting" /\ turn'.run = turn.run + 1
    BY <1>1, <1>3, <2>1 DEF TurnAt
  <2>3. QED
    BY <1>1, <1>2, <1>3, <2>1, <2>2, StartRunInv
<1>4. CASE /\ \E at \in {"completed", "failed"} : turn' = [turn EXCEPT !.at = at]
           /\ UNCHANGED <<run, thread, codex>>
  <2>1. /\ turn' \in [at : TurnAt, run : 0 .. MaxRuns, finishing : BOOLEAN]
        /\ turn'.at \in {"completed", "failed"} /\ turn'.run = turn.run
    BY <1>1, <1>4 DEF TurnAt
  <2>2. Counts'
    BY <1>1, <1>2, <2>1 DEF Inv, Counts
  <2>3. QED
    BY <1>1, <1>2, <1>4, <2>1, <2>2, TurnMoves
<1>5. QED
  BY <1>3, <1>4 DEF Output

LEMMA ConnectionLostInv ==
  ASSUME ConstantsOK, Inv, ConnectionLost
  PROVE  Inv'
<1>1. /\ turn \in [at : TurnAt, run : 0 .. MaxRuns, finishing : BOOLEAN] /\ turn.run \in Run
      /\ turn.at \in {"starting", "running", "settling"}
      /\ thread \in [active : 0 .. MaxRuns, last : 0 .. MaxSteers, sequence : Nat]
      /\ codex \in [run : 0 .. MaxRuns, of : [Tool -> 0 .. MaxRuns], open : SUBSET Tool,
                    inbox : Seq(Steer), acks : SUBSET Steer]
      /\ steer \in [Steer -> [at : SteerAt, run : 0 .. MaxRuns]]
      /\ 0 \in 0 .. MaxRuns /\ <<>> \in Seq(Steer)
  BY DEF ConnectionLost, Inv, TypeOK, Runs, ConstantsOK
<1>2. /\ turn' \in [at : TurnAt, run : 0 .. MaxRuns, finishing : BOOLEAN]
      /\ turn'.at = "failed" /\ turn'.run = turn.run
  BY <1>1 DEF ConnectionLost, TurnAt
<1>3. /\ thread' \in [active : 0 .. MaxRuns, last : 0 .. MaxSteers, sequence : Nat]
      /\ thread'.active = 0 /\ thread'.last = thread.last
  BY <1>1 DEF ConnectionLost, NoneActive
<1>4. /\ codex' \in [run : 0 .. MaxRuns, of : [Tool -> 0 .. MaxRuns], open : SUBSET Tool,
                     inbox : Seq(Steer), acks : SUBSET Steer]
      /\ codex'.run = 0 /\ codex'.inbox = <<>> /\ codex'.acks = {} /\ codex'.of = codex.of
  <2>1. codex' = [codex EXCEPT !.run = 0, !.open = {}, !.inbox = <<>>, !.acks = {}]
    BY DEF ConnectionLost
  <2>2. QED
    BY <1>1, <2>1
<1>5. /\ pipe' = <<>> /\ pipe' \in Seq(Line) /\ Len(pipe') = 0 /\ Len(codex'.inbox) = 0
      /\ UNCHANGED <<pendingSteer, run, eventSequence, seen, answer>>
  BY <1>4 DEF ConnectionLost
<1>6. \A kind, of, i : ~ Unread(kind, of, i)'
  BY <1>5 DEF Unread
<1>7. \A x : ~ Queued(x)'
  BY <1>5 DEF Queued
<1>8. /\ steer' \in [Steer -> [at : SteerAt, run : 0 .. MaxRuns]]
      /\ \A s \in Steer : /\ steer'[s].run = steer[s].run
                          /\ steer'[s].at = IF steer[s].at \in InFlight THEN "refused" ELSE steer[s].at
  <2>1. \A s \in Steer : /\ [steer[s] EXCEPT !.at = "refused"] \in [at : SteerAt, run : 0 .. MaxRuns]
                         /\ [steer[s] EXCEPT !.at = "refused"].at = "refused"
                         /\ [steer[s] EXCEPT !.at = "refused"].run = steer[s].run
    BY <1>1 DEF SteerAt
  <2>2. steer' = [s \in Steer |-> IF steer[s].at \in InFlight
                                  THEN [steer[s] EXCEPT !.at = "refused"] ELSE steer[s]]
    BY DEF ConnectionLost, InFlight
  <2>3. QED
    BY <1>1, <2>1, <2>2
<1>9. TypeOK'
  BY <1>2, <1>3, <1>4, <1>5, <1>8 DEF Inv, TypeOK
<1>10. OneByOne'
  BY <1>8 DEF Inv, OneByOne, InFlight
<1>11. Unsent'
  BY <1>4, <1>5, <1>6, <1>7, <1>8 DEF Inv, Unsent, InFlight
<1>12. InOrder'
  BY <1>5, <1>6, <1>7 DEF Inv, InOrder
<1>13. Announced'
  BY <1>4, <1>5, <1>6 DEF Inv, Announced
<1>14. Runs'
  <2>1. \A m \in Run : run[m].at = "requested" => m = turn.run
    BY DEF Inv, Runs
  <2>2. \A m \in Run : turn.run < m => run[m].ended = "no"
    BY DEF Inv, Runs
  <2>3. \A m \in Run : m # 0
    BY DEF Run
  <2>4. codex'.run <= turn'.run
    BY <1>1, <1>2, <1>4
  <2>5. \A s \in Steer : /\ steer'[s].run <= turn'.run
                         /\ steer'[s].at \notin {"sent", "acknowledged"}
    BY <1>2, <1>8 DEF Inv, Runs, InFlight
  <2>6. QED
    BY <1>1, <1>2, <1>4, <1>5, <1>6, <2>1, <2>2, <2>3, <2>4, <2>5 DEF Runs
<1>15. Delivered'
  <2>1. \A s \in Steer : Promised(s)' => Promised(s)
    BY <1>4, <1>6, <1>8 DEF Promised
  <2>2. QED
    BY <1>4, <1>5, <1>6, <1>8, <2>1 DEF Inv, Delivered
<1>16. \A s \in Steer : steer'[s].at = "confirmed" <=> steer[s].at = "confirmed"
  BY <1>8 DEF InFlight
<1>17. LastKnown'
  <2>1. thread.last # 0 => thread.last \in Steer
    BY <1>1 DEF Steer
  <2>2. QED
    BY <1>2, <1>3, <1>8, <1>16, <2>1 DEF Inv, LastKnown
<1>18. Counts'
  BY <1>1, <1>2, <1>5, <1>8, <1>16 DEF Inv, Counts
<1>19. QED
  BY <1>9, <1>10, <1>11, <1>12, <1>13, <1>14, <1>15, <1>17, <1>18 DEF Inv

-----------------------------------------------------------------------------
(* The steps of steering.                                                  *)

\* What holds when message s waits to be sent or is refused, and nothing else moves.
LEMMA SteerMoves ==
  ASSUME ConstantsOK, Inv, NEW s \in Steer,
         UNCHANGED <<turn, thread, run, eventSequence, seen, answer, codex, pipe>>,
         pendingSteer' \in 0 .. MaxSteers,
         steer' \in [Steer -> [at : SteerAt, run : 0 .. MaxRuns]],
         \A x \in Steer : x # s => steer'[x] = steer[x],
         steer'[s].run = steer[s].run,
         steer[s].at \in {"new"} \cup InFlight, steer'[s].at \in {"staging", "refused"},
         steer'[s].at = "staging" => steer[s].at = "new",
         OneByOne'
  PROVE  Inv'
<1>1. TypeOK'
  BY DEF Inv, TypeOK
<1>2. InOrder' /\ Announced'
  BY DEF Inv, InOrder, Announced, Queued, Unread
<1>3. \A x \in Steer : steer'[x].run = steer[x].run
  OBVIOUS
<1>4. \A x \in Steer : steer'[x].at = "confirmed" <=> steer[x].at = "confirmed"
  BY DEF InFlight
<1>5. Unsent'
  <2>1. \A x \in Steer : steer'[x].at \in {"new", "staging"} => steer[x].at \in {"new", "staging"}
    OBVIOUS
  <2>2. QED
    BY <2>1 DEF Inv, Unsent, Queued, Unread
<1>6. Runs'
  BY <1>3 DEF Inv, Runs, Unread
<1>7. Delivered'
  <2>1. \A x \in Steer : Promised(x)' => Promised(x)
    BY DEF Promised, Unread
  <2>2. QED
    BY <1>3, <2>1 DEF Inv, Delivered, Queued, Unread
<1>8. LastKnown'
  <2>1. thread.last # 0 => thread.last \in Steer
    BY DEF Inv, TypeOK, Steer
  <2>2. QED
    BY <1>3, <1>4, <2>1 DEF Inv, LastKnown
<1>9. Counts'
  BY <1>3, <1>4 DEF Inv, Counts
<1>10. QED
  BY <1>1, <1>2, <1>5, <1>6, <1>7, <1>8, <1>9 DEF Inv

\* A message that is refused no longer holds back the next.
LEMMA SteerRefused ==
  ASSUME ConstantsOK, Inv, NEW s \in Steer, steer[s].at \in InFlight,
         steer' = [steer EXCEPT ![s].at = "refused"],
         UNCHANGED <<turn, thread, pendingSteer, run, eventSequence, seen, answer, codex, pipe>>
  PROVE  Inv'
<1>1. /\ steer \in [Steer -> [at : SteerAt, run : 0 .. MaxRuns]]
      /\ pendingSteer \in 0 .. MaxSteers
  BY DEF Inv, TypeOK
<1>2. /\ steer' \in [Steer -> [at : SteerAt, run : 0 .. MaxRuns]]
      /\ \A x \in Steer : x # s => steer'[x] = steer[x]
      /\ steer'[s].run = steer[s].run /\ steer'[s].at = "refused"
  BY <1>1 DEF SteerAt
<1>3. OneByOne'
  BY <1>2 DEF Inv, OneByOne, InFlight
<1>4. QED
  BY <1>1, <1>2, <1>3, SteerMoves

LEMMA SubmitSteerInv ==
  ASSUME ConstantsOK, Inv, NEW s \in Steer, NEW control \in BOOLEAN, SubmitSteer(s, control)
  PROVE  Inv'
<1>1. /\ steer \in [Steer -> [at : SteerAt, run : 0 .. MaxRuns]] /\ steer[s].at = "new"
      /\ pendingSteer \in 0 .. MaxSteers /\ s \in 0 .. MaxSteers
      /\ UNCHANGED <<turn, thread, run, eventSequence, seen, answer, codex, pipe>>
  BY DEF SubmitSteer, Inv, TypeOK, Steer
<1>2. /\ pendingSteer' \in 0 .. MaxSteers
      /\ \E at \in {"refused", "staging"} : steer' = [steer EXCEPT ![s].at = at]
  <2>1. \/ steer' = [steer EXCEPT ![s].at = "refused"] /\ pendingSteer' = pendingSteer
        \/ steer' = [steer EXCEPT ![s].at = "staging"] /\ pendingSteer' = s
    BY DEF SubmitSteer
  <2>2. QED
    BY <1>1, <2>1
<1>3. /\ steer' \in [Steer -> [at : SteerAt, run : 0 .. MaxRuns]]
      /\ \A x \in Steer : x # s => steer'[x] = steer[x]
      /\ steer'[s].run = steer[s].run /\ steer'[s].at \in {"refused", "staging"}
  BY <1>1, <1>2 DEF SteerAt
<1>4. OneByOne'
  <2>1. /\ \A x \in Steer : steer[x].at \notin InFlight
        /\ \A x \in Steer : x < s => steer[x].at # "new"
    BY DEF SubmitSteer, InFlight
  <2>2. \A x \in Steer : s < x => steer[x].at = "new"
    BY <1>1 DEF Inv, OneByOne
  <2>3. \A t \in Steer : ~ (t < t)
    BY DEF Steer
  <2>4. QED
    BY <1>3, <2>1, <2>2, <2>3 DEF Inv, OneByOne, InFlight
<1>5. /\ steer[s].at \in {"new"} \cup InFlight
      /\ steer'[s].at \in {"staging", "refused"}
      /\ steer'[s].at = "staging" => steer[s].at = "new"
  BY <1>1, <1>3
<1>6. QED
  BY <1>1, <1>2, <1>3, <1>4, <1>5, SteerMoves

LEMMA SteerTimesOutInv ==
  ASSUME ConstantsOK, Inv, NEW s \in Steer, SteerTimesOut(s)
  PROVE  Inv'
BY SteerRefused DEF SteerTimesOut, InFlight

\* A message that is sent is the last in the line of Codex.
LEMMA SendSteerInv ==
  ASSUME ConstantsOK, Inv, NEW s \in Steer, SendSteer(s)
  PROVE  Inv'
<1>1. /\ steer \in [Steer -> [at : SteerAt, run : 0 .. MaxRuns]] /\ steer[s].at = "staging"
      /\ thread \in [active : 0 .. MaxRuns, last : 0 .. MaxSteers, sequence : Nat]
      /\ codex \in [run : 0 .. MaxRuns, of : [Tool -> 0 .. MaxRuns], open : SUBSET Tool,
                    inbox : Seq(Steer), acks : SUBSET Steer]
      /\ UNCHANGED <<turn, thread, pendingSteer, run, eventSequence, seen, answer, pipe>>
  BY DEF SendSteer, Inv, TypeOK
<1>2. CASE steer' = [steer EXCEPT ![s].at = "refused"] /\ UNCHANGED codex
  BY <1>1, <1>2, SteerRefused DEF InFlight
<1>3. CASE /\ thread.active # 0
           /\ steer' = [steer EXCEPT ![s] = [at |-> "sent", run |-> thread.active]]
           /\ codex' = IF codex.run = thread.active
                       THEN [codex EXCEPT !.inbox = Append(@, s), !.acks = @ \cup {s}]
                       ELSE codex
  <2>1. PICK n \in Run : n = thread.active /\ n = turn.run /\ turn.at = "running"
                         /\ n \in 0 .. MaxRuns /\ n # 0
    BY <1>1, <1>3 DEF Inv, TypeOK, Run
  <2>2. [at |-> "sent", run |-> n] \in [at : SteerAt, run : 0 .. MaxRuns]
    BY <2>1 DEF SteerAt
  <2>3. /\ steer' \in [Steer -> [at : SteerAt, run : 0 .. MaxRuns]]
        /\ \A x \in Steer : x # s => steer'[x] = steer[x]
        /\ steer'[s].run = n /\ steer'[s].at = "sent"
    BY <1>1, <1>3, <2>1, <2>2
  <2>4. /\ codex' \in [run : 0 .. MaxRuns, of : [Tool -> 0 .. MaxRuns], open : SUBSET Tool,
                       inbox : Seq(Steer), acks : SUBSET Steer]
        /\ codex'.run = codex.run /\ codex'.of = codex.of
        /\ \/ /\ codex.run = n /\ codex'.inbox = Append(codex.inbox, s)
              /\ codex'.acks = codex.acks \cup {s}
           \/ codex.run # n /\ codex'.inbox = codex.inbox /\ codex'.acks = codex.acks
    <3>1. CASE codex.run = n
      <4>1. codex' = [codex EXCEPT !.inbox = Append(codex.inbox, s), !.acks = codex.acks \cup {s}]
        BY <1>3, <2>1, <3>1
      <4>2. Append(codex.inbox, s) \in Seq(Steer) /\ codex.acks \cup {s} \in SUBSET Steer
        BY <1>1
      <4>3. QED
        BY <1>1, <3>1, <4>1, <4>2
    <3>2. CASE codex.run # n
      BY <1>1, <1>3, <2>1, <3>2
    <3>3. QED
      BY <3>1, <3>2
  <2>5. /\ Len(codex.inbox) \in Nat
        /\ \/ Len(codex'.inbox) = Len(codex.inbox)
           \/ /\ Len(codex'.inbox) = Len(codex.inbox) + 1
              /\ codex'.inbox[Len(codex.inbox) + 1] = s
        /\ \A i \in 1 .. Len(codex.inbox) : codex'.inbox[i] = codex.inbox[i]
    <3>1. codex.inbox \in Seq(Steer)
      BY <1>1
    <3>2. LET a == Append(codex.inbox, s) IN
          /\ Len(codex.inbox) \in Nat /\ Len(a) = Len(codex.inbox) + 1
          /\ a[Len(codex.inbox) + 1] = s
          /\ \A i \in 1 .. Len(codex.inbox) : a[i] = codex.inbox[i]
      BY <3>1
    <3>3. codex'.inbox = codex.inbox \/ codex'.inbox = Append(codex.inbox, s)
      BY <2>4
    <3>4. QED
      BY <3>2, <3>3
  <2>6. /\ \A x : Queued(x) => Queued(x)'
        /\ \A x : Queued(x)' => Queued(x) \/ x = s
        /\ codex.run = n => Queued(s)'
    <3>1. \A x : Queued(x) => Queued(x)'
      BY <2>5 DEF Queued
    <3>2. ASSUME NEW x, Queued(x)'
          PROVE  Queued(x) \/ x = s
      <4>1. PICK i \in 1 .. Len(codex.inbox)' : codex'.inbox[i] = x
        BY <3>2 DEF Queued
      <4>2. CASE i \in 1 .. Len(codex.inbox)
        BY <2>5, <4>1, <4>2 DEF Queued
      <4>3. CASE i \notin 1 .. Len(codex.inbox)
        <5>1. i = Len(codex.inbox) + 1 /\ Len(codex.inbox)' = Len(codex.inbox) + 1
          BY <2>5, <4>1, <4>3
        <5>2. QED
          BY <2>5, <4>1, <5>1
      <4>4. QED
        BY <4>2, <4>3
    <3>3. ASSUME codex.run = n
          PROVE  Queued(s)'
      <4>1. /\ Len(codex'.inbox) = Len(codex.inbox) + 1
            /\ codex'.inbox[Len(codex.inbox) + 1] = s
        BY <1>1, <2>4, <3>3
      <4>2. Len(codex.inbox) + 1 \in 1 .. Len(codex.inbox)'
        BY <2>5, <4>1
      <4>3. QED
        BY <4>1, <4>2 DEF Queued
    <3>4. QED
      BY <3>1, <3>2, <3>3
  <2>7. /\ s \notin codex.acks /\ ~ Queued(s) /\ seen.taken[s] = 0
        /\ \A i \in 1 .. Len(pipe) : ~ Unread("ack", s, i) /\ ~ Unread("taken", s, i)
    BY <1>1 DEF Inv, Unsent
  <2>8. /\ \A x \in Steer : steer[x].at \notin {"new", "staging"} => x < s
        /\ \A x \in Steer : s < x => steer[x].at = "new"
    <3>1. \A x \in Steer : s < x => steer[x].at = "new"
      BY <1>1 DEF Inv, OneByOne, InFlight
    <3>2. \A x \in Steer : x < s \/ x = s \/ s < x
      BY DEF Steer
    <3>3. QED
      BY <1>1, <3>1, <3>2
  <2>9. /\ \A x \in Steer : Queued(x) => x < s
        /\ \A x \in Steer : seen.taken[x] # 0 => x < s
        /\ \A x \in Steer, i \in 1 .. Len(pipe) : Unread("taken", x, i) => x < s
    BY <2>8 DEF Inv, Unsent
  <2>10. UNCHANGED <<turn, thread, pendingSteer, run, eventSequence, seen, answer, pipe>>
         /\ \A kind, of, i : Unread(kind, of, i)' <=> Unread(kind, of, i)
    BY <1>1 DEF Unread
  <2>11. TypeOK'
    BY <2>3, <2>4, <2>10 DEF Inv, TypeOK
  <2>12. OneByOne'
    <3>1. \A t \in Steer : ~ (t < t)
      BY DEF Steer
    <3>2. ASSUME NEW t \in Steer, NEW x \in Steer, x < t
          PROVE  /\ steer'[t].at # "new" => steer'[x].at # "new"
                 /\ steer'[x].at \in InFlight => steer'[t].at = "new"
      <4>1. /\ steer[t].at # "new" => steer[x].at # "new"
            /\ steer[x].at \in InFlight => steer[t].at = "new"
        BY <3>2 DEF Inv, OneByOne
      <4>2. CASE t = s
        BY <1>1, <2>3, <3>1, <3>2, <4>1, <4>2 DEF InFlight
      <4>3. CASE x = s
        BY <1>1, <2>3, <2>8, <3>1, <3>2, <4>1, <4>3 DEF InFlight
      <4>4. CASE t # s /\ x # s
        BY <2>3, <4>1, <4>4
      <4>5. QED
        BY <4>2, <4>3, <4>4
    <3>3. QED
      BY <3>2 DEF OneByOne
  <2>13. Unsent'
    <3>1. \A x \in codex'.acks : x \in codex.acks \/ x = s
      BY <2>4
    <3>2. QED
      BY <2>3, <2>6, <2>10, <3>1 DEF Inv, Unsent
  <2>14. InOrder'
    <3>1. \A i, j \in 1 .. Len(codex.inbox)' : i < j => codex'.inbox[i] < codex'.inbox[j]
      <4>1. SUFFICES ASSUME NEW i \in 1 .. Len(codex.inbox)', NEW j \in 1 .. Len(codex.inbox)', i < j
                     PROVE  codex'.inbox[i] < codex'.inbox[j]
        OBVIOUS
      <4>2. i \in 1 .. Len(codex.inbox) /\ codex'.inbox[i] = codex.inbox[i]
        BY <2>5, <4>1
      <4>3. codex.inbox[i] \in Steer /\ Queued(codex.inbox[i])
        BY <1>1, <4>2 DEF Queued
      <4>4. CASE j \in 1 .. Len(codex.inbox)
        BY <2>5, <4>1, <4>2, <4>4 DEF Inv, InOrder
      <4>5. CASE j \notin 1 .. Len(codex.inbox)
        <5>1. codex'.inbox[j] = s
          BY <2>5, <4>1, <4>5
        <5>2. QED
          BY <2>9, <4>2, <4>3, <5>1
      <4>6. QED
        BY <4>4, <4>5
    <3>2. \A i \in 1 .. Len(pipe), t, x \in Steer : Unread("taken", x, i) /\ Queued(t)' => x < t
      BY <2>6, <2>9 DEF Inv, InOrder
    <3>3. \A t, x \in Steer : seen.taken[x] # 0 /\ Queued(t)' => x < t
      BY <2>6, <2>9 DEF Inv, InOrder
    <3>4. QED
      BY <2>10, <3>1, <3>2, <3>3 DEF Inv, InOrder
  <2>15. Announced'
    BY <2>4, <2>10 DEF Inv, Announced
  <2>16. Runs'
    <3>1. \A x \in Steer : /\ steer'[x].run <= turn.run
                           /\ steer'[x].at \in {"sent", "acknowledged"} => steer'[x].run # 0
      <4>1. n <= turn.run /\ n # 0
        BY <2>1
      <4>2. QED
        BY <2>3, <4>1 DEF Inv, Runs
    <3>2. QED
      BY <2>4, <2>10, <3>1 DEF Inv, Runs
  <2>17. Delivered'
    <3>1. \A x \in Steer : x # s /\ Promised(x)' => Promised(x)
      BY <2>3, <2>4, <2>10 DEF Promised
    <3>2. \A x \in Steer : x # s => steer'[x] = steer[x]
      BY <2>3
    <3>3. ASSUME Promised(s)'
          PROVE  codex.run = n
      <4>1. s \in codex'.acks
        BY <2>3, <2>7, <2>10, <3>3 DEF Promised
      <4>2. QED
        BY <2>4, <2>7, <4>1
    <3>4. ASSUME Promised(s)'
          PROVE  /\ Queued(s)' /\ run[n].ended = "no"
                 /\ \A i \in 1 .. Len(pipe) : ~ Unread("completed", n, i)
      BY <2>6, <3>3, <3>4 DEF Inv, Runs
    <3>5. SUFFICES ASSUME NEW x \in Steer, Promised(x)', steer'[x].run # 0
                   PROVE  /\ codex'.run = steer'[x].run
                               => \/ Queued(x)' \/ seen.taken[x] # 0
                                  \/ \E i \in 1 .. Len(pipe) : Unread("taken", x, i)
                          /\ \A i \in 1 .. Len(pipe) : Unread("completed", steer'[x].run, i)
                               => \/ seen.taken[x] # 0
                                  \/ \E j \in 1 .. Len(pipe) : j < i /\ Unread("taken", x, j)
                          /\ run[steer'[x].run].ended = "completed" => seen.taken[x] # 0
      BY <2>10 DEF Delivered, Unread
    <3>6. CASE x = s
      BY <2>3, <3>4, <3>5, <3>6
    <3>7. CASE x # s
      BY <2>4, <2>6, <3>1, <3>2, <3>5, <3>7 DEF Inv, Delivered
    <3>8. QED
      BY <3>6, <3>7
  <2>18. \A x \in Steer : /\ steer'[x].at = "confirmed" <=> steer[x].at = "confirmed"
                          /\ steer'[x].at = "confirmed" => steer'[x] = steer[x]
    BY <1>1, <2>3
  <2>19. LastKnown'
    <3>1. thread.last # 0 => thread.last \in Steer
      BY <1>1 DEF Steer
    <3>2. turn.at # "starting"
      BY <2>1
    <3>3. QED
      BY <2>10, <2>18, <3>1, <3>2 DEF Inv, LastKnown
  <2>20. Counts'
    BY <2>10, <2>18 DEF Inv, Counts
  <2>21. QED
    BY <2>11, <2>12, <2>13, <2>14, <2>15, <2>16, <2>17, <2>19, <2>20 DEF Inv
<1>4. QED
  BY <1>2, <1>3 DEF SendSteer

\* A message that is confirmed is the last that was steered into its run.
LEMMA SteerConfirmedInv ==
  ASSUME ConstantsOK, Inv, NEW s \in Steer, SteerConfirmed(s)
  PROVE  Inv'
<1>1. /\ steer \in [Steer -> [at : SteerAt, run : 0 .. MaxRuns]] /\ steer[s].at = "acknowledged"
      /\ thread \in [active : 0 .. MaxRuns, last : 0 .. MaxSteers, sequence : Nat]
      /\ eventSequence \in Nat
      /\ UNCHANGED <<turn, pendingSteer, run, eventSequence, seen, answer, codex, pipe>>
  BY DEF SteerConfirmed, Inv, TypeOK
<1>2. CASE steer' = [steer EXCEPT ![s].at = "refused"] /\ UNCHANGED thread
  BY <1>1, <1>2, SteerRefused DEF InFlight
<1>3. CASE /\ Accepted(s)
           /\ steer' = [steer EXCEPT ![s].at = "confirmed"]
           /\ thread' = [thread EXCEPT !.last = s, !.sequence = eventSequence]
  <2>1. s \in 0 .. MaxSteers /\ s # 0 /\ steer[s].run = thread.active
    BY <1>3 DEF Accepted, Steer
  <2>2. turn.at = "running" /\ turn.run \in Run /\ steer[s].run = turn.run
    BY <1>1, <2>1 DEF Inv, TypeOK, Runs, Run
  <2>3. /\ thread' \in [active : 0 .. MaxRuns, last : 0 .. MaxSteers, sequence : Nat]
        /\ thread'.active = thread.active /\ thread'.last = s
    BY <1>1, <1>3, <2>1
  <2>4. /\ steer' \in [Steer -> [at : SteerAt, run : 0 .. MaxRuns]]
        /\ \A x \in Steer : x # s => steer'[x] = steer[x]
        /\ \A x \in Steer : steer'[x].run = steer[x].run
        /\ steer'[s].at = "confirmed"
    BY <1>1, <1>3 DEF SteerAt
  <2>5. TypeOK'
    BY <1>1, <2>3, <2>4 DEF Inv, TypeOK
  <2>6. OneByOne'
    BY <1>1, <2>4 DEF Inv, OneByOne, InFlight
  <2>7. Unsent'
    BY <1>1, <2>4 DEF Inv, Unsent, Queued, Unread
  <2>8. InOrder' /\ Announced'
    BY <1>1 DEF Inv, InOrder, Announced, Queued, Unread
  <2>9. Runs'
    <3>1. \A x \in Steer : /\ steer'[x].run <= turn.run
                           /\ steer'[x].at \in {"sent", "acknowledged"} => steer'[x].run # 0
      <4>1. \A x \in Steer : /\ steer[x].run <= turn.run
                             /\ steer[x].at \in {"sent", "acknowledged"} => steer[x].run # 0
        BY DEF Inv, Runs
      <4>2. QED
        BY <2>4, <4>1
    <3>2. \A kind, of, i : Unread(kind, of, i)' <=> Unread(kind, of, i)
      BY <1>1 DEF Unread
    <3>3. QED
      BY <1>1, <2>3, <3>1, <3>2 DEF Inv, Runs
  <2>10. Promised(s)
    BY <1>1 DEF Promised
  <2>11. Delivered'
    <3>1. \A x \in Steer : Promised(x)' => Promised(x)
      BY <1>1, <2>4, <2>10 DEF Promised, Unread
    <3>2. QED
      BY <1>1, <2>4, <3>1 DEF Inv, Delivered, Queued, Unread
  <2>12. LastKnown'
    <3>1. ASSUME NEW x \in Steer, thread.active # 0, steer'[x].at = "confirmed",
                 steer'[x].run = thread.active
          PROVE  x <= s
      <4>1. x = s \/ x < s \/ s < x
        BY DEF Steer
      <4>2. s < x => steer[x].at = "new"
        BY <1>1 DEF Inv, OneByOne, InFlight
      <4>3. x # s => steer[x].at = "confirmed"
        BY <2>4, <3>1
      <4>4. QED
        BY <4>1, <4>2, <4>3 DEF Steer
    <3>2. QED
      BY <1>1, <2>1, <2>3, <2>4, <2>2, <3>1 DEF LastKnown
  <2>13. Counts'
    <3>1. answer[turn.run] = {}
      BY <2>2 DEF Inv, Counts, Run
    <3>2. \A x \in Steer : steer'[x].at = "confirmed" /\ x # s => steer[x].at = "confirmed"
      BY <2>4
    <3>3. QED
      BY <1>1, <2>4, <2>2, <3>1, <3>2 DEF Inv, Counts
  <2>14. QED
    BY <2>5, <2>6, <2>7, <2>8, <2>9, <2>11, <2>12, <2>13 DEF Inv
<1>4. QED
  BY <1>2, <1>3 DEF SteerConfirmed

-----------------------------------------------------------------------------
(* The theorems.                                                           *)

LEMMA StepInv ==
  ASSUME ConstantsOK, Inv, [Next]_vars
  PROVE  Inv'
<1>1. CASE UNCHANGED vars
  BY <1>1 DEF vars, Inv, TypeOK, OneByOne, Unsent, InOrder, Announced, Runs, Delivered, Promised,
              LastKnown, Counts, Queued, Unread
<1>2. CASE Submit \/ StartTimesOut \/ RunIsOver \/ Output \/ ConnectionLost
  BY <1>2, SubmitInv, StartTimesOutInv, RunIsOverInv, OutputInv, ConnectionLostInv
<1>3. ASSUME NEW s \in Steer, Steering(s) \/ \E control \in BOOLEAN : SubmitSteer(s, control)
      PROVE  Inv'
  BY <1>3, SendSteerInv, SteerTimesOutInv, SteerConfirmedInv, SubmitSteerInv DEF Steering
<1>4. CASE Reader
  <2>1. CASE ReadItem
    <3>1. CASE /\ Reads("tool_started")
               /\ seen' = [seen EXCEPT !.started[Head(pipe).of] = eventSequence + 1]
      BY <2>1, <3>1, ReadToolStartedInv DEF ReadItem
    <3>2. CASE /\ Reads("tool_completed")
               /\ seen' = [seen EXCEPT !.completed[Head(pipe).of] = eventSequence + 1]
      BY <2>1, <3>2, ReadToolCompletedInv DEF ReadItem
    <3>3. CASE /\ Reads("taken")
               /\ seen' = [seen EXCEPT !.taken[Head(pipe).of] = eventSequence + 1]
      BY <2>1, <3>3, ReadTakenInv DEF ReadItem
    <3>4. QED
      BY <2>1, <3>1, <3>2, <3>3 DEF ReadItem
  <2>2. CASE ReadEnd
    BY <2>2, ReadEndInv DEF ReadEnd
  <2>3. QED
    BY <1>4, <2>1, <2>2, ReadStartedInv, ReadAcknowledgementInv DEF Reader
<1>5. CASE Codex
  BY <1>5, CodexStartedInv, CodexCallsToolInv, CodexToolReturnsInv, CodexAcknowledgesInv,
     CodexTakesInInv, CodexEndsInv DEF Codex
<1>6. QED
  BY <1>1, <1>2, <1>3, <1>4, <1>5 DEF Next

\* The client and Codex stay in step: messages are steered one at a time and taken in in
\* their order, the runs begin one after another, and what Codex acknowledged it takes in
\* before it completes the run.
THEOREM TurnInvariant == ASSUME ConstantsOK PROVE Spec => []Inv
<1>1. Init => Inv
  BY InitInv
<1>2. Inv /\ [Next]_vars => Inv'
  BY StepInv
<1>3. QED
  BY <1>1, <1>2, PTL DEF Spec

\* Whatever the order in which responses, items and steerings interleave, the variables have
\* their types, the thread is active on no run but the one the turn is in, and a tool call
\* that counts as the answer of a run (executedAttemptIds of #resultOutput) began after Codex
\* took in every message that was steered into the run and confirmed.
THEOREM AnswersFollow == ASSUME ConstantsOK PROVE Spec => []AnswersFollowDirection
<1>1. Inv => AnswersFollowDirection
  BY DEF Inv, Counts, AnswersFollowDirection
<1>2. QED
  BY <1>1, TurnInvariant, PTL
=============================================================================
