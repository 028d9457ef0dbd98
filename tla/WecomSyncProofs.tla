-------------------------- MODULE WecomSyncProofs --------------------------
(***************************************************************************)
(* Proofs about WecomSync for every number of accounts, every log, page    *)
(* size and number of request slots, and any number of failures and stops. *)
(* Inv is the inductive invariant: what the request slots and their line    *)
(* owe each other (Queued), and what the inbox and the requests owe.        *)
(***************************************************************************)
EXTENDS WecomSync, FiniteSetTheorems, SequenceTheorems, TLAPS

\* The line of workers w: those in it wait, each once, and only while no slot is free.
Line(w, line) ==
  /\ w \in [Account -> Worker] /\ line \in Seq(Account)
  /\ \A i \in DOMAIN line : w[line[i]].at = "waiting"
  /\ \A i, j \in DOMAIN line : line[i] = line[j] => i = j
  /\ Cardinality(Reading(w)) <= MaxRequests
  /\ line # <<>> => Cardinality(Reading(w)) = MaxRequests

Queued == Line(worker, waiters)

Box == [Account -> [Message -> {"absent", "deferred", "received", "handed"}]]

\* The stop empties the line.
NobodyWaits == ~Accepting => waiters = <<>>

Inv == TypeOK /\ Queued /\ NobodyWaits /\ CursorMatchesInbox /\ NoLostRequest

-----------------------------------------------------------------------------
(* Lemmas about the helpers.                                               *)

LEMMA WorkerTypes ==
  ASSUME ConstantsOK
  PROVE  /\ NoWorker \in Worker /\ NoRequest \in Request
         /\ [NoWorker EXCEPT !.at = "ended"] \in Worker
         /\ \A r \in Request : [NoWorker EXCEPT !.request = r] \in Worker
         /\ \A r, s \in Request : Merge(r, s) \in Request
<1>1. MaxPages \in Nat \ {0} /\ 0 \in 0 .. MaxPages - 1
  BY DEF ConstantsOK
<1>2. NoRequest \in Request
  BY DEF NoRequest, Request
<1>3. NoWorker \in Worker
  BY <1>1, <1>2 DEF NoWorker, Worker
<1>4. [NoWorker EXCEPT !.at = "ended"] \in Worker
  BY <1>3 DEF Worker
<1>5. \A r \in Request : [NoWorker EXCEPT !.request = r] \in Worker
  BY <1>3 DEF Worker
<1>6. \A r, s \in Request : Merge(r, s) \in Request
  BY DEF Request, Merge
<1> QED BY <1>2, <1>3, <1>4, <1>5, <1>6

LEMMA ReadingFinite ==
  ASSUME ConstantsOK, NEW w
  PROVE  IsFiniteSet(Reading(w)) /\ Cardinality(Reading(w)) \in Nat
  BY FS_Subset, FS_CardinalityType DEF ConstantsOK, Reading

\* A slot that is asked for is taken or waited for.
LEMMA AcquireKeepsLine ==
  ASSUME ConstantsOK, NEW w, NEW line, NEW a \in Account,
         Line(w, line), w[a].at # "reading", \A i \in DOMAIN line : line[i] # a,
         Acquire(w, a, line)
  PROVE  /\ Line(worker', waiters')
         /\ worker'[a].at \in {"reading", "waiting"}
         /\ \A b \in Account \ {a} : worker'[b] = w[b]
<1>1. w \in [Account -> Worker] /\ line \in Seq(Account) /\ MaxRequests \in Nat \ {0}
  BY DEF Line, ConstantsOK
<1>2. CASE Cardinality(Reading(w)) < MaxRequests
  <2>1. worker' = [w EXCEPT ![a].at = "reading"] /\ waiters' = line
    BY <1>2 DEF Acquire
  <2>2. line = <<>>
    BY <1>1, <1>2, ReadingFinite DEF Line
  <2>3. Reading(worker') = Reading(w) \cup {a} /\ a \notin Reading(w)
    BY <2>1, <1>1 DEF Reading, Worker
  <2>4. Cardinality(Reading(worker')) = Cardinality(Reading(w)) + 1
    BY <2>3, ReadingFinite, FS_AddElement
  <2>5. worker' \in [Account -> Worker]
    BY <2>1, <1>1 DEF Worker
  <2>6. Line(worker', waiters')
    BY <1>1, <1>2, <2>1, <2>2, <2>4, <2>5, ReadingFinite DEF Line
  <2> QED BY <1>1, <2>1, <2>6 DEF Worker
<1>3. CASE ~(Cardinality(Reading(w)) < MaxRequests)
  <2>1. worker' = [w EXCEPT ![a].at = "waiting"] /\ waiters' = Append(line, a)
    BY <1>3 DEF Acquire
  <2>2. Reading(worker') = Reading(w)
    BY <2>1, <1>1 DEF Reading, Worker
  <2>3. worker' \in [Account -> Worker]
    BY <2>1, <1>1 DEF Worker
  <2>4. /\ waiters' \in Seq(Account)
        /\ DOMAIN waiters' = DOMAIN line \cup {Len(line) + 1}
        /\ \A i \in DOMAIN line : waiters'[i] = line[i]
        /\ waiters'[Len(line) + 1] = a
    BY <2>1, <1>1, AppendProperties, LenProperties
  <2>5. \A i \in DOMAIN waiters' : worker'[waiters'[i]].at = "waiting"
    BY <1>1, <2>1, <2>4, ElementOfSeq, LenProperties DEF Line, Worker
  <2>6. \A i, j \in DOMAIN waiters' : waiters'[i] = waiters'[j] => i = j
    BY <2>4 DEF Line
  <2>7. Cardinality(Reading(w)) = MaxRequests
    BY <1>1, <1>3, ReadingFinite DEF Line
  <2>8. Line(worker', waiters')
    BY <1>1, <2>2, <2>3, <2>4, <2>5, <2>6, <2>7 DEF Line
  <2> QED BY <1>1, <2>1, <2>8 DEF Worker
<1> QED BY <1>2, <1>3

\* After worker a has given its slot back and become v.
Passed(freed, a, v) ==
  /\ Line(freed.workers, freed.line)
  /\ freed.workers[a] = v
  /\ \A i \in DOMAIN freed.line : freed.line[i] # a
  /\ \A b \in Account \ {a} : \/ freed.workers[b] = worker[b]
                              \/ freed.workers[b].at = "reading"

\* A worker that gives its slot back passes it to the first in line.
LEMMA ReleaseKeepsLine ==
  ASSUME ConstantsOK, Queued, NEW a \in Account, worker[a].at = "reading",
         NEW v \in Worker, v.at # "reading", v.at # "none"
  PROVE  Passed(Release([worker EXCEPT ![a] = v], waiters), a, v)
<1> DEFINE after == Release([worker EXCEPT ![a] = v], waiters).workers
           line == Release([worker EXCEPT ![a] = v], waiters).line
<1>0. SUFFICES /\ Line(after, line)
               /\ after[a] = v
               /\ \A i \in DOMAIN line : line[i] # a
               /\ \A b \in Account \ {a} : \/ after[b] = worker[b]
                                           \/ after[b].at = "reading"
  BY DEF Passed
<1> DEFINE w == [worker EXCEPT ![a] = v]
           n == Cardinality(Reading(worker))
<1>1. worker \in [Account -> Worker] /\ waiters \in Seq(Account) /\ w \in [Account -> Worker]
      /\ MaxRequests \in Nat \ {0} /\ n \in Nat /\ n <= MaxRequests
  BY ReadingFinite DEF Queued, Line, ConstantsOK
<1>2. Reading(w) = Reading(worker) \ {a} /\ a \in Reading(worker)
  BY <1>1 DEF Reading
<1>3. Cardinality(Reading(w)) = n - 1 /\ IsFiniteSet(Reading(w))
  BY <1>2, ReadingFinite, FS_RemoveElement
<1>4. CASE waiters = <<>>
  <2>1. after = w /\ line = <<>>
    BY <1>4, ZenonT(20) DEF Release
  <2>2. DOMAIN <<>> = {} /\ <<>> \in Seq(Account)
    BY EmptySeq
  <2>3. Line(w, <<>>)
    BY <1>1, <1>3, <2>2 DEF Line
  <2>4. w[a] = v /\ \A b \in Account \ {a} : w[b] = worker[b]
    BY <1>1
  <2> HIDE DEF w
  <2> QED BY <2>1, <2>2, <2>3, <2>4
<1>5. CASE waiters # <<>>
  <2> DEFINE h == Head(waiters)
             v2 == [w EXCEPT ![h].at = "reading"]
  <2>1. after = v2 /\ line = Tail(waiters)
    BY <1>5 DEF Release
  <2>2. /\ h \in Account /\ Tail(waiters) \in Seq(Account)
        /\ DOMAIN Tail(waiters) = 1 .. Len(waiters) - 1
        /\ \A i \in DOMAIN Tail(waiters) :
             i + 1 \in DOMAIN waiters /\ Tail(waiters)[i] = waiters[i + 1]
        /\ 1 \in DOMAIN waiters /\ h = waiters[1]
    BY <1>1, <1>5, HeadTailProperties, LenProperties, EmptySeq
  <2>3. worker[h].at = "waiting" /\ h # a
    BY <2>2 DEF Queued, Line
  <2>4. Reading(v2) = Reading(w) \cup {h} /\ h \notin Reading(w)
    BY <1>1, <2>2, <2>3 DEF Reading, Worker
  <2>5. Cardinality(Reading(v2)) = n
    <3>1. Cardinality(Reading(v2)) = Cardinality(Reading(w)) + 1
      BY <1>3, <2>4, FS_AddElement
    <3> QED BY <1>1, <1>3, <3>1
  <2>6. v2 \in [Account -> Worker]
    BY <1>1, <2>2 DEF Worker
  <2>7. \A i \in DOMAIN Tail(waiters) :
          /\ Tail(waiters)[i] \in Account \ {a, h}
          /\ v2[Tail(waiters)[i]].at = "waiting"
    <3> SUFFICES ASSUME NEW i \in DOMAIN Tail(waiters)
                 PROVE  /\ Tail(waiters)[i] \in Account \ {a, h}
                        /\ v2[Tail(waiters)[i]].at = "waiting"
      OBVIOUS
    <3>1. i + 1 \in DOMAIN waiters /\ Tail(waiters)[i] = waiters[i + 1] /\ i + 1 # 1
      BY <2>2
    <3>2. waiters[i + 1] \in Account /\ worker[waiters[i + 1]].at = "waiting"
      BY <3>1, <1>1, ElementOfSeq, LenProperties DEF Queued, Line
    <3>3. waiters[i + 1] # h /\ waiters[i + 1] # a
      BY <3>1, <3>2, <2>2 DEF Queued, Line
    <3> QED BY <3>1, <3>2, <3>3, <1>1, <2>2
  <2>8. \A i, j \in DOMAIN Tail(waiters) : Tail(waiters)[i] = Tail(waiters)[j] => i = j
    <3> SUFFICES ASSUME NEW i \in DOMAIN Tail(waiters), NEW j \in DOMAIN Tail(waiters),
                        Tail(waiters)[i] = Tail(waiters)[j]
                 PROVE  i = j
      OBVIOUS
    <3>1. i + 1 = j + 1
      BY <2>2 DEF Queued, Line
    <3> QED BY <2>2, <3>1, <1>1, LenProperties
  <2>9. n = MaxRequests
    BY <1>5 DEF Queued, Line
  <2>10. Line(after, line)
    <3>1. Line(v2, Tail(waiters))
      <4> HIDE DEF v2, n
      <4> QED BY <1>1, <2>2, <2>5, <2>6, <2>7, <2>8, <2>9 DEF Line
    <3> QED BY <2>1, <3>1
  <2>11. v2[a] = v /\ \A b \in Account \ {a} : v2[b] = worker[b] \/ v2[b].at = "reading"
    BY <1>1, <2>2, <2>3 DEF Worker
  <2> HIDE DEF v2
  <2> QED BY <2>1, <2>7, <2>10, <2>11
<1> QED BY <1>4, <1>5

\* Worker a neither reads nor stands in the line.
Outside(w, a, line) ==
  /\ Line(w, line) /\ w[a].at # "reading" /\ \A i \in DOMAIN line : line[i] # a

\* Worker a has looked for a request among pend.
Looked(w, a, pend) ==
  /\ Line(worker', waiters')
  /\ pending' \in [Account -> Request] /\ liveRequested' \subseteq Account
  /\ worker'[a].at # "none" /\ \A b \in Account \ {a} : worker'[b] = w[b]
  /\ \A b \in Account \ {a} : pending'[b] = pend[b]

\* A worker that looks for a request takes it up, or is about to return.
LEMMA TakeKeepsLine ==
  ASSUME ConstantsOK, liveRequested \in SUBSET Account,
         NEW w, NEW line, NEW a \in Account, NEW pend \in [Account -> Request],
         Outside(w, a, line), Take(w, a, pend, line)
  PROVE  Looked(w, a, pend)
<1>0. Line(w, line) /\ w[a].at # "reading" /\ \A i \in DOMAIN line : line[i] # a
  BY DEF Outside
<1>1. w \in [Account -> Worker] /\ line \in Seq(Account) /\ MaxRequests \in Nat \ {0}
  BY <1>0 DEF Line, ConstantsOK
<1>2. ASSUME NEW v \in Worker, v.at # "reading"
      PROVE  Line([w EXCEPT ![a] = v], line)
  <2>1. Reading([w EXCEPT ![a] = v]) = Reading(w)
    BY <1>0, <1>1, <1>2 DEF Reading
  <2>2. \A i \in DOMAIN line : line[i] \in Account
    BY <1>1, ElementOfSeq, LenProperties
  <2> QED BY <1>0, <1>1, <1>2, <2>1, <2>2 DEF Line
<1>3. CASE pend[a] = NoRequest
  BY <1>1, <1>2, <1>3, WorkerTypes DEF Take, NoWorker, Looked
<1>4. CASE pend[a] # NoRequest
  <2> DEFINE v == [NoWorker EXCEPT !.request = pend[a]]
             u == [w EXCEPT ![a] = v]
  <2>1. v \in Worker /\ v.at # "reading"
    BY WorkerTypes DEF NoWorker
  <2>2. Line(u, line)
    BY <1>2, <2>1
  <2>3. Acquire(u, a, line)
    BY <1>4 DEF Take
  <2>4. u[a].at # "reading" /\ \A b \in Account \ {a} : u[b] = w[b]
    BY <1>1, <2>1
  <2>5. /\ Line(worker', waiters')
        /\ worker'[a].at \in {"reading", "waiting"}
        /\ \A b \in Account \ {a} : worker'[b] = u[b]
    <3> HIDE DEF u
    <3> QED BY <1>0, <2>2, <2>3, <2>4, AcquireKeepsLine
  <2>6. /\ pending' = [pend EXCEPT ![a] = NoRequest]
        /\ liveRequested' \subseteq Account
    BY <1>4 DEF Take
  <2> QED BY <1>1, <2>4, <2>5, <2>6, WorkerTypes DEF Looked
<1> QED BY <1>3, <1>4

\* What a page stores lies between the old and the new cursor.
LEMMA IngestMatches ==
  ASSUME ConstantsOK, TypeOK, CursorMatchesInbox, NEW a \in Account,
         NEW size \in Nat, cursor[a] + size <= Length
  PROVE  /\ Ingest(a, size) \in Box
         /\ \A b \in Account, i \in Message :
              Ingest(a, size)[b][i] # "absent" <=> i <= [cursor EXCEPT ![a] = @ + size][b]
<1>1. /\ cursor \in [Account -> 0 .. Length] /\ inbox \in Box /\ Length \in Nat
      /\ \A b \in Account, i \in Message : inbox[b][i] # "absent" <=> i <= cursor[b]
  BY DEF TypeOK, CursorMatchesInbox, ConstantsOK, Box
<1>2. Ingest(a, size) \in Box
  BY <1>1 DEF Ingest, Box
<1>3. ASSUME NEW b \in Account, NEW i \in Message
      PROVE  Ingest(a, size)[b][i] # "absent" <=> i <= [cursor EXCEPT ![a] = @ + size][b]
  <2>1. CASE b # a
    BY <1>1, <2>1 DEF Ingest, Box
  <2>2. CASE b = a
    BY <1>1, <2>2 DEF Ingest, Box, Message
  <2> QED BY <2>1, <2>2
<1> QED BY <1>2, <1>3

\* Handing over stores nothing and loses nothing.
LEMMA HandedMatches ==
  ASSUME NEW box \in Box, NEW a \in Account, NEW conversations
  PROVE  /\ Handed(a, conversations, box) \in Box
         /\ \A b \in Account, i \in Message :
              Handed(a, conversations, box)[b][i] = "absent" <=> box[b][i] = "absent"
  BY DEF Handed, Box

LEMMA EnqueueMatches ==
  ASSUME TypeOK, NEW box \in Box, NEW a \in Account, NEW read, Enqueue(a, read, box)
  PROVE  /\ inbox' \in Box /\ preempted' \in [Account -> SUBSET Conversation]
         /\ \A b \in Account, i \in Message : inbox'[b][i] = "absent" <=> box[b][i] = "absent"
<1>1. preempted' \in [Account -> SUBSET Conversation]
  BY DEF Enqueue, TypeOK
<1> QED BY <1>1, HandedMatches DEF Enqueue

-----------------------------------------------------------------------------
(* Lemmas about a worker that has read a page.                             *)

\* Nobody's request is dropped when workers change hands.
Kept ==
  \A b \in Account : \/ worker'[b].at # "none" \/ b \in retries'
                     \/ worker[b].at = "none" /\ pending'[b] = pending[b] /\ b \notin retries

LEMMA KeptRequests ==
  ASSUME NoLostRequest, Kept, Accepting
  PROVE  NoLostRequest'
  BY DEF NoLostRequest, Kept, Accepting

LEMMA RestReleases ==
  ASSUME ConstantsOK, TypeOK, Queued, NEW a \in Account, worker[a].at = "reading"
  PROVE  Passed(Release(Rest(a), waiters), a, [NoWorker EXCEPT !.at = "ended"])
<1> DEFINE v == [NoWorker EXCEPT !.at = "ended"]
<1>1. v \in Worker /\ v.at # "reading" /\ v.at # "none"
  BY WorkerTypes DEF NoWorker
<1>2. Release(Rest(a), waiters) = Release([worker EXCEPT ![a] = v], waiters)
  BY DEF Rest
<1> HIDE DEF v
<1>3. Passed(Release([worker EXCEPT ![a] = v], waiters), a, v)
  BY <1>1, ReleaseKeepsLine
<1> QED BY <1>2, <1>3 DEF v

\* It looks for the next request.
LEMMA TakesNext ==
  ASSUME ConstantsOK, Inv, NEW a \in Account, worker[a].at = "reading", retries' = retries,
         Take(Release(Rest(a), waiters).workers, a, pending, Release(Rest(a), waiters).line)
  PROVE  /\ Queued' /\ Kept
         /\ pending' \in [Account -> Request] /\ liveRequested' \subseteq Account
<1> DEFINE after == Release(Rest(a), waiters).workers
           line == Release(Rest(a), waiters).line
<1>1. TypeOK /\ Queued /\ pending \in [Account -> Request] /\ liveRequested \in SUBSET Account
  BY DEF Inv, TypeOK
<1>2. /\ Line(after, line) /\ after[a].at = "ended"
      /\ \A i \in DOMAIN line : line[i] # a
      /\ \A b \in Account \ {a} : \/ after[b] = worker[b]
                                  \/ after[b].at = "reading"
  BY <1>1, RestReleases, WorkerTypes DEF Passed, NoWorker
<1>3. Looked(after, a, pending)
  <2>1. Take(after, a, pending, line) /\ Outside(after, a, line)
    BY <1>2 DEF Outside
  <2> HIDE DEF after, line
  <2> QED BY <1>1, <2>1, TakeKeepsLine
<1>4. Kept
  <2> HIDE DEF after, line
  <2> QED BY <1>2, <1>3 DEF Kept, Looked
<1> QED BY <1>3, <1>4 DEF Queued, Looked

\* It gives up, and a timer will try again.
LEMMA Fails ==
  ASSUME ConstantsOK, Inv, NEW a \in Account, worker[a].at = "reading",
         NEW read, NEW box \in Box, Fail(a, read, box)
  PROVE  /\ Queued' /\ Kept
         /\ pending' \in [Account -> Request] /\ liveRequested' \subseteq Account
         /\ retries' \subseteq Account
         /\ inbox' \in Box /\ preempted' \in [Account -> SUBSET Conversation]
         /\ \A b \in Account, i \in Message : inbox'[b][i] = "absent" <=> box[b][i] = "absent"
<1>1. TypeOK /\ Queued
  BY DEF Inv
<1>2. /\ worker' = Release(Rest(a), waiters).workers /\ waiters' = Release(Rest(a), waiters).line
      /\ pending' = [pending EXCEPT ![a] = Merge(@, worker[a].request)]
      /\ retries' = retries \cup {a} /\ liveRequested' = liveRequested
  BY DEF Fail
<1>3. /\ Line(worker', waiters') /\ worker'[a].at = "ended"
      /\ \A b \in Account \ {a} : worker'[b] = worker[b] \/ worker'[b].at = "reading"
  BY <1>1, <1>2, RestReleases DEF Passed, NoWorker
<1>4. pending' \in [Account -> Request] /\ \A b \in Account \ {a} : pending'[b] = pending[b]
  BY <1>1, <1>2, WorkerTypes DEF TypeOK, Worker
<1>5. Queued' /\ Kept
  BY <1>2, <1>3, <1>4 DEF Queued, Kept
<1>6. /\ inbox' \in Box /\ preempted' \in [Account -> SUBSET Conversation]
      /\ \A b \in Account, i \in Message : inbox'[b][i] = "absent" <=> box[b][i] = "absent"
  <2>1. CASE Enqueue(a, read, box)
    BY <1>1, <2>1, EnqueueMatches
  <2>2. CASE inbox' = box /\ UNCHANGED preempted
    BY <1>1, <2>2 DEF TypeOK
  <2> QED BY <2>1, <2>2 DEF Fail
<1> QED BY <1>1, <1>2, <1>4, <1>5, <1>6 DEF TypeOK

\* It goes on with the next page.
LEMMA GoesOn ==
  ASSUME ConstantsOK, Inv, NEW a \in Account, worker[a].at = "reading",
         NEW size \in Nat, cursor[a] + size <= Length, NextPage(a, size)
  PROVE  Queued' /\ Kept
<1> DEFINE v == [worker[a] EXCEPT !.at = "waiting", !.pages = @ + 1,
                                  !.read = @ \cup Conversations(a, size)]
           w == [worker EXCEPT ![a].at = "waiting", ![a].pages = @ + 1,
                               ![a].read = @ \cup Conversations(a, size)]
           after == Release(w, waiters).workers
           line == Release(w, waiters).line
<1>1. TypeOK /\ Queued /\ worker \in [Account -> Worker] /\ cursor[a] \in 0 .. Length
  BY DEF Inv, TypeOK
<1>2. w = [worker EXCEPT ![a] = v]
  BY <1>1
<1>3. Conversations(a, size) \subseteq Conversation
  BY <1>1 DEF Conversations, ConstantsOK
<1>4. v \in Worker /\ v.at = "waiting"
  <2>1. worker[a] \in Worker /\ worker[a].pages + 1 \in 0 .. MaxPages - 1
    BY <1>1 DEF NextPage, ConstantsOK, Worker
  <2> QED BY <1>3, <2>1 DEF Worker
<1>5. Acquire(after, a, line) /\ retries' = retries /\ pending' = pending
  BY DEF NextPage, requests
<1>6. Passed(Release([worker EXCEPT ![a] = v], waiters), a, v)
  <2> HIDE DEF v
  <2> QED BY <1>1, <1>4, ReleaseKeepsLine
<1>7. /\ Line(after, line) /\ after[a].at = "waiting"
      /\ \A i \in DOMAIN line : line[i] # a
      /\ \A b \in Account \ {a} : \/ after[b] = worker[b]
                                  \/ after[b].at = "reading"
  <2> HIDE DEF v, w
  <2> QED BY <1>2, <1>4, <1>6 DEF Passed
<1> HIDE DEF v, w, after, line
<1>8. /\ Line(worker', waiters') /\ worker'[a].at \in {"reading", "waiting"}
      /\ \A b \in Account \ {a} : worker'[b] = after[b]
  <2>1. after[a].at # "reading"
    BY <1>7
  <2> QED BY <1>5, <1>7, <2>1, AcquireKeepsLine
<1> QED BY <1>5, <1>7, <1>8 DEF Queued, Kept

\* A worker starts, or goes on after it had returned.
LEMMA StartsToRead ==
  ASSUME ConstantsOK, Inv, NEW a \in Account, worker[a].at \in {"none", "ended"},
         NEW pend \in [Account -> Request], \A b \in Account \ {a} : pend[b] = pending[b],
         \A b \in Account \ {a} : b \in retries => b \in retries',
         Take(worker, a, pend, waiters)
  PROVE  /\ Queued' /\ Kept
         /\ pending' \in [Account -> Request] /\ liveRequested' \subseteq Account
<1>1. Line(worker, waiters) /\ liveRequested \in SUBSET Account
  BY DEF Inv, Queued, TypeOK
<1>2. Outside(worker, a, waiters)
  BY <1>1 DEF Line, Outside
<1>3. Looked(worker, a, pend)
  BY <1>1, <1>2, TakeKeepsLine
<1>4. ASSUME NEW b \in Account \ {a}
      PROVE  \/ worker'[b].at # "none" \/ b \in retries'
             \/ worker[b].at = "none" /\ pending'[b] = pending[b] /\ b \notin retries
  BY <1>3 DEF Looked
<1> QED BY <1>3, <1>4 DEF Queued, Kept, Looked

-----------------------------------------------------------------------------
(* The steps.                                                              *)

LEMMA CallbackInv ==
  ASSUME ConstantsOK, Inv, NEW a \in Account, Callback(a)
  PROVE  Inv'
<1> DEFINE request == [pending EXCEPT ![a] = Merge(@, [live |-> TRUE, deferred |-> FALSE])]
<1>1. TypeOK /\ Queued /\ CursorMatchesInbox /\ NoLostRequest /\ Accepting
  BY DEF Inv, Callback
<1>2. /\ request \in [Account -> Request]
      /\ \A b \in Account \ {a} : request[b] = pending[b]
  <2>1. [live |-> TRUE, deferred |-> FALSE] \in Request
    BY DEF Request
  <2> QED BY <1>1, <2>1, WorkerTypes DEF TypeOK
<1>3. /\ Queued' /\ Kept
      /\ pending' \in [Account -> Request] /\ liveRequested' \subseteq Account
  <2>1. retries' = retries \ {a}
    BY DEF Callback
  <2>2. CASE worker[a].at = "none"
    <3>1. Take(worker, a, request, waiters)
      BY <2>2 DEF Callback
    <3> HIDE DEF request
    <3> QED BY <1>2, <2>1, <2>2, <3>1, StartsToRead
  <2>3. CASE worker[a].at # "none"
    <3>1. pending' = request /\ liveRequested' = liveRequested \cup {a}
          /\ UNCHANGED <<worker, waiters>>
      BY <2>3 DEF Callback
    <3> HIDE DEF request
    <3> QED BY <1>1, <1>2, <2>1, <2>3, <3>1 DEF Queued, Kept, TypeOK
  <2> QED BY <2>2, <2>3
<1>4. NoLostRequest'
  BY <1>1, <1>3, KeptRequests
<1>5. TypeOK'
  BY <1>1, <1>3 DEF TypeOK, Callback, durable, bounds, Queued, Line
<1>6. CursorMatchesInbox' /\ NobodyWaits'
  BY <1>1 DEF CursorMatchesInbox, NobodyWaits, Accepting, Callback, durable
<1> QED BY <1>3, <1>4, <1>5, <1>6 DEF Inv

LEMMA WorkerEndsInv ==
  ASSUME ConstantsOK, Inv, NEW a \in Account, WorkerEnds(a)
  PROVE  Inv'
<1>1. TypeOK /\ Queued /\ NobodyWaits /\ CursorMatchesInbox /\ NoLostRequest
  BY DEF Inv
<1>2. CASE Accepting /\ pending[a] # NoRequest /\ a \notin retries
  <2>1. Take(worker, a, pending, waiters) /\ retries' = retries /\ worker[a].at = "ended"
    BY <1>2 DEF WorkerEnds
  <2>2. pending \in [Account -> Request]
    BY <1>1 DEF TypeOK
  <2>3. /\ Queued' /\ Kept
        /\ pending' \in [Account -> Request] /\ liveRequested' \subseteq Account
    BY <2>1, <2>2, StartsToRead
  <2>4. TypeOK'
    BY <1>1, <2>3 DEF TypeOK, WorkerEnds, durable, bounds, Queued, Line
  <2>5. NoLostRequest' /\ CursorMatchesInbox' /\ NobodyWaits'
    BY <1>1, <1>2, <2>3, KeptRequests
    DEF CursorMatchesInbox, NobodyWaits, Accepting, WorkerEnds, durable
  <2> QED BY <2>3, <2>4, <2>5 DEF Inv
<1>3. CASE ~(Accepting /\ pending[a] # NoRequest /\ a \notin retries)
  <2>1. /\ worker' = [worker EXCEPT ![a] = NoWorker] /\ worker[a].at = "ended"
        /\ UNCHANGED <<pending, liveRequested, waiters, retries, mode, inbox, cursor>>
    BY <1>3 DEF WorkerEnds, durable
  <2>2. Queued'
    <3>1. worker' \in [Account -> Worker] /\ Reading(worker') = Reading(worker)
      BY <1>1, <2>1, WorkerTypes DEF Reading, NoWorker, TypeOK
    <3>2. \A i \in DOMAIN waiters : waiters[i] # a /\ waiters[i] \in Account
      BY <1>1, <2>1, ElementOfSeq, LenProperties DEF Queued, Line
    <3> QED BY <1>1, <2>1, <3>1, <3>2 DEF Queued, Line, TypeOK
  <2>3. NoLostRequest'
    BY <1>1, <1>3, <2>1 DEF NoLostRequest, Accepting, TypeOK
  <2>4. TypeOK'
    BY <1>1, <2>1, <2>2 DEF TypeOK, WorkerEnds, durable, bounds, Queued, Line
  <2> QED BY <1>1, <2>1, <2>2, <2>3, <2>4
      DEF Inv, CursorMatchesInbox, NobodyWaits, Accepting
<1> QED BY <1>2, <1>3

LEMMA RetryInv ==
  ASSUME ConstantsOK, Inv, NEW a \in Account, Retry(a)
  PROVE  Inv'
<1>1. /\ TypeOK /\ Queued /\ NobodyWaits /\ CursorMatchesInbox /\ NoLostRequest
      /\ retries' = retries \ {a} /\ mode' = mode
  BY DEF Inv, Retry
<1>2. /\ Queued' /\ (Accepting => Kept /\ NobodyWaits')
      /\ (~Accepting => waiters' = waiters)
      /\ pending' \in [Account -> Request] /\ liveRequested' \subseteq Account
  <2>1. CASE Accepting /\ worker[a].at = "none"
    <3>1. Take(worker, a, pending, waiters) /\ pending \in [Account -> Request]
      BY <1>1, <2>1 DEF Retry, TypeOK
    <3>2. /\ Queued' /\ Kept
          /\ pending' \in [Account -> Request] /\ liveRequested' \subseteq Account
      BY <1>1, <2>1, <3>1, StartsToRead
    <3> QED BY <1>1, <2>1, <3>2 DEF NobodyWaits, Accepting
  <2>2. CASE ~(Accepting /\ worker[a].at = "none")
    <3>1. UNCHANGED <<worker, waiters, pending, liveRequested>>
      BY <2>2 DEF Retry
    <3> QED BY <1>1, <2>2, <3>1 DEF Queued, Kept, TypeOK, NobodyWaits, Accepting
  <2> QED BY <2>1, <2>2
<1>3. NoLostRequest'
  BY <1>1, <1>2, KeptRequests DEF NoLostRequest, Accepting
<1>4. TypeOK'
  BY <1>1, <1>2 DEF TypeOK, Retry, durable, bounds, Queued, Line
<1>5. CursorMatchesInbox' /\ NobodyWaits'
  BY <1>1, <1>2 DEF CursorMatchesInbox, NobodyWaits, Accepting, Retry, durable
<1> QED BY <1>2, <1>3, <1>4, <1>5 DEF Inv

\* What a page brings, whatever becomes of the worker.
LEMMA PageInv ==
  ASSUME ConstantsOK, Inv, NEW a \in Account, Page(a)
  PROVE  Inv'
<1>1. /\ TypeOK /\ Queued /\ NobodyWaits /\ CursorMatchesInbox /\ NoLostRequest
      /\ worker[a].at = "reading" /\ Accepting
      /\ UNCHANGED <<log, called, catchUp, mode, bounds>>
  BY DEF Inv, Page
<1> DEFINE more(size) == cursor[a] + size < log[a]
           interrupted == IsCatchUp(worker[a].request) /\ a \in liveRequested
<1>2. PICK size \in 0 .. PageSize :
        /\ cursor[a] + size <= log[a]
        /\ cursor' = [cursor EXCEPT ![a] = @ + size]
        /\ \/ interrupted /\ Interrupted(a, size)
           \/ ~interrupted /\ ~more(size) /\ LastPage(a, size)
           \/ ~interrupted /\ more(size) /\ NextPage(a, size)
           \/ /\ ~interrupted /\ more(size) /\ worker[a].pages + 1 >= MaxPages
              /\ Fail(a, worker[a].read \cup Conversations(a, size), Ingest(a, size))
  BY DEF Page
<1>3. /\ size \in Nat /\ cursor[a] + size <= Length
      /\ cursor' \in [Account -> 0 .. Length]
  BY <1>1, <1>2 DEF TypeOK, ConstantsOK
<1>4. /\ Ingest(a, size) \in Box
      /\ \A b \in Account, i \in Message :
           Ingest(a, size)[b][i] # "absent" <=> i <= cursor'[b]
  BY <1>1, <1>2, <1>3, IngestMatches
<1>5. Conversations(a, size) \subseteq Conversation
  BY <1>1, <1>3 DEF Conversations, ConstantsOK, TypeOK
<1> DEFINE Good == /\ Queued' /\ Kept
                   /\ pending' \in [Account -> Request] /\ liveRequested' \subseteq Account
                   /\ retries' \subseteq Account /\ drain' \in BOOLEAN
                   /\ inbox' \in Box /\ preempted' \in [Account -> SUBSET Conversation]
                   /\ \A b \in Account, i \in Message :
                        inbox'[b][i] = "absent" <=> Ingest(a, size)[b][i] = "absent"
<1>6. ASSUME Interrupted(a, size)
      PROVE  Good
  <2>1. /\ Take(Release(Rest(a), waiters).workers, a, pending, Release(Rest(a), waiters).line)
        /\ retries' = retries /\ drain' = drain /\ inbox' = Ingest(a, size)
        /\ preempted' = [preempted EXCEPT ![a] = @ \cup Conversations(a, size)]
    BY <1>6 DEF Interrupted
  <2>2. /\ Queued' /\ Kept
        /\ pending' \in [Account -> Request] /\ liveRequested' \subseteq Account
    BY <1>1, <2>1, TakesNext
  <2>3. preempted' \in [Account -> SUBSET Conversation]
    BY <1>1, <1>5, <2>1 DEF TypeOK
  <2> QED BY <1>1, <1>4, <2>1, <2>2, <2>3 DEF TypeOK
<1>7. ASSUME LastPage(a, size)
      PROVE  Good
  <2>1. /\ Take(Release(Rest(a), waiters).workers, a, pending, Release(Rest(a), waiters).line)
        /\ retries' = retries /\ drain' = (drain \/ IsCatchUp(worker[a].request))
        /\ \/ inbox' = Ingest(a, size) /\ UNCHANGED preempted
           \/ Enqueue(a, worker[a].read \cup Conversations(a, size), Ingest(a, size))
    BY <1>7 DEF LastPage
  <2>2. /\ Queued' /\ Kept
        /\ pending' \in [Account -> Request] /\ liveRequested' \subseteq Account
    BY <1>1, <2>1, TakesNext
  <2>3. drain' \in BOOLEAN
    BY <1>1, <2>1 DEF TypeOK
  <2>4. /\ inbox' \in Box /\ preempted' \in [Account -> SUBSET Conversation]
        /\ \A b \in Account, i \in Message :
             inbox'[b][i] = "absent" <=> Ingest(a, size)[b][i] = "absent"
    BY <1>1, <1>4, <2>1, EnqueueMatches DEF TypeOK
  <2> QED BY <1>1, <2>1, <2>2, <2>3, <2>4 DEF TypeOK
<1>8. ASSUME NextPage(a, size)
      PROVE  Good
  <2>1. Queued' /\ Kept
    BY <1>1, <1>3, <1>8, GoesOn
  <2> QED BY <1>1, <1>4, <1>8, <2>1 DEF NextPage, requests, TypeOK
<1>9. ASSUME Fail(a, worker[a].read \cup Conversations(a, size), Ingest(a, size))
      PROVE  Good
  <2>1. drain' \in BOOLEAN
    BY <1>1, <1>9 DEF Fail, TypeOK
  <2> QED BY <1>1, <1>4, <1>9, <2>1, Fails
<1>10. Good
  BY <1>2, <1>6, <1>7, <1>8, <1>9
<1>11. NoLostRequest'
  BY <1>1, <1>10, KeptRequests
<1>12. CursorMatchesInbox'
  BY <1>4, <1>10 DEF CursorMatchesInbox
<1>13. TypeOK' /\ NobodyWaits'
  BY <1>1, <1>3, <1>10 DEF TypeOK, Queued, Line, NobodyWaits, Accepting, bounds, Box
<1> QED BY <1>10, <1>11, <1>12, <1>13 DEF Inv

LEMMA PageFailsInv ==
  ASSUME ConstantsOK, Inv, NEW a \in Account, PageFails(a)
  PROVE  Inv'
<1>1. /\ TypeOK /\ Queued /\ NobodyWaits /\ CursorMatchesInbox /\ NoLostRequest
      /\ worker[a].at = "reading" /\ Accepting
      /\ failures < MaxFailures /\ failures' = failures + 1
      /\ Fail(a, worker[a].read, inbox)
      /\ UNCHANGED <<log, called, cursor, catchUp, mode, stops>>
  BY DEF Inv, PageFails
<1>2. inbox \in Box
  BY <1>1 DEF TypeOK, Box
<1>3. /\ Queued' /\ Kept
      /\ pending' \in [Account -> Request] /\ liveRequested' \subseteq Account
      /\ retries' \subseteq Account
      /\ inbox' \in Box /\ preempted' \in [Account -> SUBSET Conversation]
      /\ \A b \in Account, i \in Message : inbox'[b][i] = "absent" <=> inbox[b][i] = "absent"
  BY <1>1, <1>2, Fails
<1>4. NoLostRequest' /\ CursorMatchesInbox'
  BY <1>1, <1>3, KeptRequests DEF CursorMatchesInbox
<1>5. TypeOK'
  BY <1>1, <1>3 DEF TypeOK, Queued, Line, Box, Fail, ConstantsOK
<1>6. NobodyWaits'
  BY <1>1 DEF NobodyWaits, Accepting
<1> QED BY <1>3, <1>4, <1>5, <1>6 DEF Inv

LEMMA PageDroppedInv ==
  ASSUME ConstantsOK, Inv, NEW a \in Account, PageDropped(a)
  PROVE  Inv'
<1> DEFINE v == [NoWorker EXCEPT !.at = "ended"]
<1>1. /\ TypeOK /\ Queued /\ NobodyWaits /\ CursorMatchesInbox /\ NoLostRequest
      /\ worker[a].at = "reading" /\ ~Accepting /\ waiters = <<>>
      /\ worker' = [worker EXCEPT ![a] = v]
      /\ UNCHANGED <<log, called, durable, requests, waiters, preempted, catchUp, drain, mode,
                     bounds>>
  BY DEF Inv, NobodyWaits, PageDropped, Rest
<1>2. v \in Worker /\ v.at = "ended"
  BY WorkerTypes DEF NoWorker
<1> HIDE DEF v
<1>3. worker' \in [Account -> Worker] /\ Reading(worker') = Reading(worker) \ {a}
      /\ a \in Reading(worker)
  BY <1>1, <1>2 DEF TypeOK, Reading
<1>4. Cardinality(Reading(worker')) = Cardinality(Reading(worker)) - 1
      /\ Cardinality(Reading(worker)) \in Nat
  BY <1>3, ReadingFinite, FS_RemoveElement
<1>5. waiters' \in Seq(Account) /\ DOMAIN waiters' = {}
  BY <1>1, EmptySeq
<1>6. Queued'
  BY <1>1, <1>3, <1>4, <1>5 DEF Queued, Line, ConstantsOK
<1> QED BY <1>1, <1>3, <1>6 DEF Inv, TypeOK, NobodyWaits, CursorMatchesInbox, NoLostRequest,
           Accepting, durable, requests, bounds

LEMMA DrainConversationInv ==
  ASSUME ConstantsOK, Inv, NEW a \in Account, NEW c \in Conversation, DrainConversation(a, c)
  PROVE  Inv'
<1>1. inbox \in Box /\ inbox' = Handed(a, {c}, inbox)
  BY DEF Inv, TypeOK, Box, DrainConversation
<1>2. /\ inbox' \in Box
      /\ \A b \in Account, i \in Message : inbox'[b][i] = "absent" <=> inbox[b][i] = "absent"
  BY <1>1, HandedMatches
<1>3. UNCHANGED <<log, called, cursor, pending, liveRequested, retries, worker, waiters, preempted,
                  catchUp, drain, mode, failures, stops>>
  BY DEF DrainConversation, requests, bounds
<1>4. TypeOK'
  BY <1>2, <1>3 DEF Inv, TypeOK, Box
<1>5. CursorMatchesInbox'
  BY <1>2, <1>3 DEF Inv, CursorMatchesInbox
<1>6. Queued' /\ NobodyWaits' /\ NoLostRequest'
  BY <1>3 DEF Inv, Queued, Line, Reading, NobodyWaits, NoLostRequest, Accepting
<1>7. QED
  BY <1>4, <1>5, <1>6 DEF Inv

LEMMA GrowInv ==
  ASSUME ConstantsOK, Inv, NEW a \in Account, Grow(a)
  PROVE  Inv'
<1>1. log' \in [Account -> 0 .. Length]
  BY DEF Inv, TypeOK, Grow, ConstantsOK
<1> QED BY <1>1 DEF Inv, TypeOK, Queued, NobodyWaits, CursorMatchesInbox, NoLostRequest,
           Accepting, durable, requests, bounds, Grow

-----------------------------------------------------------------------------
(* Stops and starts.                                                       *)

LEMMA StopInv ==
  ASSUME ConstantsOK, Inv, Stop
  PROVE  Inv'
<1>1. /\ worker \in [Account -> Worker]
      /\ worker' = [a \in Account |-> IF worker[a].at = "waiting"
                                      THEN [NoWorker EXCEPT !.at = "ended"] ELSE worker[a]]
      /\ waiters' = <<>> /\ mode' = "stopping"
  BY DEF Inv, TypeOK, Stop
<1>2. [NoWorker EXCEPT !.at = "ended"] \in Worker /\ [NoWorker EXCEPT !.at = "ended"].at = "ended"
  BY WorkerTypes DEF NoWorker
<1>3. worker' \in [Account -> Worker]
  BY <1>1, <1>2
<1>4. Reading(worker') = Reading(worker)
  BY <1>1, <1>2 DEF Reading
<1>5. waiters' \in Seq(Account) /\ DOMAIN waiters' = {}
  BY <1>1, EmptySeq
<1>6. Queued'
  BY <1>1, <1>3, <1>4, <1>5 DEF Inv, Queued, Line
<1>7. pending' \in [Account -> Request]
  BY WorkerTypes DEF Stop
<1>8. TypeOK'
  <2>1. stops' \in 0 .. MaxStops
    BY DEF Inv, TypeOK, Stop, ConstantsOK
  <2> QED BY <1>3, <1>5, <1>7, <2>1 DEF Inv, TypeOK, Stop, durable
<1> QED BY <1>1, <1>6, <1>8 DEF Inv, Stop, NobodyWaits, CursorMatchesInbox, NoLostRequest,
           Accepting, durable

LEMMA CrashInv ==
  ASSUME ConstantsOK, Inv, Crash
  PROVE  Inv'
<1>1. worker' = [a \in Account |-> NoWorker] /\ waiters' = <<>> /\ mode' = "stopped"
  BY DEF Crash
<1>2. worker' \in [Account -> Worker] /\ Reading(worker') = {}
  BY <1>1, WorkerTypes DEF Reading, NoWorker
<1>3. waiters' \in Seq(Account) /\ DOMAIN waiters' = {}
  BY <1>1, EmptySeq
<1>4. Queued'
  <2>1. Cardinality(Reading(worker')) = 0
    BY <1>2, FS_EmptySet
  <2> QED BY <1>1, <1>2, <1>3, <2>1 DEF Queued, Line, ConstantsOK
<1>5. TypeOK'
  <2>1. stops' \in 0 .. MaxStops
    BY DEF Inv, TypeOK, Crash, ConstantsOK
  <2> QED BY <1>2, <1>3, <2>1 DEF Inv, TypeOK, Crash, durable, requests
<1> QED BY <1>1, <1>4, <1>5 DEF Inv, Crash, NobodyWaits, CursorMatchesInbox, NoLostRequest,
           Accepting, durable

\* A finite set can be put in order.
LEMMA OrderIsBijection ==
  ASSUME ConstantsOK
  PROVE  /\ AnyOrder(Account) \in Seq(Account) /\ Len(AnyOrder(Account)) = Cardinality(Account)
         /\ \A i, j \in 1 .. Cardinality(Account) :
              AnyOrder(Account)[i] = AnyOrder(Account)[j] => i = j
         /\ \A a \in Account : \E i \in 1 .. Cardinality(Account) : AnyOrder(Account)[i] = a
<1> DEFINE n == Cardinality(Account)
           s == AnyOrder(Account)
<1>1. IsFiniteSet(Account) /\ n \in Nat
  BY FS_CardinalityType DEF ConstantsOK
<1>2. PICK t \in [1 .. n -> Account] :
        /\ \A i, j \in 1 .. n : t[i] = t[j] => i = j
        /\ \A a \in Account : \E i \in 1 .. n : t[i] = a
  <2>1. PICK t : t \in Bijection(1 .. n, Account)
    <3>1. ExistsBijection(1 .. n, Account)
      BY <1>1, FS_CardinalityType
    <3> QED BY <3>1 DEF ExistsBijection
  <2>2. t \in Injection(1 .. n, Account) /\ t \in Surjection(1 .. n, Account)
    BY <2>1 DEF Bijection
  <2>3. t \in [1 .. n -> Account] /\ \A i, j \in 1 .. n : t[i] = t[j] => i = j
    BY <2>2 DEF Injection, IsInjective
  <2>4. \A a \in Account : \E i \in 1 .. n : t[i] = a
    BY <2>2 DEF Surjection
  <2> QED BY <2>3, <2>4
<1>3. s \in [1 .. n -> Account] /\ \A i, j \in 1 .. n : s[i] = s[j] => i = j
  <2>1. \A i, j \in DOMAIN t : t[i] = t[j] => i = j
    BY <1>2
  <2>2. s \in [1 .. n -> Account] /\ \A i, j \in DOMAIN s : s[i] = s[j] => i = j
    BY <2>1 DEF AnyOrder
  <2> QED BY <2>2
<1> HIDE DEF s
<1>4. s \in Seq(Account) /\ Len(s) = n
  <2>1. \A i \in 1 .. n : s[i] \in Account
    BY <1>3
  <2>2. [i \in 1 .. n |-> s[i]] \in Seq(Account)
    BY <1>1, <2>1, IsASeq
  <2>3. s = [i \in 1 .. n |-> s[i]]
    BY <1>3
  <2>4. s \in Seq(Account)
    BY <2>2, <2>3
  <2>5. DOMAIN s = 1 .. n /\ DOMAIN s = 1 .. Len(s) /\ Len(s) \in Nat
    BY <1>3, <2>4, LenProperties
  <2>6. Len(s) = n
    <3> DEFINE k == Len(s)
    <3>1. 1 .. n = 1 .. k /\ k \in Nat
      BY <2>5
    <3> HIDE DEF k, n
    <3>2. k = n
      BY <1>1, <3>1
    <3> QED BY <3>2 DEF k
  <2> QED BY <2>4, <2>6
<1>5. \A a \in Account : \E i \in 1 .. n : s[i] = a
  <2>1. s \in Injection(1 .. n, Account)
    BY <1>3 DEF Injection, IsInjective
  <2>2. IsFiniteSet(1 .. n) /\ Cardinality(1 .. n) = n
    BY <1>1, FS_Interval
  <2>3. s \in Surjection(1 .. n, Account)
    BY <1>1, <2>1, <2>2, FS_Injection
  <2> QED BY <2>3 DEF Surjection
<1> QED BY <1>3, <1>4, <1>5 DEF s

\* The first workers of a start read, the rest wait in line.
LEMMA StartInv ==
  ASSUME ConstantsOK, Inv, Start
  PROVE  Inv'
<1> DEFINE n == Cardinality(Account)
           s == AnyOrder(Account)
           CatchUpWorker(a) == [NoWorker EXCEPT
             !.at = IF \E i \in DOMAIN s : s[i] = a /\ i <= MaxRequests
                    THEN "reading" ELSE "waiting",
             !.request = [live |-> FALSE, deferred |-> TRUE]]
<1>1. /\ worker' = [a \in Account |-> CatchUpWorker(a)]
      /\ waiters' = SubSeq(s, MaxRequests + 1, Len(s))
  BY DEF Start
<1>2. /\ s \in Seq(Account) /\ Len(s) = n /\ DOMAIN s = 1 .. n /\ n \in Nat
      /\ \A i, j \in 1 .. n : s[i] = s[j] => i = j
      /\ \A a \in Account : \E i \in 1 .. n : s[i] = a
      /\ \A i \in 1 .. n : s[i] \in Account
      /\ MaxRequests \in Nat \ {0}
  <2>1. n \in Nat
    BY FS_CardinalityType DEF ConstantsOK
  <2>2. MaxRequests \in Nat \ {0}
    BY DEF ConstantsOK
  <2> HIDE DEF s, n
  <2>3. /\ s \in Seq(Account) /\ Len(s) = n
        /\ \A i, j \in 1 .. n : s[i] = s[j] => i = j
        /\ \A a \in Account : \E i \in 1 .. n : s[i] = a
    BY OrderIsBijection DEF s, n
  <2>4. DOMAIN s = 1 .. n /\ \A i \in 1 .. n : s[i] \in Account
    BY <2>3, LenProperties, ElementOfSeq
  <2> QED BY <2>1, <2>2, <2>3, <2>4
<1> HIDE DEF s, n
<1>3. \A a \in Account :
        /\ CatchUpWorker(a) \in Worker
        /\ CatchUpWorker(a).at = IF \E i \in 1 .. n : s[i] = a /\ i <= MaxRequests
                                 THEN "reading" ELSE "waiting"
  <2>1. NoWorker \in Worker /\ [live |-> FALSE, deferred |-> TRUE] \in Request
    BY WorkerTypes DEF Request
  <2> QED BY <1>2, <2>1 DEF Worker
<1>4. /\ worker' \in [Account -> Worker]
      /\ \A a \in Account :
           worker'[a].at = IF \E i \in 1 .. n : s[i] = a /\ i <= MaxRequests
                           THEN "reading" ELSE "waiting"
  <2> HIDE DEF CatchUpWorker
  <2> QED BY <1>1, <1>3
<1>5. /\ waiters' \in Seq(Account)
      /\ DOMAIN waiters' = 1 .. (IF MaxRequests + 1 <= n THEN n - MaxRequests ELSE 0)
      /\ \A i \in 1 .. n - MaxRequests : waiters'[i] = s[MaxRequests + i]
  <2>1. \A i \in MaxRequests + 1 .. n : s[i] \in Account
    BY <1>2
  <2>2. /\ waiters' \in Seq(Account)
        /\ Len(waiters') = IF MaxRequests + 1 <= n THEN n - (MaxRequests + 1) + 1 ELSE 0
        /\ \A i \in 1 .. n - (MaxRequests + 1) + 1 : waiters'[i] = s[(MaxRequests + 1) + i - 1]
    <3>0. MaxRequests + 1 \in Int /\ n \in Int
      BY <1>2
    <3>1. waiters' = SubSeq(s, MaxRequests + 1, n)
      <4> HIDE DEF CatchUpWorker
      <4> QED BY <1>1, <1>2
    <3> DEFINE k == MaxRequests + 1
    <3> HIDE DEF k
    <3>2. /\ SubSeq(s, k, n) \in Seq(Account)
          /\ Len(SubSeq(s, k, n)) = IF k <= n THEN n - k + 1 ELSE 0
          /\ \A i \in 1 .. n - k + 1 : SubSeq(s, k, n)[i] = s[k + i - 1]
      BY <2>1, <3>0, SubSeqProperties DEF k
    <3> QED BY <3>1, <3>2 DEF k
  <2> QED BY <1>2, <2>2, LenProperties
<1> DEFINE m == IF MaxRequests <= n THEN MaxRequests ELSE n
<1>6. m \in Nat /\ m <= n /\ m <= MaxRequests
  BY <1>2
<1>7. Cardinality(Reading(worker')) = m
  <2> DEFINE f == [i \in 1 .. m |-> s[i]]
  <2>1. Reading(worker') = {s[i] : i \in 1 .. m}
    BY <1>2, <1>4 DEF Reading
  <2>2. f \in Bijection(1 .. m, Reading(worker'))
    BY <1>2, <1>6, <2>1 DEF Bijection, Injection, IsInjective, Surjection
  <2>3. ExistsBijection(1 .. m, Reading(worker'))
    BY <2>2 DEF ExistsBijection
  <2> QED BY <1>6, <2>3, FS_CountingElements
<1>8. waiters' # <<>> => m = MaxRequests
  <2>1. DOMAIN <<>> = {}
    BY EmptySeq
  <2>2. ~(MaxRequests + 1 <= n) => waiters' = <<>>
    <3>0. MaxRequests + 1 \in Int /\ n \in Int
      BY <1>2
    <3>1. waiters' = SubSeq(s, MaxRequests + 1, n)
      <4> HIDE DEF CatchUpWorker
      <4> QED BY <1>1, <1>2
    <3>2. ~(MaxRequests + 1 <= n) => n < MaxRequests + 1
      BY <1>2
    <3> DEFINE k == MaxRequests + 1
    <3> HIDE DEF k
    <3>3. n < k => SubSeq(s, k, n) = <<>>
      BY <3>0, SubSeqEmpty DEF k
    <3> QED BY <3>1, <3>2, <3>3 DEF k
  <2> QED BY <1>2, <2>2
<1>9. \A i \in DOMAIN waiters' :
        i \in 1 .. n - MaxRequests /\ MaxRequests + i \in 1 .. n /\ ~(MaxRequests + i <= MaxRequests)
  BY <1>2, <1>5
<1>10. \A i \in DOMAIN waiters' : worker'[waiters'[i]].at = "waiting"
  BY <1>2, <1>4, <1>5, <1>9
<1>11. \A i, j \in DOMAIN waiters' : waiters'[i] = waiters'[j] => i = j
  <2> SUFFICES ASSUME NEW i \in DOMAIN waiters', NEW j \in DOMAIN waiters',
                      waiters'[i] = waiters'[j]
               PROVE  i = j
    OBVIOUS
  <2>1. MaxRequests + i = MaxRequests + j
    BY <1>2, <1>5, <1>9
  <2> QED BY <1>2, <1>9, <2>1
<1>12. Queued'
  BY <1>4, <1>5, <1>6, <1>7, <1>8, <1>10, <1>11 DEF Queued, Line
<1>13. /\ inbox' \in Box
       /\ \A a \in Account, i \in Message : inbox'[a][i] = "absent" <=> inbox[a][i] = "absent"
  BY DEF Inv, TypeOK, Start, Box
<1>14. pending' = [a \in Account |-> NoRequest] /\ NoRequest \in Request
  BY WorkerTypes DEF Start
<1>15. TypeOK'
  <2>1. preempted' \in [Account -> SUBSET Conversation] /\ pending' \in [Account -> Request]
    BY <1>14 DEF Start
  <2> QED BY <1>4, <1>5, <1>13, <2>1 DEF Inv, TypeOK, Start, bounds, Box
<1>16. NoLostRequest' /\ NobodyWaits'
  BY <1>14 DEF NoLostRequest, NobodyWaits, Accepting, Start
<1>17. CursorMatchesInbox'
  BY <1>13 DEF Inv, CursorMatchesInbox, Start
<1> QED BY <1>12, <1>15, <1>16, <1>17 DEF Inv

-----------------------------------------------------------------------------
(* The invariant.                                                          *)

LEMMA InitInv ==
  ASSUME ConstantsOK, Init
  PROVE  Inv
<1>1. worker = [a \in Account |-> NoWorker] /\ waiters = <<>> /\ mode = "stopped"
  BY DEF Init
<1>2. worker \in [Account -> Worker] /\ Reading(worker) = {}
  BY <1>1, WorkerTypes DEF Reading, NoWorker
<1>3. waiters \in Seq(Account) /\ DOMAIN waiters = {}
  BY <1>1, EmptySeq
<1>4. Queued
  <2>1. Cardinality(Reading(worker)) = 0
    BY <1>2, FS_EmptySet
  <2> QED BY <1>1, <1>2, <1>3, <2>1 DEF Queued, Line, ConstantsOK
<1>5. TypeOK
  <2>1. pending \in [Account -> Request]
    BY WorkerTypes DEF Init
  <2>2. /\ log \in [Account -> 0 .. Length] /\ called \in [Account -> 0 .. Length]
        /\ cursor \in [Account -> 0 .. Length]
        /\ failures \in 0 .. MaxFailures /\ stops \in 0 .. MaxStops
    BY DEF Init, ConstantsOK
  <2>3. drain \in BOOLEAN
    BY DEF Init
  <2> QED BY <1>2, <1>3, <2>1, <2>2, <2>3 DEF Init, TypeOK
<1>6. CursorMatchesInbox
  BY DEF CursorMatchesInbox, Init, Message, ConstantsOK
<1> QED BY <1>1, <1>4, <1>5, <1>6 DEF Inv, NobodyWaits, NoLostRequest, Accepting

LEMMA StepInv ==
  ASSUME ConstantsOK, Inv, [Next]_vars
  PROVE  Inv'
<1>1. CASE UNCHANGED vars
  BY <1>1 DEF Inv, TypeOK, Queued, NobodyWaits, CursorMatchesInbox, NoLostRequest, Accepting,
     vars, durable, requests, bounds
<1>2. ASSUME NEW a \in Account, Callback(a)  PROVE Inv'
  BY <1>2, CallbackInv
<1>3. ASSUME NEW a \in Account, WorkerEnds(a)  PROVE Inv'
  BY <1>3, WorkerEndsInv
<1>4. ASSUME NEW a \in Account, Retry(a)  PROVE Inv'
  BY <1>4, RetryInv
<1>5. ASSUME NEW a \in Account, Page(a)  PROVE Inv'
  BY <1>5, PageInv
<1>6. ASSUME NEW a \in Account, PageFails(a)  PROVE Inv'
  BY <1>6, PageFailsInv
<1>7. ASSUME NEW a \in Account, PageDropped(a)  PROVE Inv'
  BY <1>7, PageDroppedInv
<1>8. ASSUME NEW a \in Account, Grow(a)  PROVE Inv'
  BY <1>8, GrowInv
<1>9. ASSUME NEW a \in Account, NEW c \in Conversation, DrainConversation(a, c)  PROVE Inv'
  BY <1>9, DrainConversationInv
<1>10. CASE StopDrain
  <2>1. drain' \in BOOLEAN
    BY <1>10 DEF StopDrain
  <2> QED BY <1>10, <2>1 DEF StopDrain, Inv, TypeOK, Queued, NobodyWaits, CursorMatchesInbox,
             NoLostRequest, Accepting, durable, requests, bounds
<1>11. CASE Stopped
  BY <1>11 DEF Stopped, Inv, TypeOK, Queued, NobodyWaits, CursorMatchesInbox, NoLostRequest,
     Accepting, durable, requests, bounds
<1> QED BY <1>1, <1>2, <1>3, <1>4, <1>5, <1>6, <1>7, <1>8, <1>9, <1>10, <1>11,
           StopInv, CrashInv, StartInv DEF Next

\* The invariant holds in every state, whatever calls, failures, stops and crashes come.
THEOREM InvHolds ==
  ASSUME ConstantsOK
  PROVE  Spec => []Inv
<1>1. Init => Inv
  BY InitInv
<1>2. Inv /\ [Next]_vars => Inv'
  BY StepInv
<1> QED BY <1>1, <1>2, PTL DEF Spec

\* The state keeps its types.
THEOREM TypeCorrect ==
  ASSUME ConstantsOK
  PROVE  Spec => []TypeOK
<1>1. Inv => TypeOK
  BY DEF Inv
<1> QED BY <1>1, InvHolds, PTL

\* The saved cursor and the stored messages agree (ingestSyncPage), whatever interrupts
\* a page.
THEOREM CursorIsSound ==
  ASSUME ConstantsOK
  PROVE  Spec => []CursorMatchesInbox
<1>1. Inv => CursorMatchesInbox
  BY DEF Inv
<1> QED BY <1>1, InvHolds, PTL

\* An accepted request is never forgotten (#startWorker, #scheduleRetry).
THEOREM RequestsAreKept ==
  ASSUME ConstantsOK
  PROVE  Spec => []NoLostRequest
<1>1. Inv => NoLostRequest
  BY DEF Inv
<1> QED BY <1>1, InvHolds, PTL

\* The request slots are never exceeded, nor left idle while somebody waits
\* (#acquireSyncSlot, #releaseSyncSlot).
THEOREM SlotsAreShared ==
  ASSUME ConstantsOK
  PROVE  Spec => []SlotsAreUsed
<1>1. Inv => SlotsAreUsed
  BY DEF Inv, Queued, Line, SlotsAreUsed
<1> QED BY <1>1, InvHolds, PTL

-----------------------------------------------------------------------------
(* The order of the messages.                                              *)

\* From old to new, no message is handed over ahead of an earlier one of its conversation.
InOrder(old, new) ==
  \A a \in Account, i, j \in Message :
    i < j /\ ConversationOf[i] = ConversationOf[j] /\ old[a][j] # "handed" /\ new[a][j] = "handed"
    => new[a][i] = "handed"

\* What is stored in a box without a gap is handed over in order.
LEMMA HandedOrdered ==
  ASSUME ConstantsOK, NEW old \in Box, NEW box \in Box, NEW c \in [Account -> 0 .. Length],
         \A b \in Account, i \in Message : box[b][i] # "absent" <=> i <= c[b],
         \A b \in Account, i \in Message : box[b][i] = "handed" <=> old[b][i] = "handed",
         NEW a \in Account, NEW conversations
  PROVE  InOrder(old, Handed(a, conversations, box))
<1> DEFINE new == Handed(a, conversations, box)
<1> SUFFICES ASSUME NEW b \in Account, NEW i \in Message, NEW j \in Message,
                    i < j, ConversationOf[i] = ConversationOf[j],
                    old[b][j] # "handed", new[b][j] = "handed"
             PROVE  new[b][i] = "handed"
  BY DEF InOrder
<1>1. box[b][j] # "handed"
  OBVIOUS
<1>2. b = a /\ ConversationOf[j] \in conversations /\ box[a][j] # "absent"
  BY <1>1 DEF Handed, Box
<1>3. box[a][i] # "absent"
  <2>1. i \in Int /\ j \in Int /\ c[a] \in Int
    BY DEF Message, ConstantsOK
  <2> QED BY <1>2, <2>1
<1> QED BY <1>2, <1>3 DEF Handed, Box

\* Storing hands nothing over.
LEMMA IngestHandsNothing ==
  ASSUME ConstantsOK, TypeOK, NEW a \in Account, NEW size
  PROVE  \A b \in Account, i \in Message :
           Ingest(a, size)[b][i] = "handed" <=> inbox[b][i] = "handed"
  BY DEF Ingest, TypeOK

LEMMA NothingHandedInOrder ==
  ASSUME NEW old, NEW new,
         \A b \in Account, i \in Message : new[b][i] = "handed" <=> old[b][i] = "handed"
  PROVE  InOrder(old, new)
  BY DEF InOrder

LEMMA PageInOrder ==
  ASSUME ConstantsOK, Inv, NEW a \in Account, Page(a) \/ PageFails(a)
  PROVE  InOrder(inbox, inbox')
<1>1. TypeOK /\ CursorMatchesInbox /\ inbox \in Box
  BY DEF Inv, TypeOK, Box
<1>2. ASSUME NEW box \in Box, NEW c \in [Account -> 0 .. Length],
             \A b \in Account, i \in Message : box[b][i] # "absent" <=> i <= c[b],
             \A b \in Account, i \in Message : box[b][i] = "handed" <=> inbox[b][i] = "handed",
             inbox' = box \/ \E conversations : inbox' = Handed(a, conversations, box)
      PROVE  InOrder(inbox, inbox')
  BY <1>1, <1>2, HandedOrdered, NothingHandedInOrder
<1>3. CASE Page(a)
  <2>1. PICK size \in 0 .. PageSize :
          /\ cursor[a] + size <= log[a] /\ cursor' = [cursor EXCEPT ![a] = @ + size]
          /\ inbox' = Ingest(a, size) \/ \E conversations :
                                           inbox' = Handed(a, conversations, Ingest(a, size))
    BY <1>3 DEF Page, Interrupted, LastPage, NextPage, Fail, Enqueue
  <2>2. size \in Nat /\ cursor[a] + size <= Length /\ cursor' \in [Account -> 0 .. Length]
    BY <1>1, <2>1 DEF TypeOK, ConstantsOK
  <2>3. /\ Ingest(a, size) \in Box
        /\ \A b \in Account, i \in Message :
             Ingest(a, size)[b][i] # "absent" <=> i <= cursor'[b]
    BY <1>1, <2>1, <2>2, IngestMatches
  <2>4. \A b \in Account, i \in Message :
          Ingest(a, size)[b][i] = "handed" <=> inbox[b][i] = "handed"
    BY <1>1, IngestHandsNothing
  <2>5. CASE inbox' = Ingest(a, size)
    BY <2>4, <2>5, NothingHandedInOrder
  <2>6. ASSUME NEW conversations, inbox' = Handed(a, conversations, Ingest(a, size))
        PROVE  InOrder(inbox, inbox')
    <3>1. InOrder(inbox, Handed(a, conversations, Ingest(a, size)))
      BY <1>1, <2>2, <2>3, <2>4, HandedOrdered
    <3> QED BY <2>6, <3>1
  <2> QED BY <2>1, <2>5, <2>6
<1>4. CASE PageFails(a)
  <2>1. inbox' = inbox \/ \E conversations : inbox' = Handed(a, conversations, inbox)
    BY <1>4 DEF PageFails, Fail, Enqueue
  <2>2. cursor \in [Account -> 0 .. Length]
    BY <1>1 DEF TypeOK
  <2> QED BY <1>1, <1>2, <2>1, <2>2 DEF CursorMatchesInbox
<1> QED BY <1>3, <1>4

\* The messages of a conversation reach the processor in the order of the log, live ones
\* after the backlog (#enqueueLiveConversations, promoteDeferredConversation).
THEOREM MessagesInOrder ==
  ASSUME ConstantsOK
  PROVE  Spec => HandedInOrder
<1>1. Inv /\ [Next]_vars => [~HandedOutOfOrder]_vars
  <2> SUFFICES ASSUME Inv, Next, Accepting  PROVE InOrder(inbox, inbox')
    BY DEF HandedOutOfOrder, InOrder
  <2>1. \/ \E a \in Account : Page(a) \/ PageFails(a)
        \/ \E a \in Account, c \in Conversation : DrainConversation(a, c)
        \/ inbox' = inbox
    BY DEF Next, Callback, WorkerEnds, Retry, PageDropped, Grow, StopDrain, Stop, Stopped, Crash,
       Start, Accepting, durable
  <2>2. inbox \in Box /\ cursor \in [Account -> 0 .. Length] /\ CursorMatchesInbox
    BY DEF Inv, TypeOK, Box
  <2>3. ASSUME NEW a \in Account, NEW c \in Conversation, DrainConversation(a, c)
        PROVE  InOrder(inbox, inbox')
    BY <2>2, <2>3, HandedOrdered DEF DrainConversation, CursorMatchesInbox
  <2> QED BY <2>1, <2>3, PageInOrder, NothingHandedInOrder
<1> QED BY <1>1, InvHolds, PTL DEF Spec, HandedInOrder
=============================================================================
