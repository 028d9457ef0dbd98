-------------------------- MODULE AdmissionProofs --------------------------
(***************************************************************************)
(* What Admission guarantees for any conversations, messages and limits:   *)
(* slots are handed out within the limit, backlog runs alone, nobody waits *)
(* while there is room or stands in line twice, live input comes first,    *)
(* and what was answered is never taken for new.                           *)
(***************************************************************************)
EXTENDS Admission, TLAPS, SequenceTheorems, FunctionTheorems, FiniteSetTheorems

NoRepeats(w) == \A i, j \in DOMAIN w : w[i] = w[j] => i = j

-----------------------------------------------------------------------------
(* Lines of conversations.                                                 *)

LEMMA LineFacts ==
  ASSUME NEW w \in Seq(Conversation)
  PROVE  /\ Len(w) \in Nat
         /\ DOMAIN w = 1 .. Len(w)
         /\ \A i \in 1 .. Len(w) : w[i] \in Conversation
         /\ \A c : InLine(c, w) <=> \E i \in 1 .. Len(w) : w[i] = c
         /\ \A c : InLine(c, w) => c \in Conversation
BY DEF InLine

\* The head of a line and the rest of it.
LEMMA TailLemma ==
  ASSUME NEW w \in Seq(Conversation), w # <<>>, NoRepeats(w)
  PROVE  /\ Tail(w) \in Seq(Conversation)
         /\ NoRepeats(Tail(w))
         /\ Head(w) \in Conversation
         /\ InLine(Head(w), w)
         /\ \A c : InLine(c, Tail(w)) <=> InLine(c, w) /\ c # Head(w)
<1>1. /\ Tail(w) \in Seq(Conversation)
      /\ Head(w) \in Conversation
      /\ Len(Tail(w)) = Len(w) - 1
      /\ \A i \in 1 .. Len(Tail(w)) : Tail(w)[i] = w[i + 1]
  BY HeadTailProperties
<1>2. Len(w) \in Nat \ {0} /\ Head(w) = w[1]
  BY EmptySeq, LenProperties
<1>3. NoRepeats(Tail(w))
  BY <1>1, <1>2, LineFacts DEF NoRepeats
<1>4. InLine(Head(w), w)
  BY <1>2, LineFacts
<1>5. ASSUME NEW c
      PROVE  InLine(c, Tail(w)) <=> InLine(c, w) /\ c # Head(w)
  <2>1. ASSUME InLine(c, Tail(w))
        PROVE  InLine(c, w) /\ c # Head(w)
    <3>1. PICK i \in 1 .. Len(Tail(w)) : Tail(w)[i] = c
      BY <2>1, <1>1, LineFacts
    <3>2. i + 1 \in 1 .. Len(w) /\ w[i + 1] = c /\ i + 1 # 1
      BY <3>1, <1>1, <1>2
    <3>3. QED
      BY <3>2, <1>2, LineFacts DEF NoRepeats
  <2>2. ASSUME InLine(c, w), c # Head(w)
        PROVE  InLine(c, Tail(w))
    <3>1. PICK i \in 1 .. Len(w) : w[i] = c
      BY <2>2, LineFacts
    <3>2. i - 1 \in 1 .. Len(Tail(w)) /\ Tail(w)[i - 1] = c
      BY <3>1, <2>2, <1>1, <1>2
    <3>3. QED
      BY <3>2, <1>1, LineFacts
  <2>3. QED
    BY <2>1, <2>2
<1>6. QED
  BY <1>1, <1>3, <1>4, <1>5

\* A line cut in two after its n-th conversation.
LEMMA PartsLemma ==
  ASSUME NEW w \in Seq(Conversation), NEW n \in 0 .. Len(w)
  PROVE  /\ SubSeq(w, 1, n) \in Seq(Conversation)
         /\ Len(SubSeq(w, 1, n)) = n
         /\ \A i \in 1 .. n : SubSeq(w, 1, n)[i] = w[i]
         /\ SubSeq(w, n + 1, Len(w)) \in Seq(Conversation)
         /\ Len(SubSeq(w, n + 1, Len(w))) = Len(w) - n
         /\ \A i \in 1 .. Len(w) - n : SubSeq(w, n + 1, Len(w))[i] = w[n + i]
         /\ \A c : InLine(c, SubSeq(w, 1, n)) <=> \E i \in 1 .. n : w[i] = c
         /\ \A c : InLine(c, SubSeq(w, n + 1, Len(w))) <=> \E i \in n + 1 .. Len(w) : w[i] = c
<1> DEFINE first == SubSeq(w, 1, n)
           rest == SubSeq(w, n + 1, Len(w))
<1>1. Len(w) \in Nat /\ n \in Nat /\ n <= Len(w)
  BY LineFacts
<1>2. /\ first \in Seq(Conversation) /\ Len(first) = n
      /\ \A i \in 1 .. n : first[i] = w[i]
  <2>1. \A i \in 1 .. n : w[i] \in Conversation
    BY <1>1, LineFacts
  <2>2. /\ first \in Seq(Conversation)
        /\ Len(first) = IF 1 <= n THEN n - 1 + 1 ELSE 0
        /\ \A i \in 1 .. n - 1 + 1 : first[i] = w[1 + i - 1]
    BY <1>1, <2>1, SubSeqProperties
  <2>3. QED
    BY <1>1, <2>2
<1>3. /\ rest \in Seq(Conversation) /\ Len(rest) = Len(w) - n
      /\ \A i \in 1 .. Len(w) - n : rest[i] = w[n + i]
  <2>1. \A i \in n + 1 .. Len(w) : w[i] \in Conversation
    BY <1>1, LineFacts
  <2>2. /\ rest \in Seq(Conversation)
        /\ Len(rest) = IF n + 1 <= Len(w) THEN Len(w) - (n + 1) + 1 ELSE 0
        /\ \A i \in 1 .. Len(w) - (n + 1) + 1 : rest[i] = w[(n + 1) + i - 1]
    BY <1>1, <2>1, SubSeqProperties
  <2>3. QED
    BY <1>1, <2>2
<1>4. /\ \A c : InLine(c, first) <=> \E i \in 1 .. n : w[i] = c
      /\ \A c : InLine(c, rest) <=> \E i \in n + 1 .. Len(w) : w[i] = c
  <2>1. \A c : InLine(c, first) <=> \E i \in 1 .. n : w[i] = c
    <3>1. \A c : InLine(c, first) <=> \E i \in 1 .. Len(first) : first[i] = c
      <4> HIDE DEF first
      <4>1. QED
        BY <1>2, LineFacts
    <3>2. QED
      BY <3>1, <1>2
  <2>2. ASSUME NEW c, InLine(c, rest)
        PROVE  \E i \in n + 1 .. Len(w) : w[i] = c
    <3>1. PICK i \in 1 .. Len(w) - n : rest[i] = c
      BY <2>2, <1>3, LineFacts
    <3>2. n + i \in n + 1 .. Len(w) /\ w[n + i] = c
      BY <3>1, <1>1, <1>3
    <3>3. QED
      BY <3>2
  <2>3. ASSUME NEW c, NEW i \in n + 1 .. Len(w), w[i] = c
        PROVE  InLine(c, rest)
    <3>1. i - n \in 1 .. Len(w) - n /\ rest[i - n] = c
      BY <2>3, <1>1, <1>3
    <3>2. QED
      BY <3>1, <1>3, LineFacts
  <2>4. QED
    BY <2>1, <2>2, <2>3
<1>5. QED
  BY <1>2, <1>3, <1>4

\* The first n of a line are n conversations; the others stay in line.
LEMMA FirstsLemma ==
  ASSUME NEW w \in Seq(Conversation), NoRepeats(w), NEW n \in 0 .. Len(w)
  PROVE  /\ SubSeq(w, n + 1, Len(w)) \in Seq(Conversation)
         /\ Len(SubSeq(w, n + 1, Len(w))) = Len(w) - n
         /\ NoRepeats(SubSeq(w, 1, n))
         /\ NoRepeats(SubSeq(w, n + 1, Len(w)))
         /\ IsFiniteSet({c \in Conversation : InLine(c, SubSeq(w, 1, n))})
         /\ Cardinality({c \in Conversation : InLine(c, SubSeq(w, 1, n))}) = n
         /\ \A c : /\ InLine(c, SubSeq(w, 1, n)) => InLine(c, w)
                   /\ InLine(c, SubSeq(w, n + 1, Len(w)))
                        <=> InLine(c, w) /\ ~ InLine(c, SubSeq(w, 1, n))
<1> DEFINE first == SubSeq(w, 1, n)
           rest == SubSeq(w, n + 1, Len(w))
           G == {c \in Conversation : InLine(c, first)}
<1>1. Len(w) \in Nat /\ n \in Nat /\ n <= Len(w)
  BY LineFacts
<1>2. /\ first \in Seq(Conversation) /\ Len(first) = n
      /\ \A i \in 1 .. n : first[i] = w[i]
  BY PartsLemma
<1>3. /\ rest \in Seq(Conversation) /\ Len(rest) = Len(w) - n
      /\ \A i \in 1 .. Len(w) - n : rest[i] = w[n + i]
  BY PartsLemma
<1>4. /\ \A c : InLine(c, first) <=> \E i \in 1 .. n : w[i] = c
      /\ \A c : InLine(c, rest) <=> \E i \in n + 1 .. Len(w) : w[i] = c
  BY PartsLemma
<1>0. NoRepeats(first)
  <2> HIDE DEF first
  <2>1. DOMAIN first = 1 .. n
    BY <1>2, LineFacts
  <2>2. QED
    BY <2>1, <1>1, <1>2, LineFacts DEF NoRepeats
<1>5. NoRepeats(rest)
  <2> HIDE DEF rest
  <2>1. ASSUME NEW i \in 1 .. Len(w) - n, NEW j \in 1 .. Len(w) - n, rest[i] = rest[j]
        PROVE  i = j
    <3>1. n + i \in 1 .. Len(w) /\ n + j \in 1 .. Len(w)
      BY <1>1
    <3>2. w[n + i] = w[n + j]
      BY <2>1, <1>3
    <3>3. n + i = n + j
      BY <3>1, <3>2, LineFacts DEF NoRepeats
    <3>4. QED
      BY <3>3, <1>1
  <2>2. DOMAIN rest = 1 .. Len(w) - n
    BY <1>3, LineFacts
  <2>3. QED
    BY <2>1, <2>2 DEF NoRepeats
<1>6. IsFiniteSet(G) /\ Cardinality(G) = n
  <2> DEFINE f == [i \in 1 .. n |-> w[i]]
  <2>1. \A i \in 1 .. n : w[i] \in G
    BY <1>1, <1>4, LineFacts
  <2>2. f \in Bijection(1 .. n, G)
    <3>1. f \in Injection(1 .. n, G)
      <4>1. f \in [1 .. n -> G]
        BY <2>1
      <4>2. \A i, j \in 1 .. n : f[i] = f[j] => i = j
        BY <1>1, LineFacts DEF NoRepeats
      <4>3. QED
        BY <4>1, <4>2, Fun_IsInj
    <3>2. f \in Surjection(1 .. n, G)
      <4>1. f \in [1 .. n -> G]
        BY <2>1
      <4>2. \A c \in G : \E i \in 1 .. n : f[i] = c
        BY <1>4
      <4>3. QED
        BY <4>1, <4>2, Fun_IsSurj
    <3>3. QED
      BY <3>1, <3>2, Fun_IsBij
  <2>3. IsFiniteSet(1 .. n) /\ Cardinality(1 .. n) = n
    BY <1>1, FS_Interval
  <2>4. ExistsBijection(1 .. n, G)
    BY <2>2 DEF ExistsBijection
  <2>5. QED
    BY <2>3, <2>4, FS_Bijection
<1>7. ASSUME NEW c
      PROVE  /\ InLine(c, first) => InLine(c, w)
             /\ InLine(c, rest) <=> InLine(c, w) /\ ~ InLine(c, first)
  <2>1. InLine(c, first) \/ InLine(c, rest) <=> InLine(c, w)
    BY <1>1, <1>4, LineFacts
  <2>2. ~ (InLine(c, first) /\ InLine(c, rest))
    BY <1>1, <1>4, LineFacts DEF NoRepeats
  <2>3. QED
    BY <2>1, <2>2
<1>8. QED
  BY <1>0, <1>3, <1>5, <1>6, <1>7

\* Two lines, one behind the other.
LEMMA ConcatLemma ==
  ASSUME NEW u \in Seq(Conversation), NEW v \in Seq(Conversation)
  PROVE  /\ u \o v \in Seq(Conversation)
         /\ \A c : InLine(c, u \o v) <=> InLine(c, u) \/ InLine(c, v)
         /\ NoRepeats(u \o v) <=>
              NoRepeats(u) /\ NoRepeats(v) /\ \A c : ~ (InLine(c, u) /\ InLine(c, v))
<1> DEFINE w == u \o v
<1>1. /\ w \in Seq(Conversation)
      /\ Len(w) = Len(u) + Len(v)
      /\ \A i \in 1 .. Len(u) + Len(v) : w[i] = IF i <= Len(u) THEN u[i] ELSE v[i - Len(u)]
  BY ConcatProperties
<1>2. Len(u) \in Nat /\ Len(v) \in Nat
  BY LineFacts
<1>3. /\ DOMAIN u = 1 .. Len(u) /\ DOMAIN v = 1 .. Len(v)
      /\ DOMAIN w = 1 .. Len(u) + Len(v)
  BY <1>1, LineFacts
<1> HIDE DEF w
<1>4. \A i \in 1 .. Len(u) : i \in DOMAIN w /\ w[i] = u[i]
  BY <1>1, <1>2, <1>3
<1>5. \A i \in 1 .. Len(v) : Len(u) + i \in DOMAIN w /\ w[Len(u) + i] = v[i]
  <2>1. SUFFICES ASSUME NEW i \in 1 .. Len(v)
                 PROVE  Len(u) + i \in DOMAIN w /\ w[Len(u) + i] = v[i]
    OBVIOUS
  <2>2. Len(u) + i \in 1 .. Len(u) + Len(v) /\ ~ (Len(u) + i <= Len(u)) /\ Len(u) + i - Len(u) = i
    BY <1>2
  <2>3. QED
    BY <2>2, <1>1, <1>3
<1>6. \A i \in DOMAIN w : \/ i \in 1 .. Len(u) /\ w[i] = u[i]
                          \/ i - Len(u) \in 1 .. Len(v) /\ w[i] = v[i - Len(u)]
  BY <1>1, <1>2, <1>3
<1>7. ASSUME NEW c
      PROVE  InLine(c, w) <=> InLine(c, u) \/ InLine(c, v)
  BY <1>3, <1>4, <1>5, <1>6 DEF InLine
<1>8. ASSUME NoRepeats(w)
      PROVE  NoRepeats(u) /\ NoRepeats(v) /\ \A c : ~ (InLine(c, u) /\ InLine(c, v))
  <2>1. NoRepeats(u)
    BY <1>8, <1>3, <1>4 DEF NoRepeats
  <2>2. NoRepeats(v)
    <3>1. SUFFICES ASSUME NEW i \in 1 .. Len(v), NEW j \in 1 .. Len(v), v[i] = v[j]
                   PROVE  i = j
      BY <1>3 DEF NoRepeats
    <3>2. Len(u) + i = Len(u) + j
      BY <3>1, <1>8, <1>5 DEF NoRepeats
    <3>3. QED
      BY <3>2, <1>2
  <2>3. ASSUME NEW i \in 1 .. Len(u), NEW j \in 1 .. Len(v), u[i] = v[j]
        PROVE  FALSE
    <3>1. i = Len(u) + j
      BY <2>3, <1>8, <1>4, <1>5 DEF NoRepeats
    <3>2. QED
      BY <3>1, <1>2
  <2>4. \A c : ~ (InLine(c, u) /\ InLine(c, v))
    BY <2>3, <1>3 DEF InLine
  <2>5. QED
    BY <2>1, <2>2, <2>4
<1>9. ASSUME NoRepeats(u), NoRepeats(v), \A c : ~ (InLine(c, u) /\ InLine(c, v))
      PROVE  NoRepeats(w)
  <2>1. SUFFICES ASSUME NEW i \in DOMAIN w, NEW j \in DOMAIN w, w[i] = w[j]
                 PROVE  i = j
    BY DEF NoRepeats
  <2>2. i \in Int /\ j \in Int
    BY <1>2, <1>3
  <2>3. CASE i \in 1 .. Len(u) /\ w[i] = u[i] /\ j \in 1 .. Len(u) /\ w[j] = u[j]
    BY <2>1, <2>3, <1>9, <1>3 DEF NoRepeats
  <2>4. CASE /\ i - Len(u) \in 1 .. Len(v) /\ w[i] = v[i - Len(u)]
             /\ j - Len(u) \in 1 .. Len(v) /\ w[j] = v[j - Len(u)]
    <3>1. i - Len(u) = j - Len(u)
      BY <2>1, <2>4, <1>9, <1>3 DEF NoRepeats
    <3>2. QED
      BY <3>1, <2>2, <1>2
  <2>5. CASE /\ i \in 1 .. Len(u) /\ w[i] = u[i]
             /\ j - Len(u) \in 1 .. Len(v) /\ w[j] = v[j - Len(u)]
    <3>1. InLine(w[i], u) /\ InLine(w[i], v)
      BY <2>1, <2>5, <1>3 DEF InLine
    <3>2. QED
      BY <3>1, <1>9
  <2>6. CASE /\ j \in 1 .. Len(u) /\ w[j] = u[j]
             /\ i - Len(u) \in 1 .. Len(v) /\ w[i] = v[i - Len(u)]
    <3>1. InLine(w[i], u) /\ InLine(w[i], v)
      BY <2>1, <2>6, <1>3 DEF InLine
    <3>2. QED
      BY <3>1, <1>9
  <2>7. QED
    BY <1>6, <2>3, <2>4, <2>5, <2>6
<1>10. QED
  BY <1>1, <1>7, <1>8, <1>9 DEF w

\* A conversation joins a line it does not stand in.
LEMMA AppendLemma ==
  ASSUME NEW w \in Seq(Conversation), NoRepeats(w), NEW c \in Conversation, ~ InLine(c, w)
  PROVE  /\ Append(w, c) \in Seq(Conversation)
         /\ NoRepeats(Append(w, c))
         /\ \A d : InLine(d, Append(w, c)) <=> InLine(d, w) \/ d = c
<1> DEFINE l == Append(w, c)
<1>1. /\ l \in Seq(Conversation)
      /\ Len(l) = Len(w) + 1
      /\ \A i \in 1 .. Len(w) : l[i] = w[i]
      /\ l[Len(w) + 1] = c
  BY AppendProperties
<1> HIDE DEF l
<1>2. Len(w) \in Nat /\ DOMAIN w = 1 .. Len(w) /\ DOMAIN l = 1 .. Len(w) + 1
  BY <1>1, LineFacts
<1>3. \A d : InLine(d, l) <=> InLine(d, w) \/ d = c
  BY <1>1, <1>2 DEF InLine
<1>4. NoRepeats(l)
  <2>1. \A i \in 1 .. Len(w) : w[i] # c
    BY <1>2 DEF InLine
  <2>2. \A i \in 1 .. Len(w) + 1 : i \in 1 .. Len(w) \/ i = Len(w) + 1
    BY <1>2
  <2>3. QED
    BY <2>1, <2>2, <1>1, <1>2 DEF NoRepeats
<1>5. QED
  BY <1>1, <1>3, <1>4 DEF l

\* A conversation leaves its line.
LEMMA WithoutLemma ==
  ASSUME NEW w \in Seq(Conversation), NoRepeats(w), NEW c, InLine(c, w)
  PROVE  /\ Without(c, w) \in Seq(Conversation)
         /\ NoRepeats(Without(c, w))
         /\ \A d : InLine(d, Without(c, w)) <=> InLine(d, w) /\ d # c
<1> DEFINE P(i) == w[i] = c /\ ~ InLine(c, SubSeq(w, 1, i - 1))
           i == CHOOSE i \in DOMAIN w : P(i)
<1>1. Len(w) \in Nat /\ DOMAIN w = 1 .. Len(w)
  BY LineFacts
<1>2. \E k \in DOMAIN w : P(k)
  <2>1. PICK k \in DOMAIN w : w[k] = c
    BY DEF InLine
  <2>2. k - 1 \in 0 .. Len(w) /\ ~ (k \in 1 .. k - 1)
    BY <1>1
  <2>3. \A j \in 1 .. k - 1 : j \in DOMAIN w /\ j # k
    BY <1>1
  <2>4. ~ InLine(c, SubSeq(w, 1, k - 1))
    BY <2>1, <2>2, <2>3, PartsLemma DEF NoRepeats
  <2>5. QED
    BY <2>1, <2>4
<1>3. i \in DOMAIN w /\ w[i] = c
  BY <1>2
<1>4. Without(c, w) = SubSeq(w, 1, i - 1) \o SubSeq(w, i + 1, Len(w))
  BY DEF Without
<1> HIDE DEF i
<1>5. i - 1 \in 0 .. Len(w) /\ i \in 0 .. Len(w) /\ i \in 1 .. Len(w)
  BY <1>1, <1>3
<1> DEFINE u == SubSeq(w, 1, i - 1)
           v == SubSeq(w, i + 1, Len(w))
<1>6. /\ u \in Seq(Conversation) /\ NoRepeats(u)
      /\ \A d : InLine(d, u) <=> \E j \in 1 .. i - 1 : w[j] = d
  BY <1>5, PartsLemma, FirstsLemma
<1>7. /\ v \in Seq(Conversation) /\ NoRepeats(v)
      /\ \A d : InLine(d, v) <=> \E j \in i + 1 .. Len(w) : w[j] = d
  BY <1>5, PartsLemma, FirstsLemma
<1> HIDE DEF u, v
<1>8. \A d : ~ (InLine(d, u) /\ InLine(d, v))
  <2>1. \A j \in 1 .. i - 1, k \in i + 1 .. Len(w) : j \in DOMAIN w /\ k \in DOMAIN w /\ j # k
    BY <1>1, <1>5
  <2>2. QED
    BY <2>1, <1>6, <1>7 DEF NoRepeats
<1>9. \A d : InLine(d, u) \/ InLine(d, v) <=> InLine(d, w) /\ d # c
  <2>1. \A j \in DOMAIN w : j \in 1 .. i - 1 \/ j = i \/ j \in i + 1 .. Len(w)
    BY <1>1, <1>5
  <2>2. \A j : j \in 1 .. i - 1 \/ j \in i + 1 .. Len(w) => j \in DOMAIN w /\ j # i
    BY <1>1, <1>5
  <2>3. ASSUME NEW d, InLine(d, w), d # c
        PROVE  InLine(d, u) \/ InLine(d, v)
    BY <2>1, <2>3, <1>3, <1>6, <1>7 DEF InLine
  <2>4. ASSUME NEW d, InLine(d, u) \/ InLine(d, v)
        PROVE  InLine(d, w) /\ d # c
    <3>1. PICK j : (j \in 1 .. i - 1 \/ j \in i + 1 .. Len(w)) /\ w[j] = d
      BY <2>4, <1>6, <1>7
    <3>2. j \in DOMAIN w /\ j # i
      BY <3>1, <2>2
    <3>3. QED
      BY <3>1, <3>2, <1>3 DEF InLine, NoRepeats
  <2>5. QED
    BY <2>3, <2>4
<1>10. /\ u \o v \in Seq(Conversation) /\ NoRepeats(u \o v)
       /\ \A d : InLine(d, u \o v) <=> InLine(d, u) \/ InLine(d, v)
  BY <1>6, <1>7, <1>8, ConcatLemma
<1>11. Without(c, w) = u \o v
  BY <1>4 DEF u, v
<1>12. QED
  BY <1>9, <1>10, <1>11

\* What a line keeps of the conversations C.
LEMMA KeptLemma ==
  ASSUME NEW w \in Seq(Conversation), NoRepeats(w), NEW C
  PROVE  /\ Kept(w, C) \in Seq(Conversation)
         /\ NoRepeats(Kept(w, C))
         /\ \A d : InLine(d, Kept(w, C)) <=> InLine(d, w) /\ d \in C
<1> DEFINE I == {i \in DOMAIN w : w[i] \in C}
           N == Cardinality(I)
           upTo(i) == {j \in I : j <= i}
           rank == [i \in I |-> Cardinality(upTo(i))]
<1>1. Len(w) \in Nat /\ DOMAIN w = 1 .. Len(w)
  BY LineFacts
<1>2. IsFiniteSet(I) /\ N \in Nat
  <2>1. I \in SUBSET (1 .. Len(w))
    BY <1>1
  <2>2. IsFiniteSet(1 .. Len(w))
    BY <1>1, FS_Interval
  <2> HIDE DEF I
  <2>3. QED
    BY <2>1, <2>2, FS_Subset, FS_CardinalityType
<1>3. \A i \in I : i \in Int
  BY <1>1
<1> HIDE DEF I
<1>4. ASSUME NEW i \in I
      PROVE  upTo(i) \in SUBSET I /\ IsFiniteSet(upTo(i)) /\ Cardinality(upTo(i)) \in 1 .. N
  <2>1. IsFiniteSet(upTo(i)) /\ Cardinality(upTo(i)) <= N
    BY <1>2, FS_Subset
  <2>2. i \in upTo(i)
    BY <1>3
  <2>3. Cardinality(upTo(i)) \in Nat /\ Cardinality(upTo(i)) # 0
    BY <2>1, <2>2, FS_CardinalityType, FS_EmptySet
  <2>4. QED
    BY <2>1, <2>3, <1>2
<1>5. ASSUME NEW i \in I, NEW j \in I, i < j
      PROVE  rank[i] < rank[j]
  <2>1. j \notin upTo(i) /\ (upTo(i) \cup {j}) \in SUBSET upTo(j)
    BY <1>3, <1>5
  <2>2. Cardinality(upTo(i) \cup {j}) = Cardinality(upTo(i)) + 1
    BY <2>1, <1>4, FS_AddElement
  <2>3. Cardinality(upTo(i) \cup {j}) <= Cardinality(upTo(j))
    BY <2>1, <1>4, FS_Subset
  <2>4. Cardinality(upTo(i)) \in Nat /\ Cardinality(upTo(j)) \in Nat
    BY <1>4, FS_CardinalityType
  <2>5. QED
    BY <2>2, <2>3, <2>4
<1>6. rank \in [I -> 1 .. N]
  BY <1>4
<1>7. \A i, j \in I : rank[i] = rank[j] => i = j
  <2>1. SUFFICES ASSUME NEW i \in I, NEW j \in I, rank[i] = rank[j], i # j
                 PROVE  FALSE
    OBVIOUS
  <2>2. rank[i] \in Int /\ rank[j] \in Int
    BY <1>6
  <2> HIDE DEF rank
  <2>3. QED
    BY <2>1, <2>2, <1>3, <1>5
<1>8. \A k \in 1 .. N : \E i \in I : rank[i] = k
  <2>1. rank \in Injection(I, 1 .. N)
    BY <1>6, <1>7, Fun_IsInj
  <2>2. IsFiniteSet(1 .. N) /\ Cardinality(1 .. N) = N
    BY <1>2, FS_Interval
  <2> HIDE DEF rank
  <2>3. rank \in Surjection(I, 1 .. N)
    BY <2>1, <2>2, FS_Injection
  <2>4. QED
    BY <2>3, Fun_SurjectionProperties
<1>9. ASSUME NEW k \in 1 .. N
      PROVE  Nth(I, k) \in I /\ rank[Nth(I, k)] = k
  <2>1. \E i \in I : Cardinality({j \in I : j <= i}) = k
    BY <1>8
  <2>2. Nth(I, k) \in I /\ Cardinality({j \in I : j <= Nth(I, k)}) = k
    BY <2>1 DEF Nth
  <2>3. QED
    BY <2>2
<1>10. Kept(w, C) = [k \in 1 .. N |-> w[Nth(I, k)]]
  BY DEF Kept, I
<1>11. \A i \in I : i \in DOMAIN w /\ w[i] \in C /\ w[i] \in Conversation
  BY LineFacts DEF I
<1>12. Kept(w, C) \in Seq(Conversation) /\ DOMAIN Kept(w, C) = 1 .. N
  <2>1. \A k \in 1 .. N : w[Nth(I, k)] \in Conversation
    BY <1>9, <1>11
  <2>2. QED
    BY <2>1, <1>2, <1>10, IsASeq
<1>13. NoRepeats(Kept(w, C))
  <2>1. SUFFICES ASSUME NEW k \in 1 .. N, NEW l \in 1 .. N, w[Nth(I, k)] = w[Nth(I, l)]
                 PROVE  k = l
    BY <1>10, <1>12 DEF NoRepeats
  <2>2. Nth(I, k) = Nth(I, l)
    BY <2>1, <1>9, <1>11 DEF NoRepeats
  <2>3. QED
    BY <2>2, <1>9
<1>14. ASSUME NEW d
       PROVE  InLine(d, Kept(w, C)) <=> InLine(d, w) /\ d \in C
  <2>1. ASSUME InLine(d, Kept(w, C))
        PROVE  InLine(d, w) /\ d \in C
    <3>1. PICK k \in 1 .. N : w[Nth(I, k)] = d
      BY <2>1, <1>10, <1>12 DEF InLine
    <3>2. QED
      BY <3>1, <1>9, <1>11 DEF InLine
  <2>2. ASSUME InLine(d, w), d \in C
        PROVE  InLine(d, Kept(w, C))
    <3>1. PICK i \in I : w[i] = d
      BY <2>2 DEF InLine, I
    <3>2. rank[i] \in 1 .. N
      BY <1>6
    <3>3. Nth(I, rank[i]) = i
      BY <3>2, <1>7, <1>9
    <3>4. QED
      BY <3>1, <3>2, <3>3, <1>10, <1>12 DEF InLine
  <2>3. QED
    BY <2>1, <2>2
<1>15. QED
  BY <1>12, <1>13, <1>14

-----------------------------------------------------------------------------
(* Slots and the two lines.                                                *)

\* The lines are disjoint, without repetitions, and nobody in them has a slot.
Lined(s, high, low) ==
  /\ s \in [Conversation -> {"none", "low", "high"}]
  /\ high \in Seq(Conversation) /\ low \in Seq(Conversation)
  /\ NoRepeats(high) /\ NoRepeats(low)
  /\ \A c : ~ (InLine(c, high) /\ InLine(c, low))
  /\ \A c : InLine(c, high) \/ InLine(c, low) => s[c] = "none"

\* The limit is kept, and backlog has it to itself.
Bounded(s) ==
  /\ IsFiniteSet(Active(s))
  /\ Cardinality(Active(s)) <= MaxConcurrent
  /\ LowActive(s) # {} => Cardinality(Active(s)) = 1

\* Nobody waits while there is room.
Served(s, high, low) ==
  /\ high # <<>> => LowActive(s) # {} \/ Cardinality(Active(s)) = MaxConcurrent
  /\ low # <<>> => Active(s) # {} \/ high # <<>>

LEMMA LimitFacts == MaxConcurrent \in Nat \ {0}
BY ConstantsAssumption DEF ConstantsOK

\* The lines are served in their order, and backlog only if nobody works or waits.
Woken(s, high, low, w) ==
  /\ Lined(w.slot, w.high, w.low)
  /\ Bounded(w.slot)
  /\ Served(w.slot, w.high, w.low)
  /\ \A c : InLine(c, w.high) => InLine(c, high)
  /\ \A c : InLine(c, w.low) => InLine(c, low)
  /\ \A c \in Conversation :
       w.slot[c] = "low" /\ s[c] # "low" => w.high = <<>> /\ Active(w.slot) = {c}

\* #wakeWaiters serves the lines in their order, live input first and backlog only
\* when nobody else works or waits.
LEMMA WakeLemma ==
  ASSUME NEW s, NEW high, NEW low, Lined(s, high, low), Bounded(s),
         NEW w, w = Wake(s, high, low)
  PROVE  Woken(s, high, low, w)
<1> DEFINE A == Active(s)
           free == IF LowActive(s) # {} THEN 0 ELSE MaxConcurrent - Cardinality(A)
           n == IF Len(high) <= free THEN Len(high) ELSE free
           first == SubSeq(high, 1, n)
           rest == SubSeq(high, n + 1, Len(high))
           live == [c \in Conversation |-> IF InLine(c, first) THEN "high" ELSE s[c]]
           backlog == Active(live) = {} /\ rest = <<>> /\ low # <<>>
           G == {c \in Conversation : InLine(c, first)}
<1>0. w = [slot |-> IF backlog THEN [live EXCEPT ![Head(low)] = "low"] ELSE live,
           high |-> rest,
           low |-> IF backlog THEN Tail(low) ELSE low]
  BY DEF Wake
<1>1. /\ s \in [Conversation -> {"none", "low", "high"}]
      /\ high \in Seq(Conversation) /\ low \in Seq(Conversation)
      /\ NoRepeats(high) /\ NoRepeats(low)
      /\ \A c : ~ (InLine(c, high) /\ InLine(c, low))
      /\ \A c : InLine(c, high) \/ InLine(c, low) => s[c] = "none"
  BY DEF Lined
<1>2. /\ IsFiniteSet(A) /\ Cardinality(A) \in Nat /\ Cardinality(A) <= MaxConcurrent
      /\ LowActive(s) # {} => Cardinality(A) = 1
  BY FS_CardinalityType DEF Bounded
<1>3. /\ free \in Nat /\ n \in Nat /\ n \in 0 .. Len(high) /\ n <= free
      /\ n # Len(high) => n = free
  BY <1>1, <1>2, LimitFacts, LenProperties
<1>4. /\ rest \in Seq(Conversation) /\ Len(rest) = Len(high) - n /\ NoRepeats(rest)
      /\ IsFiniteSet(G) /\ Cardinality(G) = n
      /\ \A c : /\ InLine(c, first) => InLine(c, high)
                /\ InLine(c, rest) <=> InLine(c, high) /\ ~ InLine(c, first)
  <2> HIDE DEF n
  <2>1. QED
    BY <1>1, <1>3, FirstsLemma
<1>5. rest # <<>> => n = free
  <2> HIDE DEF n, free, rest
  <2>1. Len(<<>>) = 0 /\ (Len(rest) = 0 => rest = <<>>)
    BY <1>4, EmptySeq
  <2>2. QED
    BY <1>3, <1>4, <2>1, <1>1, LenProperties
<1> HIDE DEF n, free, first, rest
<1>6. /\ live \in [Conversation -> {"none", "low", "high"}]
      /\ \A c \in Conversation : live[c] = IF InLine(c, first) THEN "high" ELSE s[c]
  BY <1>1
<1>7. Active(live) = A \cup G /\ A \cap G = {} /\ LowActive(live) = LowActive(s)
  BY <1>1, <1>4, <1>6 DEF Active, LowActive
<1> HIDE DEF live
<1>8. IsFiniteSet(Active(live)) /\ Cardinality(Active(live)) = Cardinality(A) + n
  <2>1. Cardinality({}) = 0
    BY FS_EmptySet
  <2> HIDE DEF A, G
  <2>2. /\ IsFiniteSet(A \cup G)
        /\ Cardinality(A \cup G) = Cardinality(A) + Cardinality(G) - Cardinality(A \cap G)
    BY <1>2, <1>4, FS_Union
  <2>3. IsFiniteSet(Active(live)) /\ Cardinality(Active(live)) = Cardinality(A) + n - 0
    BY <2>1, <2>2, <1>4, <1>7
  <2>4. QED
    BY <2>3, <1>2, <1>3
<1>9. LowActive(s) # {} => n = 0
  BY <1>3 DEF free
<1>10. Bounded(live)
  <2>1. Cardinality(Active(live)) <= MaxConcurrent
    BY <1>2, <1>3, <1>8, <1>9, LimitFacts DEF free
  <2>2. LowActive(live) # {} => Cardinality(Active(live)) = 1
    BY <1>2, <1>7, <1>8, <1>9
  <2>3. QED
    BY <2>1, <2>2, <1>8 DEF Bounded
<1>11. rest # <<>> => LowActive(live) # {} \/ Cardinality(Active(live)) = MaxConcurrent
  BY <1>2, <1>5, <1>7, <1>8, LimitFacts DEF free
<1>12. \A c \in Conversation : live[c] = "low" => s[c] = "low"
  BY <1>6
<1>13. CASE ~ backlog
  <2>1. w.slot = live /\ w.high = rest /\ w.low = low
    BY <1>0, <1>13
  <2>2. \A c : InLine(c, rest) \/ InLine(c, low) => live[c] = "none"
    <3>1. \A c : InLine(c, rest) \/ InLine(c, low) => c \in Conversation
      BY <1>1, <1>4, LineFacts
    <3>2. QED
      BY <3>1, <1>1, <1>4, <1>6
  <2>3. Lined(live, rest, low)
    BY <1>1, <1>4, <1>6, <2>2 DEF Lined
  <2>4. Served(live, rest, low)
    BY <1>11, <1>13 DEF Served
  <2>5. QED
    BY <2>1, <2>3, <1>10, <2>4, <1>4, <1>12 DEF Woken
<1>14. CASE backlog
  <2> DEFINE h == Head(low)
             l == Tail(low)
             t == [live EXCEPT ![h] = "low"]
  <2>1. w.slot = t /\ w.high = rest /\ w.low = l /\ rest = <<>>
    BY <1>0, <1>14
  <2>2. /\ l \in Seq(Conversation) /\ NoRepeats(l) /\ h \in Conversation /\ InLine(h, low)
        /\ \A c : InLine(c, l) <=> InLine(c, low) /\ c # h
    BY <1>1, <1>14, TailLemma
  <2> HIDE DEF h, l
  <2>3. /\ t \in [Conversation -> {"none", "low", "high"}]
        /\ \A c \in Conversation : t[c] = IF c = h THEN "low" ELSE live[c]
    BY <1>6, <2>2
  <2> HIDE DEF t
  <2>4. \A c \in Conversation : live[c] = "none"
    BY <1>14 DEF Active
  <2>5. Active(t) = {h} /\ LowActive(t) = {h}
    BY <2>2, <2>3, <2>4 DEF Active, LowActive
  <2>6. \A c : InLine(c, rest) \/ InLine(c, l) => t[c] = "none"
    <3>1. \A c : InLine(c, rest) \/ InLine(c, l) => c \in Conversation
      BY <1>4, <2>2, LineFacts
    <3>2. ~ \E c : InLine(c, rest)
      BY <2>1 DEF InLine
    <3>3. QED
      BY <3>1, <3>2, <2>2, <2>3, <2>4
  <2>7. Lined(t, rest, l)
    BY <1>1, <1>4, <2>2, <2>3, <2>6 DEF Lined
  <2>8. IsFiniteSet({h}) /\ Cardinality({h}) = 1
    BY FS_Singleton
  <2>9. Bounded(t)
    BY <2>5, <2>8, LimitFacts DEF Bounded
  <2>10. Served(t, rest, l)
    BY <2>1, <2>5 DEF Served
  <2>11. \A c \in Conversation : t[c] = "low" => c = h
    BY <2>3, <2>4
  <2>12. QED
    BY <2>1, <2>2, <2>5, <2>7, <2>9, <2>10, <2>11, <1>4 DEF Woken
<1>15. QED
  BY <1>13, <1>14

\* The inductive invariant.  A step rests on all of it: a line may be served only
\* because nobody in it has a slot, and a conversation in line takes no step.
SlotInv ==
  /\ Lined(slot, highWaiters, lowWaiters)
  /\ Bounded(slot)
  /\ Served(slot, highWaiters, lowWaiters)
  /\ step \in [Conversation -> Step]
  /\ \A c : IsWaiting(c) => step[c] \in {"admitted", "claiming"}

\* What every step does with the slots.
SlotStep ==
  /\ Lined(slot', highWaiters', lowWaiters')
  /\ Bounded(slot')
  /\ Served(slot', highWaiters', lowWaiters')
  /\ ~ BacklogFirst

NobodyJoins == \A c : IsWaiting(c)' => IsWaiting(c)

Takes(c, priority) ==
  /\ slot[c] = "none" /\ Room(priority)
  /\ slot' = [slot EXCEPT ![c] = priority]
  /\ UNCHANGED <<highWaiters, lowWaiters>>

Queues(c, priority) ==
  /\ slot[c] = "none" /\ ~ Room(priority)
  /\ highWaiters' = IF priority = "high" THEN Append(highWaiters, c) ELSE highWaiters
  /\ lowWaiters' = IF priority = "low" THEN Append(lowWaiters, c) ELSE lowWaiters
  /\ UNCHANGED slot

LEMMA SameSlots ==
  ASSUME SlotInv, UNCHANGED slots
  PROVE  SlotStep /\ NobodyJoins
<1>1. slot' = slot /\ highWaiters' = highWaiters /\ lowWaiters' = lowWaiters
  BY DEF slots
<1>2. NobodyJoins
  BY <1>1 DEF NobodyJoins, IsWaiting, InLine
<1>3. ~ BacklogFirst
  BY <1>1 DEF BacklogFirst
<1>4. QED
  BY <1>1, <1>2, <1>3 DEF SlotInv, SlotStep

LEMMA RegrantLemma ==
  ASSUME NEW s, NEW high, NEW low,
         Lined(s, high, low), Bounded(s), Regrant(s, high, low),
         \A c \in Conversation : s[c] = "low" => slot[c] = "low",
         \A c : InLine(c, high) \/ InLine(c, low) => IsWaiting(c)
  PROVE  SlotStep /\ NobodyJoins
<1> DEFINE w == Wake(s, high, low)
<1>1. slot' = w.slot /\ highWaiters' = w.high /\ lowWaiters' = w.low
  BY DEF Regrant
<1> HIDE DEF w
<1>2. Woken(s, high, low, w)
  BY WakeLemma DEF w
<1>3. Lined(slot', highWaiters', lowWaiters') /\ Bounded(slot')
  BY <1>1, <1>2 DEF Woken
<1>4. Served(slot', highWaiters', lowWaiters')
  BY <1>1, <1>2 DEF Woken
<1>5. ~ BacklogFirst
  <2>1. ASSUME NEW c \in Conversation, slot[c] # "low", slot'[c] = "low"
        PROVE  highWaiters' = <<>> /\ Active(slot') = {c}
    BY <2>1, <1>1, <1>2 DEF Woken
  <2>2. QED
    BY <2>1 DEF BacklogFirst
<1>6. NobodyJoins
  <2>1. ASSUME NEW c, IsWaiting(c)'
        PROVE  IsWaiting(c)
    <3>1. InLine(c, w.high) \/ InLine(c, w.low)
      BY <2>1, <1>1 DEF IsWaiting, InLine
    <3>2. QED
      BY <3>1, <1>2 DEF Woken
  <2>2. QED
    BY <2>1 DEF NobodyJoins
<1>7. QED
  BY <1>3, <1>4, <1>5, <1>6 DEF SlotStep

LEMMA ReleaseLemma ==
  ASSUME SlotInv, NEW c \in Conversation, Release(c)
  PROVE  SlotStep /\ NobodyJoins
<1> DEFINE s == [slot EXCEPT ![c] = "none"]
<1>1. slot \in [Conversation -> {"none", "low", "high"}]
  BY DEF SlotInv, Lined
<1>2. \A d \in Conversation : s[d] = IF d = c THEN "none" ELSE slot[d]
  BY <1>1
<1>3. Lined(s, highWaiters, lowWaiters)
  <2>1. \A d : InLine(d, highWaiters) \/ InLine(d, lowWaiters) => s[d] = "none"
    <3>1. \A d : InLine(d, highWaiters) \/ InLine(d, lowWaiters) => d \in Conversation
      BY LineFacts DEF SlotInv, Lined
    <3>2. QED
      BY <3>1, <1>2 DEF SlotInv, Lined
  <2>2. s \in [Conversation -> {"none", "low", "high"}]
    BY <1>1
  <2>3. QED
    BY <2>1, <2>2 DEF SlotInv, Lined
<1>4. Bounded(s)
  <2>1. /\ Active(s) \in SUBSET Active(slot)
        /\ LowActive(s) # {} => LowActive(slot) # {} /\ Active(s) # {}
    BY <1>2 DEF Active, LowActive
  <2> HIDE DEF s
  <2>2. /\ IsFiniteSet(Active(slot)) /\ Cardinality(Active(slot)) <= MaxConcurrent
        /\ LowActive(slot) # {} => Cardinality(Active(slot)) = 1
    BY DEF SlotInv, Bounded
  <2>3. /\ IsFiniteSet(Active(s)) /\ Cardinality(Active(s)) <= Cardinality(Active(slot))
        /\ Cardinality(Active(s)) \in Nat /\ Cardinality(Active(slot)) \in Nat
        /\ Cardinality(Active(s)) = 0 <=> Active(s) = {}
    BY <2>1, <2>2, FS_Subset, FS_CardinalityType, FS_EmptySet
  <2>4. Cardinality(Active(s)) <= MaxConcurrent
    BY <2>2, <2>3, LimitFacts
  <2>5. LowActive(s) # {} => Cardinality(Active(s)) = 1
    BY <2>1, <2>2, <2>3
  <2>6. QED
    BY <2>3, <2>4, <2>5 DEF Bounded
<1>5. \A d \in Conversation : s[d] = "low" => slot[d] = "low"
  BY <1>2
<1>6. Regrant(s, highWaiters, lowWaiters)
  BY DEF Release
<1>7. \A d : InLine(d, highWaiters) \/ InLine(d, lowWaiters) => IsWaiting(d)
  BY DEF IsWaiting
<1> HIDE DEF s
<1>8. QED
  BY <1>3, <1>4, <1>5, <1>6, <1>7, RegrantLemma

LEMMA TakesLemma ==
  ASSUME SlotInv, NEW c \in Conversation, ~ IsWaiting(c),
         NEW priority \in {"low", "high"}, Takes(c, priority)
  PROVE  SlotStep /\ NobodyJoins
<1>1. /\ slot \in [Conversation -> {"none", "low", "high"}]
      /\ slot' = [slot EXCEPT ![c] = priority]
      /\ highWaiters' = highWaiters /\ lowWaiters' = lowWaiters
      /\ slot[c] = "none" /\ Room(priority)
  BY DEF SlotInv, Lined, Takes
<1>2. /\ slot' \in [Conversation -> {"none", "low", "high"}]
      /\ \A d \in Conversation : slot'[d] = IF d = c THEN priority ELSE slot[d]
  BY <1>1
<1>3. Active(slot') = Active(slot) \cup {c} /\ c \notin Active(slot)
  BY <1>1, <1>2 DEF Active
<1>4. /\ IsFiniteSet(Active(slot)) /\ Cardinality(Active(slot)) \in Nat
      /\ Cardinality(Active(slot)) <= MaxConcurrent
      /\ LowActive(slot) # {} => Cardinality(Active(slot)) = 1
  BY FS_CardinalityType DEF SlotInv, Bounded
<1>5. /\ IsFiniteSet(Active(slot'))
      /\ Cardinality(Active(slot')) = Cardinality(Active(slot)) + 1
  BY <1>3, <1>4, FS_AddElement
<1>6. Lined(slot', highWaiters', lowWaiters')
  <2>1. \A d : InLine(d, highWaiters) \/ InLine(d, lowWaiters) => slot'[d] = "none"
    <3>1. \A d : InLine(d, highWaiters) \/ InLine(d, lowWaiters) => d \in Conversation /\ d # c
      BY LineFacts DEF SlotInv, Lined, IsWaiting
    <3>2. QED
      BY <3>1, <1>2 DEF SlotInv, Lined
  <2>2. QED
    BY <2>1, <1>1, <1>2 DEF SlotInv, Lined
<1>7. CASE priority = "high"
  <2>1. LowActive(slot) = {} /\ Cardinality(Active(slot)) < MaxConcurrent
    BY <1>1, <1>7 DEF Room
  <2>2. LowActive(slot') = {}
    BY <2>1, <1>2, <1>7 DEF LowActive
  <2>3. Bounded(slot')
    BY <2>1, <2>2, <1>4, <1>5, LimitFacts DEF Bounded
  <2>4. highWaiters = <<>>
    BY <2>1, <1>4, LimitFacts DEF SlotInv, Served
  <2>5. Served(slot', highWaiters', lowWaiters')
    BY <2>4, <1>1, <1>3 DEF Served
  <2>6. ~ BacklogFirst
    BY <1>2, <1>7 DEF BacklogFirst
  <2>7. QED
    BY <2>3, <2>5, <2>6, <1>1, <1>6 DEF SlotStep, NobodyJoins, IsWaiting, InLine
<1>8. CASE priority = "low"
  <2>1. Active(slot) = {} /\ highWaiters = <<>>
    BY <1>1, <1>8 DEF Room
  <2>2. Active(slot') = {c} /\ Cardinality(Active(slot')) = 1
    BY <2>1, <1>3, FS_Singleton
  <2>3. Bounded(slot')
    BY <2>2, <1>5, LimitFacts DEF Bounded
  <2>4. Served(slot', highWaiters', lowWaiters')
    BY <2>1, <2>2, <1>1 DEF Served
  <2>5. \A d \in Conversation : slot'[d] = "low" /\ slot[d] # "low" => d = c
    BY <1>2
  <2>6. ~ BacklogFirst
    BY <2>1, <2>2, <2>5, <1>1 DEF BacklogFirst
  <2>7. QED
    BY <2>3, <2>4, <2>6, <1>1, <1>6 DEF SlotStep, NobodyJoins, IsWaiting, InLine
<1>9. QED
  BY <1>7, <1>8

LEMMA QueuesLemma ==
  ASSUME SlotInv, NEW c \in Conversation, ~ IsWaiting(c),
         NEW priority \in {"low", "high"}, Queues(c, priority)
  PROVE  SlotStep /\ \A d : IsWaiting(d)' => IsWaiting(d) \/ d = c
<1>1. /\ highWaiters \in Seq(Conversation) /\ NoRepeats(highWaiters)
      /\ lowWaiters \in Seq(Conversation) /\ NoRepeats(lowWaiters)
      /\ ~ InLine(c, highWaiters) /\ ~ InLine(c, lowWaiters)
      /\ slot' = slot /\ slot[c] = "none" /\ ~ Room(priority)
  BY DEF SlotInv, Lined, Queues, IsWaiting
<1>2. Bounded(slot') /\ Bounded(slot)
  BY <1>1 DEF SlotInv
<1>3. ~ BacklogFirst
  BY <1>1 DEF BacklogFirst
<1>4. CASE priority = "high"
  <2> DEFINE l == Append(highWaiters, c)
  <2>1. highWaiters' = l /\ lowWaiters' = lowWaiters
    BY <1>4 DEF Queues
  <2>2. /\ l \in Seq(Conversation) /\ NoRepeats(l) /\ l # <<>>
        /\ \A d : InLine(d, l) <=> InLine(d, highWaiters) \/ d = c
    BY <1>1, AppendLemma, AppendProperties
  <2> HIDE DEF l
  <2>3. Lined(slot, l, lowWaiters)
    BY <2>2, <1>1 DEF SlotInv, Lined
  <2>4. LowActive(slot) # {} \/ Cardinality(Active(slot)) = MaxConcurrent
    BY <1>1, <1>2, <1>4, LimitFacts, FS_CardinalityType DEF Room, Bounded
  <2>5. Served(slot, l, lowWaiters)
    BY <2>2, <2>4 DEF Served
  <2>6. \A d : IsWaiting(d)' => IsWaiting(d) \/ d = c
    <3>1. \A d : IsWaiting(d)' <=> InLine(d, l) \/ InLine(d, lowWaiters)
      BY <2>1 DEF IsWaiting, InLine
    <3>2. QED
      BY <3>1, <2>2 DEF IsWaiting
  <2>7. QED
    BY <2>1, <2>3, <2>5, <2>6, <1>1, <1>2, <1>3 DEF SlotStep
<1>5. CASE priority = "low"
  <2> DEFINE l == Append(lowWaiters, c)
  <2>1. lowWaiters' = l /\ highWaiters' = highWaiters
    BY <1>5 DEF Queues
  <2>2. /\ l \in Seq(Conversation) /\ NoRepeats(l) /\ l # <<>>
        /\ \A d : InLine(d, l) <=> InLine(d, lowWaiters) \/ d = c
    BY <1>1, AppendLemma, AppendProperties
  <2> HIDE DEF l
  <2>3. Lined(slot, highWaiters, l)
    BY <2>2, <1>1 DEF SlotInv, Lined
  <2>4. Active(slot) # {} \/ highWaiters # <<>>
    BY <1>1, <1>5 DEF Room
  <2>5. Served(slot, highWaiters, l)
    BY <2>4 DEF SlotInv, Served
  <2>6. \A d : IsWaiting(d)' => IsWaiting(d) \/ d = c
    <3>1. \A d : IsWaiting(d)' <=> InLine(d, highWaiters) \/ InLine(d, l)
      BY <2>1 DEF IsWaiting, InLine
    <3>2. QED
      BY <3>1, <2>2 DEF IsWaiting
  <2>7. QED
    BY <2>1, <2>3, <2>5, <2>6, <1>1, <1>2, <1>3 DEF SlotStep
<1>6. QED
  BY <1>4, <1>5

-----------------------------------------------------------------------------
(* What a prepare does with the slots.                                     *)

\* The prepare of c goes on, and its slot stays, is released, taken or waited for.
Prepared(c) ==
  \E x \in Step :
    /\ step' = [step EXCEPT ![c] = x]
    /\ \/ UNCHANGED slots
       \/ Release(c)
       \/ \E priority \in {"low", "high"} :
            Takes(c, priority) \/ (x \in {"admitted", "claiming"} /\ Queues(c, priority))

LEMMA PreparedLemma ==
  ASSUME SlotInv, NEW c \in Conversation, ~ IsWaiting(c), Prepared(c)
  PROVE  SlotInv' /\ ~ BacklogFirst
<1>1. PICK x \in Step :
        /\ step' = [step EXCEPT ![c] = x]
        /\ \/ UNCHANGED slots
           \/ Release(c)
           \/ \E priority \in {"low", "high"} :
                Takes(c, priority) \/ (x \in {"admitted", "claiming"} /\ Queues(c, priority))
  BY DEF Prepared
<1>2. /\ step \in [Conversation -> Step]
      /\ \A d : IsWaiting(d) => d \in Conversation
      /\ \A d : IsWaiting(d) => step[d] \in {"admitted", "claiming"}
  BY LineFacts DEF SlotInv, Lined, IsWaiting
<1>3. /\ step' \in [Conversation -> Step]
      /\ \A d \in Conversation : step'[d] = IF d = c THEN x ELSE step[d]
  BY <1>1, <1>2
<1>4. /\ SlotStep
      /\ \/ NobodyJoins
         \/ /\ x \in {"admitted", "claiming"}
            /\ \A d : IsWaiting(d)' => IsWaiting(d) \/ d = c
  BY <1>1, SameSlots, ReleaseLemma, TakesLemma, QueuesLemma
<1>5. \A d : IsWaiting(d)' => step'[d] \in {"admitted", "claiming"}
  BY <1>2, <1>3, <1>4 DEF NobodyJoins
<1>6. QED
  BY <1>3, <1>4, <1>5 DEF SlotStep, SlotInv

LEMMA EndPrepares ==
  ASSUME NEW c \in Conversation, End(c), UNCHANGED slots \/ Release(c)
  PROVE  Prepared(c)
<1>1. step' = [step EXCEPT ![c] = "idle"]
  BY DEF End
<1>2. QED
  BY <1>1 DEF Prepared, Step

LEMMA FailPrepares ==
  ASSUME NEW c \in Conversation, NEW busy \in BOOLEAN, Fail(c, busy)
  PROVE  Prepared(c)
<1>1. CASE step' = [step EXCEPT ![c] = "backoff"] /\ UNCHANGED slots
  BY <1>1 DEF Prepared, Step
<1>2. CASE End(c) /\ (UNCHANGED slots \/ Release(c))
  BY <1>2, EndPrepares
<1>3. QED
  BY <1>1, <1>2 DEF Fail

LEMMA ThrowPrepares ==
  ASSUME NEW c \in Conversation, Throw(c)
  PROVE  Prepared(c)
<1>1. Fail(c, TRUE) \/ Fail(c, FALSE)
  BY DEF Throw, Fail
<1>2. QED
  BY <1>1, FailPrepares

LEMMA AcquirePrepares ==
  ASSUME NEW c \in Conversation, NEW then \in {"admitted", "claiming"}, NEW again \in Step,
         Acquire(c, then, again)
  PROVE  Prepared(c)
<1>1. Priority(c) \in {"low", "high"} /\ then \in Step
  BY DEF Priority, Step
<1>2. CASE UNCHANGED slots /\ \E x \in Step : step' = [step EXCEPT ![c] = x]
  BY <1>2 DEF Prepared
<1>3. CASE step' = [step EXCEPT ![c] = then] /\ Takes(c, Priority(c))
  <2>1. \E priority \in {"low", "high"} : Takes(c, priority)
    BY <1>1, <1>3
  <2>2. QED
    BY <1>1, <1>3, <2>1 DEF Prepared
<1>4. CASE step' = [step EXCEPT ![c] = then] /\ Queues(c, Priority(c))
  <2>1. \E priority \in {"low", "high"} : Queues(c, priority)
    BY <1>1, <1>4
  <2>2. QED
    BY <1>1, <1>4, <2>1 DEF Prepared
<1>5. QED
  BY <1>1, <1>2, <1>3, <1>4 DEF Acquire, Takes, Queues

LEMMA FinishPrepares ==
  ASSUME NEW c \in Conversation, Finish(c),
         UNCHANGED slots \/ Release(c) \/ ReleaseIfInactive(c)
  PROVE  Prepared(c)
BY EndPrepares DEF Finish, ReleaseIfInactive

LEMMA BarredPrepares ==
  ASSUME NEW c \in Conversation, Barred(c)
  PROVE  Prepared(c)
<1>1. CASE Finish(c) /\ ReleaseIfInactive(c)
  BY <1>1, FinishPrepares
<1>2. CASE Throw(c)
  BY <1>2, ThrowPrepares
<1>3. QED
  BY <1>1, <1>2 DEF Barred, Refuse

LEMMA YieldPrepares ==
  ASSUME NEW c \in Conversation, Yield(c)
  PROVE  Prepared(c)
BY FinishPrepares DEF Yield

LEMMA GotoPrepares ==
  ASSUME NEW c \in Conversation, NEW where \in Step, Goto(c, where), UNCHANGED slots
  PROVE  Prepared(c)
BY DEF Goto, Prepared

\* Who waits takes no step of a prepare.
LEMMA HeadDoesNotWait ==
  ASSUME SlotInv, NEW c \in Conversation,
         \/ \E where : AtHead(c, where) /\ where \cap {"admitted", "claiming"} = {}
         \/ \E where : Resumed(c, where)
         \/ Starts(c)
         \/ Ready(c)
  PROVE  ~ IsWaiting(c)
BY DEF SlotInv, AtHead, Resumed, Starts, Ready

LEMMA PrepareLemma ==
  ASSUME SlotInv, NEW c \in Conversation, Prepare(c)
  PROVE  SlotInv' /\ ~ BacklogFirst
<1>1. CASE Skip(c) \/ SkipPaused(c) \/ JoinTurn(c) \/ Ignore(c)
  <2>1. ~ IsWaiting(c)
    BY <1>1, HeadDoesNotWait DEF Skip, SkipPaused, JoinTurn, Ignore
  <2>2. ASSUME Skip(c) \/ Ignore(c)
        PROVE  Prepared(c)
    BY <2>2, FinishPrepares DEF Skip, Ignore
  <2>3. ASSUME SkipPaused(c)
        PROVE  Prepared(c)
    BY <2>3, FinishPrepares DEF SkipPaused
  <2>4. ASSUME JoinTurn(c)
        PROVE  Prepared(c)
    BY <2>4, EndPrepares DEF JoinTurn
  <2>5. QED
    BY <1>1, <2>1, <2>2, <2>3, <2>4, PreparedLemma
<1>2. CASE Request(c)
  <2>1. ~ IsWaiting(c)
    BY <1>2, HeadDoesNotWait DEF Request
  <2>2. Refuse(c) \/ Acquire(c, "admitted", "awaiting")
    BY <1>2 DEF Request
  <2>3. Prepared(c)
    BY <2>2, AcquirePrepares, FinishPrepares DEF Refuse, Step
  <2>4. QED
    BY <2>1, <2>3, PreparedLemma
<1>3. CASE AcquireAgain(c)
  <2>1. ~ IsWaiting(c)
    <3>1. AtHead(c, {"awaiting", "reawaiting"})
      BY <1>3 DEF AcquireAgain
    <3>2. {"awaiting", "reawaiting"} \cap {"admitted", "claiming"} = {}
      OBVIOUS
    <3>3. QED
      BY <3>1, <3>2, HeadDoesNotWait
  <2>2. \/ Throw(c)
        \/ Acquire(c, "admitted", "awaiting")
        \/ Acquire(c, "claiming", "reawaiting")
    BY <1>3 DEF AcquireAgain
  <2>3. Prepared(c)
    BY <2>2, AcquirePrepares, ThrowPrepares DEF Step
  <2>4. QED
    BY <2>1, <2>3, PreparedLemma
<1>4. CASE Proceed(c)
  <2>1. ~ IsWaiting(c)
    BY <1>4, HeadDoesNotWait DEF Proceed
  <2>2. \/ Barred(c) \/ Yield(c)
        \/ UNCHANGED slots /\ (Goto(c, "resolving") \/ Goto(c, "inspecting"))
    BY <1>4 DEF Proceed
  <2>3. Prepared(c)
    BY <2>2, BarredPrepares, YieldPrepares, GotoPrepares DEF Step
  <2>4. QED
    BY <2>1, <2>3, PreparedLemma
<1>5. CASE Inspect(c)
  <2>1. ~ IsWaiting(c)
    <3>1. AtHead(c, {"inspecting"}) /\ {"inspecting"} \cap {"admitted", "claiming"} = {}
      BY <1>5 DEF Inspect
    <3>2. QED
      BY <3>1, HeadDoesNotWait
  <2>2. \/ Throw(c) \/ Barred(c) \/ Yield(c)
        \/ ReleaseIfInactive(c) /\ Finish(c)
        \/ UNCHANGED slots /\ Goto(c, "resolving")
    BY <1>5 DEF Inspect
  <2>3. Prepared(c)
    BY <2>2, ThrowPrepares, BarredPrepares, YieldPrepares, FinishPrepares, GotoPrepares DEF Step
  <2>4. QED
    BY <2>1, <2>3, PreparedLemma
<1>6. CASE Resolve(c)
  <2>1. ~ IsWaiting(c)
    <3>1. AtHead(c, {"resolving"}) /\ {"resolving"} \cap {"admitted", "claiming"} = {}
      BY <1>6 DEF Resolve
    <3>2. QED
      BY <3>1, HeadDoesNotWait
  <2>2. \/ Throw(c) \/ Barred(c)
        \/ UNCHANGED slots /\ Goto(c, "steering")
        \/ Acquire(c, "claiming", "reawaiting")
    BY <1>6 DEF Resolve
  <2>3. Prepared(c)
    BY <2>2, ThrowPrepares, BarredPrepares, AcquirePrepares, GotoPrepares DEF Step
  <2>4. QED
    BY <2>1, <2>3, PreparedLemma
<1>7. CASE Claim(c)
  <2>1. ~ IsWaiting(c)
    BY <1>7, HeadDoesNotWait DEF Claim
  <2>2. \/ Throw(c) \/ Barred(c) \/ Yield(c)
        \/ UNCHANGED slots /\ Goto(c, "threading")
    BY <1>7 DEF Claim
  <2>3. Prepared(c)
    BY <2>2, ThrowPrepares, BarredPrepares, YieldPrepares, GotoPrepares DEF Step
  <2>4. QED
    BY <2>1, <2>3, PreparedLemma
<1>8. CASE Submit(c)
  <2>1. ~ IsWaiting(c)
    <3>1. AtHead(c, {"threading"}) /\ {"threading"} \cap {"admitted", "claiming"} = {}
      BY <1>8 DEF Submit
    <3>2. QED
      BY <3>1, HeadDoesNotWait
  <2>2. \/ Throw(c) \/ Barred(c) \/ Yield(c)
        \/ UNCHANGED slots /\ Goto(c, "starting")
    BY <1>8 DEF Submit
  <2>3. Prepared(c)
    BY <2>2, ThrowPrepares, BarredPrepares, YieldPrepares, GotoPrepares DEF Step
  <2>4. QED
    BY <2>1, <2>3, PreparedLemma
<1>9. CASE Start(c)
  <2>1. ~ IsWaiting(c)
    <3>1. AtHead(c, {"starting"}) /\ {"starting"} \cap {"admitted", "claiming"} = {}
      BY <1>9 DEF Start
    <3>2. QED
      BY <3>1, HeadDoesNotWait
  <2>2. Fail(c, FALSE) \/ Throw(c) \/ (UNCHANGED slots /\ End(c))
    BY <1>9 DEF Start
  <2>3. Prepared(c)
    BY <2>2, FailPrepares, ThrowPrepares, EndPrepares
  <2>4. QED
    BY <2>1, <2>3, PreparedLemma
<1>10. CASE Steer(c)
  <2>1. ~ IsWaiting(c)
    <3>1. AtHead(c, {"steering"}) /\ {"steering"} \cap {"admitted", "claiming"} = {}
      BY <1>10 DEF Steer
    <3>2. QED
      BY <3>1, HeadDoesNotWait
  <2>2. Throw(c) \/ (UNCHANGED slots /\ Finish(c))
    BY <1>10 DEF Steer
  <2>3. Prepared(c)
    BY <2>2, ThrowPrepares, FinishPrepares
  <2>4. QED
    BY <2>1, <2>3, PreparedLemma
<1>11. QED
  BY <1>1, <1>2, <1>3, <1>4, <1>5, <1>6, <1>7, <1>8, <1>9, <1>10 DEF Prepare

-----------------------------------------------------------------------------
(* The other steps.                                                        *)

\* Steps that leave the prepares alone.
LEMMA OtherSteps ==
  ASSUME SlotInv, SlotStep, NobodyJoins, UNCHANGED step
  PROVE  SlotInv' /\ ~ BacklogFirst
BY DEF SlotInv, SlotStep, NobodyJoins

LEMMA EndTurnLemma ==
  ASSUME SlotInv, NEW c \in Conversation, EndTurn(c)
  PROVE  SlotInv' /\ ~ BacklogFirst
<1>1. ASSUME Over(c)
      PROVE  Release(c) \/ UNCHANGED slots
  BY <1>1 DEF Over
<1>2. UNCHANGED step
  BY DEF EndTurn, Complete, Supersede, Cancel, FailTurn, Preempt, UntrackedEnds, jobs
<1>3. Over(c) \/ UNCHANGED slots
  BY DEF EndTurn, Complete, Supersede, Cancel, FailTurn, Preempt, UntrackedEnds
<1>4. SlotStep /\ NobodyJoins
  BY <1>1, <1>3, SameSlots, ReleaseLemma
<1>5. QED
  BY <1>2, <1>4, OtherSteps

\* #promote: nobody joins the lines, one may change from one to the other.
LEMMA PromoteLemma ==
  ASSUME SlotInv, NEW c \in Conversation,
         slot' = Promoted(c).slot,
         highWaiters' = Promoted(c).high,
         lowWaiters' = Promoted(c).low
  PROVE  SlotStep /\ NobodyJoins
<1> DEFINE s == IF slot[c] = "low" THEN [slot EXCEPT ![c] = "high"] ELSE slot
<1>1. /\ slot \in [Conversation -> {"none", "low", "high"}]
      /\ highWaiters \in Seq(Conversation) /\ NoRepeats(highWaiters)
      /\ lowWaiters \in Seq(Conversation) /\ NoRepeats(lowWaiters)
      /\ \A d : ~ (InLine(d, highWaiters) /\ InLine(d, lowWaiters))
      /\ \A d : InLine(d, highWaiters) \/ InLine(d, lowWaiters) => slot[d] = "none"
  BY DEF SlotInv, Lined
<1>2. /\ s \in [Conversation -> {"none", "low", "high"}]
      /\ \A d \in Conversation : s[d] = IF d = c /\ slot[c] = "low" THEN "high" ELSE slot[d]
  BY <1>1
<1>3. \A d \in Conversation : s[d] = "low" => slot[d] = "low"
  BY <1>2
<1>4. Bounded(s)
  <2>1. Active(s) = Active(slot) /\ LowActive(s) \in SUBSET LowActive(slot)
    BY <1>2 DEF Active, LowActive
  <2> HIDE DEF s
  <2>2. QED
    BY <2>1 DEF SlotInv, Bounded
<1>5. \A d : InLine(d, highWaiters) \/ InLine(d, lowWaiters) => s[d] = "none"
  <2>1. \A d : InLine(d, highWaiters) \/ InLine(d, lowWaiters) => d \in Conversation
    BY <1>1, LineFacts
  <2>2. QED
    BY <2>1, <1>1, <1>2
<1>6. CASE InLine(c, lowWaiters)
  <2> DEFINE high == Append(highWaiters, c)
             low == Without(c, lowWaiters)
  <2>1. /\ high \in Seq(Conversation) /\ NoRepeats(high)
        /\ \A d : InLine(d, high) <=> InLine(d, highWaiters) \/ d = c
    BY <1>1, <1>6, AppendLemma
  <2>2. /\ low \in Seq(Conversation) /\ NoRepeats(low)
        /\ \A d : InLine(d, low) <=> InLine(d, lowWaiters) /\ d # c
    BY <1>1, <1>6, WithoutLemma
  <2>3. Regrant(s, high, low)
    BY <1>6 DEF Promoted, Regrant
  <2> HIDE DEF s, high, low
  <2>4. \A d : InLine(d, high) \/ InLine(d, low) => IsWaiting(d) /\ s[d] = "none"
    BY <1>5, <1>6, <2>1, <2>2 DEF IsWaiting
  <2>5. \A d : ~ (InLine(d, high) /\ InLine(d, low))
    BY <1>1, <2>1, <2>2
  <2>6. Lined(s, high, low)
    BY <1>2, <2>1, <2>2, <2>4, <2>5 DEF Lined
  <2>7. QED
    BY <1>3, <1>4, <2>3, <2>4, <2>6, RegrantLemma
<1>7. CASE ~ InLine(c, lowWaiters) /\ slot[c] # "none"
  <2>1. Regrant(s, highWaiters, lowWaiters)
    BY <1>7 DEF Promoted, Regrant
  <2> HIDE DEF s
  <2>2. Lined(s, highWaiters, lowWaiters)
    BY <1>1, <1>2, <1>5 DEF Lined
  <2>3. \A d : InLine(d, highWaiters) \/ InLine(d, lowWaiters) => IsWaiting(d)
    BY DEF IsWaiting
  <2>4. QED
    BY <1>3, <1>4, <2>1, <2>2, <2>3, RegrantLemma
<1>8. CASE ~ InLine(c, lowWaiters) /\ slot[c] = "none"
  <2>1. slot' = slot /\ highWaiters' = highWaiters /\ lowWaiters' = lowWaiters
    BY <1>8 DEF Promoted
  <2>2. QED
    BY <2>1, SameSlots DEF slots
<1>9. QED
  BY <1>6, <1>7, <1>8

LEMMA ArriveLemma ==
  ASSUME SlotInv, NEW m \in Message, Arrive(m)
  PROVE  SlotInv' /\ ~ BacklogFirst
<1>1. ConversationOf[m] \in Conversation
  BY ConstantsAssumption DEF ConstantsOK
<1>2. UNCHANGED step
  BY DEF Arrive
<1>3. \/ /\ slot' = Promoted(ConversationOf[m]).slot
         /\ highWaiters' = Promoted(ConversationOf[m]).high
         /\ lowWaiters' = Promoted(ConversationOf[m]).low
      \/ UNCHANGED slots
  BY DEF Arrive
<1>4. SlotStep /\ NobodyJoins
  BY <1>1, <1>3, PromoteLemma, SameSlots
<1>5. QED
  BY <1>2, <1>4, OtherSteps

\* setChannelEnabled: the waiters of the channel leave the lines.
LEMMA StopLemma ==
  ASSUME SlotInv, StopWecom
  PROVE  SlotInv' /\ ~ BacklogFirst
<1> DEFINE high == Kept(highWaiters, Ilink)
           low == Kept(lowWaiters, Ilink)
<1>1. /\ highWaiters \in Seq(Conversation) /\ NoRepeats(highWaiters)
      /\ lowWaiters \in Seq(Conversation) /\ NoRepeats(lowWaiters)
  BY DEF SlotInv, Lined
<1>2. /\ high \in Seq(Conversation) /\ NoRepeats(high)
      /\ \A d : InLine(d, high) => InLine(d, highWaiters)
  BY <1>1, KeptLemma
<1>3. /\ low \in Seq(Conversation) /\ NoRepeats(low)
      /\ \A d : InLine(d, low) => InLine(d, lowWaiters)
  BY <1>1, KeptLemma
<1>4. Regrant(slot, high, low) /\ UNCHANGED step
  BY DEF StopWecom, jobs
<1> HIDE DEF high, low
<1>5. Lined(slot, high, low)
  BY <1>2, <1>3 DEF SlotInv, Lined
<1>6. \A d : InLine(d, high) \/ InLine(d, low) => IsWaiting(d)
  BY <1>2, <1>3 DEF IsWaiting
<1>7. Bounded(slot) /\ \A c \in Conversation : slot[c] = "low" => slot[c] = "low"
  BY DEF SlotInv
<1>8. SlotStep /\ NobodyJoins
  BY <1>4, <1>5, <1>6, <1>7, RegrantLemma
<1>9. QED
  BY <1>4, <1>8, OtherSteps

LEMMA SlotInit == Init => SlotInv
<1> SUFFICES ASSUME Init
             PROVE  SlotInv
  OBVIOUS
<1>1. slot = [c \in Conversation |-> "none"] /\ highWaiters = <<>> /\ lowWaiters = <<>>
  BY DEF Init
<1>2. ~ \E c : InLine(c, <<>>)
  BY DEF InLine
<1>3. Lined(slot, highWaiters, lowWaiters)
  BY <1>1, <1>2 DEF Lined, NoRepeats
<1>4. Active(slot) = {} /\ LowActive(slot) = {}
  BY <1>1 DEF Active, LowActive
<1>5. Bounded(slot)
  BY <1>4, LimitFacts, FS_EmptySet DEF Bounded
<1>6. Served(slot, highWaiters, lowWaiters)
  BY <1>1 DEF Served
<1>7. step \in [Conversation -> Step]
  BY DEF Init, Step
<1>8. QED
  BY <1>1, <1>2, <1>3, <1>5, <1>6, <1>7 DEF SlotInv, IsWaiting

LEMMA SlotNext == SlotInv /\ [Next]_vars => SlotInv' /\ ~ BacklogFirst
<1> SUFFICES ASSUME SlotInv, [Next]_vars
             PROVE  SlotInv' /\ ~ BacklogFirst
  OBVIOUS
<1>1. ASSUME UNCHANGED slots, UNCHANGED step
      PROVE  SlotInv' /\ ~ BacklogFirst
  BY <1>1, SameSlots, OtherSteps
<1>2. ASSUME NEW c \in Conversation, Prepare(c)
      PROVE  SlotInv' /\ ~ BacklogFirst
  BY <1>2, PrepareLemma
<1>3. ASSUME NEW c \in Conversation, EndTurn(c)
      PROVE  SlotInv' /\ ~ BacklogFirst
  BY <1>3, EndTurnLemma
<1>4. ASSUME NEW c \in Conversation, Speak(c) \/ FinishRun(c) \/ MissInterrupt(c)
      PROVE  SlotInv' /\ ~ BacklogFirst
  <2>1. UNCHANGED slots /\ UNCHANGED step
    BY <1>4 DEF Speak, FinishRun, MissInterrupt, jobs
  <2>2. QED
    BY <2>1, <1>1
<1>5. ASSUME NEW c \in Conversation, RecoverNext(c) \/ Drain(c) \/ Delete(c)
      PROVE  SlotInv' /\ ~ BacklogFirst
  <2>1. UNCHANGED slots /\ UNCHANGED step
    BY <1>5 DEF RecoverNext, Drain, Delete, jobs
  <2>2. QED
    BY <2>1, <1>1
<1>6. ASSUME NEW m \in Message, Arrive(m)
      PROVE  SlotInv' /\ ~ BacklogFirst
  BY <1>6, ArriveLemma
<1>7. ASSUME NEW m \in Message, ArriveDeferred(m)
      PROVE  SlotInv' /\ ~ BacklogFirst
  <2>1. UNCHANGED slots /\ UNCHANGED step
    BY <1>7 DEF ArriveDeferred, jobs
  <2>2. QED
    BY <2>1, <1>1
<1>8. ASSUME StopDrain \/ StartWecom
      PROVE  SlotInv' /\ ~ BacklogFirst
  <2>1. UNCHANGED slots /\ UNCHANGED step
    BY <1>8 DEF StopDrain, StartWecom, jobs
  <2>2. QED
    BY <2>1, <1>1
<1>9. ASSUME UNCHANGED vars
      PROVE  SlotInv' /\ ~ BacklogFirst
  BY <1>1, <1>9 DEF vars, jobs
<1>10. QED
  BY <1>2, <1>3, <1>4, <1>5, <1>6, <1>7, <1>8, <1>9, StopLemma DEF Next

\* The invariant of the slots holds, for any conversations, messages and limit.
THEOREM SlotInvHolds == Spec => []SlotInv
<1>1. SlotInv /\ [Next]_vars => SlotInv'
  BY SlotNext
<1>2. QED
  BY SlotInit, <1>1, PTL DEF Spec

\* The number of conversations that work at once stays within the limit, and
\* backlog works alone.
THEOREM LimitIsKept == Spec => []BacklogRunsAlone
<1>1. SlotInv => BacklogRunsAlone
  BY DEF SlotInv, Bounded, BacklogRunsAlone
<1>2. QED
  BY SlotInvHolds, <1>1, PTL

\* Nobody waits for a slot while there is room for it.
THEOREM WaitersAreWoken == Spec => []NoLostWakeup
<1>1. SlotInv => NoLostWakeup
  BY DEF SlotInv, Served, NoLostWakeup
<1>2. QED
  BY SlotInvHolds, <1>1, PTL

\* Slots are neither exceeded nor left unused, for any conversations, messages and limit.
THEOREM SlotsAreGivenOut == Spec => []WaitersAreServed
<1>1. QED
  BY LimitIsKept, WaitersAreWoken, PTL DEF WaitersAreServed

\* A conversation stands in line once, without a slot, and its prepare waits there.
THEOREM OneStandsInLine == Spec => []OnePlaceInLine
<1>1. SlotInv => OnePlaceInLine
  <2> SUFFICES ASSUME SlotInv
               PROVE  OnePlaceInLine
    OBVIOUS
  <2>1. NoRepeats(highWaiters \o lowWaiters)
    BY ConcatLemma DEF SlotInv, Lined
  <2>2. \A c : IsWaiting(c) => slot[c] = "none" /\ step[c] \in {"admitted", "claiming"}
    BY DEF SlotInv, Lined, IsWaiting
  <2>3. QED
    BY <2>1, <2>2 DEF NoRepeats, OnePlaceInLine
<1>2. QED
  BY SlotInvHolds, <1>1, PTL

\* No step, not even the release of the last live conversation, gives backlog a slot
\* while live input waits or another conversation works.
THEOREM LiveInputGoesFirst == Spec => LiveInputFirst
<1>1. SlotInv /\ [Next]_vars => [~ BacklogFirst]_vars
  BY SlotNext
<1>2. QED
  BY SlotInvHolds, <1>1, PTL DEF Spec, LiveInputFirst

-----------------------------------------------------------------------------
(* What was answered.                                                      *)

\* A message with a row in send_attempts was claimed: what is not back from the
\* agent is neither waiting nor being steered, so nothing puts it back.
Claimed == {"active", "failed", "done", "gone"}
SpokenInv == \A m \in Message : m \in spoke => Has(m, Claimed)

LEMMA SameInbox ==
  ASSUME SpokenInv, UNCHANGED inbox
  PROVE  SpokenInv'
BY DEF SpokenInv, Has, inbox

\* A status of a claimed message may change among those.
LEMMA SetClaimed ==
  ASSUME SpokenInv, UNCHANGED spoke, NEW M, NEW value \in Claimed,
         status' = SetStatus(M, value)
  PROVE  SpokenInv'
BY DEF SpokenInv, Has, SetStatus

\* Whatever becomes of the messages M, none of them was answered.
LEMMA SetUnspoken ==
  ASSUME SpokenInv, UNCHANGED spoke, NEW M, NEW value,
         status' = SetStatus(M, value),
         \A m \in Message : m \in M => m \notin spoke
  PROVE  SpokenInv'
BY DEF SpokenInv, Has, SetStatus

LEMMA BarredKeeps ==
  ASSUME SpokenInv, NEW c \in Conversation, Barred(c)
  PROVE  SpokenInv'
<1>1. CASE UNCHANGED inbox
  BY <1>1, SameInbox
<1>2. CASE Refuse(c)
  <2>1. UNCHANGED spoke /\ \E M : status' = SetStatus(M, "done")
    BY <1>2 DEF Refuse
  <2>2. QED
    BY <2>1, SetClaimed DEF Claimed
<1>3. QED
  BY <1>1, <1>2 DEF Barred

LEMMA YieldKeeps ==
  ASSUME SpokenInv, NEW c \in Conversation, Yield(c)
  PROVE  SpokenInv'
<1> DEFINE M == {Current(c)} \cup Group(Current(c))
<1>1. UNCHANGED spoke /\ status' = SetStatus(M, "deferred") /\ Current(c) \notin spoke
  BY DEF Yield, Yields
<1>2. \A m \in Message : m \in M => m \notin spoke
  BY <1>1 DEF Group, SpokenInv, Has, Claimed
<1> HIDE DEF M
<1>3. QED
  BY <1>1, <1>2, SetUnspoken

LEMMA PrepareKeeps ==
  ASSUME SpokenInv, NEW c \in Conversation, Prepare(c)
  PROVE  SpokenInv'
<1>1. ASSUME UNCHANGED spoke, NEW M, NEW value \in Claimed, status' = SetStatus(M, value)
      PROVE  SpokenInv'
  BY <1>1, SetClaimed
<1>2. CASE Skip(c) \/ SkipPaused(c) \/ JoinTurn(c) \/ AcquireAgain(c)
  BY <1>2, SameInbox DEF Skip, SkipPaused, JoinTurn, AcquireAgain
<1>3. CASE Ignore(c)
  BY <1>3, <1>1 DEF Ignore, Claimed
<1>4. CASE Request(c)
  <2>1. \/ Refuse(c)
        \/ UNCHANGED spoke /\ status' = SetStatus({Current(c)}, "active")
        \/ UNCHANGED spoke /\ status' = status
    BY <1>4 DEF Request
  <2>2. Refuse(c) => Barred(c)
    BY DEF Barred
  <2>3. QED
    BY <2>1, <2>2, <1>1, BarredKeeps DEF Claimed, SpokenInv, Has
<1>5. CASE Proceed(c)
  <2>1. \/ Barred(c) \/ Yield(c)
        \/ UNCHANGED spoke /\ status' = SetStatus({Current(c)}, "active")
        \/ UNCHANGED spoke /\ status' = status
    BY <1>5 DEF Proceed
  <2>2. QED
    BY <2>1, <1>1, BarredKeeps, YieldKeeps DEF Claimed, SpokenInv, Has
<1>6. CASE Inspect(c)
  <2>1. \/ Barred(c) \/ Yield(c) \/ UNCHANGED inbox
        \/ UNCHANGED spoke /\ \E M : status' = SetStatus(M, "done")
    BY <1>6 DEF Inspect
  <2>2. QED
    BY <2>1, <1>1, SameInbox, BarredKeeps, YieldKeeps DEF Claimed
<1>7. CASE Resolve(c)
  <2>1. \/ Barred(c) \/ UNCHANGED inbox
        \/ /\ UNCHANGED spoke /\ status' = SetStatus({Current(c)}, "steering")
           /\ Has(Current(c), Received)
    BY <1>7 DEF Resolve
  <2>2. Has(Current(c), Received) => \A m \in Message : m = Current(c) => m \notin spoke
    BY DEF SpokenInv, Has, Received, Claimed
  <2>3. QED
    BY <2>1, <2>2, SameInbox, BarredKeeps, SetUnspoken
<1>8. CASE Claim(c)
  <2>1. \/ Barred(c) \/ Yield(c) \/ UNCHANGED inbox
        \/ UNCHANGED spoke /\ status' = SetStatus({Current(c)}, "active")
    BY <1>8 DEF Claim
  <2>2. QED
    BY <2>1, <1>1, SameInbox, BarredKeeps, YieldKeeps DEF Claimed
<1>9. CASE Submit(c)
  <2>1. Barred(c) \/ Yield(c) \/ UNCHANGED inbox
    BY <1>9 DEF Submit
  <2>2. QED
    BY <2>1, SameInbox, BarredKeeps, YieldKeeps
<1>10. CASE Start(c)
  <2> DEFINE M == {x \in Group(Current(c)) : Has(x, {"steering"})}
  <2>1. \/ UNCHANGED inbox
        \/ UNCHANGED spoke /\ status' = SetStatus(M, "steered")
    BY <1>10 DEF Start
  <2>2. \A m \in Message : m \in M => m \notin spoke
    BY DEF SpokenInv, Has, Claimed
  <2> HIDE DEF M
  <2>3. QED
    BY <2>1, <2>2, SameInbox, SetUnspoken
<1>11. CASE Steer(c)
  <2>1. \/ /\ UNCHANGED spoke /\ Has(Current(c), {"steering"})
           /\ \E value : status' = SetStatus({Current(c)}, value)
        \/ UNCHANGED spoke /\ status' = status
    BY <1>11 DEF Steer
  <2>2. Has(Current(c), {"steering"}) =>
          \A m \in Message : m \in {Current(c)} => m \notin spoke
    BY DEF SpokenInv, Has, Claimed
  <2>3. QED
    BY <2>1, <2>2, SetUnspoken DEF SpokenInv, Has
<1>12. QED
  BY <1>2, <1>3, <1>4, <1>5, <1>6, <1>7, <1>8, <1>9, <1>10, <1>11 DEF Prepare

LEMMA EndTurnKeeps ==
  ASSUME SpokenInv, NEW c \in Conversation, EndTurn(c)
  PROVE  SpokenInv'
<1>1. CASE Complete(c) \/ Supersede(c) \/ Cancel(c)
  <2>1. UNCHANGED spoke /\ \E M : status' = SetStatus(M, "done")
    BY <1>1 DEF Complete, Supersede, Cancel
  <2>2. QED
    BY <2>1, SetClaimed DEF Claimed
<1>2. CASE FailTurn(c)
  <2> DEFINE p == turn[c].primary
  <2>1. /\ UNCHANGED spoke
        /\ status' = [m \in Message |-> IF m = p /\ Has(p, {"active"}) THEN "failed"
                                        ELSE IF m \in LaterInput(p) THEN "done" ELSE status[m]]
    BY <1>2 DEF FailTurn
  <2> HIDE DEF p
  <2>2. QED
    BY <2>1 DEF SpokenInv, Has, Claimed
<1>3. CASE Preempt(c)
  <2> DEFINE p == turn[c].primary
             M == {x \in {p} \cup Group(p) : ~ Has(x, {"done", "gone"})}
  <2>1. \/ UNCHANGED spoke /\ status' = SetStatus({p} \cap M, "failed")
        \/ UNCHANGED spoke /\ status' = SetStatus(M, "deferred") /\ p \notin spoke
    BY <1>3 DEF Preempt
  <2>2. p \notin spoke => \A m \in Message : m \in M => m \notin spoke
    BY DEF Group, SpokenInv, Has, Claimed
  <2> HIDE DEF p, M
  <2>3. QED
    BY <2>1, <2>2, SetClaimed, SetUnspoken DEF Claimed
<1>4. CASE UntrackedEnds(c)
  BY <1>4, SameInbox DEF UntrackedEnds
<1>5. QED
  BY <1>1, <1>2, <1>3, <1>4 DEF EndTurn

LEMMA ArriveKeeps ==
  ASSUME SpokenInv, NEW m \in Message, Arrive(m)
  PROVE  SpokenInv'
<1> DEFINE c == ConversationOf[m]
           st == [x \in Message |->
                    IF x = m THEN "received"
                    ELSE IF x \in MessagesOf(c) /\ Has(x, Received)
                    THEN (IF c \in Ilink THEN "done" ELSE "received") ELSE status[x]]
<1>1. UNCHANGED spoke /\ status' = st /\ Has(m, {"absent"})
  BY DEF Arrive, Arrivable
<1>2. \A x \in Message : x \in spoke => x # m /\ ~ Has(x, Received)
  BY <1>1 DEF SpokenInv, Has, Received, Claimed
<1> HIDE DEF c
<1>3. \A x \in Message : x \in spoke => st[x] = status[x]
  BY <1>2
<1> HIDE DEF st
<1>4. QED
  BY <1>1, <1>3 DEF SpokenInv, Has

LEMMA SpokenNext == SpokenInv /\ [Next]_vars => SpokenInv'
<1> SUFFICES ASSUME SpokenInv, [Next]_vars
             PROVE  SpokenInv'
  OBVIOUS
<1>1. ASSUME NEW c \in Conversation, Prepare(c) \/ EndTurn(c)
      PROVE  SpokenInv'
  BY <1>1, PrepareKeeps, EndTurnKeeps
<1>2. ASSUME NEW c \in Conversation, Speak(c)
      PROVE  SpokenInv'
  BY <1>2 DEF Speak, SpokenInv, Has, Claimed
<1>3. ASSUME NEW c \in Conversation, FinishRun(c) \/ MissInterrupt(c) \/ RecoverNext(c)
      PROVE  SpokenInv'
  BY <1>3, SameInbox DEF FinishRun, MissInterrupt, RecoverNext
<1>4. ASSUME NEW c \in Conversation, Drain(c)
      PROVE  SpokenInv'
  <2>1. UNCHANGED spoke
        /\ status' = [m \in Message |-> IF m \in Deferred(c) THEN "received" ELSE status[m]]
    BY <1>4 DEF Drain
  <2>2. QED
    BY <2>1 DEF SpokenInv, Has, Deferred, Claimed
<1>5. ASSUME NEW c \in Conversation, Delete(c)
      PROVE  SpokenInv'
  <2>1. UNCHANGED spoke /\ status' = SetStatus(MessagesOf(c), "gone")
    BY <1>5 DEF Delete
  <2>2. QED
    BY <2>1, SetClaimed DEF Claimed
<1>6. ASSUME NEW m \in Message, Arrive(m)
      PROVE  SpokenInv'
  BY <1>6, ArriveKeeps
<1>7. ASSUME NEW m \in Message, ArriveDeferred(m)
      PROVE  SpokenInv'
  <2>1. UNCHANGED spoke /\ status' = SetStatus({m}, "deferred") /\ Has(m, {"absent"})
    BY <1>7 DEF ArriveDeferred, Arrivable
  <2>2. m \notin spoke
    BY <2>1 DEF SpokenInv, Has, Claimed
  <2>3. QED
    BY <2>1, <2>2, SetUnspoken
<1>8. ASSUME StopDrain \/ StopWecom \/ StartWecom \/ UNCHANGED vars
      PROVE  SpokenInv'
  BY <1>8, SameInbox DEF StopDrain, StopWecom, StartWecom, vars
<1>9. QED
  BY <1>1, <1>2, <1>3, <1>4, <1>5, <1>6, <1>7, <1>8 DEF Next

\* What was answered, even partly, is never taken for new again: neither what gives
\* way to live input nor a failed steering, a drain or an interrupt puts it back.
THEOREM NothingAnsweredIsReplayed == Spec => []AnsweredNeverReplayed
<1>1. Init => SpokenInv
  BY DEF Init, SpokenInv, Has, Claimed
<1>2. SpokenInv => AnsweredNeverReplayed
  BY DEF SpokenInv, AnsweredNeverReplayed, Has, Claimed, Received
<1>3. QED
  BY <1>1, <1>2, SpokenNext, PTL DEF Spec
=============================================================================
