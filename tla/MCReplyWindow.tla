--------------------------- MODULE MCReplyWindow ---------------------------
(***************************************************************************)
(* An instance of ReplyWindow for TLC, of which a run explores one part    *)
(* after another: subject names the part, and only steps that stay within  *)
(* it are taken.  (NewestTakesOver is checked on pages of three messages   *)
(* in MCIlink.)                                                            *)
(***************************************************************************)
EXTENDS ReplyWindow, TLC

CONSTANTS
  Subject,  \* the parts a run explores
  m1, m2    \* an older and a newer message that share a time stamp

VARIABLE subject

NoProviderSeq == [m \in Message |-> 0]
SameTime == [m \in Message |-> 1]
MCNumericId == [m \in Message |-> IF m = m1 THEN 1 ELSE 2]

\* The messages come one by one, in any order, or in one page.
AllPages == {<<m1>>, <<m2>>, <<m1, m2>>}

RowSymmetry == Permutations(Attempt)

Delivered == {m \in Message : inbox[m] # NoInbound}
Used == {a \in Attempt : attempt[a] # NoAttempt}

\* Two sends for two messages, without restarts; three sends that compete for the window of
\* one message, with two kinds of notices and through a rotation of the account; one send
\* for two messages, through a rotation.
Within ==
  /\ subject # "quota" => \A a \in Used : attempt[a].kind # "queue_notice"
  /\ CASE subject = "turns" ->
            Cardinality(Used) <= 2 /\ phase = "running" /\ account.generation = 1
       [] subject = "quota" -> Delivered \subseteq {m1}
       [] subject = "rotation" -> Cardinality(Used) <= 1

MCInit == Init /\ subject \in Subject
MCNext == Next /\ UNCHANGED subject /\ Within'
MCSpec == MCInit /\ [][MCNext]_<<vars, subject>>
=============================================================================
