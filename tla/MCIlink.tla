------------------------------- MODULE MCIlink -------------------------------
(***************************************************************************)
(* IlinkExecutor, with instances of it and of ReplyWindow for other calls  *)
(* and for longer pages.  A run explores one after another: subject names  *)
(* the instance whose steps are taken.  The instances share the variables, *)
(* and the attempts and calls of this module.                              *)
(***************************************************************************)
EXTENDS IlinkExecutor, TLC

CONSTANTS
  Subject,                  \* the instances a run explores
  m1, m2, m3                \* messages

VARIABLE subject

allVars == <<subject, vars, executor>>

\* A call whose window may be superseded, in the instance of the configuration: two messages
\* that arrive one by one in any order.
Numbered == [m \in Message |-> IF m = m1 THEN 1 ELSE 2]
NoNumber == [m \in Message |-> 0]
Apart == {<<m>> : m \in Message}

\* Two calls in line.
Line == INSTANCE IlinkExecutor WITH
  Message <- {m1}, MaxSends <- 2, MaxGeneration <- 2,
  ProviderSeq <- [m \in {m1} |-> 1], SentAt <- [m \in {m1} |-> 0],
  NumericId <- [m \in {m1} |-> 0], Page <- {<<m1>>},
  CallKind <- {"text", "image", "queue_notice", "agent_approval"}

\* Three messages in pages of every composition and order; m1 has no provider sequence and
\* shares its time stamp with m2.
AllPages == UNION {{f \in [1 .. n -> {m1, m2, m3}] : \A i, j \in 1 .. n : i # j => f[i] # f[j]} :
                     n \in 1 .. 3}
Paging == INSTANCE ReplyWindow WITH
  Message <- {m1, m2, m3}, MaxSends <- 1, SystemKind <- {}, MaxGeneration <- 1,
  ProviderSeq <- [m \in {m1, m2, m3} |-> CASE m = m1 -> 0 [] m = m2 -> 1 [] m = m3 -> 2],
  SentAt <- [m \in {m1, m2, m3} |-> IF m = m3 THEN 2 ELSE 1],
  NumericId <- [m \in {m1, m2, m3} |-> CASE m = m1 -> 1 [] m = m2 -> 2 [] m = m3 -> 0],
  Page <- AllPages

ASSUME ConstantsAssumption == ConstantsOK /\ Line!ConstantsOK

\* Attempts and calls are told apart by nothing but their names.
Symmetry == Permutations(Attempt) \cup Permutations(Call)

MCInit ==
  /\ subject \in Subject
  /\ CASE subject = "images" -> ExecutorInit
       [] subject = "line" -> Line!ExecutorInit
       [] subject = "pages" -> /\ Paging!Init
                             /\ call = [c \in Call |-> NewCall] /\ queue = <<>> /\ tokens = {}

\* One of the calls is made.
ImagesNext ==
  /\ subject = "images" /\ ExecutorNext
  /\ Cardinality({c \in Call : call'[c].at # "new"}) <= 1

LineNext == subject = "line" /\ Line!ExecutorNext

\* Without turns, restarts, deletions and windows that lapse.
PagingNext ==
  /\ subject = "pages" /\ Paging!Next
  /\ phase' = "running" /\ session' = NoSession /\ account'.active /\ lapsed' = {}
  /\ UNCHANGED <<attempt, executor>>

MCNext == UNCHANGED subject /\ (ImagesNext \/ LineNext \/ PagingNext)

MCSpec == MCInit /\ [][MCNext]_allVars

-----------------------------------------------------------------------------
(* Properties: SendsAreAccounted and HandedOverInContext are those of      *)
(* IlinkExecutor, the others those of the instances.                       *)

\* The types are right (ReplyWindow, IlinkExecutor).
TypesOK ==
  CASE subject = "images" -> ExecutorTypeOK
    [] subject = "line" -> Line!ExecutorTypeOK
    [] subject = "pages" -> Paging!TypeOK

\* A page never leaves the window with a message that is older than one it supersedes
\* (ReplyWindow).
NobodyOvertakes == [][subject = "pages" => ~Paging!OlderTakesOver]_allVars

\* Standing in line is enough: no call is turned away as busy (IlinkExecutor).
NobodyIsTurnedAway == [][subject = "line" => ~Line!TurnedAwayAsBusy]_allVars

\* The types stay right, and no step turns a call away as busy or leaves the window with an
\* older message (ReplyWindow, IlinkExecutor).
StepsAreSound == []TypesOK /\ NobodyOvertakes /\ NobodyIsTurnedAway
=============================================================================
