---------------------------- MODULE MCAdmission ----------------------------
(***************************************************************************)
(* Instances of Admission with one slot (MCInbound has one with two).  A   *)
(* run explores one after another: subject names the instance whose steps  *)
(* are taken.  The instances share the variables and the limit and are     *)
(* over subsets of the messages of this module, so that what Admission     *)
(* says of conversations, lines, slots and messages holds of all.  The     *)
(* messages of ca, cb and cc reach the inbox in the order of their numbers.*)
(***************************************************************************)
EXTENDS Admission

CONSTANTS
  Subject,                 \* the instances a run explores
  ca, cb, cc,              \* conversations
  a1, a2, a3, b1, c1       \* their messages

VARIABLE subject

\* The messages of the instances.
Few == {a1, b1}
Some == {a1, a2, b1}
Many == {a1, a2, a3, b1}
Spread == {a1, a2, b1, c1}

Owner(m) == IF m \in {a1, a2, a3} THEN ca ELSE IF m = b1 THEN cb ELSE cc
Number(m) == CASE m = a1 -> 1 [] m = b1 -> 2 [] m = a2 -> 3 [] m = a3 -> 4 [] m = c1 -> 5
Owners == [m \in Message |-> Owner(m)]
Numbers == [m \in Message |-> Number(m)]
OwnerOfFew == [m \in Few |-> Owner(m)]
OrderOfFew == [m \in Few |-> Number(m)]
OwnerOfSome == [m \in Some |-> Owner(m)]
OrderOfSome == [m \in Some |-> Number(m)]
OwnerOfMany == [m \in Many |-> Owner(m)]
OrderOfMany == [m \in Many |-> Number(m)]
OwnerOfSpread == [m \in Spread |-> Owner(m)]
OrderOfSpread == [m \in Spread |-> Number(m)]

\* One slot, iLink's ca with backlog and live input, WeCom's cb with live input, a stop and a
\* start of WeCom.
Mixed == INSTANCE Admission WITH
  Ilink <- {ca}, Message <- Some,
  ConversationOf <- OwnerOfSome, Order <- OrderOfSome,
  Live <- {a2, b1}, Unsupported <- {}, MaxTries <- 2, MaxRetries <- 1,
  MaxStops <- 1, Deletable <- {}

\* The account of ca is deleted; a2 is unsupported.
Erase == INSTANCE Admission WITH
  Ilink <- {ca}, Message <- Some,
  ConversationOf <- OwnerOfSome, Order <- OrderOfSome,
  Live <- {a2, b1}, Unsupported <- {a2}, MaxTries <- 2, MaxRetries <- 1,
  MaxStops <- 0, Deletable <- {ca}

\* WeCom's ca recovers two units while a3 arrives, and a retry.
Retried == INSTANCE Admission WITH
  Ilink <- {cb}, Message <- Many,
  ConversationOf <- OwnerOfMany, Order <- OrderOfMany,
  Live <- {a3, b1}, Unsupported <- {}, MaxTries <- 1, MaxRetries <- 1,
  MaxStops <- 0, Deletable <- {}

\* Three conversations want the only slot.
Contention == INSTANCE Admission WITH
  Ilink <- {ca, cb}, Message <- Spread,
  ConversationOf <- OwnerOfSpread, Order <- OrderOfSpread,
  Live <- {a2, c1}, Unsupported <- {}, MaxTries <- 1, MaxRetries <- 0,
  MaxStops <- 0, Deletable <- {}

\* The account of ca is deleted at any point of the work on its only message.
Deleted == INSTANCE Admission WITH
  Ilink <- {ca}, Message <- Few,
  ConversationOf <- OwnerOfFew, Order <- OrderOfFew,
  Live <- {a1, b1}, Unsupported <- {}, MaxTries <- 2, MaxRetries <- 0,
  MaxStops <- 0, Deletable <- {ca}

ASSUME InstancesAssumption ==
  /\ Mixed!ConstantsOK /\ Erase!ConstantsOK /\ Retried!ConstantsOK
  /\ Contention!ConstantsOK /\ Deleted!ConstantsOK

MCInit ==
  /\ subject \in Subject
  /\ CASE subject \in {"mixed", "erase"} -> Mixed!Init
       [] subject = "retried" -> Retried!Init
       [] subject = "contention" -> Contention!Init
       [] subject = "deleted" -> Deleted!Init

MCNext ==
  /\ UNCHANGED subject
  /\ \/ subject = "mixed" /\ Mixed!Next
     \/ subject = "erase" /\ Erase!Next
     \/ subject = "retried" /\ Retried!Next
     \/ subject = "contention" /\ Contention!Next
     \/ subject = "deleted" /\ Deleted!Next

MCSpec == MCInit /\ [][MCNext]_<<subject, vars>>

\* Of the run whose only subject is the deletion: with the fairness of Admission.
DeletedSpec ==
  /\ MCSpec
  /\ \A c \in Conversation : /\ WF_vars(Deleted!Prepare(c))
                             /\ WF_vars(Deleted!EndTurn(c))
                             /\ WF_vars(Deleted!RecoverNext(c))
  /\ WF_vars(Deleted!DrainStep)

-----------------------------------------------------------------------------
(* Properties: those of Admission, of which the types, the slots that are  *)
(* owned and those of the runs that are violated are on the instances.     *)

\* The types are right, and a slot never outlives the work it was given for, as long as no
\* account is deleted (see DeletedBecomesIdle).
NoIdleSlot ==
  CASE subject = "mixed" -> Mixed!TypeOK /\ SlotsAreOwned
    [] subject = "erase" -> Erase!TypeOK
    [] subject = "contention" -> Contention!TypeOK /\ SlotsAreOwned

\* The turns that run stay within the configured concurrency
\* (docs/plans/2026-09-06-project-simplification.md:47: respect capacity).
RetriedWithinCapacity == Retried!TurnsWithinCapacity

\* A deleted account leaves nothing behind that keeps the processor busy
\* (architecture.md: deleting the last running account also closes the runtime, which asks
\* isIdle).
DeletedLeavesNothing == Deleted!DeletedBecomesIdle
=============================================================================
