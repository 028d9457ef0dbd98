--------------------------- MODULE ReplyContract ---------------------------
(***************************************************************************)
(* What a WeChat iLink conversation is promised, without statuses, rows or *)
(* counters: at most one window is live, a window that was left is never   *)
(* live again, and a live window takes at most MaxSends sends, one at a    *)
(* time, no send being handed to the network twice.                        *)
(***************************************************************************)
EXTENDS Naturals, FiniteSets

CONSTANTS
  Window,     \* reply windows
  Send,       \* sends the program may attempt
  MaxSends    \* sends a window admits

VARIABLES
  live,       \* the window that accepts sends, if there is one
  past,       \* windows that never accept a send again
  spent,      \* spent[w]: the sends handed to the network in window w
  inflight    \* the send whose outcome is not known yet

cvars == <<live, past, spent, inflight>>

Init ==
  /\ live = {}
  /\ past = {}
  /\ spent = [w \in Window |-> {}]
  /\ inflight = {}

\* The customer writes, the account changes or time passes.
ChangeDirection ==
  /\ live' \subseteq Window
  /\ \A v, w \in live' : v = w
  /\ past \subseteq past'
  /\ past' \subseteq Window
  /\ live \subseteq live' \cup past'
  /\ live' \cap past' = {}
  /\ UNCHANGED <<spent, inflight>>

\* The account is deleted: nothing can be sent any more, and the outcome of a
\* send on its way is not waited for.
Erase ==
  /\ live' = {}
  /\ past' = past \cup live
  /\ inflight' = {}
  /\ UNCHANGED spent

Transmit(a, w) ==
  /\ w \in live
  /\ inflight = {}
  /\ \A v \in Window : a \notin spent[v]
  /\ Cardinality(spent[w]) < MaxSends
  /\ spent' = [spent EXCEPT ![w] = @ \cup {a}]
  /\ inflight' = {a}
  /\ UNCHANGED <<live, past>>

Settle ==
  /\ inflight # {}
  /\ inflight' = {}
  /\ UNCHANGED <<live, past, spent>>

Next ==
  \/ ChangeDirection
  \/ Erase
  \/ \E a \in Send, w \in Window : Transmit(a, w)
  \/ Settle

Spec == Init /\ [][Next]_cvars
=============================================================================
