---------------------------- MODULE OperatorIpc ----------------------------
(***************************************************************************)
(* The local socket of a runtime: src/src/mcp/ipc-host.ts with the handshake  *)
(* of ipc-protocol.ts, the relay of stdio-relay.ts and the operator sessions    *)
(* of ilink-login-server.ts.                                                 *)
(*                                                                         *)
(* A host listens at an address of its own and publishes it, with a token, in  *)
(* a descriptor.  A client finds the descriptor, connects through a relay,      *)
(* shows the token and gets an MCP server of its own, which is a session of     *)
(* the runtime until the connection ends.  The host closes while clients come   *)
(* and go: gently, waiting for those that are attached, or by force.  The        *)
(* process dies anywhere, and the next host cleans up.                         *)
(*                                                                         *)
(* Abstractions.  Generations are numbers, and stand for the address and the    *)
(* token as well.  What a session does is in modules Enrollment and RuntimeUse.  *)
(* The limit of sixteen connections and the messages over one are left out.    *)
(***************************************************************************)
EXTENDS Naturals, FiniteSets

CONSTANTS
  Client,      \* each is one relay process, and one connection
  MaxRuns      \* bound on the hosts started one after the other

ConstantsOK ==
  MaxRuns \in Nat

VARIABLES
  run,          \* generation of the host; the number of hosts started
  up,           \* its process lives
  start,        \* #start: "no", "listening", "open" or "failed"
  closed,       \* #closed
  force,        \* #force
  stopped,      \* #finishClose has closed the server
  ended,        \* the promise of close() is settled
  descriptors,  \* generations whose descriptor is on disk
  stage,        \* progress of each connection
  found,        \* generation the client has read
  open,         \* connections whose socket is not destroyed
  closing,      \* connection.close(): "no", "called" or "done"
  sessions      \* connections whose MCP server is a session of the runtime

host == <<run, up, start, closed, force, stopped, ended>>
vars == <<host, descriptors, stage, found, open, closing, sessions>>

-----------------------------------------------------------------------------

Connected == {"reading", "greeting", "joining", "attached"}

TypeOK ==
  /\ run \in 0 .. MaxRuns /\ up \in BOOLEAN
  /\ start \in {"no", "listening", "open", "failed"}
  /\ closed \in BOOLEAN /\ force \in BOOLEAN /\ stopped \in BOOLEAN /\ ended \in BOOLEAN
  /\ descriptors \subseteq 1 .. MaxRuns
  /\ stage \in [Client -> {"none", "found", "over"} \cup Connected]
  /\ found \in [Client -> 0 .. MaxRuns]
  /\ open \subseteq Client /\ sessions \subseteq Client
  /\ closing \in [Client -> {"no", "called", "done"}]
  \* #connections are of this host, and a session is one of them.
  /\ \A c \in open : stage[c] \in Connected \cup {"over"} /\ found[c] = run /\ up
  /\ \A c \in sessions : stage[c] # "reading"
  /\ \A c \in Client : stage[c] = "attached" /\ closing[c] = "no" => c \in sessions
  /\ ended => closed /\ (stopped \/ start \in {"no", "failed"})

Goes(c, s) == stage' = [stage EXCEPT ![c] = s]
Attached(c) == stage[c] = "attached"
\* connection.close() of each of cs.
CloseAll(cs) ==
  closing' = [c \in Client |-> IF c \in cs /\ closing[c] = "no" THEN "called" ELSE closing[c]]
\* Mutant: all of them.
Anybody == open
Unauthenticated == {c \in open : ~Attached(c)}

-----------------------------------------------------------------------------
(* The host. *)

\* #removeStaleState, and the address of this generation.
Start ==
  /\ ~up /\ run < MaxRuns
  /\ run' = run + 1 /\ up' = TRUE /\ start' = "listening"
  /\ closed' = FALSE /\ force' = FALSE /\ stopped' = FALSE /\ ended' = FALSE
  /\ descriptors' = {}
  /\ UNCHANGED <<stage, found, open, closing, sessions>>

\* A host that was closed meanwhile publishes nothing.
\* Mutant: it publishes, and cleans up when it has closed.
ListeningAnyway ==
  /\ start = "listening"
  /\ start' = "open" /\ descriptors' = descriptors \cup {run}
  /\ UNCHANGED <<run, up, closed, force, stopped, ended, stage, found, open, closing, sessions>>
Listening ==
  /\ start = "listening"
  /\ \/ ~closed /\ start' = "open" /\ descriptors' = descriptors \cup {run}
     \/ start' = "failed" /\ UNCHANGED descriptors
  /\ UNCHANGED <<run, up, closed, force, stopped, ended, stage, found, open, closing, sessions>>

Close(f) ==
  /\ up /\ ~closed
  /\ closed' = TRUE /\ force' = f
  /\ descriptors' = descriptors \ {run}
  /\ CloseAll(IF f THEN open ELSE Unauthenticated)
  /\ UNCHANGED <<run, up, start, stopped, ended, stage, found, open, sessions>>
\* A second call, by force.
\* Mutant: it only notes it for #finishClose.
CloseByForceLater ==
  /\ closed /\ ~force /\ up
  /\ force' = TRUE
  /\ UNCHANGED <<run, up, start, closed, stopped, ended, descriptors, stage, found, open, closing,
                 sessions>>
CloseByForce ==
  /\ closed /\ ~force /\ up
  /\ force' = TRUE /\ CloseAll(open)
  /\ UNCHANGED <<run, up, start, closed, stopped, ended, descriptors, stage, found, open, sessions>>

\* The start is awaited; from here on nobody connects.
FinishClose ==
  /\ closed /\ ~stopped /\ start = "open"
  /\ stopped' = TRUE /\ descriptors' = descriptors \ {run}
  /\ CloseAll(IF force THEN open ELSE Unauthenticated)
  /\ UNCHANGED <<run, up, start, closed, force, ended, stage, found, open, sessions>>
\* The server has ended when its last socket has.
Closed ==
  /\ closed /\ ~ended /\ up
  /\ start = "failed" \/ (stopped /\ open = {})
  /\ ended' = TRUE
  /\ UNCHANGED <<run, up, start, closed, force, stopped, descriptors, stage, found, open, closing,
                 sessions>>

-----------------------------------------------------------------------------
(* A connection. *)

\* findMcpDescriptorFile: there is exactly one.
Find(c) ==
  /\ stage[c] = "none"
  /\ \E g \in descriptors : descriptors = {g} /\ found' = [found EXCEPT ![c] = g]
  /\ Goes(c, "found")
  /\ UNCHANGED <<host, descriptors, open, closing, sessions>>

\* Nobody is there, the host is closed, or it accepts.
\* Mutant: the generation is not compared.
ServingAny(g) == up /\ start = "open" /\ ~stopped
Serving(g) == up /\ g = run /\ start = "open" /\ ~stopped
Accept(c) ==
  /\ stage[c] = "found"
  /\ IF Serving(found[c]) /\ ~closed
     THEN Goes(c, "reading") /\ open' = open \cup {c}
     ELSE Goes(c, "over") /\ UNCHANGED open
  /\ closing' = [closing EXCEPT ![c] = IF Serving(found[c]) /\ ~closed THEN "no" ELSE "done"]
  /\ UNCHANGED <<host, descriptors, found, sessions>>

\* The line is read: the server of the route is created and registers its session.
Handshake(c) ==
  /\ stage[c] = "reading" /\ c \in open
  /\ IF closed
     THEN Goes(c, "over") /\ open' = open \ {c} /\ UNCHANGED sessions
     ELSE Goes(c, "greeting") /\ sessions' = sessions \cup {c} /\ UNCHANGED open
  /\ UNCHANGED <<host, descriptors, found, closing>>
\* A wrong line, none in time, or a server that cannot be created.
Refused(c) ==
  /\ stage[c] = "reading" /\ c \in open
  /\ Goes(c, "over") /\ open' = open \ {c}
  /\ UNCHANGED <<host, descriptors, found, closing, sessions>>

\* The answer is written; the socket may be gone by then.
Greeted(c) ==
  /\ stage[c] = "greeting" /\ up
  /\ IF c \in open /\ ~closed
     THEN Goes(c, "joining") /\ UNCHANGED open
     ELSE Goes(c, "over") /\ open' = open \ {c}
  /\ UNCHANGED <<host, descriptors, found, closing, sessions>>
\* The transport is connected.
Joined(c) ==
  /\ stage[c] = "joining" /\ up
  /\ Goes(c, "attached")
  /\ CloseAll(IF closed THEN {c} ELSE {})
  /\ UNCHANGED <<host, descriptors, found, open, sessions>>

\* The relay ends, or its input does, or a frame cannot be read.
Leave(c) ==
  /\ c \in open /\ open' = open \ {c}
  /\ UNCHANGED <<host, descriptors, stage, found, closing, sessions>>
\* The close event of the socket, which a handshake still being read ends with.
SocketClosed(c) ==
  /\ stage[c] \in Connected \cup {"over"} /\ c \notin open /\ closing[c] = "no"
  /\ CloseAll({c})
  /\ IF stage[c] = "reading" THEN Goes(c, "over") ELSE UNCHANGED stage
  /\ UNCHANGED <<host, descriptors, found, open, sessions>>
\* mcp.close() tells the session, connected or not, and the socket is destroyed.
\* Mutant: only a server that was connected tells its session.
ConnectionClosedQuietly(c) ==
  /\ closing[c] = "called" /\ closing' = [closing EXCEPT ![c] = "done"]
  /\ sessions' = IF Attached(c) THEN sessions \ {c} ELSE sessions
  /\ open' = open \ {c}
  /\ UNCHANGED <<host, descriptors, stage, found>>
ConnectionClosed(c) ==
  /\ closing[c] = "called" /\ closing' = [closing EXCEPT ![c] = "done"]
  /\ sessions' = sessions \ {c} /\ open' = open \ {c}
  /\ UNCHANGED <<host, descriptors, stage, found>>

\* The process exits, or is killed: its sockets and sessions go, its files stay.
ProcessEnds ==
  /\ up /\ up' = FALSE
  /\ start' = "no" /\ closed' = FALSE /\ force' = FALSE /\ stopped' = FALSE /\ ended' = FALSE
  /\ open' = {} /\ sessions' = {}
  /\ stage' = [c \in Client |-> IF stage[c] \in Connected THEN "over" ELSE stage[c]]
  /\ closing' = [c \in Client |-> IF stage[c] \in {"none", "found"} THEN "no" ELSE "done"]
  /\ UNCHANGED <<run, descriptors, found>>

-----------------------------------------------------------------------------

Init ==
  /\ run = 0 /\ up = FALSE /\ start = "no"
  /\ closed = FALSE /\ force = FALSE /\ stopped = FALSE /\ ended = FALSE
  /\ descriptors = {}
  /\ stage = [c \in Client |-> "none"] /\ found = [c \in Client |-> 0]
  /\ open = {} /\ sessions = {}
  /\ closing = [c \in Client |-> "no"]

HostStep == Listening \/ FinishClose \/ Closed
Step(c) == Handshake(c) \/ Refused(c) \/ Greeted(c) \/ Joined(c) \/ SocketClosed(c) \/ ConnectionClosed(c)

Next ==
  \/ Start \/ HostStep \/ (\E f \in BOOLEAN : Close(f)) \/ CloseByForce \/ ProcessEnds
  \/ \E c \in Client : Find(c) \/ Accept(c) \/ Step(c) \/ Leave(c)

Spec == Init /\ [][Next]_vars

\* Callbacks run; a client is under no obligation to leave, nor the process to live.
Fairness == WF_vars(HostStep) /\ \A c \in Client : WF_vars(Step(c))
FairSpec == Spec /\ Fairness

-----------------------------------------------------------------------------
(* Properties.                                                             *)

\* A descriptor on disk is that of the last host, and its host serves, unless the process
\* died without closing it: whoever finds one finds a runtime or a corpse, never a host that
\* is closing nor one that never came up (#start, #cleanupFiles, #removeStaleState).
DescriptorIsServed == \A g \in descriptors :
  g = run /\ (up => start = "open" /\ ~closed)

\* A close that is not forced ends no connection of an attached client: it goes when the
\* client does (#closeUnauthenticated).
GracefulKeepsClients == [][\A c \in Client :
  Attached(c) /\ closing[c] = "no" /\ closing'[c] = "called" /\ c \in open => force']_vars

\* A connection that is gone is no session: the runtime does not count as in use, and does
\* not refuse to stop, for a client that left, at whatever step of the handshake it did.
SessionEnds == \A c \in Client : (c \in sessions /\ c \notin open) ~> c \notin sessions

\* A host that closes ends, unless a client stays attached and it was not forced: neither
\* a silent connection nor one in the middle of its handshake holds the runtime up.
CloseEnds == (closed /\ up) ~>
  (ended \/ ~up \/ (~force /\ \E c \in open : Attached(c)))
=============================================================================
