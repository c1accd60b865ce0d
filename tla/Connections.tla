---------------------------- MODULE Connections ----------------------------
(***************************************************************************)
(* What phone_connection and schedule_connection have in common: a socket,  *)
(* one asynchronous read at a time whose handler the io_service calls when  *)
(* it comes to it, and a pool of connections.  A handler that was already   *)
(* due when its socket was closed is called all the same.                   *)
(***************************************************************************)
EXTENDS Naturals, FiniteSets

CONSTANTS
  Conns,      \* connection objects; a free one stands for a new one
  Peers,      \* who connects: the ips
  NoConn,
  Faults      \* "reset", "silent": how a peer may leave without closing;
              \* "throw": remote_endpoint may throw after a reset

ASSUME ConnAssumption ==
  NoConn \notin Conns /\ Faults \subseteq {"reset", "silent", "throw"}

VARIABLES
  peer,          \* who is at the other end of each connection
  remote,        \* what the peer did: "up", "closed", "reset", "silent"
  sock,          \* "open", "closed" at this end
  read,          \* "none", "pending", or due with "data", "error", "aborted"
  connections,   \* the pool's connections_
  starting,      \* the connection inside the pool's start, or NoConn
  process        \* "up", "stopped", "aborted"

connVars == <<peer, remote, sock, read, connections, starting, process>>

Reads == {"none", "pending", "data", "error", "aborted"}

ConnTypeOK ==
  /\ peer \in [Conns -> Peers]
  /\ remote \in [Conns -> {"up", "closed", "reset", "silent"}]
  /\ sock \in [Conns -> {"open", "closed"}]
  /\ read \in [Conns -> Reads]
  /\ connections \in SUBSET Conns
  /\ starting \in Conns \cup {NoConn}
  /\ process \in {"up", "stopped", "aborted"}

ConnInit ==
  /\ peer \in [Conns -> Peers]
  /\ remote = [c \in Conns |-> "closed"]
  /\ sock = [c \in Conns |-> "closed"]
  /\ read = [c \in Conns |-> "none"]
  /\ connections = {} /\ starting = NoConn /\ process = "up"

\* The IO thread can take up the next handler.
Ready == process = "up" /\ starting = NoConn

Free(c) == sock[c] = "closed" /\ read[c] = "none" /\ c \notin connections

\* A new connection is accepted.
Open(c, p) ==
  /\ Free(c)
  /\ peer' = [peer EXCEPT ![c] = p]
  /\ remote' = [remote EXCEPT ![c] = "up"]

\* Closing a socket aborts its read, unless its handler is due already.
AfterClose(r) == IF r = "pending" THEN "aborted" ELSE r

\* socket().remote_endpoint() of one of these connections throws: nobody
\* catches it on the IO thread.
Throws(conns) ==
  /\ "throw" \in Faults /\ \E c \in conns : remote[c] = "reset"
  /\ process' = "aborted"

\* A new connection that was reset before it is accepted: handle_phone_accept
\* and handle_schedule_accept ask for its ip.
AcceptThrows ==
  /\ Ready /\ "throw" \in Faults /\ \E c \in Conns : Free(c)
  /\ process' = "aborted"
  /\ UNCHANGED <<peer, remote, sock, read, connections, starting>>

\* async_read_some; on a closed socket it fails at once.
ReadNext(c) == read' = [read EXCEPT ![c] = IF sock[c] = "open" THEN "pending" ELSE "error"]

-----------------------------------------------------------------------------
PeerSends(c) ==
  /\ read[c] = "pending" /\ remote[c] = "up"
  /\ read' = [read EXCEPT ![c] = "data"]
  /\ UNCHANGED <<peer, remote, sock, connections, starting, process>>

\* A peer that leaves silently (its battery, the network) ends no read.
PeerLeaves(c) ==
  /\ sock[c] = "open" /\ remote[c] = "up"
  /\ \E how \in {"closed"} \cup (Faults \cap {"reset", "silent"}) : remote' = [remote EXCEPT ![c] = how]
  /\ UNCHANGED <<peer, sock, read, connections, starting, process>>

ReadFails(c) ==
  /\ read[c] = "pending" /\ remote[c] \in {"closed", "reset"}
  /\ read' = [read EXCEPT ![c] = "error"]
  /\ UNCHANGED <<peer, remote, sock, connections, starting, process>>

\* Mutant of HandleData: no next read.
HandleDataOnce(c) ==
  /\ Ready /\ read[c] = "data"
  /\ read' = [read EXCEPT ![c] = "none"]
  /\ UNCHANGED <<peer, remote, sock, connections, starting, process>>

\* handle_read with data: the message is handled and the next read is begun.
HandleData(c) ==
  /\ Ready /\ read[c] = "data"
  /\ ReadNext(c)
  /\ UNCHANGED <<peer, remote, sock, connections, starting, process>>

\* handle_read of a closed connection, aborted or with an error: nothing.
HandleClosed(c) ==
  /\ Ready
  /\ read[c] = "aborted" \/ (read[c] = "error" /\ sock[c] = "closed")
  /\ read' = [read EXCEPT ![c] = "none"]
  /\ UNCHANGED <<peer, remote, sock, connections, starting, process>>

\* handle_read with an error is about a connection that is still open.
Lost(c) == Ready /\ read[c] = "error" /\ sock[c] = "open"
=============================================================================
