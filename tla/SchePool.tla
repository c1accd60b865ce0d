------------------------------ MODULE SchePool ------------------------------
(***************************************************************************)
(* sche_conn_pool on the IO thread: one schedule at a time.  Unlike a phone *)
(* a schedule does not replace its last connection: it is turned away as    *)
(* long as the pool has one, be there anybody at its other end or not.  The *)
(* debug output asks for the ip of a schedule that comes, says something or *)
(* goes, and throws if that one was reset.                                  *)
(***************************************************************************)
EXTENDS Connections

VARIABLE turnedAway      \* history: the connections stopped by start

scheVars == <<connVars, turnedAway>>

-----------------------------------------------------------------------------
\* Mutant of Occupied: a schedule is always taken.
OccupiedNever == FALSE

Occupied == connections # {}

\* main_task::handle_schedule_accept and sche_conn_pool::start.
HandleScheduleAccept(c, p) ==
  /\ Ready /\ Open(c, p)
  /\ \/ /\ Occupied /\ turnedAway' = turnedAway \cup {c}
        /\ UNCHANGED <<sock, read, connections>>
     \/ /\ ~Occupied /\ turnedAway' = turnedAway \ {c}
        /\ sock' = [sock EXCEPT ![c] = "open"]
        /\ read' = [read EXCEPT ![c] = "pending"]
        /\ connections' = connections \cup {c}
  /\ UNCHANGED <<starting, process>>

\* Mutant of HandleScheduleLost: the pool keeps the connection.
HandleScheduleLostKeeps(c) ==
  /\ Lost(c)
  /\ sock' = [sock EXCEPT ![c] = "closed"]
  /\ read' = [read EXCEPT ![c] = "none"]
  /\ UNCHANGED <<peer, remote, connections, starting, process, turnedAway>>

\* handle_read with an error: sche_conn_pool::stop.
HandleScheduleLost(c) ==
  /\ Lost(c)
  /\ connections' = connections \ {c}
  /\ sock' = [sock EXCEPT ![c] = "closed"]
  /\ read' = [read EXCEPT ![c] = "none"]
  /\ UNCHANGED <<peer, remote, starting, process, turnedAway>>

\* handle_read: the output of what a schedule said, or of its going away.
HandleReadThrows(c) ==
  /\ Ready /\ (read[c] = "data" \/ Lost(c))
  /\ Throws({c})
  /\ UNCHANGED <<peer, remote, sock, read, connections, starting, turnedAway>>

\* main_task::handle_stop; no ip is asked for.
StopAllSchedules ==
  /\ Ready /\ process' = "stopped"
  /\ sock' = [c \in Conns |-> IF c \in connections THEN "closed" ELSE sock[c]]
  /\ read' = [c \in Conns |-> IF c \in connections THEN AfterClose(read[c]) ELSE read[c]]
  /\ connections' = {}
  /\ UNCHANGED <<peer, remote, starting, turnedAway>>

-----------------------------------------------------------------------------
ScheInit == ConnInit /\ turnedAway = {}

\* schedule_connection::handle_read.
HandleScheduleRead(c) ==
  \/ (HandleData(c) \/ HandleClosed(c)) /\ UNCHANGED turnedAway
  \/ HandleScheduleLost(c) \/ HandleReadThrows(c)

ScheNext ==
  \/ \E c \in Conns, p \in Peers : HandleScheduleAccept(c, p)
  \/ AcceptThrows /\ UNCHANGED turnedAway
  \/ \E c \in Conns :
        \/ (PeerSends(c) \/ PeerLeaves(c) \/ ReadFails(c)) /\ UNCHANGED turnedAway
        \/ HandleScheduleRead(c)
  \/ StopAllSchedules

ScheSpec == ScheInit /\ [][ScheNext]_scheVars

\* As for the phones.
ScheFairness ==
  \A c \in Conns : /\ WF_scheVars(ReadFails(c) /\ UNCHANGED turnedAway)
                    /\ SF_scheVars(HandleScheduleRead(c))

ScheFairSpec == ScheSpec /\ ScheFairness

-----------------------------------------------------------------------------
\* At most one schedule is connected, and tasks come from nobody else: a
\* connection that was turned away is closed and never read.
OneSchedule ==
  /\ Cardinality(connections) <= 1
  /\ \A c \in Conns : sock[c] = "open" => c \in connections
  /\ \A c \in turnedAway : read[c] = "none" /\ sock[c] = "closed"

\* Once the connected schedule has gone, and not silently, the pool is free for
\* the next one; a silent one keeps it for good.
PoolGetsFree ==
  \A c \in Conns :
     c \in connections /\ remote[c] \in {"closed", "reset"}
        ~> connections = {} \/ remote[c] = "up" \/ process # "up"
=============================================================================
