----------------------------- MODULE PhonePool -----------------------------
(***************************************************************************)
(* pho_conn_pool on the IO thread: at most one connection per ip, and the  *)
(* device status that says whether there is one.  It implements the atomic *)
(* PhoneStart and PhoneStop that VoteTask takes from DeviceMgr.  The        *)
(* statuses the sessions set are not in this module.                        *)
(***************************************************************************)
EXTENDS Connections

VARIABLE status     \* device_mgr's status of each ip

vars == <<connVars, status>>

TypeOK == ConnTypeOK /\ status \in [Peers -> {"ONLINE_IDLE", "OFFLINE"}]

SetStatus(p, s) == status' = [status EXCEPT ![p] = s]

\* Mutant of Known: the pool is not searched.
KnownUnsearched(p) == {}

\* find_connection: what the pool has of an ip.
Known(p) == {c \in connections : peer[c] = p}

-----------------------------------------------------------------------------
\* main_task::handle_phone_accept and the first half of pho_conn_pool::start:
\* the connection the ip had is stopped.
HandlePhoneAccept(c, p) ==
  /\ Ready /\ Open(c, p)
  /\ starting' = c
  /\ connections' = connections \ Known(p)
  /\ sock' = [d \in Conns |-> IF d = c THEN "open"
                              ELSE IF d \in Known(p) THEN "closed" ELSE sock[d]]
  /\ read' = [d \in Conns |-> IF d \in Known(p) THEN AfterClose(read[d]) ELSE read[d]]
  /\ IF Known(p) = {} THEN UNCHANGED status ELSE SetStatus(p, "OFFLINE")
  /\ UNCHANGED process

\* The ip of another connection cannot be asked for.
FindConnectionThrows ==
  /\ Ready /\ \E c \in Conns : Free(c)
  /\ Throws(connections)
  /\ UNCHANGED <<peer, remote, sock, read, connections, starting, status>>

\* The second half of start: the device is online and the first read begins.
StartConnection ==
  /\ process = "up" /\ starting # NoConn
  /\ SetStatus(peer[starting], "ONLINE_IDLE")
  /\ ReadNext(starting)
  /\ connections' = connections \cup {starting}
  /\ starting' = NoConn
  /\ UNCHANGED <<peer, remote, sock, process>>

StartThrows ==
  /\ process = "up" /\ starting # NoConn /\ Throws({starting})
  /\ UNCHANGED <<peer, remote, sock, read, connections, starting, status>>

\* Mutant of LostConnection: handle_read does not look at is_open.
LostUnguarded(c) == Ready /\ read[c] = "error"

\* A failed read of an open connection is the phone's going away.
LostConnection(c) == Lost(c)

\* handle_read with an error: pho_conn_pool::stop.
HandleLost(c) ==
  /\ LostConnection(c)
  /\ SetStatus(peer[c], "OFFLINE")
  /\ connections' = connections \ {c}
  /\ sock' = [sock EXCEPT ![c] = "closed"]
  /\ read' = [read EXCEPT ![c] = "none"]
  /\ UNCHANGED <<peer, remote, starting, process>>

StopThrows(c) ==
  /\ LostConnection(c) /\ Throws({c})
  /\ UNCHANGED <<peer, remote, sock, read, connections, starting, status>>

\* main_task::handle_stop: the pool is emptied and the IO thread ends.
StopAll ==
  /\ Ready /\ process' = "stopped"
  /\ status' = [p \in Peers |-> IF Known(p) # {} THEN "OFFLINE" ELSE status[p]]
  /\ sock' = [c \in Conns |-> IF c \in connections THEN "closed" ELSE sock[c]]
  /\ read' = [c \in Conns |-> IF c \in connections THEN AfterClose(read[c]) ELSE read[c]]
  /\ connections' = {}
  /\ UNCHANGED <<peer, remote, starting>>

\* stop_all asks every connection for its ip; what it did before that is lost
\* with the process.
StopAllThrows ==
  /\ Ready /\ Throws(connections)
  /\ UNCHANGED <<peer, remote, sock, read, connections, starting, status>>

-----------------------------------------------------------------------------
Init == ConnInit /\ status = [p \in Peers |-> "OFFLINE"]

\* A phone does something, or the network.
Network == \E c \in Conns : (PeerSends(c) \/ PeerLeaves(c)) /\ UNCHANGED status

\* phone_connection::handle_read.
HandleRead(c) ==
  \/ (HandleData(c) \/ HandleClosed(c)) /\ UNCHANGED status
  \/ HandleLost(c) \/ StopThrows(c)

Handler == StartConnection \/ StartThrows \/ \E c \in Conns : HandleRead(c)

Accept ==
  \/ \E c \in Conns, p \in Peers : HandlePhoneAccept(c, p)
  \/ AcceptThrows /\ UNCHANGED status
  \/ FindConnectionThrows

Next ==
  \/ Network \/ Handler \/ Accept \/ StopAll \/ StopAllThrows
  \/ \E c \in Conns : ReadFails(c) /\ UNCHANGED status

Spec == Init /\ [][Next]_vars

\* A read ends once its peer is gone, and the io_service calls every handler
\* that is due, however many others there are.
Fairness ==
  /\ WF_vars(StartConnection \/ StartThrows)
  /\ \A c \in Conns :
        /\ WF_vars(ReadFails(c) /\ UNCHANGED status)
        /\ SF_vars(HandleRead(c))

FairSpec == Spec /\ Fairness

-----------------------------------------------------------------------------
\* However often a phone calls in again, the pool has one connection of it,
\* and it is open: a replaced connection leaves with its handlers still due.
OneOpenPerPhone ==
  /\ \A c, d \in connections : c # d => peer[c] # peer[d]
  /\ \A c \in connections : sock[c] = "open"

\* The status of a phone says whether the pool has it: the late read handler
\* of a connection that was replaced does not take the new one offline.
StatusFollowsPool ==
  \A p \in Peers :
     \/ status[p] = "ONLINE_IDLE" <=> Known(p) # {}
     \/ starting # NoConn /\ peer[starting] = p

\* A phone that has gone away leaves the pool, if its network says so.
LeavingIsNoticed ==
  \A c \in Conns :
     c \in connections /\ remote[c] \in {"closed", "reset"}
        ~> c \notin connections \/ process # "up"

\* VoteTask's view of the phones: connections come and go one at a time, each
\* together with its status.
DevicesOf == INSTANCE DeviceMgr WITH
  Devices <- Peers, connected <- {p \in Peers : Known(p) # {}}

ImplementsDevices == DevicesOf!DeviceSpec
=============================================================================
