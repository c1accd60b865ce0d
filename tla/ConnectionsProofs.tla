------------------------- MODULE ConnectionsProofs -------------------------
(***************************************************************************)
(* pho_conn_pool for any number of phones and connections: one open         *)
(* connection per phone, a status that follows it, and nothing else that a  *)
(* session could see of the IO thread.  Then sche_conn_pool for any number  *)
(* of schedules: one is served.  Both with a remote_endpoint that throws.   *)
(***************************************************************************)
EXTENDS PhonePool, SchePool, FiniteSetTheorems, TLAPS

\* Between the two halves of start the connection is open, in no pool and the
\* only one of its phone.
StartingIsNew ==
  starting # NoConn => /\ starting \in Conns \ connections
                       /\ sock[starting] = "open" /\ read[starting] = "none"
                       /\ Known(peer[starting]) = {}

\* No socket is open that the pool does not know: none can be left behind by a
\* phone that calls in again and again.
OpenIsPooled == \A c \in Conns : sock[c] = "open" => c \in connections \cup {starting}

\* A phone in the pool is listened to, so that its going away is noticed.
PooledIsRead == \A c \in connections : read[c] # "none"

\* An aborted read is the read of a socket that was closed.
AbortedIsClosed == \A c \in Conns : read[c] = "aborted" => sock[c] = "closed"

PoolInv ==
  /\ TypeOK /\ StartingIsNew /\ OneOpenPerPhone /\ StatusFollowsPool
  /\ OpenIsPooled /\ PooledIsRead /\ AbortedIsClosed

-----------------------------------------------------------------------------
\* A step that leaves the pool and the statuses alone.
Quiet ==
  /\ UNCHANGED <<connections, starting, status>>
  /\ \A c \in Conns : c \in connections \/ c = starting =>
        peer'[c] = peer[c] /\ sock'[c] = sock[c]
  /\ \A c \in Conns : sock'[c] = "open" => sock[c] = "open"
  /\ \A c \in connections : read'[c] # "none"
  /\ \A c \in Conns : read'[c] = "aborted" => sock'[c] = "closed"
  /\ starting # NoConn => read'[starting] = read[starting]

LEMMA QuietInv ==
  ASSUME PoolInv, TypeOK', Quiet
  PROVE  PoolInv'
<1> USE ConnAssumption DEF PoolInv, Quiet
<1>1. \A p \in Peers : Known(p)' = Known(p)
  BY DEF Known, TypeOK, ConnTypeOK
<1>2. StartingIsNew'
  BY <1>1 DEF StartingIsNew, TypeOK, ConnTypeOK, Known
<1>3. OneOpenPerPhone'
  BY DEF OneOpenPerPhone, TypeOK, ConnTypeOK
<1>4. StatusFollowsPool'
  BY <1>1 DEF StatusFollowsPool, TypeOK, ConnTypeOK
<1>5. OpenIsPooled' /\ PooledIsRead' /\ AbortedIsClosed'
  BY DEF OpenIsPooled, PooledIsRead, AbortedIsClosed, TypeOK, ConnTypeOK
<1> QED
  BY <1>2, <1>3, <1>4, <1>5

LEMMA ConnStepInv ==
  ASSUME PoolInv, NEW c \in Conns, UNCHANGED status,
         \/ PeerSends(c) \/ PeerLeaves(c) \/ ReadFails(c) \/ HandleData(c)
         \/ HandleClosed(c)
  PROVE  PoolInv'
<1> USE ConnAssumption DEF PoolInv
<1>1. TypeOK'
  BY DEF TypeOK, ConnTypeOK, Reads, PeerSends, PeerLeaves, ReadFails, HandleData,
     HandleClosed, ReadNext
<1>2. Quiet
  <2> USE DEF TypeOK, ConnTypeOK, Quiet, Reads, StartingIsNew, PooledIsRead, AbortedIsClosed
  <2>1. CASE PeerSends(c)
    BY <2>1 DEF PeerSends
  <2>2. CASE PeerLeaves(c)
    BY <2>2 DEF PeerLeaves
  <2>3. CASE ReadFails(c)
    BY <2>3 DEF ReadFails
  <2>4. CASE HandleData(c)
    BY <2>4 DEF HandleData, ReadNext, Ready
  <2>5. CASE HandleClosed(c)
    <3>1. c \notin connections
      BY <2>5 DEF HandleClosed, OneOpenPerPhone
    <3> QED BY <2>5, <3>1 DEF HandleClosed, Ready
  <2> QED BY <2>1, <2>2, <2>3, <2>4, <2>5
<1> QED
  BY <1>1, <1>2, QuietInv

LEMMA ThrowInv ==
  ASSUME PoolInv, process' = "aborted",
         UNCHANGED <<peer, remote, sock, read, connections, starting, status>>
  PROVE  PoolInv'
<1>1. TypeOK' /\ Quiet
  BY ConnAssumption DEF PoolInv, TypeOK, ConnTypeOK, Quiet, PooledIsRead, AbortedIsClosed
<1> QED
  BY <1>1, QuietInv

LEMMA AcceptInv ==
  ASSUME PoolInv, NEW c \in Conns, NEW p \in Peers, HandlePhoneAccept(c, p)
  PROVE  /\ PoolInv'
         /\ c \notin connections /\ peer' = [peer EXCEPT ![c] = p]
<1> USE ConnAssumption DEF PoolInv, HandlePhoneAccept, Open, Free, Ready
<1>0. /\ c \notin connections /\ c # NoConn /\ starting = NoConn /\ starting' = c
      /\ peer' = [peer EXCEPT ![c] = p] /\ connections' = connections \ Known(p)
      /\ sock[c] = "closed" /\ read[c] = "none"
  OBVIOUS
<1>1. TypeOK'
  BY DEF TypeOK, ConnTypeOK, Reads, SetStatus, AfterClose
<1>2. \A d \in Conns : d \in connections' <=> d \in connections /\ peer[d] # p
  BY DEF Known, TypeOK, ConnTypeOK
<1>3. Known(p)' = {}
  BY <1>0, <1>2 DEF Known, TypeOK, ConnTypeOK
<1>4. \A q \in Peers \ {p} : Known(q)' = Known(q)
  BY <1>0, <1>2 DEF Known, TypeOK, ConnTypeOK
<1>5. \A d \in Conns : d # c => sock'[d] = (IF d \in Known(p) THEN "closed" ELSE sock[d])
  BY DEF TypeOK, ConnTypeOK
<1>6. \A d \in Conns : read'[d] = (IF d \in Known(p) THEN AfterClose(read[d]) ELSE read[d])
  BY DEF TypeOK, ConnTypeOK
<1>7. sock'[c] = "open" /\ read'[c] = "none" /\ peer'[c] = p
  BY <1>0, <1>6 DEF TypeOK, ConnTypeOK, Known
<1>8. StartingIsNew'
  BY <1>0, <1>3, <1>7 DEF StartingIsNew
<1>9. OneOpenPerPhone'
  BY <1>0, <1>2, <1>5 DEF OneOpenPerPhone, TypeOK, ConnTypeOK, Known
<1>10. StatusFollowsPool'
  <2>1. \A q \in Peers \ {p} : status'[q] = status[q]
    BY DEF SetStatus, TypeOK
  <2> QED BY <1>0, <1>4, <1>7, <2>1 DEF StatusFollowsPool
<1>11. OpenIsPooled'
  BY <1>0, <1>2, <1>5 DEF OpenIsPooled, Known, TypeOK, ConnTypeOK
<1>12. PooledIsRead'
  BY <1>0, <1>2, <1>6 DEF PooledIsRead, Known, TypeOK, ConnTypeOK
<1>13. AbortedIsClosed'
  BY <1>0, <1>5, <1>6, <1>7 DEF AbortedIsClosed, AfterClose, Known, TypeOK, ConnTypeOK
<1> QED
  BY <1>0, <1>1, <1>8, <1>9, <1>10, <1>11, <1>12, <1>13

LEMMA StartConnectionInv ==
  ASSUME PoolInv, StartConnection
  PROVE  PoolInv'
<1> USE ConnAssumption DEF PoolInv, StartConnection
<1>1. TypeOK'
  BY DEF TypeOK, ConnTypeOK, Reads, SetStatus, ReadNext
<1>0. starting \in Conns \ connections /\ starting' = NoConn /\ peer' = peer /\ sock' = sock
  BY DEF StartingIsNew
<1>2. StartingIsNew' /\ OneOpenPerPhone'
  <2>1. \A d \in connections : d \in Conns /\ peer[d] # peer[starting]
    BY DEF StartingIsNew, Known, TypeOK, ConnTypeOK
  <2> QED BY <1>0, <2>1 DEF StartingIsNew, OneOpenPerPhone
<1>3. StatusFollowsPool'
  <2>0. PICK p \in Peers : p = peer[starting]
    BY <1>0 DEF TypeOK, ConnTypeOK
  <2>1. starting \in Known(p)' /\ status'[p] = "ONLINE_IDLE"
    BY <1>0, <2>0 DEF Known, SetStatus, TypeOK
  <2>2. \A q \in Peers \ {p} : Known(q)' = Known(q) /\ status'[q] = status[q]
    BY <1>0, <2>0 DEF Known, SetStatus, TypeOK, ConnTypeOK
  <2> QED BY <1>0, <2>0, <2>1, <2>2 DEF StatusFollowsPool
<1>4. OpenIsPooled' /\ PooledIsRead' /\ AbortedIsClosed'
  BY <1>0 DEF OpenIsPooled, PooledIsRead, AbortedIsClosed, StartingIsNew, ReadNext,
     TypeOK, ConnTypeOK
<1> QED
  BY <1>1, <1>2, <1>3, <1>4

LEMMA HandleLostInv ==
  ASSUME PoolInv, NEW c \in Conns, HandleLost(c)
  PROVE  /\ PoolInv' /\ c \in connections
         /\ Known(peer[c])' = {}
         /\ \A q \in Peers \ {peer[c]} : Known(q)' = Known(q)
<1> USE ConnAssumption DEF PoolInv, HandleLost, LostConnection, Lost, Ready
<1>1. c \in connections
  BY DEF OpenIsPooled
<1>2. TypeOK'
  BY DEF TypeOK, ConnTypeOK, Reads, SetStatus
<1>3. StartingIsNew' /\ OneOpenPerPhone'
  BY DEF StartingIsNew, OneOpenPerPhone, TypeOK, ConnTypeOK
<1>4. Known(peer[c])' = {} /\ \A q \in Peers \ {peer[c]} : Known(q)' = Known(q)
  BY <1>1 DEF Known, OneOpenPerPhone, TypeOK, ConnTypeOK
<1>5. StatusFollowsPool'
  BY <1>4 DEF StatusFollowsPool, SetStatus, TypeOK, ConnTypeOK
<1>6. OpenIsPooled' /\ PooledIsRead' /\ AbortedIsClosed'
  BY DEF OpenIsPooled, PooledIsRead, AbortedIsClosed, TypeOK, ConnTypeOK
<1> QED
  BY <1>1, <1>2, <1>3, <1>4, <1>5, <1>6

LEMMA StopAllInv ==
  ASSUME PoolInv, StopAll
  PROVE  PoolInv'
<1> USE ConnAssumption DEF PoolInv, StopAll, Ready
<1>1. TypeOK'
  BY DEF TypeOK, ConnTypeOK, Reads, AfterClose
<1>2. StartingIsNew' /\ OneOpenPerPhone' /\ PooledIsRead'
  BY DEF StartingIsNew, OneOpenPerPhone, PooledIsRead
<1>3. StatusFollowsPool'
  BY DEF StatusFollowsPool, Known, TypeOK
<1>4. OpenIsPooled' /\ AbortedIsClosed'
  BY DEF OpenIsPooled, AbortedIsClosed, AfterClose, TypeOK, ConnTypeOK
<1> QED
  BY <1>1, <1>2, <1>3, <1>4

LEMMA PoolNext == PoolInv /\ [Next]_vars => PoolInv'
<1> SUFFICES ASSUME PoolInv, [Next]_vars PROVE PoolInv'
  OBVIOUS
<1>1. CASE \/ AcceptThrows /\ UNCHANGED status
           \/ FindConnectionThrows \/ StartThrows \/ StopAllThrows
           \/ \E c \in Conns : StopThrows(c)
  BY <1>1, ThrowInv DEF AcceptThrows, FindConnectionThrows, StartThrows, StopThrows,
     StopAllThrows, Throws
<1>2. CASE UNCHANGED vars
  BY <1>2 DEF vars, connVars, PoolInv, TypeOK, ConnTypeOK, StartingIsNew, Known,
     OneOpenPerPhone, StatusFollowsPool, OpenIsPooled, PooledIsRead, AbortedIsClosed
<1> QED
  BY <1>1, <1>2, ConnStepInv, AcceptInv, StartConnectionInv, HandleLostInv, StopAllInv
  DEF Next, Network, Handler, HandleRead, Accept

\* Everything the runs check of the pool, for any number of phones and
\* connections, with StartingIsNew for the two halves of start.
THEOREM PoolInvariant == Spec => []PoolInv
<1>1. Init => PoolInv
  BY ConnAssumption DEF Init, ConnInit, PoolInv, TypeOK, ConnTypeOK, Reads,
     StartingIsNew, OneOpenPerPhone, StatusFollowsPool, OpenIsPooled, PooledIsRead,
     AbortedIsClosed, Known
<1> QED
  BY <1>1, PoolNext, PTL DEF Spec

\* The pool holds one open connection per phone and the status follows it,
\* however often phones call in again and however late handlers are called.
THEOREM PoolIsConsistent == Spec => [](OneOpenPerPhone /\ StatusFollowsPool /\ OpenIsPooled)
<1>1. PoolInv => OneOpenPerPhone /\ StatusFollowsPool /\ OpenIsPooled
  BY DEF PoolInv
<1> QED
  BY <1>1, PoolInvariant, PTL

\* The part of it about sockets: the pool has one connection of a phone, which
\* is open.
THEOREM OneConnectionOpen == Spec => []OneOpenPerPhone
BY PoolIsConsistent, PTL

-----------------------------------------------------------------------------
\* What VoteTask assumes of the phones: PhoneStart, PhoneStop and PhonesStop
\* are all a session can see of the pool.
THEOREM PoolImplementsDevices == Spec => ImplementsDevices
<1> DEFINE Step == [DevicesOf!DeviceNext]_(DevicesOf!deviceVars)
<1>1. Init => DevicesOf!DeviceInit
  BY DEF Init, ConnInit, Known, DevicesOf!DeviceInit
<1>2. PoolInv /\ PoolInv' /\ [Next]_vars => Step
  <2> SUFFICES ASSUME PoolInv, PoolInv', [Next]_vars PROVE Step
    OBVIOUS
  <2> DEFINE up == {p \in Peers : Known(p) # {}}
  <2> USE ConnAssumption DEF DevicesOf!deviceVars
  <2>1. ASSUME NEW c \in Conns, NEW p \in Peers, HandlePhoneAccept(c, p) PROVE Step
    <3>1. /\ \A q \in Peers \ {p} : Known(q)' = Known(q)
          /\ Known(p)' = {}
      BY <2>1, AcceptInv DEF HandlePhoneAccept, Known, PoolInv, TypeOK, ConnTypeOK
    <3>2. CASE Known(p) = {}
      <4>1. up' = up /\ status' = status
        BY <2>1, <3>1, <3>2 DEF HandlePhoneAccept
      <4> QED BY <4>1
    <3>3. CASE Known(p) # {}
      <4>1. p \in up /\ up' = up \ {p}
        BY <3>1, <3>3
      <4>2. status' = [status EXCEPT ![p] = "OFFLINE"]
        BY <2>1, <3>3 DEF HandlePhoneAccept, SetStatus
      <4>3. DevicesOf!PhoneStop(p)
        BY <4>1, <4>2 DEF DevicesOf!PhoneStop, DevicesOf!SetStatus
      <4> QED BY <4>3 DEF DevicesOf!DeviceNext
    <3> QED BY <3>2, <3>3
  <2>2. ASSUME StartConnection PROVE Step
    <3> DEFINE p == peer[starting]
    <3>1. p \in Peers /\ Known(p) = {}
      BY <2>2 DEF StartConnection, PoolInv, TypeOK, ConnTypeOK, StartingIsNew
    <3>2. up' = up \cup {p} /\ p \notin up
      BY <2>2, <3>1 DEF StartConnection, PoolInv, TypeOK, ConnTypeOK, Known
    <3>3. status' = [status EXCEPT ![p] = "ONLINE_IDLE"]
      BY <2>2 DEF StartConnection, SetStatus
    <3>4. DevicesOf!PhoneStart(p)
      BY <3>2, <3>3 DEF DevicesOf!PhoneStart, DevicesOf!SetStatus
    <3> QED BY <3>1, <3>4 DEF DevicesOf!DeviceNext
  <2>3. ASSUME NEW c \in Conns, HandleLost(c) PROVE Step
    <3> DEFINE p == peer[c]
    <3>1. p \in Peers /\ c \in Known(p)
      BY <2>3, HandleLostInv DEF PoolInv, TypeOK, ConnTypeOK, Known
    <3>2. p \in up /\ up' = up \ {p}
      <4>1. peer' = peer
        BY <2>3 DEF HandleLost
      <4>2. Known(p)' = {} /\ \A q \in Peers \ {p} : Known(q)' = Known(q)
        BY <2>3, HandleLostInv
      <4> QED BY <3>1, <4>1, <4>2
    <3>3. status' = [status EXCEPT ![p] = "OFFLINE"]
      BY <2>3 DEF HandleLost, SetStatus
    <3>4. DevicesOf!PhoneStop(p)
      BY <3>2, <3>3 DEF DevicesOf!PhoneStop, DevicesOf!SetStatus
    <3> QED BY <3>1, <3>4 DEF DevicesOf!DeviceNext
  <2>4. ASSUME StopAll PROVE Step
    <3>1. up' = {}
      BY <2>4 DEF StopAll, Known
    <3>2. DevicesOf!PhonesStop
      BY <2>4, <3>1 DEF StopAll, DevicesOf!PhonesStop
    <3> QED BY <3>2 DEF DevicesOf!DeviceNext
  <2>5. CASE UNCHANGED <<peer, connections, status>>
    <3>1. up' = up
      BY <2>5 DEF Known
    <3> QED BY <2>5, <3>1
  <2> QED
    BY <2>1, <2>2, <2>3, <2>4, <2>5
    DEF Next, Network, Handler, HandleRead, Accept, vars, connVars, PeerSends,
        PeerLeaves, ReadFails, HandleData, HandleClosed, StopThrows, StartThrows,
        AcceptThrows, FindConnectionThrows, StopAllThrows
<1> QED
  BY <1>1, <1>2, PoolInvariant, PTL
  DEF Spec, ImplementsDevices, DevicesOf!DeviceSpec

-----------------------------------------------------------------------------
\* The one place of sche_conn_pool: Cardinality is no help in a proof before it
\* is known to be about a finite set.
AtMostOne == connections = {} \/ \E c \in Conns : connections = {c}

\* The schedule in the pool is open and listened to; nothing else is open.
PooledIsServed ==
  /\ \A c \in connections : sock[c] = "open" /\ read[c] # "none"
  /\ \A c \in Conns : sock[c] = "open" => c \in connections

TurnedAwayIsClosed == \A c \in turnedAway : read[c] = "none" /\ sock[c] = "closed"

ScheInv ==
  /\ ConnTypeOK /\ turnedAway \in SUBSET Conns /\ starting = NoConn
  /\ AtMostOne /\ PooledIsServed /\ TurnedAwayIsClosed /\ AbortedIsClosed

LEMMA OneScheduleFromInv ==
  ASSUME ScheInv
  PROVE  OneSchedule
<1>1. Cardinality(connections) <= 1
  <2>1. CASE connections = {}
    <3>1. Cardinality({}) = 0
      BY FS_EmptySet
    <3> QED BY <2>1, <3>1
  <2>2. ASSUME NEW c \in Conns, connections = {c} PROVE Cardinality(connections) <= 1
    <3>1. Cardinality({c}) = 1
      BY FS_Singleton
    <3> QED BY <2>2, <3>1
  <2> QED BY <2>1, <2>2 DEF ScheInv, AtMostOne
<1> QED
  BY <1>1 DEF ScheInv, PooledIsServed, TurnedAwayIsClosed, OneSchedule

LEMMA ScheAcceptInv ==
  ASSUME ScheInv, NEW c \in Conns, NEW p \in Peers, HandleScheduleAccept(c, p)
  PROVE  ScheInv'
<1> USE DEF ScheInv, ConnTypeOK, Reads, HandleScheduleAccept, Open, Free
<1>1. CASE Occupied
  BY <1>1 DEF Occupied, AtMostOne, PooledIsServed, TurnedAwayIsClosed, AbortedIsClosed
<1>2. CASE ~Occupied
  <2>1. connections' = {c} /\ turnedAway' = turnedAway \ {c}
    BY <1>2 DEF Occupied
  <2> QED
    BY <1>2, <2>1 DEF Occupied, AtMostOne, PooledIsServed, TurnedAwayIsClosed, AbortedIsClosed
<1> QED
  BY <1>1, <1>2

LEMMA ScheConnStepInv ==
  ASSUME ScheInv, NEW c \in Conns, UNCHANGED turnedAway,
         \/ PeerSends(c) \/ PeerLeaves(c) \/ ReadFails(c) \/ HandleData(c)
         \/ HandleClosed(c)
  PROVE  ScheInv'
<1> USE DEF ScheInv, ConnTypeOK, Reads, AtMostOne, PooledIsServed, TurnedAwayIsClosed,
            AbortedIsClosed
<1>1. CASE PeerSends(c)
  BY <1>1 DEF PeerSends
<1>2. CASE PeerLeaves(c)
  BY <1>2, ConnAssumption DEF PeerLeaves
<1>3. CASE ReadFails(c)
  BY <1>3 DEF ReadFails
<1>4. CASE HandleData(c)
  BY <1>4 DEF HandleData, ReadNext
<1>5. CASE HandleClosed(c)
  BY <1>5 DEF HandleClosed
<1> QED
  BY <1>1, <1>2, <1>3, <1>4, <1>5

LEMMA ScheLostInv ==
  ASSUME ScheInv, NEW c \in Conns, HandleScheduleLost(c)
  PROVE  ScheInv' /\ connections' = {}
<1> USE DEF ScheInv, HandleScheduleLost, Lost
<1>1. connections = {c}
  BY DEF AtMostOne, PooledIsServed
<1> QED
  BY <1>1 DEF ConnTypeOK, Reads, AtMostOne, PooledIsServed, TurnedAwayIsClosed, AbortedIsClosed

LEMMA ScheStopInv ==
  ASSUME ScheInv, StopAllSchedules
  PROVE  ScheInv'
BY DEF ScheInv, StopAllSchedules, ConnTypeOK, Reads, AfterClose, AtMostOne, PooledIsServed,
   TurnedAwayIsClosed, AbortedIsClosed

LEMMA ScheThrowInv ==
  ASSUME ScheInv, process' = "aborted",
         UNCHANGED <<peer, remote, sock, read, connections, starting, turnedAway>>
  PROVE  ScheInv'
BY DEF ScheInv, ConnTypeOK, Reads, AtMostOne, PooledIsServed, TurnedAwayIsClosed,
   AbortedIsClosed

LEMMA SchePoolNext == ScheInv /\ [ScheNext]_scheVars => ScheInv'
<1> SUFFICES ASSUME ScheInv, [ScheNext]_scheVars PROVE ScheInv'
  OBVIOUS
<1>1. CASE (AcceptThrows /\ UNCHANGED turnedAway) \/ \E c \in Conns : HandleReadThrows(c)
  BY <1>1, ScheThrowInv DEF AcceptThrows, HandleReadThrows, Throws
<1>2. CASE UNCHANGED scheVars
  BY <1>2 DEF scheVars, connVars, ScheInv, ConnTypeOK, Reads, AtMostOne, PooledIsServed,
     TurnedAwayIsClosed, AbortedIsClosed
<1> QED
  BY <1>1, <1>2, ScheAcceptInv, ScheConnStepInv, ScheLostInv, ScheStopInv
  DEF ScheNext, HandleScheduleRead

\* At most one schedule is connected, whoever else calls in and however it
\* goes: nobody who was turned away is ever read from.
THEOREM OneScheduleIsServed == ScheSpec => []OneSchedule
<1>1. ScheInit => ScheInv
  BY ConnAssumption DEF ScheInit, ConnInit, ScheInv, ConnTypeOK, Reads, AtMostOne,
     PooledIsServed, TurnedAwayIsClosed, AbortedIsClosed
<1> QED
  BY <1>1, SchePoolNext, OneScheduleFromInv, PTL DEF ScheSpec
=============================================================================
