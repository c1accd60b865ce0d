-------------------------- MODULE RestartLuaProofs --------------------------
(***************************************************************************)
(* A session that waits for its phone's script, for any number of sessions, *)
(* connections and accounts.  As long as the IO thread has not been in it,  *)
(* a session's io_service belongs to its thread alone, and what is          *)
(* outstanding there follows from where the thread is.  Then that the        *)
(* app's late answer does not bring the IO thread in.                        *)
(***************************************************************************)
EXTENDS RestartLua, SequenceTheorems, TLAPS

Places == {"none", "start", "bind", "connect", "failed", "loop", "enter", "run",
           "runFailed", "reset", "resetFailed", "close", "finish", "out", "destroyed"}

Handlers == [call : {"handle_read", "read", "restart", "aborted"},
             account : 0..MaxAccounts, answer : 0..MaxAccounts]

Pairs == [account : 0..MaxAccounts, answer : 0..MaxAccounts]

\* The types of what a thread or a timer changes of a session.
SessionTypeOK ==
  /\ sock \in [Sessions -> BOOLEAN] /\ stopped \in [Sessions -> BOOLEAN]
  /\ sent \in [Sessions -> Seq(1..MaxAccounts)] /\ reads \in [Sessions -> Seq(1..MaxAccounts)]
  /\ timers \in [Sessions -> SUBSET {"read", "restart"}]
  /\ due \in [Sessions -> SUBSET Handlers]

\* The types of the rest.
OtherTypeOK ==
  /\ pc \in [Threads -> Places]
  /\ inside \in Sessions \cup {NoSession}
  /\ pconn \in [Sessions -> Conns \cup {NoConn}] /\ slot \in [Sessions -> Conns \cup {NoConn}]
  /\ pool \in Conns \cup {NoConn} /\ hearing \in Conns \cup {NoConn}
  /\ asked \in SUBSET Conns /\ acks \in SUBSET Conns /\ called \in SUBSET Conns
  /\ calls \in SUBSET Sessions /\ accounts \in 0..MaxAccounts
  /\ shared \in SUBSET Sessions /\ ranOut \in SUBSET Sessions
  /\ taken \in [Sessions -> Pairs]

LEMMA Types == TypeOK <=> SessionTypeOK /\ OtherTypeOK
BY DEF TypeOK, SessionTypeOK, OtherTypeOK, Places, Handlers, Pairs

LEMMA HandlerTypes ==
  /\ \A k \in {"read", "restart", "aborted"} : TimerHandler(k) \in Handlers
  /\ \A a, b \in 0..MaxAccounts : ReadHandler(a, b) \in Handlers
  /\ \A k, j : TimerHandler(k) = TimerHandler(j) => k = j
  /\ \A k : TimerHandler(k).call = k
  /\ \A a, b : /\ ReadHandler(a, b).call = "handle_read"
               /\ ReadHandler(a, b).account = a /\ ReadHandler(a, b).answer = b
BY RestartAssumption DEF TimerHandler, ReadHandler, Handlers

LEMMA PairTypes ==
  /\ NothingTaken \in Pairs
  /\ \A h \in Handlers : [account |-> h.account, answer |-> h.answer] \in Pairs
BY RestartAssumption DEF NothingTaken, Pairs, Handlers, Aborted

LEMMA HandlerSets ==
  ASSUME SessionTypeOK, NEW s \in Sessions
  PROVE  /\ AbortedReads(s) \subseteq Handlers
         /\ \A h \in AbortedReads(s) :
              h.call = "handle_read" /\ h.account \in 1..MaxAccounts /\ h.answer = Aborted
         /\ \A a : reads[s] = <<a>> => AbortedReads(s) = {ReadHandler(a, Aborted)}
         /\ reads[s] = <<>> => AbortedReads(s) = {}
         /\ \A k : Cancelled(s, k) \subseteq {TimerHandler("aborted")}
         /\ \A k : k \notin timers[s] => Cancelled(s, k) = {}
<1>1. reads[s] \in Seq(1..MaxAccounts)
  BY DEF SessionTypeOK
<1>2. \A i \in DOMAIN reads[s] :
         reads[s][i] \in 0..MaxAccounts /\ reads[s][i] \in 1..MaxAccounts
  BY <1>1, RestartAssumption
<1>3. Aborted \in 0..MaxAccounts
  BY RestartAssumption DEF Aborted
<1>4. ASSUME NEW a, reads[s] = <<a>> PROVE AbortedReads(s) = {ReadHandler(a, Aborted)}
  <2>1. DOMAIN reads[s] = {1} /\ reads[s][1] = a
    BY <1>4
  <2> QED BY <2>1 DEF AbortedReads
<1>5. reads[s] = <<>> => AbortedReads(s) = {}
  BY DEF AbortedReads
<1> QED
  BY <1>2, <1>3, <1>4, <1>5, HandlerTypes DEF AbortedReads, Cancelled

-----------------------------------------------------------------------------
\* What is outstanding in a session, in the terms of its invariant.
Settled(s) == reads[s] = <<>> /\ timers[s] = {} /\ due[s] = {}
Busy(s) == due[s] # {} \/ timers[s] # {}
Waits(s, k) == k \in timers[s] \/ TimerHandler(k) \in due[s]

\* One read at a time, its commands not answered and its timer set; one answer
\* that is due, and the account's own.
ReadSide(s) ==
  /\ sent[s] = reads[s]
  /\ reads[s] = <<>> \/ \E a \in 1..MaxAccounts : reads[s] = <<a>>
  /\ reads[s] # <<>> => Waits(s, "read")
  /\ \A h \in due[s] : h.call = "handle_read" =>
        reads[s] = <<>> /\ h.account \in 1..MaxAccounts /\ h.answer \in {h.account, Aborted}
  /\ \A g, h \in due[s] : g.call = "handle_read" /\ h.call = "handle_read" => g = h

\* The restart is waited for after the socket is closed and the read is over,
\* and once only.
TimerSide(s) ==
  /\ Waits(s, "restart") => ~sock[s] /\ ~Waits(s, "read")
  /\ s \in ranOut => ~sock[s] /\ ~Waits(s, "read") /\ ~Waits(s, "restart") /\ slot[s] = NoConn

\* Where the thread is, and what is outstanding there.
PlaceSide(s) ==
  /\ pc[s] \notin {"failed", "enter", "run", "runFailed"} => Settled(s)
  /\ pc[s] \in {"failed", "enter"} => Busy(s)
  /\ pc[s] \in {"run", "runFailed"} => stopped[s] \/ Busy(s)
  /\ stopped[s] => Settled(s) /\ pc[s] \in {"run", "runFailed", "reset", "resetFailed"}

\* Which signal the session is bound to.
BindSide(s) ==
  /\ pc[s] \in {"none", "start", "bind", "connect"} => ~sock[s] /\ s \notin ranOut
  /\ pc[s] \in {"none", "start", "bind"} => slot[s] = NoConn
  /\ pc[s] \notin {"none", "start", "out", "destroyed"} => pconn[s] # NoConn
  /\ pc[s] \notin {"none", "start", "bind", "out", "destroyed"} /\ s \notin ranOut
        => slot[s] = pconn[s]

\* What handle_read took is the account's own answer, and only in the run it
\* was called in, when nothing more is read.
TakenSide(s) ==
  /\ taken[s].answer \in {taken[s].account, Aborted}
  /\ taken[s] # NothingTaken =>
       /\ pc[s] \in {"run", "runFailed", "reset", "resetFailed"}
       /\ reads[s] = <<>> /\ \A h \in due[s] : h.call # "handle_read"

Lone(s) == ReadSide(s) /\ TimerSide(s) /\ PlaceSide(s) /\ BindSide(s) /\ TakenSide(s)

LoneInv ==
  /\ SessionTypeOK /\ OtherTypeOK
  /\ inside # NoSession => inside \in shared
  /\ calls # {} => hearing # NoConn
  /\ \A s \in shared : taken[s] = NothingTaken
  /\ \A s \in Sessions \ shared : Lone(s)

LEMMA InitLone == Init => LoneInv
<1> SUFFICES ASSUME Init PROVE LoneInv
  OBVIOUS
<1>1. <<>> \in Seq(1..MaxAccounts)
  BY EmptySeq
<1>2. SessionTypeOK
  BY <1>1 DEF Init, SessionTypeOK
<1>3. OtherTypeOK
  BY RestartAssumption, PairTypes DEF Init, OtherTypeOK, Places, Threads
<1>4. ASSUME NEW s \in Sessions PROVE Lone(s)
  BY RestartAssumption
  DEF Init, NothingTaken, Threads, Lone, ReadSide, TimerSide, PlaceSide, BindSide, TakenSide, Settled, Busy, Waits
<1> QED
  BY <1>2, <1>3, <1>4 DEF Init, LoneInv

-----------------------------------------------------------------------------
\* A step that is none of session s's.
Same(s) ==
  /\ pc'[s] = pc[s] /\ sock'[s] = sock[s] /\ sent'[s] = sent[s] /\ reads'[s] = reads[s]
  /\ timers'[s] = timers[s] /\ due'[s] = due[s] /\ stopped'[s] = stopped[s]
  /\ pconn'[s] = pconn[s] /\ slot'[s] = slot[s] /\ (s \in ranOut' <=> s \in ranOut)
  /\ taken'[s] = taken[s]

LEMMA SameLone ==
  ASSUME NEW s \in Sessions, Lone(s), Same(s)
  PROVE  Lone(s)'
BY DEF Same, Lone, ReadSide, TimerSide, PlaceSide, BindSide, TakenSide, Settled, Busy, Waits

\* The two ways in which connecting and sending change a session.
LEMMA ConnectTypes ==
  ASSUME SessionTypeOK, NEW s \in Sessions,
         \/ sock' = [sock EXCEPT ![s] = TRUE] /\ timers' = timers
         \/ timers' = [timers EXCEPT ![s] = timers[s] \cup {"restart"}] /\ sock' = sock,
         UNCHANGED <<sent, reads, due, stopped>>
  PROVE  SessionTypeOK'
BY DEF SessionTypeOK

LEMMA SendTypes ==
  ASSUME SessionTypeOK, NEW s \in Sessions,
         NEW a \in Seq(1..MaxAccounts), NEW b \in Seq(1..MaxAccounts), NEW H \in SUBSET Handlers,
         sent' = [sent EXCEPT ![s] = a], reads' = [reads EXCEPT ![s] = b],
         due' = [due EXCEPT ![s] = due[s] \cup H],
         timers' = [timers EXCEPT ![s] = timers[s] \cup {"read"}],
         UNCHANGED <<sock, stopped>>
  PROVE  SessionTypeOK'
<1>1. sent' \in [Sessions -> Seq(1..MaxAccounts)] /\ reads' \in [Sessions -> Seq(1..MaxAccounts)]
  BY DEF SessionTypeOK
<1>2. due' \in [Sessions -> SUBSET Handlers]
  <2>1. due \in [Sessions -> SUBSET Handlers]
    BY DEF SessionTypeOK
  <2> QED BY <2>1
<1>3. timers' \in [Sessions -> SUBSET {"read", "restart"}]
  <2>1. timers \in [Sessions -> SUBSET {"read", "restart"}]
    BY DEF SessionTypeOK
  <2> QED BY <2>1
<1> QED
  BY <1>1, <1>2, <1>3 DEF SessionTypeOK

\* The session a thread's step is about, and that only this one is touched.
LEMMA ThreadTypes ==
  ASSUME SessionTypeOK, OtherTypeOK, NEW t \in Threads, ThreadStep(t)
  PROVE  /\ SessionTypeOK' /\ OtherTypeOK'
         /\ \A s \in Sessions \ {Of(t)} : s # t => Same(s)
         /\ shared' = shared /\ hearing' = hearing /\ calls' = calls
         /\ inside' \in {inside, NoSession}
<1>1. PICK r \in Sessions : r = Of(t)
  BY DEF ThreadStep
<1>2. <<>> \in Seq(1..MaxAccounts)
  BY EmptySeq
<1> USE RestartAssumption
    DEF SessionTypeOK, OtherTypeOK, Places, Same, At, Goto, Return, Threads,
        sessionVars, phoneVars, signalVars
<1>3. CASE FindConnection(t) BY <1>1, <1>3 DEF FindConnection
<1>4. CASE Bind(t) BY <1>1, <1>4 DEF Bind
<1>5. CASE Connect(t)
  <2>1. /\ \/ sock' = [sock EXCEPT ![r] = TRUE] /\ timers' = timers
           \/ timers' = [timers EXCEPT ![r] = timers[r] \cup {"restart"}] /\ sock' = sock
        /\ UNCHANGED <<sent, reads, due, stopped>>
    BY <1>1, <1>5 DEF Connect
  <2>2. /\ \E l \in Places : pc' = [pc EXCEPT ![t] = l]
        /\ asked' = asked \/ (pool # NoConn /\ asked' = asked \cup {pool})
        /\ UNCHANGED <<pool, acks, called, pconn, slot, hearing, calls, inside, accounts,
                       shared, ranOut, taken>>
    BY <1>1, <1>5 DEF Connect, AskForRestart
  <2>3. SessionTypeOK'
    <3> HIDE DEF SessionTypeOK
    <3> QED BY <1>1, <2>1, ConnectTypes
  <2>4. OtherTypeOK'
    BY <2>2
  <2> QED BY <1>1, <2>1, <2>2, <2>3, <2>4
<1>6. CASE SendCommands(t)
  <2>1. accounts \in 1..MaxAccounts /\ accounts' \in 0..MaxAccounts
    BY <1>6 DEF SendCommands
  <2>2. \A q \in Seq(1..MaxAccounts) : Append(q, accounts) \in Seq(1..MaxAccounts)
    BY <2>1, AppendProperties
  <2>3. Cancelled(r, "read") \subseteq Handlers
    BY <1>1, HandlerSets, HandlerTypes
  <2>4. /\ \/ /\ sent' = [sent EXCEPT ![r] = Append(sent[r], accounts)]
              /\ reads' = [reads EXCEPT ![r] = Append(reads[r], accounts)]
              /\ due' = [due EXCEPT ![r] = due[r] \cup Cancelled(r, "read")]
              /\ timers' = [timers EXCEPT ![r] = timers[r] \cup {"read"}]
           \/ UNCHANGED <<sent, reads, due, timers>>
        /\ UNCHANGED <<sock, stopped>>
    BY <1>1, <1>6 DEF SendCommands
  <2>5. /\ \E l \in Places : pc' = [pc EXCEPT ![t] = l]
        /\ UNCHANGED <<pconn, slot, pool, asked, acks, called, hearing, calls, inside,
                       shared, ranOut, taken>>
    <3>1. pc' = pc => pc' = [pc EXCEPT ![t] = pc[t]]
      OBVIOUS
    <3>2. pc' = pc \/ pc' = [pc EXCEPT ![t] = "enter"]
      BY <1>6 DEF SendCommands
    <3> QED BY <1>6, <3>1, <3>2 DEF SendCommands
  <2>6. SessionTypeOK'
    <3>1. /\ Append(sent[r], accounts) \in Seq(1..MaxAccounts)
          /\ Append(reads[r], accounts) \in Seq(1..MaxAccounts)
      BY <1>1, <2>2
    <3>2. CASE UNCHANGED <<sent, reads, due, timers>>
      BY <2>4, <3>2
    <3>3. CASE ~UNCHANGED <<sent, reads, due, timers>>
      <4> HIDE RestartAssumption DEF SessionTypeOK, OtherTypeOK, Same, At, Goto, Return, Threads
      <4>1. PICK a \in Seq(1..MaxAccounts), b \in Seq(1..MaxAccounts), H \in SUBSET Handlers :
               /\ sent' = [sent EXCEPT ![r] = a] /\ reads' = [reads EXCEPT ![r] = b]
               /\ due' = [due EXCEPT ![r] = due[r] \cup H]
               /\ timers' = [timers EXCEPT ![r] = timers[r] \cup {"read"}]
               /\ UNCHANGED <<sock, stopped>>
        BY <2>3, <2>4, <3>1, <3>3
      <4> QED BY <1>1, <4>1, SendTypes
    <3> QED BY <3>2, <3>3
  <2>7. OtherTypeOK'
    BY <2>1, <2>5
  <2>8. \A s \in Sessions \ {r} : s # t => Same(s)
    <3>1. \A s \in Sessions \ {r} :
             sent'[s] = sent[s] /\ reads'[s] = reads[s] /\ due'[s] = due[s] /\ timers'[s] = timers[s]
      BY <1>1, <2>4
    <3>2. \A s \in Sessions \ {r} : s # t => pc'[s] = pc[s]
      BY <2>5
    <3> QED BY <2>4, <2>5, <3>1, <3>2
  <2> QED BY <1>1, <2>5, <2>6, <2>7, <2>8
<1>7. CASE LeaveLoop(t) BY <1>7 DEF LeaveLoop
<1>8. CASE Close(t)
  BY <1>2, <1>1, <1>8, HandlerSets DEF Close, CloseSocket
<1>9. CASE Finish(t) BY <1>9 DEF Finish
<1>10. CASE EnterRun(t) BY <1>1, <1>10 DEF EnterRun
<1>11. CASE RunReturns(t) BY <1>11 DEF RunReturns
<1>12. CASE Reset(t)
  <2>1. taken' \in [Sessions -> Pairs]
    BY <1>1, <1>12, PairTypes DEF Reset
  <2> QED BY <1>1, <1>12, <2>1 DEF Reset
<1>13. CASE HandleRead(t)
  <2>1. taken' \in [Sessions -> Pairs]
    BY <1>1, <1>13, PairTypes DEF HandleRead
  <2> QED BY <1>1, <1>13, <2>1, HandlerSets, HandlerTypes DEF HandleRead, Calls
<1>14. CASE OnReadTimeout(t)
  BY <1>2, <1>1, <1>14, HandlerSets, HandlerTypes DEF OnReadTimeout, Calls, CloseSocket, AskForRestart
<1>15. CASE OnRestartTimeout(t) BY <1>1, <1>15 DEF OnRestartTimeout, Calls
<1>16. CASE OnTimerNothing(t) BY <1>1, <1>16 DEF OnTimerNothing, Calls
<1> QED
  BY <1>3, <1>4, <1>5, <1>6, <1>7, <1>8, <1>9, <1>10, <1>11, <1>12, <1>13, <1>14,
     <1>15, <1>16 DEF ThreadStep

-----------------------------------------------------------------------------
\* Of what handle_read took a step changes nothing but its own session's, and
\* nothing that is not told.
LEMMA ThreadTakes ==
  ASSUME LoneInv, NEW t \in Threads, ThreadStep(t)
  PROVE  Of(t) \in shared => taken' = taken
<1>1. CASE Reset(t)
  BY <1>1 DEF Reset, ThreadStep, LoneInv, OtherTypeOK
<1>2. CASE HandleRead(t)
  BY <1>2 DEF HandleRead
<1> QED
  BY <1>1, <1>2 DEF ThreadStep, FindConnection, Bind, Connect, SendCommands, LeaveLoop, Close,
     Finish, EnterRun, RunReturns, OnReadTimeout, OnRestartTimeout, OnTimerNothing

\* A session's own thread takes it from place to place, each with what is
\* outstanding there.
LEMMA LoneMoves ==
  ASSUME LoneInv, NEW s \in Sessions, s \notin shared,
         \/ FindConnection(s) \/ Bind(s) \/ Connect(s) \/ LeaveLoop(s) \/ Close(s)
         \/ Finish(s) \/ EnterRun(s) \/ RunReturns(s) \/ Reset(s)
  PROVE  Lone(s)'
<1>1. Of(s) = s /\ s \in Threads /\ Lone(s)
  BY RestartAssumption DEF Of, Threads, LoneInv
<1>2. /\ pc \in [Threads -> Places] /\ DOMAIN pconn = Sessions /\ DOMAIN slot = Sessions
      /\ DOMAIN sock = Sessions /\ DOMAIN sent = Sessions /\ DOMAIN reads = Sessions
      /\ DOMAIN timers = Sessions /\ DOMAIN due = Sessions /\ DOMAIN stopped = Sessions
      /\ DOMAIN taken = Sessions
  BY DEF LoneInv, SessionTypeOK, OtherTypeOK
<1> DEFINE Rest == sock'[s] = sock[s] /\ sent'[s] = sent[s] /\ reads'[s] = reads[s] /\ due'[s] = due[s]
<1> USE <1>1 DEF At, Goto, Return, sessionVars
<1>3. CASE FindConnection(s)
  <2>1. /\ Rest /\ timers'[s] = timers[s] /\ stopped'[s] = stopped[s] /\ slot'[s] = slot[s]
        /\ ranOut' = ranOut /\ taken' = taken
        /\ pc[s] = "start" /\ pconn'[s] = pool
        /\ \/ pool # NoConn /\ pc'[s] = "bind"
           \/ pool = NoConn /\ pc'[s] = "out"
    BY <1>2, <1>3 DEF FindConnection
  <2> QED
    BY <2>1 DEF Lone, ReadSide, TimerSide, PlaceSide, BindSide, TakenSide, Settled, Busy, Waits
<1>4. CASE Bind(s)
  <2>1. /\ Rest /\ timers'[s] = timers[s] /\ stopped'[s] = stopped[s] /\ pconn'[s] = pconn[s]
        /\ ranOut' = ranOut /\ taken' = taken
        /\ pc[s] = "bind" /\ pc'[s] = "connect"
        /\ slot[s] = NoConn => slot'[s] = pconn[s]
    BY <1>2, <1>4 DEF Bind
  <2> QED
    BY <2>1 DEF Lone, ReadSide, TimerSide, PlaceSide, BindSide, TakenSide, Settled, Busy, Waits
<1>5. CASE Connect(s)
  <2>1. /\ sent'[s] = sent[s] /\ reads'[s] = reads[s] /\ due'[s] = due[s]
        /\ stopped'[s] = stopped[s] /\ pconn'[s] = pconn[s] /\ slot'[s] = slot[s]
        /\ ranOut' = ranOut /\ taken' = taken
        /\ pc[s] = "connect"
        /\ \/ sock'[s] /\ timers'[s] = timers[s] /\ pc'[s] = "loop"
           \/ /\ sock'[s] = sock[s] /\ timers'[s] = timers[s] \cup {"restart"}
              /\ pc'[s] = "failed"
    BY <1>2, <1>5 DEF Connect
  <2>2. Settled(s) /\ ~sock[s] /\ s \notin ranOut /\ ~stopped[s]
    BY <2>1 DEF Lone, PlaceSide, BindSide
  <2> QED
    BY <2>1, <2>2, HandlerTypes
    DEF Lone, ReadSide, TimerSide, PlaceSide, BindSide, TakenSide, Settled, Busy, Waits
<1>6. CASE LeaveLoop(s) \/ Finish(s)
  <2>1. /\ Rest /\ timers'[s] = timers[s] /\ stopped'[s] = stopped[s]
        /\ pconn'[s] = pconn[s] /\ slot'[s] = slot[s]
        /\ ranOut' = ranOut /\ taken' = taken
        /\ \/ pc[s] = "loop" /\ pc'[s] = "close"
           \/ pc[s] = "finish" /\ pc'[s] = "out"
    BY <1>2, <1>6 DEF LeaveLoop, Finish
  <2> QED
    BY <2>1 DEF Lone, ReadSide, TimerSide, PlaceSide, BindSide, TakenSide, Settled, Busy, Waits
<1>7. CASE Close(s)
  <2>1. /\ ~sock'[s] /\ sent'[s] = <<>> /\ reads'[s] = <<>>
        /\ due'[s] = due[s] \cup AbortedReads(s)
        /\ timers'[s] = timers[s] /\ stopped'[s] = stopped[s]
        /\ pconn'[s] = pconn[s] /\ slot'[s] = slot[s]
        /\ ranOut' = ranOut /\ taken' = taken
        /\ pc[s] = "close" /\ pc'[s] = "finish"
    BY <1>2, <1>7 DEF Close, CloseSocket
  <2>2. Settled(s)
    BY <2>1 DEF Lone, PlaceSide
  <2>3. AbortedReads(s) = {}
    BY <2>2 DEF Settled, AbortedReads
  <2> QED
    BY <2>1, <2>2, <2>3 DEF Lone, ReadSide, TimerSide, PlaceSide, BindSide, TakenSide, Settled, Busy, Waits
<1>8. CASE EnterRun(s)
  <2>1. /\ Rest /\ timers'[s] = timers[s]
        /\ pconn'[s] = pconn[s] /\ slot'[s] = slot[s]
        /\ ranOut' = ranOut /\ taken' = taken
        /\ \/ pc[s] = "enter" /\ pc'[s] = "run"
           \/ pc[s] = "failed" /\ pc'[s] = "runFailed"
        /\ stopped'[s] = (stopped[s] \/ ~WorkLeft(reads[s], timers[s], due[s]))
    BY <1>2, <1>8 DEF EnterRun
  <2>2. ~stopped'[s]
    BY <2>1 DEF Lone, PlaceSide, Busy, WorkLeft
  <2> QED
    BY <2>1, <2>2 DEF Lone, ReadSide, TimerSide, PlaceSide, BindSide, TakenSide, Settled, Busy, Waits
<1>9. CASE RunReturns(s)
  <2>1. /\ Rest /\ timers'[s] = timers[s] /\ stopped'[s] = stopped[s] /\ stopped[s]
        /\ pconn'[s] = pconn[s] /\ slot'[s] = slot[s]
        /\ ranOut' = ranOut /\ taken' = taken
        /\ pc[s] \in {"run", "runFailed"} /\ pc'[s] \in {"reset", "resetFailed"}
    BY <1>2, <1>9 DEF RunReturns, Running
  <2> QED
    BY <2>1 DEF Lone, ReadSide, TimerSide, PlaceSide, BindSide, TakenSide, Settled, Busy, Waits
<1>10. CASE Reset(s)
  <2>1. /\ Rest /\ timers'[s] = timers[s] /\ ~stopped'[s]
        /\ pconn'[s] = pconn[s] /\ slot'[s] = slot[s]
        /\ ranOut' = ranOut /\ taken'[s] = NothingTaken
        /\ pc[s] \in {"reset", "resetFailed"} /\ pc'[s] \in {"loop", "finish"}
    BY <1>2, <1>10 DEF Reset
  <2> QED
    BY <2>1 DEF NothingTaken, Lone, ReadSide, TimerSide, PlaceSide, BindSide, TakenSide, Settled, Busy, Waits
<1> QED
  BY <1>3, <1>4, <1>5, <1>6, <1>7, <1>8, <1>9, <1>10

\* The commands go out with nothing else outstanding, or not at all.
LEMMA LoneSends ==
  ASSUME LoneInv, NEW s \in Sessions, s \notin shared, SendCommands(s)
  PROVE  Lone(s)'
<1>1. Of(s) = s /\ Lone(s)
  BY RestartAssumption DEF Of, LoneInv
<1>2. /\ pc \in [Threads -> Places] /\ s \in Threads
      /\ DOMAIN sent = Sessions /\ DOMAIN reads = Sessions
      /\ DOMAIN timers = Sessions /\ DOMAIN due = Sessions
  BY DEF LoneInv, SessionTypeOK, OtherTypeOK, Threads
<1>3. pc[s] = "loop" /\ UNCHANGED <<sock, stopped, pconn, slot, ranOut, taken>>
  BY DEF SendCommands, At
<1>4. Settled(s) /\ sent[s] = <<>> /\ ~stopped[s] /\ pconn[s] # NoConn
      /\ (s \notin ranOut => slot[s] = pconn[s])
  BY <1>1, <1>3 DEF Lone, PlaceSide, ReadSide, BindSide, Settled
<1>5. CASE ~sock[s]
  <2>1. UNCHANGED <<pc, sent, reads, due, timers>>
    BY <1>1, <1>5 DEF SendCommands
  <2> QED
    BY <1>1, <1>3, <2>1
    DEF Lone, ReadSide, TimerSide, PlaceSide, BindSide, TakenSide, Settled, Busy, Waits
<1>6. CASE sock[s]
  <2>1. accounts \in 1..MaxAccounts
    BY RestartAssumption DEF SendCommands, LoneInv, OtherTypeOK
  <2>2. /\ pc'[s] = "enter" /\ sent'[s] = Append(sent[s], accounts)
        /\ reads'[s] = Append(reads[s], accounts)
        /\ timers'[s] = timers[s] \cup {"read"}
        /\ due'[s] = due[s] \cup Cancelled(s, "read")
    BY <1>1, <1>2, <1>6 DEF SendCommands, Goto
  <2>3. sent'[s] = <<accounts>> /\ reads'[s] = <<accounts>> /\ timers'[s] = {"read"} /\ due'[s] = {}
    BY <1>4, <2>2 DEF Settled, Cancelled
  <2>4. ReadSide(s)' /\ TimerSide(s)'
    BY <1>1, <1>3, <1>6, <2>1, <2>3 DEF ReadSide, TimerSide, Waits, Lone
  <2>5. PlaceSide(s)' /\ BindSide(s)'
    BY <1>3, <1>4, <2>2, <2>3 DEF PlaceSide, BindSide, Settled, Busy
  <2>6. TakenSide(s)'
    BY <1>1, <1>3 DEF Lone, TakenSide
  <2> QED BY <1>3, <2>4, <2>5, <2>6 DEF Lone
<1> QED
  BY <1>3, <1>5, <1>6

\* A handler leaves the session in run, stopped if it leaves nothing.
LEMMA LoneCalls ==
  ASSUME LoneInv, NEW s \in Sessions, s \notin shared, NEW h, NEW more, Calls(s, h, more)
  PROVE  /\ Lone(s) /\ s \in Threads /\ Of(s) = s
         /\ pc'[s] = pc[s] /\ pc[s] \in {"run", "runFailed"} /\ pconn'[s] = pconn[s]
         /\ h \in due[s] /\ due'[s] = (due[s] \ {h}) \cup more
         /\ ~stopped[s] /\ (stopped'[s] <=> ~WorkLeft(reads'[s], timers'[s], due'[s]))
<1>1. Of(s) = s /\ s \in Threads /\ Lone(s)
  BY RestartAssumption DEF Of, Threads, LoneInv
<1>2. DOMAIN due = Sessions /\ DOMAIN stopped = Sessions
  BY DEF LoneInv, SessionTypeOK
<1> QED
  BY <1>1, <1>2 DEF Calls, Running

\* It keeps the session's invariant if it keeps these.
LEMMA CallKeepsLone ==
  ASSUME LoneInv, NEW s \in Sessions, s \notin shared, NEW h, NEW more, Calls(s, h, more),
         ReadSide(s)', TimerSide(s)', TakenSide(s)',
         s \notin ranOut' => s \notin ranOut /\ slot'[s] = slot[s]
  PROVE  Lone(s)'
<1>1. /\ Lone(s) /\ pc'[s] = pc[s] /\ pc[s] \in {"run", "runFailed"} /\ pconn'[s] = pconn[s]
      /\ stopped'[s] <=> ~WorkLeft(reads'[s], timers'[s], due'[s])
  BY LoneCalls
<1>2. reads'[s] # <<>> => Busy(s)'
  BY DEF ReadSide, Waits, Busy
<1>3. PlaceSide(s)'
  BY <1>1, <1>2 DEF PlaceSide, WorkLeft, Settled, Busy
<1>4. BindSide(s)'
  BY <1>1 DEF Lone, BindSide
<1> QED
  BY <1>3, <1>4 DEF Lone

LEMMA LoneHandlers ==
  ASSUME LoneInv, NEW s \in Sessions, s \notin shared,
         HandleRead(s) \/ OnReadTimeout(s) \/ OnRestartTimeout(s) \/ OnTimerNothing(s)
  PROVE  Lone(s)'
<1>1. /\ DOMAIN timers = Sessions /\ DOMAIN sock = Sessions /\ DOMAIN sent = Sessions
      /\ DOMAIN reads = Sessions /\ DOMAIN slot = Sessions /\ DOMAIN taken = Sessions
  BY DEF LoneInv, SessionTypeOK, OtherTypeOK
<1>2. SessionTypeOK
  BY DEF LoneInv
<1>3. Of(s) = s
  BY RestartAssumption DEF Of
<1>4. CASE HandleRead(s)
  <2>1. PICK h \in due[s] :
           /\ h.call = "handle_read"
           /\ timers' = [timers EXCEPT ![s] = timers[s] \ {"read"}]
           /\ taken' = IF s \in shared THEN taken
                        ELSE [taken EXCEPT ![s] = [account |-> h.account, answer |-> h.answer]]
           /\ UNCHANGED <<sock, sent, reads, asked, slot, ranOut, ub>>
           /\ Calls(s, h, Cancelled(s, "read"))
    BY <1>3, <1>4 DEF HandleRead
  <2>2. Lone(s) /\ due'[s] = (due[s] \ {h}) \cup Cancelled(s, "read")
    BY <2>1, LoneCalls
  <2>3. reads[s] = <<>> /\ h.account \in 1..MaxAccounts /\ h.answer \in {h.account, Aborted}
    BY <2>1, <2>2 DEF Lone, ReadSide
  <2>4. timers'[s] = timers[s] \ {"read"}
    BY <1>1, <2>1
  <2>5. /\ TimerHandler("restart") \in due'[s] => TimerHandler("restart") \in due[s]
        /\ TimerHandler("read") \in due'[s] => TimerHandler("read") \in due[s]
        /\ \A g \in due'[s] : g.call = "handle_read" => g \in due[s]
    BY <1>2, <2>2, HandlerSets, HandlerTypes
  <2>6. ReadSide(s)' /\ TimerSide(s)'
    BY <2>1, <2>2, <2>3, <2>4, <2>5 DEF Lone, ReadSide, TimerSide, Waits
  <2>7. TakenSide(s)'
    <3>1. taken'[s] = [account |-> h.account, answer |-> h.answer]
      BY <1>1, <2>1
    <3>2. \A g \in due'[s] : g.call # "handle_read"
      BY <2>1, <2>2, <2>5, HandlerSets, HandlerTypes, <1>2 DEF Lone, ReadSide
    <3>3. pc'[s] \in {"run", "runFailed"}
      BY <2>1, LoneCalls
    <3> QED BY <2>1, <2>3, <3>1, <3>2, <3>3 DEF TakenSide
  <2> QED BY <2>1, <2>6, <2>7, CallKeepsLone
<1>5. CASE OnReadTimeout(s)
  <2> DEFINE more == AbortedReads(s) \cup Cancelled(s, "restart")
  <2>1. /\ TimerHandler("read") \in due[s] /\ "read" \notin timers[s]
        /\ sock' = [sock EXCEPT ![s] = FALSE] /\ sent' = [sent EXCEPT ![s] = <<>>]
        /\ reads' = [reads EXCEPT ![s] = <<>>]
        /\ timers' = [timers EXCEPT ![s] = timers[s] \cup {"restart"}]
        /\ UNCHANGED <<slot, ranOut, taken>>
        /\ Calls(s, TimerHandler("read"), more)
    BY <1>3, <1>5 DEF OnReadTimeout, CloseSocket
  <2>2. Lone(s) /\ due'[s] = (due[s] \ {TimerHandler("read")}) \cup more
    BY <2>1, LoneCalls
  <2>3. s \notin ranOut
    BY <2>1, <2>2 DEF Lone, TimerSide, Waits
  <2>4. /\ ~sock'[s] /\ sent'[s] = <<>> /\ reads'[s] = <<>>
        /\ timers'[s] = timers[s] \cup {"restart"}
    BY <1>1, <2>1
  <2>5. /\ TimerHandler("read") \notin due'[s]
        /\ \A g \in due'[s] : g.call = "handle_read" =>
              g \in due[s] \/ (g.account \in 1..MaxAccounts /\ g.answer = Aborted)
    BY <1>2, <2>2, HandlerSets, HandlerTypes
  <2>6. ASSUME NEW g \in due'[s], NEW h \in due'[s], g.call = "handle_read", h.call = "handle_read"
        PROVE  g = h
    <3>1. {g, h} \subseteq due[s] \cup AbortedReads(s)
      BY <1>2, <2>2, <2>6, HandlerSets, HandlerTypes
    <3>2. CASE reads[s] = <<>>
      BY <1>2, <2>2, <2>6, <3>1, <3>2, HandlerSets DEF Lone, ReadSide
    <3>3. CASE reads[s] # <<>>
      <4>1. PICK a : reads[s] = <<a>>
        BY <2>2, <3>3 DEF Lone, ReadSide
      <4>2. AbortedReads(s) = {ReadHandler(a, Aborted)}
        BY <1>2, <4>1, HandlerSets
      <4>3. g \notin due[s] /\ h \notin due[s]
        BY <2>2, <2>6, <3>3 DEF Lone, ReadSide
      <4> QED BY <3>1, <4>2, <4>3
    <3> QED BY <3>2, <3>3
  <2>7. ReadSide(s)' /\ TimerSide(s)'
    BY <2>1, <2>2, <2>3, <2>4, <2>5, <2>6 DEF Lone, ReadSide, TimerSide, Waits
  <2>8. TakenSide(s)'
    <3>1. reads[s] = <<>> => \A g \in due'[s] : g.call = "handle_read" => g \in due[s]
      BY <1>2, <2>2, HandlerSets, HandlerTypes
    <3>2. taken' = taken /\ pc'[s] = pc[s]
      BY <2>1, LoneCalls
    <3> QED BY <2>2, <2>4, <3>1, <3>2 DEF Lone, TakenSide
  <2> QED BY <2>1, <2>7, <2>8, CallKeepsLone
<1>6. CASE OnRestartTimeout(s)
  <2>1. /\ TimerHandler("restart") \in due[s] /\ "restart" \notin timers[s]
        /\ slot' = [slot EXCEPT ![s] = NoConn] /\ ranOut' = ranOut \cup {s}
        /\ UNCHANGED <<sock, sent, reads, timers, taken>>
        /\ Calls(s, TimerHandler("restart"), {})
    BY <1>3, <1>6 DEF OnRestartTimeout
  <2>2. Lone(s) /\ due'[s] = (due[s] \ {TimerHandler("restart")}) \cup {}
    BY <2>1, LoneCalls
  <2>3. slot'[s] = NoConn
    BY <1>1, <2>1
  <2>4. ReadSide(s)' /\ TimerSide(s)'
    BY <2>1, <2>2, <2>3, HandlerTypes DEF Lone, ReadSide, TimerSide, Waits
  <2>5. TakenSide(s)'
    <3>1. pc'[s] = pc[s] /\ due'[s] \subseteq due[s]
      BY <2>1, <2>2, LoneCalls
    <3> QED BY <2>1, <2>2, <3>1 DEF Lone, TakenSide
  <2> QED BY <2>1, <2>4, <2>5, CallKeepsLone
<1>7. CASE OnTimerNothing(s)
  <2>1. PICK h \in due[s] :
           /\ h.call = "aborted" \/ h.call \in timers[s]
           /\ UNCHANGED <<sock, sent, reads, timers, slot, ranOut, taken>>
           /\ Calls(s, h, {})
    BY <1>3, <1>7 DEF OnTimerNothing
  <2>2. Lone(s) /\ due'[s] = (due[s] \ {h}) \cup {}
    BY <2>1, LoneCalls
  <2>3. \A k \in {"read", "restart"} : Waits(s, k)' <=> Waits(s, k)
    BY <2>1, <2>2, HandlerTypes DEF Waits
  <2>4. ReadSide(s)' /\ TimerSide(s)'
    BY <2>1, <2>2, <2>3 DEF Lone, ReadSide, TimerSide
  <2>5. TakenSide(s)'
    <3>1. pc'[s] = pc[s] /\ due'[s] \subseteq due[s]
      BY <2>1, <2>2, LoneCalls
    <3> QED BY <2>1, <2>2, <3>1 DEF Lone, TakenSide
  <2> QED BY <2>1, <2>4, <2>5, CallKeepsLone
<1> QED
  BY <1>4, <1>5, <1>6, <1>7

LEMMA ThreadLone ==
  ASSUME LoneInv, NEW t \in Threads, ThreadStep(t)
  PROVE  LoneInv'
<1>1. /\ SessionTypeOK' /\ OtherTypeOK'
      /\ \A s \in Sessions \ {Of(t)} : s # t => Same(s)
      /\ shared' = shared /\ hearing' = hearing /\ calls' = calls
      /\ inside' \in {inside, NoSession}
  BY ThreadTypes DEF LoneInv
<1>2. CASE t = IO
  <2>1. Of(t) \in shared
    BY <1>2, RestartAssumption DEF ThreadStep, Of, LoneInv
  <2>2. \A s \in Sessions \ shared : Same(s)
    BY <1>1, <1>2, <2>1, RestartAssumption
  <2>3. taken' = taken
    BY <2>1, ThreadTakes
  <2> QED BY <1>1, <2>1, <2>2, <2>3, SameLone DEF LoneInv
<1>3. CASE t # IO
  <2>1. t \in Sessions /\ Of(t) = t
    BY <1>3 DEF Threads, Of
  <2>2. \A s \in Sessions \ {t} : Same(s)
    BY <1>1, <2>1
  <2>3. t \notin shared => Lone(t)'
    BY <2>1, LoneMoves, LoneSends, LoneHandlers DEF ThreadStep
  <2>4. \A s \in shared : taken'[s] = taken[s]
    BY <2>1, <2>2, ThreadTakes DEF LoneInv, OtherTypeOK, Same
  <2> QED BY <1>1, <2>1, <2>2, <2>3, <2>4, SameLone DEF LoneInv
<1> QED
  BY <1>2, <1>3

-----------------------------------------------------------------------------
\* A timer that expires has its handler due: the session waits as before.
LEMMA ExpiryLone ==
  ASSUME LoneInv, NEW s \in Sessions, TimerExpires(s)
  PROVE  LoneInv'
<1>1. PICK k \in timers[s] :
         /\ timers' = [timers EXCEPT ![s] = timers[s] \ {k}]
         /\ due' = [due EXCEPT ![s] = due[s] \cup {TimerHandler(k)}]
  BY DEF TimerExpires
<1>2. /\ UNCHANGED <<pc, sock, sent, reads, stopped, pconn, slot, phoneVars, signalVars,
                     accounts, shared, ranOut, taken>>
  BY DEF TimerExpires
<1>3. timers \in [Sessions -> SUBSET {"read", "restart"}] /\ due \in [Sessions -> SUBSET Handlers]
  BY DEF LoneInv, SessionTypeOK
<1>4. k \in {"read", "restart"} /\ TimerHandler(k) \in Handlers
  BY <1>3, HandlerTypes
<1>5. /\ timers' \in [Sessions -> SUBSET {"read", "restart"}]
      /\ due' \in [Sessions -> SUBSET Handlers]
      /\ timers'[s] = timers[s] \ {k} /\ due'[s] = due[s] \cup {TimerHandler(k)}
      /\ \A r \in Sessions \ {s} : timers'[r] = timers[r] /\ due'[r] = due[r]
  BY <1>1, <1>3, <1>4
<1>6. SessionTypeOK' /\ OtherTypeOK'
  BY <1>2, <1>5 DEF LoneInv, SessionTypeOK, OtherTypeOK, phoneVars, signalVars
<1>7. \A r \in Sessions \ {s} : Same(r)
  BY <1>2, <1>5 DEF Same
<1>8. ASSUME Lone(s) PROVE Lone(s)'
  <2>1. \A j : Waits(s, j)' <=> Waits(s, j)
    BY <1>5, HandlerTypes DEF Waits
  <2>2. \A h \in due'[s] : h.call = "handle_read" => h \in due[s]
    BY <1>4, <1>5, HandlerTypes
  <2>3. ReadSide(s)' /\ TimerSide(s)'
    BY <1>2, <1>8, <2>1, <2>2 DEF Lone, ReadSide, TimerSide
  <2>4. ~Settled(s) /\ Busy(s)'
    BY <1>5 DEF Settled, Busy
  <2>5. PlaceSide(s)' /\ BindSide(s)'
    BY <1>2, <1>8, <2>4 DEF Lone, PlaceSide, BindSide
  <2>6. TakenSide(s)'
    BY <1>2, <1>8, <2>2 DEF Lone, TakenSide
  <2> QED BY <2>3, <2>5, <2>6 DEF Lone
<1> QED
  BY <1>2, <1>6, <1>7, <1>8, SameLone DEF LoneInv, signalVars

\* The script's answer goes to the one read there is.
LEMMA AnswerLone ==
  ASSUME LoneInv, NEW s \in Sessions, ScriptAnswers(s)
  PROVE  LoneInv'
<1> DEFINE h == ReadHandler(Head(reads[s]), Head(sent[s]))
<1>1. /\ due' = [due EXCEPT ![s] = due[s] \cup {h}]
      /\ sent' = [sent EXCEPT ![s] = Tail(sent[s])] /\ reads' = [reads EXCEPT ![s] = Tail(reads[s])]
      /\ sock[s] /\ sent[s] # <<>> /\ reads[s] # <<>>
  BY DEF ScriptAnswers
<1>2. /\ UNCHANGED <<pc, sock, timers, stopped, pconn, slot, phoneVars, signalVars,
                     accounts, shared, ranOut, taken>>
  BY DEF ScriptAnswers
<1>3. /\ due \in [Sessions -> SUBSET Handlers] /\ sent \in [Sessions -> Seq(1..MaxAccounts)]
      /\ reads \in [Sessions -> Seq(1..MaxAccounts)]
  BY DEF LoneInv, SessionTypeOK
<1>4. /\ Head(reads[s]) \in 1..MaxAccounts /\ Head(sent[s]) \in 1..MaxAccounts
      /\ Tail(reads[s]) \in Seq(1..MaxAccounts) /\ Tail(sent[s]) \in Seq(1..MaxAccounts)
  BY <1>1, <1>3, HeadTailProperties
<1>5. h \in Handlers
  BY <1>4, RestartAssumption, HandlerTypes
<1>6. due' \in [Sessions -> SUBSET Handlers]
  BY <1>1, <1>3, <1>5
<1>7. sent' \in [Sessions -> Seq(1..MaxAccounts)] /\ reads' \in [Sessions -> Seq(1..MaxAccounts)]
  BY <1>1, <1>3, <1>4
<1>8. SessionTypeOK' /\ OtherTypeOK'
  BY <1>2, <1>6, <1>7 DEF LoneInv, SessionTypeOK, OtherTypeOK, phoneVars, signalVars
<1>9. \A r \in Sessions \ {s} : Same(r)
  BY <1>1, <1>2, <1>3 DEF Same
<1>10. ASSUME Lone(s) PROVE Lone(s)'
  <2>1. PICK a \in 1..MaxAccounts : reads[s] = <<a>> /\ sent[s] = <<a>>
    BY <1>1, <1>10 DEF Lone, ReadSide
  <2>2. /\ h = ReadHandler(a, a) /\ Tail(reads[s]) = <<>> /\ Tail(sent[s]) = <<>>
    BY <2>1
  <2>3. due'[s] = due[s] \cup {ReadHandler(a, a)} /\ sent'[s] = <<>> /\ reads'[s] = <<>>
    BY <1>1, <1>3, <2>2
  <2>4. \A j : Waits(s, j)' <=> Waits(s, j) \/ TimerHandler(j) = ReadHandler(a, a)
    BY <1>2, <2>3 DEF Waits
  <2>5. \A j \in {"read", "restart"} : Waits(s, j)' <=> Waits(s, j)
    BY <2>4, HandlerTypes
  <2>6. ReadSide(s)' /\ TimerSide(s)'
    <3>1. \A g \in due[s] : g.call # "handle_read"
      BY <1>1, <1>10 DEF Lone, ReadSide
    <3> QED BY <1>2, <1>10, <2>3, <2>5, <3>1, HandlerTypes DEF Lone, ReadSide, TimerSide
  <2>7. ~Settled(s) /\ Busy(s)'
    BY <1>1, <2>3 DEF Settled, Busy
  <2>8. PlaceSide(s)' /\ BindSide(s)'
    BY <1>2, <1>10, <2>7 DEF Lone, PlaceSide, BindSide
  <2>9. TakenSide(s)'
    BY <1>1, <1>2, <1>10 DEF Lone, TakenSide
  <2> QED BY <2>6, <2>8, <2>9 DEF Lone
<1> QED
  BY <1>2, <1>8, <1>9, <1>10, SameLone DEF LoneInv, signalVars

LEMMA EnvironmentLone ==
  ASSUME LoneInv, Environment \/ UNCHANGED vars
  PROVE  LoneInv'
<1> USE DEF LoneInv, OtherTypeOK, At, IoFree, phoneVars, signalVars, sessionVars
<1>1. CASE \E s \in Sessions : ScriptAnswers(s)
  BY <1>1, AnswerLone
<1>2. ASSUME NEW s \in Sessions, StartThread(s) \/ Destroy(s) PROVE LoneInv'
  <2>1. /\ UNCHANGED <<sessionVars, slot, phoneVars, signalVars, accounts, shared, ranOut, taken>>
        /\ s \in Threads /\ s # IO
    BY <1>2, RestartAssumption DEF StartThread, Destroy, Threads
  <2>2. SessionTypeOK'
    BY <2>1 DEF SessionTypeOK
  <2>3. OtherTypeOK'
    BY <1>2, <2>1 DEF StartThread, Destroy, Goto, Places
  <2>4. \A r \in Sessions \ {s} : Same(r)
    <3>1. pconn' \in {pconn, [pconn EXCEPT ![s] = NoConn]} /\ ranOut' = ranOut
      BY <1>2 DEF StartThread, Destroy
    <3>2. \A r \in Sessions \ {s} : pconn'[r] = pconn[r]
      BY <3>1
    <3>3. \A r \in Sessions \ {s} : pc'[r] = pc[r]
      BY <1>2 DEF StartThread, Destroy, Goto, Threads
    <3> QED BY <2>1, <3>1, <3>2, <3>3 DEF Same
  <2>5. /\ UNCHANGED <<sock, sent, reads, timers, due, stopped, slot, ranOut, taken>>
        /\ \/ pc[s] = "none" /\ pc'[s] = "start"
           \/ pc[s] = "out" /\ pc'[s] = "destroyed"
    BY <1>2, <2>1 DEF StartThread, Destroy, Goto
  <2>6. Lone(s) => Lone(s)'
    BY <2>5 DEF Lone, ReadSide, TimerSide, PlaceSide, BindSide, TakenSide, Settled, Busy, Waits
  <2> QED BY <2>1, <2>2, <2>3, <2>4, <2>6, SameLone
<1>3. CASE \/ AppAnswers \/ PhoneLeaves \/ UNCHANGED vars
           \/ \E c \in Conns : PhoneConnects(c) \/ DoReadMsg(c)
  <2>1. UNCHANGED <<pc, sessionVars, pconn, slot, inside, accounts, shared, ranOut, taken>>
    BY <1>3 DEF AppAnswers, PhoneLeaves, PhoneConnects, DoReadMsg, vars
  <2>2. SessionTypeOK'
    BY <2>1 DEF SessionTypeOK
  <2>3. /\ pool' \in Conns \cup {NoConn} /\ hearing' \in Conns \cup {NoConn}
        /\ asked' \in SUBSET Conns /\ acks' \in SUBSET Conns /\ called' \in SUBSET Conns
        /\ calls' \in SUBSET Sessions
        /\ calls' # {} => hearing' # NoConn
    BY <1>3, RestartAssumption DEF AppAnswers, PhoneLeaves, PhoneConnects, DoReadMsg, vars
  <2>4. OtherTypeOK'
    BY <2>1, <2>3
  <2>5. \A r \in Sessions : Same(r)
    BY <2>1 DEF Same
  <2> QED BY <2>1, <2>2, <2>3, <2>4, <2>5, SameLone
<1> QED
  BY <1>1, <1>2, <1>3 DEF Environment

\* The app's answer brings the IO thread into sessions that are bound to the
\* connection it came on, none of which has had its minute run out.
LEMMA SignalLone ==
  ASSUME LoneInv, SignalStep
  PROVE  LoneInv' /\ shared' \cap (ranOut \ shared) = {}
<1> USE DEF LoneInv
<1>1. CASE Heard
  <2>1. UNCHANGED <<pc, sessionVars, pconn, slot, phoneVars, calls, inside, accounts, shared,
                    ranOut, taken>> /\ hearing' = NoConn /\ calls = {}
    BY <1>1 DEF Heard
  <2>2. SessionTypeOK' /\ OtherTypeOK'
    BY <2>1 DEF SessionTypeOK, OtherTypeOK, sessionVars, phoneVars
  <2>3. \A r \in Sessions : Same(r)
    BY <2>1 DEF Same, sessionVars
  <2> QED BY <2>1, <2>2, <2>3, SameLone
<1>2. ASSUME NEW s \in Sessions, OnRestartLuaEnd(s)
      PROVE  LoneInv' /\ shared' \cap (ranOut \ shared) = {}
  <2>1. /\ s \in calls /\ calls' = calls \ {s} /\ hearing # NoConn
        /\ UNCHANGED <<sock, sent, reads, stopped, pconn, slot, phoneVars, hearing, accounts,
                       ranOut>>
    BY <1>2 DEF OnRestartLuaEnd
  <2>2. CASE UNCHANGED <<timers, due, pc, inside, shared, taken>>
    <3>1. SessionTypeOK' /\ OtherTypeOK'
      BY <2>1, <2>2 DEF SessionTypeOK, OtherTypeOK, phoneVars
    <3>2. \A r \in Sessions : Same(r)
      BY <2>1, <2>2 DEF Same
    <3> QED BY <2>1, <2>2, <3>1, <3>2, SameLone
  <2>3. CASE ~UNCHANGED <<timers, due, pc, inside, shared, taken>>
    <3>1. /\ slot[s] = hearing
          /\ timers' = [timers EXCEPT ![s] = timers[s] \ {"restart"}]
          /\ due' = [due EXCEPT ![s] = due[s] \cup Cancelled(s, "restart")]
          /\ pc' = [pc EXCEPT ![IO] = "start"]
          /\ inside' = s /\ shared' = shared \cup {s}
          /\ taken' = [taken EXCEPT ![s] = NothingTaken]
      BY <1>2, <2>3 DEF OnRestartLuaEnd, Goto
    <3>2. Cancelled(s, "restart") \subseteq Handlers
      BY HandlerSets, HandlerTypes
    <3>3. /\ timers \in [Sessions -> SUBSET {"read", "restart"}]
          /\ due \in [Sessions -> SUBSET Handlers]
      BY DEF SessionTypeOK
    <3>4. /\ timers' \in [Sessions -> SUBSET {"read", "restart"}]
          /\ due' \in [Sessions -> SUBSET Handlers]
      BY <3>1, <3>2, <3>3
    <3>5. SessionTypeOK'
      BY <2>1, <3>4 DEF SessionTypeOK
    <3>6. OtherTypeOK'
      BY <2>1, <3>1, PairTypes DEF OtherTypeOK, phoneVars, Threads, Places
    <3>7. \A r \in Sessions \ {s} : Same(r)
      <4>1. /\ \A r \in Sessions : pc'[r] = pc[r]
            /\ \A r \in Sessions \ {s} :
                  timers'[r] = timers[r] /\ due'[r] = due[r] /\ taken'[r] = taken[r]
        BY <3>1, <3>3, RestartAssumption DEF OtherTypeOK, Threads
      <4> QED BY <2>1, <4>1 DEF Same
    <3>8. s \notin ranOut \/ s \in shared
      BY <2>1, <3>1 DEF Lone, TimerSide
    <3>9. \A r \in shared' : taken'[r] = NothingTaken
      BY <3>1 DEF OtherTypeOK
    <3> QED BY <2>1, <3>1, <3>5, <3>6, <3>7, <3>8, <3>9, SameLone
  <2> QED BY <2>2, <2>3
<1> QED
  BY <1>1, <1>2 DEF SignalStep

LEMMA LoneStep ==
  ASSUME LoneInv, [Next]_vars
  PROVE  LoneInv' /\ shared' \cap (ranOut \ shared) = {}
<1>1. LoneInv'
  BY ThreadLone, ExpiryLone, EnvironmentLone, SignalLone DEF Next
<1>2. ASSUME NEW t \in Threads, ThreadStep(t) PROVE shared' = shared
  BY <1>2, ThreadTypes DEF LoneInv
<1>3. CASE Environment \/ (\E s \in Sessions : TimerExpires(s)) \/ UNCHANGED vars
  <2>1. shared' = shared
    BY <1>3 DEF Environment, StartThread, Destroy, ScriptAnswers, AppAnswers, PhoneLeaves,
                PhoneConnects, DoReadMsg, TimerExpires, vars
  <2> QED BY <1>1, <2>1
<1> QED
  BY <1>1, <1>2, <1>3, SignalLone DEF Next

LEMMA LoneInvariant == Spec => []LoneInv
BY InitLone, LoneStep, PTL DEF Spec

-----------------------------------------------------------------------------
\* A session whose thread is alone in it comes to its next account or its end
\* with no read, timer or handler left over.
THEOREM NothingIsLeftOver == Spec => []SettledBeforeNext
<1>1. LoneInv => SettledBeforeNext
  BY Types DEF LoneInv, SettledBeforeNext, Lone, PlaceSide, Settled
<1> QED
  BY <1>1, LoneInvariant, PTL

\* The app's answer to a session's request finds the session bound.
THEOREM RequestsAreHeard == Spec => []RequestIsHeard
<1>1. LoneInv => RequestIsHeard
  <2> SUFFICES ASSUME LoneInv, NEW s \in Sessions, s \notin shared,
                      "restart" \in timers[s], pconn[s] = pool
               PROVE  slot[s] = pool
    BY DEF RequestIsHeard
  <2>1. Lone(s) /\ ~Settled(s) /\ Waits(s, "restart")
    BY DEF LoneInv, Settled, Waits
  <2>2. s \notin ranOut /\ pc[s] \in {"failed", "enter", "run", "runFailed"}
    BY <2>1 DEF Lone, TimerSide, PlaceSide
  <2> QED BY <2>1, <2>2 DEF Lone, BindSide
<1> QED
  BY <1>1, LoneInvariant, PTL

\* No answer is taken for another account's while one thread is in the session.
THEOREM AnswersAreOwn == Spec => []OwnAnswer
<1>1. LoneInv => OwnAnswer
  BY DEF LoneInv, OwnAnswer, Lone, TakenSide, NothingTaken
<1> QED
  BY <1>1, LoneInvariant, PTL

\* A thread that is alone in its session never waits in run without a timer.
THEOREM WaitsAreTimed == Spec => []WaitIsTimed
<1>1. LoneInv => WaitIsTimed
  <2> SUFFICES ASSUME LoneInv, NEW s \in Sessions, s \notin shared, Running(s)
               PROVE  stopped[s] \/ due[s] # {} \/ timers[s] # {}
    BY DEF WaitIsTimed
  <2>1. Lone(s)
    BY DEF LoneInv
  <2> QED BY <2>1 DEF Running, Lone, PlaceSide, Busy
<1> QED
  BY <1>1, LoneInvariant, PTL

\* The app's answer after the session's minute does not start the session anew.
THEOREM LateAnswersAreIgnored == Spec => LateAnswerIsIgnored
<1>1. LoneInv /\ [Next]_vars => [shared' \cap (ranOut \ shared) = {}]_vars
  BY LoneStep
<1> QED
  BY <1>1, LoneInvariant, PTL DEF Spec, LateAnswerIsIgnored

-----------------------------------------------------------------------------
\* The abstraction's variables: what a lone session waits for.
Told(s) == IF s \in shared THEN {} ELSE WaitedFor(s)
Waiting == [s \in Sessions |-> Told(s)]
callsVars == <<Waiting, taken, shared>>

LEMMA CallsUnfolded ==
  /\ CallsOf!CallsInit <=>
        /\ Waiting = [s \in Sessions |-> {}] /\ shared = {}
        /\ taken = [s \in Sessions |-> NothingTaken]
  /\ \A s, a : CallsOf!SendCommands(s, a) <=>
        /\ s \notin shared /\ Waiting[s] = {} /\ taken[s] = NothingTaken
        /\ Waiting' = [Waiting EXCEPT ![s] = {a}]
        /\ UNCHANGED <<taken, shared>>
  /\ \A s, a : CallsOf!HandleRead(s, a) <=>
        /\ Waiting[s] = {a} /\ Waiting' = [Waiting EXCEPT ![s] = {}]
        /\ \E answer \in {a, Aborted} :
              taken' = [taken EXCEPT ![s] = [account |-> a, answer |-> answer]]
        /\ UNCHANGED shared
  /\ \A s : CallsOf!GoOn(s) <=>
        /\ Waiting[s] = {} /\ taken' = [taken EXCEPT ![s] = NothingTaken]
        /\ UNCHANGED <<Waiting, shared>>
  /\ \A s : CallsOf!BeginAgain(s) <=>
        /\ s \notin shared /\ shared' = shared \cup {s}
        /\ Waiting' = [Waiting EXCEPT ![s] = {}]
        /\ taken' = [taken EXCEPT ![s] = NothingTaken]
BY DEF CallsOf!CallsInit, CallsOf!SendCommands, CallsOf!HandleRead, CallsOf!GoOn,
       CallsOf!BeginAgain, CallsOf!NothingTaken, NothingTaken, Waiting, Told

\* A step after which session s waits for W, and no other session for anything else.
LEMMA OneWaits ==
  ASSUME NEW s \in Sessions, NEW W, Told(s)' = W,
         \A r \in Sessions \ {s} : Told(r)' = Told(r)
  PROVE  Waiting' = [Waiting EXCEPT ![s] = W]
BY DEF Waiting

LEMMA NobodyElseWaits ==
  ASSUME \A r \in Sessions : Told(r)' = Told(r)
  PROVE  Waiting' = Waiting
BY DEF Waiting

\* What is waited for follows from the reads and the handlers.
LEMMA SameTold ==
  ASSUME NEW s, s \in shared' <=> s \in shared, reads'[s] = reads[s],
         \A h : h.call = "handle_read" => (h \in due'[s] <=> h \in due[s])
  PROVE  Told(s)' = Told(s)
BY DEF Told, WaitedFor

LEMMA SameIsTold ==
  ASSUME NEW s, Same(s), s \in shared' <=> s \in shared
  PROVE  Told(s)' = Told(s)
BY SameTold DEF Same

\* The three ways to wait, for any reads R and handlers D.
WaitedIn(R, D) == {R[i] : i \in DOMAIN R} \cup {h.account : h \in {g \in D : g.call = "handle_read"}}

LEMMA WaitedFacts ==
  ASSUME NEW R, NEW D,
         \A h \in D : h.call = "handle_read" => R = <<>>,
         \A g, h \in D : g.call = "handle_read" /\ h.call = "handle_read" => g = h
  PROVE  /\ \A a : R = <<a>> => WaitedIn(R, D) = {a}
         /\ \A h \in D : h.call = "handle_read" => WaitedIn(R, D) = {h.account}
         /\ R = <<>> /\ (\A h \in D : h.call # "handle_read") => WaitedIn(R, D) = {}
<1>1. ASSUME NEW a, R = <<a>> PROVE WaitedIn(R, D) = {a}
  <2>1. DOMAIN R = {1} /\ R[1] = a /\ R # <<>>
    BY <1>1
  <2>2. {g \in D : g.call = "handle_read"} = {}
    BY <2>1
  <2> QED BY <2>1, <2>2 DEF WaitedIn
<1>2. ASSUME NEW h \in D, h.call = "handle_read" PROVE WaitedIn(R, D) = {h.account}
  <2>1. R = <<>> /\ {g \in D : g.call = "handle_read"} = {h}
    BY <1>2
  <2>2. DOMAIN R = {}
    BY <2>1
  <2> QED BY <2>1, <2>2 DEF WaitedIn
<1>3. ASSUME R = <<>>, \A h \in D : h.call # "handle_read" PROVE WaitedIn(R, D) = {}
  <2>1. DOMAIN R = {} /\ {g \in D : g.call = "handle_read"} = {}
    BY <1>3
  <2> QED BY <2>1 DEF WaitedIn
<1> QED
  BY <1>1, <1>2, <1>3

\* They hold of a lone session, before a step and after it.
LEMMA ToldFacts ==
  ASSUME NEW s, s \notin shared, ReadSide(s)
  PROVE  /\ \A a : reads[s] = <<a>> => Told(s) = {a}
         /\ \A h \in due[s] : h.call = "handle_read" => Told(s) = {h.account}
         /\ reads[s] = <<>> /\ (\A h \in due[s] : h.call # "handle_read") => Told(s) = {}
<1>1. Told(s) = WaitedIn(reads[s], due[s])
  BY DEF Told, WaitedFor, WaitedIn
<1>2. PICK R, D : R = reads[s] /\ D = due[s]
  OBVIOUS
<1>3. /\ \A h \in D : h.call = "handle_read" => R = <<>>
      /\ \A g, h \in D : g.call = "handle_read" /\ h.call = "handle_read" => g = h
  BY <1>2 DEF ReadSide
<1>4. /\ \A a : R = <<a>> => WaitedIn(R, D) = {a}
      /\ \A h \in D : h.call = "handle_read" => WaitedIn(R, D) = {h.account}
      /\ R = <<>> /\ (\A h \in D : h.call # "handle_read") => WaitedIn(R, D) = {}
  BY <1>3, WaitedFacts
<1> QED
  BY <1>1, <1>2, <1>4

LEMMA ToldFactsNext ==
  ASSUME NEW s, s \notin shared', ReadSide(s)'
  PROVE  /\ \A a : reads'[s] = <<a>> => Told(s)' = {a}
         /\ \A h \in due'[s] : h.call = "handle_read" => Told(s)' = {h.account}
         /\ reads'[s] = <<>> /\ (\A h \in due'[s] : h.call # "handle_read") => Told(s)' = {}
<1>1. Told(s)' = WaitedIn(reads'[s], due'[s])
  BY DEF Told, WaitedFor, WaitedIn
<1>2. PICK R, D : R = reads'[s] /\ D = due'[s]
  OBVIOUS
<1>3. /\ \A h \in D : h.call = "handle_read" => R = <<>>
      /\ \A g, h \in D : g.call = "handle_read" /\ h.call = "handle_read" => g = h
  BY <1>2 DEF ReadSide
<1>4. /\ \A a : R = <<a>> => WaitedIn(R, D) = {a}
      /\ \A h \in D : h.call = "handle_read" => WaitedIn(R, D) = {h.account}
      /\ R = <<>> /\ (\A h \in D : h.call # "handle_read") => WaitedIn(R, D) = {}
  BY <1>3, WaitedFacts
<1> QED
  BY <1>1, <1>2, <1>4

\* A lone session's own step sends one account's commands when it waits for
\* none, has one handle_read called when it waits, goes on, or is not told.
OwnStep(s) ==
  \/ Told(s)' = Told(s) /\ taken' = taken
  \/ \E a \in 1..MaxAccounts :
        Told(s) = {} /\ taken[s] = NothingTaken /\ Told(s)' = {a} /\ taken' = taken
  \/ /\ Told(s)' = {}
     /\ \E a \in 1..MaxAccounts, b \in 0..MaxAccounts :
           Told(s) = {a} /\ b \in {a, Aborted} /\ taken' = [taken EXCEPT ![s] = [account |-> a, answer |-> b]]
  \/ Told(s) = {} /\ Told(s)' = {} /\ taken' = [taken EXCEPT ![s] = NothingTaken]

LEMMA OwnStepTold ==
  ASSUME LoneInv, NEW s \in Sessions, s \notin shared, shared' = shared, Lone(s)',
         ThreadStep(s) \/ ScriptAnswers(s) \/ TimerExpires(s)
  PROVE  OwnStep(s)
<1>1. Of(s) = s /\ ReadSide(s) /\ PlaceSide(s) /\ TakenSide(s) /\ ReadSide(s)' /\ s \notin shared'
  BY RestartAssumption DEF Of, LoneInv, Lone
<1>2. SessionTypeOK /\ DOMAIN reads = Sessions /\ DOMAIN due = Sessions
  BY DEF LoneInv, SessionTypeOK
<1>3. CASE \/ FindConnection(s) \/ Bind(s) \/ Connect(s) \/ LeaveLoop(s)
           \/ Finish(s) \/ EnterRun(s) \/ RunReturns(s)
  <2>1. reads' = reads /\ due' = due /\ taken' = taken
    BY <1>3 DEF FindConnection, Bind, Connect, LeaveLoop, Finish, EnterRun, RunReturns,
                sessionVars
  <2> QED BY <1>1, <2>1, SameTold DEF OwnStep
<1>11. CASE Reset(s)
  <2>1. reads' = reads /\ due' = due /\ taken' = [taken EXCEPT ![s] = NothingTaken]
    BY <1>1, <1>11 DEF Reset
  <2>2. reads[s] = <<>> /\ due[s] = {}
    BY <1>1, <1>11 DEF Reset, PlaceSide, Settled
  <2>3. Told(s) = {} /\ Told(s)' = {}
    BY <1>1, <2>1, <2>2, ToldFacts, SameTold
  <2> QED BY <2>1, <2>3 DEF OwnStep
<1>4. CASE Close(s)
  <2>1. reads[s] = <<>> /\ due[s] = {}
    BY <1>1, <1>4 DEF Close, At, PlaceSide, Settled
  <2>2. reads'[s] = <<>> /\ due'[s] = due[s] \cup AbortedReads(s)
    BY <1>1, <1>2, <1>4 DEF Close, CloseSocket
  <2>3. AbortedReads(s) = {}
    BY <1>2, <2>1, HandlerSets
  <2> QED BY <1>1, <1>4, <2>1, <2>2, <2>3, SameTold DEF Close, OwnStep
<1>5. CASE SendCommands(s)
  <2>1. CASE sock[s]
    <3>1. reads[s] = <<>> /\ due[s] = {} /\ timers[s] = {}
      BY <1>1, <1>5 DEF SendCommands, At, PlaceSide, Settled
    <3>2. reads'[s] = Append(reads[s], accounts) /\ due'[s] = due[s] \cup Cancelled(s, "read")
      BY <1>1, <1>2, <1>5, <2>1 DEF SendCommands
    <3>3. reads'[s] = <<accounts>>
      BY <3>1, <3>2
    <3>4. accounts \in 1..MaxAccounts
      BY <1>5, RestartAssumption DEF SendCommands, LoneInv, OtherTypeOK
    <3>5. Told(s) = {}
      BY <1>1, <3>1, ToldFacts
    <3>6. Told(s)' = {accounts}
      BY <1>1, <3>3, ToldFactsNext
    <3>7. taken' = taken /\ taken[s] = NothingTaken
      BY <1>1, <1>5 DEF SendCommands, At, TakenSide
    <3> QED BY <3>4, <3>5, <3>6, <3>7 DEF OwnStep
  <2>2. CASE ~sock[s]
    BY <1>1, <1>5, <2>2, SameTold DEF SendCommands, OwnStep
  <2> QED BY <2>1, <2>2
<1>6. CASE HandleRead(s)
  <2>1. PICK h \in due[s] :
           /\ h.call = "handle_read" /\ reads' = reads /\ Calls(s, h, Cancelled(s, "read"))
           /\ taken' = [taken EXCEPT ![s] = [account |-> h.account, answer |-> h.answer]]
    BY <1>1, <1>6 DEF HandleRead
  <2>2. due'[s] = (due[s] \ {h}) \cup Cancelled(s, "read")
    BY <2>1, LoneCalls
  <2>3. reads'[s] = <<>> /\ \A g \in due'[s] : g.call # "handle_read"
    BY <1>1, <1>2, <2>1, <2>2, HandlerSets, HandlerTypes DEF ReadSide
  <2>4. Told(s) = {h.account} /\ Told(s)' = {}
    BY <1>1, <2>1, <2>3, ToldFacts, ToldFactsNext
  <2>5. /\ h.account \in 1..MaxAccounts /\ h.answer \in {h.account, Aborted}
        /\ h.answer \in 0..MaxAccounts
    BY <1>1, <2>1, RestartAssumption DEF ReadSide, Aborted
  <2> QED BY <2>1, <2>4, <2>5 DEF OwnStep
<1>7. CASE OnReadTimeout(s)
  <2>1. /\ reads' = [reads EXCEPT ![s] = <<>>] /\ taken' = taken
        /\ Calls(s, TimerHandler("read"), AbortedReads(s) \cup Cancelled(s, "restart"))
    BY <1>1, <1>7 DEF OnReadTimeout, CloseSocket
  <2>2. /\ reads'[s] = <<>>
        /\ due'[s] = (due[s] \ {TimerHandler("read")}) \cup AbortedReads(s) \cup Cancelled(s, "restart")
    BY <1>2, <2>1, LoneCalls
  <2>3. CASE reads[s] = <<>>
    <3>1. AbortedReads(s) = {}
      BY <1>2, <2>3, HandlerSets
    <3>2. \A h : h.call = "handle_read" => (h \in due'[s] <=> h \in due[s])
      BY <1>2, <2>2, <3>1, HandlerSets, HandlerTypes
    <3> QED BY <1>1, <2>1, <2>2, <2>3, <3>2, SameTold DEF OwnStep
  <2>4. CASE reads[s] # <<>>
    <3>1. PICK a : reads[s] = <<a>>
      BY <1>1, <2>4 DEF ReadSide
    <3>2. Told(s) = {a}
      BY <1>1, <3>1, ToldFacts
    <3>3. ReadHandler(a, Aborted) \in due'[s]
      BY <1>2, <2>2, <3>1, HandlerSets
    <3>4. Told(s)' = {a}
      BY <1>1, <3>3, ToldFactsNext, HandlerTypes
    <3> QED BY <2>1, <3>2, <3>4 DEF OwnStep
  <2> QED BY <2>3, <2>4
<1>8. CASE OnRestartTimeout(s) \/ OnTimerNothing(s)
  <2>1. PICK h : h.call # "handle_read" /\ reads' = reads /\ taken' = taken /\ Calls(s, h, {})
    <3>1. \A k \in timers[s] : k # "handle_read"
      BY <1>2 DEF SessionTypeOK
    <3> QED BY <1>1, <1>8, <3>1, HandlerTypes DEF OnRestartTimeout, OnTimerNothing
  <2>2. due'[s] = (due[s] \ {h}) \cup {}
    BY <2>1, LoneCalls
  <2> QED BY <1>1, <2>1, <2>2, SameTold DEF OwnStep
<1>9. CASE ScriptAnswers(s)
  <2>1. /\ due' = [due EXCEPT ![s] = due[s] \cup {ReadHandler(Head(reads[s]), Head(sent[s]))}]
        /\ reads[s] # <<>>
    BY <1>9 DEF ScriptAnswers
  <2>2. PICK a : reads[s] = <<a>>
    BY <1>1, <2>1 DEF ReadSide
  <2>3. Head(reads[s]) = a
    BY <2>2
  <2>4. PICK b : ReadHandler(a, b) \in due'[s]
    BY <1>2, <2>1, <2>3
  <2>5. Told(s) = {a} /\ Told(s)' = {a}
    BY <1>1, <2>2, <2>4, ToldFacts, ToldFactsNext, HandlerTypes
  <2> QED BY <1>9, <2>5 DEF ScriptAnswers, OwnStep
<1>10. CASE TimerExpires(s)
  <2>1. PICK k \in timers[s] : due' = [due EXCEPT ![s] = due[s] \cup {TimerHandler(k)}]
    BY <1>10 DEF TimerExpires
  <2>2. k # "handle_read" /\ reads' = reads
    BY <1>2, <1>10 DEF SessionTypeOK, TimerExpires
  <2>3. \A h : h.call = "handle_read" => (h \in due'[s] <=> h \in due[s])
    BY <1>2, <2>1, <2>2, HandlerTypes
  <2> QED BY <1>1, <1>10, <2>2, <2>3, SameTold DEF TimerExpires, OwnStep
<1> QED
  BY <1>3, <1>4, <1>5, <1>6, <1>7, <1>8, <1>9, <1>10, <1>11 DEF ThreadStep

\* Such a step is one of the abstraction or invisible.
LEMMA OwnStepImplements ==
  ASSUME NEW s \in Sessions, s \notin shared, shared' = shared, OwnStep(s),
         \A r \in Sessions \ {s} : Told(r)' = Told(r)
  PROVE  CallsOf!CallsNext \/ UNCHANGED callsVars
<1>1. Waiting[s] = Told(s)
  BY DEF Waiting
<1>2. CASE Told(s)' = Told(s) /\ taken' = taken
  BY <1>2, NobodyElseWaits DEF callsVars
<1>3. ASSUME NEW a \in 1..MaxAccounts, Told(s) = {}, taken[s] = NothingTaken,
             Told(s)' = {a}, taken' = taken
      PROVE  CallsOf!CallsNext
  <2>1. Waiting' = [Waiting EXCEPT ![s] = {a}]
    BY <1>3, OneWaits
  <2>2. CallsOf!SendCommands(s, a)
    BY <1>1, <1>3, <2>1, CallsUnfolded
  <2> QED BY <2>2 DEF CallsOf!CallsNext
<1>4. ASSUME NEW a \in 1..MaxAccounts, NEW b \in {a, Aborted}, Told(s) = {a}, Told(s)' = {},
             taken' = [taken EXCEPT ![s] = [account |-> a, answer |-> b]]
      PROVE  CallsOf!CallsNext
  <2>1. Waiting' = [Waiting EXCEPT ![s] = {}]
    BY <1>4, OneWaits
  <2>2. CallsOf!HandleRead(s, a)
    BY <1>1, <1>4, <2>1, CallsUnfolded
  <2> QED BY <2>2 DEF CallsOf!CallsNext
<1>5. ASSUME Told(s) = {}, Told(s)' = {}, taken' = [taken EXCEPT ![s] = NothingTaken]
      PROVE  CallsOf!CallsNext
  <2>1. Waiting' = Waiting
    BY <1>5, NobodyElseWaits
  <2>2. CallsOf!GoOn(s)
    BY <1>1, <1>5, <2>1, CallsUnfolded
  <2> QED BY <2>2 DEF CallsOf!CallsNext
<1> QED
  BY <1>2, <1>3, <1>4, <1>5 DEF OwnStep

\* The step of a thread: its own session's, or one in a session that is entered.
LEMMA ThreadImplements ==
  ASSUME LoneInv, NEW t \in Threads, ThreadStep(t)
  PROVE  CallsOf!CallsNext \/ UNCHANGED callsVars
<1>1. /\ \A s \in Sessions \ {Of(t)} : s # t => Same(s)
      /\ shared' = shared
  BY ThreadTypes DEF LoneInv
<1>2. PICK r \in Sessions : r = Of(t)
  BY DEF ThreadStep
<1>3. CASE r \in shared
  <2>1. Told(r)' = Told(r)
    BY <1>1, <1>3 DEF Told
  <2>2. \A s \in Sessions \ {r} : s # t
    BY <1>2, RestartAssumption DEF Of
  <2>3. \A s \in Sessions : Told(s)' = Told(s)
    BY <1>1, <1>2, <2>1, <2>2, SameIsTold
  <2> QED BY <1>1, <1>2, <1>3, <2>3, NobodyElseWaits, ThreadTakes DEF callsVars
<1>4. CASE r \notin shared
  <2>1. t # IO
    BY <1>2, <1>4, RestartAssumption DEF Of, LoneInv
  <2>2. t \in Sessions /\ Of(t) = t /\ t \notin shared
    BY <1>2, <1>4, <2>1 DEF Threads, Of
  <2>3. Lone(t)'
    BY <2>2, LoneMoves, LoneSends, LoneHandlers DEF ThreadStep
  <2>4. \A q \in Sessions \ {t} : Told(q)' = Told(q)
    BY <1>1, <2>2, SameIsTold
  <2> QED BY <1>1, <2>2, <2>3, <2>4, OwnStepTold, OwnStepImplements
<1> QED
  BY <1>3, <1>4

\* A timer that expires, a script that answers.
LEMMA OutsideImplements ==
  ASSUME LoneInv, NEW s \in Sessions, ScriptAnswers(s) \/ TimerExpires(s)
  PROVE  CallsOf!CallsNext \/ UNCHANGED callsVars
<1>1. shared' = shared /\ taken' = taken
  BY DEF ScriptAnswers, TimerExpires
<1>2. \A r \in Sessions \ {s} : Told(r)' = Told(r)
  <2>1. DOMAIN reads = Sessions /\ DOMAIN due = Sessions
    BY DEF LoneInv, SessionTypeOK
  <2>2. \A r \in Sessions \ {s} : reads'[r] = reads[r] /\ due'[r] = due[r]
    BY <2>1 DEF ScriptAnswers, TimerExpires
  <2> QED BY <1>1, <2>2, SameTold
<1>3. CASE s \in shared
  <2>1. Told(s)' = Told(s)
    BY <1>1, <1>3 DEF Told
  <2> QED BY <1>1, <1>2, <2>1, NobodyElseWaits DEF callsVars
<1>4. CASE s \notin shared
  <2>1. Lone(s)'
    BY <1>1, <1>4, AnswerLone, ExpiryLone DEF LoneInv
  <2> QED BY <1>1, <1>2, <1>4, <2>1, OwnStepTold, OwnStepImplements
<1> QED
  BY <1>3, <1>4

\* The IO thread comes into a session, or does not.
LEMMA SignalImplements ==
  ASSUME LoneInv, NEW s \in Sessions, OnRestartLuaEnd(s)
  PROVE  CallsOf!CallsNext \/ UNCHANGED callsVars
<1>1. reads' = reads
  BY DEF OnRestartLuaEnd
<1>2. CASE UNCHANGED <<due, shared, taken>>
  <2>1. \A r \in Sessions : Told(r)' = Told(r)
    BY <1>1, <1>2, SameTold
  <2> QED BY <1>1, <1>2, <2>1, NobodyElseWaits DEF callsVars
<1>3. CASE ~UNCHANGED <<due, shared, taken>>
  <2>1. /\ shared' = shared \cup {s} /\ taken' = [taken EXCEPT ![s] = NothingTaken]
        /\ due' = [due EXCEPT ![s] = due[s] \cup Cancelled(s, "restart")]
    BY <1>3 DEF OnRestartLuaEnd
  <2>2. \A r \in Sessions \ {s} : Told(r)' = Told(r)
    <3>1. \A r \in Sessions \ {s} : due'[r] = due[r] /\ (r \in shared' <=> r \in shared)
      BY <2>1 DEF LoneInv, SessionTypeOK
    <3> QED BY <1>1, <3>1, SameTold
  <2>3. Told(s)' = {}
    BY <2>1 DEF Told
  <2>4. CASE s \in shared
    <3>1. Told(s) = {} /\ shared' = shared /\ taken' = taken
      BY <2>1, <2>4 DEF Told, LoneInv, OtherTypeOK
    <3> QED BY <2>2, <2>3, <3>1, NobodyElseWaits DEF callsVars
  <2>5. CASE s \notin shared
    <3>1. Waiting' = [Waiting EXCEPT ![s] = {}]
      BY <2>2, <2>3, OneWaits
    <3>2. CallsOf!BeginAgain(s)
      BY <2>1, <2>5, <3>1, CallsUnfolded
    <3> QED BY <3>2 DEF CallsOf!CallsNext
  <2> QED BY <2>4, <2>5
<1> QED
  BY <1>2, <1>3

LEMMA CallsStep ==
  ASSUME LoneInv, [Next]_vars
  PROVE  CallsOf!CallsNext \/ UNCHANGED callsVars
<1>1. CASE \/ UNCHANGED vars \/ Heard \/ AppAnswers \/ PhoneLeaves
           \/ \E s \in Sessions : StartThread(s) \/ Destroy(s)
           \/ \E c \in Conns : PhoneConnects(c) \/ DoReadMsg(c)
  <2>1. UNCHANGED <<reads, due, shared, taken>>
    BY <1>1 DEF vars, Heard, AppAnswers, PhoneLeaves, StartThread, Destroy, PhoneConnects,
                DoReadMsg, sessionVars
  <2>2. \A r \in Sessions : Told(r)' = Told(r)
    BY <2>1, SameTold
  <2> QED BY <2>1, <2>2, NobodyElseWaits DEF callsVars
<1> QED
  BY <1>1, ThreadImplements, OutsideImplements, SignalImplements
  DEF Next, SignalStep, Environment

\* With its timers, restarts and late answers, a session deals with the script as
\* VoteTask and KeepTask have it: each account's commands are concluded by one
\* handle_read, with their own answer or none, before the next account's go out,
\* until the IO thread comes in.
THEOREM SessionsImplementCalls == Spec => ImplementsCalls
<1>1. Init => CallsOf!CallsInit
  <2> SUFFICES ASSUME Init PROVE CallsOf!CallsInit
    OBVIOUS
  <2>1. /\ shared = {} /\ taken = [s \in Sessions |-> NothingTaken]
        /\ \A s \in Sessions : reads[s] = <<>> /\ due[s] = {}
    BY DEF Init
  <2>2. \A s \in Sessions : Told(s) = {}
    BY <2>1 DEF Told, WaitedFor
  <2> QED BY <2>1, <2>2, CallsUnfolded DEF Waiting
<1>2. LoneInv /\ [Next]_vars => [CallsOf!CallsNext]_(CallsOf!callVars)
  <2>1. UNCHANGED callsVars => UNCHANGED CallsOf!callVars
    BY DEF callsVars, Waiting, Told, CallsOf!callVars
  <2> QED BY <2>1, CallsStep
<1> QED
  BY <1>1, <1>2, LoneInvariant, PTL DEF Spec, ImplementsCalls, CallsOf!CallsSpec
=============================================================================
