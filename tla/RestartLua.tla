----------------------------- MODULE RestartLua -----------------------------
(***************************************************************************)
(* A phone whose script does not answer is told by its app to start the     *)
(* script again (restart_lua).  The app's answer comes on the phone's       *)
(* connection, whose signal calls on_restart_lua_end on the IO thread, and  *)
(* this runs start() there: two threads are then in one session and in its  *)
(* io_service.  Which sessions a phone gets is KeepTask's matter, what they *)
(* do with the accounts VoteTask's; here a session may begin at any time.   *)
(***************************************************************************)
EXTENDS Sequences, FiniteSets, Integers

CONSTANTS
  Sessions,      \* the sessions a phone gets; each has a thread of its own
  IO,            \* the IO thread
  Conns,         \* the connections the phone's app makes, one after the other
  NoConn, NoSession,
  MaxAccounts    \* bound: the accounts the sessions find

ASSUME RestartAssumption ==
  /\ IO \notin Sessions /\ NoSession \notin Sessions /\ NoConn \notin Conns
  /\ MaxAccounts \in Nat

Threads == Sessions \cup {IO}

VARIABLES
  pc,          \* where each thread is in start()
  inside,      \* the session the IO thread is in, or NoSession
  sock,        \* socket_ is connected to the phone's script
  sent,        \* accounts whose commands the script has not answered
  reads,       \* accounts the outstanding reads were begun for
  timers,      \* the timers waited for: "read", "restart"
  due,         \* handlers the session's io_service has yet to call
  stopped,     \* the io_service's stopped flag
  pconn,       \* pconn_
  slot,        \* the connection whose signal calls the session
  pool,        \* the connection pho_conn_pool has of the phone
  asked, acks, \* connections with a request, with an answer due to be read
  hearing, calls,   \* the answer the IO thread handles, the slots left to call
  accounts,    \* accounts left
  called,      \* history: connections the phone has made
  shared,      \* history: the sessions the IO thread has been in
  ranOut,      \* history: the sessions whose restart timer ran out
  taken,       \* history: what handle_read took in this run, of unshared sessions
  ub           \* a session was used after its end, or pconn_ was null

sessionVars == <<sock, sent, reads, timers, due, stopped>>
phoneVars == <<pool, asked, acks, called>>
signalVars == <<hearing, calls, inside>>
vars == <<pc, sessionVars, pconn, slot, phoneVars, signalVars, accounts, shared,
          ranOut, taken, ub>>

Aborted == 0
ReadHandler(a, b) == [call |-> "handle_read", account |-> a, answer |-> b]
TimerHandler(k) == [call |-> k, account |-> 0, answer |-> 0]
NothingTaken == [account |-> Aborted, answer |-> Aborted]

\* The session a thread is in.
Of(t) == IF t = IO THEN inside ELSE t

At(t, location) == ~ub /\ pc[t] = location
Goto(t, location) == pc' = [pc EXCEPT ![t] = location]

\* start() returns: to the end of the thread, or into the signal's call.
Return(t) ==
  /\ Goto(t, "out")
  /\ inside' = IF t = IO THEN NoSession ELSE inside

-----------------------------------------------------------------------------
StartThread(s) ==
  /\ At(s, "none") /\ Goto(s, "start")
  /\ UNCHANGED <<sessionVars, pconn, slot, phoneVars, signalVars, accounts, shared, ranOut, taken, ub>>

FindConnection(t) ==
  /\ At(t, "start")
  /\ pconn' = [pconn EXCEPT ![Of(t)] = pool]
  /\ \/ pool # NoConn /\ Goto(t, "bind") /\ UNCHANGED inside
     \/ pool = NoConn /\ Return(t)
  /\ UNCHANGED <<sessionVars, slot, phoneVars, hearing, calls, accounts, shared, ranOut, taken, ub>>

\* A connection object lives while the pool, a handler or a session has it; its
\* signal and what is connected to it go with it.
Alive(c) ==
  \/ c \in {pool, hearing} \cup acks
  \/ \E s \in Sessions : pc[s] # "destroyed" /\ pconn[s] = c

\* Mutant of Bind: the signal is left to be bound when the script is reached.
BindLater(t) ==
  /\ At(t, "bind") /\ Goto(t, "connect")
  /\ UNCHANGED <<sessionVars, pconn, slot, phoneVars, signalVars, accounts, shared, ranOut, taken, ub>>

\* bind_restart_lua_sig, unless the session is bound already, and be it to the
\* signal of another connection.
Bind(t) ==
  /\ At(t, "bind") /\ Goto(t, "connect")
  /\ slot' = IF slot[Of(t)] # NoConn /\ Alive(slot[Of(t)]) THEN slot
             ELSE [slot EXCEPT ![Of(t)] = pconn[Of(t)]]
  /\ UNCHANGED <<sessionVars, pconn, phoneVars, signalVars, accounts, shared, ranOut, taken, ub>>

\* pconn_->restart_lua(): written if the connection is open; pconn_ may be null.
AskForRestart(s) ==
  /\ asked' = IF pconn[s] = pool /\ pool # NoConn THEN asked \cup {pool} ELSE asked
  /\ ub' = (pconn[s] = NoConn)
  /\ UNCHANGED <<pool, acks, called>>

\* expires_from_now and cancel: a wait that is under way is aborted.
Cancelled(s, k) == IF k \in timers[s] THEN {TimerHandler("aborted")} ELSE {}

Connect(t) ==
  /\ At(t, "connect")
  /\ \/ ~sock[Of(t)] /\ sock' = [sock EXCEPT ![Of(t)] = TRUE]
        /\ Goto(t, "loop") /\ UNCHANGED <<timers, asked, ub>>
     \/ AskForRestart(Of(t))
        /\ timers' = [timers EXCEPT ![Of(t)] = @ \cup {"restart"}]
        /\ Goto(t, "failed") /\ UNCHANGED sock
  /\ UNCHANGED <<pool, acks, called, sent, reads, due, stopped, pconn, slot, signalVars, accounts,
                 shared, ranOut, taken>>

-----------------------------------------------------------------------------
\* on_connected takes an account, sends its commands and begins the read with
\* its timer.  On a closed socket the write fails and the account is lost.
SendCommands(t) ==
  /\ At(t, "loop") /\ accounts > 0 /\ accounts' = accounts - 1
  /\ LET s == Of(t) IN
     \/ /\ sock[s] /\ Goto(t, "enter")
        /\ sent' = [sent EXCEPT ![s] = Append(@, accounts)]
        /\ reads' = [reads EXCEPT ![s] = Append(@, accounts)]
        /\ due' = [due EXCEPT ![s] = @ \cup Cancelled(s, "read")]
        /\ timers' = [timers EXCEPT ![s] = @ \cup {"read"}]
     \/ ~sock[s] /\ UNCHANGED <<pc, sent, reads, due, timers>>
  /\ UNCHANGED <<sock, stopped, pconn, slot, phoneVars, signalVars, shared, ranOut, taken, ub>>

\* No account is left, or a vote session need not vote any more.
LeaveLoop(t) ==
  /\ At(t, "loop") /\ Goto(t, "close")
  /\ UNCHANGED <<sessionVars, pconn, slot, phoneVars, signalVars, accounts, shared, ranOut, taken, ub>>

\* socket_.close() aborts the reads, and what the script answers is lost.
CloseSocket(s) ==
  /\ sock' = [sock EXCEPT ![s] = FALSE]
  /\ sent' = [sent EXCEPT ![s] = <<>>]
  /\ reads' = [reads EXCEPT ![s] = <<>>]

AbortedReads(s) == {ReadHandler(reads[s][i], Aborted) : i \in DOMAIN reads[s]}

Close(t) ==
  /\ At(t, "close") /\ Goto(t, "finish")
  /\ CloseSocket(Of(t))
  /\ due' = [due EXCEPT ![Of(t)] = @ \cup AbortedReads(Of(t))]
  /\ UNCHANGED <<timers, stopped, pconn, slot, phoneVars, signalVars, accounts, shared, ranOut, taken, ub>>

\* The device is marked idle, which is in KeepTask, and start() returns.
Finish(t) ==
  /\ At(t, "finish") /\ Return(t)
  /\ UNCHANGED <<sessionVars, pconn, slot, phoneVars, hearing, calls, accounts, shared, ranOut, taken, ub>>

\* The thread has returned and the session is destroyed: at once a daily one, a
\* vote session when its task has joined all.  Its slot stays connected.
Destroy(s) ==
  /\ At(s, "out") /\ Goto(s, "destroyed")
  /\ pconn' = [pconn EXCEPT ![s] = NoConn]
  /\ ub' = (inside = s)
  /\ UNCHANGED <<sessionVars, slot, phoneVars, signalVars, accounts, shared, ranOut, taken>>

-----------------------------------------------------------------------------
\* Mutant of WorkLeft: the session keeps an io_service::work.
WorkLeftAlways(reads_, timers_, due_) == TRUE

\* What an io_service counts as outstanding.
WorkLeft(reads_, timers_, due_) == reads_ # <<>> \/ timers_ # {} \/ due_ # {}

\* ios_.run(): with nothing outstanding it stops itself and returns.
EnterRun(t) ==
  /\ ~ub /\ pc[t] \in {"enter", "failed"}
  /\ LET s == Of(t)
         busy == WorkLeft(reads[s], timers[s], due[s]) IN
     /\ stopped' = [stopped EXCEPT ![s] = @ \/ ~busy]
     /\ Goto(t, IF pc[t] = "enter" THEN "run" ELSE "runFailed")
  /\ UNCHANGED <<sock, sent, reads, timers, due, pconn, slot, phoneVars, signalVars, accounts, shared,
                 ranOut, taken, ub>>

Running(t) == ~ub /\ pc[t] \in {"run", "runFailed"}

\* A handler is called by whichever thread is in run; the one that leaves
\* nothing outstanding stops the io_service, for all threads in it.
Calls(t, h, more) ==
  /\ Running(t) /\ ~stopped[Of(t)] /\ h \in due[Of(t)]
  /\ due' = [due EXCEPT ![Of(t)] = (@ \ {h}) \cup more]
  /\ stopped' = [stopped EXCEPT ![Of(t)] =
                   ~WorkLeft(reads'[Of(t)], timers'[Of(t)], due'[Of(t)])]
  /\ UNCHANGED <<pc, pconn, pool, acks, called, signalVars, accounts, shared>>

\* handle_read cancels the read timer; the answer is taken for the account.
HandleRead(t) ==
  \E h \in due[Of(t)] :
    /\ h.call = "handle_read"
    /\ timers' = [timers EXCEPT ![Of(t)] = @ \ {"read"}]
    /\ taken' = IF Of(t) \in shared THEN taken
                ELSE [taken EXCEPT ![Of(t)] = [account |-> h.account, answer |-> h.answer]]
    /\ UNCHANGED <<sock, sent, reads, asked, slot, ranOut, ub>>
    /\ Calls(t, h, Cancelled(Of(t), "read"))

\* Mutant of OnReadTimeout: the read is cancelled and the socket left open.
OnReadTimeoutCancels(t) ==
  /\ TimerHandler("read") \in due[Of(t)] /\ "read" \notin timers[Of(t)]
  /\ reads' = [reads EXCEPT ![Of(t)] = <<>>]
  /\ AskForRestart(Of(t))
  /\ timers' = [timers EXCEPT ![Of(t)] = @ \cup {"restart"}]
  /\ UNCHANGED <<sock, sent, slot, ranOut, taken>>
  /\ Calls(t, TimerHandler("read"), AbortedReads(Of(t)) \cup Cancelled(Of(t), "restart"))

\* on_read_timeout closes the socket, asks for a restart of the script and
\* waits a minute for the answer.
OnReadTimeout(t) ==
  /\ TimerHandler("read") \in due[Of(t)] /\ "read" \notin timers[Of(t)]
  /\ CloseSocket(Of(t))
  /\ AskForRestart(Of(t))
  /\ timers' = [timers EXCEPT ![Of(t)] = @ \cup {"restart"}]
  /\ UNCHANGED <<slot, ranOut, taken>>
  /\ Calls(t, TimerHandler("read"), AbortedReads(Of(t)) \cup Cancelled(Of(t), "restart"))

\* Mutant of OnRestartTimeout: the signal stays bound.
OnRestartTimeoutBound(t) ==
  /\ TimerHandler("restart") \in due[Of(t)] /\ "restart" \notin timers[Of(t)]
  /\ ranOut' = ranOut \cup {Of(t)}
  /\ UNCHANGED <<sock, sent, reads, timers, asked, slot, taken, ub>>
  /\ Calls(t, TimerHandler("restart"), {})

\* on_restart_lua_timeout: the session will not hear the answer any more.
OnRestartTimeout(t) ==
  /\ TimerHandler("restart") \in due[Of(t)] /\ "restart" \notin timers[Of(t)]
  /\ slot' = [slot EXCEPT ![Of(t)] = NoConn]
  /\ ranOut' = ranOut \cup {Of(t)}
  /\ UNCHANGED <<sock, sent, reads, timers, asked, taken, ub>>
  /\ Calls(t, TimerHandler("restart"), {})

\* A timer that was aborted, or set again before its handler came to run.
OnTimerNothing(t) ==
  \E h \in due[Of(t)] :
    /\ h.call = "aborted" \/ h.call \in timers[Of(t)]
    /\ UNCHANGED <<sock, sent, reads, timers, asked, slot, ranOut, taken, ub>>
    /\ Calls(t, h, {})

RunReturns(t) ==
  /\ Running(t) /\ stopped[Of(t)]
  /\ Goto(t, IF pc[t] = "run" THEN "reset" ELSE "resetFailed")
  /\ UNCHANGED <<sessionVars, pconn, slot, phoneVars, signalVars, accounts, shared, ranOut, taken, ub>>

\* Mutant of Reset: the io_service stays stopped.
ResetForgotten(t) ==
  /\ ~ub /\ pc[t] \in {"reset", "resetFailed"}
  /\ Goto(t, IF pc[t] = "reset" THEN "loop" ELSE "finish")
  /\ UNCHANGED <<sessionVars, pconn, slot, phoneVars, signalVars, accounts, shared, ranOut, taken, ub>>

\* ios_.reset(): also for a thread that has not seen the stop yet.
Reset(t) ==
  /\ ~ub /\ pc[t] \in {"reset", "resetFailed"}
  /\ stopped' = [stopped EXCEPT ![Of(t)] = FALSE]
  /\ taken' = [taken EXCEPT ![Of(t)] = NothingTaken]
  /\ Goto(t, IF pc[t] = "reset" THEN "loop" ELSE "finish")
  /\ UNCHANGED <<sock, sent, reads, timers, due, pconn, slot, phoneVars, signalVars, accounts, shared,
                 ranOut, ub>>

-----------------------------------------------------------------------------
TimerExpires(s) ==
  /\ ~ub
  /\ \E k \in timers[s] :
        /\ timers' = [timers EXCEPT ![s] = @ \ {k}]
        /\ due' = [due EXCEPT ![s] = @ \cup {TimerHandler(k)}]
  /\ UNCHANGED <<pc, sock, sent, reads, stopped, pconn, slot, phoneVars, signalVars, accounts, shared,
                 ranOut, taken, ub>>

\* The script answers the commands in their order; the first read gets it.
ScriptAnswers(s) ==
  /\ ~ub /\ sock[s] /\ sent[s] # <<>> /\ reads[s] # <<>>
  /\ due' = [due EXCEPT ![s] = @ \cup {ReadHandler(Head(reads[s]), Head(sent[s]))}]
  /\ sent' = [sent EXCEPT ![s] = Tail(@)] /\ reads' = [reads EXCEPT ![s] = Tail(@)]
  /\ UNCHANGED <<pc, sock, timers, stopped, pconn, slot, phoneVars, signalVars, accounts, shared,
                 ranOut, taken, ub>>

\* The app says that the script was restarted, in time or late.
AppAnswers ==
  /\ ~ub /\ pool \in asked
  /\ asked' = asked \ {pool} /\ acks' = acks \cup {pool}
  /\ UNCHANGED <<pc, sessionVars, pconn, slot, pool, called, signalVars, accounts, shared, ranOut, taken, ub>>

IoFree == ~ub /\ hearing = NoConn

PhoneConnects(c) ==
  /\ IoFree /\ c \notin called
  /\ pool' = c /\ called' = called \cup {c}
  /\ UNCHANGED <<pc, sessionVars, pconn, slot, asked, acks, signalVars, accounts, shared, ranOut, taken, ub>>

PhoneLeaves ==
  /\ IoFree /\ pool # NoConn /\ pool' = NoConn
  /\ UNCHANGED <<pc, sessionVars, pconn, slot, asked, acks, called, signalVars, accounts, shared, ranOut,
                 taken, ub>>

\* phone_connection::handle_read and do_read_msg: the signal calls every slot
\* connected to it.
DoReadMsg(c) ==
  /\ IoFree /\ c \in acks
  /\ hearing' = c /\ acks' = acks \ {c}
  /\ calls' = {s \in Sessions : slot[s] = c}
  /\ UNCHANGED <<pc, sessionVars, pconn, slot, pool, asked, called, inside, accounts, shared, ranOut, taken, ub>>

\* on_restart_lua_end, up to start(), on the IO thread.
OnRestartLuaEnd(s) ==
  /\ ~ub /\ s \in calls /\ inside = NoSession /\ calls' = calls \ {s}
  /\ \/ /\ slot[s] = hearing /\ pc[s] # "destroyed"
        /\ timers' = [timers EXCEPT ![s] = @ \ {"restart"}]
        /\ due' = [due EXCEPT ![s] = @ \cup Cancelled(s, "restart")]
        /\ Goto(IO, "start") /\ inside' = s /\ shared' = shared \cup {s}
        /\ taken' = [taken EXCEPT ![s] = NothingTaken]
        /\ UNCHANGED ub
     \/ /\ slot[s] = hearing /\ pc[s] = "destroyed" /\ ub' = TRUE
        /\ UNCHANGED <<timers, due, pc, inside, shared, taken>>
     \/ slot[s] # hearing /\ UNCHANGED <<timers, due, pc, inside, shared, taken, ub>>
  /\ UNCHANGED <<sock, sent, reads, stopped, pconn, slot, phoneVars, hearing, accounts, ranOut>>

\* The signal's call returns, and with it the handler.
Heard ==
  /\ ~ub /\ hearing # NoConn /\ calls = {} /\ inside = NoSession
  /\ hearing' = NoConn
  /\ UNCHANGED <<pc, sessionVars, pconn, slot, phoneVars, calls, inside, accounts, shared, ranOut, taken, ub>>

-----------------------------------------------------------------------------
Init ==
  /\ pc = [t \in Threads |-> IF t = IO THEN "out" ELSE "none"] /\ inside = NoSession
  /\ sock = [s \in Sessions |-> FALSE]
  /\ sent = [s \in Sessions |-> <<>>] /\ reads = [s \in Sessions |-> <<>>]
  /\ timers = [s \in Sessions |-> {}] /\ due = [s \in Sessions |-> {}]
  /\ stopped = [s \in Sessions |-> FALSE]
  /\ pconn = [s \in Sessions |-> NoConn] /\ slot = [s \in Sessions |-> NoConn]
  /\ pool = NoConn /\ asked = {} /\ acks = {} /\ called = {}
  /\ hearing = NoConn /\ calls = {}
  /\ accounts = MaxAccounts
  /\ shared = {} /\ ranOut = {} /\ ub = FALSE
  /\ taken = [s \in Sessions |-> NothingTaken]

\* A thread that is in no session has none to take a step in.
ThreadStep(t) ==
  /\ Of(t) \in Sessions
  /\ \/ FindConnection(t) \/ Bind(t) \/ Connect(t)
     \/ SendCommands(t) \/ LeaveLoop(t) \/ Close(t) \/ Finish(t)
     \/ EnterRun(t) \/ RunReturns(t) \/ Reset(t)
     \/ HandleRead(t) \/ OnReadTimeout(t) \/ OnRestartTimeout(t) \/ OnTimerNothing(t)

SignalStep == (\E s \in Sessions : OnRestartLuaEnd(s)) \/ Heard

Environment ==
  \/ \E s \in Sessions : StartThread(s) \/ Destroy(s) \/ ScriptAnswers(s)
  \/ AppAnswers \/ PhoneLeaves
  \/ \E c \in Conns : PhoneConnects(c) \/ DoReadMsg(c)

Next ==
  \/ \E t \in Threads : ThreadStep(t)
  \/ SignalStep \/ Environment
  \/ \E s \in Sessions : TimerExpires(s)

Spec == Init /\ [][Next]_vars

-----------------------------------------------------------------------------
TypeOK ==
  /\ pc \in [Threads -> {"none", "start", "bind", "connect", "failed", "loop", "enter", "run",
                         "runFailed", "reset", "resetFailed", "close", "finish", "out", "destroyed"}]
  /\ inside \in Sessions \cup {NoSession}
  /\ sock \in [Sessions -> BOOLEAN] /\ stopped \in [Sessions -> BOOLEAN]
  /\ pconn \in [Sessions -> Conns \cup {NoConn}] /\ slot \in [Sessions -> Conns \cup {NoConn}]
  /\ pool \in Conns \cup {NoConn} /\ hearing \in Conns \cup {NoConn}
  /\ asked \in SUBSET Conns /\ acks \in SUBSET Conns /\ called \in SUBSET Conns
  /\ calls \in SUBSET Sessions /\ accounts \in 0..MaxAccounts
  /\ sent \in [Sessions -> Seq(1..MaxAccounts)] /\ reads \in [Sessions -> Seq(1..MaxAccounts)]
  /\ timers \in [Sessions -> SUBSET {"read", "restart"}]
  /\ due \in [Sessions -> SUBSET [call : {"handle_read", "read", "restart", "aborted"},
                                 account : 0..MaxAccounts, answer : 0..MaxAccounts]]
  /\ shared \in SUBSET Sessions /\ ranOut \in SUBSET Sessions
  /\ taken \in [Sessions -> [account : 0..MaxAccounts, answer : 0..MaxAccounts]]

\* A session comes to its next account, or to its end, with nothing outstanding:
\* no read, timer or handler of an account is left over to the next one's run.
SettledBeforeNext ==
  /\ TypeOK
  /\ \A s \in Sessions \ shared :
        pc[s] \in {"loop", "close", "finish", "out"} =>
          reads[s] = <<>> /\ timers[s] = {} /\ due[s] = {}

\* While a session waits for the script's restart, the app's answer finds it:
\* it is bound to the connection that the request went out on, unless the phone
\* has called in again or the IO thread has been in the session.
RequestIsHeard ==
  \A s \in Sessions \ shared :
     "restart" \in timers[s] /\ pconn[s] = pool => slot[s] = pool

\* The answer to one account's commands is never taken for another's, however
\* late the script answers, as long as one thread is in the session.
OwnAnswer ==
  \A s \in Sessions : taken[s].answer \in {taken[s].account, Aborted}

\* A restart that is reported after the session's minute is over does not begin
\* the session anew, be its thread at the next account, at its end or gone.
LateAnswerIsIgnored ==
  [][shared' \cap (ranOut \ shared) = {}]_vars

\* Nobody waits in run without end, though script and app may never answer: a
\* timer runs, a handler is due or the stop has come.  Only when the app's answer
\* has brought the IO thread into the session may a thread be left there, its
\* read's timer cancelled or its stop reset by the other.
WaitIsTimed ==
  \A s \in Sessions \ shared :
     Running(s) => stopped[s] \/ due[s] # {} \/ timers[s] # {}

\* The accounts whose read is begun or whose handle_read is due.
WaitedFor(s) ==
  {reads[s][i] : i \in DOMAIN reads[s]} \cup {h.account : h \in {g \in due[s] : g.call = "handle_read"}}

\* With all their timers, sessions and the script deal as ScriptCalls says: one
\* account's commands at a time, concluded by one handle_read of this account,
\* with its own answer or none.  No timeout loses a read, has it reported twice
\* or leaves it behind for the next account.
CallsOf == INSTANCE ScriptCalls WITH
  Accounts <- 1..MaxAccounts,
  waiting <- [s \in Sessions |-> IF s \in shared THEN {} ELSE WaitedFor(s)],
  entered <- shared, NoAccount <- Aborted
ImplementsCalls == CallsOf!CallsSpec
=============================================================================
