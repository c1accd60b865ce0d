------------------------------ MODULE KeepTask ------------------------------
(***************************************************************************)
(* The daily sessions (keep_wx_account_session) beside the vote sessions:  *)
(* keep_wx_account_task::do_task starts one on every idle phone once an     *)
(* hour and joins none, reset_task takes the daily marks off.  Both run on  *)
(* the IO thread.  The two kinds of session share the idle list, the       *)
(* statuses and the phones, and nothing tells them apart.  The answers of   *)
(* the daily sessions go through a static stringstream of their own.        *)
(* on_restart_lua_end, of sessions of both kinds, marks a phone idle that   *)
(* its session still uses and runs start() on the IO thread.  What two      *)
(* threads then do in one session's io_service is RestartLua's; here such a *)
(* visit is the statuses it sets, and nothing is claimed of the accounts    *)
(* once there has been one.                                                 *)
(***************************************************************************)
EXTENDS VoteTask

CONSTANT Slots     \* bound: the daily sessions a phone may have at a time

KSessions == Devices \X Slots
Phone(s) == s[1]
Daily(s) == <<"keep", s[1], s[2]>>

ASSUME KeepAssumption ==
  /\ IsFiniteSet(Slots) /\ Slots # {}
  /\ {Daily(s) : s \in KSessions} \subseteq Holders

VARIABLES
  kpc,          \* where each daily session is; "none" without a thread
  ksock,        \* its script socket, as sock
  resetDue,     \* reset_task's timer, set once by start, has not fired
  resetting,    \* accounts reset_all_everyday_task has not come to yet
  asked,        \* phones told to start their script again, and yet to answer
  iopc,         \* the IO thread in a session's start(): "out", "begin", "inside"
  visited,      \* the session it was last in, by its name
  entered,      \* history: it has been in one since the process started
  chores,       \* history: how often each account's daily task was reported
                \* done, or ended unknown, since its last reset; capped at 2
  misread,      \* history: accounts whose task was done and, the answer read
                \* being another phone's, not marked since their last reset
  crossed       \* history: phones that called in again during a session, got
                \* a session before another had marked them busy, or were
                \* marked idle by on_restart_lua_end

resetVars == <<resetDue, resetting>>
visitVars == <<iopc, visited, entered>>
ioVars == <<resetVars, visitVars>>
choreVars == <<chores, misread>>
keepVars == <<kpc, ksock, asked, ioVars, choreVars, crossed>>
kvars == <<vars, keepVars>>
voteOnly == <<taskVars, sessionVars, votedBefore, ballots>>
counters == <<refusals, restarts>>

Names == {Daily(s) : s \in KSessions} \cup {Session(d) : d \in Devices}
KLocations == {"none", "start", "begin", "restart", "loop", "found", "mark",
               "read", "settle", "end", "finish"}
KLive(d) == {s \in KSessions : Phone(s) = d /\ kpc[s] # "none"}

\* The sessions of a phone, of either kind.
SessionsOn(d) == Cardinality(KLive(d)) + (IF Live(d) THEN 1 ELSE 0)

-----------------------------------------------------------------------------
\* A session of the phone has not come to mark it busy.
InGap(d) ==
  \/ pc[d] \in {"start", "begin"}
  \/ \E s \in KLive(d) : kpc[s] \in {"start", "begin"}

IdlePhones == {d \in Devices : status[d] = "ONLINE_IDLE"}
Cross(phones) == crossed' = crossed \cup phones

\* The IO thread is neither in the middle of a reset nor inside a session.
IoFree == resetting = {} /\ iopc = "out"

\* keep_wx_account_task::do_task goes through a copy of the devices and starts
\* a thread for each idle one.
FreeSlots(d) == {k \in Slots : kpc[<<d, k>>] = "none"}

DoTask ==
  /\ IoFree
  /\ \A d \in IdlePhones : FreeSlots(d) # {}
  /\ kpc' = [s \in KSessions |->
               IF Phone(s) \in IdlePhones /\ s[2] = CHOOSE k \in FreeSlots(Phone(s)) : TRUE
               THEN "start" ELSE kpc[s]]
  /\ Cross({d \in IdlePhones : InGap(d)})
  /\ UNCHANGED <<poolVars, deviceVars, voteOnly, counters, ksock, asked, ioVars, choreVars>>

\* reset_all_everyday_task, one account after the other.
ResetTask ==
  /\ IoFree /\ resetDue /\ resetDue' = FALSE
  /\ resetting' = Accounts
  /\ UNCHANGED <<vars, kpc, ksock, asked, visitVars, choreVars, crossed>>

ResetOne(a) ==
  /\ a \in resetting /\ resetting' = resetting \ {a}
  /\ ResetDaily(a)
  /\ chores' = [chores EXCEPT ![a] = 0] /\ misread' = misread \ {a}
  /\ UNCHANGED <<deviceVars, voteOnly, counters, kpc, ksock, asked, resetDue, visitVars, crossed>>

-----------------------------------------------------------------------------
\* The sessions of a phone that its connection's signal may call: bound in
\* start(), whether or not their restart timer is still running.
Bound(d) ==
  {Daily(s) : s \in {r \in KLive(d) : kpc[r] \notin {"start", "begin"}}}
    \cup {Session(e) : e \in {c \in {d} : Live(c) /\ pc[c] \notin {"start", "begin"}}}

\* pconn_->restart_lua(): heard by a phone that is there.
Ask(d) == asked' = asked \cup ({d} \cap connected)

\* on_restart_lua_end of one of the phone's sessions, up to the first status of
\* start(): the restart timer is cancelled and the phone marked idle.  asked
\* stays when the signal has more sessions to call.
OnRestartLuaEnd(d) ==
  /\ IoFree /\ d \in asked /\ d \in connected
  /\ \E h \in Bound(d) : visited' = h
  /\ iopc' = "begin" /\ entered' = TRUE
  /\ SetStatus(d, "ONLINE_IDLE") /\ Cross({d})
  /\ asked' \in {asked, asked \ {d}}
  /\ UNCHANGED <<poolVars, connected, voteOnly, counters, kpc, ksock, resetVars, choreVars>>

\* start() on the IO thread: the phone is busy, the socket is connected or the
\* phone is told once more to start its script again.
VisitConnect(d) ==
  /\ iopc = "begin" /\ d = visited[2] /\ iopc' = "inside"
  /\ SetStatus(d, "TASK_BEGIN")
  /\ UNCHANGED asked \/ Ask(d)
  /\ UNCHANGED <<poolVars, connected, voteOnly, counters, kpc, ksock, resetVars,
                 visited, entered, choreVars, crossed>>

\* on_connected or the io_service, on the IO thread: the phone's status goes to
\* and fro with its accounts, and the read timer has it start its script again.
VisitWork(d) ==
  /\ iopc = "inside" /\ d = visited[2]
  /\ \E w \in IF visited[1] = "vote" THEN {"WX_VOTING", "WX_VOTE_END"}
                                     ELSE {"DAILY_TASK", "DAILY_TASK_END"} : SetStatus(d, w)
  /\ UNCHANGED asked \/ Ask(d)
  /\ UNCHANGED <<poolVars, connected, voteOnly, counters, kpc, ksock, ioVars, choreVars, crossed>>

\* The end of start(), if it ever comes to it.
VisitEnds(d) ==
  /\ iopc = "inside" /\ d = visited[2] /\ iopc' = "out"
  /\ SetStatus(d, "ONLINE_IDLE")
  /\ UNCHANGED <<poolVars, connected, voteOnly, counters, kpc, ksock, asked, resetVars,
                 visited, entered, choreVars, crossed>>

Visit(d) == OnRestartLuaEnd(d) \/ VisitConnect(d) \/ VisitWork(d) \/ VisitEnds(d)

-----------------------------------------------------------------------------
KGoto(s, from, to) == kpc[s] = from /\ kpc' = [kpc EXCEPT ![s] = to]

\* a_session::start, as for a vote session.
KFindConnection(s) ==
  /\ KGoto(s, "start", IF Phone(s) \in connected THEN "begin" ELSE "none")
  /\ UNCHANGED <<vars, ksock, asked, ioVars, choreVars, crossed>>

KConnect(s) ==
  /\ kpc[s] = "begin"
  /\ SetStatus(Phone(s), "TASK_BEGIN")
  /\ \/ KGoto(s, "begin", "loop") /\ ksock' = [ksock EXCEPT ![s] = "open"]
        /\ UNCHANGED asked
     \/ "connect" \in Faults /\ KGoto(s, "begin", "restart") /\ Ask(Phone(s))
        /\ UNCHANGED ksock
  /\ UNCHANGED <<poolVars, connected, voteOnly, counters, ioVars, choreVars, crossed>>

\* The restart timer runs out, or the app's answer cancels it.
KRestartTimeout(s) ==
  /\ KGoto(s, "restart", "finish")
  /\ UNCHANGED <<vars, ksock, asked, ioVars, choreVars, crossed>>

\* Mutant of KFinish: the device is not set idle.
KFinishKeepsStatus(s) ==
  /\ KGoto(s, "finish", "none")
  /\ ksock' = [ksock EXCEPT ![s] = "closed"]
  /\ UNCHANGED <<poolVars, deviceVars, voteOnly, counters, asked, ioVars, choreVars, crossed>>

KFinish(s) ==
  /\ KGoto(s, "finish", "none")
  /\ SetStatus(Phone(s), "ONLINE_IDLE")
  /\ ksock' = [ksock EXCEPT ![s] = "closed"]
  /\ UNCHANGED <<poolVars, connected, voteOnly, counters, asked, ioVars, choreVars, crossed>>

\* keep_wx_account_session::on_connected.
KFindAccount(s) ==
  /\ KGoto(s, "loop", "found") /\ Lookup(Daily(s), NotDaily)
  /\ UNCHANGED <<deviceVars, voteOnly, counters, ksock, asked, ioVars, choreVars, crossed>>

KNoAccountLeft(s) ==
  /\ KGoto(s, "loop", "finish") /\ NoneIdle(NotDaily)
  /\ UNCHANGED <<vars, ksock, asked, ioVars, choreVars, crossed>>

KTakeAccount(s) ==
  /\ KGoto(s, "found", "mark")
  /\ TakeValid(Daily(s)) \/ TakeDangling(Daily(s))
  /\ UNCHANGED <<deviceVars, voteOnly, counters, ksock, asked, ioVars, choreVars, crossed>>

KSendCommands(s) ==
  /\ kpc[s] = "mark"
  /\ SetStatus(Phone(s), "DAILY_TASK")
  /\ \/ ksock[s] # "closed" /\ KGoto(s, "mark", "read") /\ UNCHANGED poolVars
     \/ /\ ksock[s] # "open" \/ "write" \in Faults
        /\ KGoto(s, "mark", "loop") /\ Forget(Daily(s))
  /\ UNCHANGED <<connected, voteOnly, counters, ksock, asked, ioVars, choreVars, crossed>>

-----------------------------------------------------------------------------
\* keep_wx_account_session::handle_read.
Chore(a) == chores' = [chores EXCEPT ![a] = IF @ < 2 THEN @ + 1 ELSE 2]

\* All daily sessions write their answers to one static stringstream, without a
\* lock, and read them back from it: beside another session one may read an
\* answer that is not its own.  One that finds no JSON there ends the process.
Mixed(s) == \E r \in KSessions \ {s} : kpc[r] # "none"

KReplySuccess(s) ==
  /\ KGoto(s, "read", "settle")
  /\ SetFlag("daily", held[Daily(s)])
  /\ Chore(held[Daily(s)]) \/ (Mixed(s) /\ UNCHANGED chores)
  /\ UNCHANGED <<deviceVars, voteOnly, counters, ksock, asked, ioVars, misread, crossed>>

KReplyAbnormal(s) ==
  /\ KGoto(s, "read", "settle")
  /\ SetFlag("abnormal", held[Daily(s)])
  /\ UNCHANGED chores \/ (Mixed(s) /\ Chore(held[Daily(s)]))
  /\ UNCHANGED <<deviceVars, voteOnly, counters, ksock, asked, ioVars, misread, crossed>>

KReplyRefused(s) ==
  /\ KGoto(s, "read", "settle")
  /\ refusals < MaxRefusals /\ refusals' = refusals + 1
  /\ \/ UNCHANGED choreVars
     \/ Mixed(s) /\ Chore(held[Daily(s)]) /\ misread' = misread \cup {held[Daily(s)]}
  /\ UNCHANGED <<poolVars, deviceVars, voteOnly, restarts, ksock, asked, ioVars, crossed>>

KSetIdleAccount(s) ==
  /\ KGoto(s, "settle", "end") /\ SetIdle(Daily(s))
  /\ UNCHANGED <<deviceVars, voteOnly, counters, ksock, asked, ioVars, choreVars, crossed>>

\* Mutant of KReadFailed: the account is given back although its task's fate is
\* unknown.
KReadFailedGivesBack(s) ==
  /\ KGoto(s, "read", "end")
  /\ ksock[s] = "closed" /\ SetIdle(Daily(s))
  /\ UNCHANGED chores \/ Chore(held[Daily(s)])
  /\ UNCHANGED <<deviceVars, voteOnly, counters, ksock, asked, ioVars, misread, crossed>>

KReadFailed(s) ==
  /\ KGoto(s, "read", "end")
  /\ \/ ksock[s] = "closed" /\ UNCHANGED ksock
     \/ "eof" \in Faults /\ ksock[s] # "closed" /\ ksock' = [ksock EXCEPT ![s] = "half"]
  /\ Forget(Daily(s))
  /\ UNCHANGED chores \/ Chore(held[Daily(s)])
  /\ UNCHANGED <<deviceVars, voteOnly, counters, asked, ioVars, misread, crossed>>

\* on_read_timeout: the socket is closed and the phone told to start again.
CloseLate(s) ==
  /\ "timeout" \in Faults /\ ksock[s] # "closed"
  /\ ksock' = [ksock EXCEPT ![s] = "closed"] /\ Ask(Phone(s))

KOnReadTimeout(s) ==
  /\ kpc[s] = "read" /\ CloseLate(s)
  /\ UNCHANGED <<vars, kpc, ioVars, choreVars, crossed>>

\* Mutant of KEnd: the phone is idle after each account.
KEndSetsIdle(s) ==
  /\ KGoto(s, "end", "loop")
  /\ SetStatus(Phone(s), "ONLINE_IDLE")
  /\ UNCHANGED <<poolVars, connected, voteOnly, counters, ksock, asked, ioVars, choreVars, crossed>>

\* A timer that had expired before handle_read cancelled it fires behind it.
KEnd(s) ==
  /\ KGoto(s, "end", "loop")
  /\ SetStatus(Phone(s), "DAILY_TASK_END")
  /\ CloseLate(s) \/ UNCHANGED <<ksock, asked>>
  /\ UNCHANGED <<poolVars, connected, voteOnly, counters, ioVars, choreVars, crossed>>
-----------------------------------------------------------------------------
\* The vote task's steps beside the daily sessions: its thread and its sessions
\* take no notice of them, the phones' coming and going waits for the IO thread.
KSpawnSessions ==
  /\ SpawnSessions /\ Cross({d \in IdlePhones : InGap(d)})
  /\ UNCHANGED <<kpc, ksock, asked, ioVars, choreVars>>

KPhoneConnects(d) ==
  /\ IoFree /\ PhoneConnects(d)
  /\ Cross(IF SessionsOn(d) > 0 THEN {d} ELSE {})
  /\ UNCHANGED <<kpc, ksock, asked, ioVars, choreVars>>

KPhoneLeaves(d) ==
  /\ IoFree /\ PhoneLeaves(d)
  /\ asked' = asked \ {d}
  /\ UNCHANGED <<kpc, ksock, ioVars, choreVars, crossed>>

\* The phones a step of the vote sessions tells to start their script again:
\* connecting failed or on_read_timeout closed the socket.
VoteAsked ==
  {d \in connected :
     \/ pc[d] = "begin" /\ pc'[d] = "restart"
     \/ pc[d] \in {"read", "end"} /\ sock[d] # "closed" /\ sock'[d] = "closed"}

VoteStep ==
  /\ (\E t \in Targets : StartTask(t)) \/ JoinSessions \/ \E d \in Devices : SessionStep(d)
  /\ asked' = asked \cup VoteAsked
  /\ UNCHANGED <<kpc, ksock, ioVars, choreVars, crossed>>

\* The process dies and is started again, by itself too: a daily session's
\* answer that is no JSON is an exception that nothing catches.
KRestart ==
  /\ Restart
  /\ kpc' = [s \in KSessions |-> "none"] /\ ksock' = [s \in KSessions |-> "closed"]
  /\ resetDue' = TRUE /\ resetting' = {} /\ crossed' = {} /\ asked' = {}
  /\ iopc' = "out" /\ entered' = FALSE
  /\ UNCHANGED <<visited, choreVars>>

KInit ==
  /\ Init
  /\ kpc = [s \in KSessions |-> "none"] /\ ksock = [s \in KSessions |-> "closed"]
  /\ resetDue = TRUE /\ resetting = {}
  /\ chores = [a \in Accounts |-> IF a \in table["daily"] THEN 1 ELSE 0]
  /\ misread = {} /\ crossed = {} /\ asked = {}
  /\ iopc = "out" /\ visited \in {Session(d) : d \in Devices} /\ entered = FALSE

KHandleRead(s) ==
  KReplySuccess(s) \/ KReplyAbnormal(s) \/ KReplyRefused(s) \/ KReadFailed(s)

KSessionStep(s) ==
  \/ KFindConnection(s) \/ KConnect(s) \/ KRestartTimeout(s) \/ KFinish(s)
  \/ KFindAccount(s) \/ KNoAccountLeft(s) \/ KTakeAccount(s) \/ KSendCommands(s)
  \/ KHandleRead(s) \/ KOnReadTimeout(s) \/ KSetIdleAccount(s) \/ KEnd(s)

KNext ==
  \/ DoTask \/ ResetTask \/ \E a \in Accounts : ResetOne(a)
  \/ \E s \in KSessions : KSessionStep(s)
  \/ KSpawnSessions \/ VoteStep
  \/ \E d \in Devices : KPhoneConnects(d) \/ KPhoneLeaves(d) \/ Visit(d)
  \/ KRestart

KSpec == KInit /\ [][KNext]_kvars

\* The session threads are scheduled, each moves on as long as it can, and the IO
\* thread goes on with a reset; how long it stays in a session nobody promises.
KFairness ==
  /\ \A s \in KSessions : WF_kpc(kpc[s] # "none" /\ KSessionStep(s))
  /\ \A a \in Accounts : WF_kvars(ResetOne(a))

KFairSpec == KSpec /\ KFairness

-----------------------------------------------------------------------------
KTypeOK ==
  /\ TypeOK
  /\ kpc \in [KSessions -> KLocations]
  /\ ksock \in [KSessions -> {"open", "half", "closed"}]
  /\ resetDue \in BOOLEAN /\ resetting \in SUBSET Accounts
  /\ asked \in SUBSET Devices /\ iopc \in {"out", "begin", "inside"}
  /\ visited \in Names /\ entered \in BOOLEAN
  /\ chores \in [Accounts -> 0..2] /\ misread \in SUBSET Accounts
  /\ crossed \in SUBSET Devices

KHolding == {"mark", "read", "settle"}

\* What a daily session has of the pool, beside what a vote session has: the
\* two kinds never hold one account, on one phone or on two.
KeepInv ==
  /\ KTypeOK
  /\ ~entered =>
        /\ PoolInv /\ SessionInv
        /\ \A s \in KSessions :
              /\ itor[Daily(s)] # NoAccount <=> kpc[s] = "found"
              /\ held[Daily(s)] # NoAccount <=> kpc[s] \in KHolding

\* Between two resets an account's daily task is done once, whichever sessions
\* and threads run it, reset it or vote with it meanwhile: it is given to a
\* session again only if the phone said that it failed, or if the answer that
\* said it was done came out of the shared stream as another phone's failure.
ChoreOnce ==
  ~ub /\ restarts = 0 /\ ~entered =>
     \A a \in Accounts : chores[a] <= 1 \/ a \in misread

\* A status that says idle is trusted in vain in three cases only: a phone is
\* given to a second session if it called in again during the first, if the
\* first had not yet come to mark it busy, or if on_restart_lua_end marked it
\* idle under a session that went on.
SecondSessionNeedsRace ==
  \A d \in Devices : SessionsOn(d) > 1 => d \in crossed

\* A phone that is connected and that no session of either kind and no visit of
\* the IO thread uses is idle: whoever ends last leaves it to the next task.
LastSessionFreesPhone ==
  \A d \in connected :
     SessionsOn(d) = 0 /\ ~(iopc # "out" /\ visited[2] = d) => status[d] = "ONLINE_IDLE"

\* A daily session ends, though nobody joins it: the phones refuse no more
\* than MaxRefusals times, and every other end of a read uses up an account.
\* Once the IO thread has been in a session that is not so: one of two threads
\* in an io_service may stay there for ever.
KeepEnds == \A s \in KSessions : kpc[s] # "none" ~> kpc[s] = "none" \/ entered

\* Daily and vote sessions together use the pool as AccountPool allows, until
\* the IO thread enters one of them.
KImplementsPool == PoolInit /\ [][entered \/ PoolNext]_poolVars
=============================================================================
