------------------------------ MODULE VoteTask ------------------------------
(***************************************************************************)
(* One vote task at a time: the work-queue thread runs wx_vote::do_task,   *)
(* which starts a session thread per idle device and joins them; the       *)
(* sessions (a_session, wx_vote_session) take accounts and have the phones *)
(* vote; the IO thread changes device statuses as phones come and go.      *)
(* A session's io_service is private to its thread, so its handlers are    *)
(* steps of that thread.  The phone's answer to restart_lua, which starts  *)
(* the session again on the IO thread, is not in this module.              *)
(***************************************************************************)
EXTENDS AccountPool, DeviceMgr

CONSTANTS
  Targets,       \* the values of votes_cnt a task may have
  Faults,        \* what may go wrong, a subset of FaultKinds
  MaxRefusals,   \* bound: refused votes that leave the account usable
  MaxRestarts    \* bound: how often the process is started again

\* "stream": the answers of all sessions go through one static stringstream
\* without a lock, so a session may read another answer than its own.
FaultKinds == {"connect", "write", "eof", "garbled", "timeout", "logout",
               "refused", "phone", "stream"}

Session(d) == <<"vote", d>>

ASSUME VoteAssumption ==
  /\ IsFiniteSet(Devices)
  /\ {Session(d) : d \in Devices} \subseteq Holders
  /\ Targets \subseteq Nat
  /\ Faults \subseteq FaultKinds
  /\ MaxRefusals \in Nat /\ MaxRestarts \in Nat

VARIABLES
  phase,           \* of do_task: "none", "spawn", "join"
  target,          \* wx_vote::target_count
  success,         \* wx_vote::success_count
  result,          \* what the last do_task left in result
  pc,              \* where each device's session is; "none" without a thread
  sock,            \* the script socket: "open", "half" (peer closed), "closed"
  votedBefore,     \* history: the accounts already marked voted at task start
  ballots,         \* history: votes each account cast on its phone, capped at 2
  refusals, restarts   \* the two bounded counters

taskVars == <<phase, target, success, result>>
sessionVars == <<pc, sock>>
envVars == <<votedBefore, ballots, refusals, restarts>>
vars == <<poolVars, deviceVars, taskVars, sessionVars, envVars>>

NoResult == [code |-> 0, count |-> 0]
Result(code, count) == [code |-> code, count |-> count]
Locations == {"none", "start", "begin", "restart", "loop", "found", "wait", "need",
              "mark", "read", "voted", "settle", "end", "finish", "done"}
Live(d) == pc[d] \notin {"none", "done"}

-----------------------------------------------------------------------------
Goto(d, location) == pc' = [pc EXCEPT ![d] = location]

Voting == GetStatusCount("WX_VOTING")

\* wx_vote::do_task, first part: too few idle accounts, or the task goes on.
StartTask(t) ==
  /\ phase = "none"
  /\ target' = t /\ success' = 0
  /\ votedBefore' = accounts_pro["voted"]
  /\ \/ IdleNotVoteCount < t /\ result' = Result(-1, 0) /\ UNCHANGED phase
     \/ IdleNotVoteCount >= t /\ phase' = "spawn" /\ UNCHANGED result
  /\ UNCHANGED <<poolVars, deviceVars, sessionVars, ballots, refusals, restarts>>

\* The loop over the copy of the device map: one thread per idle device.
SpawnSessions ==
  /\ phase = "spawn" /\ phase' = "join"
  /\ pc' = [d \in Devices |->
              IF status[d] = "ONLINE_IDLE" THEN "start" ELSE "none"]
  /\ UNCHANGED <<poolVars, deviceVars, target, success, result, sock, envVars>>

\* threads.join_all() returns and the result is formatted.
JoinSessions ==
  /\ phase = "join" /\ \A d \in Devices : ~Live(d)
  /\ phase' = "none"
  /\ pc' = [d \in Devices |-> "none"]
  /\ result' = Result(0, success)
  /\ success' = 0
  /\ UNCHANGED <<poolVars, deviceVars, target, sock, envVars>>

-----------------------------------------------------------------------------
\* a_session::start: without a phone connection the thread just ends.
FindConnection(d) ==
  /\ pc[d] = "start"
  /\ Goto(d, IF d \in connected THEN "begin" ELSE "done")
  /\ UNCHANGED <<poolVars, deviceVars, taskVars, sock, envVars>>

Connect(d) ==
  /\ pc[d] = "begin"
  /\ SetStatus(d, "TASK_BEGIN")
  /\ \/ Goto(d, "loop") /\ sock' = [sock EXCEPT ![d] = "open"]
     \/ "connect" \in Faults /\ Goto(d, "restart") /\ UNCHANGED sock
  /\ UNCHANGED <<poolVars, connected, taskVars, envVars>>

\* The restart timer of a session that could not connect expires.
RestartTimeout(d) ==
  /\ pc[d] = "restart" /\ Goto(d, "finish")
  /\ UNCHANGED <<poolVars, deviceVars, taskVars, sock, envVars>>

\* Mutant of Finish: the device is not set idle.
FinishKeepsStatus(d) ==
  /\ pc[d] = "finish" /\ Goto(d, "done")
  /\ sock' = [sock EXCEPT ![d] = "closed"]
  /\ UNCHANGED <<poolVars, deviceVars, taskVars, envVars>>

\* The session is over: its socket is closed and its device marked idle.
Finish(d) ==
  /\ pc[d] = "finish" /\ Goto(d, "done")
  /\ SetStatus(d, "ONLINE_IDLE")
  /\ sock' = [sock EXCEPT ![d] = "closed"]
  /\ UNCHANGED <<poolVars, connected, taskVars, envVars>>

-----------------------------------------------------------------------------
\* wx_vote_session::on_connected: the condition of its outer loop.
FindAccount(d) ==
  /\ pc[d] = "loop"
  /\ Lookup(Session(d), NotVoted) /\ Goto(d, "found")
  /\ UNCHANGED <<deviceVars, taskVars, sock, envVars>>

NoAccountLeft(d) ==
  /\ pc[d] = "loop" /\ NoneIdle(NotVoted) /\ Goto(d, "finish")
  /\ UNCHANGED <<poolVars, deviceVars, taskVars, sock, envVars>>

TakeAccount(d) ==
  /\ pc[d] = "found" /\ Goto(d, "wait")
  /\ TakeValid(Session(d)) \/ TakeDangling(Session(d))
  /\ UNCHANGED <<deviceVars, taskVars, sock, envVars>>

\* Mutant of NeedWait: off by one.
NeedWaitOneMore == success + Voting = target + 1

\* need_wait_vote: as many votes counted or under way as are wanted.
NeedWait == success + Voting = target

NeedWaitVote(d) ==
  /\ pc[d] = "wait" /\ Goto(d, IF NeedWait THEN "need" ELSE "mark")
  /\ UNCHANGED <<poolVars, deviceVars, taskVars, sock, envVars>>

\* need_vote, called while waiting: sleep and ask again, or leave the session
\* with the account still checked out.
NeedVote(d) ==
  /\ pc[d] = "need"
  /\ \/ target > success /\ Goto(d, "wait") /\ UNCHANGED poolVars
     \/ target <= success /\ Goto(d, "finish") /\ Forget(Session(d))
  /\ UNCHANGED <<deviceVars, taskVars, sock, envVars>>

\* The device is marked voting and the commands are written to the phone.  A
\* failed write ends the iteration: mark and account stay as they are.
SendCommands(d) ==
  /\ pc[d] = "mark"
  /\ SetStatus(d, "WX_VOTING")
  /\ \/ sock[d] # "closed" /\ Goto(d, "read") /\ UNCHANGED poolVars
     \/ /\ sock[d] # "open" \/ "write" \in Faults
        /\ Goto(d, "loop") /\ Forget(Session(d))
  /\ UNCHANGED <<connected, taskVars, sock, envVars>>


-----------------------------------------------------------------------------
\* handle_read: what the phone answered, or how the read failed.  A ballot is
\* cast when the phone says so, and may have been when no answer is understood.
Cast(a) == ballots' = [ballots EXCEPT ![a] = IF @ < 2 THEN @ + 1 ELSE 2]
Uncast == UNCHANGED ballots

\* result is 0: the account is marked voted, then the vote is counted.
ReplySuccess(d) ==
  /\ pc[d] = "read" /\ Goto(d, "voted")
  /\ SetFlag("voted", held[Session(d)])
  /\ Cast(held[Session(d)]) \/ ("stream" \in Faults /\ Uncast)
  /\ UNCHANGED <<deviceVars, taskVars, sock, votedBefore, refusals, restarts>>

AddSucCount(d) ==
  /\ pc[d] = "voted" /\ Goto(d, "settle")
  /\ success' = success + 1
  /\ UNCHANGED <<poolVars, deviceVars, phase, target, result, sock, envVars>>

\* The log-in failed with one of the five messages about the account.
ReplyAbnormal(d) ==
  /\ pc[d] = "read" /\ Goto(d, "settle")
  /\ SetFlag("abnormal", held[Session(d)])
  /\ Uncast \/ ("stream" \in Faults /\ Cast(held[Session(d)]))
  /\ UNCHANGED <<deviceVars, taskVars, sock, votedBefore, refusals, restarts>>

\* Mutant of ReplyRefused: a refusal takes the way of a success.
ReplyRefusedCounts(d) ==
  /\ pc[d] = "read" /\ Goto(d, "voted")
  /\ refusals < MaxRefusals /\ refusals' = refusals + 1
  /\ UNCHANGED <<poolVars, deviceVars, taskVars, sock, votedBefore, ballots, restarts>>

\* Any other failure says nothing of the account, also the failure of a command
\* that comes after the vote.
ReplyRefused(d) ==
  /\ pc[d] = "read" /\ Goto(d, "settle")
  /\ refusals < MaxRefusals /\ refusals' = refusals + 1
  /\ \/ "refused" \in Faults /\ Uncast
     \/ Faults \cap {"logout", "stream"} # {} /\ Cast(held[Session(d)])
  /\ UNCHANGED <<poolVars, deviceVars, taskVars, sock, votedBefore, restarts>>

\* set_idle_account at the end of an answer that was understood.
SetIdleAccount(d) ==
  /\ pc[d] = "settle" /\ Goto(d, "end")
  /\ SetIdle(Session(d))
  /\ UNCHANGED <<deviceVars, taskVars, sock, envVars>>

\* The answer is no JSON, or what an unreadable one before it left in the
\* stream: caught, and the account is not given back.
ReplyGarbled(d) ==
  /\ pc[d] = "read" /\ Faults \cap {"garbled", "stream"} # {} /\ Goto(d, "end")
  /\ Forget(Session(d))
  /\ Uncast \/ Cast(held[Session(d)])
  /\ UNCHANGED <<deviceVars, taskVars, sock, votedBefore, refusals, restarts>>

\* Mutant of ReadFailed: the account is given back although its vote is unknown.
ReadFailedGivesBack(d) ==
  /\ pc[d] = "read" /\ sock[d] = "closed" /\ Goto(d, "end")
  /\ SetIdle(Session(d))
  /\ Uncast \/ Cast(held[Session(d)])
  /\ UNCHANGED <<deviceVars, taskVars, sock, votedBefore, refusals, restarts>>

\* The read fails: the peer closed, or on_read_timeout closed the socket.
ReadFailed(d) ==
  /\ pc[d] = "read" /\ Goto(d, "end")
  /\ \/ sock[d] = "closed" /\ UNCHANGED sock
     \/ "eof" \in Faults /\ sock[d] # "closed" /\ sock' = [sock EXCEPT ![d] = "half"]
  /\ Forget(Session(d))
  /\ Uncast \/ Cast(held[Session(d)])
  /\ UNCHANGED <<deviceVars, taskVars, votedBefore, refusals, restarts>>

\* The read timer fires.  A read that completed just before is delivered all
\* the same, so the answers above are still possible.
OnReadTimeout(d) ==
  /\ pc[d] = "read" /\ "timeout" \in Faults /\ sock[d] # "closed"
  /\ sock' = [sock EXCEPT ![d] = "closed"]
  /\ UNCHANGED <<poolVars, deviceVars, taskVars, pc, envVars>>

\* Mutant of VoteEnd: the device is still counted as voting.
VoteEndKeepsStatus(d) ==
  /\ pc[d] = "end" /\ Goto(d, "loop")
  /\ UNCHANGED <<poolVars, deviceVars, taskVars, sock, envVars>>

\* The last line of handle_read.  A timer that had expired by then is no longer
\* cancelled: it closes the socket behind the answer.
VoteEnd(d) ==
  /\ pc[d] = "end" /\ Goto(d, "loop")
  /\ SetStatus(d, "WX_VOTE_END")
  /\ sock' \in {sock} \cup
       (IF "timeout" \in Faults THEN {[sock EXCEPT ![d] = "closed"]} ELSE {})
  /\ UNCHANGED <<poolVars, connected, taskVars, envVars>>

-----------------------------------------------------------------------------
PhoneConnects(d) ==
  /\ PhoneStart(d)
  /\ UNCHANGED <<poolVars, taskVars, sessionVars, envVars>>

PhoneLeaves(d) ==
  /\ "phone" \in Faults /\ PhoneStop(d)
  /\ UNCHANGED <<poolVars, taskVars, sessionVars, envVars>>

\* Mutant of Restart: the accounts are not read again.
RestartWithoutLoad ==
  /\ restarts < MaxRestarts /\ restarts' = restarts + 1
  /\ itor' = [h \in Holders |-> NoAccount] /\ held' = [h \in Holders |-> NoAccount]
  /\ dangling' = {} /\ ub' = FALSE
  /\ status' = [d \in Devices |-> "OFFLINE"] /\ connected' = {}
  /\ phase' = "none" /\ success' = 0 /\ result' = NoResult
  /\ pc' = [d \in Devices |-> "none"] /\ sock' = [d \in Devices |-> "closed"]
  /\ votedBefore' = accounts_pro["voted"]
  /\ UNCHANGED <<idle, accounts_pro, table, target, ballots, refusals>>

\* The process dies, by itself or killed, and is started again.
Restart ==
  /\ restarts < MaxRestarts /\ restarts' = restarts + 1
  /\ Load
  /\ status' = [d \in Devices |-> "OFFLINE"] /\ connected' = {}
  /\ phase' = "none" /\ success' = 0 /\ result' = NoResult
  /\ pc' = [d \in Devices |-> "none"]
  /\ sock' = [d \in Devices |-> "closed"]
  /\ votedBefore' = table["voted"]
  /\ UNCHANGED <<target, ballots, refusals>>

Init ==
  /\ PoolInit
  /\ DeviceInit
  /\ phase = "none" /\ target = 0 /\ success = 0 /\ result = NoResult
  /\ pc = [d \in Devices |-> "none"]
  /\ sock = [d \in Devices |-> "closed"]
  /\ votedBefore = table["voted"]
  /\ ballots = [a \in Accounts |-> IF a \in table["voted"] THEN 1 ELSE 0]
  /\ refusals = 0 /\ restarts = 0

Task == (\E t \in Targets : StartTask(t)) \/ SpawnSessions \/ JoinSessions

\* The read ends one way or another: the phone answers or the timer expires.
HandleRead(d) ==
  \/ ReplySuccess(d) \/ ReplyAbnormal(d) \/ ReplyRefused(d)
  \/ ReplyGarbled(d) \/ ReadFailed(d)

SessionStep(d) ==
  \/ FindConnection(d) \/ Connect(d) \/ RestartTimeout(d) \/ Finish(d)
  \/ FindAccount(d) \/ NoAccountLeft(d) \/ TakeAccount(d)
  \/ NeedWaitVote(d) \/ NeedVote(d) \/ SendCommands(d)
  \/ HandleRead(d) \/ OnReadTimeout(d)
  \/ AddSucCount(d) \/ SetIdleAccount(d) \/ VoteEnd(d)

Next ==
  \/ Task
  \/ \E d \in Devices : SessionStep(d) \/ PhoneConnects(d) \/ PhoneLeaves(d)
  \/ Restart

Spec == Init /\ [][Next]_vars

\* Threads are scheduled: the work-queue thread goes through the task it has
\* begun and every session thread goes on.  That the read ends is due to
\* read_timer_.  Nothing makes a schedule send tasks or a phone connect.
Fairness ==
  /\ WF_vars(SpawnSessions) /\ WF_vars(JoinSessions)
  /\ \A d \in Devices : WF_vars(SessionStep(d))

FairSpec == Spec /\ Fairness

-----------------------------------------------------------------------------
TypeOK ==
  /\ PoolTypeOK /\ DeviceTypeOK
  /\ phase \in {"none", "spawn", "join"}
  /\ target \in Nat /\ success \in Nat
  /\ result \in [code : {0, -1}, count : Nat]
  /\ pc \in [Devices -> Locations]
  /\ sock \in [Devices -> {"open", "half", "closed"}]
  /\ votedBefore \in SUBSET Accounts
  /\ ballots \in [Accounts -> 0..2]
  /\ refusals \in Nat /\ restarts \in Nat

Unanswered == {"wait", "need", "mark", "read"}
Holding == Unanswered \cup {"voted", "settle"}

\* Where a session is tells what it has of the pool.
SessionInv ==
  /\ phase # "join" => \A d \in Devices : pc[d] = "none"
  /\ \A d \in Devices :
        /\ itor[Session(d)] # NoAccount <=> pc[d] = "found"
        /\ held[Session(d)] # NoAccount <=> pc[d] \in Holding

\* Nobody else votes with the account a session has found or taken.
Unvoted ==
  ~ub => \A d \in Devices :
            /\ pc[d] = "found" /\ Session(d) \notin dangling =>
                  itor[Session(d)] \notin accounts_pro["voted"]
            /\ pc[d] \in Unanswered => held[Session(d)] \notin accounts_pro["voted"]

\* The invariant the other properties rest on: what each session has, from the
\* pool's exclusive checkout to the vote it has not cast yet.
VoteInv == TypeOK /\ PoolInv /\ SessionInv /\ Unvoted

NewlyVoted == accounts_pro["voted"] \ votedBefore
Uncounted == {d \in Devices : pc[d] = "voted"}

\* No vote is lost or counted twice on the way from set_vote_status to the
\* reported "success count", which three threads work on without one lock: the
\* accounts marked during the task are those counted or about to be counted.
VotesCounted ==
  ~ub => /\ success + Cardinality(Uncounted)
              = (IF phase = "none" THEN 0 ELSE Cardinality(NewlyVoted))
         /\ phase = "none" => result.count = Cardinality(NewlyVoted)

\* An account votes once for one url: the mark is set before the account is
\* idle again, and an account whose fate is unknown is never idle again.  Only
\* a failure after the vote (log-out), an answer that was another phone's or a
\* restart can make it vote again.
NoDoubleBallot ==
  ~ub /\ restarts = 0 /\ Faults \cap {"logout", "stream"} = {}
     => \A a \in Accounts : ballots[a] <= 1

\* WX_VOTING, which need_wait_vote counts, is set by a session that still runs
\* and has looked at the target: no mark survives its session.
VotingBelongsToSession ==
  \A d \in Devices :
     status[d] = "WX_VOTING" => pc[d] \notin {"none", "start", "restart", "done"}

\* The database never has a vote that memory has not, so a restart forgets
\* votes but makes none up.
DbBehindMemory == table["voted"] \subseteq accounts_pro["voted"]

\* No session can go on: every live session polls the target, which is short
\* by exactly the phones marked voting.
Standstill ==
  /\ phase = "join"
  /\ \E d \in Devices : Live(d)
  /\ \A d \in Devices : Live(d) => pc[d] \in {"wait", "need"}
  /\ NeedWait /\ success < target

\* A task stands still only on a mark of a session's own: some polling session
\* waits for its own device, which a failed write left at WX_VOTING.
StandstillHasStaleMark ==
  Standstill => \E d \in Devices : pc[d] \in {"wait", "need"} /\ status[d] = "WX_VOTING"

\* The target is not exceeded by a task that started a single session, whatever
\* other phones do and were left at: need_wait_vote and the mark that follows
\* it are a check and an act, which only another session can race.
OnePhoneMeetsTarget ==
  phase = "join" /\ Cardinality({d \in Devices : pc[d] # "none"}) = 1
     => success <= target

\* Every task that has started its sessions is reported, if no write or read
\* fails: the sessions waiting for each other's votes go on or leave.
TaskReturns == phase = "join" ~> phase = "none"

\* The pool the sessions work on is the pool that AccountPool promises.
ImplementsPool == PoolSpec

-----------------------------------------------------------------------------
\* wx_vote.cpp:29, "There's no too many accounts.": a task is turned down only
\* when too few accounts are left that have not voted.
RejectMeansTooFewAccounts ==
  [][result'.code = -1 /\ result.code = 0 => Cardinality(NotVoted) < target']_vars
=============================================================================
