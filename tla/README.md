# A TLA+ model of schedule_center

`schedule_center` (the program `mpsp`) drives a shelf of phones.  A *schedule*
(a client on TCP) sends vote tasks; the program has the phones that are
connected to it vote with WeChat accounts that it keeps in a MySQL database, and
once a day it has the phones go through the accounts to keep them alive.  This
directory specifies its concurrent core in TLA+, checks it with TLC on small
instances and proves the main invariants with TLAPS for all instances.

Paths below are relative to the repository: `common/` is `src/src/common/`,
`wx/` is `src/src/wx/`, headers are in `src/inc/`.

## 1. The system

| Component | State | Operations | Talks to |
|---|---|---|---|
| `main` (`mpsp/main.cpp`) | instance lock (a named message queue) | load, start, run the io_service | everything at start |
| `main_task` | acceptors, the connection about to be accepted | accept loops, `start_others` after 20 s, work-queue loop, `handle_stop` | both pools, `tasks_mgr`, `wx_vote`, `keep_wx_account_task` |
| `task_processor`, `task.hpp` | the io_service and its timers | `push_task`, `run_at`, `run_after` | - |
| `tasks_mgr` (not in the repository) | table `tasks_info`, a `work_queue` | `init`, `add_task`, `set_result`, `set_status`, `get_result` | `schedule_connection`, `main_task` |
| `work_queue<T>` | deque, mutex, condition variable, stop flag | `push_task`, `pop_task`, `stop`, `clear` | - |
| `sche_conn_pool`, `schedule_connection` | the connected schedule, sockets | `start`, `stop`, `stop_all`, `handle_read`, `on_read` | `tasks_mgr` |
| `pho_conn_pool`, `phone_connection` | connections by ip, sockets, a signal | `start`, `stop`, `stop_all`, `find_connection`, `handle_read`, `restart_lua` | `device_mgr`, sessions |
| `device_mgr` | status of each ip, copy in the database | `init`, `set_status`, `get_status_count` | - |
| `wx_account_mgr` | idle list, account properties, rwmutex, copy in the database | the two lookups, `set_idle_account`, the flags, `load_data` | - |
| `wx_vote` | target and success count | `do_task`, `need_vote`, `need_wait_vote`, `add_suc_count` | `device_mgr`, `wx_account_mgr`, sessions |
| `a_session`, `wx_vote_session` | a socket and a private io_service with two timers | `start`, `on_connected`, `handle_read`, timeouts | all managers, the phone's script |
| `keep_wx_account_task`, `keep_wx_account_session` | timers | daily reset, hourly task, a session per idle phone | the same |
| `config_mgr` | a parsed JSON file | `init`, lookups | - |

### Threads and what they share

* The **IO thread** runs `task_processor`'s io_service: accepts, reads of
  phones and schedules, timers.  Its handlers do not overlap.  What a socket
  handler throws ends the process; what a task or timer throws is caught
  (`task.hpp:39`).
* The **work-queue thread** (`main_task.cpp:119`) does one task at a time.
* A vote task starts one **session thread** per idle phone and joins them; a
  daily task starts them and does not wait.  A session runs its own io_service,
  so its handlers are steps of its thread.

They share the account lists (read-write lock), the device map (read-write
lock), the success count (read-write lock), the work queue (mutex), the phone
pool (no lock) and the database.  The hard part is what happens between two
critical sections: `get_idle_not_vote_account` finds an entry under a read lock
and erases it under a later write lock; `need_wait_vote` counts and the session
marks itself voting afterwards; result and status of a task are stored one after
the other; the notification of the work queue comes after the unlock.

## 2. The modules

| Module | Models | Of |
|---|---|---|
| `AccountPool` | the idle list, the two-step checkout with its dangling iterator, flags in memory and database, loading | `wx_account_mgr` |
| `AccountLock` | the same calls as operations on the lock | `wx_account_mgr`, `boost::shared_mutex` |
| `DeviceMgr` | the status map and which phones are connected | `device_mgr`, seen from the sessions |
| `VoteTask` | a task, its sessions, the phones, restarts; extends `AccountPool` and `DeviceMgr` | `wx_vote`, `a_session`, `wx_vote_session` |
| `KeepTask` | the daily sessions and the reset beside the vote sessions, the statuses of the app's answer; extends `VoteTask` | `keep_wx_account_task`, `keep_wx_account_session`, `on_restart_lua_end` |
| `ScriptCalls` | what a session relies on when the script works on an account | abstract |
| `RestartLua` | two threads in one session: its io_service, timers and reads, and the app's answer on the IO thread | `a_session`, `on_read_timeout`, `on_restart_lua_end`, `phone_connection::restart_lua` |
| `Connections` | sockets, reads and late handlers, the pool as a set | what both connection classes share |
| `PhonePool` | one connection per phone and its status | `pho_conn_pool`, `phone_connection`, accept loop |
| `SchePool` | one schedule at a time | `sche_conn_pool`, `schedule_connection` |
| `TaskFifo` | what a work queue promises | abstract |
| `WorkQueue` | the deque, the lock, the condition variable | `work_queue.hpp` |
| `TaskCycle` | a task from the schedule to its stored result, with crashes | `on_read`, `main_task`, `tasks_mgr` |
| `DailySchedule` | the reset and the timers of the daily tasks | `keep_wx_account_task`, `run_at` |

`MCVoteTask`, `MCKeepTask`, `MCRestartLua` and `MCTaskCycle` have the constants
that a configuration cannot write down, the symmetry of phones and accounts, and
the restrictions of an instance that section 3 names; the other modules are
checked as they are.  `*Proofs` hold theorems.  An operator whose comment begins
with "Mutant of" is a plausible mistake in the code; it is in no specification
and serves to show that a property can fail.

How they fit together:

```
 TaskCycle --EXTENDS--> TaskFifo <--implements-- WorkQueue
 KeepTask  --EXTENDS--> VoteTask      (also implements AccountPool's PoolSpec)
 VoteTask  --EXTENDS--> AccountPool   (also implements its PoolSpec)
           --EXTENDS--> DeviceMgr  <--implements-- PhonePool --EXTENDS--> Connections
 SchePool  --EXTENDS--> Connections
 AccountLock: the lock under AccountPool's critical sections
 ScriptCalls <--implements-- RestartLua: the io_service under the sessions'
              "read" and "restart"
```

So each abstraction that a larger module makes is discharged somewhere: that
the queue is atomic by `ImplementsFairFifo`, that phones come and go in one step
with their status by `ImplementsDevices`, that a critical section is a step by
`OverlapsAreKnown` (but for the two accesses it names, which take no lock), that
one `handle_read` concludes one account's commands by `ImplementsCalls`, that a session waiting for an answer goes on by `WaitIsTimed`
and is done with one account before the next by `SettledBeforeNext`, that a task
which was begun comes back (used by `TaskCycle`'s fairness) by `TaskReturns`,
under its conditions.

### AccountPool and AccountLock

`idle` is `idle_accounts`; `itor[h]` is the iterator a thread found,
`dangling` the threads whose node somebody erased.  `Lookup` is the scan under
the read lock, `TakeValid` the erase under the write lock, `TakeDangling` the
erase of a node that is gone: undefined, so it either returns the old name or
takes another entry, and sets `ub`.  What happens after `ub` is not claimed: the
properties say `~ub =>`.  `SetFlag` writes memory and then the database, where
the statement may fail without anybody noticing.  `Load` is a restart.

`AccountLock` has Boost's lock: a waiting writer holds new readers back
(`blocked`), the last reader lets it in.  `get_vote_status` is called while the
caller already reads, so a writer may come between (`Wedged`).  Not every access
is under the lock: a lookup reads the node it found after `rlock.unlock()`
(`deref`, `wx_account_mgr.cpp:233, 269`), and `reset_all_everyday_task` copies
each entry, `voted_url` included, with its own lock commented out (`copy`, `:209`).
A write of another thread may overlap both; `OverlapsAreKnown` says so and that
nothing else overlaps.  What a torn copy would do is undefined and in no model:
the reset uses the copy's name only.

### VoteTask

`pc[d]` is where the session of phone `d` is: `start`/`begin`/`restart`/`finish`
are `a_session::start`, `loop`/`found` the outer condition of `on_connected`,
`wait`/`need` its inner loop, `mark` the status and the write, `read` the
io_service waiting for the answer or a timer, `voted`/`settle`/`end` the rest of
`handle_read`, `done` a thread that has ended and is not yet joined.  Each location is a place where other threads get in between.
`Faults` says what may go wrong in an instance: connecting (`connect`), the
write, the read (`eof`), an answer that is no JSON (`garbled`), the read timer
(`timeout`), an answer that says the vote failed and nothing of the account
(`refused`), the same after the vote was cast (`logout`), phones that leave and
call in again (`phone`), and the one static stringstream all sessions parse their answers from without a lock
(`stream`: a session may read another answer than its own).

### KeepTask

`kpc[s]` is where the daily session `s = <<phone, slot>>` is, with the locations of
`VoteTask` where the code is the same (`a_session::start`) and its own where
`keep_wx_account_session` differs: no target, no counter, the flag `daily`.
`DoTask` starts a session on every phone that says it is idle, without a lock
and without joining; `ResetTask` and `ResetOne` are the reset, account by
account, on the IO thread, which therefore takes in no phone meanwhile (`IoFree`).
`KSpawnSessions`, `VoteStep`, `KPhoneConnects`, `KPhoneLeaves` and `KRestart` are
`VoteTask`'s actions beside them.

All daily sessions parse their answers from one static stringstream
(`keep_wx_account_session.cpp:33`).  While another one runs (`Mixed`), a session may
read another's answer in place of its own: `KReplySuccess`, `KReplyAbnormal` and
`KReplyRefused` then go with either fate of the task.  A success read as a refusal
puts the account back unmarked although its task was done (`misread`).

`asked` has the phones that were told to start their script again.  The app's
answer calls `on_restart_lua_end` of a session bound to the signal, on the IO
thread (`OnRestartLuaEnd`): the phone is marked idle although its session goes on,
and `start()` runs once more, which is the visit: `VisitConnect`, `VisitWork` and
`VisitEnds` are the statuses that it sets on its way.  While the IO thread is in
there nothing else of it happens (`IoFree`), and it may stay for ever.  A visit
keeps to the statuses: what two threads do to one session's io_service is
`RestartLua`'s, and what they do to the accounts is in no model, so everything that
is said of accounts is said until the IO thread has `entered` a session.

`chores` counts how often an account's daily task was done since its reset,
`misread` has the accounts whose success was read as a failure, and `crossed` the
phones in which one of the three races for a second session happened: the phone
called in again, a second session began before the first had marked the phone
busy, or the app's answer marked it idle.  All are history.

### RestartLua

`pc[t]` is where a thread, a session's own or the IO thread, is in `start()`;
`reads`, `timers` and `due` are what the session's io_service has outstanding
and has yet to call, `stopped` its flag.  `EnterRun`, `RunReturns` and `Reset` are
`run()` and `reset()` as Boost documents them, so that two threads in one
io_service can take each other's handlers and undo each other's stop.  `slot[s]`
is the connection whose signal calls the session, `pconn[s]` the pointer it keeps.
`DoReadMsg`, `OnRestartLuaEnd` and `Heard` are the app's answer on the IO thread,
which enters the session (`inside`).  `shared`, `ranOut` and `taken` are history:
the sessions the IO thread has been in, those whose minute ran out, and what a
session's `handle_read` took in the present `run()`, as long as the IO thread has
not been in it.

`ScriptCalls` is what `VoteTask` and `KeepTask` make of all this: `SendCommands` of
one account, one `HandleRead` of the same account with its own answer or none,
`GoOn`.  The account waited for (`WaitedFor`) is that of the read that is begun or
of the `handle_read` that is due.  `BeginAgain` is the IO thread coming in, from
when on `ScriptCalls` tells nothing of the session.

### Connections, PhonePool, SchePool

`read[c]` is the outstanding read: pending, due with data or an error, or
aborted by a close.  A handler that is due when its socket is closed is called
all the same; that is the race that `is_open` in `handle_read` is there for.
`remote_endpoint` throws on a connection that was reset: in an accept handler
(`AcceptThrows`), in the debug output of `schedule_connection::handle_read`
(`HandleReadThrows`) and when all are stopped (`StopAllThrows`), and what a socket
handler throws ends the process.
`HandlePhoneAccept` and `StartConnection` are the two halves of
`pho_conn_pool::start`, between which sessions can see the statuses.

### TaskCycle

`status` and `result` are the table, `text` the string the work-queue thread
uses for all results.  `Die` empties everything that is not in the table.
`tasks_mgr`'s sources are not in the repository; the module takes from its
callers that `add_task` stores and queues, that `init` queues what is stored and
not finished, and that ids are not used twice.

### DailySchedule

Hours of local time.  A timer may be fired up to `Late` hours late, within which
the IO thread is busy with something else.  That `Late` is at most 7 is an
assumption and no fact of the code: `on_restart_lua_end` runs a session's `start()`
on the IO thread (`wx_vote_session.cpp:189`), with four minutes for each account
and no bound on their number.  A reset later than 7:59 would set its timers for
other hours.

## 3. The runs

Passing runs:

| Run | Module, instance | Shows |
|---|---|---|
| `VoteSafety` | `MCVoteTask`: 2 phones that come and go, 2 accounts, target 1; connecting, writing and reading fail, timeouts race answers; a restart (520,000 states) | what a session has at each place; one ballot per account; a task stands still only on a stale voting mark; no voting mark outlives its session; a lone session stops at the target |
| `VoteReturns` | `MCVoteTask`: 2 phones, 2 accounts, target 1; a refusal, answers read from the shared stream, statements that fail; fairness (616,000 states) | the reported count is the number of accounts marked; the database has no vote that memory has not; a task that was begun is reported |
| `KeepVotes` | `MCKeepTask`: 1 phone, 1 account; either a vote session and a daily one on a phone that comes and goes, whose app answers, or two daily sessions; a reset; failing connections and reads, timeouts, a refusal; fairness (174,000 states) | a daily task is done once between two resets unless its answer was read as another's; a second session on a phone needs one of three races; the last session or visit leaves the phone idle; daily sessions end; both kinds implement `AccountPool` |
| `RestartLua` | `MCRestartLua`: 2 sessions one after the other, 2 connections, 2 accounts (755,000 states) | nothing is left over to the next account; a request is heard; one `handle_read` per account, with its own answer or none (implements `ScriptCalls`); nobody waits without a timer; a late report is ignored |
| `LockCalls` | `AccountLock`: 3 threads, 1 call each, 2 entries; fairness (200,000 states) | a write overlaps the read of a found node and the reset's copies, and nothing else; only the nested read lock stands still, for good; otherwise every call ends |
| `PhoneConnections` | `PhonePool`: 2 phones, 3 connections, resets and throwing `remote_endpoint`; fairness | one open connection per phone; status follows; implements `DeviceMgr`; a phone that goes away leaves the pool |
| `ScheConnections` | `SchePool`: 3 connections of a schedule; resets, silent ends and throwing `remote_endpoint`; fairness | one is served; the place gets free or the process has ended |
| `QueueFifo` | `WorkQueue`: 2 producers, 2 consumers, 2 tasks; fairness | no lost wake-up; a stop reaches all sleepers; implements the fair first-in first-out queue |
| `TaskStored` | `MCTaskCycle`: 2 votes, one task that kills the process, one unknown command, 2 more crashes; fairness | results stay with their tasks; finished means it has a result and is not run again; queue and table agree; every stored task is finished unless one that kills the process is stored |
| `DailyTimers` | `DailySchedule`: 3 days, a restart, timers up to three hours late (571,000 states) | every hour from the first to 23:00 has its task, after the reset; every hour of the night to 7:59 has one too |

`TasksGoOnPast23` is a disagreement between the code and its comment, and the
finding of that run: `keep_wx_account_task.cpp:31` says that the tasks are repeated
every hour "until 23:00", but the loop's hours are added to the local day and
taken for UTC (`:34-40`), so that in UTC+8 every schedule that is ever set has a
task in each of the eight hours after, until 7:59 of the next morning.  It is
stated as what the code does, of every day, and proved (`NightsAreFilled`); that
the comment's claim is false follows from it.

Runs that end in a violation, each of them a place where the code and what it
says about itself disagree:

| Run | The code says | It does |
|---|---|---|
| `VoteReject` | "There's no too many accounts." (`wx_vote.cpp:29`) | accounts that sessions did not give back are missing (`wx_vote_session.cpp:56`) |
| `DailyReset` | "every day at 24:00 reset" (`keep_wx_account_task.cpp:17`) | the reset is scheduled once (`:19`) |

### Bounds, and why they are enough

* Two accounts, two phones and the threads of two sessions are what it takes for
  another to come between the two steps of a checkout, for two sessions to wait
  for each other and for a later step to find what they left.  Target 1 with two
  phones makes sessions wait for each other; a larger target makes them wait
  less.  The theorems hold for every target.
* Each vote run has the faults that its question is about: those that leave the
  answer unknown, and those of an answer that arrives; `VoteReject` has the
  garbled one.  `stream` includes what `logout` does, a failure reported after the
  vote was cast; `NoDoubleBallot` rightly fails with either.
* `MaxRefusals` and `MaxRestarts` bound loops that repeat the same states; votes
  are bounded by the accounts, ballots and chores are counted to 2 because the
  properties ask for at most one.
* A restart may come at any step of `VoteSafety` and `KeepVotes` and leads to one
  of the initial states but for the histories, so its successors are not looked
  at again.  Failing statements, which make the database lag, are in
  `VoteReturns` only, and so without a restart; `DatabaseIsBehind` is proved with
  both.  `VoteReturns` starts with one order of the list and nobody voted:
  accounts are alike, and its later tasks find what the first left.
* `KeepVotes` has one phone and one account because two sessions on one phone
  already meet in every race that `crossed` names and in the shared stream, and
  TLC is needed there for `KeepEnds`; its other properties are theorems for any
  number of phones, accounts and slots.  Its instance is restricted further
  (`MCKeepTask`): a daily session beside one vote task, or two daily sessions
  without a vote task on a phone that stays and is not asked to restart its
  script; no statement fails; nobody is voted or abnormal at first; the IO thread
  enters a session before any reset or refusal, and after that, when nothing is
  claimed of the accounts, accounts, phones and resets stay as they are and the
  statuses go on.  The proofs have none of these restrictions.
* `RestartLua` has a second session that begins after the first (which sessions
  overlap is `KeepTask`'s question) and one answer of the app that enters a
  session: of sessions that were entered nothing is claimed.
* Two connections of one phone and one of another are needed for a late handler
  of a replaced connection; a free connection is used again as a new one.  A
  phone that ends silently is to the pool as one that is still there, and calls
  in again like it, so `silent` is left to `ScheConnections`, where it matters.
* The queue has as many tasks as consumers, so one consumer can take what
  another was woken for.  One call of three threads makes each of them the
  reader, the nested reader or the writer, with a second entry to scan.
* Four tasks of three kinds and two crashes put a crash between any two steps of
  any task and of the run that follows it.
* Three days: a day with a reset, the next without it, and one more.  Three hours
  of lateness carry a timer past its hour and past a restart; the theorems hold
  up to seven.
* `MCVoteTask` starts with no account marked daily or abnormal: the first flag
  plays no part in a vote, and an account abnormal from the start is absent.
  `MCKeepTask` starts with none abnormal or voted.
* Symmetry (of phones, of accounts) is used in `VoteSafety`, which checks
  invariants only.  Deadlock checking is off where the program may rightly stop
  or the bounds end it: a stopped pool, a wedged lock or threads that made their
  calls, a worker waiting at an empty queue, sessions that have all ended, an
  undefined step, and the end of the hours.

### Fairness and why the code justifies it

Weak fairness of a thread's steps stands for the operating system scheduling it.
Nothing makes a schedule send a task, a phone connect, the hourly timer fire, or
a thread start a new call.  A session's read ends because `read_timer_` is set
for every read (`wx_vote_session.cpp:90`), which is what `WaitIsTimed` shows.
`KeepTask` has each daily session's thread move on as long as it can and the IO
thread go on with a reset it has begun (`ResetOne`).  It has no fairness for the IO
thread inside a session: one of two threads in an io_service may stay in `run()`
for ever, which is why `KeepEnds` ends with `entered`.
`PhonePool` and `SchePool` have strong fairness of each connection's `handle_read`
because the io_service takes due handlers from a queue while others are taken
too.  This presumes that the IO thread is not held inside a handler: it is not
while `on_restart_lua_end` runs a session's `start()` (`wx_vote_session.cpp:189`,
`keep_wx_account_session.cpp:144`), which connects, writes, sleeps and waits there
for the session's whole time.  `LeavingIsNoticed` and `PoolGetsFree` therefore hold
of an IO thread that comes back from every such visit, and of no other.  In
`AccountLock` a thread goes on when the mutex lets it.  In `TaskCycle` the
process is started again by whoever runs it.  `KeepEnds` and `TaskReturns` say
nothing of a run with an undefined step; `StandstillHasStaleMark` says when a
task with failing writes does not return.

## 4. The proofs

TLAPS checks the following for every value of the constants that satisfies the
named assumptions in the modules.  Each proof has the shape *Init implies the
invariant; each action preserves it; the property follows*.

| Module | Theorems | Argument |
|---|---|---|
| `VoteTaskProofs` | `PoolInvariant`, `PoolExclusive` (of `AccountPool` alone) | exclusive checkout alone is not inductive: an iterator could point anywhere. `PoolInv` adds that a thread has an iterator or an account and that an iterator that does not dangle is in the list |
| | `VoteInvariant`, `VoteTaskImplementsPool`, `VoteExclusive` | every session step is a pool step or leaves the pool alone, so the pool's proof is used again; `SessionInv` ties a session's place to what it holds |
| | `MarksHaveSessions`, `StandstillIsOwnMark`, `LoneSessionMeetsTarget` | `StatusInv`: a voting mark has a session past its start, nothing is counted outside the sessions' time, and a lone session that may vote is still short of the target (`Short`, place by place). At a standstill the poll counts somebody, and who is counted polls too |
| | `DatabaseIsBehind` | memory is written before the database and a restart loads the database |
| | `VotesAreCounted` | each account marked in this task is counted or held by exactly one session on its way to the counter |
| | `BallotsAreSingle` | `BallotInv`: an account that voted and is not marked is not held, listed or found (`Spent`) |
| `KeepTaskProofs` | `KeepInvariant`, `KeepImplementsPool` | `KInv`: `VoteInv` with, for each daily session, what its place says it has; a daily step leaves the vote's parts alone (`Elsewhere`) and a vote step the daily ones (`Beside`). This and all that is said of accounts holds until the IO thread has `entered` a session |
| | `ChoresAreSingle` | `ChoreInv`: an account whose task was reported, or whose answer was lost, is marked, `Spent` or `misread`; a reset that takes the mark also takes the count and the misreading |
| | `SecondNeedsRace`, `LastLeavesIdle` | `PhonesInv`: a phone nobody crossed has at most one session, which has marked it busy or is about to, and no visit; a connected phone without a session and a visit is idle. Visits included, with no `entered` |
| | `VotesCountedBesideDaily`, `BallotsSingleBesideDaily`, `MarksHaveSessionsBesideDaily`, `TargetBesideDaily`, `DatabaseBehindBesideDaily` | the vote task's five results hold with daily sessions and resets beside it. Every step is a step of `VoteTask` or one of the daily side (`StepSides`), which leaves the vote sessions' places and counts alone, marks nobody voted, puts no voting mark on and gives back no account it did not hold (`OffVotes`) |
| `RestartLuaProofs` | `NothingIsLeftOver`, `RequestsAreHeard`, `AnswersAreOwn`, `WaitsAreTimed`, `LateAnswersAreIgnored` | `LoneInv`, for a session the IO thread has not entered: one read at a time with its timer (`ReadSide`), a restart waited for only after the socket is closed (`TimerSide`), what is outstanding at each place (`PlaceSide`), the signal it is bound to (`BindSide`), and that what `handle_read` took belongs to the present run (`TakenSide`) |
| | `SessionsImplementCalls` | the same invariant gives what a lone session waits for: the account of its one read, of its one due `handle_read`, or none (`ToldFacts`); each of its steps is then a step of `ScriptCalls` or invisible (`OwnStep`), and no step of another touches it |
| `AccountLockProofs` | `WritesOverlapUnlocked`, `OnlyNestedReadsStandStill`, `WedgesAreFinal` | the lock's counters tell each thread's place, only a lookup and the reset come to the places without a lock (`UnlockedCalls`), and a sleeping writer has somebody who will wake it |
| `ConnectionsProofs` | `PoolInvariant`, `PoolIsConsistent`, `OneConnectionOpen`, `PoolImplementsDevices` | between the two halves of `start` the new connection is open, in no pool and its phone's only one (`StartingIsNew`); what is open is pooled or starting (`OpenIsPooled`) and what is pooled is read (`PooledIsRead`); an aborted read belongs to a closed socket |
| | `OneScheduleIsServed` | `ScheInv`: at most one schedule is pooled (`AtMostOne`), it is open and listened to and nothing else is open (`PooledIsServed`), and one that was turned away is closed and has no read (`TurnedAwayIsClosed`) |
| `WorkQueueProofs` | `WakeupsAreNotLost`, `StopReachesAll`, `QueueImplementsFifo` | the number of tasks is at most the consumers already woken or popping plus the notifications to come, if anybody sleeps |
| `TaskCycleProofs` | `CycleInvariant`, `ResultsBelong`, `FinishedHaveResults`, `FinishedStaysDone`, `QueueIsTable` | the table's unfinished tasks are the queue's and the one at work, each once, and the string is the current task's result from the vote to the store |
| `DailyScheduleProofs` | `HoursAreFilled`, `NightsAreFilled`, `ResetIsFirst` | with `Zone = 8`, which the code's `hours(0 - 8)` assumes, and `Late` at most 7. `TimerInv`: either nothing but the reset is scheduled, for the midnight after start and not overdue by more than `Late` (`ResetInTime`), or it was made on that day, so that its `local_day` is that midnight, and every hour's task is a timer still or has run |

Only model-checked: all liveness (`TaskReturns`, `KeepEnds`, `CallsEnd`,
`TasksFinish`, `LeavingIsNoticed`, `PoolGetsFree` and the fairness half of `ImplementsFairFifo`), because liveness under fairness, and `ENABLED`, are
out of the prover's reach; so are induction over data and `RECURSIVE` operators,
of which no module has any.  Every invariant and every action property of a
passing run is proved.  `OwnAnswer`, which `ImplementsCalls` entails, is proved and in
no run.

## 5. What is not modelled, and why

* **The accounts of a session the IO thread has entered** (`wx_vote_session.cpp:189`):
  the statuses that the second `start()` sets are `KeepTask`'s, the two threads in
  one io_service `RestartLua`'s.  What accounts they take, mark and give back is in
  neither: they share the socket, its buffer and `login_failed_cnt_` without a lock,
  which is undefined.
* **Torn copies** (`wx_account_mgr.cpp:209, 233, 269`): `AccountLock` shows which
  unlocked accesses a write overlaps, and no model goes on from one.
* **Answers in `VoteTask`**: its phones do not report a restart; `KeepTask` has the
  same task and sessions with the report.
* **A session called after its end** (`wx_vote_session.cpp:36`): the slot keeps a
  raw `this`.  `RestartLua` has the state (`ub`); nothing after it is looked at.
* **The instance lock** (`main.cpp:13`).  Unix builds always define `_DEBUG`
  (`src/src/CMakeLists.txt:11`), and a debug build removes the message queue first, so the
  lock never keeps a second instance out there.
* **Exceptions that end the process**, such as a message without a field, are
  not told apart: `TaskCycle` may crash at any step, `VoteTask` and `KeepTask` may
  restart at any step.
* **Messages and formats**: a message is what its handler tells apart.  That one
  read is one message is an assumption of the models as it is of the code
  (`schedule_connection.cpp:50`).
* **Destruction at exit** (`main_task.cpp:116`): `handle_stop` stops the pools;
  threads that go on while `main` returns are outside.
* **The data race on `pho_conn_pool::connections_`** (`pho_conn_pool.cpp:46`):
  `find_connection` is a step.
* `config_mgr`, the vendored MySQL connector, the phone's Lua script, and
  `device_info`, which is written and never read back.

## 6. Plan

1. The accounts of a session the IO thread has entered, with the daily sessions
   only and `RestartLua`'s io_service under them.
2. `ScheduleCenter`: `VoteTask` under `TaskCycle`, so that stored results are the
   vote's.
3. `InstanceLock`: the message queue across crashes, for builds that keep it.
