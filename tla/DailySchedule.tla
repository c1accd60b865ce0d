--------------------------- MODULE DailySchedule ---------------------------
(***************************************************************************)
(* keep_wx_account_task's timers: the reset at the next midnight and the    *)
(* daily tasks it schedules.  Time is counted in hours of local time (UTC   *)
(* plus Zone) from a midnight on; what happens in an hour happens at some   *)
(* minute of it.                                                            *)
(***************************************************************************)
EXTENDS Naturals, FiniteSets

CONSTANTS
  Zone,         \* hours by which local time is ahead of UTC
  Late,         \* whole hours by which the IO thread may be late for a timer
  Days,         \* bound: hours stop after so many days
  MaxRestarts   \* bound: restarts of the process

ASSUME ScheduleAssumption ==
  Zone \in 0..12 /\ Late \in 0..7 /\ Days \in Nat \ {0} /\ MaxRestarts \in Nat

VARIABLES
  now,        \* the hour
  started,    \* the hour start ran in
  timers,     \* timers the io_service has yet to fire
  resets,     \* hours reset_task was called in
  ran,        \* hours do_task was called for, since start
  restarts

vars == <<now, started, timers, resets, ran, restarts>>

Timers == [at : Nat, call : {"reset_task", "do_task"}]

\* day_clock::local_day() as an hour, n days on.
LocalDay(n) == 24 * (now \div 24 + n)

\* Mutant of ResetTime: the hours of local_day are taken for hours of UTC.
ResetTimeUtc == LocalDay(1) + Zone

\* ptime(local_day() + days(1), hours(0 - 8)): the code's zone is UTC+8.
ResetTime == LocalDay(1) + Zone - 8

\* Mutant of TaskTimes: the loop ends an hour early.
TaskTimesShort(h) == {LocalDay(0) + i + Zone : i \in h .. 22}

\* Mutant of TaskTimes: the loop's end takes the zone into account, and an hour
\* more.
TaskTimesTo22(h) == {LocalDay(0) + i + Zone : i \in h .. 22 - Zone}

\* The hours i from h to 23 of the loop are added to local_day, and the timer
\* takes the sum for UTC.
TaskTimes(h) == {LocalDay(0) + i + Zone : i \in h .. 23}

Start ==
  /\ started' = now
  /\ timers' = {[at |-> ResetTime, call |-> "reset_task"]}

-----------------------------------------------------------------------------
\* rng() % 12 + 8 - 8
FirstHours == 0 .. 11

ResetTask(t) ==
  /\ t \in timers /\ t.call = "reset_task" /\ t.at <= now
  /\ resets' = resets \cup {now}
  /\ \E h \in FirstHours :
        timers' = (timers \ {t}) \cup {[at |-> a, call |-> "do_task"] : a \in TaskTimes(h)}
  /\ UNCHANGED <<now, started, ran, restarts>>

\* Timers fire in the order of their times.
DoTask(t) ==
  /\ t \in timers /\ t.call = "do_task" /\ t.at <= now
  /\ \A u \in timers : t.at <= u.at
  /\ ran' = ran \cup {t.at}
  /\ timers' = timers \ {t}
  /\ UNCHANGED <<now, started, resets, restarts>>

\* The hour ends, unless a timer has been due for longer than Late.
Tick ==
  /\ now < 24 * Days
  /\ \A t \in timers : now < t.at + Late
  /\ now' = now + 1
  /\ UNCHANGED <<started, timers, resets, ran, restarts>>

\* The process is started again; its timers are gone.
Restart ==
  /\ restarts < MaxRestarts /\ restarts' = restarts + 1
  /\ Start
  /\ ran' = {}
  /\ UNCHANGED <<now, resets>>

-----------------------------------------------------------------------------
Init ==
  /\ now \in 0 .. 23 /\ resets = {} /\ ran = {} /\ restarts = 0
  /\ started = now
  /\ timers = {[at |-> ResetTime, call |-> "reset_task"]}

Fire == \E t \in timers : ResetTask(t) \/ DoTask(t)

Next == Fire \/ Tick \/ Restart

Spec == Init /\ [][Next]_vars

-----------------------------------------------------------------------------
TypeOK ==
  /\ now \in 0 .. 24 * Days /\ started \in 0 .. now
  /\ timers \subseteq Timers
  /\ resets \subseteq 0 .. now /\ ran \subseteq 0 .. now
  /\ restarts \in 0 .. MaxRestarts

\* The first midnight after start.
Midnight == 24 * (started \div 24 + 1)

\* The hours that have a task: it was run or its timer is set.
TaskHours == ran \cup {t.at : t \in {u \in timers : u.call = "do_task"}}

BeforeReset == timers = {[at |-> Midnight, call |-> "reset_task"]} /\ ran = {}

\* Once the reset has run, every hour from the first one, between 8:00 and
\* 19:59, to 23:00 has its task, and no hour before the first has one: none is
\* left out or lost, and none of a day before is among them.
HourlyUntil23 ==
  \/ BeforeReset
  \/ \E first \in 8 .. 19 :
       {h \in TaskHours : h <= Midnight + 23} = {Midnight + i : i \in first .. 23}

\* What keep_wx_account_task.cpp:31 says of the hourly tasks, that they go on
\* until 23:00, is true of no day: each day whose reset has run has a task in
\* each of the eight hours from midnight to 7:59 of the next morning as well.
TasksGoOnPast23 ==
  \/ BeforeReset
  \/ {h \in TaskHours : h > Midnight + 23} = {Midnight + i : i \in 24 .. 31}

\* No daily task runs before the accounts' marks of the day before are taken
\* away: the reset is never left to a timer that fires after a task's.
ResetComesFirst ==
  /\ TypeOK
  /\ \A a \in ran : \E r \in resets : r <= a /\ r >= Midnight

\* keep_wx_account_task.cpp:17 says of the reset that it is made every day at
\* 24:00.
EveryDayIsReset ==
  \A day \in 1 .. Days :
    24 * day > started /\ 24 * day + Late < now =>
      \E r \in resets : r \in 24 * day .. 24 * day + Late
=============================================================================
