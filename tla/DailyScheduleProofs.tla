------------------------- MODULE DailyScheduleProofs -------------------------
(***************************************************************************)
(* The daily timers in the zone the code is written for, for any number of *)
(* days and restarts and an IO thread that is up to Late hours late.        *)
(***************************************************************************)
EXTENDS DailySchedule, TLAPS

ResetTimer == [at |-> Midnight, call |-> "reset_task"]

\* The reset is still to come and not later than Late.
ResetInTime == BeforeReset /\ now <= Midnight + Late

\* The reset was made in the first hours of its day; every hour's task is a
\* timer still or was run.
AfterReset ==
  /\ \A t \in timers : t.call = "do_task" /\ t.at >= Midnight + 8
  /\ \A a \in ran : a >= Midnight + 8
  /\ \E r \in resets : r \in Midnight .. Midnight + 7
  /\ \E first \in 8 .. 19 :
        {t.at : t \in timers} \cup ran = {Midnight + i : i \in first .. 31}

TimerInv == TypeOK /\ (ResetInTime \/ AfterReset)

\* The day an hour is in.
LEMMA DayOfHour ==
  ASSUME NEW h \in Nat
  PROVE  /\ h \div 24 \in Nat
         /\ 24 * (h \div 24) <= h /\ h < 24 * (h \div 24 + 1)
OBVIOUS

LEMMA SameDay ==
  ASSUME NEW h \in Nat, NEW k \in Nat, 24 * k <= h, h < 24 * k + 24
  PROVE  h \div 24 = k
OBVIOUS

LEMMA MidnightIsAhead ==
  ASSUME TypeOK
  PROVE  started \in Nat /\ now \in Nat /\ Midnight \in Nat /\ started < Midnight
<1>1. started \in Nat /\ now \in Nat
  BY ScheduleAssumption DEF TypeOK
<1> QED
  BY <1>1, DayOfHour DEF Midnight

\* Where start leaves the timers, at the program's start and at a restart.
LEMMA StartingTimers ==
  ASSUME Zone = 8, NEW n \in Nat, NEW m, m = 24 * (n \div 24 + 1)
  PROVE  /\ m \in Nat /\ n < m
         /\ 24 * (n \div 24 + 1) + Zone - 8 = m
<1>1. n \div 24 \in Nat /\ n < 24 * (n \div 24 + 1)
  BY DayOfHour
<1> QED
  BY <1>1

LEMMA InitTimers == Zone = 8 /\ Init => TimerInv
<1> SUFFICES ASSUME Zone = 8, Init PROVE TimerInv
  OBVIOUS
<1>1. now \in Nat /\ started = now /\ now <= 23
  BY DEF Init
<1>2. Midnight \in Nat /\ now < Midnight /\ ResetTime = Midnight
  BY <1>1, StartingTimers DEF Midnight, ResetTime, LocalDay
<1>3. timers = {ResetTimer}
  BY <1>2 DEF Init, ResetTimer
<1>4. TypeOK
  BY <1>1, <1>2, <1>3, ScheduleAssumption DEF Init, TypeOK, Timers, ResetTimer
<1>5. ResetInTime
  BY <1>1, <1>2, <1>3, ScheduleAssumption DEF Init, ResetInTime, BeforeReset
<1> QED
  BY <1>4, <1>5 DEF TimerInv

LEMMA ResetTaskTimers ==
  ASSUME Zone = 8, TimerInv, NEW t \in timers, ResetTask(t)
  PROVE  TimerInv'
<1>1. ResetInTime /\ t = ResetTimer /\ now >= Midnight
  BY DEF TimerInv, AfterReset, ResetInTime, BeforeReset, ResetTask, ResetTimer
<1>2. /\ now \in Nat /\ started \in Nat /\ Midnight \in Nat
      /\ Midnight <= now /\ now <= Midnight + 7
  BY <1>1, MidnightIsAhead, ScheduleAssumption DEF TimerInv, ResetInTime, BeforeReset
<1>3. LocalDay(0) = Midnight
  <2>1. started \div 24 \in Nat /\ Midnight = 24 * (started \div 24 + 1)
    BY <1>2, DayOfHour DEF Midnight
  <2>2. now \div 24 = started \div 24 + 1
    BY <1>2, <2>1, SameDay
  <2> QED
    BY <2>1, <2>2 DEF LocalDay
<1>4. PICK h \in FirstHours :
        timers' = (timers \ {t}) \cup {[at |-> a, call |-> "do_task"] : a \in TaskTimes(h)}
  BY DEF ResetTask
<1>5. timers' = {[at |-> a, call |-> "do_task"] : a \in TaskTimes(h)}
  BY <1>1, <1>4 DEF ResetInTime, BeforeReset
<1>6. TaskTimes(h) = {Midnight + i : i \in h + 8 .. 31}
  <2>1. h \in Nat /\ TaskTimes(h) = {Midnight + i + 8 : i \in h .. 23}
    BY <1>3 DEF TaskTimes, FirstHours
  <2>2. ASSUME NEW i \in h .. 23
        PROVE  i + 8 \in h + 8 .. 31 /\ Midnight + i + 8 = Midnight + (i + 8)
    BY <1>2, <2>1
  <2>3. ASSUME NEW j \in h + 8 .. 31
        PROVE  j - 8 \in h .. 23 /\ Midnight + j = Midnight + (j - 8) + 8
    BY <1>2, <2>1
  <2> QED
    BY <2>1, <2>2, <2>3
<1>7. UNCHANGED <<now, started, ran, restarts>> /\ resets' = resets \cup {now} /\ Midnight' = Midnight
  BY DEF ResetTask, Midnight
<1>8. \A a \in TaskTimes(h) : a \in Nat /\ a >= Midnight + 8
  BY <1>2, <1>6 DEF FirstHours
<1>9. TypeOK'
  BY <1>2, <1>5, <1>7, <1>8 DEF TimerInv, TypeOK, Timers
<1>10. AfterReset'
  <2>1. \A u \in timers' : u.call = "do_task" /\ u.at >= Midnight + 8
    BY <1>5, <1>8
  <2>2. ran' = {}
    BY <1>1, <1>7 DEF ResetInTime, BeforeReset
  <2>3. now \in resets' /\ now \in Midnight .. Midnight + 7
    BY <1>2, <1>7
  <2>4. {u.at : u \in timers'} = TaskTimes(h)
    <3>1. ASSUME NEW a \in TaskTimes(h)
          PROVE  /\ [at |-> a, call |-> "do_task"] \in timers'
                 /\ [at |-> a, call |-> "do_task"].at = a
      BY <1>5
    <3>2. ASSUME NEW u \in timers' PROVE u.at \in TaskTimes(h)
      BY <1>5
    <3> QED
      BY <3>1, <3>2
  <2>5. h + 8 \in 8 .. 19
    BY DEF FirstHours
  <2> QED
    BY <1>6, <1>7, <2>1, <2>2, <2>3, <2>4, <2>5 DEF AfterReset
<1> QED
  BY <1>9, <1>10 DEF TimerInv

LEMMA DoTaskTimers ==
  ASSUME TimerInv, NEW t \in timers, DoTask(t)
  PROVE  TimerInv'
<1>1. AfterReset
  BY DEF TimerInv, ResetInTime, BeforeReset, DoTask, ResetTimer
<1>2. t.at \in Nat /\ t.at <= now /\ now \in Nat /\ Midnight' = Midnight
  BY ScheduleAssumption DEF TimerInv, TypeOK, Timers, DoTask, Midnight
<1>3. ran' = ran \cup {t.at} /\ timers' = timers \ {t} /\ UNCHANGED <<now, started, resets, restarts>>
  BY DEF DoTask
<1>4. TypeOK'
  <2>1. t.at \in 0 .. now
    BY <1>2
  <2>2. ran' \subseteq 0 .. now /\ timers' \subseteq timers
    BY <1>3, <2>1 DEF TimerInv, TypeOK
  <2> QED
    BY <1>3, <2>2 DEF TimerInv, TypeOK
<1>5. {u.at : u \in timers'} \cup ran' = {u.at : u \in timers} \cup ran
  BY <1>3
<1>6. AfterReset'
  BY <1>1, <1>2, <1>3, <1>5 DEF AfterReset
<1> QED
  BY <1>4, <1>6 DEF TimerInv

LEMMA TickTimers ==
  ASSUME TimerInv, Tick
  PROVE  TimerInv'
<1>1. now' = now + 1 /\ now < 24 * Days /\ UNCHANGED <<started, timers, resets, ran, restarts>>
  BY DEF Tick
<1>2. now \in Nat /\ Midnight \in Nat /\ Midnight' = Midnight
  BY <1>1, MidnightIsAhead DEF TimerInv, Midnight
<1>3. TypeOK'
  BY <1>1, <1>2, ScheduleAssumption DEF TimerInv, TypeOK
<1>4. CASE ResetInTime
  <2>1. now < Midnight + Late
    BY <1>4 DEF ResetInTime, BeforeReset, Tick, ResetTimer
  <2>2. ResetInTime'
    BY <1>1, <1>2, <1>4, <2>1, ScheduleAssumption DEF ResetInTime, BeforeReset, ResetTimer
  <2> QED
    BY <1>3, <2>2 DEF TimerInv
<1>5. CASE AfterReset
  <2>1. AfterReset'
    BY <1>1, <1>2, <1>5 DEF AfterReset
  <2> QED
    BY <1>3, <2>1 DEF TimerInv
<1> QED
  BY <1>4, <1>5 DEF TimerInv

LEMMA RestartTimers ==
  ASSUME Zone = 8, TimerInv, Restart
  PROVE  TimerInv'
<1>1. /\ UNCHANGED <<now, resets>> /\ ran' = {} /\ started' = now
      /\ restarts' = restarts + 1 /\ restarts < MaxRestarts
      /\ timers' = {[at |-> ResetTime, call |-> "reset_task"]}
  BY DEF Restart, Start
<1>2. now \in Nat
  BY MidnightIsAhead DEF TimerInv
<1>3. Midnight' = 24 * (now \div 24 + 1)
  BY <1>1 DEF Midnight
<1>4. Midnight' \in Nat /\ now < Midnight' /\ ResetTime = Midnight'
  BY <1>2, <1>3, StartingTimers DEF ResetTime, LocalDay
<1>5. timers' = {ResetTimer}'
  BY <1>1, <1>4 DEF ResetTimer
<1>6. TypeOK'
  <2>1. timers' \subseteq Timers
    BY <1>1, <1>4 DEF Timers
  <2> QED
    BY <1>1, <1>2, <2>1, ScheduleAssumption DEF TimerInv, TypeOK
<1>7. ResetInTime'
  <2>1. now' = now /\ Late \in Nat
    BY <1>1, ScheduleAssumption
  <2>2. \A m \in Nat : now < m => now' <= m + Late
    BY <1>2, <2>1
  <2> QED
    BY <1>1, <1>4, <1>5, <2>2 DEF ResetInTime, BeforeReset
<1> QED
  BY <1>6, <1>7 DEF TimerInv

LEMMA TimerInvariant == Zone = 8 => (Spec => []TimerInv)
<1> SUFFICES ASSUME Zone = 8 PROVE Spec => []TimerInv
  OBVIOUS
<1>1. Init => TimerInv
  BY InitTimers
<1>2. TimerInv /\ [Next]_vars => TimerInv'
  <2> SUFFICES ASSUME TimerInv, [Next]_vars PROVE TimerInv'
    OBVIOUS
  <2>1. CASE Fire
    BY <2>1, ResetTaskTimers, DoTaskTimers DEF Fire
  <2>2. CASE Tick
    BY <2>2, TickTimers
  <2>3. CASE Restart
    BY <2>3, RestartTimers
  <2>4. CASE UNCHANGED vars
    BY <2>4 DEF vars, TimerInv, TypeOK, ResetInTime, BeforeReset, AfterReset, Midnight, ResetTimer
  <2> QED
    BY <2>1, <2>2, <2>3, <2>4 DEF Next
<1> QED
  BY <1>1, <1>2, PTL DEF Spec

-----------------------------------------------------------------------------
\* What TimerInv says of the hours that have a task.
LEMMA FilledHours ==
  ASSUME TypeOK, AfterReset
  PROVE  \E first \in 8 .. 19 : TaskHours = {Midnight + i : i \in first .. 31}
<1>1. {u \in timers : u.call = "do_task"} = timers
  BY DEF AfterReset
<1>2. TaskHours = {t.at : t \in timers} \cup ran
  BY <1>1 DEF TaskHours
<1> QED
  BY <1>2 DEF AfterReset

\* In the zone of the code no hour up to 23:00 is left out of the daily tasks,
\* however often the process is started again and however late, up to seven
\* hours, the IO thread fires.
THEOREM HoursAreFilled == Zone = 8 => (Spec => []HourlyUntil23)
<1>1. ASSUME TimerInv PROVE HourlyUntil23
  <2>1. CASE ResetInTime
    BY <2>1 DEF ResetInTime, HourlyUntil23
  <2>2. CASE AfterReset
    <3>1. PICK first \in 8 .. 19 : TaskHours = {Midnight + i : i \in first .. 31}
      BY <1>1, <2>2, FilledHours DEF TimerInv
    <3>2. Midnight \in Nat
      BY <1>1, MidnightIsAhead DEF TimerInv
    <3>3. {h \in TaskHours : h <= Midnight + 23} = {Midnight + i : i \in first .. 23}
      BY <3>1, <3>2
    <3> QED
      BY <3>3 DEF HourlyUntil23
  <2> QED
    BY <1>1, <2>1, <2>2 DEF TimerInv
<1> QED
  BY <1>1, TimerInvariant, PTL

\* And no day's tasks end at 23:00: the eight hours after it are filled too.
THEOREM NightsAreFilled == Zone = 8 => (Spec => []TasksGoOnPast23)
<1>1. ASSUME TimerInv PROVE TasksGoOnPast23
  <2>1. CASE ResetInTime
    BY <2>1 DEF ResetInTime, TasksGoOnPast23
  <2>2. CASE AfterReset
    <3>1. PICK first \in 8 .. 19 : TaskHours = {Midnight + i : i \in first .. 31}
      BY <1>1, <2>2, FilledHours DEF TimerInv
    <3>2. Midnight \in Nat
      BY <1>1, MidnightIsAhead DEF TimerInv
    <3>3. {h \in TaskHours : h > Midnight + 23} = {Midnight + i : i \in 24 .. 31}
      BY <3>1, <3>2
    <3> QED
      BY <3>3 DEF TasksGoOnPast23
  <2> QED
    BY <1>1, <2>1, <2>2 DEF TimerInv
<1> QED
  BY <1>1, TimerInvariant, PTL

\* And the marks of the day before are gone when the first of them runs.
THEOREM ResetIsFirst == Zone = 8 => (Spec => []ResetComesFirst)
<1>1. ASSUME TimerInv PROVE ResetComesFirst
  <2>1. Midnight \in Nat /\ ran \subseteq Nat /\ resets \subseteq Nat
    BY <1>1, MidnightIsAhead, ScheduleAssumption DEF TimerInv, TypeOK
  <2>2. \A a \in ran : \E r \in resets : r <= a /\ r >= Midnight
    BY <1>1, <2>1 DEF TimerInv, ResetInTime, BeforeReset, AfterReset
  <2> QED
    BY <1>1, <2>2 DEF TimerInv, ResetComesFirst
<1> QED
  BY <1>1, TimerInvariant, PTL
=============================================================================
