---------------------------- MODULE AccountLock ----------------------------
(***************************************************************************)
(* The calls of wx_account_mgr as lock operations on rwmutex_.  AccountPool *)
(* takes every critical section as one step; this module is about the       *)
(* sections themselves and what they leave outside the lock.                *)
(* get_idle_not_vote_account and get_idle_not_vote_count call               *)
(* get_vote_status, which takes the read lock again, while they hold it; a  *)
(* lookup reads the node it found after rlock.unlock(), and                 *)
(* reset_all_everyday_task goes through accounts_pro with its lock          *)
(* commented out.  rwmutex_ is a boost::shared_mutex: it holds back new     *)
(* readers, also one that reads already, once a writer waits.               *)
(***************************************************************************)
EXTENDS Naturals, FiniteSets

CONSTANTS
  Threads,
  NoThread,
  MaxCalls,     \* bound: the calls a thread makes
  MaxEntries    \* bound: the length of idle_accounts, and of accounts_pro

ASSUME LockAssumption ==
  /\ NoThread \notin Threads
  /\ MaxCalls \in Nat /\ MaxEntries \in Nat

VARIABLES
  shared,       \* how often each thread holds rwmutex_ shared
  exclusive,    \* the thread that holds rwmutex_ exclusively
  blocked,      \* the mutex's exclusive_waiting_blocked
  pc,           \* where each thread is
  call,         \* the call it is in
  entries,      \* the accounts its scan, or its reset, has still to come to
  calls         \* the calls it has made

lockVars == <<shared, exclusive, blocked>>
vars == <<lockVars, pc, call, entries, calls>>

\* get_idle_not_vote_account, get_idle_not_vote_count,
\* get_idle_not_daily_task_account; a call with one read lock, with one write
\* lock; reset_all_everyday_task.
Calls == {"vote", "count", "daily", "read", "write", "reset"}
Locations == {"out", "lock", "scan", "lock_again", "again", "found", "deref",
              "copy", "want", "sleep", "write"}

TypeOK ==
  /\ shared \in [Threads -> 0..2]
  /\ exclusive \in Threads \cup {NoThread}
  /\ blocked \in BOOLEAN
  /\ pc \in [Threads -> Locations]
  /\ call \in [Threads -> Calls]
  /\ entries \in [Threads -> 0..MaxEntries]
  /\ calls \in [Threads -> 0..MaxCalls]

Goto(t, location) == pc' = [pc EXCEPT ![t] = location]

-----------------------------------------------------------------------------
\* Mutant of CanShare: a waiting writer does not hold back readers.
CanShareAlways == exclusive = NoThread

\* boost::shared_mutex, lock_shared: whether a reader gets in.
CanShare == exclusive = NoThread /\ ~blocked

LockShared(t) ==
  /\ CanShare /\ shared' = [shared EXCEPT ![t] = @ + 1]
  /\ UNCHANGED <<exclusive, blocked>>

Sleepers == {t \in Threads : pc[t] = "sleep"}

\* release_waiters, with t going on to location: one writer is woken and tries
\* again; readers are all woken, so they need no state of their own.
Release(t, location) ==
  \/ \E w \in Sleepers : pc' = [pc EXCEPT ![t] = location, ![w] = "want"]
  \/ Sleepers = {} /\ Goto(t, location)

\* unlock_shared: the last reader lets the waiting in.
UnlockShared(t, location) ==
  /\ shared' = [shared EXCEPT ![t] = @ - 1]
  /\ \/ /\ \E u \in Threads : shared'[u] > 0
        /\ Goto(t, location) /\ UNCHANGED blocked
     \/ /\ \A u \in Threads : shared'[u] = 0
        /\ Release(t, location) /\ blocked' = FALSE
  /\ UNCHANGED exclusive

\* lock, one turn of its loop: the mutex is free, or the thread sleeps.
LockExclusive(t) ==
  \/ /\ exclusive = NoThread /\ \A u \in Threads : shared[u] = 0
     /\ exclusive' = t /\ Goto(t, "write")
     /\ UNCHANGED <<shared, blocked>>
  \/ /\ exclusive # NoThread \/ \E u \in Threads : shared[u] > 0
     /\ blocked' = TRUE /\ Goto(t, "sleep")
     /\ UNCHANGED <<shared, exclusive>>

-----------------------------------------------------------------------------
Begin(t, c) ==
  /\ pc[t] = "out" /\ calls[t] < MaxCalls
  /\ calls' = [calls EXCEPT ![t] = @ + 1]
  /\ call' = [call EXCEPT ![t] = c]
  /\ Goto(t, IF c = "write" THEN "want" ELSE "lock")
  /\ UNCHANGED <<lockVars, entries>>

\* reset_all_everyday_task, which only the IO thread calls: the loop over
\* accounts_pro begins, without a lock.
BeginReset(t) ==
  /\ pc[t] = "out" /\ calls[t] < MaxCalls
  /\ \A u \in Threads : call[u] = "reset" => pc[u] = "out"
  /\ calls' = [calls EXCEPT ![t] = @ + 1]
  /\ call' = [call EXCEPT ![t] = "reset"]
  /\ \E n \in 0..MaxEntries : entries' = [entries EXCEPT ![t] = n]
  /\ Goto(t, "copy")
  /\ UNCHANGED lockVars

\* readLock: the list of idle accounts, as long as it is now, is scanned.
ReadLock(t) ==
  /\ pc[t] = "lock" /\ LockShared(t) /\ Goto(t, "scan")
  /\ \E n \in 0..MaxEntries : entries' = [entries EXCEPT ![t] = n]
  /\ UNCHANGED <<call, calls>>

\* The next account is looked at: its vote status is asked for under a read
\* lock of its own, its daily flag is read in place.
NextEntry(t) ==
  /\ pc[t] = "scan" /\ entries[t] > 0
  /\ entries' = [entries EXCEPT ![t] = @ - 1]
  /\ \/ call[t] \in {"vote", "count"} /\ Goto(t, "lock_again")
     \/ call[t] = "daily" /\ (Goto(t, "scan") \/ Goto(t, "found"))
     \/ call[t] = "read" /\ Goto(t, "scan")
  /\ UNCHANGED <<lockVars, call, calls>>

\* get_vote_status: the same thread takes the read lock once more...
ReadLockAgain(t) ==
  /\ pc[t] = "lock_again" /\ LockShared(t) /\ Goto(t, "again")
  /\ UNCHANGED <<call, entries, calls>>

\* ...and leaves it: the account is skipped, counted, or the one looked for.
GetVoteStatus(t) ==
  /\ pc[t] = "again"
  /\ UnlockShared(t, "scan") \/ (call[t] = "vote" /\ UnlockShared(t, "found"))
  /\ UNCHANGED <<call, entries, calls>>

\* Nothing found, or all counted: the read lock's destructor.
EndScan(t) ==
  /\ pc[t] = "scan" /\ entries[t] = 0 /\ UnlockShared(t, "out")
  /\ UNCHANGED <<call, entries, calls>>

\* Mutant of UnlockFound: rlock is still locked when wlock is made.
UnlockFoundKeepsLock(t) ==
  /\ pc[t] = "found" /\ Goto(t, "deref")
  /\ UNCHANGED <<lockVars, call, entries, calls>>

\* rlock.unlock() once the entry is found.
UnlockFound(t) ==
  /\ pc[t] = "found" /\ UnlockShared(t, "deref")
  /\ UNCHANGED <<call, entries, calls>>

\* Mutant of ReadNode: the entry is erased without the write lock.
ReadNodeErases(t) ==
  /\ pc[t] = "deref" /\ Goto(t, "write")
  /\ UNCHANGED <<lockVars, call, entries, calls>>

\* acc = *itor reads the list's node under no lock; then the write lock is
\* asked for, to erase it.
ReadNode(t) ==
  /\ pc[t] = "deref" /\ Goto(t, "want")
  /\ UNCHANGED <<lockVars, call, entries, calls>>

\* for (auto var : accounts_pro) copies an entry with its voted_url, under no
\* lock, and set_everyday_task takes the write lock for it.
CopyEntry(t) ==
  /\ pc[t] = "copy" /\ entries[t] > 0 /\ Goto(t, "want")
  /\ entries' = [entries EXCEPT ![t] = @ - 1]
  /\ UNCHANGED <<lockVars, call, calls>>

EndReset(t) ==
  /\ pc[t] = "copy" /\ entries[t] = 0 /\ Goto(t, "out")
  /\ UNCHANGED <<lockVars, call, entries, calls>>

WriteLock(t) ==
  /\ pc[t] = "want" /\ LockExclusive(t)
  /\ UNCHANGED <<call, entries, calls>>

WriteUnlock(t) ==
  /\ pc[t] = "write"
  /\ exclusive' = NoThread /\ blocked' = FALSE
  /\ Release(t, IF call[t] = "reset" THEN "copy" ELSE "out")
  /\ UNCHANGED <<shared, call, entries, calls>>

-----------------------------------------------------------------------------
Init ==
  /\ shared = [t \in Threads |-> 0]
  /\ exclusive = NoThread /\ blocked = FALSE
  /\ pc = [t \in Threads |-> "out"]
  /\ call = [t \in Threads |-> "read"]
  /\ entries = [t \in Threads |-> 0]
  /\ calls = [t \in Threads |-> 0]

Step(t) ==
  \/ ReadLock(t) \/ NextEntry(t) \/ ReadLockAgain(t) \/ GetVoteStatus(t)
  \/ EndScan(t) \/ UnlockFound(t) \/ ReadNode(t) \/ CopyEntry(t) \/ EndReset(t)
  \/ WriteLock(t) \/ WriteUnlock(t)

Next ==
  \E t \in Threads : (\E c \in Calls \ {"reset"} : Begin(t, c)) \/ BeginReset(t) \/ Step(t)

Spec == Init /\ [][Next]_vars

\* A thread inside a call goes on when the mutex lets it.
Fairness == \A t \in Threads : WF_vars(Step(t))

FairSpec == Spec /\ Fairness

-----------------------------------------------------------------------------
Reading == {"scan", "lock_again", "again", "found"}

\* Where a thread reads or writes accounts_pro or idle_accounts, or may go on
\* to: under the read lock, under the write lock, or under none.
Accessing == Reading \cup {"write", "deref", "copy"}

\* A write of accounts_pro or idle_accounts may overlap two accesses, and the
\* code has no other: the read of the node a lookup has found, after its
\* unlock, and the reset's copies.  Scans, copies of the tables, single flags
\* and other writes stay apart, however the calls take, drop and take again
\* the lock.
OverlapsAreKnown ==
  \A t, u \in Threads :
     pc[t] = "write" /\ u # t /\ pc[u] \in Accessing =>
        \/ pc[u] = "deref" /\ call[u] \in {"vote", "daily"}
        \/ pc[u] = "copy" /\ call[u] = "reset"

\* A thread that reads wants the read lock a second time, and a writer that
\* waits for the first to be returned holds it back.
Wedged == blocked /\ \E t \in Threads : pc[t] = "lock_again"

\* Nested read locks are final: once a writer has come between the two locks
\* of one scan, no step of any thread undoes it.
WedgeIsFinal == [][Wedged => Wedged']_vars

\* The threads in a call that no step of their own can take further.
Stuck(t) ==
  \/ pc[t] \in {"lock", "lock_again"} /\ ~CanShare
  \/ pc[t] = "sleep"

Standstill ==
  /\ \E t \in Threads : pc[t] # "out"
  /\ \A t \in Threads : pc[t] = "out" \/ Stuck(t)

\* The nested read lock is the only way for wx_account_mgr to stand still:
\* rlock is given back before wlock is taken, and no wake-up is missed.
StandstillIsWedge == Standstill => Wedged

\* Every call ends, unless the account manager is wedged.
CallsEnd == <>[](Wedged \/ \A t \in Threads : pc[t] = "out")
=============================================================================
