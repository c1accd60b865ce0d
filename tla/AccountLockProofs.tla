------------------------- MODULE AccountLockProofs -------------------------
(***************************************************************************)
(* The read-write lock of wx_account_mgr for any number of threads, calls   *)
(* and idle accounts: a write overlaps nothing but the two accesses the     *)
(* code makes without the lock, a nested read lock that a writer has come   *)
(* between is final, and nothing else makes the calls stand still.          *)
(***************************************************************************)
EXTENDS AccountLock, TLAPS

Held == exclusive # NoThread \/ \E t \in Threads : shared[t] > 0

\* What a thread holds follows from where it is.
LocksFollowPc ==
  \A t \in Threads :
     /\ pc[t] \in {"scan", "lock_again", "found"} => shared[t] = 1
     /\ pc[t] = "again" => shared[t] = 2
     /\ pc[t] \notin Reading => shared[t] = 0
     /\ pc[t] = "write" <=> exclusive = t

ReadersOrWriter == exclusive # NoThread => \A t \in Threads : shared[t] = 0

\* A writer waits for somebody: readers are held back only while the lock is
\* held, and a sleeping writer is woken by the holder or by one woken before it.
WaitersAreOwed ==
  /\ blocked => Held
  /\ Sleepers # {} => (Held \/ \E t \in Threads : pc[t] = "want")

\* A thread is outside the lock only in the calls that leave it early or take
\* none.
UnlockedCalls ==
  \A t \in Threads :
     /\ pc[t] \in {"found", "deref"} => call[t] \in {"vote", "daily"}
     /\ pc[t] = "again" => call[t] \in {"vote", "count"}
     /\ pc[t] = "lock_again" => call[t] \in {"vote", "count"}
     /\ pc[t] = "copy" => call[t] = "reset"

LockInv ==
  TypeOK /\ LocksFollowPc /\ ReadersOrWriter /\ WaitersAreOwed /\ UnlockedCalls

-----------------------------------------------------------------------------
\* What Release leaves of the other threads: one sleeper may be woken.
LEMMA ReleaseMoves ==
  ASSUME TypeOK, NEW t \in Threads, NEW l \in Locations \ {"sleep"},
         pc[t] # "sleep", Release(t, l)
  PROVE  /\ pc' \in [Threads -> Locations] /\ pc'[t] = l
         /\ \A u \in Threads \ {t} :
               pc'[u] = pc[u] \/ (pc[u] = "sleep" /\ pc'[u] = "want")
         /\ Sleepers' # {} => \E u \in Threads : pc'[u] = "want"
BY DEF TypeOK, Release, Goto, Sleepers, Locations

LEMMA UnlockSharedMoves ==
  ASSUME LockInv, NEW t \in Threads, NEW l \in Locations \ {"sleep", "write"},
         shared[t] > 0, UnlockShared(t, l)
  PROVE  /\ shared' = [shared EXCEPT ![t] = @ - 1] /\ shared' \in [Threads -> 0..2]
         /\ exclusive = NoThread /\ exclusive' = NoThread
         /\ pc' \in [Threads -> Locations] /\ pc'[t] = l
         /\ \A u \in Threads \ {t} :
               pc'[u] = pc[u] \/ (pc[u] = "sleep" /\ pc'[u] = "want")
         /\ blocked' \in BOOLEAN
         /\ WaitersAreOwed'
<1> USE DEF LockInv
<1>1. pc[t] \in Reading /\ exclusive = NoThread
  BY DEF LocksFollowPc, ReadersOrWriter, TypeOK, Reading
<1>2. shared' = [shared EXCEPT ![t] = @ - 1] /\ exclusive' = NoThread
  BY <1>1 DEF UnlockShared
<1>3. shared' \in [Threads -> 0..2]
  BY <1>2 DEF TypeOK
<1>4. CASE (\E u \in Threads : shared'[u] > 0) /\ Goto(t, l) /\ UNCHANGED blocked
  BY <1>1, <1>2, <1>3, <1>4 DEF TypeOK, Goto, WaitersAreOwed, Held
<1>5. CASE (\A u \in Threads : shared'[u] = 0) /\ Release(t, l) /\ blocked' = FALSE
  <2>1. pc[t] # "sleep"
    BY <1>1 DEF Reading
  <2> QED
    BY <1>1, <1>2, <1>3, <1>5, <2>1, ReleaseMoves DEF TypeOK, WaitersAreOwed
<1> QED
  BY <1>1, <1>2, <1>3, <1>4, <1>5 DEF UnlockShared

\* A thread gives back one read lock and goes on.
LEMMA UnlockSharedInv ==
  ASSUME LockInv, NEW t \in Threads, NEW l \in Locations,
         UnlockShared(t, l), UNCHANGED <<call, entries, calls>>,
         \/ pc[t] = "scan" /\ l = "out"
         \/ pc[t] = "found" /\ l = "deref"
         \/ pc[t] = "again" /\ (l = "scan" \/ (l = "found" /\ call[t] = "vote"))
  PROVE  LockInv'
<1>1. shared[t] > 0
  BY DEF LockInv, LocksFollowPc, TypeOK
<1>2. /\ shared' = [shared EXCEPT ![t] = @ - 1] /\ shared' \in [Threads -> 0..2]
      /\ exclusive = NoThread /\ exclusive' = NoThread
      /\ pc' \in [Threads -> Locations] /\ pc'[t] = l
      /\ \A u \in Threads \ {t} :
            pc'[u] = pc[u] \/ (pc[u] = "sleep" /\ pc'[u] = "want")
      /\ blocked' \in BOOLEAN /\ WaitersAreOwed'
  BY <1>1, UnlockSharedMoves
<1>3. TypeOK'
  BY <1>2 DEF LockInv, TypeOK
<1>4. LocksFollowPc'
  BY <1>2, LockAssumption DEF LockInv, LocksFollowPc, TypeOK, Reading
<1>5. UnlockedCalls'
  BY <1>2 DEF LockInv, UnlockedCalls
<1> QED
  BY <1>2, <1>3, <1>4, <1>5 DEF LockInv, ReadersOrWriter

\* A thread takes the read lock, the first or the second time.
LEMMA LockSharedInv ==
  ASSUME LockInv, NEW t \in Threads, ReadLock(t) \/ ReadLockAgain(t)
  PROVE  LockInv'
<1> USE LockAssumption DEF LockInv
<1>1. shared' = [shared EXCEPT ![t] = @ + 1] /\ CanShare
      /\ UNCHANGED <<exclusive, blocked>>
  BY DEF ReadLock, ReadLockAgain, LockShared
<1>2. /\ shared[t] < 2 /\ shared' \in [Threads -> 0..2] /\ shared'[t] > 0
      /\ pc' \in [Threads -> Locations]
  BY <1>1 DEF TypeOK, LocksFollowPc, ReadLock, ReadLockAgain, Goto, Reading, Locations
<1>3. TypeOK'
  BY <1>1, <1>2 DEF TypeOK, ReadLock, ReadLockAgain
<1>4. LocksFollowPc'
  BY <1>1 DEF TypeOK, LocksFollowPc, ReadLock, ReadLockAgain, Goto, Reading, CanShare
<1>5. ReadersOrWriter' /\ WaitersAreOwed'
  BY <1>1, <1>2 DEF ReadersOrWriter, WaitersAreOwed, CanShare, Held,
     ReadLock, ReadLockAgain, Goto, Sleepers, TypeOK
<1>6. UnlockedCalls'
  BY DEF UnlockedCalls, ReadLock, ReadLockAgain, Goto, TypeOK
<1> QED
  BY <1>3, <1>4, <1>5, <1>6

LEMMA WriteLockInv ==
  ASSUME LockInv, NEW t \in Threads, WriteLock(t)
  PROVE  LockInv'
<1> USE LockAssumption DEF LockInv
<1>1. TypeOK'
  BY DEF TypeOK, WriteLock, LockExclusive, Goto, Locations
<1>2. LocksFollowPc' /\ ReadersOrWriter'
  BY DEF TypeOK, WriteLock, LockExclusive, Goto, LocksFollowPc, ReadersOrWriter, Reading
<1>3. Held'
  <2>1. CASE exclusive' = t
    BY <2>1 DEF Held
  <2>2. CASE /\ exclusive # NoThread \/ \E u \in Threads : shared[u] > 0
             /\ UNCHANGED <<shared, exclusive>>
    BY <2>2 DEF Held
  <2> QED BY <2>1, <2>2 DEF WriteLock, LockExclusive
<1>4. WaitersAreOwed'
  BY <1>3 DEF WaitersAreOwed
<1>5. UnlockedCalls'
  BY DEF UnlockedCalls, WriteLock, LockExclusive, Goto, TypeOK
<1> QED
  BY <1>1, <1>2, <1>4, <1>5

LEMMA WriteUnlockInv ==
  ASSUME LockInv, NEW t \in Threads, WriteUnlock(t)
  PROVE  LockInv'
<1> USE LockAssumption DEF LockInv
<1> DEFINE l == IF call[t] = "reset" THEN "copy" ELSE "out"
<1>1. /\ pc' \in [Threads -> Locations] /\ pc'[t] = l /\ pc[t] = "write"
      /\ \A u \in Threads \ {t} :
            pc'[u] = pc[u] \/ (pc[u] = "sleep" /\ pc'[u] = "want")
      /\ Sleepers' # {} => \E u \in Threads : pc'[u] = "want"
  BY ReleaseMoves DEF WriteUnlock, Locations
<1>2. TypeOK'
  BY <1>1 DEF TypeOK, WriteUnlock
<1>3. LocksFollowPc' /\ ReadersOrWriter'
  BY <1>1 DEF LocksFollowPc, ReadersOrWriter, WriteUnlock, TypeOK, Reading
<1>4. WaitersAreOwed'
  BY <1>1 DEF WaitersAreOwed, WriteUnlock
<1>5. UnlockedCalls'
  BY <1>1 DEF UnlockedCalls, WriteUnlock
<1> QED
  BY <1>2, <1>3, <1>4, <1>5

\* The steps that leave the lock as it is: a call or a loop begins, comes to
\* the next account or ends, a found node is read.
LockFree(t) ==
  \/ (\E c \in Calls \ {"reset"} : Begin(t, c)) \/ BeginReset(t)
  \/ NextEntry(t) \/ ReadNode(t) \/ CopyEntry(t) \/ EndReset(t)

LEMMA LockFreeMoves ==
  ASSUME LockInv, NEW t \in Threads, LockFree(t)
  PROVE  /\ UNCHANGED lockVars /\ entries' \in [Threads -> 0..MaxEntries]
         /\ call' \in [Threads -> Calls] /\ calls' \in [Threads -> 0..MaxCalls]
         /\ \A u \in Threads \ {t} : pc'[u] = pc[u] /\ call'[u] = call[u]
         /\ pc' \in [Threads -> Locations]
         /\ pc[t] \in {"out", "deref", "copy"}
              => pc'[t] \in {"lock", "want", "copy", "out"}
         /\ pc'[t] = "copy" => call'[t] = "reset"
         /\ pc[t] \notin {"out", "deref", "copy"}
              => /\ pc[t] = "scan" /\ call'[t] = call[t]
                 /\ \/ pc'[t] = "scan"
                    \/ pc'[t] = "lock_again" /\ call[t] \in {"vote", "count"}
                    \/ pc'[t] = "found" /\ call[t] = "daily"
         /\ pc[t] \notin {"sleep", "want", "write"}
<1> USE LockAssumption DEF LockInv, TypeOK, Goto, Locations, Calls
<1>1. ASSUME NEW c \in Calls \ {"reset"}, Begin(t, c) PROVE calls' \in [Threads -> 0..MaxCalls]
  BY <1>1 DEF Begin
<1>2. ASSUME BeginReset(t) PROVE calls' \in [Threads -> 0..MaxCalls]
  BY <1>2 DEF BeginReset
<1> QED
  BY <1>1, <1>2 DEF LockFree, Begin, BeginReset, NextEntry, ReadNode, CopyEntry,
     EndReset, lockVars

LEMMA LockFreeStepInv ==
  ASSUME LockInv, NEW t \in Threads, LockFree(t)
  PROVE  LockInv'
<1> USE LockAssumption DEF LockInv
<1>1. TypeOK'
  BY LockFreeMoves DEF TypeOK, lockVars
<1>2. LocksFollowPc' /\ ReadersOrWriter'
  BY LockFreeMoves DEF TypeOK, LocksFollowPc, ReadersOrWriter, lockVars, Reading
<1>3. WaitersAreOwed'
  BY LockFreeMoves DEF TypeOK, WaitersAreOwed, Held, lockVars, Sleepers
<1>4. UnlockedCalls'
  BY LockFreeMoves DEF UnlockedCalls
<1> QED
  BY <1>1, <1>2, <1>3, <1>4

\* The locks held follow from where the threads are, and every waiter waits
\* for a thread that will let it in: the inductive invariant of rwmutex_.
THEOREM LockInvariant == Spec => []LockInv
<1>1. Init => LockInv
  <2> SUFFICES ASSUME Init PROVE LockInv
    OBVIOUS
  <2>1. TypeOK
    <3>1. 0 \in 0..2 /\ 0 \in 0..MaxEntries /\ 0 \in 0..MaxCalls
      BY LockAssumption
    <3> QED BY <3>1 DEF Init, TypeOK, Locations, Calls
  <2>2. LocksFollowPc /\ ReadersOrWriter
    BY LockAssumption DEF Init, LocksFollowPc, ReadersOrWriter, Reading
  <2>3. WaitersAreOwed /\ UnlockedCalls
    BY DEF Init, WaitersAreOwed, Sleepers, UnlockedCalls
  <2> QED BY <2>1, <2>2, <2>3 DEF LockInv
<1>2. LockInv /\ [Next]_vars => LockInv'
  <2> SUFFICES ASSUME LockInv, [Next]_vars PROVE LockInv'
    OBVIOUS
  <2>1. ASSUME NEW t \in Threads,
               GetVoteStatus(t) \/ EndScan(t) \/ UnlockFound(t)
        PROVE  LockInv'
    BY <2>1, UnlockSharedInv
    DEF GetVoteStatus, EndScan, UnlockFound, Locations
  <2>2. CASE UNCHANGED vars
    BY <2>2 DEF vars, lockVars, LockInv, TypeOK, LocksFollowPc, ReadersOrWriter,
       WaitersAreOwed, Held, Sleepers, UnlockedCalls
  <2> QED
    BY <2>1, <2>2, LockFreeStepInv, LockSharedInv, WriteLockInv, WriteUnlockInv
    DEF Next, Step, LockFree
<1> QED
  BY <1>1, <1>2, PTL DEF Spec

-----------------------------------------------------------------------------
\* With any threads and lists, a write of the account tables overlaps no
\* access but the two that the code makes without rwmutex_.
THEOREM WritesOverlapUnlocked == Spec => []OverlapsAreKnown
<1>1. LockInv => OverlapsAreKnown
  BY LockAssumption
  DEF LockInv, TypeOK, LocksFollowPc, ReadersOrWriter, UnlockedCalls,
      OverlapsAreKnown, Accessing, Reading
<1> QED
  BY <1>1, LockInvariant, PTL

\* The calls stand still only when a nested read lock has met a writer.
THEOREM OnlyNestedReadsStandStill == Spec => []StandstillIsWedge
<1>1. LockInv => StandstillIsWedge
  <2> SUFFICES ASSUME LockInv, Standstill PROVE Wedged
    BY DEF StandstillIsWedge
  <2> USE DEF LockInv
  <2>1. \A t \in Threads : pc[t] \in {"out", "lock", "lock_again", "sleep"}
    BY DEF Standstill, Stuck
  <2>2. CASE \E t \in Threads : pc[t] = "lock_again"
    <3>1. PICK t \in Threads : pc[t] = "lock_again"
      BY <2>2
    <3>2. shared[t] = 1 /\ exclusive = NoThread
      BY <3>1 DEF LocksFollowPc, ReadersOrWriter
    <3>3. ~CanShare
      BY <3>1 DEF Standstill, Stuck
    <3> QED BY <3>1, <3>2, <3>3 DEF CanShare, Wedged
  <2>3. CASE \A t \in Threads : pc[t] # "lock_again"
    <3>1. ~Held
      BY <2>1, <2>3 DEF Held, LocksFollowPc, TypeOK, Reading
    <3>2. ~blocked /\ Sleepers = {} /\ CanShare
      BY <2>1, <3>1 DEF WaitersAreOwed, CanShare, Held
    <3>3. PICK t \in Threads : pc[t] # "out"
      BY DEF Standstill
    <3>4. pc[t] = "sleep" \/ ~CanShare
      BY <3>3 DEF Standstill, Stuck
    <3> QED BY <3>2, <3>4 DEF Sleepers
  <2> QED BY <2>2, <2>3
<1> QED
  BY <1>1, LockInvariant, PTL

-----------------------------------------------------------------------------
\* No step of any thread undoes a wedge, so the account manager is lost for
\* every session from then on.
THEOREM WedgesAreFinal == Spec => WedgeIsFinal
<1>1. LockInv /\ [Next]_vars => (Wedged => Wedged')
  <2> SUFFICES ASSUME LockInv, [Next]_vars, Wedged PROVE Wedged'
    OBVIOUS
  <2> USE LockAssumption DEF LockInv
  <2>1. PICK r \in Threads : pc[r] = "lock_again"
    BY DEF Wedged
  <2>2. shared[r] = 1 /\ blocked /\ exclusive = NoThread
    BY <2>1 DEF LocksFollowPc, ReadersOrWriter, Wedged
  <2>3. ASSUME NEW t \in Threads, NEW l \in Locations, UnlockShared(t, l), t # r
        PROVE  blocked' /\ pc'[r] = "lock_again"
    <3>1. shared'[r] = 1
      BY <2>2, <2>3 DEF UnlockShared, TypeOK
    <3>2. \E u \in Threads : shared'[u] > 0
      BY <3>1
    <3>3. Goto(t, l) /\ UNCHANGED blocked
      BY <2>3, <3>1, <3>2 DEF UnlockShared
    <3> QED
      BY <2>1, <2>2, <2>3, <3>3 DEF Goto, TypeOK
  <2>4. ASSUME NEW t \in Threads, GetVoteStatus(t) \/ EndScan(t) \/ UnlockFound(t)
        PROVE  Wedged'
    <3>1. t # r
      BY <2>1, <2>4 DEF GetVoteStatus, EndScan, UnlockFound
    <3> QED
      BY <2>3, <2>4, <3>1
      DEF GetVoteStatus, EndScan, UnlockFound, Wedged, Locations
  <2>5. ASSUME NEW t \in Threads, ReadLock(t) \/ ReadLockAgain(t) PROVE Wedged'
    BY <2>2, <2>5 DEF ReadLock, ReadLockAgain, LockShared, CanShare
  <2>6. ASSUME NEW t \in Threads, WriteLock(t) PROVE Wedged'
    <3>1. ~ \A u \in Threads : shared[u] = 0
      BY <2>2
    <3>2. blocked' /\ pc' = [pc EXCEPT ![t] = "sleep"] /\ pc[t] = "want"
      BY <2>6, <3>1 DEF WriteLock, LockExclusive, Goto
    <3> QED BY <2>1, <3>2 DEF Wedged, TypeOK
  <2>7. ASSUME NEW t \in Threads, WriteUnlock(t) PROVE Wedged'
    BY <2>2, <2>7 DEF WriteUnlock, LocksFollowPc
  <2>8. ASSUME NEW t \in Threads, LockFree(t) PROVE Wedged'
    BY <2>1, <2>2, <2>8, LockFreeMoves DEF lockVars, Wedged
  <2>9. CASE UNCHANGED vars
    BY <2>9 DEF vars, lockVars, Wedged
  <2> QED
    BY <2>4, <2>5, <2>6, <2>7, <2>8, <2>9 DEF Next, Step, LockFree
<1> QED
  BY <1>1, LockInvariant, PTL DEF Spec, WedgeIsFinal
=============================================================================
