-------------------------- MODULE WorkQueueProofs --------------------------
(***************************************************************************)
(* work_queue for any number of producers, consumers and tasks: it loses no *)
(* wake-up, and what its callers see is a first-in first-out queue.         *)
(***************************************************************************)
EXTENDS WorkQueue, FiniteSetTheorems, SequenceTheorems, TLAPS

\* The typing of the queue: the sequence of tasks and where a thread may be.
LEMMA QueueTyped == Spec => []TypeOK
<1>1. Init => TypeOK
  BY EmptySeq DEF Init, TypeOK, ProducerLocations, ConsumerLocations
<1>2. TypeOK /\ [Next]_vars => TypeOK'
  <2> SUFFICES ASSUME TypeOK, [Next]_vars PROVE TypeOK'
    OBVIOUS
  <2> USE QueueAssumption DEF TypeOK, ProducerLocations, ConsumerLocations, Goto, At
  <2>1. ASSUME NEW p \in Producers, NEW t \in Tasks, PushTask(p, t) PROVE TypeOK'
    BY <2>1 DEF PushTask
  <2>2. ASSUME NEW p \in Producers, NotifyOne(p) PROVE TypeOK'
    BY <2>2 DEF NotifyOne
  <2>3. ASSUME NEW p \in Producers, Stop(p) PROVE TypeOK'
    BY <2>3 DEF Stop
  <2>4. ASSUME NEW p \in Producers, NotifyAll(p) PROVE TypeOK'
    BY <2>4 DEF NotifyAll
  <2>5. ASSUME NEW p \in Producers, Clear(p) PROVE TypeOK'
    BY <2>5, EmptySeq DEF Clear
  <2>6. ASSUME NEW c \in Consumers, CallPop(c) PROVE TypeOK'
    BY <2>6 DEF CallPop
  <2>7. ASSUME NEW c \in Consumers, PopFront(c) PROVE TypeOK'
    BY <2>7 DEF PopFront, Testing
  <2>8. ASSUME NEW c \in Consumers, PopStopped(c) \/ Wait(c) \/ SpuriousWakeup(c)
        PROVE  TypeOK'
    BY <2>8 DEF PopStopped, Wait, SpuriousWakeup
  <2>9. CASE UNCHANGED vars
    BY <2>9 DEF vars
  <2> QED
    BY <2>1, <2>2, <2>3, <2>4, <2>5, <2>6, <2>7, <2>8, <2>9
    DEF Next, Finishing, Popping
<1> QED
  BY <1>1, <1>2, PTL DEF Spec

-----------------------------------------------------------------------------
LEMMA ThreadSetsFinite ==
  /\ IsFiniteSet(Notifying) /\ Cardinality(Notifying) \in Nat
  /\ IsFiniteSet(Woken) /\ Cardinality(Woken) \in Nat
<1>1. Notifying \subseteq Producers /\ Woken \subseteq Consumers
  BY DEF Notifying, Woken, At
<1> QED
  BY <1>1, QueueAssumption, FS_Subset, FS_CardinalityType

LEMMA ThreadSetsFiniteNext ==
  TypeOK' => Cardinality(Notifying)' \in Nat /\ Cardinality(Woken)' \in Nat
<1>1. Notifying' \subseteq Producers /\ Woken' \subseteq Consumers
  BY DEF Notifying, Woken, At
<1> QED
  BY <1>1, QueueAssumption, FS_Subset, FS_CardinalityType

\* A thread that changes neither set leaves the account of wake-ups alone.
LEMMA SameThreads ==
  ASSUME NoLostWakeup, UNCHANGED <<tasks, Notifying, Woken>>,
         Asleep' \subseteq Asleep
  PROVE  NoLostWakeup'
BY DEF NoLostWakeup

LEMMA WakeupsKept == TypeOK /\ NoLostWakeup /\ [Next]_vars => NoLostWakeup'
<1> SUFFICES ASSUME TypeOK, NoLostWakeup, [Next]_vars PROVE NoLostWakeup'
  OBVIOUS
<1> USE QueueAssumption
<1>0. /\ IsFiniteSet(Notifying) /\ Cardinality(Notifying) \in Nat
      /\ IsFiniteSet(Woken) /\ Cardinality(Woken) \in Nat
      /\ Len(tasks) \in Nat
  BY ThreadSetsFinite DEF TypeOK
<1>1. ASSUME NEW p \in Producers, NEW t \in Tasks, PushTask(p, t)
      PROVE  NoLostWakeup'
  <2>1. /\ Notifying' = Notifying \cup {p} /\ p \notin Notifying
        /\ Woken' = Woken /\ Asleep' = Asleep
    BY <1>1 DEF PushTask, Goto, TypeOK, Notifying, Woken, Asleep, At
  <2>2. Len(tasks') = Len(tasks) + 1
    BY <1>1 DEF PushTask, TypeOK
  <2>3. Cardinality(Notifying') = Cardinality(Notifying) + 1
    BY <1>0, <2>1, FS_AddElement
  <2> QED
    BY <1>0, <2>1, <2>2, <2>3 DEF NoLostWakeup
<1>2. ASSUME NEW p \in Producers, NotifyOne(p) PROVE NoLostWakeup'
  <2>1. CASE Asleep = {}
    <3>1. Asleep' = {}
      BY <1>2, <2>1 DEF NotifyOne, Goto, TypeOK, Asleep, At
    <3> QED BY <3>1 DEF NoLostWakeup
  <2>2. CASE Asleep # {}
    <3>1. PICK c \in Asleep : pc' = [pc EXCEPT ![p] = "out", ![c] = "woken"]
      BY <1>2, <2>2 DEF NotifyOne, Asleep
    <3>2. /\ Notifying' = Notifying \ {p} /\ p \in Notifying
          /\ Woken' = Woken \cup {c} /\ c \notin Woken
      BY <1>2, <3>1 DEF NotifyOne, TypeOK, Notifying, Woken, Asleep, At
    <3>3. /\ Cardinality(Notifying') = Cardinality(Notifying) - 1
          /\ Cardinality(Woken') = Cardinality(Woken) + 1
      BY <1>0, <3>2, FS_AddElement, FS_RemoveElement
    <3> QED
      BY <1>0, <1>2, <2>2, <3>3 DEF NoLostWakeup, NotifyOne
  <2> QED BY <2>1, <2>2
<1>3. ASSUME NEW p \in Producers, Stop(p) PROVE NoLostWakeup'
  <2>1. UNCHANGED <<tasks, Notifying, Woken, Asleep>>
    BY <1>3 DEF Stop, Goto, TypeOK, Notifying, Woken, Asleep, At
  <2> QED BY <2>1, SameThreads
<1>4. ASSUME NEW p \in Producers, NotifyAll(p) PROVE NoLostWakeup'
  <2>1. Asleep' = {}
    BY <1>4 DEF NotifyAll, TypeOK, Asleep, At
  <2> QED BY <2>1 DEF NoLostWakeup
<1>5. ASSUME NEW p \in Producers, Clear(p) PROVE NoLostWakeup'
  <2>1. Len(tasks') = 0 /\ UNCHANGED <<Notifying, Woken>>
    BY <1>5 DEF Clear, Goto, TypeOK, Notifying, Woken, At
  <2> QED BY <1>0, <2>1 DEF NoLostWakeup
<1>6. ASSUME NEW c \in Consumers, CallPop(c) PROVE NoLostWakeup'
  <2>1. UNCHANGED <<tasks, Notifying, Woken, Asleep>>
    BY <1>6 DEF CallPop, Goto, TypeOK, Notifying, Woken, Asleep, At
  <2> QED BY <2>1, SameThreads
<1>7. ASSUME NEW c \in Consumers, PopFront(c) PROVE NoLostWakeup'
  <2>1. Notifying' = Notifying /\ Asleep' = Asleep /\ Woken' = Woken \ {c}
    BY <1>7 DEF PopFront, Testing, Goto, TypeOK, Notifying, Woken, Asleep, At
  <2>2. Len(tasks') = Len(tasks) - 1
    BY <1>7, HeadTailProperties DEF PopFront, TypeOK
  <2>3. Cardinality(Woken') >= Cardinality(Woken) - 1 /\ Cardinality(Woken') \in Nat
    <3>1. /\ IsFiniteSet(Woken \ {c})
          /\ Cardinality(Woken \ {c}) =
                IF c \in Woken THEN Cardinality(Woken) - 1 ELSE Cardinality(Woken)
      BY <1>0, FS_RemoveElement
    <3>2. Cardinality(Woken \ {c}) \in Nat
      BY <3>1, FS_CardinalityType
    <3> QED BY <1>0, <2>1, <3>1, <3>2
  <2> QED BY <1>0, <2>1, <2>2, <2>3 DEF NoLostWakeup
<1>8. ASSUME NEW c \in Consumers, PopStopped(c) \/ Wait(c) PROVE NoLostWakeup'
  <2>1. Len(tasks') = 0 /\ TypeOK'
    BY <1>8 DEF PopStopped, Wait, Testing, Goto, TypeOK, ConsumerLocations
  <2>2. Cardinality(Notifying)' \in Nat /\ Cardinality(Woken)' \in Nat
    BY <2>1, ThreadSetsFiniteNext
  <2> QED BY <2>1, <2>2 DEF NoLostWakeup
<1>9. ASSUME NEW c \in Consumers, SpuriousWakeup(c) PROVE NoLostWakeup'
  <2>1. /\ Notifying' = Notifying /\ Woken' = Woken \cup {c} /\ c \notin Woken
        /\ Asleep' \subseteq Asleep
    BY <1>9 DEF SpuriousWakeup, Goto, TypeOK, Notifying, Woken, Asleep, At
  <2>2. Cardinality(Woken') = Cardinality(Woken) + 1
    BY <1>0, <2>1, FS_AddElement
  <2> QED BY <1>0, <1>9, <2>1, <2>2 DEF NoLostWakeup, SpuriousWakeup
<1>10. CASE UNCHANGED vars
  <2>1. UNCHANGED <<tasks, Notifying, Woken, Asleep>>
    BY <1>10 DEF vars, Notifying, Woken, Asleep, At
  <2> QED BY <2>1, SameThreads
<1> QED
  BY <1>1, <1>2, <1>3, <1>4, <1>5, <1>6, <1>7, <1>8, <1>9, <1>10
  DEF Next, Finishing, Popping

\* work_queue.hpp announces a task after it has unlocked the mutex.  With any
\* number of threads, a consumer still does not sleep over a task that no
\* notification and no woken consumer is there for.
THEOREM WakeupsAreNotLost == Spec => []NoLostWakeup
<1>1. Init => NoLostWakeup
  BY DEF Init, NoLostWakeup, Asleep, At
<1> QED
  BY <1>1, WakeupsKept, QueueTyped, PTL DEF Spec

-----------------------------------------------------------------------------
LEMMA StopKept == TypeOK /\ StopWakesAll /\ [Next]_vars => StopWakesAll'
<1> SUFFICES ASSUME TypeOK, StopWakesAll, [Next]_vars PROVE StopWakesAll'
  OBVIOUS
<1> USE QueueAssumption DEF StopWakesAll, Asleep, At, TypeOK, Goto
<1>1. ASSUME NEW p \in Producers, NEW t \in Tasks, PushTask(p, t)
      PROVE  StopWakesAll'
  BY <1>1 DEF PushTask
<1>2. ASSUME NEW p \in Producers, NotifyOne(p) PROVE StopWakesAll'
  BY <1>2 DEF NotifyOne, ProducerLocations, ConsumerLocations
<1>3. ASSUME NEW p \in Producers, Stop(p) PROVE StopWakesAll'
  BY <1>3 DEF Stop
<1>4. ASSUME NEW p \in Producers, NotifyAll(p) PROVE StopWakesAll'
  BY <1>4 DEF NotifyAll
<1>5. ASSUME NEW p \in Producers, Clear(p) PROVE StopWakesAll'
  BY <1>5 DEF Clear
<1>6. ASSUME NEW c \in Consumers,
             CallPop(c) \/ PopFront(c) \/ PopStopped(c) \/ Wait(c) \/ SpuriousWakeup(c)
      PROVE  StopWakesAll'
  BY <1>6 DEF CallPop, PopFront, PopStopped, Wait, SpuriousWakeup
<1>7. CASE UNCHANGED vars
  BY <1>7 DEF vars
<1> QED
  BY <1>1, <1>2, <1>3, <1>4, <1>5, <1>6, <1>7 DEF Next, Finishing, Popping

\* stop reaches every consumer, however many sleep: when it has returned and
\* nobody has reopened the queue with clear, nobody sleeps.
THEOREM StopReachesAll == Spec => []StopWakesAll
<1>1. Init => StopWakesAll
  BY DEF Init, StopWakesAll
<1> QED
  BY <1>1, StopKept, QueueTyped, PTL DEF Spec

-----------------------------------------------------------------------------
\* Every step under the mutex is a step of the queue that TaskFifo promises,
\* every notification and wake-up a stutter.
THEOREM QueueImplementsFifo == Spec => ImplementsFifo
<1>1. Init => Fifo!FifoInit
  BY QueueAssumption DEF Init, Fifo!FifoInit
<1>2. TypeOK /\ [Next]_vars => [Fifo!FifoNext]_(Fifo!fifoVars)
  <2> SUFFICES ASSUME TypeOK, [Next]_vars
               PROVE  [Fifo!FifoNext]_(Fifo!fifoVars)
    OBVIOUS
  <2> USE QueueAssumption DEF Fifo!fifoVars, Goto, TypeOK
  <2>1. ASSUME NEW p \in Producers, NEW t \in Tasks, PushTask(p, t)
        PROVE  Fifo!Put(t)
    BY <2>1 DEF PushTask, Fifo!Put
  <2>2. ASSUME NEW p \in Producers, NotifyOne(p) \/ NotifyAll(p)
        PROVE  UNCHANGED Fifo!fifoVars
    BY <2>2 DEF NotifyOne, NotifyAll, At
  <2>3. ASSUME NEW p \in Producers, Stop(p) PROVE Fifo!Close
    BY <2>3 DEF Stop, Fifo!Close
  <2>4. ASSUME NEW p \in Producers, Clear(p) PROVE Fifo!Reopen
    BY <2>4 DEF Clear, Fifo!Reopen
  <2>5. ASSUME NEW c \in Consumers, CallPop(c) PROVE Fifo!Ask(c)
    BY <2>5 DEF CallPop, Fifo!Ask
  <2>6. ASSUME NEW c \in Consumers, PopFront(c) PROVE Fifo!Get(c)
    BY <2>6 DEF PopFront, Testing, Fifo!Get, Fifo!Answer
  <2>7. ASSUME NEW c \in Consumers, PopStopped(c) PROVE Fifo!GetNothing(c)
    BY <2>7 DEF PopStopped, Testing, Fifo!GetNothing, Fifo!Answer
  <2>8. ASSUME NEW c \in Consumers, Wait(c) \/ SpuriousWakeup(c)
        PROVE  UNCHANGED Fifo!fifoVars
    BY <2>8 DEF Wait, SpuriousWakeup, Testing
  <2>9. CASE UNCHANGED vars
    BY <2>9 DEF vars
  <2> QED
    BY <2>1, <2>2, <2>3, <2>4, <2>5, <2>6, <2>7, <2>8, <2>9
    DEF Next, Finishing, Popping, Fifo!FifoNext
<1> QED
  BY <1>1, <1>2, QueueTyped, PTL DEF Spec, ImplementsFifo, Fifo!FifoSpec
=============================================================================
