-------------------------- MODULE TaskCycleProofs --------------------------
(***************************************************************************)
(* The way of a task, for any number of tasks and crashes: a finished task *)
(* has its own result and is not done again.                                *)
(***************************************************************************)
EXTENDS TaskCycle, SequenceTheorems, FiniteSetTheorems, TLAPS

Located == process # "running" => pc = "none"

\* The queue and the thread have tasks stored as queuing, and each only once.
QueuedOnce ==
  /\ \A i \in DOMAIN fifo : status[fifo[i]] = "queuing"
  /\ \A i, j \in DOMAIN fifo : i # j => fifo[i] # fifo[j]
  /\ Working => /\ Current \in Tasks /\ status[Current] = "queuing"
                /\ \A i \in DOMAIN fifo : fifo[i] # Current

\* on_read lets no task with another command into the table.
VotesOnly == \A t \in Tasks : status[t] # "none" => Kind[t] # "other"

TextIsOwn ==
  /\ pc = "save" => text = Current
  /\ pc = "status" => result[Current] = Current

CycleInv ==
  /\ TypeOK /\ Located /\ QueuedOnce /\ VotesOnly /\ TextIsOwn
  /\ ResultBelongsToTask /\ FinishedHasResult

-----------------------------------------------------------------------------
LEMMA CycleInit == Init => CycleInv
<1> SUFFICES ASSUME Init PROVE CycleInv
  OBVIOUS
<1> USE DEF Init, FifoInit
<1>1. TypeOK
  <2>1. 0 \in 0..(MaxCrashes + 1) /\ 0 \in 0..MaxCrashes /\ <<>> \in Seq(Tasks)
    BY CycleAssumption, EmptySeq
  <2> QED BY <2>1 DEF TypeOK
<1>2. QueuedOnce
  BY DEF QueuedOnce, Working
<1>3. Located /\ VotesOnly /\ TextIsOwn /\ ResultBelongsToTask /\ FinishedHasResult
  BY DEF Located, VotesOnly, TextIsOwn, ResultBelongsToTask, FinishedHasResult
<1> QED
  BY <1>1, <1>2, <1>3 DEF CycleInv

\* add_task: the new row and the new entry of the queue.
LEMMA AddTaskInv ==
  ASSUME CycleInv, NEW t \in Tasks, AddTask(t)
  PROVE  CycleInv'
<1> USE CycleAssumption DEF CycleInv, AddTask, Put
<1>1. /\ fifo' \in Seq(Tasks)
      /\ DOMAIN fifo' = 1..(Len(fifo) + 1) /\ DOMAIN fifo = 1..Len(fifo)
      /\ Len(fifo) \in Nat
      /\ \A i \in DOMAIN fifo : fifo'[i] = fifo[i]
      /\ fifo'[Len(fifo) + 1] = t
  BY AppendProperties, LenProperties DEF TypeOK
<1>2. TypeOK'
  BY <1>1 DEF TypeOK
<1>3. \A i \in DOMAIN fifo : fifo[i] \in Tasks /\ fifo[i] # t
  BY ElementOfSeq DEF TypeOK, QueuedOnce
<1>4. QueuedOnce'
  <2>1. \A i \in DOMAIN fifo' : status'[fifo'[i]] = "queuing"
    BY <1>1, <1>3 DEF QueuedOnce, TypeOK
  <2>2. \A i, j \in DOMAIN fifo' : i # j => fifo'[i] # fifo'[j]
    BY <1>1, <1>3 DEF QueuedOnce
  <2>3. (Working => /\ Current \in Tasks /\ status[Current] = "queuing"
                    /\ \A i \in DOMAIN fifo : fifo[i] # Current)'
    BY <1>1 DEF QueuedOnce, TypeOK, Working, Current
  <2> QED BY <2>1, <2>2, <2>3 DEF QueuedOnce
<1>5. VotesOnly'
  BY DEF VotesOnly, Accepts, TypeOK
<1>6. (Located /\ TextIsOwn /\ ResultBelongsToTask /\ FinishedHasResult)'
  BY DEF Located, TextIsOwn, ResultBelongsToTask, FinishedHasResult, TypeOK, Current
<1> QED
  BY <1>2, <1>4, <1>5, <1>6

\* init queues every row it loads once.
LEMMA StartInv ==
  ASSUME CycleInv, Start
  PROVE  CycleInv'
<1> USE CycleAssumption DEF CycleInv, Start
<1>1. Loaded \subseteq Tasks /\ Loaded = Queuing
  BY DEF Loaded, Queuing, TypeOK
<1>2. /\ fifo' \in [1..Cardinality(Loaded) -> Loaded]
      /\ \A i, j \in DOMAIN fifo' : i # j => fifo'[i] # fifo'[j]
  BY DEF SetToSeqs
<1>3. Cardinality(Loaded) \in Nat
  BY <1>1, FS_Subset, FS_CardinalityType
<1>4. fifo' \in Seq(Tasks)
  BY <1>1, <1>2, <1>3, SeqDef
<1>5. TypeOK' /\ Located'
  BY <1>4 DEF TypeOK, Located
<1>6. QueuedOnce'
  BY <1>1, <1>2 DEF QueuedOnce, Queuing, Working, Located
<1>7. (VotesOnly /\ TextIsOwn /\ ResultBelongsToTask /\ FinishedHasResult)'
  BY DEF VotesOnly, TextIsOwn, ResultBelongsToTask, FinishedHasResult, Current
<1> QED
  BY <1>5, <1>6, <1>7

\* pop_task: the head of the queue is what the thread works on.
LEMMA PopTaskInv ==
  ASSUME CycleInv, PopTask
  PROVE  CycleInv'
<1> USE CycleAssumption DEF CycleInv, PopTask
<1>1. CASE Ask(Worker) /\ UNCHANGED pc
  BY <1>1 DEF Ask, TypeOK, Located, QueuedOnce, VotesOnly, TextIsOwn, Working,
     ResultBelongsToTask, FinishedHasResult, Current
<1>2. CASE Get(Worker) /\ pc' = "work"
  <2>1. /\ Head(fifo) = fifo[1] /\ 1 \in DOMAIN fifo /\ Head(fifo) \in Tasks
        /\ fifo' \in Seq(Tasks) /\ Len(fifo') = Len(fifo) - 1
        /\ DOMAIN fifo' = 1..(Len(fifo) - 1) /\ DOMAIN fifo = 1..Len(fifo)
        /\ Len(fifo) \in Nat
        /\ \A i \in DOMAIN fifo' : fifo'[i] = fifo[i + 1]
    BY <1>2, HeadTailProperties, LenProperties, EmptySeq DEF Get, TypeOK
  <2>2. answer' = [answer EXCEPT ![Worker] = fifo[1]] /\ asking' = asking \ {Worker}
        /\ open' = open
    BY <1>2, <2>1 DEF Get, Answer
  <2>3. TypeOK' /\ Located'
    BY <2>1, <2>2, <1>2 DEF TypeOK, Located
  <2>4. \A i \in DOMAIN fifo' : i + 1 \in DOMAIN fifo /\ i + 1 # 1
    BY <2>1
  <2>5. Current' = fifo[1]
    BY <2>2 DEF Current, TypeOK
  <2>6. QueuedOnce'
    <3>1. \A i, j \in DOMAIN fifo' : i # j => fifo'[i] # fifo'[j]
      <4> SUFFICES ASSUME NEW i \in DOMAIN fifo', NEW j \in DOMAIN fifo', i # j
                   PROVE  fifo'[i] # fifo'[j]
        OBVIOUS
      <4>1. i + 1 # j + 1
        BY <2>1
      <4> QED BY <2>1, <2>4, <4>1 DEF QueuedOnce
    <3>2. \A i \in DOMAIN fifo' : status[fifo'[i]] = "queuing" /\ fifo'[i] # fifo[1]
      BY <2>1, <2>4 DEF QueuedOnce
    <3> QED BY <2>1, <2>5, <3>1, <3>2 DEF QueuedOnce
  <2>7. (VotesOnly /\ TextIsOwn /\ ResultBelongsToTask /\ FinishedHasResult)'
    BY <1>2 DEF VotesOnly, TextIsOwn, ResultBelongsToTask, FinishedHasResult
  <2> QED BY <2>3, <2>6, <2>7
<1> QED
  BY <1>1, <1>2

\* do_task, set_result and set_status for the task at work.
LEMMA WorkInv ==
  ASSUME CycleInv, DoWork \/ SetResult \/ SetStatus
  PROVE  CycleInv'
<1> USE CycleAssumption DEF CycleInv
<1>1. /\ Working /\ Current \in Tasks /\ status[Current] = "queuing"
      /\ \A i \in DOMAIN fifo : fifo[i] # Current /\ fifo[i] \in Tasks
  BY ElementOfSeq DEF DoWork, SetResult, SetStatus, Working, QueuedOnce, TypeOK
<1>2. CASE DoWork
  <2>1. runs' \in [Tasks -> 0..(MaxCrashes + 1)]
    <3>1. runs[Current] \in 0..(MaxCrashes + 1)
      BY <1>1 DEF TypeOK
    <3>2. runs'[Current] \in 0..(MaxCrashes + 1)
      BY <1>1, <1>2, <3>1 DEF DoWork, Run, TypeOK
    <3> QED BY <1>1, <1>2, <3>2 DEF DoWork, Run, TypeOK
  <2>2. text' = Current /\ pc' = "save" /\ UNCHANGED <<fifoVars, status, result, process>>
    BY <1>1, <1>2 DEF DoWork, VotesOnly
  <2> USE <2>2 DEF fifoVars
  <2>3. TypeOK' /\ Located'
    BY <1>1, <1>2, <2>1 DEF DoWork, TypeOK, Located
  <2>4. QueuedOnce' /\ TextIsOwn'
    BY <1>1 DEF QueuedOnce, TextIsOwn, Working, Current
  <2>5. (VotesOnly /\ ResultBelongsToTask /\ FinishedHasResult)'
    BY DEF VotesOnly, ResultBelongsToTask, FinishedHasResult
  <2> QED BY <2>3, <2>4, <2>5
<1>3. CASE SetResult
  <2>1. text = Current
    BY <1>3 DEF SetResult, TextIsOwn
  <2>2. TypeOK' /\ Located' /\ QueuedOnce'
    BY <1>1, <1>3 DEF SetResult, TypeOK, Located, QueuedOnce, Working, Current, fifoVars
  <2>3. (TextIsOwn /\ ResultBelongsToTask /\ FinishedHasResult /\ VotesOnly)'
    BY <1>1, <1>3, <2>1 DEF SetResult, TypeOK, TextIsOwn, ResultBelongsToTask,
       FinishedHasResult, VotesOnly, Current, fifoVars
  <2> QED BY <2>2, <2>3
<1>4. CASE SetStatus
  <2>1. TypeOK' /\ Located' /\ QueuedOnce'
    BY <1>1, <1>4 DEF SetStatus, TypeOK, Located, QueuedOnce, Working, Current, fifoVars
  <2>2. (TextIsOwn /\ ResultBelongsToTask /\ FinishedHasResult /\ VotesOnly)'
    BY <1>1, <1>4 DEF SetStatus, TypeOK, TextIsOwn, ResultBelongsToTask,
       FinishedHasResult, VotesOnly, Current, fifoVars
  <2> QED BY <2>1, <2>2
<1> QED
  BY <1>2, <1>3, <1>4

\* The process dies: what is stored stays as it is.
LEMMA DieInv ==
  ASSUME CycleInv, Die, runs' \in [Tasks -> 0..(MaxCrashes + 1)],
         crashes' \in 0..MaxCrashes
  PROVE  CycleInv'
<1> USE DEF CycleInv, Die
<1>1. TypeOK' /\ Located'
  BY EmptySeq DEF TypeOK, Located
<1>2. QueuedOnce'
  BY DEF QueuedOnce, Working
<1>3. (TextIsOwn /\ ResultBelongsToTask /\ FinishedHasResult /\ VotesOnly)'
  BY DEF TextIsOwn, ResultBelongsToTask, FinishedHasResult, VotesOnly
<1> QED
  BY <1>1, <1>2, <1>3

LEMMA DyingInv ==
  ASSUME CycleInv, Crash \/ DoWorkThrows
  PROVE  CycleInv'
<1>1. crashes' \in 0..MaxCrashes
  BY CycleAssumption DEF CycleInv, TypeOK, Crash, DoWorkThrows
<1>2. runs' \in [Tasks -> 0..(MaxCrashes + 1)]
  <2>1. CASE UNCHANGED runs
    BY <2>1 DEF CycleInv, TypeOK
  <2>2. CASE Run(Current)
    <3>1. \A t \in Tasks : runs[t] \in 0..(MaxCrashes + 1)
      BY DEF CycleInv, TypeOK
    <3>2. \A t \in Tasks : runs'[t] \in 0..(MaxCrashes + 1)
      BY <2>2, <3>1, CycleAssumption DEF Run, CycleInv, TypeOK
    <3> QED BY <2>2, <3>2 DEF Run, CycleInv, TypeOK
  <2> QED BY <2>1, <2>2 DEF Crash, DoWorkThrows
<1> QED
  BY <1>1, <1>2, DieInv DEF Crash, DoWorkThrows

LEMMA CycleNext == CycleInv /\ [Next]_vars => CycleInv'
<1> SUFFICES ASSUME CycleInv, [Next]_vars PROVE CycleInv'
  OBVIOUS
<1>1. CASE StartOthers
  BY <1>1 DEF StartOthers, CycleInv, TypeOK, Located, QueuedOnce, Working, VotesOnly,
     TextIsOwn, ResultBelongsToTask, FinishedHasResult, fifoVars
<1>2. CASE UNCHANGED vars
  BY <1>2 DEF vars, cycleVars, fifoVars, CycleInv, TypeOK, Located, QueuedOnce,
     Working, VotesOnly, TextIsOwn, ResultBelongsToTask, FinishedHasResult, Current
<1> QED
  BY <1>1, <1>2, AddTaskInv, StartInv, PopTaskInv, WorkInv, DyingInv
  DEF Next, WorkStep

\* What the queue, the table and the work-queue thread have of each task: the
\* inductive invariant of the way of a task.
THEOREM CycleInvariant == Spec => []CycleInv
BY CycleInit, CycleNext, PTL DEF Spec

\* A finished task has a result and no task has another one's, wherever the
\* process died and although the result string outlives the task.
THEOREM ResultsBelong == Spec => [](ResultBelongsToTask /\ FinishedHasResult)
<1>1. CycleInv => ResultBelongsToTask /\ FinishedHasResult
  BY DEF CycleInv
<1> QED
  BY <1>1, CycleInvariant, PTL

\* No task is done again after its status has been stored as finished.
THEOREM FinishedStaysDone == Spec => FinishedIsNotRunAgain
<1>1. ASSUME CycleInv, [Next]_vars
      PROVE  \A t \in Tasks : status[t] = "finished" => runs'[t] = runs[t]
  <2>1. CASE Run(Current) /\ Working
    BY <1>1, <2>1 DEF Run, CycleInv, TypeOK, QueuedOnce
  <2>2. CASE UNCHANGED runs
    BY <2>2
  <2>3. (Run(Current) /\ Working) \/ UNCHANGED runs
    BY <1>1 DEF Next, WorkStep, AddTask, Start, StartOthers, PopTask, DoWork,
       DoWorkThrows, SetResult, SetStatus, Crash, Working, vars, cycleVars
  <2> QED BY <2>1, <2>2, <2>3
<1> QED
  BY <1>1, CycleInvariant, PTL DEF Spec, FinishedIsNotRunAgain

\* The part of it that the two readers of the table rely on: a finished task
\* has its result.
THEOREM FinishedHaveResults == Spec => []FinishedHasResult
BY ResultsBelong, PTL

-----------------------------------------------------------------------------
\* No stored task is forgotten while the process lives: it is in the queue, or
\* the thread is at work on it.
Queued(t) == (\E i \in DOMAIN fifo : fifo[i] = t) \/ (Working /\ Current = t)
NoneForgotten == process # "down" => \A t \in Queuing : Queued(t)

\* init loads what the table has: the sequence goes through all of Loaded.
LEMMA StartLoadsAll ==
  ASSUME CycleInv, Start
  PROVE  NoneForgotten'
<1>1. Loaded = Queuing /\ Loaded \subseteq Tasks
  BY DEF Loaded, Queuing, CycleInv, TypeOK
<1>2. IsFiniteSet(Loaded)
  BY <1>1, FS_Subset, CycleAssumption
<1>3. Cardinality(Loaded) \in Nat
  BY <1>2, FS_CardinalityType
<1> DEFINE D == 1..Cardinality(Loaded)
<1>4. fifo' \in [D -> Loaded] /\ \A i, j \in D : i # j => fifo'[i] # fifo'[j]
  BY DEF Start, SetToSeqs
<1>5. PICK f : f = fifo' /\ f \in Injection(D, Loaded)
  BY <1>4 DEF Injection, IsInjective
<1>6. Cardinality(D) = Cardinality(Loaded)
  BY <1>3, FS_Interval
<1>7. f \in Surjection(D, Loaded)
  BY <1>2, <1>5, <1>6, FS_Injection
<1>8. \A t \in Loaded : \E i \in DOMAIN fifo' : fifo'[i] = t
  BY <1>4, <1>5, <1>7 DEF Surjection
<1>9. Queuing' = Queuing
  BY DEF Start, Queuing
<1> QED
  BY <1>1, <1>8, <1>9 DEF NoneForgotten, Queued

LEMMA AddForgetsNone ==
  ASSUME CycleInv, NoneForgotten, NEW t \in Tasks, AddTask(t)
  PROVE  NoneForgotten'
<1>1. /\ DOMAIN fifo' = 1..(Len(fifo) + 1) /\ DOMAIN fifo = 1..Len(fifo)
      /\ Len(fifo) \in Nat
      /\ \A i \in DOMAIN fifo : fifo'[i] = fifo[i]
      /\ fifo'[Len(fifo) + 1] = t
  BY AppendProperties, LenProperties DEF CycleInv, TypeOK, AddTask, Put
<1>2. Queuing' = Queuing \cup {t}
  BY DEF Queuing, AddTask, CycleInv, TypeOK
<1>3. process # "down" /\ UNCHANGED <<process, pc, answer>>
  BY DEF AddTask, Put
<1>4. Queued(t)'
  BY <1>1 DEF Queued
<1>5. \A u \in Queuing : Queued(u)
  BY <1>3 DEF NoneForgotten
<1>6. ASSUME NEW u \in Queuing PROVE Queued(u)'
  BY <1>1, <1>3, <1>5 DEF Queued, Working, Current
<1> QED
  BY <1>2, <1>4, <1>6 DEF NoneForgotten

\* What leaves the queue is what the thread works on.
LEMMA PopForgetsNone ==
  ASSUME CycleInv, NoneForgotten, PopTask
  PROVE  NoneForgotten'
<1> USE CycleAssumption DEF PopTask, NoneForgotten, Queuing, Queued, Working, Current
<1>1. CASE Ask(Worker) /\ UNCHANGED pc
  BY <1>1 DEF Ask
<1>2. CASE Get(Worker) /\ pc' = "work"
  <2>1. /\ Head(fifo) = fifo[1] /\ 1 \in DOMAIN fifo
        /\ DOMAIN fifo' = 1..(Len(fifo) - 1) /\ DOMAIN fifo = 1..Len(fifo)
        /\ Len(fifo) \in Nat
        /\ \A i \in DOMAIN fifo' : fifo'[i] = fifo[i + 1]
    BY <1>2, HeadTailProperties, LenProperties, EmptySeq DEF Get, CycleInv, TypeOK
  <2>2. answer'[Worker] = fifo[1]
    BY <1>2, <2>1 DEF Get, Answer, CycleInv, TypeOK
  <2> SUFFICES ASSUME process # "down", NEW t \in Tasks, status[t] = "queuing"
               PROVE  (\E i \in DOMAIN fifo' : fifo'[i] = t) \/ answer'[Worker] = t
    BY <1>2
  <2>3. PICK i \in DOMAIN fifo : fifo[i] = t
    OBVIOUS
  <2>4. CASE i = 1
    BY <2>2, <2>3, <2>4
  <2>5. CASE i # 1
    <3>1. i - 1 \in DOMAIN fifo' /\ fifo'[i - 1] = t
      BY <2>1, <2>3, <2>5
    <3> QED BY <3>1
  <2> QED BY <2>4, <2>5
<1> QED
  BY <1>1, <1>2

LEMMA ForgetsNone == CycleInv /\ NoneForgotten /\ [Next]_vars => NoneForgotten'
<1> SUFFICES ASSUME CycleInv, NoneForgotten, [Next]_vars PROVE NoneForgotten'
  OBVIOUS
<1> USE DEF NoneForgotten, Queuing, Queued, Working, Current
<1>1. CASE StartOthers
  BY <1>1 DEF StartOthers, fifoVars, CycleInv, Located
<1>2. CASE DoWork
  BY <1>2 DEF DoWork, fifoVars
<1>3. CASE SetResult
  BY <1>3 DEF SetResult, fifoVars
<1>4. CASE SetStatus
  BY <1>4 DEF SetStatus, fifoVars, CycleInv, TypeOK
<1>5. CASE Crash \/ DoWorkThrows
  BY <1>5 DEF Crash, DoWorkThrows, Die
<1>6. CASE UNCHANGED vars
  BY <1>6 DEF vars, fifoVars, cycleVars
<1> QED
  BY <1>1, <1>2, <1>3, <1>4, <1>5, <1>6, AddForgetsNone, StartLoadsAll, PopForgetsNone
  DEF Next, WorkStep

\* A task is queued once at most, so its places in the queue are counted by
\* none or one.
LEMMA PlacesOfTask ==
  ASSUME CycleInv, NEW t \in Tasks
  PROVE  Cardinality({i \in DOMAIN fifo : fifo[i] = t})
            = IF \E i \in DOMAIN fifo : fifo[i] = t THEN 1 ELSE 0
<1> DEFINE places == {i \in DOMAIN fifo : fifo[i] = t}
<1>1. CASE \E i \in DOMAIN fifo : fifo[i] = t
  <2>1. PICK i \in DOMAIN fifo : fifo[i] = t
    BY <1>1
  <2>2. places = {i}
    BY <2>1 DEF CycleInv, QueuedOnce
  <2> QED BY <1>1, <2>2, FS_Singleton
<1>2. CASE ~ \E i \in DOMAIN fifo : fifo[i] = t
  <2>1. places = {}
    BY <1>2
  <2> QED BY <1>2, <2>1, FS_EmptySet
<1> QED
  BY <1>1, <1>2

\* While the process lives, the queue and the thread have each task stored as
\* queuing once, and no other: none is lost or done twice in a run.
THEOREM QueueIsTable == Spec => []QueueMatchesTable
<1>1. Init => NoneForgotten
  BY DEF Init, NoneForgotten
<1>2. ASSUME CycleInv, NoneForgotten, process # "down", NEW t \in Tasks
      PROVE  Occurrences(t) = IF t \in Queuing THEN 1 ELSE 0
  <2>1. ~((\E i \in DOMAIN fifo : fifo[i] = t) /\ Working /\ Current = t)
    BY <1>2 DEF CycleInv, QueuedOnce
  <2>2. Queued(t) <=> t \in Queuing
    BY <1>2 DEF NoneForgotten, Queued, CycleInv, QueuedOnce, Queuing
  <2> QED
    BY <1>2, <2>1, <2>2, PlacesOfTask DEF Occurrences, Queued
<1>3. CycleInv /\ NoneForgotten => QueueMatchesTable
  BY <1>2 DEF QueueMatchesTable
<1> QED
  BY <1>1, <1>3, ForgetsNone, CycleInvariant, PTL DEF Spec
=============================================================================
