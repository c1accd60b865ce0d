----------------------------- MODULE WorkQueue -----------------------------
(***************************************************************************)
(* work_queue<T>: a deque, a mutex, a condition variable and a stop flag.   *)
(* A step is what a thread does under tasks_mutex; the notification comes   *)
(* after the unlock and is a step of its own, so other threads get between. *)
(***************************************************************************)
EXTENDS SequencesExt

CONSTANTS
  Tasks, NoTask,
  Producers,     \* the threads that call push_task, stop and clear
  Consumers,     \* the threads that call pop_task
  MaxTasks       \* bound: no task is pushed on a queue of this length

ASSUME QueueAssumption ==
  /\ NoTask \notin Tasks
  /\ IsFiniteSet(Producers) /\ IsFiniteSet(Consumers)
  /\ Producers \cap Consumers = {}
  /\ MaxTasks \in Nat

VARIABLES
  tasks,         \* tasks_
  is_stopped,
  pc,            \* where each thread is
  answer         \* what pop_task returned last to each consumer

vars == <<tasks, is_stopped, pc, answer>>

\* push_task's notify_one; stop's notify_all, alone or inside clear; clear's
\* second half.
ProducerLocations == {"out", "notify_one", "notify_all", "clear_notify", "clear"}
\* In pop_task: about to lock, asleep in cond_.wait, woken and about to lock.
ConsumerLocations == {"out", "pop", "wait", "woken"}

TypeOK ==
  /\ tasks \in Seq(Tasks)
  /\ is_stopped \in BOOLEAN
  /\ pc \in [Producers \cup Consumers -> ProducerLocations \cup ConsumerLocations]
  /\ \A p \in Producers : pc[p] \in ProducerLocations
  /\ \A c \in Consumers : pc[c] \in ConsumerLocations
  /\ answer \in [Consumers -> Tasks \cup {NoTask}]

At(threads, location) == {t \in threads : pc[t] = location}

Goto(t, location) == pc' = [pc EXCEPT ![t] = location]

-----------------------------------------------------------------------------
\* Mutant of PushTask: only a task that finds the queue empty is announced.
PushTaskNotifiesFirst(p, t) ==
  /\ pc[p] = "out" /\ ~is_stopped /\ Len(tasks) < MaxTasks
  /\ tasks' = Append(tasks, t)
  /\ Goto(p, IF tasks = <<>> THEN "notify_one" ELSE "out")
  /\ UNCHANGED <<is_stopped, answer>>

\* Mutant of PushTask: the task goes to the front.
PushTaskInFront(p, t) ==
  /\ pc[p] = "out" /\ ~is_stopped /\ Len(tasks) < MaxTasks
  /\ tasks' = <<t>> \o tasks /\ Goto(p, "notify_one")
  /\ UNCHANGED <<is_stopped, answer>>

\* push_task under the lock.  A stopped queue drops the task: nothing changes.
PushTask(p, t) ==
  /\ pc[p] = "out" /\ ~is_stopped /\ Len(tasks) < MaxTasks
  /\ tasks' = Append(tasks, t) /\ Goto(p, "notify_one")
  /\ UNCHANGED <<is_stopped, answer>>

\* Some sleeping consumer is woken, if there is one.
NotifyOne(p) ==
  /\ pc[p] = "notify_one"
  /\ \/ \E c \in At(Consumers, "wait") :
           pc' = [pc EXCEPT ![p] = "out", ![c] = "woken"]
     \/ At(Consumers, "wait") = {} /\ Goto(p, "out")
  /\ UNCHANGED <<tasks, is_stopped, answer>>

\* stop under the lock, called by itself or by clear.
Stop(p) ==
  /\ pc[p] = "out"
  /\ is_stopped' = TRUE
  /\ Goto(p, "notify_all") \/ Goto(p, "clear_notify")
  /\ UNCHANGED <<tasks, answer>>

\* Mutant of NotifyAll: stop wakes one consumer.
NotifyAllOnlyOne(p) ==
  /\ pc[p] \in {"notify_all", "clear_notify"}
  /\ \E woken \in SUBSET At(Consumers, "wait") :
       /\ Cardinality(woken) = 1 \/ At(Consumers, "wait") = {}
       /\ pc' = [t \in DOMAIN pc |->
                   IF t \in woken THEN "woken"
                   ELSE IF t # p THEN pc[t]
                   ELSE IF pc[p] = "notify_all" THEN "out" ELSE "clear"]
  /\ UNCHANGED <<tasks, is_stopped, answer>>

\* Every sleeping consumer is woken.
NotifyAll(p) ==
  /\ pc[p] \in {"notify_all", "clear_notify"}
  /\ pc' = [t \in DOMAIN pc |->
              IF t \in At(Consumers, "wait") THEN "woken"
              ELSE IF t # p THEN pc[t]
              ELSE IF pc[p] = "notify_all" THEN "out" ELSE "clear"]
  /\ UNCHANGED <<tasks, is_stopped, answer>>

\* The second half of clear: a new critical section.
Clear(p) ==
  /\ pc[p] = "clear" /\ Goto(p, "out")
  /\ tasks' = <<>> /\ is_stopped' = FALSE
  /\ UNCHANGED answer

-----------------------------------------------------------------------------
CallPop(c) ==
  /\ pc[c] = "out" /\ Goto(c, "pop")
  /\ UNCHANGED <<tasks, is_stopped, answer>>

\* pop_task under the lock, at its start and after every wake-up.
Testing(c) == pc[c] \in {"pop", "woken"}

\* Also a stopped queue is popped until it is empty.
PopFront(c) ==
  /\ Testing(c) /\ tasks # <<>>
  /\ answer' = [answer EXCEPT ![c] = Head(tasks)]
  /\ tasks' = Tail(tasks) /\ Goto(c, "out")
  /\ UNCHANGED is_stopped

PopStopped(c) ==
  /\ Testing(c) /\ tasks = <<>> /\ is_stopped
  /\ answer' = [answer EXCEPT ![c] = NoTask] /\ Goto(c, "out")
  /\ UNCHANGED <<tasks, is_stopped>>

Wait(c) ==
  /\ Testing(c) /\ tasks = <<>> /\ ~is_stopped /\ Goto(c, "wait")
  /\ UNCHANGED <<tasks, is_stopped, answer>>

\* boost::condition_variable::wait may return without a notification.
SpuriousWakeup(c) ==
  /\ pc[c] = "wait" /\ Goto(c, "woken")
  /\ UNCHANGED <<tasks, is_stopped, answer>>

-----------------------------------------------------------------------------
Init ==
  /\ tasks = <<>> /\ is_stopped = FALSE
  /\ pc = [t \in Producers \cup Consumers |-> "out"]
  /\ answer = [c \in Consumers |-> NoTask]

Finishing(p) == NotifyOne(p) \/ NotifyAll(p) \/ Clear(p)
Popping(c) == PopFront(c) \/ PopStopped(c) \/ Wait(c)

Next ==
  \/ \E p \in Producers :
        (\E t \in Tasks : PushTask(p, t)) \/ Stop(p) \/ Finishing(p)
  \/ \E c \in Consumers : CallPop(c) \/ Popping(c) \/ SpuriousWakeup(c)

Spec == Init /\ [][Next]_vars

\* A thread goes on with the call it is in; nobody has to make a call, and a
\* sleeping thread is not woken by chance.
Fairness ==
  /\ \A p \in Producers : WF_vars(Finishing(p))
  /\ \A c \in Consumers : WF_vars(Popping(c))

FairSpec == Spec /\ Fairness

-----------------------------------------------------------------------------
Asleep == At(Consumers, "wait")
Woken == At(Consumers, "woken")
Notifying == At(Producers, "notify_one")

\* No wake-up is lost: while a consumer sleeps, every task in the queue has a
\* notification that is still to come or a consumer it has woken, although
\* notify_one is called after the unlock and other consumers may take the task
\* a woken one was woken for.
NoLostWakeup ==
  Asleep # {} => Len(tasks) <= Cardinality(Notifying) + Cardinality(Woken)

\* A stopped queue leaves nobody asleep: stop's notify_all is still to come.
StopWakesAll ==
  is_stopped /\ Asleep # {} =>
     \E p \in Producers : pc[p] \in {"notify_all", "clear_notify"}

\* The queue is the first-in first-out queue of TaskFifo, whose tasks do not
\* wait while somebody asks for one.
Fifo == INSTANCE TaskFifo WITH
  fifo <- tasks, open <- ~is_stopped,
  asking <- {c \in Consumers : pc[c] # "out"}

ImplementsFifo == Fifo!FifoSpec
ImplementsFairFifo == Fifo!FairFifoSpec
=============================================================================
