------------------------------ MODULE TaskFifo ------------------------------
(***************************************************************************)
(* What work_queue promises to its callers: a first-in first-out queue that *)
(* is open or closed.  A consumer that asks while the queue is empty is     *)
(* answered when there is a task, or with task_type() once it is closed.    *)
(* No mutex, no condition variable: that is WorkQueue.                      *)
(***************************************************************************)
EXTENDS SequencesExt

CONSTANTS
  Tasks,       \* what producers put in
  NoTask,      \* task_type(), the answer of a closed and empty queue
  Consumers

ASSUME FifoAssumption == NoTask \notin Tasks

VARIABLES
  fifo,        \* the accepted tasks nobody has got
  open,        \* tasks are accepted
  asking,      \* the consumers inside pop_task
  answer       \* what each consumer got last

fifoVars == <<fifo, open, asking, answer>>

FifoInit ==
  /\ fifo = <<>> /\ open = TRUE
  /\ asking = {}
  /\ answer = [c \in Consumers |-> NoTask]

Put(t) == open /\ fifo' = Append(fifo, t) /\ UNCHANGED <<open, asking, answer>>

Close == open' = FALSE /\ UNCHANGED <<fifo, asking, answer>>

Reopen == open' = TRUE /\ fifo' = <<>> /\ UNCHANGED <<asking, answer>>

Ask(c) ==
  /\ c \notin asking /\ asking' = asking \cup {c}
  /\ UNCHANGED <<fifo, open, answer>>

Answer(c, t) ==
  /\ c \in asking /\ asking' = asking \ {c}
  /\ answer' = [answer EXCEPT ![c] = t]

Get(c) ==
  /\ fifo # <<>> /\ Answer(c, Head(fifo)) /\ fifo' = Tail(fifo)
  /\ UNCHANGED open

GetNothing(c) ==
  /\ fifo = <<>> /\ ~open /\ Answer(c, NoTask)
  /\ UNCHANGED <<fifo, open>>

FifoNext ==
  \/ \E t \in Tasks : Put(t)
  \/ Close \/ Reopen
  \/ \E c \in Consumers : Ask(c) \/ Get(c) \/ GetNothing(c)

FifoSpec == FifoInit /\ [][FifoNext]_fifoVars

\* A task does not wait while somebody asks, and nobody is left waiting at a
\* queue that stays closed.
FifoFairness ==
  /\ WF_fifoVars(\E c \in Consumers : Get(c))
  /\ \A c \in Consumers : WF_fifoVars(GetNothing(c))

FairFifoSpec == FifoSpec /\ FifoFairness
=============================================================================
