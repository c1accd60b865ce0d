----------------------------- MODULE TaskCycle -----------------------------
(***************************************************************************)
(* The way of a task through the program: a schedule sends it, on_read      *)
(* gives it to tasks_mgr, which stores it and puts it in the work queue,    *)
(* the work-queue thread does it and stores its result and its status.      *)
(* The process may die at any step; init queues the stored tasks that are   *)
(* not finished.  tasks_mgr is used but not part of src/: its operations    *)
(* are what main_task, schedule_connection and main ask of it.  The queue   *)
(* is TaskFifo, which WorkQueue implements.                                 *)
(***************************************************************************)
EXTENDS TaskFifo, TLC

CONSTANTS
  Kind,         \* what the description of each task asks for
  Worker,       \* the work-queue thread
  MaxCrashes    \* bound: how often something outside kills the process

\* A vote; a vote on which do_task throws, as it has no votes_cnt or no url;
\* a command do_work_queue does not know.
Kinds == {"vote", "poison", "other"}

ASSUME CycleAssumption ==
  /\ IsFiniteSet(Tasks)
  /\ Kind \in [Tasks -> Kinds]
  /\ Consumers = {Worker}
  /\ MaxCrashes \in Nat

VARIABLES
  status,       \* tasks_info.status: "none" (no row), "queuing", "finished"
  result,       \* tasks_info.result: the task it is the result of, or NoTask
  text,         \* start_work_queue's result string, in the same terms
  process,      \* "down", "up" (main has loaded), "running" (start_others)
  pc,           \* of the work-queue thread
  runs,         \* history: how often do_task was called for each task
  crashes

cycleVars == <<status, result, text, process, pc, runs, crashes>>
vars == <<fifoVars, cycleVars>>

Queuing == {t \in Tasks : status[t] = "queuing"}

\* What the work-queue thread is at work on: the last answer of the queue.
Current == answer[Worker]

-----------------------------------------------------------------------------
\* Mutant of Accepts: any command is queued.
AcceptsAnyCommand(t) == TRUE

\* schedule_connection::on_read queues one command only.
Accepts(t) == Kind[t] \in {"vote", "poison"}

\* on_read and tasks_mgr::add_task, for a task the schedule sends once.
AddTask(t) ==
  /\ process # "down" /\ status[t] = "none" /\ Accepts(t)
  /\ Put(t)
  /\ status' = [status EXCEPT ![t] = "queuing"]
  /\ UNCHANGED <<result, text, process, pc, runs, crashes>>

\* Mutant of Loaded: init loads every task.
LoadedWithFinished == {t \in Tasks : status[t] # "none"}

\* Mutant of Loaded: init queues nothing.
LoadedNothing == {}

\* The rows tasks_mgr::init selects.
Loaded == {t \in Tasks : status[t] # "none" /\ status[t] # "finished"}

\* main, up to the io_service: the stored tasks are queued, in some order.
Start ==
  /\ process = "down" /\ process' = "up"
  /\ fifo' \in SetToSeqs(Loaded)
  /\ UNCHANGED <<open, asking, answer, status, result, text, pc, runs, crashes>>

\* start_others, 20 seconds later: the work-queue thread begins.
StartOthers ==
  /\ process = "up" /\ process' = "running"
  /\ pc' = "pop" /\ text' = NoTask
  /\ UNCHANGED <<fifoVars, status, result, runs, crashes>>

-----------------------------------------------------------------------------
PopTask ==
  /\ pc = "pop"
  /\ \/ Ask(Worker) /\ UNCHANGED pc
     \/ Get(Worker) /\ pc' = "work"
  /\ UNCHANGED <<status, result, text, process, runs, crashes>>

Run(t) == runs' = [runs EXCEPT ![t] = IF @ <= MaxCrashes THEN @ + 1 ELSE @]

\* do_work_queue and wx_vote::do_task: the result text is the task's own; an
\* unknown command leaves the text of the task before.
DoWork ==
  /\ pc = "work" /\ Kind[Current] # "poison"
  /\ \/ Kind[Current] = "vote" /\ text' = Current
     \/ Kind[Current] = "other" /\ UNCHANGED text
  /\ pc' = "save" /\ Run(Current)
  /\ UNCHANGED <<fifoVars, status, result, process, crashes>>

\* Mutant of SetResult: the status is stored in its place.
SetResultStoresStatus ==
  /\ pc = "save" /\ pc' = "status"
  /\ status' = [status EXCEPT ![Current] = "finished"]
  /\ UNCHANGED <<fifoVars, result, text, process, runs, crashes>>

SetResult ==
  /\ pc = "save" /\ pc' = "status"
  /\ result' = [result EXCEPT ![Current] = text]
  /\ UNCHANGED <<fifoVars, status, text, process, runs, crashes>>

SetStatus ==
  /\ pc = "status" /\ pc' = "pop"
  /\ status' = [status EXCEPT ![Current] = "finished"]
  /\ UNCHANGED <<fifoVars, result, text, process, runs, crashes>>

-----------------------------------------------------------------------------
\* All that is not in the database is gone.
Die ==
  /\ process # "down" /\ process' = "down"
  /\ pc' = "none" /\ text' = NoTask
  /\ fifo' = <<>> /\ open' = TRUE /\ asking' = {}
  /\ answer' = [c \in Consumers |-> NoTask]
  /\ UNCHANGED <<status, result>>

Crash == crashes < MaxCrashes /\ crashes' = crashes + 1 /\ Die /\ UNCHANGED runs

\* Nothing catches what do_task throws on the work-queue thread.
DoWorkThrows ==
  /\ pc = "work" /\ Kind[Current] = "poison"
  /\ Die /\ Run(Current) /\ UNCHANGED crashes

Init ==
  /\ FifoInit
  /\ status = [t \in Tasks |-> "none"]
  /\ result = [t \in Tasks |-> NoTask]
  /\ text = NoTask /\ process = "down" /\ pc = "none"
  /\ runs = [t \in Tasks |-> 0] /\ crashes = 0

WorkStep == PopTask \/ DoWork \/ DoWorkThrows \/ SetResult \/ SetStatus

Next == (\E t \in Tasks : AddTask(t)) \/ Start \/ StartOthers \/ WorkStep \/ Crash

Spec == Init /\ [][Next]_vars

\* The process is started again when it is down, its timer fires and the
\* work-queue thread goes on; that a vote comes to its end is VoteTask's
\* TaskReturns, with the conditions it has there.
Fairness == WF_vars(Start) /\ WF_vars(StartOthers) /\ WF_vars(WorkStep)

FairSpec == Spec /\ Fairness

-----------------------------------------------------------------------------
TypeOK ==
  /\ fifo \in Seq(Tasks) /\ open = TRUE
  /\ asking \in SUBSET Consumers
  /\ answer \in [Consumers -> Tasks \cup {NoTask}]
  /\ status \in [Tasks -> {"none", "queuing", "finished"}]
  /\ result \in [Tasks -> Tasks \cup {NoTask}]
  /\ text \in Tasks \cup {NoTask}
  /\ process \in {"down", "up", "running"}
  /\ pc \in {"none", "pop", "work", "save", "status"}
  /\ runs \in [Tasks -> 0..(MaxCrashes + 1)]
  /\ crashes \in 0..MaxCrashes

Working == pc \in {"work", "save", "status"}

\* A result is stored with the task it is the result of, although one string
\* is used for all tasks of a run of the process and not every branch sets it.
ResultBelongsToTask == \A t \in Tasks : result[t] \in {t, NoTask}

\* A task that is finished has its result: whoever reads the status first and
\* the result then finds it, wherever the process died.
FinishedHasResult == \A t \in Tasks : status[t] = "finished" => result[t] = t

\* How often t is in the queue, plus one if it is being done.
Occurrences(t) ==
  Cardinality({i \in DOMAIN fifo : fifo[i] = t}) + (IF Working /\ Current = t THEN 1 ELSE 0)

\* While the process lives, the queue and the table agree: each task stored as
\* queuing is in the queue or at work, once, and no other task is.
QueueMatchesTable ==
  process # "down" =>
     \A t \in Tasks : Occurrences(t) = (IF t \in Queuing THEN 1 ELSE 0)

\* A task may be done again after a crash, but not once it is finished.
FinishedIsNotRunAgain ==
  [][\A t \in Tasks : status[t] = "finished" => runs'[t] = runs[t]]_vars

\* Every stored task is finished in the end, however often the process dies,
\* unless a task that kills the process is stored as well.
PoisonStored == \E t \in Queuing : Kind[t] = "poison"
TasksFinish ==
  \A t \in Tasks :
     status[t] = "queuing" ~> (status[t] = "finished" \/ PoisonStored)
=============================================================================
