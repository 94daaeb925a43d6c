---------------------------- MODULE CellTaskServer ----------------------------
(***************************************************************************)
(* CellTaskServer, the thread that executes queued tasks; CELLLog is its   *)
(* only user.  Any thread adds tasks, one owner starts and closes it.      *)
(*                                                                         *)
(* The two std::list objects are sequences.  The worker iterates over each *)
(* with `at', the position of the next element.  A task is a model value,  *)
(* executed in one step.                                                   *)
(***************************************************************************)
EXTENDS Integers, Sequences, FiniteSets

CONSTANTS
  Tasks,       \* the tasks that will be added, each at most once
  MaxStarts    \* bound on the calls of Start

ASSUME TaskAssumption == MaxStarts \in Nat \ {0}

VARIABLES
  isRun,       \* _thread._isRun
  owner,       \* "idle", or "closing" inside CELLThread::Close
  starts,      \* the number of calls of Start
  pc,          \* where the worker is
  tasks,       \* _tasks
  tasksBuf,    \* _tasksBuf
  at,          \* position in the list the worker iterates over
  added,       \* history: the tasks in the order of addTask
  executed,    \* history: the tasks in the order of execution
  promised     \* history: how many tasks were added when Close was called

ownerVars == <<isRun, owner, starts, promised>>
listVars  == <<tasks, tasksBuf, at>>
vars      == <<ownerVars, pc, listVars, added, executed>>

TypeOK ==
  /\ isRun    \in BOOLEAN
  /\ owner    \in {"idle", "closing"}
  /\ starts   \in 0 .. MaxStarts
  /\ pc       \in {"none", "loop", "fetch", "run", "drain", "end"}
  /\ tasks    \in Seq(Tasks)
  /\ tasksBuf \in Seq(Tasks)
  /\ at       \in Nat \ {0}
  /\ added    \in Seq(Tasks)
  /\ executed \in Seq(Tasks)
  /\ promised \in 0 .. Len(added)

Init ==
  /\ isRun = FALSE
  /\ owner = "idle"
  /\ starts = 0
  /\ pc = "none"
  /\ tasks = <<>>
  /\ tasksBuf = <<>>
  /\ at = 1
  /\ added = <<>>
  /\ executed = <<>>
  /\ promised = 0

-----------------------------------------------------------------------------
\* Slips: addTask at the wrong end; a worker that does not drain; a Close that
\* does not wait.
AddTaskFront(t) ==
  /\ \A i \in 1 .. Len(added) : added[i] # t
  /\ added'    = Append(added, t)
  /\ tasksBuf' = <<t>> \o tasksBuf
  /\ UNCHANGED <<ownerVars, pc, tasks, at, executed>>

LeaveLoopNoDrain ==
  /\ pc = "loop" /\ ~isRun
  /\ at' = Len(tasksBuf) + 1
  /\ pc' = "drain"
  /\ UNCHANGED <<ownerVars, tasks, tasksBuf, added, executed>>

CloseReturnEarly ==
  /\ owner = "closing"
  /\ owner' = "idle"
  /\ UNCHANGED <<isRun, starts, promised, pc, listVars, added, executed>>

-----------------------------------------------------------------------------
\* addTask, by any thread at any time, under _mutex.
AddTask(t) ==
  /\ \A i \in 1 .. Len(added) : added[i] # t
  /\ added'    = Append(added, t)
  /\ tasksBuf' = Append(tasksBuf, t)
  /\ UNCHANGED <<ownerVars, pc, tasks, at, executed>>

Start ==
  /\ owner = "idle" /\ ~isRun
  /\ starts < MaxStarts
  /\ isRun'  = TRUE
  /\ starts' = starts + 1
  /\ pc'     = "loop"
  /\ UNCHANGED <<owner, promised, listVars, added, executed>>

Close ==
  /\ owner = "idle" /\ isRun
  /\ isRun'    = FALSE
  /\ owner'    = "closing"
  /\ promised' = Len(added)
  /\ UNCHANGED <<starts, pc, listVars, added, executed>>

\* CELLThread::Close returns when the worker has ended.
CloseReturn ==
  /\ owner = "closing" /\ pc = "end"
  /\ owner' = "idle"
  /\ UNCHANGED <<isRun, starts, promised, pc, listVars, added, executed>>

-----------------------------------------------------------------------------
EnterLoop ==
  /\ pc = "loop" /\ isRun
  /\ pc' = "fetch"
  /\ UNCHANGED <<ownerVars, listVars, added, executed>>

\* Under _mutex move the buffer to the end of _tasks and go to execute them;
\* the server may have been closed in the meantime.
Fetch ==
  /\ pc = "fetch"
  /\ tasksBuf # <<>>
  /\ tasks'    = tasks \o tasksBuf
  /\ tasksBuf' = <<>>
  /\ at' = 1
  /\ pc' = "run"
  /\ UNCHANGED <<ownerVars, added, executed>>

\* With nothing to do the worker sleeps and starts over.
Sleep ==
  /\ pc = "fetch"
  /\ tasksBuf = <<>>
  /\ pc' = "loop"
  /\ UNCHANGED <<ownerVars, listVars, added, executed>>

RunTask ==
  /\ pc = "run" /\ at <= Len(tasks)
  /\ executed' = Append(executed, tasks[at])
  /\ at' = at + 1
  /\ UNCHANGED <<ownerVars, pc, tasks, tasksBuf, added>>

ClearTasks ==
  /\ pc = "run" /\ at > Len(tasks)
  /\ tasks' = <<>>
  /\ at' = 1
  /\ pc' = "loop"
  /\ UNCHANGED <<ownerVars, tasksBuf, added, executed>>

LeaveLoop ==
  /\ pc = "loop" /\ ~isRun
  /\ at' = 1
  /\ pc' = "drain"
  /\ UNCHANGED <<ownerVars, tasks, tasksBuf, added, executed>>

\* The rest of the buffer is executed in place, without _mutex: an addTask
\* meanwhile links a node the iteration still comes to.
DrainTask ==
  /\ pc = "drain" /\ at <= Len(tasksBuf)
  /\ executed' = Append(executed, tasksBuf[at])
  /\ at' = at + 1
  /\ UNCHANGED <<ownerVars, pc, tasks, tasksBuf, added>>

\* _tasks is cleared, which was empty; _tasksBuf is not.
DrainDone ==
  /\ pc = "drain" /\ at > Len(tasksBuf)
  /\ tasks' = <<>>
  /\ pc' = "end"
  /\ UNCHANGED <<ownerVars, tasksBuf, at, added, executed>>

Worker ==
  \/ EnterLoop \/ Fetch \/ Sleep
  \/ RunTask \/ ClearTasks
  \/ LeaveLoop \/ DrainTask \/ DrainDone

Next ==
  \/ \E t \in Tasks : AddTask(t)
  \/ Start \/ Close \/ CloseReturn
  \/ Worker

Spec == Init /\ [][Next]_vars

FairSpec == Spec /\ WF_vars(Worker) /\ WF_vars(CloseReturn)

-----------------------------------------------------------------------------
\* When Close returns, every task added before the call has been executed:
\* the drain after the loop finishes what the loop has not fetched.
CloseFlushes ==
  pc = "end" => \A i \in 1 .. promised :
                   \E j \in 1 .. Len(executed) : executed[j] = added[i]

\* A task added to a running server is executed, closed or not.
TaskExecuted(t) == \E j \in 1 .. Len(executed) : executed[j] = t
EveryTaskRuns ==
  \A t \in Tasks :
     (isRun /\ \E i \in 1 .. Len(added) : added[i] = t) ~> TaskExecuted(t)

\* The abstract queue: what the worker has still to visit of the list it is
\* in, then the buffer.
From(s, n) == SubSeq(s, n, Len(s))
queueBar ==
  IF pc = "run" THEN From(tasks, at) \o tasksBuf
  ELSE IF pc \in {"drain", "end"} THEN From(tasksBuf, at)
  ELSE tasks \o tasksBuf

Queue == INSTANCE TaskQueue WITH queue <- queueBar
ImplementsQueue == Queue!QueueSpec

\* The task server uses its thread object as ThreadLifecycle says, which
\* module CELLThread shows that object to implement.
phaseBar == IF isRun THEN "running"
            ELSE IF pc \in {"none", "end"} THEN "stopped" ELSE "stopping"
Thread == INSTANCE ThreadLifecycle WITH
            Callers <- {"closing"}, NoCaller <- "idle",
            phase <- phaseBar, closer <- owner
ThreadAsPromised == Thread!LifeSpec
=============================================================================
