------------------------------- MODULE TaskQueue ------------------------------
(***************************************************************************)
(* What a CellTaskServer promises: tasks are executed one at a time, each  *)
(* at most once, in the order in which they were added.                    *)
(***************************************************************************)
EXTENDS Sequences

CONSTANT Tasks

VARIABLES
  queue,      \* tasks added and not yet executed
  executed    \* tasks executed, in the order of their execution

queueVars == <<queue, executed>>

QueueInit == queue = <<>> /\ executed = <<>>

Add(t) ==
  /\ queue' = Append(queue, t)
  /\ UNCHANGED executed

Execute ==
  /\ queue # <<>>
  /\ executed' = Append(executed, Head(queue))
  /\ queue' = Tail(queue)

QueueNext == Execute \/ \E t \in Tasks : Add(t)

QueueSpec == QueueInit /\ [][QueueNext]_queueVars
=============================================================================
