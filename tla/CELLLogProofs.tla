----------------------------- MODULE CELLLogProofs ----------------------------
(***************************************************************************)
(* Proofs about the log and its task server, for any tasks and any number  *)
(* of paths, when the server is started once, as CELLLog does.             *)
(***************************************************************************)
EXTENDS CELLLog, SequenceTheorems, TLAPS

-----------------------------------------------------------------------------
\* What is left of a list, and the head of a concatenation.
LEMMA FromEnds ==
  ASSUME NEW s \in Seq(Tasks), NEW i \in 1 .. Len(s) + 1
  PROVE  /\ From(s, i) \in Seq(Tasks)
         /\ From(s, 1) = s
         /\ i > Len(s) => From(s, i) = <<>>
<1>1. Len(s) \in Nat /\ \A j \in i .. Len(s) : s[j] \in Tasks
  BY LenProperties, ElementOfSeq
<1>2. From(s, i) \in Seq(Tasks)
  BY <1>1, SubSeqProperties DEF From
<1> QED BY <1>1, <1>2, SubSeqFull, SubSeqEmpty DEF From

LEMMA FromNext ==
  ASSUME NEW s \in Seq(Tasks), NEW i \in 1 .. Len(s)
  PROVE  /\ From(s, i) # <<>>
         /\ Head(From(s, i)) = s[i]
         /\ Tail(From(s, i)) = From(s, i + 1)
<1>1. Len(s) \in Nat /\ \A j \in i .. Len(s) : s[j] \in Tasks
  BY LenProperties, ElementOfSeq
<1>2. Len(From(s, i)) > 0
  BY <1>1, SubSeqProperties DEF From
<1>3. i \in Int /\ Len(s) \in Int /\ i <= Len(s)
  BY <1>1
<1>4. From(s, i) # <<>>
  <2> SUFFICES ASSUME From(s, i) = <<>> PROVE FALSE
    OBVIOUS
  <2> QED BY <1>2
<1> QED BY <1>1, <1>3, <1>4, HeadTailOfSubSeq DEF From

LEMMA FromAppend ==
  ASSUME NEW s \in Seq(Tasks), NEW t \in Tasks, NEW i \in 1 .. Len(s) + 1
  PROVE  From(Append(s, t), i) = Append(From(s, i), t)
<1> DEFINE u == Append(s, t)
<1>1. /\ Len(s) \in Nat /\ u \in Seq(Tasks) /\ Len(u) = Len(s) + 1
      /\ u[Len(s) + 1] = t /\ \A j \in 1 .. Len(s) : u[j] = s[j]
  BY LenProperties, AppendProperties
<1>2. /\ \A j \in i .. Len(s) : s[j] \in Tasks /\ u[j] \in Tasks /\ u[j] = s[j]
      /\ i \in Int /\ Len(s) \in Int
  BY <1>1, ElementOfSeq
<1> HIDE DEF u
<1>3. SubSeq(u, i, Len(s)) = SubSeq(s, i, Len(s))
  <2>1. /\ SubSeq(s, i, Len(s)) \in Seq(Tasks)
        /\ Len(SubSeq(s, i, Len(s))) = IF i <= Len(s) THEN Len(s) - i + 1 ELSE 0
        /\ \A j \in 1 .. Len(s) - i + 1 : SubSeq(s, i, Len(s))[j] = s[i + j - 1]
    BY <1>2, SubSeqProperties
  <2>2. /\ SubSeq(u, i, Len(s)) \in Seq(Tasks)
        /\ Len(SubSeq(u, i, Len(s))) = IF i <= Len(s) THEN Len(s) - i + 1 ELSE 0
        /\ \A j \in 1 .. Len(s) - i + 1 : SubSeq(u, i, Len(s))[j] = u[i + j - 1]
    BY <1>2, SubSeqProperties
  <2>3. \A j \in 1 .. Len(s) - i + 1 : u[i + j - 1] = s[i + j - 1]
    BY <1>1, <1>2
  <2>4. \A j \in 1 .. Len(SubSeq(s, i, Len(s))) :
           SubSeq(s, i, Len(s))[j] = SubSeq(u, i, Len(s))[j]
    BY <1>1, <2>1, <2>2, <2>3
  <2> QED BY <2>1, <2>2, <2>4, SeqEqual
<1>4. SubSeq(u, i, Len(u)) = SubSeq(u, i, Len(s)) \o <<t>>
  <2>1. i \in 1 .. Len(u) /\ Len(u) \in i .. Len(u) /\ Len(u) - 1 = Len(s)
    BY <1>1
  <2>2. SubSeq(u, i, Len(u)) = SubSeq(u, i, Len(u) - 1) \o <<u[Len(u)]>>
    BY <1>1, <2>1, SubSeqRecursiveSecond
  <2> QED BY <1>1, <2>1, <2>2
<1>5. Append(From(s, i), t) = From(s, i) \o <<t>>
  BY FromEnds, AppendIsConcat
<1> QED BY <1>3, <1>4, <1>5 DEF From, u

LEMMA HeadConcat ==
  ASSUME NEW s \in Seq(Tasks), NEW u \in Seq(Tasks), s # <<>>
  PROVE  s \o u # <<>> /\ Head(s \o u) = Head(s) /\ Tail(s \o u) = Tail(s) \o u
<1>1. Len(s) \in Nat /\ Len(u) \in Nat /\ Len(s) > 0
  BY LenProperties, EmptySeq
<1>2. s \o u \in Seq(Tasks) /\ s \o u # <<>>
  BY ConcatProperties, ConcatEqualIffEmpty
<1>3. Head(s \o u) = Head(s)
  BY <1>1, ConcatProperties
<1>4. /\ Tail(s \o u) \in Seq(Tasks) /\ Len(Tail(s \o u)) = Len(s) + Len(u) - 1
      /\ \A i \in 1 .. Len(s) + Len(u) - 1 : Tail(s \o u)[i] = (s \o u)[i + 1]
  BY <1>1, <1>2, ConcatProperties, HeadTailProperties
<1>5. /\ Tail(s) \in Seq(Tasks) /\ Len(Tail(s)) = Len(s) - 1
      /\ \A i \in 1 .. Len(s) - 1 : Tail(s)[i] = s[i + 1]
  BY HeadTailProperties
<1>6. /\ Tail(s) \o u \in Seq(Tasks)
      /\ Len(Tail(s) \o u) = Len(s) - 1 + Len(u)
      /\ \A i \in 1 .. Len(s) - 1 + Len(u) :
            (Tail(s) \o u)[i] = IF i <= Len(s) - 1 THEN Tail(s)[i]
                                                   ELSE u[i - (Len(s) - 1)]
  BY <1>5, ConcatProperties
<1>7. \A i \in 1 .. Len(s) + Len(u) - 1 : Tail(s \o u)[i] = (Tail(s) \o u)[i]
  <2> TAKE i \in 1 .. Len(s) + Len(u) - 1
  <2>1. (s \o u)[i + 1] = IF i + 1 <= Len(s) THEN s[i + 1] ELSE u[i + 1 - Len(s)]
    BY <1>1, ConcatProperties
  <2>2. i + 1 - Len(s) = i - (Len(s) - 1)
    BY <1>1
  <2> QED BY <1>1, <1>4, <1>5, <1>6, <2>1, <2>2
<1>8. Tail(s \o u) = Tail(s) \o u
  BY <1>1, <1>4, <1>6, <1>7, SeqEqual
<1> QED BY <1>2, <1>3, <1>8

LEMMA ConcatAppend ==
  ASSUME NEW s \in Seq(Tasks), NEW u \in Seq(Tasks), NEW t \in Tasks
  PROVE  s \o Append(u, t) = Append(s \o u, t)
<1>1. <<t>> \in Seq(Tasks) /\ s \o u \in Seq(Tasks)
  BY ConcatProperties
<1> QED BY <1>1, AppendIsConcat, ConcatAssociative

LEMMA MoveHead ==
  ASSUME NEW s \in Seq(Tasks), NEW u \in Seq(Tasks), u # <<>>
  PROVE  Append(s, Head(u)) \o Tail(u) = s \o u
<1>1. Head(u) \in Tasks /\ Tail(u) \in Seq(Tasks) /\ <<Head(u)>> \in Seq(Tasks)
  BY HeadTailProperties
<1>2. <<Head(u)>> \o Tail(u) = u
  <2>1. Len(u) \in Nat /\ Len(u) > 0 /\ 1 \in 1 .. Len(u) /\ Len(u) \in 1 .. Len(u)
    BY LenProperties, EmptySeq
  <2>2. SubSeq(u, 1, Len(u)) = <<u[1]>> \o SubSeq(u, 2, Len(u))
    BY <2>1, SubSeqRecursiveFirst
  <2> QED BY <2>2, SubSeqFull, TailIsSubSeq
<1> QED BY <1>1, <1>2, AppendIsConcat, ConcatAssociative

-----------------------------------------------------------------------------
\* The inductive invariant: where the worker stands in its two lists, which
\* tasks it still has to execute, and who uses the file.
LogType ==
  /\ TypeOK
  /\ logFile \in {"null", "open", "closed"}
  /\ setPc \in {"idle", "clear", "open", "destroy"}
  /\ paths \in Nat
  /\ testPc \in {"start", "write", "skip"}
  /\ broken \in BOOLEAN

PlaceInv ==
  /\ isRun => pc \notin {"none", "drain", "end"}
  /\ starts = 0 <=> pc = "none"
  /\ pc \in {"none", "loop", "fetch"} => tasks = <<>>
  /\ pc = "run" => at <= Len(tasks) + 1
  /\ pc \in {"drain", "end"} => at <= Len(tasksBuf) + 1

QueueInv ==
  /\ executed \o queueBar = added
  /\ pc = "end" => promised <= Len(executed)

FileInv ==
  /\ testPc # "start" => Executes
  /\ paths <= 1 =>
       /\ ~broken
       /\ setPc # "clear"
       /\ paths = 0 => logFile = "null" /\ setPc = "idle"
       /\ setPc = "open" => logFile = "null"
       /\ logFile = "closed" => setPc = "destroy"
       /\ setPc = "destroy" => pc = "end"
       /\ testPc = "write" => logFile = "open"

IInv == LogType /\ PlaceInv /\ QueueInv /\ FileInv

\* What a step does to the abstract queue.
Adds == \E t \in Tasks : /\ added' = Append(added, t)
                         /\ queueBar' = Append(queueBar, t)
                         /\ UNCHANGED executed
Takes == /\ queueBar # <<>>
         /\ executed' = Append(executed, Head(queueBar))
         /\ queueBar' = Tail(queueBar)
         /\ UNCHANGED added
Keeps == UNCHANGED <<added, queueBar, executed>>

LEMMA QueueType ==
  ASSUME TypeOK, PlaceInv
  PROVE  queueBar \in Seq(Tasks)
<1>1. pc = "run" => From(tasks, at) \in Seq(Tasks)
  BY FromEnds, LenProperties DEF TypeOK, PlaceInv
<1>2. pc \in {"drain", "end"} => From(tasksBuf, at) \in Seq(Tasks)
  BY FromEnds, LenProperties DEF TypeOK, PlaceInv
<1>3. tasks \in Seq(Tasks) /\ tasksBuf \in Seq(Tasks)
  BY DEF TypeOK
<1>4. pc = "run" => From(tasks, at) \o tasksBuf \in Seq(Tasks)
  BY <1>1, <1>3, ConcatProperties
<1>5. tasks \o tasksBuf \in Seq(Tasks)
  BY <1>3, ConcatProperties
<1> QED BY <1>2, <1>4, <1>5 DEF queueBar

LEMMA AddEffect ==
  ASSUME TypeOK, PlaceInv, NEW t \in Tasks, AddTask(t)
  PROVE  Adds
<1> USE DEF TypeOK, AddTask, ownerVars
<1>1. CASE pc = "run"
  <2>1. From(tasks, at) \in Seq(Tasks)
    BY <1>1, FromEnds, LenProperties DEF PlaceInv
  <2>2. From(tasks, at) \o Append(tasksBuf, t) = Append(From(tasks, at) \o tasksBuf, t)
    BY <2>1, ConcatAppend
  <2> QED BY <1>1, <2>2 DEF Adds, queueBar
<1>2. CASE pc \in {"drain", "end"}
  <2>1. From(Append(tasksBuf, t), at) = Append(From(tasksBuf, at), t)
    BY <1>2, FromAppend, LenProperties DEF PlaceInv
  <2> QED BY <1>2, <2>1 DEF Adds, queueBar
<1>3. CASE pc \notin {"run", "drain", "end"}
  <2>1. tasks \o Append(tasksBuf, t) = Append(tasks \o tasksBuf, t)
    BY ConcatAppend
  <2> QED BY <1>3, <2>1 DEF Adds, queueBar
<1> QED BY <1>1, <1>2, <1>3

LEMMA TakeEffect ==
  ASSUME TypeOK, PlaceInv, RunTask \/ DrainTask
  PROVE  Takes
<1>1. CASE RunTask
  <2> USE <1>1 DEF RunTask, TypeOK, ownerVars
  <2>1. at \in 1 .. Len(tasks) /\ at \in 1 .. Len(tasks) + 1 /\ Len(tasks) \in Nat
    BY LenProperties
  <2>2. From(tasks, at) \in Seq(Tasks)
    BY <2>1, FromEnds
  <2>3. /\ From(tasks, at) # <<>>
        /\ Head(From(tasks, at)) = tasks[at]
        /\ Tail(From(tasks, at)) = From(tasks, at + 1)
    BY <2>1, FromNext
  <2>4. /\ From(tasks, at) \o tasksBuf # <<>>
        /\ Head(From(tasks, at) \o tasksBuf) = tasks[at]
        /\ Tail(From(tasks, at) \o tasksBuf) = From(tasks, at + 1) \o tasksBuf
    <3> tasksBuf \in Seq(Tasks)
      OBVIOUS
    <3> HIDE <1>1 DEF RunTask, TypeOK, ownerVars
    <3>1. /\ From(tasks, at) \o tasksBuf # <<>>
          /\ Head(From(tasks, at) \o tasksBuf) = Head(From(tasks, at))
          /\ Tail(From(tasks, at) \o tasksBuf) = Tail(From(tasks, at)) \o tasksBuf
      BY <2>2, <2>3, HeadConcat, Zenon
    <3> QED BY ONLY <2>3, <3>1
  <2> QED BY <2>4 DEF Takes, queueBar
<1>2. CASE DrainTask
  <2> USE <1>2 DEF DrainTask, TypeOK, ownerVars
  <2>1. at \in 1 .. Len(tasksBuf)
    BY LenProperties
  <2>2. /\ From(tasksBuf, at) # <<>>
        /\ Head(From(tasksBuf, at)) = tasksBuf[at]
        /\ Tail(From(tasksBuf, at)) = From(tasksBuf, at + 1)
    BY <2>1, FromNext
  <2> QED BY <2>2 DEF Takes, queueBar
<1> QED BY <1>1, <1>2

LEMMA KeepEffect ==
  ASSUME TypeOK, PlaceInv, MaxStarts = 1,
         \/ Start \/ Close \/ CloseReturn \/ EnterLoop \/ Fetch \/ Sleep
         \/ ClearTasks \/ LeaveLoop \/ DrainDone \/ UNCHANGED vars
  PROVE  Keeps
<1> USE DEF TypeOK, ownerVars, listVars
<1>1. CASE Start
  BY <1>1 DEF Start, PlaceInv, Keeps, queueBar
<1>2. CASE Close \/ CloseReturn \/ EnterLoop \/ Sleep \/ UNCHANGED vars
  BY <1>2 DEF Close, CloseReturn, EnterLoop, Sleep, vars, Keeps, queueBar
<1>3. CASE Fetch
  <2>1. tasks \o tasksBuf \in Seq(Tasks) /\ Len(tasks \o tasksBuf) \in Nat
    BY ConcatProperties, LenProperties
  <2>2. From(tasks \o tasksBuf, 1) \o <<>> = tasks \o tasksBuf
    <3>1. 1 \in 1 .. Len(tasks \o tasksBuf) + 1
      BY <2>1
    <3>2. From(tasks \o tasksBuf, 1) = tasks \o tasksBuf
      BY <2>1, <3>1, FromEnds, Zenon
    <3> QED BY <2>1, <3>2, ConcatEmptySeq, Zenon
  <2> QED BY <1>3, <2>2 DEF Fetch, Keeps, queueBar
<1>4. CASE ClearTasks
  <2>1. From(tasks, at) = <<>>
    BY <1>4, FromEnds, LenProperties DEF ClearTasks, PlaceInv
  <2> QED BY <1>4, <2>1 DEF ClearTasks, Keeps, queueBar
<1>5. CASE LeaveLoop
  <2>1. tasks \o tasksBuf = tasksBuf
    BY <1>5, ConcatEmptySeq DEF LeaveLoop, PlaceInv
  <2>2. From(tasksBuf, 1) = tasksBuf
    BY FromEnds, LenProperties
  <2> QED BY <1>5, <2>1, <2>2 DEF LeaveLoop, Keeps, queueBar
<1>6. CASE DrainDone
  BY <1>6 DEF DrainDone, Keeps, queueBar
<1> QED BY <1>1, <1>2, <1>3, <1>4, <1>5, <1>6

LEMMA StepEffect ==
  ASSUME TypeOK, PlaceInv, MaxStarts = 1, [LogNext]_<<vars, logVars>>
  PROVE  Adds \/ Takes \/ Keeps
<1>1. CASE \E t \in Tasks : AddTask(t)
  BY <1>1, AddEffect
<1>2. CASE RunTask \/ DrainTask
  BY <1>2, TakeEffect
<1>3. CASE \/ Start \/ Close \/ CloseReturn \/ EnterLoop \/ Fetch \/ Sleep
           \/ ClearTasks \/ LeaveLoop \/ DrainDone \/ UNCHANGED vars
  BY <1>3, KeepEffect
<1> QED
  BY <1>1, <1>2, <1>3
  DEF LogNext, LogThread, TestFile, WriteFile, SetLogPath, ClearFile, OpenFile,
      DestroyFile, DestroyClears

LEMMA TypeStep ==
  ASSUME LogType, [LogNext]_<<vars, logVars>>
  PROVE  LogType'
<1> USE DEF LogType, TypeOK
<1>1. CASE \E t \in Tasks : AddTask(t) /\ UNCHANGED logVars
  <2> PICK t \in Tasks : AddTask(t) /\ UNCHANGED logVars
    BY <1>1
  <2>1. /\ Append(added, t) \in Seq(Tasks) /\ Append(tasksBuf, t) \in Seq(Tasks)
        /\ Len(Append(added, t)) = Len(added) + 1 /\ Len(added) \in Nat
    BY AppendProperties, LenProperties
  <2> QED BY <2>1 DEF AddTask, ownerVars, logVars
<1>2. CASE (RunTask \/ DrainTask) /\ WriteFile
  <2>1. RunTask => tasks[at] \in Tasks
    BY ElementOfSeq, LenProperties DEF RunTask
  <2>2. DrainTask => tasksBuf[at] \in Tasks
    BY ElementOfSeq, LenProperties DEF DrainTask
  <2>3. executed' \in Seq(Tasks)
    <3>1. CASE RunTask
      BY <2>1, <3>1, AppendProperties, Zenon DEF RunTask
    <3>2. CASE DrainTask
      BY <2>2, <3>2, AppendProperties, Zenon DEF DrainTask
    <3> QED BY <1>2, <3>1, <3>2
  <2>4. broken' \in BOOLEAN
    BY <1>2, Zenon DEF WriteFile
  <2> QED BY <1>2, <2>3, <2>4 DEF RunTask, DrainTask, WriteFile, ownerVars
<1>3. CASE Fetch /\ UNCHANGED logVars
  <2>1. tasks \o tasksBuf \in Seq(Tasks)
    BY ConcatProperties
  <2> QED BY <1>3, <2>1 DEF Fetch, ownerVars, logVars
<1>4. CASE \/ Start /\ UNCHANGED logVars
           \/ setPc = "idle" /\ Close /\ UNCHANGED logVars
           \/ CloseReturn /\ UNCHANGED logVars
  <2>1. isRun' \in BOOLEAN
    BY <1>4, Zenon DEF Start, Close, CloseReturn
  <2>2. Len(added) \in Nat
    BY LenProperties
  <2>3. broken' = broken
    BY <1>4 DEF logVars
  <2> QED
    BY <1>4, <2>1, <2>2, <2>3, TaskAssumption
    DEF Start, Close, CloseReturn, listVars, logVars
<1>5. CASE /\ EnterLoop \/ Sleep \/ ClearTasks \/ LeaveLoop \/ DrainDone
           /\ UNCHANGED logVars
  <2>1. <<>> \in Seq(Tasks)
    BY EmptySeq
  <2>2. broken' = broken /\ isRun' = isRun
    BY <1>5 DEF EnterLoop, Sleep, ClearTasks, LeaveLoop, DrainDone, ownerVars, logVars
  <2>3. tasks' \in Seq(Tasks)
    BY <1>5, <2>1, Zenon
    DEF EnterLoop, Sleep, ClearTasks, LeaveLoop, DrainDone, listVars
  <2> QED BY <1>5, <2>2, <2>3
  DEF EnterLoop, Sleep, ClearTasks, LeaveLoop, DrainDone, ownerVars, listVars, logVars
<1>6. CASE \/ TestFile \/ SetLogPath \/ ClearFile \/ OpenFile \/ DestroyFile
           \/ DestroyClears
  BY <1>6
  DEF TestFile, SetLogPath, ClearFile, OpenFile, DestroyFile, DestroyClears,
      vars, ownerVars, listVars
<1>7. CASE UNCHANGED <<vars, logVars>>
  BY <1>7 DEF vars, ownerVars, listVars, logVars
<1> QED
  BY <1>1, <1>2, <1>3, <1>4, <1>5, <1>6, <1>7 DEF LogNext, LogThread, WriteFile

LEMMA PlaceStep ==
  ASSUME LogType, PlaceInv, MaxStarts = 1, [LogNext]_<<vars, logVars>>
  PROVE  PlaceInv'
<1> USE DEF LogType, TypeOK, PlaceInv
<1>1. CASE \E t \in Tasks : AddTask(t)
  <2> PICK t \in Tasks : AddTask(t)
    BY <1>1
  <2>1. Len(Append(tasksBuf, t)) = Len(tasksBuf) + 1 /\ Len(tasksBuf) \in Nat
    BY AppendProperties, LenProperties
  <2> QED BY <2>1 DEF AddTask, ownerVars
<1>2. CASE RunTask \/ DrainTask
  BY <1>2, LenProperties DEF RunTask, DrainTask, ownerVars
<1>3. CASE Fetch
  <2>1. Len(tasks \o tasksBuf) \in Nat
    BY ConcatProperties, LenProperties
  <2> QED BY <1>3, <2>1 DEF Fetch, ownerVars
<1>4. CASE Start \/ Close \/ CloseReturn
  BY <1>4 DEF Start, Close, CloseReturn, listVars
<1>5. CASE EnterLoop \/ Sleep \/ ClearTasks \/ LeaveLoop \/ DrainDone
  BY <1>5, LenProperties
  DEF EnterLoop, Sleep, ClearTasks, LeaveLoop, DrainDone, ownerVars, listVars
<1>6. CASE UNCHANGED vars
  BY <1>6 DEF vars, ownerVars, listVars
<1> QED
  BY <1>1, <1>2, <1>3, <1>4, <1>5, <1>6
  DEF LogNext, LogThread, TestFile, WriteFile, SetLogPath, ClearFile, OpenFile,
      DestroyFile, DestroyClears

LEMMA QueueStep ==
  ASSUME LogType, LogType', PlaceInv, PlaceInv', QueueInv, MaxStarts = 1,
         [LogNext]_<<vars, logVars>>
  PROVE  QueueInv'
<1>0. /\ added \in Seq(Tasks) /\ executed \in Seq(Tasks)
      /\ queueBar \in Seq(Tasks) /\ queueBar' \in Seq(Tasks)
  <2>1. queueBar \in Seq(Tasks)
    BY QueueType DEF LogType
  <2>2. (queueBar \in Seq(Tasks))'
    BY QueueType, PTL DEF LogType
  <2> QED BY <2>1, <2>2 DEF LogType, TypeOK
<1>1. (executed \o queueBar = added)'
  <2>1. CASE Adds
    <3> PICK t \in Tasks : /\ added' = Append(added, t)
                           /\ queueBar' = Append(queueBar, t)
                           /\ UNCHANGED executed
      BY <2>1 DEF Adds
    <3> QED BY <1>0, ConcatAppend DEF QueueInv
  <2>2. CASE Takes
    BY <1>0, <2>2, MoveHead DEF Takes, QueueInv
  <2>3. CASE Keeps
    BY <2>3 DEF Keeps, QueueInv
  <2> QED BY <2>1, <2>2, <2>3, StepEffect DEF LogType
<1>2. (pc = "end" => promised <= Len(executed))'
  <2>1. CASE DrainDone
    <3>1. queueBar = <<>>
      BY <2>1, FromEnds, LenProperties DEF DrainDone, queueBar, PlaceInv, LogType, TypeOK
    <3>2. executed = added
      BY <1>0, <3>1, ConcatEmptySeq DEF QueueInv
    <3> QED BY <2>1, <3>2 DEF DrainDone, LogType, TypeOK, ownerVars
  <2>2. CASE \E t \in Tasks : AddTask(t)
    BY <2>2 DEF AddTask, ownerVars, QueueInv
  <2>3. CASE \/ Start \/ Close \/ CloseReturn \/ EnterLoop \/ Fetch \/ Sleep
             \/ RunTask \/ DrainTask \/ ClearTasks \/ LeaveLoop \/ UNCHANGED vars
    BY <2>3
    DEF Start, Close, CloseReturn, EnterLoop, Fetch, Sleep, RunTask, DrainTask,
        ClearTasks, LeaveLoop, vars, ownerVars, listVars, QueueInv, PlaceInv
  <2> QED
    BY <2>1, <2>2, <2>3
    DEF LogNext, LogThread, TestFile, WriteFile, SetLogPath, ClearFile, OpenFile,
        DestroyFile, DestroyClears
<1> QED BY <1>1, <1>2 DEF QueueInv

LEMMA FileStep ==
  ASSUME LogType, LogType', PlaceInv, PlaceInv', FileInv, MaxStarts = 1,
         [LogNext]_<<vars, logVars>>
  PROVE  FileInv'
<1> USE DEF LogType, TypeOK, PlaceInv, FileInv, Executes
<1>1. CASE \E t \in Tasks : AddTask(t) /\ UNCHANGED logVars
  <2> PICK t \in Tasks : AddTask(t) /\ UNCHANGED logVars
    BY <1>1
  <2>1. Len(Append(tasksBuf, t)) = Len(tasksBuf) + 1 /\ Len(tasksBuf) \in Nat
    BY AppendProperties, LenProperties
  <2> QED BY <2>1 DEF AddTask, ownerVars, logVars
<1>2. CASE WriteFile
  BY <1>2 DEF WriteFile, RunTask, DrainTask, ownerVars
<1>3. CASE /\ UNCHANGED logVars
           /\ \/ Start \/ Close \/ CloseReturn \/ EnterLoop \/ Fetch \/ Sleep
              \/ ClearTasks \/ LeaveLoop \/ DrainDone
  BY <1>3, LenProperties
  DEF Start, Close, CloseReturn, EnterLoop, Fetch, Sleep, ClearTasks, LeaveLoop,
      DrainDone, ownerVars, listVars, logVars
<1>4. CASE TestFile
  BY <1>4 DEF TestFile, vars, ownerVars, listVars
<1>5. CASE SetLogPath \/ ClearFile \/ OpenFile
  BY <1>5 DEF SetLogPath, ClearFile, OpenFile, vars, ownerVars, listVars
<1>6. CASE DestroyFile \/ DestroyClears
  BY <1>6 DEF DestroyFile, DestroyClears, vars, ownerVars, listVars
<1>7. CASE UNCHANGED <<vars, logVars>>
  BY <1>7 DEF vars, ownerVars, listVars, logVars
<1> QED BY <1>1, <1>2, <1>3, <1>4, <1>5, <1>6, <1>7 DEF LogNext, LogThread

-----------------------------------------------------------------------------
LEMMA TypeInit == LogInit => LogType
<1>1. <<>> \in Seq(Tasks) /\ Len(<<>>) = 0
  BY EmptySeq
<1>2. LogInit => isRun \in BOOLEAN /\ broken \in BOOLEAN
  BY Zenon DEF LogInit, Init
<1>3. LogInit => /\ added \in Seq(Tasks) /\ executed \in Seq(Tasks)
                 /\ tasks \in Seq(Tasks) /\ tasksBuf \in Seq(Tasks)
                 /\ Len(added) = 0
  BY <1>1, Zenon DEF LogInit, Init
<1> QED BY <1>2, <1>3, TaskAssumption DEF LogInit, Init, LogType, TypeOK

\* The variables of the log and of its task server keep their types.
THEOREM TypeCorrect == LogSpec => []LogType
<1>1. LogInit => LogType
  BY TypeInit
<1>2. LogType /\ [LogNext]_<<vars, logVars>> => LogType'
  BY TypeStep
<1> QED BY <1>1, <1>2, PTL DEF LogSpec

LEMMA InvInit == LogInit => PlaceInv /\ QueueInv /\ FileInv
<1>1. /\ <<>> \in Seq(Tasks) /\ Len(<<>>) = 0
      /\ <<>> \o <<>> = <<>>
  BY EmptySeq, ConcatEmptySeq, Zenon
<1>2. LogInit => PlaceInv
  BY DEF LogInit, Init, PlaceInv
<1>3. LogInit => QueueInv
  BY <1>1 DEF LogInit, Init, QueueInv, queueBar
<1>4. LogInit => FileInv
  BY DEF LogInit, FileInv
<1> QED BY <1>2, <1>3, <1>4

LEMMA InvCorrect ==
  ASSUME MaxStarts = 1
  PROVE  LogSpec => []IInv
<1>1. LogInit => IInv
  BY InvInit, TypeInit DEF IInv
<1>2. IInv /\ [LogNext]_<<vars, logVars>> => IInv'
  <2> SUFFICES ASSUME IInv, [LogNext]_<<vars, logVars>> PROVE IInv'
    OBVIOUS
  <2>1. LogType'
    BY TypeStep DEF IInv
  <2>2. PlaceInv'
    BY PlaceStep DEF IInv
  <2>3. QueueInv' /\ FileInv'
    BY <2>1, <2>2, QueueStep, FileStep DEF IInv
  <2> QED BY <2>1, <2>2, <2>3 DEF IInv
<1> QED BY <1>1, <1>2, PTL DEF LogSpec

\* When Close has returned, what was added before the call has been executed.
THEOREM CloseFlushesCorrect ==
  ASSUME MaxStarts = 1
  PROVE  LogSpec => []CloseFlushes
<1>1. ASSUME IInv, pc = "end", NEW i \in 1 .. promised
      PROVE  \E j \in 1 .. Len(executed) : executed[j] = added[i]
  <2>1. /\ executed \in Seq(Tasks) /\ queueBar \in Seq(Tasks)
        /\ Len(executed) \in Nat /\ Len(queueBar) \in Nat
    BY <1>1, QueueType, LenProperties DEF IInv, LogType, TypeOK
  <2>2. i \in 1 .. Len(executed)
    BY <1>1, <2>1 DEF IInv, QueueInv, LogType, TypeOK
  <2>3. (executed \o queueBar)[i] = executed[i]
    BY <2>1, <2>2, ConcatProperties
  <2> QED BY <1>1, <2>2, <2>3 DEF IInv, QueueInv
<1>2. IInv => CloseFlushes
  BY <1>1 DEF CloseFlushes
<1> QED BY <1>2, InvCorrect, PTL

\* The task server, with the log around it, implements TaskQueue: tasks run
\* once, in the order of addTask.
THEOREM ImplementsQueueCorrect ==
  ASSUME MaxStarts = 1
  PROVE  LogSpec => ImplementsQueue
<1>1. LogInit => Queue!QueueInit
  <2>1. <<>> \o <<>> = <<>>
    BY EmptySeq, ConcatEmptySeq, Zenon
  <2> QED BY <2>1 DEF LogInit, Init, Queue!QueueInit, queueBar
<1>2. IInv /\ [LogNext]_<<vars, logVars>> => [Queue!QueueNext]_<<queueBar, executed>>
  <2> SUFFICES ASSUME IInv, [LogNext]_<<vars, logVars>>
               PROVE  [Queue!QueueNext]_<<queueBar, executed>>
    OBVIOUS
  <2>1. Adds \/ Takes \/ Keeps
    BY StepEffect DEF IInv, LogType
  <2> QED
    BY <2>1
    DEF Adds, Takes, Keeps, Queue!QueueNext, Queue!Add, Queue!Execute
<1> QED BY <1>1, <1>2, InvCorrect, PTL
        DEF LogSpec, ImplementsQueue, Queue!QueueSpec, Queue!queueVars

\* With one call of setLogPath no task writes to a file that is not open.
THEOREM FileUsedOpenCorrect ==
  ASSUME MaxStarts = 1
  PROVE  LogSpec => []FileUsedOpen
<1>1. IInv => FileUsedOpen
  BY DEF IInv, FileInv, LogType, FileUsedOpen
<1> QED BY <1>1, InvCorrect, PTL

-----------------------------------------------------------------------------
\* A running worker is in its loop; one that nobody waits for is at its end
\* or has not begun.
PhaseInv ==
  /\ isRun => pc \in {"loop", "fetch", "run"} /\ owner = "idle"
  /\ ~isRun /\ owner = "idle" => pc \in {"none", "end"}

\* Each step leaves the worker and its owner in a phase of the life cycle.
LEMMA PhaseStep ==
  ASSUME LogType, PhaseInv, [LogNext]_<<vars, logVars>>
  PROVE  /\ PhaseInv'
         /\ [Thread!LifeNext]_<<phaseBar, owner>>
<1> USE DEF PhaseInv, LogType, TypeOK, phaseBar, vars, ownerVars, logVars
<1>1. CASE Start
  BY <1>1 DEF Start, Thread!LifeNext, Thread!Begin
<1>2. CASE Close
  BY <1>2 DEF Close, Thread!LifeNext, Thread!RequestStop
<1>3. CASE CloseReturn
  BY <1>3 DEF CloseReturn, Thread!LifeNext, Thread!Return
<1>4. CASE DrainDone
  BY <1>4 DEF DrainDone, Thread!LifeNext, Thread!End
<1>5. CASE EnterLoop \/ Fetch \/ Sleep \/ ClearTasks \/ LeaveLoop
  BY <1>5 DEF EnterLoop, Fetch, Sleep, ClearTasks, LeaveLoop
<1>6. CASE RunTask \/ DrainTask \/ \E t \in Tasks : AddTask(t)
  BY <1>6 DEF RunTask, DrainTask, AddTask
<1>7. CASE UNCHANGED vars
  BY <1>7
<1> QED BY <1>1, <1>2, <1>3, <1>4, <1>5, <1>6, <1>7
        DEF LogNext, LogThread, TestFile, WriteFile, SetLogPath, ClearFile,
            OpenFile, DestroyFile, DestroyClears

\* The log uses its thread as the life cycle of a CELLThread allows, however
\* often it is started.
THEOREM ThreadCorrect == LogSpec => ThreadAsPromised
<1>1. LogInit => PhaseInv /\ Thread!LifeInit
  BY DEF LogInit, Init, PhaseInv, Thread!LifeInit, phaseBar
<1>2. LogType /\ PhaseInv /\ [LogNext]_<<vars, logVars>>
        => PhaseInv' /\ [Thread!LifeNext]_<<phaseBar, owner>>
  BY PhaseStep
<1> QED BY <1>1, <1>2, TypeCorrect, PTL
        DEF LogSpec, ThreadAsPromised, Thread!LifeSpec, Thread!lifeVars
=============================================================================
