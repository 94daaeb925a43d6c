------------------------------- MODULE CELLLog --------------------------------
(***************************************************************************)
(* The log: a CellTaskServer whose tasks write to a file.  Its constructor *)
(* starts the server, its destructor closes it and then the file; every    *)
(* other thread calls Info, which is addTask, and one thread setLogPath.   *)
(*                                                                         *)
(* A task tests _logFile and then writes through it, in two steps; the     *)
(* steps of CellTaskServer that execute a task are conjoined with the      *)
(* second.  setLogPath closes, clears and opens in three.                  *)
(***************************************************************************)
EXTENDS CellTaskServer

CONSTANT MaxPaths    \* bound on the calls of setLogPath

ASSUME PathAssumption == MaxPaths \in Nat

VARIABLES
  logFile,    \* _logFile: "null", "open", or "closed" and not yet cleared
  setPc,      \* where setLogPath or the destructor is
  paths,      \* history: calls of setLogPath
  testPc,     \* the task that runs: "start", "write" or "skip"
  broken      \* history: a task has written through a bad _logFile

logVars == <<logFile, setPc, paths, testPc, broken>>

LogInit ==
  /\ Init
  /\ logFile = "null" /\ setPc = "idle" /\ paths = 0
  /\ testPc = "start" /\ broken = FALSE

-----------------------------------------------------------------------------
\* Slip: the destructor does not wait for the log thread.
DestroyFileFirst ==
  /\ starts > 0 /\ setPc = "idle"
  /\ logFile = "open"
  /\ logFile' = "closed" /\ setPc' = "destroy"
  /\ UNCHANGED <<vars, paths, testPc, broken>>

-----------------------------------------------------------------------------
Executes == (pc = "run" /\ at <= Len(tasks)) \/ (pc = "drain" /\ at <= Len(tasksBuf))

TestFile ==
  /\ Executes /\ testPc = "start"
  /\ testPc' = IF logFile = "null" THEN "skip" ELSE "write"
  /\ UNCHANGED <<vars, logFile, setPc, paths, broken>>

\* The fprintf calls of the task, each through _logFile, and the end of it.
WriteFile ==
  /\ testPc # "start"
  /\ RunTask \/ DrainTask
  /\ broken' = (broken \/ (testPc = "write" /\ logFile # "open"))
  /\ testPc' = "start"
  /\ UNCHANGED <<logFile, setPc, paths>>

-----------------------------------------------------------------------------
SetLogPath ==
  /\ starts > 0 /\ isRun /\ setPc = "idle"
  /\ paths < MaxPaths
  /\ paths' = paths + 1
  /\ IF logFile = "open"
     THEN logFile' = "closed" /\ setPc' = "clear"
     ELSE setPc' = "open" /\ UNCHANGED logFile
  /\ UNCHANGED <<vars, testPc, broken>>

ClearFile ==
  /\ setPc = "clear"
  /\ logFile' = "null" /\ setPc' = "open"
  /\ UNCHANGED <<vars, paths, testPc, broken>>

OpenFile ==
  /\ setPc = "open"
  /\ logFile' \in {"open", "null"}
  /\ setPc' = "idle"
  /\ UNCHANGED <<vars, paths, testPc, broken>>

\* ~CELLLog when its Close has returned.
DestroyFile ==
  /\ starts > 0 /\ setPc = "idle"
  /\ pc = "end" /\ owner = "idle"
  /\ logFile = "open"
  /\ logFile' = "closed" /\ setPc' = "destroy"
  /\ UNCHANGED <<vars, paths, testPc, broken>>

DestroyClears ==
  /\ setPc = "destroy" /\ logFile = "closed"
  /\ logFile' = "null"
  /\ UNCHANGED <<vars, setPc, paths, testPc, broken>>

-----------------------------------------------------------------------------
\* The steps of the task server that execute no task leave the file alone.
LogThread ==
  \/ TestFile \/ WriteFile
  \/ EnterLoop  /\ UNCHANGED logVars
  \/ Fetch      /\ UNCHANGED logVars
  \/ Sleep      /\ UNCHANGED logVars
  \/ ClearTasks /\ UNCHANGED logVars
  \/ LeaveLoop  /\ UNCHANGED logVars
  \/ DrainDone  /\ UNCHANGED logVars

LogNext ==
  \/ \E t \in Tasks : AddTask(t) /\ UNCHANGED logVars
  \/ Start /\ UNCHANGED logVars
  \/ setPc = "idle" /\ Close /\ UNCHANGED logVars
  \/ CloseReturn /\ UNCHANGED logVars
  \/ LogThread
  \/ SetLogPath \/ ClearFile \/ OpenFile
  \/ DestroyFile \/ DestroyClears

LogSpec == LogInit /\ [][LogNext]_<<vars, logVars>>

LogFairSpec ==
  /\ LogSpec
  /\ WF_<<vars, logVars>>(LogThread)
  /\ WF_<<vars, logVars>>(CloseReturn /\ UNCHANGED logVars)

-----------------------------------------------------------------------------
\* As long as the log is given one path, no task writes to a file that was
\* closed or not opened: only a second setLogPath races with the log thread.
FileUsedOpen == broken => paths > 1
=============================================================================
