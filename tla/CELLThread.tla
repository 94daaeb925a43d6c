------------------------------ MODULE CELLThread ------------------------------
(***************************************************************************)
(* One CELLThread object: callers that Start and Close it, the threads it  *)
(* creates (OnWork), and its CELLSemaphore.  Start and Exit hold _mutex    *)
(* from end to end without blocking and are one step each; Close keeps it  *)
(* while it waits on the semaphore.                                        *)
(***************************************************************************)
EXTENDS CELLSemaphore, FiniteSets

CONSTANTS
  NoCaller,      \* _mutex is free
  Workers,       \* the threads of execution Start can create (a bound)
  ExitAllowed    \* TRUE iff the work function may end itself with Exit()

ASSUME ThreadAssumption ==
  /\ NoCaller \notin Callers
  /\ ExitAllowed \in BOOLEAN

VARIABLES
  mutex,   \* the caller that holds _mutex between two steps, or NoCaller
  isRun,   \* _isRun
  cpc,     \* where each caller is
  wpc      \* where each created thread is in OnWork

vars == <<mutex, isRun, cpc, wpc, semVars>>

CallerPc == {"idle", "semwait", "blocked"}
WorkerPc == {"unborn", "run", "exit", "destroy", "wakeup", "done"}

TypeOK ==
  /\ mutex    \in Callers \cup {NoCaller}
  /\ isRun    \in BOOLEAN
  /\ cpc      \in [Callers -> CallerPc]
  /\ wpc      \in [Workers -> WorkerPc]
  /\ semCount \in Int
  /\ waiting  \in SUBSET {c \in Callers : cpc[c] = "blocked"}

Active == {w \in Workers : wpc[w] \notin {"unborn", "done"}}

Init ==
  /\ mutex = NoCaller
  /\ isRun = FALSE
  /\ cpc = [c \in Callers |-> "idle"]
  /\ wpc = [w \in Workers |-> "unborn"]
  /\ SemInit

-----------------------------------------------------------------------------
\* Slip: a Close that gives _mutex up before it waits.
CloseUnlocksEarly(c) ==
  /\ cpc[c] = "idle"
  /\ mutex = NoCaller
  /\ isRun
  /\ isRun' = FALSE
  /\ cpc' = [cpc EXCEPT ![c] = "semwait"]
  /\ UNCHANGED <<mutex, wpc, semVars>>

-----------------------------------------------------------------------------
\* Start: does nothing if _isRun is set already.
Start(w) ==
  /\ mutex = NoCaller
  /\ ~isRun
  /\ wpc[w] = "unborn"
  /\ isRun' = TRUE
  /\ wpc' = [wpc EXCEPT ![w] = "run"]
  /\ UNCHANGED <<mutex, cpc, semVars>>

\* Close on a running thread.  On any other it returns at once and changes
\* nothing.
Close(c) ==
  /\ cpc[c] = "idle"
  /\ mutex = NoCaller
  /\ isRun
  /\ isRun' = FALSE
  /\ mutex' = c
  /\ cpc' = [cpc EXCEPT ![c] = "semwait"]
  /\ UNCHANGED <<wpc, semVars>>

\* _sem.wait(), which blocks the caller or lets Close return.
SemWait(c) ==
  /\ cpc[c] = "semwait"
  /\ Wait(c)
  /\ IF c \in waiting'
     THEN cpc' = [cpc EXCEPT ![c] = "blocked"] /\ UNCHANGED mutex
     ELSE cpc' = [cpc EXCEPT ![c] = "idle"] /\ mutex' = NoCaller
  /\ UNCHANGED <<isRun, wpc>>

\* _cv.wait has returned: so does Close.
CloseReturn(c) ==
  /\ cpc[c] = "blocked"
  /\ c \notin waiting
  /\ cpc' = [cpc EXCEPT ![c] = "idle"]
  /\ mutex' = NoCaller
  /\ UNCHANGED <<isRun, wpc, semVars>>

SpuriousWakeup(c) ==
  /\ Spurious(c)
  /\ UNCHANGED <<mutex, isRun, cpc, wpc>>

-----------------------------------------------------------------------------
\* The loop of _onRun finds isRun() FALSE and returns.
BodyEnds(w) ==
  /\ wpc[w] = "run"
  /\ ~isRun
  /\ wpc' = [wpc EXCEPT ![w] = "destroy"]
  /\ UNCHANGED <<mutex, isRun, cpc, semVars>>

\* An error in _onRun: it will call Exit() and return.
BodyFails(w) ==
  /\ ExitAllowed
  /\ wpc[w] = "run"
  /\ wpc' = [wpc EXCEPT ![w] = "exit"]
  /\ UNCHANGED <<mutex, isRun, cpc, semVars>>

Exit(w) ==
  /\ wpc[w] = "exit"
  /\ mutex = NoCaller
  /\ isRun' = FALSE
  /\ wpc' = [wpc EXCEPT ![w] = "destroy"]
  /\ UNCHANGED <<mutex, cpc, semVars>>

\* _onDestory
Destroy(w) ==
  /\ wpc[w] = "destroy"
  /\ wpc' = [wpc EXCEPT ![w] = "wakeup"]
  /\ UNCHANGED <<mutex, isRun, cpc, semVars>>

\* _sem.wakeup(), the last thing OnWork does.
WorkerWakeup(w) ==
  /\ wpc[w] = "wakeup"
  /\ Wakeup
  /\ wpc' = [wpc EXCEPT ![w] = "done"]
  /\ UNCHANGED <<mutex, isRun, cpc>>

CallerStep(c) == SemWait(c) \/ CloseReturn(c)

WorkerStep(w) ==
  BodyEnds(w) \/ Exit(w) \/ Destroy(w) \/ WorkerWakeup(w)

Next ==
  \/ \E w \in Workers : Start(w) \/ BodyFails(w) \/ WorkerStep(w)
  \/ \E c \in Callers : Close(c) \/ CallerStep(c) \/ SpuriousWakeup(c)

Spec == Init /\ [][Next]_vars

\* Threads keep being scheduled; nobody has to start, close or fail.
Fairness ==
  /\ \A w \in Workers : WF_vars(WorkerStep(w))
  /\ \A c \in Callers : WF_vars(CallerStep(c))

-----------------------------------------------------------------------------
\* At most one thread of execution is inside OnWork, although Start and
\* Close may be called by several callers, any number of times.
AtMostOneWorker == \A v, w \in Active : v = w

\* "Block until the thread has completely ended" (CellThread.hpp:43): when a
\* Close that found the thread running returns, no thread is left.
Returns(c) == cpc[c] # "idle" /\ cpc'[c] = "idle"
CloseWaitsForWorker ==
  [][\A c \in Callers : Returns(c) => Active' = {}]_vars

\* No wakeup is lost: nobody is blocked on the semaphore once every created
\* thread has ended, even when earlier threads ended through Exit().
NoLostWakeup == Active = {} => waiting = {}

\* The semaphore is sound for one waiter only, and _mutex lets in only one.
SingleWaiter ==
  \A c, d \in Callers : cpc[c] # "idle" /\ cpc[d] # "idle" => c = d

\* The thread object implements the life cycle it promises.
phaseBar == IF isRun THEN "running"
            ELSE IF Active # {} THEN "stopping" ELSE "stopped"
Lifecycle == INSTANCE ThreadLifecycle WITH phase <- phaseBar, closer <- mutex
ImplementsLifecycle == Lifecycle!LifeSpec
=============================================================================
