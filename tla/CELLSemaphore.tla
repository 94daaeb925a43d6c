---------------------------- MODULE CELLSemaphore -----------------------------
(***************************************************************************)
(* CELLSemaphore: a counter with a mutex and a condition variable.  wait   *)
(* and wakeup hold the mutex from end to end, except while the condition   *)
(* variable waits, so each is one step here.                               *)
(***************************************************************************)
EXTENDS Integers

CONSTANTS
  Callers,          \* the threads that may call wait()
  SpuriousWakeups   \* TRUE iff _cv.wait may return without a notify

ASSUME SemAssumption == SpuriousWakeups \in BOOLEAN

VARIABLES
  semCount,   \* _sem_count
  waiting     \* the threads that _cv.wait has blocked

semVars == <<semCount, waiting>>

SemInit == semCount = 1 /\ waiting = {}

\* Slip: the test comes before the decrement.
WaitTestsFirst(t) ==
  /\ semCount' = semCount - 1
  /\ waiting'  = IF semCount <= 0 THEN waiting \cup {t} ELSE waiting

\* The counter is decremented first; only the new value is looked at.
Wait(t) ==
  /\ semCount' = semCount - 1
  /\ waiting'  = IF semCount - 1 <= 0 THEN waiting \cup {t} ELSE waiting

\* notify_one lets go any one of the waiting threads, if there is one.
NotifyOne ==
  \/ waiting = {} /\ waiting' = {}
  \/ \E t \in waiting : waiting' = waiting \ {t}

\* Slip: the test comes before the increment.
WakeupTestsFirst ==
  /\ semCount' = semCount + 1
  /\ IF semCount > 0 THEN NotifyOne ELSE UNCHANGED waiting

Wakeup ==
  /\ semCount' = semCount + 1
  /\ IF semCount + 1 > 0 THEN NotifyOne ELSE UNCHANGED waiting

\* _cv.wait has no predicate: nothing sends the thread back to sleep.
Spurious(t) ==
  /\ SpuriousWakeups
  /\ t \in waiting
  /\ waiting' = waiting \ {t}
  /\ UNCHANGED semCount
=============================================================================
