-------------------------- MODULE CELLThreadHistory ---------------------------
(***************************************************************************)
(* CELLThread with a history variable that tells whether everything so far *)
(* went as an owner expects it: no work function has ended itself with     *)
(* Exit and no wait on the condition variable has returned by itself.      *)
(***************************************************************************)
EXTENDS CELLThread

VARIABLE sound   \* no fault has happened so far

historyVars == <<vars, sound>>

Fault ==
  \/ \E w \in Workers : BodyFails(w)
  \/ \E c \in Callers : SpuriousWakeup(c)

HistoryInit == Init /\ sound = TRUE

HistoryNext ==
  \/ Next /\ ~Fault /\ UNCHANGED sound
  \/ Fault /\ sound' = FALSE

HistorySpec == HistoryInit /\ [][HistoryNext]_historyVars

\* The fairness of CELLThread: sound holds back no step.
FairHistorySpec == HistorySpec /\ Fairness

-----------------------------------------------------------------------------
\* Up to the first fault the thread object is what ThreadLifecycle promises
\* its owner: Start gives one thread of execution, Close waits for its end
\* (CellThread.hpp:43), and nobody starts another one in between.
LifecycleUntilFault ==
  /\ Lifecycle!LifeInit
  /\ [][sound' => [Lifecycle!LifeNext]_<<phaseBar, mutex>>]_historyVars

\* Close (CellThread.hpp:38) returns, unless a fault happens before it does.
CloseReturnsUntilFault ==
  \A c \in Callers : cpc[c] # "idle" ~> cpc[c] = "idle" \/ ~sound
=============================================================================
