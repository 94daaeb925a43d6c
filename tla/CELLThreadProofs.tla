--------------------------- MODULE CELLThreadProofs ---------------------------
(***************************************************************************)
(* Proofs about CELLThread for any number of callers and of starts.        *)
(***************************************************************************)
EXTENDS CELLThreadHistory, FiniteSetTheorems, TLAPS

\* The steps of the object, one disjunct for each action.
LEMMA NextCases ==
  ASSUME [Next]_vars
  PROVE  \/ \E w \in Workers : Start(w)
         \/ \E w \in Workers : BodyFails(w)
         \/ \E w \in Workers : BodyEnds(w)
         \/ \E w \in Workers : Exit(w)
         \/ \E w \in Workers : Destroy(w)
         \/ \E w \in Workers : WorkerWakeup(w)
         \/ \E c \in Callers : Close(c)
         \/ \E c \in Callers : SemWait(c)
         \/ \E c \in Callers : CloseReturn(c)
         \/ \E c \in Callers : SpuriousWakeup(c)
         \/ UNCHANGED vars
  BY DEF Next, WorkerStep, CallerStep

\* The variables of CELLThread keep their types.
THEOREM TypeCorrect == Spec => []TypeOK
<1> USE ThreadAssumption
<1> USE DEF TypeOK, CallerPc, WorkerPc
<1>1. ASSUME Init PROVE TypeOK
  <2>1. semCount \in Int /\ waiting = {}
    BY <1>1 DEF Init, SemInit
  <2>2. /\ mutex \in Callers \cup {NoCaller} /\ isRun \in BOOLEAN
        /\ cpc \in [Callers -> CallerPc] /\ wpc \in [Workers -> WorkerPc]
    BY <1>1 DEF Init
  <2> QED BY <2>1, <2>2
<1>2. TypeOK /\ [Next]_vars => TypeOK'
  <2> SUFFICES ASSUME TypeOK, [Next]_vars PROVE TypeOK'
    OBVIOUS
  <2>1. ASSUME NEW w \in Workers,
               Start(w) \/ BodyFails(w) \/ BodyEnds(w) \/ Exit(w) \/ Destroy(w)
        PROVE  TypeOK'
    BY <2>1 DEF Start, BodyFails, BodyEnds, Exit, Destroy, semVars
  <2>2. ASSUME NEW w \in Workers, WorkerWakeup(w) PROVE TypeOK'
    BY <2>2 DEF WorkerWakeup, Wakeup, NotifyOne
  <2>3. ASSUME NEW c \in Callers, Close(c) \/ CloseReturn(c) PROVE TypeOK'
    BY <2>3 DEF Close, CloseReturn, semVars
  <2>4. ASSUME NEW c \in Callers, SemWait(c) PROVE TypeOK'
    BY <2>4 DEF SemWait, Wait
  <2>5. ASSUME NEW c \in Callers, SpuriousWakeup(c) PROVE TypeOK'
    BY <2>5 DEF SpuriousWakeup, Spurious
  <2>6. CASE UNCHANGED vars
    BY <2>6 DEF vars, semVars
  <2> QED BY <2>1, <2>2, <2>3, <2>4, <2>5, <2>6, NextCases
<1> QED BY <1>1, <1>2, PTL DEF Spec

-----------------------------------------------------------------------------
(***************************************************************************)
(* What _mutex gives, for every value of the constants.                    *)
(***************************************************************************)

\* The caller inside Close is the one that holds _mutex.
MutexOK ==
  /\ \A c \in Callers : cpc[c] # "idle" <=> mutex = c
  /\ \A c \in waiting : cpc[c] = "blocked"
  /\ mutex # NoCaller => ~isRun

\* The mutex keeps every other caller out of Close.
LEMMA MutexStep == TypeOK /\ MutexOK /\ [Next]_vars => MutexOK'
<1> SUFFICES ASSUME TypeOK, MutexOK, [Next]_vars PROVE MutexOK'
  OBVIOUS
<1> USE ThreadAssumption
<1> USE DEF TypeOK, MutexOK, CallerPc
<1>1. ASSUME NEW w \in Workers,
             Start(w) \/ BodyFails(w) \/ BodyEnds(w) \/ Exit(w) \/ Destroy(w)
      PROVE  MutexOK'
  BY <1>1 DEF Start, BodyFails, BodyEnds, Exit, Destroy, semVars
<1>2. ASSUME NEW w \in Workers, WorkerWakeup(w) PROVE MutexOK'
  BY <1>2 DEF WorkerWakeup, Wakeup, NotifyOne
<1>3. ASSUME NEW c \in Callers, Close(c) \/ CloseReturn(c) PROVE MutexOK'
  BY <1>3 DEF Close, CloseReturn, semVars
<1>4. ASSUME NEW c \in Callers, SemWait(c) PROVE MutexOK'
  BY <1>4 DEF SemWait, Wait
<1>5. ASSUME NEW c \in Callers, SpuriousWakeup(c) PROVE MutexOK'
  BY <1>5 DEF SpuriousWakeup, Spurious
<1>6. CASE UNCHANGED vars
  BY <1>6 DEF vars, semVars
<1> QED BY <1>1, <1>2, <1>3, <1>4, <1>5, <1>6, NextCases

\* The mutex invariant.
LEMMA MutexCorrect == Spec => []MutexOK
<1>1. Init => MutexOK
  BY ThreadAssumption DEF Init, SemInit, MutexOK
<1> QED BY <1>1, MutexStep, TypeCorrect, PTL DEF Spec

\* At most one caller is in the semaphore at a time.
THEOREM SingleWaiterCorrect == Spec => []SingleWaiter
<1>1. MutexOK => SingleWaiter
  BY DEF MutexOK, SingleWaiter
<1> QED BY <1>1, MutexCorrect, PTL

-----------------------------------------------------------------------------
(***************************************************************************)
(* As long as no work function calls Exit() and no wakeup is spurious: the *)
(* life cycle.                                                             *)
(***************************************************************************)

Only(w) == Active = {w}

\* What the counter says in each phase of Start and Close.
CountOK ==
  /\ mutex = NoCaller /\ ~isRun => Active = {} /\ semCount = 1
  /\ mutex = NoCaller /\ isRun =>
        semCount = 1 /\ \E w \in Workers : Only(w) /\ wpc[w] = "run"
  /\ \A c \in Callers :
        /\ cpc[c] = "semwait" =>
              \/ semCount = 1 /\ \E w \in Workers : Only(w)
              \/ semCount = 2 /\ Active = {}
        /\ cpc[c] = "blocked" =>
              \/ c \in waiting /\ semCount = 0 /\ \E w \in Workers : Only(w)
              \/ c \notin waiting /\ semCount = 1 /\ Active = {}

LInv == TypeOK /\ MutexOK /\ CountOK

\* Without the two there are no faults.
LEMMA NoFault == ASSUME ~ExitAllowed, ~SpuriousWakeups PROVE ~Fault
  BY DEF Fault, BodyFails, SpuriousWakeup, Spurious

\* A step that only moves a thread within OnWork keeps the active threads.
LEMMA ActiveMoves ==
  ASSUME TypeOK, NEW w \in Workers, NEW label \in WorkerPc,
         wpc' = [wpc EXCEPT ![w] = label]
  PROVE  Active' = IF label \in {"unborn", "done"} THEN Active \ {w}
                                                   ELSE Active \cup {w}
  BY DEF TypeOK, Active

\* The counter follows the phases.
LEMMA CountStep ==
  ASSUME ~Fault, LInv, TypeOK', MutexOK', [Next]_vars
  PROVE  CountOK'
<1> USE ThreadAssumption
<1> USE DEF LInv, MutexOK, CountOK, Only
<1>0. TypeOK
  OBVIOUS
<1>1. ASSUME NEW w \in Workers, Start(w) PROVE CountOK'
  <2>1. Active' = Active \cup {w}
    BY <1>1, ActiveMoves DEF Start, WorkerPc
  <2> QED BY <1>1, <2>1 DEF Start, semVars, TypeOK
<1>2. ASSUME NEW w \in Workers, BodyEnds(w) \/ Destroy(w) PROVE CountOK'
  <2>1. w \in Active
    BY <1>2 DEF BodyEnds, Destroy, Active
  <2>2. Active' = Active \cup {w}
    BY <1>2, ActiveMoves DEF BodyEnds, Destroy, WorkerPc
  <2> QED BY <1>2, <2>1, <2>2 DEF BodyEnds, Destroy, semVars, TypeOK
<1>3. ASSUME NEW w \in Workers PROVE ~BodyFails(w)
  BY DEF Fault
<1>4. ASSUME NEW w \in Workers, Exit(w) PROVE CountOK'
  <2>1. w \in Active
    BY <1>4 DEF Exit, Active
  <2> QED BY <1>4, <2>1 DEF Exit
<1>5. ASSUME NEW w \in Workers, WorkerWakeup(w) PROVE CountOK'
  <2>1. w \in Active
    BY <1>5 DEF WorkerWakeup, Active
  <2>2. Active' = Active \ {w}
    BY <1>5, ActiveMoves DEF WorkerWakeup, WorkerPc
  <2>3. PICK c \in Callers : mutex = c
    BY <1>5, <2>1 DEF WorkerWakeup, TypeOK
  <2> QED BY <1>5, <2>1, <2>2, <2>3
          DEF WorkerWakeup, Wakeup, NotifyOne, TypeOK, CallerPc
<1>6. ASSUME NEW c \in Callers, Close(c) \/ CloseReturn(c) \/ SemWait(c)
      PROVE  CountOK'
  <2>1. Active' = Active
    BY <1>6 DEF Close, CloseReturn, SemWait, Active
  <2>2. CASE Close(c)
    BY <2>1, <2>2 DEF Close, semVars, TypeOK
  <2>3. CASE CloseReturn(c)
    BY <2>1, <2>3 DEF CloseReturn, semVars, TypeOK
  <2>4. CASE SemWait(c)
    BY <2>1, <2>4 DEF SemWait, Wait, TypeOK
  <2> QED BY <1>6, <2>2, <2>3, <2>4
<1>7. ASSUME NEW c \in Callers PROVE ~SpuriousWakeup(c)
  BY DEF Fault
<1>8. CASE UNCHANGED vars
  BY <1>8 DEF vars, semVars, Active
<1> QED BY <1>1, <1>2, <1>3, <1>4, <1>5, <1>6, <1>7, <1>8, NextCases

\* The inductive invariant of the life cycle.
LEMMA LInvCorrect ==
  ASSUME ~ExitAllowed, ~SpuriousWakeups
  PROVE  Spec => []LInv
<1>1. Init => CountOK
  BY ThreadAssumption DEF Init, SemInit, CountOK, Active
<1>2. LInv /\ TypeOK' /\ MutexOK' /\ [Next]_vars => CountOK'
  BY CountStep, NoFault
<1> QED BY <1>1, <1>2, TypeCorrect, MutexCorrect, PTL DEF Spec, LInv

\* One Start gives one thread of execution, and the next Start waits for its
\* end.
THEOREM AtMostOneWorkerCorrect ==
  ASSUME ~ExitAllowed, ~SpuriousWakeups
  PROVE  Spec => []AtMostOneWorker
<1>1. ASSUME LInv PROVE Active = {} \/ \E w \in Workers : Only(w)
  <2>1. CASE mutex = NoCaller
    BY <1>1, <2>1 DEF LInv, CountOK
  <2>2. CASE mutex # NoCaller
    BY <1>1, <2>2 DEF LInv, CountOK, MutexOK, TypeOK, CallerPc
  <2> QED BY <2>1, <2>2
<1>2. LInv => AtMostOneWorker
  BY <1>1 DEF AtMostOneWorker, Only
<1> QED BY <1>2, LInvCorrect, PTL

\* A Close that found the thread running returns after the thread has ended.
THEOREM CloseWaitsCorrect ==
  ASSUME ~ExitAllowed, ~SpuriousWakeups
  PROVE  Spec => CloseWaitsForWorker
<1>1. ASSUME LInv, [Next]_vars, NEW c \in Callers, Returns(c)
      PROVE  Active' = {}
  <2> USE <1>1 DEF Returns
  <2>1. SemWait(c) \/ CloseReturn(c)
    <3>1. ASSUME NEW w \in Workers,
                 \/ Start(w) \/ BodyFails(w) \/ BodyEnds(w) \/ Exit(w)
                 \/ Destroy(w) \/ WorkerWakeup(w)
          PROVE  FALSE
      BY <3>1 DEF Start, BodyFails, BodyEnds, Exit, Destroy, WorkerWakeup
    <3>2. ASSUME NEW d \in Callers, SpuriousWakeup(d) \/ Close(d) PROVE FALSE
      BY <3>2 DEF SpuriousWakeup, Close, LInv, TypeOK
    <3>3. ASSUME NEW d \in Callers, SemWait(d) \/ CloseReturn(d) PROVE d = c
      BY <3>3 DEF SemWait, CloseReturn, LInv, TypeOK
    <3>4. CASE UNCHANGED vars
      BY <3>4 DEF vars
    <3> QED BY <3>1, <3>2, <3>3, <3>4, NextCases
  <2>2. Active' = Active
    BY <2>1 DEF SemWait, CloseReturn, Active
  <2> QED BY <2>1, <2>2 DEF SemWait, Wait, CloseReturn, LInv, CountOK, TypeOK
<1>2. LInv /\ [Next]_vars =>
        [\A c \in Callers : Returns(c) => Active' = {}]_vars
  BY <1>1
<1> QED BY <1>2, LInvCorrect, PTL DEF Spec, CloseWaitsForWorker

\* Every step of the object is a step of the life cycle or leaves it alone.
LEMMA LifeStep ==
  ASSUME ~Fault, LInv, LInv', [Next]_vars
  PROVE  [Lifecycle!LifeNext]_<<phaseBar, mutex>>
<1> USE ThreadAssumption
<1> USE DEF phaseBar, Lifecycle!LifeNext
<1>0. TypeOK /\ MutexOK /\ CountOK /\ MutexOK' /\ CountOK'
  BY DEF LInv
<1>1. ASSUME NEW w \in Workers, Start(w) PROVE Lifecycle!Begin
  BY <1>0, <1>1 DEF Start, CountOK, Lifecycle!Begin
<1>2. ASSUME NEW w \in Workers, BodyEnds(w) \/ Destroy(w)
      PROVE  UNCHANGED <<phaseBar, mutex>>
  <2>1. w \in Active
    BY <1>2 DEF BodyEnds, Destroy, Active
  <2>2. Active' = Active \cup {w}
    BY <1>0, <1>2, ActiveMoves DEF BodyEnds, Destroy, WorkerPc
  <2> QED BY <1>2, <2>1, <2>2 DEF BodyEnds, Destroy
<1>3. ASSUME NEW w \in Workers PROVE ~BodyFails(w)
  BY DEF Fault
<1>4. ASSUME NEW w \in Workers PROVE ~Exit(w)
  <2> SUFFICES ASSUME Exit(w) PROVE FALSE
    OBVIOUS
  <2>1. w \in Active /\ wpc[w] # "run"
    BY DEF Exit, Active
  <2> QED BY <1>0, <2>1 DEF Exit, CountOK, Only
<1>5. ASSUME NEW w \in Workers, WorkerWakeup(w) PROVE Lifecycle!End
  <2>1. w \in Active /\ wpc[w] # "run"
    BY <1>5 DEF WorkerWakeup, Active
  <2>2. Active' = Active \ {w}
    BY <1>0, <1>5, ActiveMoves DEF WorkerWakeup, WorkerPc
  <2>3. PICK c \in Callers : mutex = c
    BY <1>0, <2>1 DEF CountOK, Only, TypeOK
  <2>4. ~isRun /\ Only(w)
    BY <1>0, <2>1, <2>3 DEF MutexOK, CountOK, Only, TypeOK, CallerPc
  <2> QED BY <1>5, <2>1, <2>2, <2>4 DEF WorkerWakeup, Only, Lifecycle!End
<1>6. ASSUME NEW c \in Callers, Close(c) PROVE Lifecycle!RequestStop(c)
  <2>1. Active' = Active /\ Active # {}
    BY <1>0, <1>6 DEF Close, Active, CountOK, Only
  <2> QED BY <1>6, <2>1 DEF Close, Lifecycle!RequestStop
<1>7. ASSUME NEW c \in Callers, SemWait(c) \/ CloseReturn(c)
      PROVE  Lifecycle!Return \/ UNCHANGED <<phaseBar, mutex>>
  <2>1. Active' = Active /\ UNCHANGED isRun
    BY <1>7 DEF SemWait, CloseReturn, Active
  <2>2. CASE mutex' = mutex
    BY <2>1, <2>2
  <2>3. CASE mutex' # mutex
    <3>1. mutex = c /\ mutex' = NoCaller /\ ~isRun
      BY <1>0, <1>7, <2>3 DEF SemWait, CloseReturn, MutexOK
    <3>2. Active = {}
      BY <1>0, <2>1, <3>1 DEF CountOK
    <3> QED BY <2>1, <3>1, <3>2 DEF Lifecycle!Return
  <2> QED BY <2>2, <2>3
<1>8. ASSUME NEW c \in Callers PROVE ~SpuriousWakeup(c)
  BY DEF Fault
<1>9. CASE UNCHANGED vars
  BY <1>9 DEF vars, Active
<1> QED BY <1>1, <1>2, <1>3, <1>4, <1>5, <1>6, <1>7, <1>8, <1>9, NextCases

\* CELLThread implements the life cycle it promises, for owners whose work
\* function does not end itself.
THEOREM ImplementsCorrect ==
  ASSUME ~ExitAllowed, ~SpuriousWakeups
  PROVE  Spec => ImplementsLifecycle
<1>1. Init => Lifecycle!LifeInit
  BY DEF Init, Lifecycle!LifeInit, phaseBar, Active
<1>2. LInv /\ LInv' /\ [Next]_vars =>
        [Lifecycle!LifeNext]_<<phaseBar, mutex>>
  BY LifeStep, NoFault
<1> QED BY <1>1, <1>2, LInvCorrect, PTL
        DEF Spec, ImplementsLifecycle, Lifecycle!LifeSpec, Lifecycle!lifeVars

-----------------------------------------------------------------------------
(***************************************************************************)
(* The same up to the first fault, with everything allowed after it.       *)
(***************************************************************************)

\* A step of the history specification is a step of CELLThread, which is no
\* fault as long as sound is TRUE after it.
LEMMA HistoryStep ==
  ASSUME [HistoryNext]_historyVars
  PROVE  /\ [Next]_vars
         /\ sound' => sound /\ (~Fault \/ UNCHANGED vars)
<1>1. Fault => Next
  BY DEF Fault, Next
<1> QED BY <1>1 DEF HistoryNext, historyVars

\* The history variable adds nothing to what CELLThread does.
LEMMA HistorySimulates == HistorySpec => Spec
<1>1. HistoryInit => Init
  BY DEF HistoryInit
<1>2. [HistoryNext]_historyVars => [Next]_vars
  BY HistoryStep
<1> QED BY <1>1, <1>2, PTL DEF HistorySpec, Spec

\* A step that changes nothing keeps the counter.
LEMMA CountStutters == CountOK /\ UNCHANGED vars => CountOK'
  BY DEF CountOK, Only, Active, vars, semVars

\* Up to the first fault the counter follows the phases.
LEMMA SoundCountCorrect == HistorySpec => [](sound => CountOK)
<1>1. HistoryInit => (sound => CountOK)
  BY ThreadAssumption DEF HistoryInit, Init, SemInit, CountOK, Active
<1>2. ASSUME TypeOK, TypeOK', MutexOK, MutexOK', sound => CountOK,
             [HistoryNext]_historyVars, sound'
      PROVE  CountOK'
  <2>1. [Next]_vars /\ sound /\ (~Fault \/ UNCHANGED vars)
    BY <1>2, HistoryStep
  <2>2. LInv
    BY <1>2, <2>1 DEF LInv
  <2>3. CASE ~Fault
    BY <1>2, <2>1, <2>2, <2>3, CountStep
  <2>4. CASE UNCHANGED vars
    BY <2>2, <2>4, CountStutters DEF LInv
  <2> QED BY <2>1, <2>3, <2>4
<1>3. TypeOK /\ TypeOK' /\ MutexOK /\ MutexOK' /\ (sound => CountOK)
        /\ [HistoryNext]_historyVars => (sound' => CountOK')
  BY <1>2
<1> QED BY <1>1, <1>3, HistorySimulates, TypeCorrect, MutexCorrect, PTL
        DEF HistorySpec

\* Up to the first Exit or spurious wakeup CELLThread implements the life
\* cycle it promises, whatever its owner's work function does later.
THEOREM LifecycleUntilFaultCorrect == HistorySpec => LifecycleUntilFault
<1>1. HistoryInit => Lifecycle!LifeInit
  BY DEF HistoryInit, Init, Lifecycle!LifeInit, phaseBar, Active
<1>2. ASSUME TypeOK, TypeOK', MutexOK, MutexOK', sound => CountOK,
             sound' => CountOK', [HistoryNext]_historyVars, sound'
      PROVE  [Lifecycle!LifeNext]_<<phaseBar, mutex>>
  <2>1. [Next]_vars /\ sound /\ (~Fault \/ UNCHANGED vars)
    BY <1>2, HistoryStep
  <2>2. LInv /\ LInv'
    BY <1>2, <2>1 DEF LInv
  <2>3. CASE ~Fault
    BY <2>1, <2>2, <2>3, LifeStep
  <2>4. CASE UNCHANGED vars
    BY <2>4 DEF vars, phaseBar, Active
  <2> QED BY <2>1, <2>3, <2>4
<1>3. TypeOK /\ TypeOK' /\ MutexOK /\ MutexOK'
        /\ (sound => CountOK) /\ (sound' => CountOK')
        /\ [HistoryNext]_historyVars =>
      [sound' => [Lifecycle!LifeNext]_<<phaseBar, mutex>>]_historyVars
  BY <1>2
<1> QED BY <1>1, <1>3, HistorySimulates, TypeCorrect, MutexCorrect,
           SoundCountCorrect, PTL
        DEF HistorySpec, LifecycleUntilFault

-----------------------------------------------------------------------------
(***************************************************************************)
(* With Exit() and spurious wakeups: no wakeup is lost.                    *)
(***************************************************************************)

\* A Close that has not yet decremented the counter, or may still begin.
Pending == isRun \/ \E c \in Callers : cpc[c] = "semwait"

\* Every active thread will increment the counter once; the increments pay
\* for the decrement of each Close, and one is left over.
CreditOK ==
  /\ IsFiniteSet(Active)
  /\ semCount + Cardinality(Active) >= IF Pending THEN 2 ELSE 1
  /\ waiting # {} => semCount <= 0

\* Every step keeps the balance.
LEMMA CreditStep ==
  ASSUME TypeOK, TypeOK', MutexOK, MutexOK', CreditOK, [Next]_vars
  PROVE  CreditOK'
<1> USE ThreadAssumption
<1> DEFINE n == Cardinality(Active)
<1>0. n \in Nat /\ semCount \in Int
  BY FS_CardinalityType DEF CreditOK, TypeOK
<1>1. ASSUME NEW w \in Workers, Start(w) PROVE CreditOK'
  <2>1. Active' = Active \cup {w} /\ w \notin Active
    BY <1>1, ActiveMoves DEF Start, WorkerPc, Active
  <2>2. IsFiniteSet(Active') /\ Cardinality(Active') = n + 1
    BY <2>1, FS_AddElement DEF CreditOK
  <2>3. semCount' = semCount /\ waiting' = waiting
    BY <1>1 DEF Start, semVars
  <2> HIDE DEF n
  <2>4. semCount + n >= 1
    BY <1>0 DEF CreditOK, n
  <2> QED BY <1>0, <2>2, <2>3, <2>4 DEF CreditOK
<1>2. ASSUME NEW w \in Workers,
             BodyFails(w) \/ BodyEnds(w) \/ Exit(w) \/ Destroy(w)
      PROVE  CreditOK'
  <2>1. Active' = Active
    BY <1>2 DEF BodyFails, BodyEnds, Exit, Destroy, Active, TypeOK
  <2>2. semCount' = semCount /\ waiting' = waiting /\ (Pending' => Pending)
    BY <1>2 DEF BodyFails, BodyEnds, Exit, Destroy, semVars, Pending
  <2> QED BY <1>0, <2>1, <2>2 DEF CreditOK
<1>3. ASSUME NEW w \in Workers, WorkerWakeup(w) PROVE CreditOK'
  <2>1. Active' = Active \ {w} /\ w \in Active
    BY <1>3, ActiveMoves DEF WorkerWakeup, WorkerPc, Active
  <2>2. IsFiniteSet(Active') /\ Cardinality(Active') = n - 1
    BY <2>1, FS_RemoveElement DEF CreditOK
  <2>3. semCount' = semCount + 1 /\ Pending' = Pending
    BY <1>3 DEF WorkerWakeup, Wakeup, Pending
  <2>4. \A c, d \in waiting : c = d
    BY DEF MutexOK, TypeOK
  <2>5. waiting' # {} => semCount' <= 0
    BY <1>0, <1>3, <2>4 DEF WorkerWakeup, Wakeup, NotifyOne
  <2>6. semCount' + Cardinality(Active') = semCount + n
    BY <1>0, <2>2, <2>3
  <2> QED BY <2>2, <2>3, <2>5, <2>6 DEF CreditOK
<1>4. ASSUME NEW c \in Callers, Close(c) \/ CloseReturn(c) \/ SpuriousWakeup(c)
      PROVE  CreditOK'
  <2>1. Active' = Active /\ semCount' = semCount /\ waiting' \subseteq waiting
    BY <1>4 DEF Close, CloseReturn, SpuriousWakeup, Spurious, Active, semVars
  <2>2. Pending' => Pending
    BY <1>4 DEF Close, CloseReturn, SpuriousWakeup, Pending, TypeOK
  <2> QED BY <1>0, <2>1, <2>2 DEF CreditOK
<1>5. ASSUME NEW c \in Callers, SemWait(c) PROVE CreditOK'
  <2>1. Active' = Active /\ semCount' = semCount - 1
    BY <1>5 DEF SemWait, Wait, Active
  <2>2. Pending /\ ~Pending'
    BY <1>5 DEF SemWait, Pending, MutexOK, TypeOK
  <2>3. waiting = {}
    BY <1>5 DEF SemWait, MutexOK, TypeOK
  <2>4. waiting' # {} => semCount' <= 0
    BY <1>0, <1>5, <2>3 DEF SemWait, Wait
  <2> QED BY <1>0, <2>1, <2>2, <2>4 DEF CreditOK
<1>6. CASE UNCHANGED vars
  BY <1>6 DEF vars, semVars, Active, CreditOK, Pending
<1> QED BY <1>1, <1>2, <1>3, <1>4, <1>5, <1>6, NextCases

\* Once every created thread has ended nobody is blocked, whatever the use of
\* Exit() and whatever the number of restarts.
THEOREM NoLostWakeupCorrect == Spec => []NoLostWakeup
<1>1. Init => CreditOK
  <2> SUFFICES ASSUME Init PROVE CreditOK
    OBVIOUS
  <2>1. Active = {} /\ ~Pending /\ semCount = 1 /\ waiting = {}
    BY DEF Init, SemInit, Active, Pending
  <2> QED BY <2>1, FS_EmptySet DEF CreditOK
<1>2. ASSUME TypeOK, CreditOK PROVE NoLostWakeup
  <2> SUFFICES ASSUME Active = {} PROVE waiting = {}
    BY DEF NoLostWakeup
  <2>1. Cardinality(Active) = 0
    BY FS_EmptySet
  <2> QED BY <1>2, <2>1 DEF CreditOK, TypeOK
<1>3. TypeOK /\ TypeOK' /\ MutexOK /\ MutexOK' /\ CreditOK /\ [Next]_vars
        => CreditOK'
  BY CreditStep
<1>4. TypeOK /\ CreditOK => NoLostWakeup
  BY <1>2
<1> QED BY <1>1, <1>3, <1>4, TypeCorrect, MutexCorrect, PTL DEF Spec
=============================================================================
