-------------------------- MODULE EasyTcpServerProofs -------------------------
(***************************************************************************)
(* Proofs about EasyTcpServer, for any number of servers, starts, sockets  *)
(* and events.                                                             *)
(***************************************************************************)
EXTENDS EasyTcpServer, SequenceTheorems, TLAPS

Active      == Thread!Active
Only(w)     == Active = {w}
OnlyOne     == \E w \in Workers : Only(w)
CloserIdle  == cpc["owner"] = "idle"
Closing     == {"delete", "wait", "sock", "socket", "gone"}

\* The owner is the caller that holds _mutex; past CELLThread::Close it has
\* found or made _isRun FALSE.
MutexInv ==
  /\ mutex = "nobody" <=> CloserIdle
  /\ ~CloserIdle => ownerPc = "join"
  /\ ownerPc \in Closing \cup {"join"} => ~isRun

\* Before the first Exit the count of the semaphore follows Start and Close,
\* so that Close waits; after it no thread is left in OnRun, until a restart.
LifeInv ==
  /\ acceptLife = "fresh" =>
       /\ CloserIdle /\ ~isRun => Active = {} /\ semCount = 1
       /\ isRun => semCount = 1 /\ \E w \in Workers :
                                      Only(w) /\ wpc[w] \in {"run", "exit"}
       /\ cpc["owner"] = "semwait" =>
             \/ semCount = 1 /\ OnlyOne
             \/ semCount = 2 /\ Active = {}
       /\ cpc["owner"] = "blocked" =>
             \/ "owner" \in waiting /\ semCount = 0 /\ OnlyOne
             \/ "owner" \notin waiting /\ semCount = 1 /\ Active = {}
  /\ acceptLife = "exited" =>
       ~isRun /\ \A w \in Workers : wpc[w] \notin {"run", "exit"}

ThreadInv == MutexInv /\ LifeInv

\* The vector only grows: it holds every server that was ever made.
VectorInv ==
  /\ Len(cellServers) = made
  /\ \A i \in 1 .. made : cellServers[i] = i

\* Where Close is, and what it has done by then; a deleted server has no
\* thread but one that called Exit.
CloseInv ==
  /\ at > 0
  /\ ownerPc = "start" => starts > 0
  /\ ownerPc \notin {"start", "delete", "wait"} => at = 1
  /\ ownerPc \in {"delete", "wait", "sock"} => sock # "invalid"
  /\ ownerPc \in {"delete", "wait"} => \A i \in 1 .. at - 1 : i \in deleted
  /\ ownerPc = "sock" => Undeleted = {}
  /\ ownerPc \in {"socket", "gone"} => sock = "invalid"
  /\ ownerPc = "start" /\ sock = "invalid" => unguarded
  /\ \A s \in deleted : msgPc[s] \in {"quit", "done"}

\* Until a second socket is created nothing is deleted before the only Close
\* that has a socket, and that Close deletes each server once.
OneSocketInv ==
  /\ sock # "invalid" => sockets > 0
  /\ sockets = 0 => deleted = {}
  /\ sockets <= 1 =>
       /\ fault # "twice"
       /\ acceptLife # "restarted" => fault # "dispatch"
       /\ deleted # {} => sock = "invalid" \/ ownerPc \in {"delete", "wait", "sock"}
       /\ ownerPc \in {"delete", "wait"} => \A i \in deleted : i < at

\* Threads run on a server without a socket only if it was started so.
GuardInv ==
  /\ sock = "invalid" => Undeleted = {} \/ unguarded
  /\ fault = "event" => unguarded

\* The counts that the report in progress has read.
CountInv ==
  acceptLife # "restarted" => \A k \in Counters :
     /\ reported[k] + count[k] <= total[k]
     /\ total[k] <= reported[k] + count[k] + missed[k]
     /\ \A w \in Workers : Accepts(w) /\ accPc[w] \in {"recv", k} =>
          /\ seen[w][k] <= count[k]
          /\ total[k] <= reported[k] + seen[w][k] + missed[k]

\* A thread that was not created yet will start at the top of the loop.
BornInv == \A w \in Workers : wpc[w] = "unborn" => accPc[w] = "loop"

OwnerInv == VectorInv /\ CloseInv /\ OneSocketInv /\ GuardInv
IInv     == TypeOK /\ ThreadInv /\ OwnerInv /\ BornInv /\ CountInv

\* The types of the variables of _thread.
ThreadTypes ==
  /\ mutex \in {"owner", "nobody"} /\ isRun \in BOOLEAN
  /\ cpc \in [{"owner"} -> {"idle", "semwait", "blocked"}]
  /\ wpc \in [Workers -> {"unborn", "run", "exit", "destroy", "wakeup", "done"}]
  /\ semCount \in Int
  /\ waiting \in SUBSET {"owner"}
  /\ "owner" \in waiting => cpc["owner"] = "blocked"

\* Thread!TypeOK says the same of the one caller.
LEMMA ThreadTypesFact == Thread!TypeOK <=> ThreadTypes
BY DEF Thread!TypeOK, Thread!CallerPc, Thread!WorkerPc, ThreadTypes

\* The steps, one disjunct for each action.
LEMMA NextCases ==
  ASSUME [Next]_vars
  PROVE  \/ InitSocketOpen \/ NewSocket \/ Listen \/ Start \/ Close \/ Destroy
         \/ StartServer \/ StartThread \/ JoinWait \/ Join \/ Deleted
         \/ CloseSocket
         \/ \E s \in 1 .. made : \/ DeleteWaits(s) \/ DeleteServer(s)
                                 \/ DeleteTwice(s)
         \/ \E w \in Workers :
               \/ Report(w) \/ NoReport(w) \/ NoConnection(w) \/ Dispatch(w)
               \/ DispatchToDeleted(w) \/ SelectFails(w) \/ AcceptExit(w)
               \/ AcceptStops(w) \/ AcceptEnds(w)
         \/ \E w \in Workers, k \in Counters : ResetCount(w, k)
         \/ \E s \in 1 .. made :
               \/ MsgStops(s) \/ MsgFails(s) \/ MsgExit(s) \/ MsgEnds(s)
               \/ EventToDeleted(s)
         \/ \E s \in 1 .. made, k \in Counters : OnNetEvent(s, k)
         \/ UNCHANGED vars
BY DEF Next, Owner, AcceptThread, MessageThread

\* What the steps do to _thread, and where they find the owner.
LEMMA ThreadCases ==
  ASSUME LifeInv, [Next]_vars
  PROVE  \/ /\ UNCHANGED <<threadVars, acceptLife>>
            /\ \/ ownerPc' = ownerPc
               \/ ownerPc # "join" /\ ownerPc' \in {"idle", "start"}
               \/ ownerPc = "idle" /\ ownerPc' = "join" /\ ~isRun
               \/ /\ ownerPc \in Closing \cup {"join"}
                  /\ ownerPc = "join" => CloserIdle
         \/ /\ Thread!Close("owner") /\ UNCHANGED acceptLife
            /\ ownerPc = "idle" /\ ownerPc' = "join"
         \/ /\ ~isRun /\ Thread!Start(starts)
            /\ ownerPc = "start" /\ ownerPc' = "idle"
            /\ acceptLife' = IF acceptLife = "exited" THEN "restarted"
                                                      ELSE acceptLife
         \/ /\ Thread!SemWait("owner") \/ Thread!CloseReturn("owner")
            /\ ownerPc = "join" /\ UNCHANGED <<ownerPc, acceptLife>>
         \/ /\ \E w \in Workers :
                  \/ Thread!BodyFails(w) \/ Thread!BodyEnds(w)
                  \/ Thread!Destroy(w) \/ Thread!WorkerWakeup(w)
            /\ UNCHANGED <<ownerPc, acceptLife>>
         \/ /\ \E w \in Workers : Thread!Exit(w)
            /\ UNCHANGED ownerPc
            /\ acceptLife' = IF acceptLife = "fresh" THEN "exited" ELSE acceptLife
<1> USE DEF Closing, ownerVars, CloserIdle
<1>1. CASE InitSocketOpen \/ Close \/ Destroy
  BY <1>1 DEF InitSocketOpen, Close, Destroy, BeginClose, Call
<1>2. CASE NewSocket \/ Listen \/ Start \/ StartServer \/ Join \/ Deleted
           \/ CloseSocket
  BY <1>2 DEF NewSocket, Listen, Start, StartServer, Join, Deleted, CloseSocket,
              Call
<1>3. CASE StartThread
  <2>1. CASE isRun
    BY <1>3, <2>1 DEF StartThread, LifeInv
  <2>2. CASE ~isRun
    BY <1>3, <2>2 DEF StartThread
  <2> QED BY <2>1, <2>2
<1>4. CASE JoinWait
  BY <1>4 DEF JoinWait
<1>5. ASSUME NEW s \in 1 .. made,
             DeleteWaits(s) \/ DeleteServer(s) \/ DeleteTwice(s)
      PROVE  /\ UNCHANGED <<threadVars, acceptLife>>
             /\ ownerPc \in Closing
  BY <1>5 DEF DeleteWaits, DeleteServer, DeleteTwice, Deletes, Crash
<1>6. ASSUME NEW w \in Workers,
             \/ Report(w) \/ NoReport(w) \/ NoConnection(w) \/ Dispatch(w)
             \/ DispatchToDeleted(w)
      PROVE  UNCHANGED <<threadVars, acceptLife, ownerPc>>
  BY <1>6 DEF Report, NoReport, NoConnection, Dispatch, DispatchToDeleted,
              Goes, Crash
<1>7. ASSUME NEW w \in Workers,
             SelectFails(w) \/ AcceptStops(w) \/ AcceptEnds(w)
      PROVE  /\ \/ Thread!BodyFails(w) \/ Thread!BodyEnds(w)
                \/ Thread!Destroy(w) \/ Thread!WorkerWakeup(w)
             /\ UNCHANGED <<ownerPc, acceptLife>>
  BY <1>7 DEF SelectFails, AcceptStops, AcceptEnds
<1>8. ASSUME NEW w \in Workers, AcceptExit(w)
      PROVE  /\ Thread!Exit(w) /\ UNCHANGED ownerPc
             /\ acceptLife' = IF acceptLife = "fresh" THEN "exited" ELSE acceptLife
  BY <1>8 DEF AcceptExit
<1>9. ASSUME NEW w \in Workers, NEW k \in Counters, ResetCount(w, k)
      PROVE  UNCHANGED <<threadVars, acceptLife, ownerPc>>
  BY <1>9 DEF ResetCount, Goes
<1>10. ASSUME NEW s \in 1 .. made,
              \/ MsgStops(s) \/ MsgFails(s) \/ MsgExit(s) \/ MsgEnds(s)
              \/ EventToDeleted(s)
       PROVE  UNCHANGED <<threadVars, acceptLife, ownerPc>>
  BY <1>10 DEF MsgStops, MsgFails, MsgExit, MsgEnds, EventToDeleted, MsgGoes,
               Crash
<1>11. ASSUME NEW s \in 1 .. made, NEW k \in Counters, OnNetEvent(s, k)
       PROVE  UNCHANGED <<threadVars, acceptLife, ownerPc>>
  BY <1>11 DEF OnNetEvent
<1>12. CASE UNCHANGED vars
  BY <1>12 DEF vars
<1> QED BY <1>1, <1>2, <1>3, <1>4, <1>5, <1>6, <1>7, <1>8, <1>9, <1>10, <1>11,
           <1>12, NextCases

\* A step that leaves _isRun or clears it.
LEMMA FlagKept ==
  ASSUME isRun \in BOOLEAN, isRun' = isRun \/ isRun' = FALSE
  PROVE  isRun' \in BOOLEAN /\ (~isRun => ~isRun')
<1>1. CASE isRun' = isRun
  BY <1>1, Zenon
<1>2. CASE isRun' = FALSE
  BY <1>2, Zenon
<1> QED BY <1>1, <1>2

\* The types of _thread, and its mutex, are kept.
LEMMA MutexStep ==
  ASSUME ThreadTypes, MutexInv, LifeInv, ownerPc = "start" => starts \in Workers,
         [Next]_vars
  PROVE  ThreadTypes' /\ MutexInv'
<1> USE DEF ThreadTypes, MutexInv, CloserIdle, Closing, threadVars
<1>1. CASE /\ UNCHANGED <<threadVars, acceptLife>>
           /\ \/ ownerPc' = ownerPc
              \/ ownerPc # "join" /\ ownerPc' \in {"idle", "start"}
              \/ ownerPc = "idle" /\ ownerPc' = "join" /\ ~isRun
              \/ /\ ownerPc \in Closing \cup {"join"}
                 /\ ownerPc = "join" => CloserIdle
  BY <1>1
<1>2. CASE Thread!Close("owner") /\ ownerPc = "idle" /\ ownerPc' = "join"
  BY <1>2 DEF Thread!Close, Thread!semVars
<1>3. CASE Thread!Start(starts) /\ ownerPc = "start" /\ ownerPc' = "idle"
  BY <1>3 DEF Thread!Start, Thread!semVars
<1>4. CASE /\ Thread!SemWait("owner") \/ Thread!CloseReturn("owner")
           /\ ownerPc = "join" /\ UNCHANGED ownerPc
  <2>1. CASE Thread!SemWait("owner")
    <3>1. semCount' = semCount - 1 /\ waiting' \in SUBSET {"owner"}
      BY <2>1 DEF Thread!SemWait, Thread!Wait
    <3>2. /\ isRun' = isRun /\ wpc' = wpc
          /\ \/ /\ "owner" \in waiting' /\ mutex' = mutex
                /\ cpc' = [cpc EXCEPT !["owner"] = "blocked"]
             \/ /\ "owner" \notin waiting' /\ mutex' = "nobody"
                /\ cpc' = [cpc EXCEPT !["owner"] = "idle"]
      BY <2>1 DEF Thread!SemWait
    <3> QED BY <1>4, <2>1, <3>1, <3>2 DEF Thread!SemWait
  <2>2. CASE Thread!CloseReturn("owner")
    BY <1>4, <2>2 DEF Thread!CloseReturn, Thread!semVars
  <2> QED BY <1>4, <2>1, <2>2
<1>5. ASSUME NEW w \in Workers,
             \/ Thread!BodyFails(w) \/ Thread!BodyEnds(w) \/ Thread!Exit(w)
             \/ Thread!Destroy(w) \/ Thread!WorkerWakeup(w),
             UNCHANGED ownerPc
      PROVE  ThreadTypes' /\ MutexInv'
  <2>1. /\ isRun' = isRun \/ isRun' = FALSE
        /\ UNCHANGED <<mutex, cpc>>
    BY <1>5 DEF Thread!BodyFails, Thread!BodyEnds, Thread!Exit, Thread!Destroy,
                Thread!WorkerWakeup
  <2>2. wpc' \in [Workers -> {"unborn", "run", "exit", "destroy", "wakeup", "done"}]
    BY <1>5 DEF Thread!BodyFails, Thread!BodyEnds, Thread!Exit, Thread!Destroy,
                Thread!WorkerWakeup
  <2>3. semCount' \in Int /\ waiting' \subseteq waiting
    BY <1>5 DEF Thread!BodyFails, Thread!BodyEnds, Thread!Exit, Thread!Destroy,
                Thread!WorkerWakeup, Thread!Wakeup, Thread!NotifyOne,
                Thread!semVars
  <2>4. isRun' \in BOOLEAN /\ (~isRun => ~isRun')
    <3>1. isRun \in BOOLEAN
      OBVIOUS
    <3> QED BY <2>1, <3>1, FlagKept
  <2>5. ThreadTypes'
    BY <2>1, <2>2, <2>3, <2>4
  <2>6. MutexInv'
    BY <1>5, <2>1, <2>4
  <2> QED BY <2>5, <2>6
<1> QED BY <1>1, <1>2, <1>3, <1>4, <1>5, ThreadCases

\* A step of one thread within OnWork.
LEMMA ActiveMoves ==
  ASSUME ThreadTypes, NEW w \in Workers, NEW label,
         wpc' = [wpc EXCEPT ![w] = label]
  PROVE  Active' = IF label \in {"unborn", "done"} THEN Active \ {w}
                                                   ELSE Active \cup {w}
BY DEF ThreadTypes, Active, Thread!Active

\* Until a restart after an Exit, the semaphore is in step with the threads.
LEMMA LifeStep ==
  ASSUME ThreadTypes, MutexInv, LifeInv, ownerPc = "start" => starts \in Workers,
         [Next]_vars
  PROVE  LifeInv'
<1> USE DEF LifeInv, MutexInv, CloserIdle, OnlyOne, Only
<1>0. ThreadTypes /\ ThreadTypes' /\ MutexInv'
  BY MutexStep
<1>1. CASE UNCHANGED <<threadVars, acceptLife>>
  BY <1>1 DEF threadVars, Active, Thread!Active
<1>2. CASE Thread!Close("owner") /\ UNCHANGED acceptLife
  <2>1. Active' = Active
    BY <1>2 DEF Thread!Close, Active, Thread!Active
  <2> QED BY <1>0, <1>2, <2>1 DEF Thread!Close, Thread!semVars, ThreadTypes
<1>3. CASE /\ ~isRun /\ Thread!Start(starts) /\ ownerPc = "start"
           /\ acceptLife' = IF acceptLife = "exited" THEN "restarted"
                                                     ELSE acceptLife
  <2>1. Active' = Active \cup {starts}
    BY <1>3, ActiveMoves DEF Thread!Start
  <2> QED BY <1>0, <1>3, <2>1 DEF Thread!Start, Thread!semVars, ThreadTypes
<1>4. CASE /\ Thread!SemWait("owner") \/ Thread!CloseReturn("owner")
           /\ UNCHANGED acceptLife
  <2>1. Active' = Active
    BY <1>4 DEF Thread!SemWait, Thread!CloseReturn, Active, Thread!Active
  <2>2. CASE Thread!SemWait("owner")
    BY <1>0, <1>4, <2>1, <2>2 DEF Thread!SemWait, Thread!Wait, ThreadTypes
  <2>3. CASE Thread!CloseReturn("owner")
    BY <1>0, <1>4, <2>1, <2>3 DEF Thread!CloseReturn, Thread!semVars, ThreadTypes
  <2> QED BY <1>4, <2>2, <2>3
<1>5. ASSUME NEW w \in Workers,
             Thread!BodyFails(w) \/ Thread!BodyEnds(w) \/ Thread!Destroy(w),
             UNCHANGED acceptLife
      PROVE  LifeInv'
  <2>1. w \in Active /\ Active' = Active \cup {w}
    BY <1>5, ActiveMoves
       DEF Thread!BodyFails, Thread!BodyEnds, Thread!Destroy, Active, Thread!Active
  <2> QED BY <1>0, <1>5, <2>1
          DEF Thread!BodyFails, Thread!BodyEnds, Thread!Destroy, Thread!semVars,
              ThreadTypes
<1>6. ASSUME NEW w \in Workers, Thread!WorkerWakeup(w), UNCHANGED acceptLife
      PROVE  LifeInv'
  <2>1. w \in Active /\ Active' = Active \ {w}
    BY <1>6, ActiveMoves DEF Thread!WorkerWakeup, Active, Thread!Active
  <2>2. semCount' = semCount + 1 /\ wpc[w] = "wakeup" /\ wpc'[w] = "done"
    BY <1>0, <1>6 DEF Thread!WorkerWakeup, Thread!Wakeup, ThreadTypes
  <2>3. UNCHANGED <<isRun, cpc>>
    BY <1>6 DEF Thread!WorkerWakeup
  <2>4. ASSUME acceptLife = "fresh"
        PROVE  \/ cpc["owner"] = "semwait" /\ semCount = 1 /\ Only(w)
               \/ /\ cpc["owner"] = "blocked" /\ "owner" \in waiting
                  /\ semCount = 0 /\ Only(w)
    BY <1>0, <2>1, <2>2, <2>4 DEF ThreadTypes
  <2>5. ASSUME acceptLife = "fresh", cpc["owner"] = "blocked"
        PROVE  "owner" \notin waiting'
    BY <1>0, <1>6, <2>4, <2>5
       DEF Thread!WorkerWakeup, Thread!Wakeup, Thread!NotifyOne, ThreadTypes
  <2>6. \A v \in Workers : wpc'[v] \in {"run", "exit"} => wpc[v] \in {"run", "exit"}
    BY <1>0, <1>6 DEF Thread!WorkerWakeup, ThreadTypes
  <2> QED BY <1>0, <1>6, <2>1, <2>2, <2>3, <2>4, <2>5, <2>6 DEF ThreadTypes
<1>7. ASSUME NEW w \in Workers, Thread!Exit(w),
             acceptLife' = IF acceptLife = "fresh" THEN "exited" ELSE acceptLife
      PROVE  LifeInv'
  <2>1. w \in Active /\ wpc'[w] = "destroy" /\ ~isRun'
    BY <1>0, <1>7 DEF Thread!Exit, Active, Thread!Active, ThreadTypes
  <2>2. acceptLife = "fresh" => Only(w)
    BY <1>0, <1>7, <2>1 DEF Thread!Exit, ThreadTypes
  <2>3. ASSUME NEW v \in Workers, v # w
        PROVE  wpc'[v] = wpc[v]
    BY <1>0, <1>7, <2>3 DEF Thread!Exit, ThreadTypes
  <2>4. ASSUME NEW v \in Workers, v # w, acceptLife = "fresh"
        PROVE  wpc[v] \notin {"run", "exit"}
    BY <2>2, <2>4 DEF Active, Thread!Active
  <2> QED BY <1>7, <2>1, <2>3, <2>4
<1> QED BY <1>1, <1>2, <1>3, <1>4, <1>5, <1>6, <1>7, ThreadCases

\* The start of the specification.
LEMMA InitInv == Init => IInv
<1> SUFFICES ASSUME Init PROVE IInv
  OBVIOUS
<1> USE SizeAssumption DEF Init, Zero, Counters
<1>1. ThreadTypes /\ ThreadInv
  <2>1. /\ mutex = "nobody" /\ isRun = FALSE /\ Active = {}
        /\ cpc = [c \in {"owner"} |-> "idle"]
        /\ wpc = [w \in Workers |-> "unborn"]
        /\ semCount = 1 /\ waiting = {}
    BY DEF Thread!Init, Thread!SemInit, Active, Thread!Active
  <2>2. ThreadTypes
    <3>1. isRun \in BOOLEAN
      BY <2>1, Zenon
    <3> QED BY <2>1, <3>1 DEF ThreadTypes
  <2>3. cpc["owner"] = "idle"
    BY <2>1
  <2> QED BY <2>1, <2>2, <2>3
          DEF ThreadInv, MutexInv, LifeInv, CloserIdle, Closing
<1>2. TypeOK
  <2>1. unguarded \in BOOLEAN
    BY Zenon
  <2> QED BY <1>1, <2>1, ThreadTypesFact DEF TypeOK
<1>3. OwnerInv
  BY DEF OwnerInv, VectorInv, CloseInv, OneSocketInv, GuardInv, Undeleted
<1>4. BornInv /\ CountInv
  BY <1>2 DEF BornInv, CountInv, TypeOK
<1> QED BY <1>1, <1>2, <1>3, <1>4 DEF IInv

\* The invariant of the accept thread is kept.
LEMMA ThreadStep ==
  ASSUME IInv, [Next]_vars
  PROVE  ThreadTypes /\ ThreadTypes' /\ ThreadInv'
<1>1. ThreadTypes /\ ThreadInv
  BY ThreadTypesFact DEF IInv, TypeOK
<1>2. ownerPc = "start" => starts \in Workers
  BY SizeAssumption DEF IInv, OwnerInv, CloseInv, TypeOK, Workers
<1> QED BY <1>1, <1>2, MutexStep, LifeStep DEF ThreadInv

-----------------------------------------------------------------------------
MsgPcs == {"loop", "exit", "quit", "clean", "done"}

\* The types of the owner's variables and of the CellServers.
OwnerTypes ==
  /\ sock \in {"invalid", "open", "listening"}
  /\ cellServers \in Seq(1 .. made) /\ made \in Nat
  /\ deleted \in SUBSET (1 .. made)
  /\ msgPc \in [1 .. made -> MsgPcs]
  /\ ownerPc \in {"idle", "start", "join", "delete", "wait", "sock", "socket",
                  "gone"}
  /\ then \in {"idle", "socket", "gone"}
  /\ at \in Nat /\ starts \in 0 .. MaxStarts /\ sockets \in 0 .. MaxSockets
  /\ unguarded \in BOOLEAN

\* The types of the accept threads' variables.
AcceptTypes ==
  /\ accPc \in [Workers -> {"loop", "recv", "msg", "select"}]
  /\ acceptLife \in {"fresh", "exited", "restarted"}
  /\ \A f \in {count, total, reported, missed} : f \in [Counters -> Nat]
  /\ seen \in [Workers -> [Counters -> Nat]]
  /\ fault \in {"none", "dispatch", "twice", "event"}

\* TypeOK in its three parts.
LEMMA TypeParts == TypeOK <=> ThreadTypes /\ OwnerTypes /\ AcceptTypes
BY ThreadTypesFact DEF TypeOK, OwnerTypes, AcceptTypes, MsgPcs

\* The owner's variables keep their types.
LEMMA OwnerTypesStep == ASSUME IInv, [Next]_vars PROVE OwnerTypes'
<1> USE SizeAssumption DEF OwnerTypes, serverVars, ownerVars, Call
<1>0. OwnerTypes /\ VectorInv /\ CloseInv
  BY TypeParts DEF IInv, OwnerInv
<1>1. CASE InitSocketOpen \/ Close \/ Destroy
  BY <1>0, <1>1 DEF InitSocketOpen, Close, Destroy, BeginClose
<1>2. CASE NewSocket \/ Listen \/ JoinWait \/ Join \/ Deleted \/ CloseSocket
           \/ StartThread
  <2>1. CASE NewSocket
    BY <1>0, <2>1 DEF NewSocket
  <2>2. CASE Listen
    BY <1>0, <2>2 DEF Listen
  <2>3. CASE JoinWait
    BY <1>0, <2>3 DEF JoinWait
  <2>4. CASE Join
    BY <1>0, <2>4 DEF Join
  <2>5. CASE Deleted
    BY <1>0, <2>5 DEF Deleted
  <2>6. CASE CloseSocket
    BY <1>0, <2>6 DEF CloseSocket
  <2>7. CASE StartThread
    BY <1>0, <2>7 DEF StartThread
  <2> QED BY <1>2, <2>1, <2>2, <2>3, <2>4, <2>5, <2>6, <2>7
<1>3. CASE Start
  <2>1. unguarded' \in BOOLEAN
    BY <1>0, <1>3, Zenon DEF Start
  <2> QED BY <1>0, <1>3, <2>1 DEF Start
<1>4. CASE StartServer
  <2>1. cellServers' \in Seq(1 .. made')
    BY <1>0, <1>4, AppendProperties DEF StartServer
  <2>2. msgPc \in Seq(MsgPcs) /\ Len(msgPc) = made
    <3>1. msgPc \in [1 .. made -> MsgPcs] /\ made \in Nat
      BY <1>0
    <3>2. msgPc \in Seq(MsgPcs)
      BY <3>1, SeqDef
    <3>3. DOMAIN msgPc = 1 .. Len(msgPc) /\ Len(msgPc) \in Nat
      BY <3>2, LenProperties
    <3>4. 1 .. Len(msgPc) = 1 .. made
      BY <3>1, <3>3
    <3> QED BY <3>1, <3>2, <3>3, <3>4
  <2>3. msgPc' \in [1 .. made' -> MsgPcs]
    <3>1. msgPc' = Append(msgPc, "loop") /\ made' = made + 1 /\ "loop" \in MsgPcs
      BY <1>4 DEF StartServer, MsgPcs
    <3>2. msgPc' \in Seq(MsgPcs) /\ Len(msgPc') = made'
      BY <2>2, <3>1, AppendProperties
    <3> QED BY <3>2, LenProperties
  <2> QED BY <1>0, <1>4, <2>1, <2>3 DEF StartServer
<1>5. ASSUME NEW s \in 1 .. made,
             DeleteWaits(s) \/ DeleteServer(s) \/ DeleteTwice(s)
      PROVE  OwnerTypes'
  <2>1. /\ UNCHANGED <<sock, cellServers, made, msgPc, then, starts, sockets,
                       unguarded>>
        /\ deleted' \in {deleted, deleted \cup {s}} /\ at' \in {at, at + 1}
        /\ ownerPc' \in {ownerPc, "delete", "wait"}
    BY <1>5 DEF DeleteWaits, DeleteServer, DeleteTwice, Crash
  <2> QED BY <1>0, <2>1
<1>6. ASSUME NEW w \in Workers,
             \/ Report(w) \/ NoReport(w) \/ NoConnection(w) \/ Dispatch(w)
             \/ DispatchToDeleted(w) \/ SelectFails(w) \/ AcceptExit(w)
             \/ AcceptStops(w) \/ AcceptEnds(w)
             \/ \E k \in Counters : ResetCount(w, k)
      PROVE  UNCHANGED <<sock, serverVars, ownerVars>>
  BY <1>6 DEF Report, NoReport, NoConnection, Dispatch, DispatchToDeleted,
              SelectFails, AcceptExit, AcceptStops, AcceptEnds, ResetCount,
              Goes, Crash
<1>7. ASSUME NEW s \in 1 .. made, NEW from \in MsgPcs, NEW to \in MsgPcs,
             MsgGoes(s, from, to)
      PROVE  OwnerTypes'
  BY <1>0, <1>7 DEF MsgGoes
<1>8. ASSUME NEW s \in 1 .. made,
             MsgStops(s) \/ MsgFails(s) \/ MsgExit(s) \/ MsgEnds(s)
      PROVE  OwnerTypes'
  BY <1>7, <1>8 DEF MsgStops, MsgFails, MsgExit, MsgEnds, MsgPcs
<1>9. ASSUME NEW s \in 1 .. made,
             EventToDeleted(s) \/ \E k \in Counters : OnNetEvent(s, k)
      PROVE  UNCHANGED <<sock, serverVars, ownerVars>>
  BY <1>9 DEF EventToDeleted, OnNetEvent, Crash
<1>10. CASE UNCHANGED <<sock, serverVars, ownerVars>>
  BY <1>0, <1>10
<1> QED BY <1>1, <1>2, <1>3, <1>4, <1>5, <1>6, <1>8, <1>9, <1>10, NextCases
        DEF vars

\* Those of the accept threads, too.
LEMMA AcceptTypesStep == ASSUME IInv, [Next]_vars PROVE AcceptTypes'
<1> USE DEF AcceptTypes, statVars, Counters
<1>0. AcceptTypes
  BY TypeParts DEF IInv
<1>1. CASE \/ InitSocketOpen \/ NewSocket \/ Listen \/ Start \/ Close \/ Destroy
           \/ StartServer \/ JoinWait \/ Join \/ Deleted \/ CloseSocket
           \/ UNCHANGED vars
  <2>1. UNCHANGED <<accPc, acceptLife, statVars, fault>>
    BY <1>1 DEF InitSocketOpen, NewSocket, Listen, Start, Close, Destroy,
                StartServer, JoinWait, Join, Deleted, CloseSocket, BeginClose,
                vars
  <2> QED BY <1>0, <2>1
<1>2. CASE StartThread
  BY <1>0, <1>2 DEF StartThread
<1>3. ASSUME NEW s \in 1 .. made,
             \/ DeleteWaits(s) \/ DeleteServer(s) \/ DeleteTwice(s)
             \/ MsgStops(s) \/ MsgFails(s) \/ MsgExit(s) \/ MsgEnds(s)
             \/ EventToDeleted(s)
      PROVE  AcceptTypes'
  <2>1. UNCHANGED <<accPc, acceptLife, statVars>>
        /\ fault' \in {fault, "twice", "event"}
    BY <1>3 DEF DeleteWaits, DeleteServer, DeleteTwice, MsgStops, MsgFails,
                MsgExit, MsgEnds, EventToDeleted, MsgGoes, Crash
  <2> QED BY <1>0, <2>1
<1>4. ASSUME NEW s \in 1 .. made, NEW k \in Counters, OnNetEvent(s, k)
      PROVE  AcceptTypes'
  BY <1>0, <1>4, SMTT(30) DEF OnNetEvent
<1>5. ASSUME NEW w \in Workers,
             \/ SelectFails(w) \/ AcceptStops(w) \/ AcceptEnds(w)
             \/ AcceptExit(w) \/ DispatchToDeleted(w)
      PROVE  AcceptTypes'
  <2>1. /\ UNCHANGED <<accPc, statVars>>
        /\ acceptLife' \in {acceptLife, "exited"}
        /\ fault' \in {fault, "dispatch"}
    BY <1>5 DEF SelectFails, AcceptStops, AcceptEnds, AcceptExit,
                DispatchToDeleted, Crash
  <2> QED BY <1>0, <2>1
<1>6. ASSUME NEW w \in Workers,
             NoReport(w) \/ NoConnection(w) \/ Dispatch(w)
      PROVE  AcceptTypes'
  <2>1. PICK to \in {"loop", "select"} : accPc' = [accPc EXCEPT ![w] = to]
    BY <1>6 DEF NoReport, NoConnection, Dispatch, Goes
  <2>2. UNCHANGED <<acceptLife, statVars, fault>>
    BY <1>6 DEF NoReport, NoConnection, Dispatch, Goes
  <2> QED BY <1>0, <2>1, <2>2
<1>7. ASSUME NEW w \in Workers, Report(w) PROVE AcceptTypes'
  BY <1>0, <1>7 DEF Report, Goes
<1>8. ASSUME NEW w \in Workers, NEW k \in Counters, ResetCount(w, k)
      PROVE  AcceptTypes'
  <2>1. accPc' \in [Workers -> {"loop", "recv", "msg", "select"}]
    BY <1>0, <1>8 DEF ResetCount, Goes
  <2>2. /\ reported' = [reported EXCEPT ![k] = @ + seen[w][k]]
        /\ count' = [count EXCEPT ![k] = 0]
        /\ seen' = [seen EXCEPT ![w][k] = 0]
        /\ UNCHANGED <<total, missed, acceptLife, fault>>
    BY <1>8 DEF ResetCount, Goes
  <2>3. reported' \in [Counters -> Nat] /\ count' \in [Counters -> Nat]
    <3>1. seen[w] \in [Counters -> Nat]
      BY <1>0
    <3> QED BY <1>0, <2>2, <3>1
  <2>4. seen' \in [Workers -> [Counters -> Nat]]
    BY <1>0, <2>2
  <2> QED BY <1>0, <2>1, <2>2, <2>3, <2>4
<1> QED BY <1>1, <1>2, <1>3, <1>4, <1>5, <1>6, <1>7, <1>8, NextCases

\* TypeOK is kept.
LEMMA TypeInv == ASSUME IInv, [Next]_vars PROVE TypeOK'
<1>1. TypeOK' <=> ThreadTypes' /\ OwnerTypes' /\ AcceptTypes'
  BY TypeParts, PTL
<1> QED BY <1>1, ThreadStep, OwnerTypesStep, AcceptTypesStep

-----------------------------------------------------------------------------
\* While no accept thread was restarted, at most one is in OnRun, and none
\* once Close has returned.
LEMMA OneAccepts ==
  ASSUME ThreadTypes, ThreadInv, acceptLife \in {"fresh", "exited"}
  PROVE  /\ \A v, w \in Workers : Accepts(v) /\ Accepts(w) => v = w
         /\ ownerPc \in Closing => \A w \in Workers : ~Accepts(w)
<1> USE DEF ThreadInv, MutexInv, LifeInv, CloserIdle, OnlyOne, Only, Accepts,
        Active, Thread!Active, ThreadTypes, Closing
<1>1. CASE acceptLife = "exited"
  BY <1>1
<1>2. CASE acceptLife = "fresh"
  <2>1. Active = {} \/ \E w \in Workers : Active = {w}
    <3> HIDE DEF Active, Thread!Active
    <3> QED BY <1>2
  <2>2. ownerPc \in Closing => Active = {}
    <3> HIDE DEF Active, Thread!Active
    <3> QED BY <1>2
  <2> QED BY <2>1, <2>2
<1> QED BY <1>1, <1>2

\* Only a thread that runs moves in the loop.
LEMMA BornStep == ASSUME IInv, [Next]_vars PROVE BornInv'
<1>0. ThreadTypes /\ AcceptTypes /\ BornInv
  BY TypeParts DEF IInv
<1>1. ASSUME NEW w \in Workers, wpc'[w] = "unborn" PROVE wpc[w] = "unborn"
  <2>1. CASE UNCHANGED <<threadVars, acceptLife>>
    BY <1>1, <2>1 DEF threadVars
  <2>2. CASE Thread!Close("owner") \/ Thread!SemWait("owner")
             \/ Thread!CloseReturn("owner")
    BY <1>1, <2>2 DEF Thread!Close, Thread!SemWait, Thread!CloseReturn
  <2>3. CASE Thread!Start(starts)
    BY <1>0, <1>1, <2>3 DEF Thread!Start, ThreadTypes
  <2>4. ASSUME NEW v \in Workers,
               \/ Thread!BodyFails(v) \/ Thread!BodyEnds(v) \/ Thread!Exit(v)
               \/ Thread!Destroy(v) \/ Thread!WorkerWakeup(v)
        PROVE  wpc[w] = "unborn"
    BY <1>0, <1>1, <2>4
       DEF Thread!BodyFails, Thread!BodyEnds, Thread!Exit, Thread!Destroy,
           Thread!WorkerWakeup, ThreadTypes
  <2> QED BY <2>1, <2>2, <2>3, <2>4, ThreadCases DEF IInv, ThreadInv
<1>2. ASSUME NEW w \in Workers, wpc[w] = "unborn" PROVE accPc'[w] = accPc[w]
  <2>1. ASSUME NEW v \in Workers,
               \/ Report(v) \/ NoReport(v) \/ NoConnection(v) \/ Dispatch(v)
               \/ \E k \in Counters : ResetCount(v, k)
        PROVE  \E to : accPc' = [accPc EXCEPT ![v] = to] /\ v # w
    BY <1>2, <2>1 DEF Report, NoReport, NoConnection, Dispatch, ResetCount,
                      Goes, Accepts
  <2>2. ASSUME NEW v \in Workers,
               \/ DispatchToDeleted(v) \/ SelectFails(v) \/ AcceptExit(v)
               \/ AcceptStops(v) \/ AcceptEnds(v)
        PROVE  UNCHANGED accPc
    BY <2>2 DEF DispatchToDeleted, SelectFails, AcceptExit, AcceptStops,
                AcceptEnds, Crash
  <2>3. ASSUME NEW s \in 1 .. made,
               \/ DeleteWaits(s) \/ DeleteServer(s) \/ DeleteTwice(s)
               \/ MsgStops(s) \/ MsgFails(s) \/ MsgExit(s) \/ MsgEnds(s)
               \/ EventToDeleted(s) \/ \E k \in Counters : OnNetEvent(s, k)
        PROVE  UNCHANGED accPc
    BY <2>3 DEF DeleteWaits, DeleteServer, DeleteTwice, MsgStops, MsgFails,
                MsgExit, MsgEnds, EventToDeleted, MsgGoes, OnNetEvent, Crash
  <2>4. CASE \/ InitSocketOpen \/ NewSocket \/ Listen \/ Start \/ Close
             \/ Destroy \/ StartServer \/ StartThread \/ JoinWait \/ Join
             \/ Deleted \/ CloseSocket \/ UNCHANGED vars
    BY <2>4 DEF InitSocketOpen, NewSocket, Listen, Start, Close, Destroy,
                StartServer, StartThread, JoinWait, Join, Deleted, CloseSocket,
                BeginClose, vars
  <2> QED BY <1>0, <2>1, <2>2, <2>3, <2>4, NextCases DEF AcceptTypes
<1> QED BY <1>0, <1>1, <1>2 DEF BornInv

\* A step that changes neither the counts nor a report in progress.
LEMMA CountKept ==
  ASSUME CountInv, UNCHANGED <<count, seen, total, reported, missed>>,
         acceptLife' = "restarted" \/ acceptLife # "restarted",
         \A w \in Workers : \A k \in Counters :
            Accepts(w)' /\ accPc'[w] \in {"recv", k} =>
            Accepts(w) /\ accPc[w] \in {"recv", k}
  PROVE  CountInv'
BY DEF CountInv

\* An event of a message thread: a report in progress counts it as missed.
LEMMA EventCounts ==
  ASSUME IInv, NEW s \in 1 .. made, NEW k \in Counters, OnNetEvent(s, k)
  PROVE  CountInv'
<1>0. TypeOK /\ CountInv
  BY DEF IInv
<1>1. /\ count' = [count EXCEPT ![k] = @ + 1]
      /\ total' = [total EXCEPT ![k] = @ + 1]
      /\ missed' = [missed EXCEPT ![k] = IF Reporting(k) THEN @ + 1 ELSE @]
      /\ UNCHANGED <<wpc, accPc, acceptLife, seen, reported>>
  BY DEF OnNetEvent, threadVars
<1>2. SUFFICES ASSUME acceptLife # "restarted", NEW j \in Counters
               PROVE  /\ reported[j] + count'[j] <= total'[j]
                      /\ total'[j] <= reported[j] + count'[j] + missed'[j]
                      /\ \A w \in Workers : Accepts(w) /\ accPc[w] \in {"recv", j} =>
                           /\ seen[w][j] <= count'[j]
                           /\ total'[j] <= reported[j] + seen[w][j] + missed'[j]
  BY <1>1 DEF CountInv, Accepts
<1>3. CASE j # k
  BY <1>0, <1>1, <1>2, <1>3 DEF TypeOK, CountInv
<1>4. CASE j = k
  <2>1. /\ count[k] \in Nat /\ total[k] \in Nat /\ missed[k] \in Nat
        /\ reported[k] \in Nat
        /\ count'[k] = count[k] + 1 /\ total'[k] = total[k] + 1
        /\ missed'[k] = IF Reporting(k) THEN missed[k] + 1 ELSE missed[k]
    BY <1>0, <1>1 DEF TypeOK
  <2>2. /\ reported[k] + count[k] <= total[k]
        /\ total[k] <= reported[k] + count[k] + missed[k]
    BY <1>0, <1>2 DEF CountInv
  <2>3. ASSUME NEW w \in Workers, Accepts(w), accPc[w] \in {"recv", k}
        PROVE  /\ seen[w][k] <= count'[k]
               /\ total'[k] <= reported[k] + seen[w][k] + missed'[k]
    <3>1. Reporting(k)
      BY <2>3 DEF Reporting
    <3>2. /\ seen[w][k] \in Nat /\ seen[w][k] <= count[k]
          /\ total[k] <= reported[k] + seen[w][k] + missed[k]
      BY <1>0, <1>2, <2>3 DEF TypeOK, CountInv
    <3> QED BY <2>1, <3>1, <3>2
  <2> QED BY <1>4, <2>1, <2>2, <2>3
<1> QED BY <1>3, <1>4

\* The report, by the only accept thread that runs.
LEMMA ReportCounts ==
  ASSUME IInv, acceptLife # "restarted", NEW w \in Workers,
         Report(w) \/ \E k \in Counters : ResetCount(w, k)
  PROVE  CountInv'
<1>0. TypeOK /\ CountInv /\ Accepts(w)
  BY DEF IInv, Report, ResetCount, Goes
<1>1. \A v \in Workers : Accepts(v) => v = w
  BY <1>0, OneAccepts, TypeParts DEF IInv, TypeOK
<1>2. UNCHANGED <<wpc, acceptLife, total, missed>>
  BY DEF Report, ResetCount, Goes, threadVars
<1>3. CASE Report(w)
  <2>1. /\ seen' = [seen EXCEPT ![w] = count] /\ UNCHANGED <<count, reported>>
        /\ accPc' = [accPc EXCEPT ![w] = "recv"]
    BY <1>3 DEF Report, Goes
  <2>2. \A k \in Counters : seen'[w][k] = count[k] /\ count[k] \in Nat
    BY <1>0, <2>1 DEF TypeOK
  <2> QED BY <1>0, <1>1, <1>2, <2>1, <2>2 DEF CountInv, Accepts
<1>4. ASSUME NEW k \in Counters, ResetCount(w, k) PROVE CountInv'
  <2>1. /\ accPc[w] = k
        /\ reported' = [reported EXCEPT ![k] = @ + seen[w][k]]
        /\ count' = [count EXCEPT ![k] = 0]
        /\ seen' = [seen EXCEPT ![w][k] = 0]
        /\ accPc' = [accPc EXCEPT ![w] = IF k = "recv" THEN "msg" ELSE "select"]
    BY <1>4 DEF ResetCount, Goes
  <2>2. accPc'[w] = IF k = "recv" THEN "msg" ELSE "select"
    BY <1>0, <2>1 DEF TypeOK
  <2>3. SUFFICES ASSUME NEW j \in Counters
                 PROVE  /\ reported'[j] + count'[j] <= total[j]
                        /\ total[j] <= reported'[j] + count'[j] + missed[j]
                        /\ accPc'[w] \in {"recv", j} =>
                             /\ seen'[w][j] <= count'[j]
                             /\ total[j] <= reported'[j] + seen'[w][j] + missed[j]
    BY <1>1, <1>2 DEF CountInv, Accepts
  <2>4. CASE j = k
    <3>1. /\ count[k] \in Nat /\ total[k] \in Nat /\ missed[k] \in Nat
          /\ reported[k] \in Nat /\ seen[w][k] \in Nat
          /\ count'[k] = 0 /\ reported'[k] = reported[k] + seen[w][k]
      BY <1>0, <2>1 DEF TypeOK
    <3>2. /\ reported[k] + count[k] <= total[k] /\ seen[w][k] <= count[k]
          /\ total[k] <= reported[k] + seen[w][k] + missed[k]
      BY <1>0, <2>1 DEF CountInv
    <3>3. accPc'[w] \notin {"recv", k}
      BY <2>2 DEF Counters
    <3> QED BY <2>4, <3>1, <3>2, <3>3
  <2>5. CASE j # k
    <3>1. count'[j] = count[j] /\ reported'[j] = reported[j]
      BY <1>0, <2>1, <2>5 DEF TypeOK
    <3>2. seen'[w][j] = seen[w][j]
      BY <1>0, <2>1, <2>5 DEF TypeOK
    <3>3. accPc'[w] \in {"recv", j} => accPc[w] = "recv"
      BY <2>1, <2>2, <2>5 DEF Counters
    <3> QED BY <1>0, <3>1, <3>2, <3>3 DEF CountInv
  <2> QED BY <2>4, <2>5
<1> QED BY <1>3, <1>4

\* The counts are changed by the reports and by the message threads only.
LEMMA CountStep == ASSUME IInv, [Next]_vars PROVE CountInv'
<1> USE DEF statVars, threadVars
<1>0. TypeOK /\ CountInv /\ ThreadTypes
  BY TypeParts DEF IInv
<1>1. acceptLife' = "restarted" \/ acceptLife # "restarted"
  BY ThreadCases DEF IInv, ThreadInv
<1>2. CASE acceptLife = "restarted"
  BY <1>1, <1>2 DEF CountInv
<1>3. CASE UNCHANGED <<accPc, wpc, statVars>>
  BY <1>0, <1>1, <1>3, CountKept DEF Accepts
<1>4. CASE \/ InitSocketOpen \/ NewSocket \/ Listen \/ Start \/ Close \/ Destroy
           \/ StartServer \/ JoinWait \/ Join \/ Deleted \/ CloseSocket
           \/ UNCHANGED vars
  <2>1. UNCHANGED <<accPc, wpc, statVars>>
    BY <1>4 DEF InitSocketOpen, NewSocket, Listen, Start, Close, Destroy,
                StartServer, JoinWait, Join, Deleted, CloseSocket, BeginClose,
                Thread!Close, Thread!SemWait, Thread!CloseReturn, vars
  <2> QED BY <1>3, <2>1
<1>5. ASSUME NEW s \in 1 .. made,
             \/ DeleteWaits(s) \/ DeleteServer(s) \/ DeleteTwice(s)
             \/ MsgStops(s) \/ MsgFails(s) \/ MsgExit(s) \/ MsgEnds(s)
             \/ EventToDeleted(s)
      PROVE  UNCHANGED <<accPc, wpc, statVars>>
  BY <1>5 DEF DeleteWaits, DeleteServer, DeleteTwice, MsgStops, MsgFails,
              MsgExit, MsgEnds, EventToDeleted, MsgGoes, Crash
<1>6. CASE StartThread
  <2>1. UNCHANGED <<accPc, statVars>>
    BY <1>6 DEF StartThread
  <2>2. CASE isRun
    BY <1>3, <1>6, <2>1, <2>2 DEF StartThread
  <2>3. CASE ~isRun
    <3>1. /\ wpc[starts] = "unborn" /\ wpc' = [wpc EXCEPT ![starts] = "run"]
          /\ starts \in Workers
      BY <1>6, <2>3, SizeAssumption
         DEF StartThread, Thread!Start, IInv, OwnerInv, CloseInv, TypeOK, Workers
    <3>2. accPc[starts] = "loop"
      BY <3>1 DEF IInv, BornInv
    <3> QED BY <1>0, <1>1, <2>1, <3>1, <3>2, CountKept
            DEF Accepts, Counters, ThreadTypes
  <2> QED BY <2>2, <2>3
<1>7. ASSUME NEW w \in Workers,
             \/ SelectFails(w) \/ AcceptExit(w) \/ AcceptStops(w) \/ AcceptEnds(w)
      PROVE  CountInv'
  <2>1. /\ UNCHANGED <<accPc, statVars>>
        /\ \E label \in {"exit", "destroy", "wakeup", "done"} :
              wpc' = [wpc EXCEPT ![w] = label]
    BY <1>7 DEF SelectFails, AcceptExit, AcceptStops, AcceptEnds,
                Thread!BodyFails, Thread!Exit, Thread!BodyEnds, Thread!Destroy,
                Thread!WorkerWakeup
  <2> QED BY <1>0, <1>1, <2>1, CountKept DEF Accepts, ThreadTypes
<1>8. ASSUME NEW w \in Workers,
             NoReport(w) \/ NoConnection(w) \/ Dispatch(w) \/ DispatchToDeleted(w)
      PROVE  CountInv'
  <2>1. /\ UNCHANGED <<wpc, statVars>>
        /\ accPc' = accPc \/ \E to \in {"loop", "select"} :
                               accPc' = [accPc EXCEPT ![w] = to]
    BY <1>8 DEF NoReport, NoConnection, Dispatch, DispatchToDeleted, Goes, Crash
  <2> QED BY <1>0, <1>1, <2>1, CountKept DEF Accepts, TypeOK, Counters
<1> QED BY <1>2, <1>3, <1>4, <1>5, <1>6, <1>7, <1>8, NextCases, EventCounts,
           ReportCounts

-----------------------------------------------------------------------------
\* Steps of the owner.
LEMMA OwnerStep == ASSUME IInv, [Next]_vars, Owner PROVE OwnerInv'
<1> USE SizeAssumption DEF OwnerInv, VectorInv, CloseInv, OneSocketInv,
        GuardInv, Undeleted, serverVars, ownerVars, Call, Crash
<1>0. OwnerTypes /\ OwnerInv /\ acceptLife' \in {"restarted", acceptLife, "exited"}
  BY TypeParts, ThreadCases DEF IInv, ThreadInv
<1>1. CASE InitSocketOpen \/ Close \/ Destroy
  BY <1>0, <1>1 DEF InitSocketOpen, Close, Destroy, BeginClose
<1>2. CASE NewSocket
  <2>1. /\ ownerPc' = "idle" /\ ownerPc \in {"idle", "socket"} /\ sock = "invalid"
        /\ UNCHANGED <<serverVars, acceptLife, at, starts, unguarded, fault>>
    BY <1>0, <1>2 DEF NewSocket
  <2>2. CASE sock' = "invalid" /\ UNCHANGED sockets
    BY <1>0, <2>1, <2>2
  <2>3. CASE sock' = "open" /\ sockets' = sockets + 1
    <3>1. sockets \in Nat /\ sockets' > 0
      BY <1>0, <2>3 DEF OwnerTypes
    <3>2. sockets' <= 1 => /\ deleted = {} /\ fault # "twice"
                           /\ acceptLife # "restarted" => fault # "dispatch"
      BY <1>0, <2>3, <3>1
    <3>3. OneSocketInv'
      BY <2>1, <2>3, <3>1, <3>2
    <3>4. VectorInv' /\ CloseInv' /\ GuardInv'
      BY <1>0, <2>1, <2>3
    <3> QED BY <3>3, <3>4
  <2> QED BY <1>2, <2>2, <2>3 DEF NewSocket
<1>3. CASE Listen
  BY <1>0, <1>3 DEF Listen
<1>4. CASE Start
  <2>1. /\ ownerPc = "idle" /\ ownerPc' = "start" /\ starts' = starts + 1
        /\ UNCHANGED <<sock, serverVars, acceptLife, at, sockets, fault>>
    BY <1>4 DEF Start
  <2>2. (unguarded => unguarded') /\ (sock = "invalid" => unguarded')
    BY <1>4 DEF Start
  <2>3. starts' > 0
    BY <1>0, <2>1 DEF OwnerTypes
  <2> QED BY <1>0, <2>1, <2>2, <2>3
<1>5. CASE StartServer
  BY <1>0, <1>5, AppendProperties DEF StartServer, OwnerTypes
<1>6. CASE StartThread
  BY <1>0, <1>6 DEF StartThread
<1>7. CASE JoinWait
  BY <1>0, <1>7 DEF JoinWait
<1>8. CASE Join
  BY <1>0, <1>8 DEF Join, OwnerTypes
<1>9. ASSUME NEW s \in 1 .. made, DeleteWaits(s) PROVE OwnerInv'
  BY <1>0, <1>9 DEF DeleteWaits, OwnerTypes
<1>10. ASSUME NEW s \in 1 .. made, DeleteServer(s) PROVE OwnerInv'
  BY <1>0, <1>10 DEF DeleteServer, Deletes, OwnerTypes
<1>11. ASSUME NEW s \in 1 .. made, DeleteTwice(s) PROVE OwnerInv'
  BY <1>0, <1>11 DEF DeleteTwice, Deletes, OwnerTypes
<1>12. CASE Deleted
  BY <1>0, <1>12 DEF Deleted, OwnerTypes
<1>13. CASE CloseSocket
  BY <1>0, <1>13 DEF CloseSocket, OwnerTypes
<1> QED BY <1>1, <1>2, <1>3, <1>4, <1>5, <1>6, <1>7, <1>8, <1>9, <1>10, <1>11,
           <1>12, <1>13 DEF Owner

\* Steps of an accept thread.
LEMMA AcceptStep ==
  ASSUME IInv, [Next]_vars, NEW w \in Workers, AcceptThread(w)
  PROVE  OwnerInv'
<1> USE DEF OwnerInv, VectorInv, CloseInv, OneSocketInv, GuardInv, Undeleted,
        serverVars, ownerVars, Crash
<1>0. OwnerInv /\ acceptLife' \in {"restarted", acceptLife, "exited"}
  BY ThreadCases DEF IInv, ThreadInv
<1>1. CASE DispatchToDeleted(w)
  <2>1. sock # "invalid" /\ deleted # {} /\ Accepts(w)
        /\ UNCHANGED acceptLife /\ fault' = "dispatch"
    BY <1>1 DEF DispatchToDeleted
  <2>2. acceptLife \in {"fresh", "exited"} => ownerPc \notin Closing
    BY <2>1, OneAccepts, TypeParts DEF IInv
  <2>3. sockets <= 1 => acceptLife = "restarted"
    BY <1>0, <2>1, <2>2 DEF IInv, TypeOK, Closing
  <2> QED BY <1>0, <1>1, <2>1, <2>3 DEF DispatchToDeleted
<1>2. CASE \/ Report(w) \/ NoReport(w) \/ NoConnection(w) \/ Dispatch(w)
           \/ \E k \in Counters : ResetCount(w, k)
           \/ SelectFails(w) \/ AcceptExit(w) \/ AcceptStops(w) \/ AcceptEnds(w)
  <2>1. UNCHANGED <<sock, serverVars, ownerVars, fault>>
    BY <1>2 DEF Report, NoReport, NoConnection, Dispatch, ResetCount, Goes,
                SelectFails, AcceptExit, AcceptStops, AcceptEnds
  <2>2. acceptLife' # "restarted" => acceptLife # "restarted"
    BY <1>2 DEF Report, NoReport, NoConnection, Dispatch, ResetCount, Goes,
                SelectFails, AcceptExit, AcceptStops, AcceptEnds
  <2> QED BY <1>0, <2>1, <2>2
<1> QED BY <1>1, <1>2 DEF AcceptThread

\* Steps of a message thread: one whose CellServer was deleted has left its
\* loop.
LEMMA MessageStep ==
  ASSUME IInv, NEW s \in 1 .. made, MessageThread(s)
  PROVE  OwnerInv'
<1> USE DEF OwnerInv, VectorInv, CloseInv, OneSocketInv, GuardInv, Undeleted,
        serverVars, ownerVars, Crash
<1>0. OwnerTypes /\ OwnerInv
  BY TypeParts DEF IInv
<1>1. CASE EventToDeleted(s)
  <2>1. s \notin deleted /\ sock = "invalid" /\ fault' = "event"
    BY <1>0, <1>1 DEF EventToDeleted
  <2>2. unguarded
    BY <1>0, <2>1
  <2> QED BY <1>0, <1>1, <2>1, <2>2 DEF EventToDeleted
<1>2. CASE \E k \in Counters : OnNetEvent(s, k)
  BY <1>0, <1>2 DEF OnNetEvent
<1>3. CASE MsgStops(s) \/ MsgFails(s) \/ MsgExit(s) \/ MsgEnds(s)
  <2>1. PICK from \in {"loop", "exit", "clean", "quit"}, to \in MsgPcs :
             MsgGoes(s, from, to) /\ (from = "quit" => to = "done")
    BY <1>3 DEF MsgStops, MsgFails, MsgExit, MsgEnds, MsgPcs
  <2>2. \A t \in deleted : msgPc'[t] \in {"quit", "done"}
    BY <1>0, <2>1 DEF MsgGoes, OwnerTypes
  <2> QED BY <1>0, <2>1, <2>2 DEF MsgGoes
<1> QED BY <1>1, <1>2, <1>3 DEF MessageThread

LEMMA InvCorrect == Spec => []IInv
<1>1. ASSUME IInv, [Next]_vars PROVE IInv'
  <2>1. OwnerInv'
    <3>1. CASE UNCHANGED vars
      BY <1>1, <3>1
         DEF vars, serverVars, ownerVars, IInv, OwnerInv, VectorInv, CloseInv,
             OneSocketInv, GuardInv, Undeleted
    <3> QED BY <1>1, <3>1, OwnerStep, AcceptStep, MessageStep DEF Next
  <2> QED BY <1>1, <2>1, TypeInv, ThreadStep, BornStep, CountStep DEF IInv
<1> QED BY <1>1, InitInv, PTL DEF Spec

-----------------------------------------------------------------------------
\* The variables keep their types.
THEOREM TypeCorrect == Spec => []TypeOK
<1>1. IInv => TypeOK
  BY DEF IInv
<1> QED BY <1>1, InvCorrect, PTL

\* With one socket no CellServer is deleted twice, and none is dispatched to
\* after its deletion without a restart after an Exit.
THEOREM ServersUsedAliveCorrect == Spec => []ServersUsedAlive
<1>1. IInv => ServersUsedAlive
  BY DEF IInv, TypeOK, OwnerInv, OneSocketInv, ServersUsedAlive
<1> QED BY <1>1, InvCorrect, PTL

\* The destroyed server has no thread left but those that called Exit, and
\* those of a Start without a socket.
THEOREM ThreadsEndCorrect == Spec => []ThreadsEnd
<1>1. ASSUME IInv PROVE ThreadsEnd
  <2>1. ownerPc = "gone" => Active = {} \/ acceptLife # "fresh"
    BY <1>1 DEF IInv, ThreadInv, MutexInv, LifeInv, CloserIdle, Closing
  <2> QED BY <1>1, <2>1
          DEF IInv, OwnerInv, CloseInv, GuardInv, ThreadsEnd, Undeleted, Active
<1> QED BY <1>1, InvCorrect, PTL

\* The statistics miss at most what came in during a report.
THEOREM StatisticsCorrect == Spec => []StatisticsHonest
<1>1. IInv => StatisticsHonest
  BY DEF IInv, TypeOK, CountInv, StatisticsHonest
<1> QED BY <1>1, InvCorrect, PTL
=============================================================================
