--------------------------- MODULE CellServerProofs ---------------------------
(***************************************************************************)
(* Proofs about CellServer for any number of servers, clients and          *)
(* descriptors.                                                            *)
(***************************************************************************)
EXTENDS CellServer, FiniteSetTheorems, TLAPS

-----------------------------------------------------------------------------
(***************************************************************************)
(* Type correctness.                                                       *)
(***************************************************************************)

\* What getClientCount reads is a natural number.
LEMMA SizeType ==
  ASSUME TypeOK, next <= N, Len(sizes) < 4
  PROVE  SizeToRead \in Nat
<1>1. minServer \in Servers /\ next \in Servers
  BY ConstantsAssumption DEF TypeOK, Servers
<1>2. \A s \in Servers : Cardinality(Keys(s)) \in Nat
  <2> SUFFICES ASSUME NEW s \in Servers PROVE Cardinality(Keys(s)) \in Nat
    OBVIOUS
  <2>1. Keys(s) \subseteq Fds
    BY DEF Keys
  <2> QED BY <2>1, FS_Subset, FS_CardinalityType, ConstantsAssumption
<1>3. \A s \in Servers : Cardinality(buff[s]) \in Nat
  <2> SUFFICES ASSUME NEW s \in Servers PROVE Cardinality(buff[s]) \in Nat
    OBVIOUS
  <2>1. buff[s] \subseteq Clients
    BY DEF TypeOK
  <2> QED BY <2>1, FS_Subset, FS_CardinalityType, ConstantsAssumption
<1>4. Len(sizes) \in {0, 1, 2, 3}
  <2>1. sizes \in Seq(Nat)
    BY DEF TypeOK
  <2>2. Len(sizes) \in Nat
    BY <2>1
  <2>3. \A n \in Nat : n < 4 => n \in {0, 1, 2, 3}
    OBVIOUS
  <2> QED BY <2>2, <2>3
<1> QED BY <1>1, <1>2, <1>3, <1>4 DEF SizeToRead

\* The initial state is well typed.
LEMMA TypeInit == Init => TypeOK
  BY ConstantsAssumption DEF Init, TypeOK, AcceptPc, CellPc, Servers, Threads

\* Every step keeps the types.
LEMMA TypeStep == TypeOK /\ [Next]_vars => TypeOK'
<1> SUFFICES ASSUME TypeOK, [Next]_vars PROVE TypeOK'
  OBVIOUS
<1> USE ConstantsAssumption
<1> USE DEF TypeOK, cellVars, clientVars, scanVars, closeVars, Goto, Delete,
        AcceptPc, CellPc, Threads, Acceptor
<1>1. CASE Close
  BY <1>1 DEF Close
<1>2. ASSUME NEW c \in Clients, NEW f \in Fds, Accept(c, f) PROVE TypeOK'
  BY <1>2 DEF Accept
<1>3. CASE AcceptSelectFails
  BY <1>3 DEF AcceptSelectFails
<1>4. CASE ReadSize
  <2>1. SizeToRead \in Nat
    BY <1>4, SizeType DEF ReadSize
  <2> QED BY <1>4, <2>1 DEF ReadSize
<1>5. CASE Compare
  <2>1. next \in Servers /\ next + 1 \in 2 .. N + 1
    BY <1>5 DEF Compare, Servers
  <2> QED BY <1>5, <2>1 DEF Compare
<1>6. CASE AddClient
  <2>1. 1 \in Servers /\ 2 \in 2 .. N + 1
    BY DEF Servers
  <2>2. buff' \in [Servers -> SUBSET Clients]
    BY <1>6 DEF AddClient
  <2> QED BY <1>6, <2>1, <2>2 DEF AddClient
<1>7. CASE AcceptStop
  BY <1>7 DEF AcceptStop
<1>8. ASSUME NEW t \in Threads, Exit(t) PROVE TypeOK'
  BY <1>8 DEF Exit
<1>9. CASE CloseStep
  <2>1. ASSUME closing <= N
        PROVE  closing \in Threads /\ closing + 1 \in 0 .. N + 1
    BY <2>1 DEF Servers
  <2>2. closing \in Threads => closing + 1 \in 0 .. N + 1
    BY DEF Servers
  <2>3. CASE CloseThread
    BY <2>3, <2>1 DEF CloseThread
  <2>4. CASE ThreadEnded
    BY <2>4, <2>2 DEF ThreadEnded
  <2>5. CASE CloseDone
    BY <2>5 DEF CloseDone
  <2> QED BY <1>9, <2>3, <2>4, <2>5 DEF CloseStep
<1>10. ASSUME NEW s \in Servers, CellStep(s) PROVE TypeOK'
  <2>1. CASE Stop(s)
    BY <2>1 DEF Stop
  <2>2. CASE LockBuff(s)
    BY <2>2 DEF LockBuff
  <2>3. ASSUME NEW c \in Clients, MergeOne(s, c) PROVE TypeOK'
    <3>1. clients' \in [Servers -> [Fds -> Clients \cup {NoClient}]]
      BY <2>3 DEF MergeOne
    <3> QED BY <2>3, <3>1 DEF MergeOne
  <2>4. CASE MergeDone(s)
    BY <2>4 DEF MergeDone, Expired, Keys
  <2>5. CASE SkipMerge(s)
    BY <2>5 DEF SkipMerge, Expired, Keys
  <2>6. ASSUME NEW f \in Fds, Leave(s, f) PROVE TypeOK'
    BY <2>6 DEF Leave
  <2>7. CASE Erase(s)
    BY <2>7 DEF Erase
  <2>8. CASE TimeDone(s)
    BY <2>8 DEF TimeDone
  <2>9. CASE Select(s)
    BY <2>9 DEF Select, ReadSet, Keys
  <2>10. CASE SelectFails(s)
    BY <2>10 DEF SelectFails, ReadSet, Keys
  <2>11. CASE ReadDone(s)
    BY <2>11 DEF ReadDone, Keys
  <2>12. CASE WriteDone(s)
    BY <2>12 DEF WriteDone
  <2>13. CASE Exit(s)
    BY <2>13, <1>8
  <2>14. CASE CleanMap(s)
    BY <2>14 DEF CleanMap
  <2>15. CASE CleanBuff(s)
    BY <2>15 DEF CleanBuff
  <2> QED BY <1>10, <2>1, <2>2, <2>3, <2>4, <2>5, <2>6, <2>7, <2>8, <2>9,
             <2>10, <2>11, <2>12, <2>13, <2>14, <2>15 DEF CellStep
<1>11. CASE UNCHANGED vars
  BY <1>11 DEF vars
<1> QED BY <1>1, <1>2, <1>3, <1>4, <1>5, <1>6, <1>7, <1>8, <1>9, <1>10, <1>11
        DEF Next, Environment, AcceptStep

\* The variables of CellServer keep their types.
THEOREM TypeCorrect == Spec => []TypeOK
  BY TypeInit, TypeStep, PTL DEF Spec

-----------------------------------------------------------------------------
(***************************************************************************)
(* The inductive invariant of client ownership.                            *)
(***************************************************************************)

Passes == {"time", "read", "write"}

\* A live client has a descriptor of its own.
FdUnique ==
  /\ \A c \in Live : fd[c] \in Fds
  /\ \A c, d \in Live : fd[c] = fd[d] => c = d

\* A client that has not been created is nowhere.
Fresh ==
  \A c \in Clients : life[c] = "none" =>
     /\ hand # c
     /\ \A s \in Servers : c \notin buff[s]
     /\ \A s \in Servers, f \in Fds : clients[s][f] # c

\* The accept thread holds a live client exactly while it dispatches it.
HandOK ==
  /\ pc[Acceptor] # "scan" => hand = NoClient
  /\ hand # NoClient => hand \in Live

\* Between delete and erase the entry is still there and the flag is set.
ErasingOK ==
  \A s \in Servers : erasing[s] # NoFd =>
     /\ pc[s] \in Passes
     /\ change[s]
     /\ clients[s][erasing[s]] \in Clients
     /\ life[clients[s][erasing[s]]] = "deleted"

\* What a pass has still to remove is in the map.
DoomedOK ==
  \A s \in Servers :
     /\ doomed[s] # {} => pc[s] \in Passes
     /\ \A f \in doomed[s] : clients[s][f] # NoClient /\ f # erasing[s]

\* A live client is filed, if at all, under its own descriptor.
Held(s, c) == c \in buff[s] \/ clients[s][fd[c]] = c

\* A queued client is in the map only after the merge has reached it.
MergeOK ==
  \A s \in Servers :
     /\ unmerged[s] \subseteq buff[s]
     /\ \A c \in buff[s] \cap Live :
           clients[s][fd[c]] = c <=> pc[s] = "merge" /\ c \notin unmerged[s]

\* A live client is held by one server, or by none and is in hand.
OwnerUnique ==
  \A c \in Live, s, t \in Servers : Held(s, c) /\ Held(t, c) => s = t
HandFree == hand # NoClient => \A s \in Servers : ~Held(s, hand)
Owned    == \A c \in Live : c # hand => \E s \in Servers : Held(s, c)

IInv ==
  /\ TypeOK
  /\ FdUnique
  /\ Fresh
  /\ HandOK
  /\ ErasingOK
  /\ DoomedOK
  /\ MapLive
  /\ QueueLive
  /\ MergeOK
  /\ OwnerUnique
  /\ HandFree
  /\ Owned

\* A step that touches neither the clients nor where they are held.
LEMMA Quiet ==
  ASSUME IInv, TypeOK', ErasingOK', DoomedOK',
         UNCHANGED <<clients, buff, unmerged, erasing, life, fd, hand>>,
         \A s \in Servers : pc'[s] = "merge" <=> pc[s] = "merge",
         \A s \in Servers : pc[s] = "done" => pc'[s] = "done",
         pc'[Acceptor] # "scan" => pc[Acceptor] # "scan"
  PROVE  IInv'
<1>1. Live' = Live
  BY DEF Live
<1>2. \A s \in Servers, c \in Clients : Held(s, c)' <=> Held(s, c)
  BY DEF Held
<1>3. FdUnique' /\ Fresh' /\ HandOK'
  BY <1>1 DEF IInv, FdUnique, Fresh, HandOK
<1>4. MapLive' /\ QueueLive'
  BY <1>1 DEF IInv, MapLive, QueueLive
<1>5. MergeOK'
  BY <1>1 DEF IInv, MergeOK
<1>6. OwnerUnique' /\ HandFree' /\ Owned'
  <2>1. hand # NoClient => hand \in Clients
    BY DEF IInv, TypeOK
  <2> QED BY <1>1, <1>2, <2>1 DEF IInv, OwnerUnique, HandFree, Owned, Live
<1> QED BY <1>3, <1>4, <1>5, <1>6 DEF IInv

\* The invariant holds initially: nothing exists yet.
LEMMA OwnerInit == Init => IInv
<1> SUFFICES ASSUME Init PROVE IInv
  OBVIOUS
<1>1. TypeOK
  BY TypeInit
<1>2. Live = {}
  BY DEF Init, Live
<1>3. \A s \in Servers, f \in Fds : clients[s][f] = NoClient
  BY DEF Init
<1>4. FdUnique /\ HandOK /\ ErasingOK /\ DoomedOK
  BY <1>2, <1>3 DEF Init, FdUnique, HandOK, ErasingOK, DoomedOK
<1>5. Fresh /\ MapLive
  BY <1>2, <1>3, ConstantsAssumption DEF Init, Fresh, MapLive
<1>6. QueueLive /\ MergeOK
  BY <1>2 DEF Init, QueueLive, MergeOK
<1>7. OwnerUnique /\ HandFree /\ Owned
  BY <1>2 DEF Init, OwnerUnique, HandFree, Owned
<1> QED BY <1>1, <1>4, <1>5, <1>6, <1>7 DEF IInv

\* A live client in a map is under its own descriptor.
LEMMA MappedUnderFd ==
  ASSUME IInv, NEW s \in Servers, NEW f \in Fds, clients[s][f] \in Live
  PROVE  fd[clients[s][f]] = f
<1>1. f # erasing[s]
  BY ConstantsAssumption DEF IInv, ErasingOK, Live
<1>2. clients[s][f] # NoClient
  BY ConstantsAssumption DEF Live
<1> QED BY <1>1, <1>2 DEF IInv, MapLive

\* Accept keeps the invariant.
LEMMA AcceptKeeps ==
  ASSUME IInv, TypeOK', NEW c \in Clients, NEW f \in Fds, Accept(c, f)
  PROVE  IInv'
<1> USE ConstantsAssumption
<1> USE DEF Live, Held, Passes, Goto, Delete, Acceptor, Threads, cellVars,
        clientVars, scanVars, closeVars
<1>a. Live' = Live \cup {c} /\ c \notin Live
  BY DEF Accept, IInv, TypeOK
<1>b. \A d \in Live : fd'[d] = fd[d] /\ fd'[d] # f
  BY <1>a DEF Accept, IInv, TypeOK, OpenFds
<1>c. fd'[c] = f
  BY DEF Accept, IInv, TypeOK
<1>1. FdUnique'
  <2> HIDE DEF Live
  <2> QED BY <1>a, <1>b, <1>c DEF IInv, FdUnique
<1>2. Fresh'
  BY DEF IInv, TypeOK, Fresh, Accept
<1>3. HandOK'
  BY DEF IInv, TypeOK, HandOK, Accept
<1>4. ErasingOK'
  BY DEF IInv, ErasingOK, Accept
<1>5. DoomedOK'
  BY DEF IInv, DoomedOK, Accept
<1>6. MapLive'
  BY DEF IInv, MapLive, Accept
<1>7. QueueLive'
  BY DEF IInv, QueueLive, Accept
<1>8. MergeOK'
  BY DEF IInv, Fresh, MergeOK, Accept
<1>9. OwnerUnique'
  BY DEF IInv, TypeOK, Fresh, OwnerUnique, Accept
<1>10. HandFree'
  BY DEF IInv, TypeOK, Fresh, HandFree, Accept
<1>11. Owned'
  <2>1. hand = NoClient /\ hand' = c
    BY DEF Accept, IInv, HandOK
  <2>2. \A d \in Live : d # hand
    BY <2>1
  <2>3. \A d \in Live, s \in Servers : Held(s, d) => Held(s, d)'
    BY <1>b DEF Accept
  <2> HIDE DEF Live, Held
  <2> QED BY <1>a, <2>1, <2>2, <2>3 DEF IInv, Owned
<1> QED BY <1>1, <1>2, <1>3, <1>4, <1>5, <1>6, <1>7, <1>8, <1>9, <1>10, <1>11
        DEF IInv

\* AddClient keeps the invariant.
LEMMA AddClientKeeps ==
  ASSUME IInv, TypeOK', AddClient
  PROVE  IInv'
<1> USE ConstantsAssumption
<1> USE DEF Live, Held, Passes, Goto, Delete, Acceptor, Threads, cellVars,
        clientVars, scanVars, closeVars
<1>1. FdUnique'
  BY DEF IInv, FdUnique, AddClient
<1>2. Fresh'
  BY DEF IInv, Fresh, AddClient
<1>3. HandOK'
  BY DEF IInv, HandOK, AddClient
<1>4. ErasingOK'
  BY DEF IInv, ErasingOK, AddClient
<1>5. DoomedOK'
  BY DEF IInv, DoomedOK, AddClient
<1>6. MapLive'
  BY DEF IInv, MapLive, AddClient
<1>7. QueueLive'
  BY DEF IInv, TypeOK, HandOK, QueueLive, AddClient
<1>8. MergeOK'
  BY DEF IInv, MergeOK, HandFree, AddClient
<1>9. OwnerUnique'
  BY DEF IInv, OwnerUnique, HandFree, AddClient
<1>10. HandFree'
  BY DEF IInv, HandFree, AddClient
<1>11. Owned'
  BY DEF IInv, TypeOK, Owned, AddClient
<1> QED BY <1>1, <1>2, <1>3, <1>4, <1>5, <1>6, <1>7, <1>8, <1>9, <1>10, <1>11
        DEF IInv

\* LockBuff keeps the invariant.
LEMMA LockBuffKeeps ==
  ASSUME IInv, TypeOK', NEW s \in Servers, LockBuff(s)
  PROVE  IInv'
<1> USE ConstantsAssumption
<1> USE DEF Live, Held, Passes, Goto, Delete, Acceptor, Threads, cellVars,
        clientVars, scanVars, closeVars
<1>1. FdUnique'
  BY DEF IInv, FdUnique, LockBuff
<1>2. Fresh'
  BY DEF IInv, Fresh, LockBuff
<1>3. HandOK'
  BY DEF IInv, HandOK, LockBuff
<1>4. ErasingOK'
  BY DEF IInv, ErasingOK, LockBuff
<1>5. DoomedOK'
  BY DEF IInv, DoomedOK, LockBuff
<1>6. MapLive'
  BY DEF IInv, MapLive, LockBuff
<1>7. QueueLive'
  BY DEF IInv, QueueLive, LockBuff
<1>8. MergeOK'
  BY DEF IInv, TypeOK, MergeOK, LockBuff
<1>9. OwnerUnique'
  BY DEF IInv, OwnerUnique, LockBuff
<1>10. HandFree'
  BY DEF IInv, HandFree, LockBuff
<1>11. Owned'
  BY DEF IInv, Owned, LockBuff
<1> QED BY <1>1, <1>2, <1>3, <1>4, <1>5, <1>6, <1>7, <1>8, <1>9, <1>10, <1>11
        DEF IInv

\* MergeOne keeps the invariant.
LEMMA MergeOneKeeps ==
  ASSUME IInv, TypeOK', NEW s \in Servers, NEW c \in Clients, MergeOne(s, c)
  PROVE  IInv'
<1> USE ConstantsAssumption
<1> USE DEF Live, Held, Passes, Goto, Delete, Acceptor, Threads, cellVars,
        clientVars, scanVars, closeVars
<1>a. c \in Live /\ fd[c] \in Fds /\ c \in buff[s]
  BY DEF MergeOne, IInv, TypeOK, QueueLive, MergeOK, FdUnique
<1>b. clients' = [clients EXCEPT ![s][fd[c]] = c] /\ erasing[s] = NoFd
  BY DEF MergeOne, IInv, TypeOK, ErasingOK
<1>c. \A t \in Servers, f \in Fds :
         clients'[t][f] = IF t = s /\ f = fd[c] THEN c ELSE clients[t][f]
  BY <1>a, <1>b DEF IInv, TypeOK
<1>d. UNCHANGED <<pc, buff, erasing, life, fd>>
  BY DEF MergeOne
<1>1. FdUnique'
  BY DEF IInv, FdUnique, MergeOne
<1>2. Fresh'
  BY DEF IInv, Fresh, MergeOK, MergeOne
<1>3. HandOK'
  BY DEF IInv, HandOK, MergeOne
<1>4. ErasingOK'
  BY DEF IInv, ErasingOK, MergeOne
<1>5. DoomedOK'
  BY DEF IInv, DoomedOK, MergeOne
<1>6. MapLive'
  BY <1>a, <1>c, <1>d DEF IInv, MapLive
<1>7. QueueLive'
  BY DEF IInv, QueueLive, MergeOne
<1>8. MergeOK'
  <2>1. \A t \in Servers : unmerged'[t] = IF t = s THEN unmerged[s] \ {c}
                                                  ELSE unmerged[t]
    BY DEF MergeOne, IInv, TypeOK
  <2>2. \A d \in Live : fd[d] \in Fds /\ (fd[d] = fd[c] => d = c)
    BY <1>a DEF IInv, FdUnique
  <2>3. \A d \in Live, t \in Servers :
           clients'[t][fd[d]] = d <=> clients[t][fd[d]] = d \/ (t = s /\ d = c)
    BY <1>a, <1>c, <2>2 DEF IInv, MergeOK
  <2> QED BY <1>a, <1>d, <2>1, <2>3 DEF IInv, MergeOK, MergeOne
<1>9. OwnerUnique'
  BY DEF IInv, MergeOK, OwnerUnique, MergeOne
<1>10. HandFree'
  BY DEF IInv, MergeOK, HandFree, MergeOne
<1>11. Owned'
  BY DEF IInv, FdUnique, QueueLive, MergeOK, Owned, MergeOne
<1> QED BY <1>1, <1>2, <1>3, <1>4, <1>5, <1>6, <1>7, <1>8, <1>9, <1>10, <1>11
        DEF IInv

\* MergeDone keeps the invariant.
LEMMA MergeDoneKeeps ==
  ASSUME IInv, TypeOK', NEW s \in Servers, MergeDone(s)
  PROVE  IInv'
<1> USE ConstantsAssumption
<1> USE DEF Live, Held, Passes, Goto, Delete, Acceptor, Threads, cellVars,
        clientVars, scanVars, closeVars
<1>1. FdUnique'
  BY DEF IInv, FdUnique, MergeDone, Expired, Keys
<1>2. Fresh'
  BY DEF IInv, Fresh, MergeDone, Expired, Keys
<1>3. HandOK'
  BY DEF IInv, HandOK, MergeDone, Expired, Keys
<1>4. ErasingOK'
  BY DEF IInv, ErasingOK, MergeDone, Expired, Keys
<1>5. DoomedOK'
  BY DEF IInv, TypeOK, ErasingOK, DoomedOK, MergeDone, Expired, Keys
<1>6. MapLive'
  BY DEF IInv, MapLive, MergeDone, Expired, Keys
<1>7. QueueLive'
  BY DEF IInv, QueueLive, MergeDone, Expired, Keys
<1>8. MergeOK'
  BY DEF IInv, TypeOK, MergeOK, MergeDone, Expired, Keys
<1>9. OwnerUnique'
  BY DEF IInv, OwnerUnique, MergeDone, Expired, Keys
<1>10. HandFree'
  BY DEF IInv, HandFree, MergeDone, Expired, Keys
<1>11. Owned'
  BY DEF IInv, MergeOK, Owned, MergeDone, Expired, Keys
<1> QED BY <1>1, <1>2, <1>3, <1>4, <1>5, <1>6, <1>7, <1>8, <1>9, <1>10, <1>11
        DEF IInv

\* Leave keeps the invariant.
LEMMA LeaveKeeps ==
  ASSUME IInv, TypeOK', NEW s \in Servers, NEW f \in Fds, Leave(s, f)
  PROVE  IInv'
<1> USE ConstantsAssumption
<1> USE DEF Live, Held, Passes, Goto, Delete, Acceptor, Threads, cellVars,
        clientVars, scanVars, closeVars
<1>1. FdUnique'
  BY DEF IInv, FdUnique, Leave
<1>2. Fresh'
  BY DEF IInv, Fresh, Leave
<1>3. HandOK'
  BY DEF IInv, HandOK, MapLive, HandFree, Leave
<1>4. ErasingOK'
  BY DEF IInv, TypeOK, ErasingOK, DoomedOK, Leave
<1>5. DoomedOK'
  BY DEF IInv, TypeOK, DoomedOK, Leave
<1>6. MapLive'
  BY DEF IInv, TypeOK, MapLive, OwnerUnique, Leave
<1>7. QueueLive'
  BY DEF IInv, MapLive, QueueLive, MergeOK, OwnerUnique, Leave
<1>8. MergeOK'
  BY DEF IInv, MergeOK, Leave
<1>9. OwnerUnique'
  BY DEF IInv, OwnerUnique, Leave
<1>10. HandFree'
  BY DEF IInv, HandFree, Leave
<1>11. Owned'
  BY DEF IInv, Owned, Leave
<1> QED BY <1>1, <1>2, <1>3, <1>4, <1>5, <1>6, <1>7, <1>8, <1>9, <1>10, <1>11
        DEF IInv

\* Erase keeps the invariant.
LEMMA EraseKeeps ==
  ASSUME IInv, TypeOK', NEW s \in Servers, Erase(s)
  PROVE  IInv'
<1> USE ConstantsAssumption
<1> USE DEF Live, Held, Passes, Goto, Delete, Acceptor, Threads, cellVars,
        clientVars, scanVars, closeVars
<1>1. FdUnique'
  BY DEF IInv, FdUnique, Erase
<1>2. Fresh'
  BY DEF IInv, Fresh, Erase
<1>3. HandOK'
  BY DEF IInv, HandOK, Erase
<1>4. ErasingOK'
  BY DEF IInv, TypeOK, ErasingOK, Erase
<1>5. DoomedOK'
  BY DEF IInv, TypeOK, DoomedOK, Erase
<1>6. MapLive'
  BY DEF IInv, TypeOK, MapLive, Erase
<1>7. QueueLive'
  BY DEF IInv, QueueLive, Erase
<1>8. MergeOK'
  BY DEF IInv, ErasingOK, MergeOK, Erase
<1>9. OwnerUnique'
  BY DEF IInv, OwnerUnique, Erase
<1>10. HandFree'
  BY DEF IInv, HandFree, Erase
<1>11. Owned'
  BY DEF IInv, ErasingOK, Owned, Erase
<1> QED BY <1>1, <1>2, <1>3, <1>4, <1>5, <1>6, <1>7, <1>8, <1>9, <1>10, <1>11
        DEF IInv

\* CleanMap keeps the invariant.
LEMMA CleanMapKeeps ==
  ASSUME IInv, TypeOK', NEW s \in Servers, CleanMap(s)
  PROVE  IInv'
<1> USE ConstantsAssumption
<1> USE DEF Live, Held, Passes, Goto, Delete, Acceptor, Threads, cellVars,
        clientVars, scanVars, closeVars
<1>a. \A d \in Live : clients[s][fd[d]] # d => d \in Live'
  BY MappedUnderFd DEF CleanMap, Keys
<1>b. \A d \in Live : ~Held(s, d) => d \in Live'
  BY <1>a
<1>1. FdUnique'
  BY DEF IInv, FdUnique, CleanMap, Keys
<1>2. Fresh'
  BY DEF IInv, Fresh, CleanMap, Keys
<1>3. HandOK'
  BY <1>b DEF IInv, HandOK, HandFree, CleanMap
<1>4. ErasingOK'
  BY DEF IInv, ErasingOK, CleanMap, Keys
<1>5. DoomedOK'
  BY DEF IInv, DoomedOK, CleanMap, Keys
<1>6. MapLive'
  <2>1. SUFFICES ASSUME NEW t \in Servers, NEW f \in Fds,
                        clients'[t][f] # NoClient, f # erasing'[t]
                 PROVE  clients'[t][f] \in Live' /\ fd'[clients'[t][f]] = f
    BY DEF MapLive
  <2>2. t # s /\ clients'[t][f] = clients[t][f]
    BY <2>1 DEF CleanMap, IInv, TypeOK
  <2>3. clients[t][f] \in Live /\ fd[clients[t][f]] = f
    BY <2>1, <2>2 DEF CleanMap, IInv, MapLive
  <2>4. ~Held(s, clients[t][f])
    BY <2>2, <2>3 DEF IInv, OwnerUnique
  <2> QED BY <1>b, <2>2, <2>3, <2>4 DEF CleanMap
<1>7. QueueLive'
  <2>1. SUFFICES ASSUME NEW t \in Servers, pc'[t] # "done", NEW c \in buff[t]
                 PROVE  c \in Live'
    BY DEF QueueLive, CleanMap
  <2>2. pc[t] # "done" /\ pc[s] # "merge"
    BY <2>1 DEF CleanMap, IInv, TypeOK
  <2>3. c \in Live
    BY <2>2 DEF IInv, QueueLive
  <2>4. clients[s][fd[c]] # c
    BY <2>2, <2>3 DEF IInv, MergeOK, OwnerUnique
  <2> QED BY <1>a, <2>3, <2>4
<1>8. MergeOK'
  BY DEF IInv, FdUnique, MergeOK, CleanMap, Keys
<1>9. OwnerUnique'
  BY DEF IInv, FdUnique, OwnerUnique, CleanMap, Keys
<1>10. HandFree'
  BY DEF IInv, FdUnique, HandOK, HandFree, CleanMap, Keys
<1>11. Owned'
  BY DEF IInv, FdUnique, Owned, CleanMap, Keys
<1> QED BY <1>1, <1>2, <1>3, <1>4, <1>5, <1>6, <1>7, <1>8, <1>9, <1>10, <1>11
        DEF IInv

\* CleanBuff keeps the invariant.
LEMMA CleanBuffKeeps ==
  ASSUME IInv, TypeOK', NEW s \in Servers, CleanBuff(s)
  PROVE  IInv'
<1> USE ConstantsAssumption
<1> USE DEF Live, Held, Passes, Goto, Delete, Acceptor, Threads, cellVars,
        clientVars, scanVars, closeVars
<1>1. FdUnique'
  BY DEF IInv, FdUnique, CleanBuff
<1>2. Fresh'
  BY DEF IInv, Fresh, CleanBuff
<1>3. HandOK'
  BY DEF IInv, HandOK, HandFree, CleanBuff
<1>4. ErasingOK'
  BY DEF IInv, ErasingOK, CleanBuff
<1>5. DoomedOK'
  BY DEF IInv, DoomedOK, CleanBuff
<1>6. MapLive'
  BY DEF IInv, MapLive, MergeOK, OwnerUnique, CleanBuff
<1>7. QueueLive'
  BY DEF IInv, TypeOK, QueueLive, OwnerUnique, CleanBuff
<1>8. MergeOK'
  BY DEF IInv, MergeOK, CleanBuff
<1>9. OwnerUnique'
  BY DEF IInv, OwnerUnique, CleanBuff
<1>10. HandFree'
  BY DEF IInv, HandFree, CleanBuff
<1>11. Owned'
  BY DEF IInv, Owned, CleanBuff
<1> QED BY <1>1, <1>2, <1>3, <1>4, <1>5, <1>6, <1>7, <1>8, <1>9, <1>10, <1>11
        DEF IInv

\* A pass that starts chooses what it will remove among the entries of the
\* map, none of which is being erased.
LEMMA PassStarts ==
  ASSUME IInv, TypeOK', NEW s \in Servers, NEW S \in SUBSET Keys(s),
         NEW label \in Passes, PassOver(s), pc[s] \notin {"merge", "done"},
         doomed' = [doomed EXCEPT ![s] = S], pc' = [pc EXCEPT ![s] = label],
         \A t \in Servers : t # s => change'[t] = change[t],
         UNCHANGED <<clients, buff, unmerged, erasing, life, fd, hand>>
  PROVE  IInv'
<1> USE DEF PassOver, Passes
<1>1. \A t \in Servers :
        /\ pc'[t] = IF t = s THEN label ELSE pc[t]
        /\ doomed'[t] = IF t = s THEN S ELSE doomed[t]
  BY DEF IInv, TypeOK, Threads
<1>2. pc'[Acceptor] = pc[Acceptor]
  BY ConstantsAssumption DEF IInv, TypeOK, Threads, Servers, Acceptor
<1>3. ErasingOK'
  BY <1>1 DEF IInv, ErasingOK
<1>4. \A f \in S : clients[s][f] # NoClient /\ f # NoFd
  BY ConstantsAssumption DEF Keys
<1>5. DoomedOK'
  BY <1>1, <1>4 DEF IInv, DoomedOK
<1> QED BY <1>1, <1>2, <1>3, <1>5, Quiet

\* Every step keeps the invariant.
LEMMA OwnerStep == IInv /\ [Next]_vars => IInv'
<1> SUFFICES ASSUME IInv, [Next]_vars PROVE IInv'
  OBVIOUS
<1>t. TypeOK'
  BY TypeStep DEF IInv
<1> USE DEF Goto, cellVars, clientVars, scanVars, closeVars, Acceptor, Threads,
        Passes
<1>0. TypeOK /\ ErasingOK /\ DoomedOK /\ HandOK
  BY DEF IInv
<1>1. CASE Close
  BY <1>1, <1>t, <1>0, Quiet DEF Close, ErasingOK, DoomedOK
<1>2. ASSUME NEW c \in Clients, NEW f \in Fds, Accept(c, f) PROVE IInv'
  BY <1>2, <1>t, AcceptKeeps
<1>3. CASE AcceptSelectFails
  BY <1>3, <1>t, <1>0, Quiet
     DEF AcceptSelectFails, TypeOK, Servers, ErasingOK, DoomedOK
<1>4. CASE ReadSize
  BY <1>4, <1>t, <1>0, Quiet DEF ReadSize, ErasingOK, DoomedOK
<1>5. CASE Compare
  BY <1>5, <1>t, <1>0, Quiet DEF Compare, ErasingOK, DoomedOK
<1>6. CASE AddClient
  BY <1>6, <1>t, AddClientKeeps
<1>7. CASE AcceptStop
  BY <1>7, <1>t, <1>0, Quiet
     DEF AcceptStop, TypeOK, Servers, ErasingOK, DoomedOK
<1>8. ASSUME NEW t \in Threads, Exit(t) PROVE IInv'
  BY <1>8, <1>t, <1>0, Quiet DEF Exit, TypeOK, Servers, ErasingOK, DoomedOK
<1>9. CASE CloseStep
  BY <1>9, <1>t, <1>0, Quiet
     DEF CloseStep, CloseThread, ThreadEnded, CloseDone, ErasingOK, DoomedOK
<1>10. ASSUME NEW s \in Servers, CellStep(s) PROVE IInv'
  <2>1. CASE Stop(s)
    BY <2>1, <1>t, <1>0, Quiet DEF Stop, TypeOK, Servers, ErasingOK, DoomedOK
  <2>2. CASE LockBuff(s)
    BY <2>2, <1>t, LockBuffKeeps
  <2>3. ASSUME NEW c \in Clients, MergeOne(s, c) PROVE IInv'
    BY <2>3, <1>t, MergeOneKeeps
  <2>4. CASE MergeDone(s)
    BY <2>4, <1>t, MergeDoneKeeps
  <2>5. CASE SkipMerge(s)
    <3>1. PassOver(s)
      BY <2>5, <1>0 DEF SkipMerge, PassOver, ErasingOK, DoomedOK
    <3>2. PICK S \in SUBSET Keys(s) : doomed' = [doomed EXCEPT ![s] = S]
      BY <2>5 DEF SkipMerge, Expired, Keys
    <3> QED BY <2>5, <1>t, <3>1, <3>2, PassStarts DEF SkipMerge
  <2>6. ASSUME NEW f \in Fds, Leave(s, f) PROVE IInv'
    BY <2>6, <1>t, LeaveKeeps
  <2>7. CASE Erase(s)
    BY <2>7, <1>t, EraseKeeps
  <2>8. CASE TimeDone(s)
    BY <2>8, <1>t, <1>0, Quiet
       DEF TimeDone, PassOver, TypeOK, Servers, ErasingOK, DoomedOK
  <2>9. CASE Select(s)
    <3>1. PassOver(s)
      BY <2>9, <1>0 DEF Select, PassOver, ErasingOK, DoomedOK
    <3>2. PICK S \in SUBSET Keys(s) : doomed' = [doomed EXCEPT ![s] = S]
      BY <2>9 DEF Select, Keys
    <3>3. \A t \in Servers : t # s => change'[t] = change[t]
      BY <2>9, <1>0 DEF Select, TypeOK
    <3> QED BY <2>9, <1>t, <3>1, <3>2, <3>3, PassStarts DEF Select
  <2>10. CASE SelectFails(s)
    BY <2>10, <1>t, <1>0, Quiet
       DEF SelectFails, TypeOK, Servers, ErasingOK, DoomedOK
  <2>11. CASE ReadDone(s)
    <3>1. PICK S \in SUBSET Keys(s) : doomed' = [doomed EXCEPT ![s] = S]
      BY <2>11 DEF ReadDone, Keys
    <3> QED BY <2>11, <1>t, <3>1, PassStarts DEF ReadDone
  <2>12. CASE WriteDone(s)
    BY <2>12, <1>t, <1>0, Quiet
       DEF WriteDone, PassOver, TypeOK, Servers, ErasingOK, DoomedOK
  <2>13. CASE Exit(s)
    BY <2>13, <1>8
  <2>14. CASE CleanMap(s)
    BY <2>14, <1>t, CleanMapKeeps
  <2>15. CASE CleanBuff(s)
    BY <2>15, <1>t, CleanBuffKeeps
  <2> QED BY <1>10, <2>1, <2>2, <2>3, <2>4, <2>5, <2>6, <2>7, <2>8, <2>9,
             <2>10, <2>11, <2>12, <2>13, <2>14, <2>15 DEF CellStep
<1>11. CASE UNCHANGED vars
  BY <1>11, <1>t, <1>0, Quiet DEF vars, ErasingOK, DoomedOK
<1> QED BY <1>1, <1>2, <1>3, <1>4, <1>5, <1>6, <1>7, <1>8, <1>9, <1>10, <1>11
        DEF Next, Environment, AcceptStep

\* The inductive invariant is an invariant.
LEMMA IInvCorrect == Spec => []IInv
  BY OwnerInit, OwnerStep, PTL DEF Spec

\* For a live client, the holders of OneOwner are the servers it is held by.
LEMMA HoldersHold ==
  ASSUME IInv, NEW c \in Live, NEW s \in Servers
  PROVE  s \in Holders(c) <=> Held(s, c)
<1>1. fd[c] \in Fds /\ c # NoClient
  BY ConstantsAssumption DEF IInv, FdUnique, Live
<1>2. InMap(s, c) => clients[s][fd[c]] = c
  BY MappedUnderFd DEF InMap, Keys
<1>3. clients[s][fd[c]] = c => InMap(s, c)
  <2>1. clients[s][fd[c]] = c => fd[c] # erasing[s]
    BY <1>1, ConstantsAssumption DEF IInv, ErasingOK, Live
  <2> QED BY <1>1, <2>1 DEF InMap, Keys
<1> QED BY <1>2, <1>3 DEF Holders, InBuff, Held

\* A live client is in the hand of the accept thread or held by one server.
LEMMA OwnerImplied == IInv => OneOwner
<1> SUFFICES ASSUME IInv, NEW c \in Live
             PROVE  IF hand = c THEN Holders(c) = {}
                    ELSE \E s \in Servers : Holders(c) = {s}
  BY DEF OneOwner
<1>1. Holders(c) \subseteq Servers
  BY DEF Holders
<1>2. c # NoClient
  BY ConstantsAssumption DEF Live
<1>3. CASE hand = c
  BY <1>1, <1>2, <1>3, HoldersHold DEF IInv, HandFree
<1>4. CASE hand # c
  <2>1. PICK s \in Servers : Held(s, c)
    BY <1>4 DEF IInv, Owned
  <2>2. \A t \in Servers : Held(t, c) => t = s
    BY <2>1 DEF IInv, OwnerUnique
  <2> QED BY <1>1, <1>4, <2>1, <2>2, HoldersHold
<1> QED BY <1>3, <1>4

\* No client is leaked or held twice, whatever the interleaving of the accept
\* thread, the message threads and Close.
THEOREM OneOwnerCorrect == Spec => []OneOwner
  BY IInvCorrect, OwnerImplied, PTL

\* No map entry and no queued pointer dangles while its thread has not ended.
THEOREM NoDanglingCorrect == Spec => []NoDangling
<1>1. IInv => NoDangling
  BY DEF IInv, NoDangling
<1> QED BY <1>1, IInvCorrect, PTL

-----------------------------------------------------------------------------
(***************************************************************************)
(* The server implements ClientOwnership.                                  *)
(***************************************************************************)

\* Who holds a client, in the terms of the inductive invariant.
HeldByHolders ==
  /\ HeldBy(Acceptor) = {c \in Live : hand = c}
  /\ \A s \in Servers : HeldBy(s) = {c \in Live : Held(s, c)}

LEMMA NotAServer == Acceptor \notin Servers
  BY ConstantsAssumption DEF Acceptor, Servers

LEMMA HeldByIs == IInv => HeldByHolders
<1> SUFFICES ASSUME IInv PROVE HeldByHolders
  OBVIOUS
<1>1. Acceptor \notin Servers
  BY NotAServer
<1>2. \A s \in Servers : HeldBy(s) = {c \in Live : s \in Holders(c)}
  BY <1>1 DEF HeldBy
<1> QED BY <1>1, <1>2, HoldersHold DEF HeldBy, HeldByHolders

\* Whoever holds a client, it is live, and a live client is held.
LEMMA OpenIsLive == IInv => Ownership!Open = Live
<1> SUFFICES ASSUME IInv PROVE Ownership!Open = Live
  OBVIOUS
<1>1. Ownership!Open = UNION {HeldBy(t) : t \in Threads}
  BY DEF Ownership!Open, Threads
<1>2. \A t \in Threads : HeldBy(t) \subseteq Live
  BY DEF HeldBy
<1>3. \A c \in Live : \E t \in Threads : c \in HeldBy(t)
  BY HeldByIs DEF HeldByHolders, IInv, Owned, Threads
<1> QED BY <1>1, <1>2, <1>3

\* A step after which everybody holds what he held before.
LEMMA NobodyMoves ==
  ASSUME IInv, IInv', UNCHANGED <<life, fd, hand>>,
         \A s \in Servers, c \in Live : Held(s, c)' <=> Held(s, c)
  PROVE  UNCHANGED Ownership!ownershipVars
<1>h. HeldByHolders /\ HeldByHolders'
  BY HeldByIs, PTL
<1>1. Live' = Live
  BY DEF Live
<1>2. HeldBy(Acceptor)' = HeldBy(Acceptor)
  BY <1>1, <1>h DEF HeldByHolders
<1>3. \A s \in Servers : HeldBy(s)' = HeldBy(s)
  <2> SUFFICES ASSUME NEW s \in Servers PROVE HeldBy(s)' = HeldBy(s)
    OBVIOUS
  <2>1. HeldBy(s) = {c \in Live : Held(s, c)}
    BY <1>h DEF HeldByHolders
  <2>2. HeldBy(s)' = {c \in Live' : Held(s, c)'}
    BY <1>h DEF HeldByHolders
  <2> QED BY <1>1, <2>1, <2>2
<1>4. \A t \in Threads : HeldBy(t)' = HeldBy(t)
  BY <1>2, <1>3 DEF Threads
<1> QED BY <1>4 DEF Ownership!ownershipVars

\* A step that deletes clients of one server and moves no other.
LEMMA DeletesOwn ==
  ASSUME IInv, IInv', NEW s \in Servers, NEW S \in SUBSET HeldBy(s), Delete(S),
         UNCHANGED <<fd, hand>>,
         \A t \in Servers, c \in Live \ S : Held(t, c)' <=> Held(t, c)
  PROVE  Ownership!DeleteOwn(s, S)
<1>h. HeldByHolders /\ HeldByHolders'
  BY HeldByIs, PTL
<1>1. S \subseteq Live
  BY DEF HeldBy
<1>2. /\ Live' = Live \ S
      /\ {c \in Clients : life[c] = "deleted"}'
           = {c \in Clients : life[c] = "deleted"} \cup S
  BY <1>1 DEF Delete, Live
<1>3. \A t \in Servers : HeldBy(t) = {c \in Live : Held(t, c)}
  BY <1>h DEF HeldByHolders
<1>4. \A t \in Servers : HeldBy(t)' = {c \in Live' : Held(t, c)'}
  BY <1>h DEF HeldByHolders
<1>5. HeldBy(s)' = HeldBy(s) \ S
  BY <1>1, <1>2, <1>3, <1>4
<1>6. \A c \in S : Held(s, c)
  BY <1>3
<1>7. \A t \in Servers : t # s => HeldBy(t)' = HeldBy(t)
  <2> SUFFICES ASSUME NEW t \in Servers, t # s PROVE HeldBy(t)' = HeldBy(t)
    OBVIOUS
  <2>1. \A c \in S : ~Held(t, c)
    BY <1>1, <1>6 DEF IInv, OwnerUnique
  <2> QED BY <1>1, <1>2, <1>3, <1>4, <2>1
<1>8. HeldBy(Acceptor)' = HeldBy(Acceptor)
  <2>1. hand \notin S
    BY <1>1, <1>6, ConstantsAssumption DEF IInv, HandFree, Live
  <2> QED BY <1>1, <1>2, <2>1, <1>h DEF HeldByHolders
<1>9. \A t \in Threads : HeldBy(t)' = IF t = s THEN HeldBy(t) \ S ELSE HeldBy(t)
  BY <1>5, <1>7, <1>8, NotAServer DEF Threads
<1> QED BY <1>2, <1>9 DEF Ownership!DeleteOwn, Threads

\* The accept thread creates a client when it holds none.
LEMMA AcceptCreates ==
  ASSUME IInv, IInv', NEW c \in Clients, NEW f \in Fds, Accept(c, f)
  PROVE  Ownership!Create(c, f)
<1>h. HeldByHolders /\ HeldByHolders'
  BY HeldByIs, PTL
<1> USE DEF Goto, cellVars, clientVars, scanVars, closeVars
<1>1. Live' = Live \cup {c} /\ c \notin Live
  BY DEF Accept, IInv, TypeOK, Live
<1>2. \A d \in Live : fd[d] # f
  BY DEF Accept, OpenFds
<1>3. hand = NoClient /\ hand' = c
  BY DEF Accept, IInv, HandOK
<1>4. HeldBy(Acceptor) = {} /\ HeldBy(Acceptor)' = {c}
  BY <1>1, <1>3, <1>h, ConstantsAssumption DEF HeldByHolders, Live
<1>5. \A s \in Servers : HeldBy(s)' = HeldBy(s)
  <2> SUFFICES ASSUME NEW s \in Servers PROVE HeldBy(s)' = HeldBy(s)
    OBVIOUS
  <2>1. ~Held(s, c)'
    BY <1>3, ConstantsAssumption DEF IInv, HandFree
  <2>2. \A d \in Live : Held(s, d)' <=> Held(s, d)
    BY <1>1 DEF Accept, Held, IInv, TypeOK, Live
  <2>3. HeldBy(s) = {d \in Live : Held(s, d)}
    BY <1>h DEF HeldByHolders
  <2>4. HeldBy(s)' = {d \in Live' : Held(s, d)'}
    BY <1>h DEF HeldByHolders
  <2> QED BY <1>1, <2>1, <2>2, <2>3, <2>4
<1>6. \A t \in Threads :
         HeldBy(t)' = IF t = Acceptor THEN {c} ELSE HeldBy(t)
  BY <1>4, <1>5, NotAServer DEF Threads
<1>7. c \notin Live \cup {d \in Clients : life[d] = "deleted"}
  BY <1>1 DEF Accept
<1>8. {d \in Clients : life[d] = "deleted"}' = {d \in Clients : life[d] = "deleted"}
  BY DEF Accept, IInv, TypeOK
<1>9. fd' = [fd EXCEPT ![c] = f]
  BY DEF Accept
<1> QED BY <1>2, <1>4, <1>6, <1>7, <1>8, <1>9, OpenIsLive
        DEF Ownership!Create, Threads

\* addClient gives the client in hand to the server that was chosen.
LEMMA AddClientHandsOver ==
  ASSUME IInv, IInv', AddClient
  PROVE  Ownership!HandOver(minServer)
<1>h. HeldByHolders /\ HeldByHolders'
  BY HeldByIs, PTL
<1> USE DEF Goto, cellVars, clientVars, scanVars, closeVars
<1>1. minServer \in Servers /\ UNCHANGED <<life, fd, clients>> /\ Live' = Live
  BY DEF AddClient, IInv, TypeOK, Live
<1>2. hand \in Live /\ hand' = NoClient
  BY ConstantsAssumption DEF AddClient, IInv, TypeOK, HandOK, Acceptor
<1>3. HeldBy(Acceptor) = {hand} /\ HeldBy(Acceptor)' = {}
  BY <1>1, <1>2, <1>h, ConstantsAssumption DEF HeldByHolders, Live
<1>4. \A s \in Servers, c \in Live :
         Held(s, c)' <=> Held(s, c) \/ (s = minServer /\ c = hand)
  BY <1>1, <1>2 DEF AddClient, Held, IInv, TypeOK
<1>5. \A s \in Servers :
         HeldBy(s)' = IF s = minServer THEN HeldBy(s) \cup {hand} ELSE HeldBy(s)
  <2> SUFFICES ASSUME NEW s \in Servers
               PROVE  HeldBy(s)' = IF s = minServer THEN HeldBy(s) \cup {hand}
                                                    ELSE HeldBy(s)
    OBVIOUS
  <2>1. HeldBy(s) = {d \in Live : Held(s, d)}
    BY <1>h DEF HeldByHolders
  <2>2. HeldBy(s)' = {d \in Live' : Held(s, d)'}
    BY <1>h DEF HeldByHolders
  <2> QED BY <1>1, <1>2, <1>4, <2>1, <2>2
<1>6. \A t \in Threads : HeldBy(t)' = IF t = minServer THEN HeldBy(t) \cup {hand}
                                      ELSE IF t = Acceptor THEN {} ELSE HeldBy(t)
  BY <1>1, <1>3, <1>5, NotAServer DEF Threads
<1> QED BY <1>1, <1>3, <1>6, NotAServer DEF Ownership!HandOver, Threads

\* Leave, CleanMap and CleanBuff delete clients of the server that runs them.
LEMMA LeaveDeletesOwn ==
  ASSUME IInv, IInv', NEW s \in Servers, NEW f \in Fds, Leave(s, f)
  PROVE  \E S \in SUBSET HeldBy(s) : Ownership!DeleteOwn(s, S)
<1>h. HeldByHolders
  BY HeldByIs
<1> USE DEF Goto, cellVars, clientVars, scanVars, closeVars
<1> DEFINE S == {clients[s][f]}
<1>1. clients[s][f] \in Live /\ fd[clients[s][f]] = f
  BY DEF Leave, IInv, DoomedOK, MapLive
<1>2. S \in SUBSET HeldBy(s)
  BY <1>1, <1>h DEF HeldByHolders, Held
<1>3. /\ Delete(S) /\ UNCHANGED <<fd, hand>>
      /\ \A t \in Servers, c \in Live \ S : Held(t, c)' <=> Held(t, c)
  BY DEF Leave, Held
<1> QED BY <1>2, <1>3, DeletesOwn

LEMMA CleanMapDeletesOwn ==
  ASSUME IInv, IInv', NEW s \in Servers, CleanMap(s)
  PROVE  \E S \in SUBSET HeldBy(s) : Ownership!DeleteOwn(s, S)
<1>h. HeldByHolders
  BY HeldByIs
<1> USE DEF Goto, cellVars, clientVars, scanVars, closeVars
<1> DEFINE S == {clients[s][f] : f \in Keys(s)}
<1>1. erasing[s] = NoFd
  BY DEF CleanMap, IInv, ErasingOK, Passes
<1>2. \A f \in Keys(s) : clients[s][f] \in Live /\ fd[clients[s][f]] = f
  BY <1>1, ConstantsAssumption DEF Keys, IInv, MapLive
<1>3. S \in SUBSET HeldBy(s)
  BY <1>2, <1>h DEF HeldByHolders, Held
<1>4. \A c \in Live \ S : clients[s][fd[c]] # c
  BY ConstantsAssumption DEF Keys, IInv, FdUnique, Live
<1>5. \A t \in Servers, c \in Live \ S : Held(t, c)' <=> Held(t, c)
  <2> SUFFICES ASSUME NEW t \in Servers, NEW c \in Live \ S
               PROVE  Held(t, c)' <=> Held(t, c)
    OBVIOUS
  <2>1. /\ fd[c] \in Fds /\ c # NoClient
        /\ clients'[t] = IF t = s THEN [f \in Fds |-> NoClient] ELSE clients[t]
    BY ConstantsAssumption DEF CleanMap, IInv, TypeOK, FdUnique, Live
  <2>2. UNCHANGED <<fd, buff>>
    BY DEF CleanMap
  <2> QED BY <1>4, <2>1, <2>2 DEF Held
<1>6. Delete(S) /\ UNCHANGED <<fd, hand>>
  BY DEF CleanMap
<1> QED BY <1>3, <1>5, <1>6, DeletesOwn

LEMMA CleanBuffDeletesOwn ==
  ASSUME IInv, IInv', NEW s \in Servers, CleanBuff(s)
  PROVE  \E S \in SUBSET HeldBy(s) : Ownership!DeleteOwn(s, S)
<1>h. HeldByHolders
  BY HeldByIs
<1> USE DEF Goto, cellVars, clientVars, scanVars, closeVars
<1>1. buff[s] \in SUBSET HeldBy(s)
  BY <1>h DEF CleanBuff, IInv, QueueLive, HeldByHolders, Held
<1>2. /\ Delete(buff[s]) /\ UNCHANGED <<fd, hand>>
      /\ \A t \in Servers, c \in Live \ buff[s] : Held(t, c)' <=> Held(t, c)
  BY DEF CleanBuff, Held
<1> QED BY <1>1, <1>2, DeletesOwn

\* Merging a client, the end of the merge and erasing an entry move nobody.
LEMMA MergeMovesNobody ==
  ASSUME IInv, IInv', NEW s \in Servers,
         (\E c \in Clients : MergeOne(s, c)) \/ MergeDone(s) \/ Erase(s)
  PROVE  UNCHANGED Ownership!ownershipVars
<1> USE DEF Goto, cellVars, clientVars, scanVars, closeVars
<1>0. \A d \in Live : d \in Clients /\ fd[d] \in Fds
  BY DEF IInv, FdUnique, Live
<1>1. ASSUME NEW c \in Clients, MergeOne(s, c)
      PROVE  UNCHANGED Ownership!ownershipVars
  <2>1. c \in Live /\ c \in buff[s] /\ fd[c] \in Fds
    BY <1>1 DEF MergeOne, IInv, QueueLive, MergeOK, FdUnique
  <2>2. \A t \in Servers, f \in Fds :
           clients'[t][f] = IF t = s /\ f = fd[c] THEN c ELSE clients[t][f]
    BY <1>1, <2>1 DEF MergeOne, IInv, TypeOK
  <2>3. UNCHANGED <<life, fd, hand, buff>>
    BY <1>1 DEF MergeOne
  <2>4. \A d \in Live : fd[d] = fd[c] => d = c
    BY <2>1 DEF IInv, FdUnique
  <2>5. clients[s][fd[c]] # c
    BY <1>1, <2>1 DEF MergeOne, IInv, MergeOK
  <2>6. ~(clients[s][fd[c]] \in Live)
    BY <2>1, <2>4, <2>5, MappedUnderFd
  <2>7. \A t \in Servers, d \in Live : Held(t, d)' <=> Held(t, d)
    BY <1>0, <2>1, <2>2, <2>3, <2>4, <2>6 DEF Held
  <2> QED BY <2>3, <2>7, NobodyMoves
<1>2. CASE MergeDone(s)
  <2>1. UNCHANGED <<life, fd, hand, clients>>
    BY <1>2 DEF MergeDone
  <2>2. \A d \in buff[s] \cap Live : clients[s][fd[d]] = d
    BY <1>2 DEF MergeDone, IInv, MergeOK
  <2>3. \A t \in Servers : buff'[t] = IF t = s THEN {} ELSE buff[t]
    BY <1>2 DEF MergeDone, IInv, TypeOK
  <2>4. \A t \in Servers, d \in Live : Held(t, d)' <=> Held(t, d)
    BY <2>1, <2>2, <2>3 DEF Held
  <2> QED BY <2>1, <2>4, NobodyMoves
<1>3. CASE Erase(s)
  <2>1. UNCHANGED <<life, fd, hand, buff>>
    BY <1>3 DEF Erase
  <2>2. ~(clients[s][erasing[s]] \in Live) /\ erasing[s] \in Fds
    BY <1>3 DEF Erase, IInv, TypeOK, ErasingOK, Live
  <2>3. \A t \in Servers, f \in Fds :
           clients'[t][f] = IF t = s /\ f = erasing[s] THEN NoClient
                                                       ELSE clients[t][f]
    BY <1>3, <2>2 DEF Erase, IInv, TypeOK
  <2>4. \A d \in Live : d # NoClient
    BY ConstantsAssumption DEF Live
  <2>5. \A t \in Servers, d \in Live : Held(t, d)' <=> Held(t, d)
    BY <1>0, <2>1, <2>2, <2>3, <2>4 DEF Held
  <2> QED BY <2>1, <2>5, NobodyMoves
<1> QED BY <1>1, <1>2, <1>3

\* The other steps touch neither the clients nor where they are held.
LEMMA OthersMoveNobody ==
  ASSUME IInv, IInv', UNCHANGED <<life, fd, hand, clients, buff>>
  PROVE  UNCHANGED Ownership!ownershipVars
BY NobodyMoves DEF Held

LEMMA OwnershipStep ==
  ASSUME IInv, IInv', [Next]_vars
  PROVE  [Ownership!OwnershipNext]_(Ownership!ownershipVars)
<1> USE DEF Goto, cellVars, clientVars, scanVars, closeVars
<1>1. CASE \E c \in Clients, f \in Fds : Accept(c, f)
  BY <1>1, AcceptCreates DEF Ownership!OwnershipNext
<1>2. CASE AddClient
  <2>1. minServer \in Servers
    BY DEF IInv, TypeOK
  <2> QED BY <1>2, <2>1, AddClientHandsOver DEF Ownership!OwnershipNext
<1>3. CASE Close \/ AcceptSelectFails \/ CloseStep
  BY <1>3, OthersMoveNobody
     DEF Close, AcceptSelectFails, CloseStep, CloseThread, ThreadEnded, CloseDone
<1>4. CASE ReadSize \/ Compare \/ AcceptStop \/ \E t \in Threads : Exit(t)
  BY <1>4, OthersMoveNobody DEF ReadSize, Compare, AcceptStop, Exit
<1>5. ASSUME NEW s \in Servers, CellStep(s)
      PROVE  [Ownership!OwnershipNext]_(Ownership!ownershipVars)
  <2>1. CASE \/ \E f \in Fds : Leave(s, f)
             \/ CleanMap(s) \/ CleanBuff(s)
    <3>1. \E S \in SUBSET HeldBy(s) : Ownership!DeleteOwn(s, S)
      BY <2>1, LeaveDeletesOwn, CleanMapDeletesOwn, CleanBuffDeletesOwn
    <3> QED BY <3>1 DEF Ownership!OwnershipNext, Threads
  <2>2. CASE (\E c \in Clients : MergeOne(s, c)) \/ MergeDone(s) \/ Erase(s)
    BY <2>2, MergeMovesNobody
  <2>3. CASE Stop(s) \/ LockBuff(s) \/ SkipMerge(s) \/ TimeDone(s) \/ Exit(s)
    BY <2>3, OthersMoveNobody DEF Stop, LockBuff, SkipMerge, TimeDone, Exit
  <2>4. CASE Select(s) \/ SelectFails(s) \/ ReadDone(s) \/ WriteDone(s)
    BY <2>4, OthersMoveNobody DEF Select, SelectFails, ReadDone, WriteDone
  <2> QED BY <1>5, <2>1, <2>2, <2>3, <2>4 DEF CellStep
<1>6. CASE UNCHANGED vars
  BY <1>6, OthersMoveNobody DEF vars
<1> QED BY <1>1, <1>2, <1>3, <1>4, <1>5, <1>6
        DEF Next, Environment, AcceptStep, Threads

\* A client goes from the accept thread to one message thread and is deleted
\* there, once, whatever fails and whenever Close comes.
THEOREM OwnershipCorrect == Spec => ImplementsOwnership
<1>1. Init => Ownership!OwnershipInit
  <2> SUFFICES ASSUME Init PROVE Ownership!OwnershipInit
    OBVIOUS
  <2>1. Live = {} /\ {c \in Clients : life[c] = "deleted"} = {}
    BY DEF Init, Live
  <2>2. \A t \in Threads : HeldBy(t) = {}
    BY <2>1 DEF HeldBy
  <2> QED BY <2>1, <2>2 DEF Init, Ownership!OwnershipInit, Threads
<1>2. IInv /\ IInv' /\ [Next]_vars
        => [Ownership!OwnershipNext]_(Ownership!ownershipVars)
  BY OwnershipStep
<1> QED BY <1>1, <1>2, IInvCorrect, PTL
        DEF Spec, ImplementsOwnership, Ownership!OwnershipSpec

-----------------------------------------------------------------------------
(***************************************************************************)
(* Map entries are not overwritten.                                        *)
(***************************************************************************)

\* The merge finds the place of a new client free: the descriptor of a live
\* client names no other live client, and nothing is being erased.
LEMMA MergeFindsFree ==
  ASSUME IInv, NEW s \in Servers, NEW c \in Clients, MergeOne(s, c)
  PROVE  fd[c] \in Fds /\ clients[s][fd[c]] = NoClient
<1>1. c \in buff[s] /\ c \in Live /\ pc[s] = "merge" /\ c \in unmerged[s]
  BY DEF MergeOne, IInv, QueueLive, MergeOK
<1>2. fd[c] \in Fds /\ clients[s][fd[c]] # c
  BY <1>1 DEF IInv, FdUnique, MergeOK
<1>3. erasing[s] = NoFd
  BY <1>1 DEF IInv, ErasingOK, Passes
<1>4. fd[c] # NoFd
  BY <1>2, ConstantsAssumption
<1>5. clients[s][fd[c]] # NoClient =>
         clients[s][fd[c]] \in Live /\ fd[clients[s][fd[c]]] = fd[c]
  BY <1>2, <1>3, <1>4 DEF IInv, MapLive
<1> QED BY <1>1, <1>2, <1>5 DEF IInv, FdUnique

\* No step replaces one client of a map by another.
LEMMA OverwriteStep ==
  ASSUME IInv, [Next]_vars, NEW s \in Servers, NEW f \in Fds,
         clients[s][f] # NoClient
  PROVE  clients'[s][f] \in {clients[s][f], NoClient}
<1> USE DEF cellVars, clientVars, scanVars, closeVars
<1>0. clients \in [Servers -> [Fds -> Clients \cup {NoClient}]]
  BY DEF IInv, TypeOK
<1>1. CASE UNCHANGED clients
  BY <1>1
<1>2. ASSUME NEW t \in Servers, NEW c \in Clients, MergeOne(t, c)
      PROVE  clients'[s][f] \in {clients[s][f], NoClient}
  <2>1. fd[c] \in Fds /\ clients[t][fd[c]] = NoClient
    BY <1>2, MergeFindsFree
  <2> QED BY <1>0, <1>2, <2>1 DEF MergeOne
<1>3. ASSUME NEW t \in Servers, Erase(t)
      PROVE  clients'[s][f] \in {clients[s][f], NoClient}
  BY <1>0, <1>3 DEF Erase
<1>4. ASSUME NEW t \in Servers, CleanMap(t)
      PROVE  clients'[s][f] \in {clients[s][f], NoClient}
  BY <1>0, <1>4 DEF CleanMap
<1>5. ASSUME NEW t \in Servers, CellStep(t), clients' # clients
      PROVE  Erase(t) \/ CleanMap(t) \/ \E c \in Clients : MergeOne(t, c)
  BY <1>5 DEF CellStep, Stop, LockBuff, MergeDone, SkipMerge, Leave, TimeDone,
          Select, SelectFails, ReadDone, WriteDone, Exit, CleanBuff
<1>6. ASSUME Environment \/ AcceptStep \/ CloseStep
      PROVE  UNCHANGED clients
  BY <1>6 DEF Environment, AcceptStep, CloseStep, Close, Accept,
          AcceptSelectFails, ReadSize, Compare, AddClient, AcceptStop, Exit,
          CloseThread, ThreadEnded, CloseDone
<1> QED BY <1>1, <1>2, <1>3, <1>4, <1>5, <1>6 DEF Next, vars

\* A map entry changes only by being erased.
THEOREM NoOverwriteCorrect == Spec => NoOverwrite
<1>1. IInv /\ [Next]_vars =>
        [\A s \in Servers, f \in Fds :
           clients[s][f] # NoClient =>
              clients'[s][f] \in {clients[s][f], NoClient}]_vars
  BY OverwriteStep
<1> QED BY <1>1, IInvCorrect, PTL DEF Spec, NoOverwrite

-----------------------------------------------------------------------------
(***************************************************************************)
(* The cached read set.                                                    *)
(***************************************************************************)

\* Every step keeps the cache coherent.
LEMMA CacheStep == IInv /\ FdCacheCoherent /\ [Next]_vars => FdCacheCoherent'
<1> SUFFICES ASSUME IInv, FdCacheCoherent, [Next]_vars, NEW s \in Servers,
                    Working(s)', pc'[s] # "merge", ~change'[s]
             PROVE  bak'[s] = Keys(s)' /\ erasing'[s] = NoFd
  BY DEF FdCacheCoherent
<1> USE DEF Goto, cellVars, clientVars, scanVars, closeVars, Working, Keys,
        Acceptor, Threads, Servers
<1>0. TypeOK
  BY DEF IInv
<1>1. ASSUME pc[s] # "merge", Working(s), ~change[s],
             UNCHANGED <<bak, clients, erasing>>
      PROVE  bak'[s] = Keys(s)' /\ erasing'[s] = NoFd
  BY <1>1 DEF FdCacheCoherent
<1>2. ASSUME Environment \/ AcceptStep \/ CloseStep \/ UNCHANGED vars
      PROVE  /\ pc'[s] = pc[s]
             /\ UNCHANGED <<bak, clients, erasing, change>>
  BY <1>2, <1>0 DEF Environment, AcceptStep, CloseStep, Close, Accept,
          AcceptSelectFails, ReadSize, Compare, AddClient, AcceptStop, Exit,
          CloseThread, ThreadEnded, CloseDone, vars, TypeOK
<1>3. ASSUME NEW t \in Servers, CellStep(t), t # s
      PROVE  /\ pc'[s] = pc[s] /\ bak'[s] = bak[s] /\ clients'[s] = clients[s]
             /\ erasing'[s] = erasing[s] /\ change'[s] = change[s]
  BY <1>3, <1>0 DEF CellStep, Stop, LockBuff, MergeOne, MergeDone, SkipMerge,
          Leave, Erase, TimeDone, Select, SelectFails, ReadDone, WriteDone,
          Exit, CleanMap, CleanBuff, TypeOK
<1>4. CASE CellStep(s)
  <2>1. CASE Select(s) \/ SelectFails(s)
    <3>1. erasing[s] = NoFd
      BY <2>1 DEF IInv, ErasingOK, Passes, Select, SelectFails
    <3>2. bak'[s] = ReadSet(s) /\ clients' = clients /\ erasing' = erasing
      BY <2>1, <1>0 DEF Select, SelectFails, TypeOK
    <3>3. ReadSet(s) = Keys(s)
      BY <2>1 DEF ReadSet, FdCacheCoherent, Select, SelectFails
    <3> QED BY <3>1, <3>2, <3>3
  <2>2. CASE Erase(s)
    BY <2>2 DEF Erase, IInv, ErasingOK
  <2>3. CASE MergeDone(s) \/ \E f \in Fds : Leave(s, f)
    BY <2>3, <1>0 DEF MergeDone, Leave, TypeOK
  <2>4. CASE LockBuff(s) \/ CleanMap(s) \/ CleanBuff(s)
             \/ \E c \in Clients : MergeOne(s, c)
    BY <2>4, <1>0 DEF LockBuff, CleanMap, CleanBuff, MergeOne, TypeOK
  <2>5. CASE Stop(s) \/ SkipMerge(s) \/ TimeDone(s) \/ ReadDone(s)
             \/ WriteDone(s) \/ Exit(s)
    BY <2>5, <1>0, <1>1 DEF Stop, SkipMerge, TimeDone, ReadDone, WriteDone,
            Exit, TypeOK
  <2> QED BY <1>4, <2>1, <2>2, <2>3, <2>4, <2>5 DEF CellStep
<1>5. CASE Environment \/ AcceptStep \/ CloseStep \/ UNCHANGED vars
  BY <1>5, <1>1, <1>2
<1>6. ASSUME NEW t \in Servers, CellStep(t), t # s
      PROVE  bak'[s] = Keys(s)' /\ erasing'[s] = NoFd
  BY <1>3, <1>6 DEF FdCacheCoherent
<1> QED BY <1>4, <1>5, <1>6 DEF Next

\* The read set select is given from the cache is the key set of the map.
THEOREM FdCacheCorrect == Spec => []FdCacheCoherent
<1>1. Init => FdCacheCoherent
  BY DEF Init, FdCacheCoherent
<1> QED BY <1>1, CacheStep, IInvCorrect, PTL DEF Spec

-----------------------------------------------------------------------------
(***************************************************************************)
(* The client count.                                                       *)
(***************************************************************************)

\* The entries of all maps are finitely many.
LEMMA EntriesFinite == IsFiniteSet(Entries)
<1>1. IsFiniteSet(Servers)
  BY FS_Interval, ConstantsAssumption DEF Servers
<1>2. IsFiniteSet(Servers \X Fds)
  BY <1>1, FS_Product, ConstantsAssumption
<1>3. Entries \subseteq Servers \X Fds
  BY DEF Entries
<1> QED BY <1>2, <1>3, FS_Subset

\* A server that has cleaned its map never works again.
LEMMA WorkingEnds ==
  ASSUME TypeOK, [Next]_vars, NEW s \in Servers, ~Working(s)
  PROVE  ~Working(s)'
<1> USE DEF Working, Goto, TypeOK, Threads, Servers, Acceptor, cellVars,
        clientVars, scanVars, closeVars
<1>1. ASSUME Environment \/ AcceptStep \/ CloseStep \/ UNCHANGED vars
      PROVE  ~Working(s)'
  BY <1>1 DEF Environment, AcceptStep, CloseStep, Close, Accept,
          AcceptSelectFails, ReadSize, Compare, AddClient, AcceptStop, Exit,
          CloseThread, ThreadEnded, CloseDone, vars
<1>2. ASSUME NEW t \in Servers, CellStep(t) PROVE ~Working(s)'
  BY <1>2 DEF CellStep, Stop, LockBuff, MergeOne, MergeDone, SkipMerge, Leave,
          Erase, TimeDone, Select, SelectFails, ReadDone, WriteDone, Exit,
          CleanMap, CleanBuff
<1> QED BY <1>1, <1>2 DEF Next

\* OnNetJoin and OnNetLeave follow the entries.
LEMMA CountStep ==
  ASSUME IInv, CountAgrees, [Next]_vars
  PROVE  CountAgrees'
<1> SUFFICES ASSUME \A s \in Servers : Working(s)'
             PROVE  clientCount' = Cardinality(Entries')
  BY DEF CountAgrees
<1>0. TypeOK /\ \A s \in Servers : Working(s)
  BY WorkingEnds DEF IInv
<1>1. clientCount = Cardinality(Entries)
  BY <1>0 DEF CountAgrees
<1> USE DEF Goto, cellVars, clientVars, scanVars, closeVars
<1>2. ASSUME UNCHANGED <<clients, erasing, clientCount>>
      PROVE  clientCount' = Cardinality(Entries')
  BY <1>1, <1>2 DEF Entries
<1>3. ASSUME NEW s \in Servers, NEW c \in Clients, MergeOne(s, c)
      PROVE  clientCount' = Cardinality(Entries')
  <2>1. fd[c] \in Fds /\ clients[s][fd[c]] = NoClient
    BY <1>3, MergeFindsFree
  <2>2. erasing[s] = NoFd /\ fd[c] # NoFd
    BY <1>3, <2>1, ConstantsAssumption DEF MergeOne, IInv, ErasingOK, Passes
  <2>3. \A t \in Servers, f \in Fds :
           clients'[t][f] = IF t = s /\ f = fd[c] THEN c ELSE clients[t][f]
    BY <1>0, <1>3, <2>1 DEF MergeOne, TypeOK
  <2>4. Entries' = Entries \cup {<<s, fd[c]>>} /\ <<s, fd[c]>> \notin Entries
    BY <1>3, <2>1, <2>2, <2>3, ConstantsAssumption DEF MergeOne, Entries
  <2>5. Cardinality(Entries') = Cardinality(Entries) + 1
    BY <2>4, EntriesFinite, FS_AddElement
  <2> QED BY <1>1, <1>3, <2>5 DEF MergeOne
<1>4. ASSUME NEW s \in Servers, NEW f \in Fds, Leave(s, f)
      PROVE  clientCount' = Cardinality(Entries')
  <2>1. clients[s][f] # NoClient /\ erasing[s] = NoFd /\ f # NoFd
    BY <1>4, ConstantsAssumption DEF Leave, IInv, DoomedOK
  <2>2. \A t \in Servers : erasing'[t] = IF t = s THEN f ELSE erasing[t]
    BY <1>0, <1>4 DEF Leave, TypeOK
  <2>3. Entries' = Entries \ {<<s, f>>} /\ <<s, f>> \in Entries
    BY <1>4, <2>1, <2>2, ConstantsAssumption DEF Leave, Entries
  <2>4. Cardinality(Entries') = Cardinality(Entries) - 1
    BY <2>3, EntriesFinite, FS_RemoveElement
  <2> QED BY <1>1, <1>4, <2>4 DEF Leave
<1>5. ASSUME NEW s \in Servers, Erase(s)
      PROVE  clientCount' = Cardinality(Entries')
  <2>1. erasing[s] \in Fds
    BY <1>0, <1>5 DEF Erase, TypeOK
  <2>2. \A t \in Servers, f \in Fds :
           /\ erasing'[t] = IF t = s THEN NoFd ELSE erasing[t]
           /\ clients'[t][f] = IF t = s /\ f = erasing[s] THEN NoClient
                                                         ELSE clients[t][f]
    BY <1>0, <1>5, <2>1 DEF Erase, TypeOK
  <2>3. Entries' = Entries
    BY <2>1, <2>2, ConstantsAssumption DEF Entries
  <2> QED BY <1>1, <1>5, <2>3 DEF Erase
<1>6. ASSUME NEW s \in Servers, CleanMap(s) PROVE FALSE
  BY <1>0, <1>6 DEF CleanMap, Working, TypeOK, Threads
<1>7. ASSUME NEW s \in Servers, CellStep(s)
      PROVE  \/ \E c \in Clients : MergeOne(s, c)
             \/ \E f \in Fds : Leave(s, f)
             \/ Erase(s) \/ CleanMap(s)
             \/ UNCHANGED <<clients, erasing, clientCount>>
  BY <1>7 DEF CellStep, Stop, LockBuff, MergeDone, SkipMerge, TimeDone, Select,
          SelectFails, ReadDone, WriteDone, Exit, CleanBuff
<1>8. ASSUME Environment \/ AcceptStep \/ CloseStep \/ UNCHANGED vars
      PROVE  UNCHANGED <<clients, erasing, clientCount>>
  BY <1>8 DEF Environment, AcceptStep, CloseStep, Close, Accept,
          AcceptSelectFails, ReadSize, Compare, AddClient, AcceptStop, Exit,
          CloseThread, ThreadEnded, CloseDone, vars
<1> QED BY <1>2, <1>3, <1>4, <1>5, <1>6, <1>7, <1>8 DEF Next

\* _clientCount is the number of clients that have joined and not left.
THEOREM CountCorrect == Spec => []CountAgrees
<1>1. Init => CountAgrees
  <2> SUFFICES ASSUME Init PROVE clientCount = Cardinality(Entries)
    BY DEF CountAgrees
  <2>1. Entries = {}
    BY DEF Init, Entries
  <2> QED BY <2>1, FS_EmptySet DEF Init
<1>2. IInv /\ CountAgrees /\ [Next]_vars => CountAgrees'
  BY CountStep
<1> QED BY <1>1, <1>2, IInvCorrect, PTL DEF Spec

-----------------------------------------------------------------------------
(***************************************************************************)
(* A CellServer that Close has deleted is out of its loop.                 *)
(***************************************************************************)

\* A thread that is not marked as running has left its loop, but for the one
\* that Close is waiting for.
Out == {"cleanMap", "cleanBuff", "done"}
StoppedOut ==
  \A s \in Servers : ~run[s] => pc[s] \in Out \/ (main = "waiting" /\ closing = s)
OutInv == TypeOK /\ StoppedOut /\ FreedOutOfLoop

\* Steps of a message thread keep a thread that is out where it is, and clear
\* its mark only on the way out.
LEMMA CellStepOut ==
  ASSUME OutInv, NEW s \in Servers, CellStep(s)
  PROVE  /\ UNCHANGED <<main, closing>>
         /\ \A t \in Servers : pc[t] \in Out => pc'[t] \in Out
         /\ \A t \in Servers : run[t] /\ ~run'[t] => pc'[t] \in Out
<1> USE DEF OutInv, TypeOK, Threads, closeVars, Goto, Out
<1>1. CASE Stop(s) \/ LockBuff(s) \/ MergeDone(s) \/ SkipMerge(s)
  BY <1>1 DEF Stop, LockBuff, MergeDone, SkipMerge
<1>2. ASSUME NEW c \in Clients, MergeOne(s, c)
      PROVE  UNCHANGED <<run, pc, main, closing>>
  BY <1>2 DEF MergeOne
<1>3. ASSUME NEW f \in Fds, Leave(s, f)
      PROVE  UNCHANGED <<run, pc, main, closing>>
  BY <1>3 DEF Leave
<1>4. CASE Erase(s) \/ TimeDone(s) \/ Select(s) \/ SelectFails(s)
  BY <1>4 DEF Erase, TimeDone, Select, SelectFails
<1>5. CASE ReadDone(s) \/ WriteDone(s) \/ CleanMap(s) \/ CleanBuff(s)
  BY <1>5 DEF ReadDone, WriteDone, CleanMap, CleanBuff
<1>6. CASE Exit(s)
  BY <1>6 DEF Exit, Servers, Acceptor
<1> QED BY <1>1, <1>2, <1>3, <1>4, <1>5, <1>6 DEF CellStep

\* The accept thread and its environment touch no message thread.
LEMMA AcceptorOut ==
  ASSUME OutInv, (Environment /\ ~Close) \/ AcceptStep
  PROVE  /\ UNCHANGED <<main, closing>>
         /\ \A t \in Servers : pc'[t] = pc[t] /\ run'[t] = run[t]
<1> USE DEF OutInv, TypeOK, Threads, closeVars, Goto, Servers, Acceptor
<1>0. \A t \in Servers : t # Acceptor
  BY ConstantsAssumption
<1>1. CASE AcceptStep
  <2>1. CASE ReadSize \/ Compare
    BY <2>1 DEF ReadSize, Compare
  <2>2. CASE AddClient \/ AcceptStop
    BY <2>2, <1>0 DEF AddClient, AcceptStop
  <2>3. CASE Exit(Acceptor)
    BY <2>3, <1>0 DEF Exit
  <2> QED BY <1>1, <2>1, <2>2, <2>3 DEF AcceptStep
<1>2. CASE Environment /\ ~Close
  BY <1>2 DEF Environment, Accept, AcceptSelectFails
<1> QED BY <1>1, <1>2

LEMMA OutStep == OutInv /\ [Next]_vars => StoppedOut' /\ FreedOutOfLoop'
<1> SUFFICES ASSUME OutInv, [Next]_vars PROVE StoppedOut' /\ FreedOutOfLoop'
  OBVIOUS
<1> USE DEF OutInv, StoppedOut, FreedOutOfLoop, Out
<1>1. ASSUME NEW s \in Servers, CellStep(s)
      PROVE  StoppedOut' /\ FreedOutOfLoop'
  BY <1>1, CellStepOut DEF TypeOK, Threads
<1>2. CASE (Environment /\ ~Close) \/ AcceptStep
  BY <1>2, AcceptorOut
<1>3. CASE Close
  BY <1>3 DEF Close
<1>4. CASE CloseThread
  <2>1. closing \in Threads
    BY <1>4, ConstantsAssumption DEF CloseThread, TypeOK, Threads, Acceptor,
                                     Servers
  <2>2. CASE run[closing]
    BY <1>4, <2>1, <2>2, ConstantsAssumption
       DEF CloseThread, TypeOK, Threads, Servers
  <2>3. CASE ~run[closing]
    BY <1>4, <2>1, <2>3, ConstantsAssumption
       DEF CloseThread, TypeOK, Threads, Servers
  <2> QED BY <2>2, <2>3
<1>5. CASE ThreadEnded
  BY <1>5, ConstantsAssumption DEF ThreadEnded, TypeOK, Threads, Servers
<1>6. CASE CloseDone
  BY <1>6 DEF CloseDone
<1>7. CASE UNCHANGED vars
  BY <1>7 DEF vars, closeVars
<1> QED BY <1>1, <1>2, <1>3, <1>4, <1>5, <1>6, <1>7 DEF Next, CloseStep

\* Whatever fails, Close deletes no CellServer whose thread is in its loop.
THEOREM FreedOutCorrect == Spec => []FreedOutOfLoop
<1>1. Init => OutInv
  BY TypeInit, ConstantsAssumption
     DEF Init, OutInv, StoppedOut, FreedOutOfLoop, Servers, Threads
<1>2. OutInv /\ [Next]_vars => OutInv'
  BY OutStep, TypeStep DEF OutInv
<1>3. OutInv => FreedOutOfLoop
  BY DEF OutInv
<1> QED BY <1>1, <1>2, <1>3, PTL DEF Spec

-----------------------------------------------------------------------------
(***************************************************************************)
(* EasyTcpServer::Close, as long as no thread calls Exit().  A thread does *)
(* so after a failed select, and select can only fail of itself or, with a *)
(* read set built from an empty map, after a heartbeat has expired.        *)
(***************************************************************************)
\* No thread is about to call Exit().
NoExit == \A t \in Threads : pc[t] # "exit"

\* Only Close makes a thread stop, one at a time and in order.
RunOK ==
  \A t \in Threads :
     run[t] <=> closing < t \/ (closing = t /\ main # "waiting")

\* A thread cleans up when it has been told to stop; Close has passed only
\* threads that have ended.
Stopped ==
  /\ \A t \in Threads :
        pc[t] \in {"cleanMap", "cleanBuff", "done"} => ~run[t]
  /\ \A t \in Threads : t < closing => pc[t] = "done"

\* CleanClients leaves no live client behind.
Cleaned ==
  \A s \in Servers :
     /\ pc[s] \in {"cleanBuff", "done"} => Keys(s) = {}
     /\ pc[s] = "done" => buff[s] \cap Live = {}

AllClosed == main = "closed" => closing = N + 1

CloseInv == RunOK /\ Stopped /\ Cleaned /\ AllClosed

\* The invariant holds initially.
LEMMA CloseInit == Init => CloseInv
  BY ConstantsAssumption
     DEF Init, CloseInv, RunOK, Stopped, Cleaned, AllClosed,
         Threads, Servers, Acceptor

\* While the accept thread dispatches, Close has not got past it.
LEMMA ScanBeforeClose ==
  ASSUME TypeOK, CloseInv, pc[Acceptor] = "scan"
  PROVE  NoHandoffToDead
<1>1. ~(Acceptor < closing)
  BY DEF CloseInv, Stopped, Threads
<1>2. \A s \in Servers : closing < s
  BY <1>1, ConstantsAssumption DEF TypeOK, Servers, Acceptor
<1>3. \A s \in Servers : run[s]
  BY <1>2 DEF CloseInv, RunOK, Threads
<1> QED BY <1>3 DEF CloseInv, Stopped, NoHandoffToDead, Threads

\* A step keeps the invariant of Close, if it is not one of Exit.
LEMMA CloseInvStep ==
  ASSUME IInv, CloseInv, NoExit, [Next]_vars
  PROVE  CloseInv'
<1> USE ConstantsAssumption
<1> USE DEF Goto, Delete, cellVars, clientVars, scanVars, closeVars, Acceptor,
        Threads, Servers, Keys, Live, TypeOK
<1> USE DEF CloseInv, RunOK, Stopped, Cleaned, AllClosed
<1>0. TypeOK
  BY DEF IInv
<1>1. CASE Close
  BY <1>0, <1>1 DEF Close
<1>2. ASSUME NEW c \in Clients, NEW f \in Fds, Accept(c, f) PROVE CloseInv'
  BY <1>0, <1>2 DEF Accept
<1>3. CASE ReadSize \/ Compare
  <2>1. UNCHANGED <<run, pc, cellVars, clientVars, closeVars>>
    BY <1>3 DEF ReadSize, Compare
  <2> QED BY <2>1
<1>4. CASE AddClient
  BY <1>0, <1>4 DEF AddClient
<1>5. CASE AcceptStop
  BY <1>0, <1>5 DEF AcceptStop
<1>6. CASE CloseThread
  <2>1. /\ main = "closing" /\ main' = "waiting" /\ closing' = closing
        /\ closing \in Threads /\ run' = [run EXCEPT ![closing] = FALSE]
        /\ UNCHANGED <<pc, cellVars, clientVars, scanVars>>
    BY <1>6, <1>0 DEF CloseThread
  <2>2. Cleaned' /\ AllClosed'
    BY <2>1
  <2>3. RunOK' /\ Stopped'
    BY <1>0, <2>1
  <2> QED BY <2>2, <2>3
<1>7. CASE ThreadEnded
  BY <1>0, <1>7 DEF ThreadEnded
<1>8. CASE CloseDone
  BY <1>0, <1>8 DEF CloseDone
<1>9. ASSUME NEW s \in Servers, Stop(s) PROVE CloseInv'
  BY <1>0, <1>9 DEF Stop
<1>10. ASSUME NEW s \in Servers, LockBuff(s) PROVE CloseInv'
  BY <1>0, <1>10 DEF LockBuff
<1>11. ASSUME NEW s \in Servers, NEW c \in Clients, MergeOne(s, c) PROVE CloseInv'
  BY <1>0, <1>11 DEF MergeOne
<1>12. ASSUME NEW s \in Servers, MergeDone(s) PROVE CloseInv'
  BY <1>0, <1>12 DEF MergeDone
<1>13. ASSUME NEW s \in Servers, SkipMerge(s) PROVE CloseInv'
  BY <1>0, <1>13 DEF SkipMerge
<1>14. ASSUME NEW s \in Servers, NEW f \in Fds, Leave(s, f) PROVE CloseInv'
  BY <1>0, <1>14 DEF Leave
<1>15. ASSUME NEW s \in Servers, Erase(s) PROVE CloseInv'
  BY <1>0, <1>15 DEF Erase
<1>16. ASSUME NEW s \in Servers, TimeDone(s) PROVE CloseInv'
  BY <1>0, <1>16 DEF TimeDone
<1>17. ASSUME NEW s \in Servers, Select(s) PROVE CloseInv'
  BY <1>0, <1>17 DEF Select
<1>18. ASSUME NEW s \in Servers, ReadDone(s) PROVE CloseInv'
  BY <1>0, <1>18 DEF ReadDone
<1>19. ASSUME NEW s \in Servers, WriteDone(s) PROVE CloseInv'
  BY <1>0, <1>19 DEF WriteDone
<1>20. ASSUME NEW s \in Servers, CleanMap(s) PROVE CloseInv'
  BY <1>0, <1>20 DEF CleanMap
<1>21. ASSUME NEW s \in Servers, CleanBuff(s) PROVE CloseInv'
  BY <1>0, <1>21 DEF CleanBuff
<1>22. CASE UNCHANGED vars
  BY <1>0, <1>22 DEF vars
<1>23. \A t \in Threads : ~Exit(t)
  BY DEF Exit, NoExit
<1>24. CASE AcceptSelectFails
  BY <1>0, <1>24 DEF AcceptSelectFails
<1>25. ASSUME NEW s \in Servers, SelectFails(s) PROVE CloseInv'
  BY <1>0, <1>25 DEF SelectFails
<1> QED BY <1>1, <1>2, <1>3, <1>4, <1>5, <1>6, <1>7, <1>8, <1>9, <1>10, <1>11,
           <1>12, <1>13, <1>14, <1>15, <1>16, <1>17, <1>18, <1>19, <1>20,
           <1>21, <1>22, <1>23, <1>24, <1>25
        DEF Next, Environment, AcceptStep, CloseStep, CellStep

\* The invariant of Close.
LEMMA CloseInvCorrect == Spec /\ []NoExit => []CloseInv
<1>1. IInv /\ CloseInv /\ NoExit /\ [Next]_vars => CloseInv'
  BY CloseInvStep
<1> QED BY <1>1, CloseInit, IInvCorrect, PTL DEF Spec

\* As long as nobody calls Exit, no client is handed to a CellServer that has
\* stopped: expired clients, failing reads and sends and Close included.
THEOREM HandoffCorrect == Spec /\ []NoExit => []NoHandoffToDead
<1>1. TypeOK /\ CloseInv => NoHandoffToDead
  BY ScanBeforeClose DEF NoHandoffToDead
<1> QED BY <1>1, TypeCorrect, CloseInvCorrect, PTL

\* As long as nobody calls Exit, a CellServer is freed after its thread has
\* ended.
THEOREM FreedCorrect == Spec /\ []NoExit => []FreedAfterDone
<1>1. CloseInv => FreedAfterDone
  BY DEF CloseInv, Stopped, FreedAfterDone, Threads
<1> QED BY <1>1, CloseInvCorrect, PTL

\* If nobody has called Exit, every client object is deleted when Close
\* returns.
THEOREM ReleasedCorrect == Spec /\ []NoExit => []ReleasedAtClose
<1>1. ASSUME IInv, CloseInv, main = "closed" PROVE Live = {}
  <2>1. \A t \in Threads : pc[t] = "done"
    BY <1>1, ConstantsAssumption
       DEF CloseInv, AllClosed, Stopped, Threads, Servers, Acceptor
  <2>2. hand = NoClient
    BY <1>1, <2>1 DEF IInv, HandOK, Threads
  <2>3. ASSUME NEW c \in Live, NEW s \in Servers PROVE ~Held(s, c)
    <3>1. Keys(s) = {} /\ c \notin buff[s]
      BY <1>1, <2>1 DEF CloseInv, Cleaned, Threads
    <3>2. fd[c] \in Fds /\ c # NoClient
      BY <1>1, ConstantsAssumption DEF IInv, FdUnique, Live
    <3> QED BY <3>1, <3>2 DEF Held, Keys
  <2> QED BY <1>1, <2>2, <2>3, ConstantsAssumption DEF IInv, Owned, Live
<1>2. IInv /\ CloseInv => ReleasedAtClose
  BY <1>1 DEF ReleasedAtClose
<1> QED BY <1>2, IInvCorrect, CloseInvCorrect, PTL

-----------------------------------------------------------------------------
\* Close and the message threads use a thread object as ThreadLifecycle says.
LifeStep(t) ==
  Thread(t)!LifeNext \/ UNCHANGED <<PhaseOf(t), CloseWaitsFor(t)>>

\* A step that neither stops, nor ends, nor waits for a thread.
LEMMA LifeQuiet ==
  ASSUME NEW t \in Threads, UNCHANGED <<run, main, closing>>,
         pc'[t] = "done" <=> pc[t] = "done"
  PROVE  LifeStep(t)
BY DEF LifeStep, PhaseOf, CloseWaitsFor

LEMMA CloserSteps ==
  ASSUME TypeOK, CloseInv, NEW t \in Threads, CloseThread \/ ThreadEnded
  PROVE  LifeStep(t)
<1>0. UNCHANGED pc
  BY DEF CloseThread, ThreadEnded
<1>1. CASE CloseThread
  <2>1. closing \in Threads
    BY <1>1, ConstantsAssumption DEF CloseThread, TypeOK, Threads, Acceptor,
                                     Servers
  <2>2. run[closing]
    BY <1>1, <2>1 DEF CloseThread, CloseInv, RunOK
  <2>3. /\ run' = [run EXCEPT ![closing] = FALSE] /\ closing' = closing
        /\ main = "closing" /\ main' = "waiting"
    BY <1>1, <2>2 DEF CloseThread
  <2>4. CASE t = closing
    <3>1. PhaseOf(t) = "running" /\ ~CloseWaitsFor(t) /\ CloseWaitsFor(t)'
      BY <2>2, <2>3, <2>4 DEF PhaseOf, CloseWaitsFor
    <3>2. PhaseOf(t)' = "stopping"
      BY <1>0, <2>1, <2>2, <2>3, <2>4 DEF PhaseOf, CloseInv, Stopped, TypeOK
    <3> QED BY <3>1, <3>2
            DEF LifeStep, Thread!LifeNext, Thread!RequestStop
  <2>5. CASE t # closing
    BY <1>0, <2>1, <2>3, <2>5 DEF LifeStep, PhaseOf, CloseWaitsFor, TypeOK
  <2> QED BY <2>4, <2>5
<1>2. CASE ThreadEnded
  <2>1. /\ main = "waiting" /\ main' = "closing" /\ pc[closing] = "done"
        /\ UNCHANGED run
    BY <1>2 DEF ThreadEnded
  <2>2. CASE t = closing
    <3>1. ~run[t]
      BY <2>1, <2>2 DEF CloseInv, Stopped
    <3>2. /\ PhaseOf(t) = "stopped" /\ PhaseOf(t)' = "stopped"
          /\ CloseWaitsFor(t) /\ ~CloseWaitsFor(t)'
      BY <1>0, <2>1, <2>2, <3>1 DEF PhaseOf, CloseWaitsFor
    <3> QED BY <3>2 DEF LifeStep, Thread!LifeNext, Thread!Return
  <2>3. CASE t # closing
    BY <1>0, <2>1, <2>3 DEF LifeStep, PhaseOf, CloseWaitsFor
  <2> QED BY <2>2, <2>3
<1> QED BY <1>1, <1>2

\* A thread that has been stopped ends; the others do not notice.
LEMMA EndStep ==
  ASSUME TypeOK, CloseInv, NEW u \in Threads, ~run[u], pc[u] # "done",
         pc' = [pc EXCEPT ![u] = "done"], UNCHANGED <<run, main, closing>>,
         NEW t \in Threads
  PROVE  LifeStep(t)
<1>1. CASE t = u
  <2>1. PhaseOf(t) = "stopping" /\ PhaseOf(t)' = "stopped"
    BY <1>1 DEF PhaseOf, TypeOK
  <2>2. CloseWaitsFor(t)' = CloseWaitsFor(t)
    BY DEF CloseWaitsFor
  <2> QED BY <2>1, <2>2 DEF LifeStep, Thread!LifeNext, Thread!End
<1>2. CASE t # u
  BY <1>2, LifeQuiet DEF TypeOK
<1> QED BY <1>1, <1>2

LEMMA LifeStepAll ==
  ASSUME TypeOK, CloseInv, NoExit, [Next]_vars, NEW t \in Threads
  PROVE  LifeStep(t)
<1> USE DEF Goto, cellVars, clientVars, scanVars, closeVars
<1>1. CASE CloseThread \/ ThreadEnded
  BY <1>1, CloserSteps
<1>2. CASE AcceptStop
  <2>1. /\ Acceptor \in Threads /\ ~run[Acceptor] /\ pc[Acceptor] # "done"
        /\ pc' = [pc EXCEPT ![Acceptor] = "done"]
        /\ UNCHANGED <<run, main, closing>>
    BY <1>2 DEF AcceptStop, Threads
  <2> QED BY <2>1, EndStep
<1>3. ASSUME NEW s \in Servers, CleanBuff(s) PROVE LifeStep(t)
  <2>1. s \in Threads /\ pc[s] = "cleanBuff"
    BY <1>3 DEF CleanBuff, Threads
  <2>2. ~run[s]
    BY <2>1 DEF CloseInv, Stopped
  <2>3. pc' = [pc EXCEPT ![s] = "done"] /\ UNCHANGED <<run, main, closing>>
    BY <1>3 DEF CleanBuff
  <2> QED BY <2>1, <2>2, <2>3, EndStep
<1>4. CASE Close \/ CloseDone
  BY <1>4 DEF Close, CloseDone, LifeStep, PhaseOf, CloseWaitsFor
<1>5. CASE \/ \E c \in Clients, f \in Fds : Accept(c, f)
           \/ AcceptSelectFails \/ ReadSize \/ Compare \/ AddClient
  <2>1. UNCHANGED <<run, main, closing>>
    BY <1>5 DEF Accept, AcceptSelectFails, ReadSize, Compare, AddClient
  <2>2. \/ UNCHANGED pc
        \/ /\ pc[Acceptor] # "done"
           /\ \E label \in {"loop", "scan", "exit"} :
                 pc' = [pc EXCEPT ![Acceptor] = label]
    BY <1>5 DEF Accept, AcceptSelectFails, ReadSize, Compare, AddClient
  <2>3. pc'[t] = "done" <=> pc[t] = "done"
    BY <2>2 DEF TypeOK
  <2> QED BY <2>1, <2>3, LifeQuiet
<1>6. ~\E u \in Threads : Exit(u)
  BY DEF Exit, NoExit
<1>7. ASSUME NEW s \in Servers, CellStep(s), ~CleanBuff(s) PROVE LifeStep(t)
  <2>1. UNCHANGED <<run, main, closing>>
    BY <1>6, <1>7 DEF CellStep, Threads, Stop, LockBuff, MergeOne, MergeDone,
       SkipMerge, Leave, Erase, TimeDone, Select, SelectFails, ReadDone,
       WriteDone, CleanMap
  <2>2. CASE UNCHANGED pc
    BY <2>1, <2>2, LifeQuiet
  <2>3. CASE pc[s] # "done" /\ \E label \in CellPc \ {"done"} :
                                  pc' = [pc EXCEPT ![s] = label]
    BY <2>1, <2>3, LifeQuiet DEF TypeOK
  <2>4. \/ UNCHANGED pc
        \/ pc[s] # "done" /\ \E label \in CellPc \ {"done"} :
                                  pc' = [pc EXCEPT ![s] = label]
    BY <1>6, <1>7 DEF CellStep, Threads, Stop, LockBuff, MergeOne, MergeDone,
       SkipMerge, Leave, Erase, TimeDone, Select, SelectFails, ReadDone,
       WriteDone, CleanMap, CellPc
  <2> QED BY <2>2, <2>3, <2>4
<1>8. CASE UNCHANGED vars
  BY <1>8, LifeQuiet DEF vars
<1> QED BY <1>1, <1>2, <1>3, <1>4, <1>5, <1>6, <1>7, <1>8
        DEF Next, Environment, AcceptStep, CloseStep, Threads

\* As long as nobody calls Exit, the wait of EasyTcpServer::Close for each of its
\* threads is the life cycle of a CELLThread, the promise that object is shown
\* to keep.
THEOREM ThreadsCorrect == Spec /\ []NoExit => ThreadsAsPromised
<1>1. TypeOK /\ CloseInv /\ NoExit /\ [Next]_vars
        => [\A t \in Threads : LifeStep(t)]_vars
  BY LifeStepAll
<1>2. [\A t \in Threads : LifeStep(t)]_vars
        => [\A t \in Threads :
              Thread(t)!LifeNext \/ UNCHANGED <<PhaseOf(t), CloseWaitsFor(t)>>
           ]_vars
  BY DEF LifeStep
<1> QED BY <1>1, <1>2, TypeCorrect, CloseInvCorrect, PTL
        DEF Spec, ThreadsAsPromised

-----------------------------------------------------------------------------
(***************************************************************************)
(* Where select does not fail of itself and no client expires.             *)
(***************************************************************************)
\* Without time-outs CheckTime removes nobody, so that the read set is not built
\* from an empty map.
MapFilled ==
  \A s \in Servers :
     /\ pc[s] = "merge" => buff[s] # {}
     /\ pc[s] \in {"time", "fdset"} =>
           Keys(s) # {} /\ doomed[s] = {} /\ erasing[s] = NoFd

\* select gets no closed descriptor: the cached set is the map's.
LEMMA ReadSetOpen ==
  ASSUME IInv, FdCacheCoherent, NEW s \in Servers, pc[s] = "fdset"
  PROVE  ReadSet(s) \subseteq OpenFds
<1>1. ReadSet(s) = Keys(s)
  BY DEF ReadSet, FdCacheCoherent, Working
<1>2. erasing[s] = NoFd
  BY DEF IInv, ErasingOK, Passes
<1>3. ASSUME NEW f \in Keys(s) PROVE f \in OpenFds
  <2>1. f \in Fds /\ f # erasing[s] /\ clients[s][f] # NoClient
    BY <1>2, ConstantsAssumption DEF Keys
  <2>2. clients[s][f] \in Live /\ fd[clients[s][f]] = f
    BY <2>1 DEF IInv, MapLive
  <2> QED BY <2>2 DEF OpenFds
<1> QED BY <1>1, <1>3

\* Where select does not fail of itself and no client times out, no step leads
\* to an Exit.
LEMMA NoExitStep ==
  ASSUME ~SelectErrors, ~HeartbeatTimeouts, IInv, FdCacheCoherent, NoExit,
         MapFilled, [Next]_vars
  PROVE  NoExit' /\ MapFilled'
<1> USE ConstantsAssumption
<1> USE DEF Goto, Delete, cellVars, clientVars, scanVars, closeVars, Acceptor,
        Threads, Servers, Keys, Live, TypeOK
<1> USE DEF NoExit, MapFilled
<1>0. TypeOK
  BY DEF IInv
<1>1. CASE Close
  BY <1>0, <1>1 DEF Close
<1>2. ASSUME NEW c \in Clients, NEW f \in Fds, Accept(c, f) PROVE NoExit' /\ MapFilled'
  BY <1>0, <1>2 DEF Accept
<1>3. CASE ReadSize \/ Compare
  <2>1. UNCHANGED <<run, pc, cellVars, clientVars, closeVars>>
    BY <1>3 DEF ReadSize, Compare
  <2> QED BY <2>1
<1>4. CASE AddClient
  BY <1>0, <1>4 DEF AddClient
<1>5. CASE AcceptStop
  BY <1>0, <1>5 DEF AcceptStop
<1>6. CASE CloseThread
  <2>1. UNCHANGED <<pc, cellVars>>
    BY <1>6 DEF CloseThread
  <2> QED BY <2>1
<1>7. CASE ThreadEnded
  BY <1>0, <1>7 DEF ThreadEnded
<1>8. CASE CloseDone
  BY <1>0, <1>8 DEF CloseDone
<1>9. ASSUME NEW s \in Servers, Stop(s) PROVE NoExit' /\ MapFilled'
  BY <1>0, <1>9 DEF Stop
<1>10. ASSUME NEW s \in Servers, LockBuff(s) PROVE NoExit' /\ MapFilled'
  BY <1>0, <1>10 DEF LockBuff
<1>11. ASSUME NEW s \in Servers, NEW c \in Clients, MergeOne(s, c) PROVE NoExit' /\ MapFilled'
  BY <1>0, <1>11 DEF MergeOne
<1>12. ASSUME NEW s \in Servers, MergeDone(s) PROVE NoExit' /\ MapFilled'
  <2>1. PICK c \in buff[s] : TRUE
    BY <1>12 DEF MergeDone
  <2>2. c \in Live
    BY <1>12, <2>1 DEF MergeDone, IInv, QueueLive
  <2>3. clients[s][fd[c]] = c /\ fd[c] \in Fds
    BY <1>12, <2>1, <2>2 DEF MergeDone, IInv, MergeOK, FdUnique
  <2>4. Keys(s)' # {}
    BY <1>12, <2>2, <2>3 DEF MergeDone
  <2>5. doomed' = [doomed EXCEPT ![s] = {}] /\ erasing' = erasing
    BY <1>12 DEF MergeDone, Expired
  <2>6. erasing[s] = NoFd
    BY <1>12 DEF MergeDone, IInv, ErasingOK, Passes
  <2>7. MapFilled'
    BY <1>0, <1>12, <2>4, <2>5, <2>6 DEF MergeDone
  <2>8. NoExit'
    BY <1>0, <1>12 DEF MergeDone
  <2> QED BY <2>7, <2>8
<1>13. ASSUME NEW s \in Servers, SkipMerge(s) PROVE NoExit' /\ MapFilled'
  <2>1. doomed' = [doomed EXCEPT ![s] = {}] /\ erasing' = erasing
    BY <1>13 DEF SkipMerge, Expired
  <2>2. erasing[s] = NoFd
    BY <1>13 DEF SkipMerge, IInv, ErasingOK, Passes
  <2>3. MapFilled'
    BY <1>0, <1>13, <2>1, <2>2 DEF SkipMerge
  <2>4. NoExit'
    BY <1>0, <1>13 DEF SkipMerge
  <2> QED BY <2>3, <2>4
<1>14. ASSUME NEW s \in Servers, NEW f \in Fds, Leave(s, f) PROVE NoExit' /\ MapFilled'
  BY <1>0, <1>14 DEF Leave
<1>15. ASSUME NEW s \in Servers, Erase(s) PROVE NoExit' /\ MapFilled'
  BY <1>0, <1>15 DEF Erase
<1>16. ASSUME NEW s \in Servers, TimeDone(s) PROVE NoExit' /\ MapFilled'
  BY <1>0, <1>16 DEF TimeDone
<1>17. ASSUME NEW s \in Servers, Select(s) PROVE NoExit' /\ MapFilled'
  BY <1>0, <1>17 DEF Select
<1>18. ASSUME NEW s \in Servers, ReadDone(s) PROVE NoExit' /\ MapFilled'
  BY <1>0, <1>18 DEF ReadDone
<1>19. ASSUME NEW s \in Servers, WriteDone(s) PROVE NoExit' /\ MapFilled'
  BY <1>0, <1>19 DEF WriteDone
<1>20. ASSUME NEW s \in Servers, CleanMap(s) PROVE NoExit' /\ MapFilled'
  BY <1>0, <1>20 DEF CleanMap
<1>21. ASSUME NEW s \in Servers, CleanBuff(s) PROVE NoExit' /\ MapFilled'
  BY <1>0, <1>21 DEF CleanBuff
<1>22. CASE UNCHANGED vars
  BY <1>0, <1>22 DEF vars
<1>23. ~AcceptSelectFails /\ \A t \in Threads : ~Exit(t)
  BY DEF AcceptSelectFails, Exit
<1>24. \A s \in Servers : ~SelectFails(s)
  BY ReadSetOpen DEF SelectFails, MaxSockUndefined
<1> QED BY <1>1, <1>2, <1>3, <1>4, <1>5, <1>6, <1>7, <1>8, <1>9, <1>10, <1>11,
           <1>12, <1>13, <1>14, <1>15, <1>16, <1>17, <1>18, <1>19, <1>20,
           <1>21, <1>22, <1>23, <1>24
        DEF Next, Environment, AcceptStep, CloseStep, CellStep

\* The two conditions of the run CellServer_shutdown rule an Exit out, because
\* the read set never holds a closed descriptor.
THEOREM NoExitCorrect ==
  ASSUME ~SelectErrors, ~HeartbeatTimeouts
  PROVE  Spec => []NoExit
<1>1. /\ IInv /\ FdCacheCoherent /\ NoExit /\ MapFilled /\ [Next]_vars
         => NoExit' /\ MapFilled'
  BY NoExitStep
<1>2. Init => NoExit /\ MapFilled
  BY ConstantsAssumption
     DEF Init, NoExit, MapFilled, Threads, Servers, Acceptor
<1> QED BY <1>1, <1>2, IInvCorrect, FdCacheCorrect, PTL DEF Spec

\* In that case the shutdown is as it should be, whatever the sizes.
THEOREM ShutdownCorrect ==
  ASSUME ~SelectErrors, ~HeartbeatTimeouts
  PROVE  Spec => [](NoHandoffToDead /\ FreedAfterDone /\ ReleasedAtClose)
BY NoExitCorrect, HandoffCorrect, FreedCorrect, ReleasedCorrect, PTL
=============================================================================
