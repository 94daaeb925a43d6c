------------------------------ MODULE CellServer ------------------------------
(***************************************************************************)
(* The connection server: one accept thread (EasyTcpServer::OnRun), N      *)
(* message threads (CellServer::OnRun) and the thread that calls           *)
(* EasyTcpServer::Close, from the state EasyTcpServer::Start leaves.       *)
(*                                                                         *)
(* The module follows the life of every CellClient object: it is created   *)
(* by Accept, queued in the _clientsBuff of one CellServer, moved to that  *)
(* server's _clients map, used by its loop, and deleted.  Descriptors are  *)
(* handed out by the kernel and come back when a client is deleted, so a   *)
(* number may name several clients in turn.                                *)
(*                                                                         *)
(* Abstracted: bytes, messages and the clock.  Each of the three passes of *)
(* a message thread over its map (CheckTime, ReadData, WriteData) removes  *)
(* an arbitrary set of clients: those whose heartbeat has expired, whose   *)
(* recv returns nothing, whose send fails; on the others it leaves the     *)
(* state below as it is.  send() and recv() return.  The semaphore inside  *)
(* CELLThread is left to module CELLThread: here Close waits until the     *)
(* thread has ended.                                                       *)
(*                                                                         *)
(* A CellServer that is deleted while its thread is still in CleanClients, *)
(* which only a failed select can bring about, goes on here with its       *)
(* memory intact: the other properties say nothing of that.                *)
(***************************************************************************)
EXTENDS Integers, FiniteSets, Sequences

CONSTANTS
  N,                  \* number of CellServer objects, the argument of Start
  Clients,            \* the CellClient objects that will ever be allocated
  Fds,                \* the descriptors the kernel can give to connections
  NoClient,           \* nullptr
  NoFd,               \* no descriptor
  SelectErrors,       \* TRUE iff select() may fail for a reason of its own
  HeartbeatTimeouts   \* TRUE iff a client may stay silent for too long

ASSUME ConstantsAssumption ==
  /\ N \in Nat \ {0}
  /\ IsFiniteSet(Clients)
  /\ IsFiniteSet(Fds)
  /\ NoClient \notin Clients
  /\ NoFd \notin Fds
  /\ SelectErrors \in BOOLEAN
  /\ HeartbeatTimeouts \in BOOLEAN

Acceptor == 0
Servers  == 1 .. N
Threads  == {Acceptor} \cup Servers

VARIABLES
  run,          \* CELLThread::_isRun of each thread
  pc,           \* where each thread is in its loop
  clients,      \* _clients: the map from descriptor to client
  buff,         \* _clientsBuff
  unmerged,     \* the part of _clientsBuff the merging loop has not reached
  doomed,       \* the keys whose client the current pass has yet to remove
  erasing,      \* the key whose client is deleted and not yet erased
  change,       \* _clients_change
  bak,          \* _fdRead_bak, the cached read set
  life,         \* "none", "live" or "deleted"
  fd,           \* CellClient::_sockfd
  clientCount,  \* EasyTcpServer::_clientCount
  hand,         \* the client Accept is dispatching
  minServer,    \* pMinServer
  next,         \* the server addClientToCellServer compares next
  sizes,        \* the container sizes read so far for this comparison
  main,         \* the thread in EasyTcpServer::Close
  closing       \* the thread that Close has reached

cellVars   == <<clients, buff, unmerged, doomed, erasing, change, bak>>
clientVars == <<life, fd, clientCount>>
scanVars   == <<hand, minServer, next, sizes>>
closeVars  == <<main, closing>>
vars       == <<run, pc, cellVars, clientVars, scanVars, closeVars>>

AcceptPc == {"loop", "scan", "exit", "done"}
CellPc   == {"loop", "merge", "time", "fdset", "read", "write",
             "exit", "cleanMap", "cleanBuff", "done"}

TypeOK ==
  /\ run         \in [Threads -> BOOLEAN]
  /\ pc          \in [Threads -> AcceptPc \cup CellPc]
  /\ clients     \in [Servers -> [Fds -> Clients \cup {NoClient}]]
  /\ buff        \in [Servers -> SUBSET Clients]
  /\ unmerged    \in [Servers -> SUBSET Clients]
  /\ doomed      \in [Servers -> SUBSET Fds]
  /\ erasing     \in [Servers -> Fds \cup {NoFd}]
  /\ change      \in [Servers -> BOOLEAN]
  /\ bak         \in [Servers -> SUBSET Fds]
  /\ life        \in [Clients -> {"none", "live", "deleted"}]
  /\ fd          \in [Clients -> Fds \cup {NoFd}]
  /\ clientCount \in Int
  /\ hand        \in Clients \cup {NoClient}
  /\ pc[Acceptor] = "scan" => hand \in Clients
  /\ minServer   \in Servers
  /\ next        \in 2 .. N + 1
  /\ sizes       \in Seq(Nat)
  /\ main        \in {"running", "closing", "waiting", "closed"}
  /\ closing     \in 0 .. N + 1
  /\ main = "waiting" => closing \in Threads

-----------------------------------------------------------------------------
Live    == {c \in Clients : life[c] = "live"}
OpenFds == {fd[c] : c \in Live}
Keys(s) == {f \in Fds : clients[s][f] # NoClient}

\* CELLThread::Close holds the thread object's _mutex while it waits.
CloseWaitsFor(t) == main = "waiting" /\ closing = t

\* Slip: the objects are forgotten without a delete.
DeleteNothing(S) == UNCHANGED life

\* delete on every client of S: ~CellClient closes the descriptor.
Delete(S) == life' = [c \in Clients |-> IF c \in S THEN "deleted" ELSE life[c]]

\* The clients that are past CLIENT_HREAT_DEAD_TIME when CheckTime starts.
Expired(s) == IF HeartbeatTimeouts THEN SUBSET Keys(s) ELSE {{}}

Goto(t, label) == pc' = [pc EXCEPT ![t] = label]

-----------------------------------------------------------------------------
(***************************************************************************)
(* Slips: forms of the actions below with one plausible mistake each, that *)
(* the properties are tried against.                                       *)
(***************************************************************************)

\* Close stops the thread and goes on without waiting for its end.
CloseNoWait ==
  /\ main = "closing"
  /\ closing <= N
  /\ run' = [run EXCEPT ![closing] = FALSE]
  /\ closing' = closing + 1
  /\ UNCHANGED <<pc, main, cellVars, clientVars, scanVars>>

\* The minimum is the server after the one that was compared.
CompareOffByOne ==
  /\ pc[Acceptor] = "scan"
  /\ next <= N
  /\ Len(sizes) = 4
  /\ minServer' = IF sizes[1] + sizes[2] > sizes[3] + sizes[4]
                  THEN next + 1 ELSE minServer
  /\ next'  = next + 1
  /\ sizes' = <<>>
  /\ UNCHANGED <<run, pc, cellVars, clientVars, hand, closeVars>>

\* addClient without the lock.
AddClientUnlocked ==
  /\ pc[Acceptor] = "scan"
  /\ next = N + 1
  /\ buff' = [buff EXCEPT ![minServer] = @ \cup {hand}]
  /\ hand' = NoClient
  /\ minServer' = 1
  /\ next' = 2
  /\ Goto(Acceptor, "loop")
  /\ UNCHANGED <<run, clients, unmerged, doomed, erasing, change, bak,
                 clientVars, sizes, closeVars>>

\* The loop is left only once there is nothing to do.
StopWhenIdle(s) ==
  /\ pc[s] = "loop"
  /\ ~run[s] /\ Keys(s) = {} /\ buff[s] = {}
  /\ Goto(s, "cleanMap")
  /\ UNCHANGED <<run, cellVars, clientVars, scanVars, closeVars>>

\* An empty map is skipped before the queue is looked at.
LockBuffAfterSkip(s) ==
  /\ pc[s] = "loop"
  /\ run[s]
  /\ Keys(s) # {} /\ buff[s] # {}
  /\ unmerged' = [unmerged EXCEPT ![s] = buff[s]]
  /\ Goto(s, "merge")
  /\ UNCHANGED <<run, clients, buff, doomed, erasing, change, bak,
                 clientVars, scanVars, closeVars>>

\* OnNetJoin is not called.
MergeUncounted(s, c) ==
  /\ pc[s] = "merge"
  /\ c \in unmerged[s]
  /\ clients'  = [clients EXCEPT ![s][fd[c]] = c]
  /\ unmerged' = [unmerged EXCEPT ![s] = @ \ {c}]
  /\ UNCHANGED <<run, pc, buff, doomed, erasing, change, bak, clientVars,
                 scanVars, closeVars>>

\* The queue is not cleared after the merge.
MergeKeepsBuff(s) ==
  /\ pc[s] = "merge"
  /\ unmerged[s] = {}
  /\ change' = [change EXCEPT ![s] = TRUE]
  /\ \E S \in Expired(s) : doomed' = [doomed EXCEPT ![s] = S]
  /\ Goto(s, "time")
  /\ UNCHANGED <<run, clients, buff, unmerged, erasing, bak, clientVars,
                 scanVars, closeVars>>

\* A client that leaves does not set _clients_change.
LeaveUnflagged(s, f) ==
  /\ pc[s] \in {"time", "read", "write"}
  /\ erasing[s] = NoFd
  /\ f \in doomed[s]
  /\ Delete({clients[s][f]})
  /\ clientCount' = clientCount - 1
  /\ erasing' = [erasing EXCEPT ![s] = f]
  /\ doomed'  = [doomed EXCEPT ![s] = @ \ {f}]
  /\ UNCHANGED <<run, pc, clients, buff, unmerged, change, bak, fd, scanVars,
                 closeVars>>

\* The map keeps the entry of a deleted client.
EraseForgotten(s) ==
  /\ erasing[s] # NoFd
  /\ erasing' = [erasing EXCEPT ![s] = NoFd]
  /\ UNCHANGED <<run, pc, clients, buff, unmerged, doomed, change, bak,
                 clientVars, scanVars, closeVars>>

-----------------------------------------------------------------------------
(***************************************************************************)
(* CELLThread as its owner and its worker see it.                          *)
(***************************************************************************)

\* A failed select: Exit needs the mutex that a waiting Close holds.
Exit(t) ==
  /\ pc[t] = "exit"
  /\ ~CloseWaitsFor(t)
  /\ run' = [run EXCEPT ![t] = FALSE]
  /\ Goto(t, IF t = Acceptor THEN "done" ELSE "cleanMap")
  /\ UNCHANGED <<cellVars, clientVars, scanVars, closeVars>>

\* `server.Close()'.
Close ==
  /\ main = "running"
  /\ main' = "closing"
  /\ UNCHANGED <<run, pc, cellVars, clientVars, scanVars, closing>>

\* The accept thread first, then `delete p' for each CellServer.  A thread
\* that is no longer marked as running is not waited for.
CloseThread ==
  /\ main = "closing"
  /\ closing <= N
  /\ IF run[closing]
     THEN /\ run'  = [run EXCEPT ![closing] = FALSE]
          /\ main' = "waiting"
          /\ closing' = closing
     ELSE /\ closing' = closing + 1
          /\ UNCHANGED <<run, main>>
  /\ UNCHANGED <<pc, cellVars, clientVars, scanVars>>

ThreadEnded ==
  /\ main = "waiting"
  /\ pc[closing] = "done"
  /\ main'    = "closing"
  /\ closing' = closing + 1
  /\ UNCHANGED <<run, pc, cellVars, clientVars, scanVars>>

CloseDone ==
  /\ main = "closing"
  /\ closing = N + 1
  /\ main' = "closed"
  /\ UNCHANGED <<run, pc, cellVars, clientVars, scanVars, closing>>

-----------------------------------------------------------------------------
(***************************************************************************)
(* The accept thread.                                                      *)
(***************************************************************************)

\* select reports a connection, accept returns the descriptor f, and the new
\* CellClient c goes to addClientToCellServer.
Accept(c, f) ==
  /\ pc[Acceptor] = "loop"
  /\ run[Acceptor]
  /\ life[c] = "none"
  /\ f \notin OpenFds
  /\ life' = [life EXCEPT ![c] = "live"]
  /\ fd'   = [fd EXCEPT ![c] = f]
  /\ hand' = c
  /\ Goto(Acceptor, "scan")
  /\ UNCHANGED <<run, cellVars, clientCount, minServer, next, sizes,
                 closeVars>>

\* The four sizes a comparison of getClientCount() values reads, with no lock:
\* the two of pMinServer, then the two of the server compared with it (C++
\* leaves the order of the two calls to the compiler).  The loop also compares
\* the first server with itself, which changes nothing.
SizeToRead ==
  <<Cardinality(Keys(minServer)), Cardinality(buff[minServer]),
    Cardinality(Keys(next)), Cardinality(buff[next])>>[Len(sizes) + 1]

ReadSize ==
  /\ pc[Acceptor] = "scan"
  /\ next <= N
  /\ Len(sizes) < 4
  /\ sizes' = Append(sizes, SizeToRead)
  /\ UNCHANGED <<run, pc, cellVars, clientVars, hand, minServer, next,
                 closeVars>>

Compare ==
  /\ pc[Acceptor] = "scan"
  /\ next <= N
  /\ Len(sizes) = 4
  /\ minServer' = IF sizes[1] + sizes[2] > sizes[3] + sizes[4]
                  THEN next ELSE minServer
  /\ next'  = next + 1
  /\ sizes' = <<>>
  /\ UNCHANGED <<run, pc, cellVars, clientVars, hand, closeVars>>

\* addClient: push_back under the _mutex that the merging loop holds.  The
\* locals of the dispatch go back to their initial values.
AddClient ==
  /\ pc[Acceptor] = "scan"
  /\ next = N + 1
  /\ pc[minServer] # "merge"
  /\ buff' = [buff EXCEPT ![minServer] = @ \cup {hand}]
  /\ hand' = NoClient
  /\ minServer' = 1
  /\ next' = 2
  /\ Goto(Acceptor, "loop")
  /\ UNCHANGED <<run, clients, unmerged, doomed, erasing, change, bak,
                 clientVars, sizes, closeVars>>

AcceptSelectFails ==
  /\ SelectErrors
  /\ pc[Acceptor] = "loop"
  /\ run[Acceptor]
  /\ Goto(Acceptor, "exit")
  /\ UNCHANGED <<run, cellVars, clientVars, scanVars, closeVars>>

AcceptStop ==
  /\ pc[Acceptor] = "loop"
  /\ ~run[Acceptor]
  /\ Goto(Acceptor, "done")
  /\ UNCHANGED <<run, cellVars, clientVars, scanVars, closeVars>>

-----------------------------------------------------------------------------
(***************************************************************************)
(* A message thread: the head of the loop and the merge of _clientsBuff.   *)
(***************************************************************************)

\* `while (pThread->isRun())' ends; onDestory is CleanClients.  The test of
\* isRun and what follows it up to the first lock are one step: a Close in
\* between changes nothing that the thread looks at.
Stop(s) ==
  /\ pc[s] = "loop"
  /\ ~run[s]
  /\ Goto(s, "cleanMap")
  /\ UNCHANGED <<run, cellVars, clientVars, scanVars, closeVars>>

\* New clients are waiting: take _mutex and start the range-for.
LockBuff(s) ==
  /\ pc[s] = "loop"
  /\ run[s]
  /\ buff[s] # {}
  /\ unmerged' = [unmerged EXCEPT ![s] = buff[s]]
  /\ Goto(s, "merge")
  /\ UNCHANGED <<run, clients, buff, doomed, erasing, change, bak,
                 clientVars, scanVars, closeVars>>

\* `_clients[pClient->sockfd()] = pClient' and OnNetJoin.
MergeOne(s, c) ==
  /\ pc[s] = "merge"
  /\ c \in unmerged[s]
  /\ clients'  = [clients EXCEPT ![s][fd[c]] = c]
  /\ unmerged' = [unmerged EXCEPT ![s] = @ \ {c}]
  /\ clientCount' = clientCount + 1
  /\ UNCHANGED <<run, pc, buff, doomed, erasing, change, bak, life, fd,
                 scanVars, closeVars>>

\* clear(), unlock, and on to CheckTime: the map is not empty now.
MergeDone(s) ==
  /\ pc[s] = "merge"
  /\ unmerged[s] = {}
  /\ buff'   = [buff EXCEPT ![s] = {}]
  /\ change' = [change EXCEPT ![s] = TRUE]
  /\ \E S \in Expired(s) : doomed' = [doomed EXCEPT ![s] = S]
  /\ Goto(s, "time")
  /\ UNCHANGED <<run, clients, unmerged, erasing, bak, clientVars, scanVars,
                 closeVars>>

\* Nothing queued: CheckTime at once.  With an empty map the thread sleeps
\* and starts over, which changes nothing here.
SkipMerge(s) ==
  /\ pc[s] = "loop"
  /\ run[s]
  /\ buff[s] = {}
  /\ Keys(s) # {}
  /\ \E S \in Expired(s) : doomed' = [doomed EXCEPT ![s] = S]
  /\ Goto(s, "time")
  /\ UNCHANGED <<run, clients, buff, unmerged, erasing, change, bak,
                 clientVars, scanVars, closeVars>>

-----------------------------------------------------------------------------
(***************************************************************************)
(* A message thread: the three passes over the map.                        *)
(***************************************************************************)

\* OnNetLeave, _clients_change = true, delete: the descriptor is closed and
\* the kernel may reuse it while the map still has the entry.
Leave(s, f) ==
  /\ pc[s] \in {"time", "read", "write"}
  /\ erasing[s] = NoFd
  /\ f \in doomed[s]
  /\ Delete({clients[s][f]})
  /\ clientCount' = clientCount - 1
  /\ change'  = [change EXCEPT ![s] = TRUE]
  /\ erasing' = [erasing EXCEPT ![s] = f]
  /\ doomed'  = [doomed EXCEPT ![s] = @ \ {f}]
  /\ UNCHANGED <<run, pc, clients, buff, unmerged, bak, fd, scanVars,
                 closeVars>>

\* _clients.erase(iterOld)
Erase(s) ==
  /\ erasing[s] # NoFd
  /\ clients' = [clients EXCEPT ![s][erasing[s]] = NoClient]
  /\ erasing' = [erasing EXCEPT ![s] = NoFd]
  /\ UNCHANGED <<run, pc, buff, unmerged, doomed, change, bak, clientVars,
                 scanVars, closeVars>>

PassOver(s) == erasing[s] = NoFd /\ doomed[s] = {}

TimeDone(s) ==
  /\ pc[s] = "time"
  /\ PassOver(s)
  /\ Goto(s, "fdset")
  /\ UNCHANGED <<run, cellVars, clientVars, scanVars, closeVars>>

\* The read set: rebuilt when _clients_change says so, else the cached one.
ReadSet(s) == IF change[s] THEN Keys(s) ELSE bak[s]

\* select succeeds, and ReadData will lose some of the clients it finds
\* readable.
Select(s) ==
  /\ pc[s] = "fdset"
  /\ ReadSet(s) \subseteq OpenFds
  /\ bak'    = [bak EXCEPT ![s] = ReadSet(s)]
  /\ change' = [change EXCEPT ![s] = FALSE]
  /\ \E S \in SUBSET (ReadSet(s) \cap Keys(s)) :
        doomed' = [doomed EXCEPT ![s] = S]
  /\ Goto(s, "read")
  /\ UNCHANGED <<run, clients, buff, unmerged, erasing, clientVars, scanVars,
                 closeVars>>

\* A closed descriptor in a set is EBADF.  With an empty map _maxSock is read
\* through `_clients.begin()', an arbitrary number: select refuses it (EINVAL)
\* or finds nothing ready.
MaxSockUndefined(s) == change[s] /\ Keys(s) = {}

SelectFails(s) ==
  /\ pc[s] = "fdset"
  /\ \/ SelectErrors
     \/ ~(ReadSet(s) \subseteq OpenFds)
     \/ MaxSockUndefined(s)
  /\ bak'    = [bak EXCEPT ![s] = ReadSet(s)]
  /\ change' = [change EXCEPT ![s] = FALSE]
  /\ Goto(s, "exit")
  /\ UNCHANGED <<run, clients, buff, unmerged, doomed, erasing, clientVars,
                 scanVars, closeVars>>

\* WriteData will fail to send to some of the clients that are left.
ReadDone(s) ==
  /\ pc[s] = "read"
  /\ PassOver(s)
  /\ \E S \in SUBSET Keys(s) : doomed' = [doomed EXCEPT ![s] = S]
  /\ Goto(s, "write")
  /\ UNCHANGED <<run, clients, buff, unmerged, erasing, change, bak,
                 clientVars, scanVars, closeVars>>

WriteDone(s) ==
  /\ pc[s] = "write"
  /\ PassOver(s)
  /\ Goto(s, "loop")
  /\ UNCHANGED <<run, cellVars, clientVars, scanVars, closeVars>>

-----------------------------------------------------------------------------
(***************************************************************************)
(* The end of a message thread: CleanClients.                              *)
(***************************************************************************)

\* Delete every client of the map and clear it; OnNetLeave is not called.  The
\* loop closes one descriptor after the other and is one step here: the thread
\* has left its passes, and other threads look at nothing in between but the
\* free descriptors.
CleanMap(s) ==
  /\ pc[s] = "cleanMap"
  /\ Delete({clients[s][f] : f \in Keys(s)})
  /\ clients' = [clients EXCEPT ![s] = [f \in Fds |-> NoClient]]
  /\ Goto(s, "cleanBuff")
  /\ UNCHANGED <<run, buff, unmerged, doomed, erasing, change, bak, fd,
                 clientCount, scanVars, closeVars>>

\* Delete every queued client.  Swapping _clientsBuff with a copy of itself
\* leaves the deleted pointers in it.
CleanBuff(s) ==
  /\ pc[s] = "cleanBuff"
  /\ Delete(buff[s])
  /\ Goto(s, "done")
  /\ UNCHANGED <<run, cellVars, fd, clientCount, scanVars, closeVars>>

-----------------------------------------------------------------------------
\* What EasyTcpServer::Start(N) leaves, before any thread has moved.
Init ==
  /\ run         = [t \in Threads |-> TRUE]
  /\ pc          = [t \in Threads |-> "loop"]
  /\ clients     = [s \in Servers |-> [f \in Fds |-> NoClient]]
  /\ buff        = [s \in Servers |-> {}]
  /\ unmerged    = [s \in Servers |-> {}]
  /\ doomed      = [s \in Servers |-> {}]
  /\ erasing     = [s \in Servers |-> NoFd]
  /\ change      = [s \in Servers |-> TRUE]
  /\ bak         = [s \in Servers |-> {}]
  /\ life        = [c \in Clients |-> "none"]
  /\ fd          = [c \in Clients |-> NoFd]
  /\ clientCount = 0
  /\ hand        = NoClient
  /\ minServer   = 1
  /\ next        = 2
  /\ sizes       = <<>>
  /\ main        = "running"
  /\ closing     = 0

\* Steps that depend on the network or on the operator of the server.
Environment ==
  \/ Close
  \/ \E c \in Clients, f \in Fds : Accept(c, f)
  \/ AcceptSelectFails

AcceptStep ==
  \/ ReadSize
  \/ Compare
  \/ AddClient
  \/ AcceptStop
  \/ Exit(Acceptor)

CellStep(s) ==
  \/ Stop(s)
  \/ LockBuff(s)
  \/ \E c \in Clients : MergeOne(s, c)
  \/ MergeDone(s)
  \/ SkipMerge(s)
  \/ \E f \in Fds : Leave(s, f)
  \/ Erase(s)
  \/ TimeDone(s)
  \/ Select(s)
  \/ SelectFails(s)
  \/ ReadDone(s)
  \/ WriteDone(s)
  \/ Exit(s)
  \/ CleanMap(s)
  \/ CleanBuff(s)

CloseStep == CloseThread \/ ThreadEnded \/ CloseDone

Next ==
  \/ Environment
  \/ AcceptStep
  \/ CloseStep
  \/ \E s \in Servers : CellStep(s)

Spec == Init /\ [][Next]_vars

\* Every thread keeps being scheduled; nobody has to connect or to close.
FairSpec ==
  /\ Spec
  /\ WF_vars(AcceptStep)
  /\ WF_vars(CloseStep)
  /\ \A s \in Servers : WF_vars(CellStep(s))

-----------------------------------------------------------------------------
(***************************************************************************)
(* Properties.                                                             *)
(***************************************************************************)

\* The servers that hold a client in their queue or in their map.  While a
\* merge runs the client is in both; an entry whose client is deleted and
\* still to be erased does not count, nor does the queue of an ended thread.
InMap(s, c)  == \E f \in Keys(s) \ {erasing[s]} : clients[s][f] = c
InBuff(s, c) == c \in buff[s]
Holders(c) == {s \in Servers : InMap(s, c) \/ InBuff(s, c)}

\* A live client has exactly one owner: the accept thread that dispatches it
\* or one CellServer, so that it is neither leaked nor deleted twice.  The
\* hand-off through _clientsBuff, its lock, the merge and the three removing
\* passes keep it so.
OneOwner ==
  \A c \in Live : IF hand = c THEN Holders(c) = {}
                              ELSE \E s \in Servers : Holders(c) = {s}

\* The threads implement ClientOwnership: a client goes from the accept thread
\* to one CellServer, stays there, and is deleted there, once; Close and
\* failing selects included.  It is a promise about steps: OneOwner would
\* allow a client to change hands.
HeldBy(t) == {c \in Live : IF t = Acceptor THEN hand = c ELSE t \in Holders(c)}
Ownership == INSTANCE ClientOwnership WITH
               held <- [t \in Threads |-> HeldBy(t)],
               deleted <- {c \in Clients : life[c] = "deleted"}
ImplementsOwnership == Ownership!OwnershipSpec

\* No pointer that a CellServer keeps dangles: those of the map, the entry
\* being erased apart, are live and filed under their own descriptor, although
\* the kernel reuses it as soon as the client is deleted; those of the queue
\* are live until the thread that owns it has ended.
MapLive ==
  \A s \in Servers, f \in Fds :
     clients[s][f] # NoClient /\ f # erasing[s] =>
        clients[s][f] \in Live /\ fd[clients[s][f]] = f
QueueLive  == \A s \in Servers : pc[s] # "done" => buff[s] \subseteq Live
NoDangling == MapLive /\ QueueLive

\* The statistics count of clients is the number of joined clients that have
\* not left, as long as no server has cleaned up: OnNetJoin and OnNetLeave
\* are called once each, by whatever path a client leaves.
Entries == {e \in Servers \X Fds : /\ clients[e[1]][e[2]] # NoClient
                                   /\ e[2] # erasing[e[1]]}
Working(s) == pc[s] \notin {"cleanBuff", "done"}
CountAgrees ==
  (\A s \in Servers : Working(s)) => clientCount = Cardinality(Entries)

\* The cached read set is the map's key set whenever _clients_change is
\* FALSE: every path that changes the map sets the flag (the merge at its
\* end), so that select never sees a closed or a foreign descriptor.
FdCacheCoherent ==
  \A s \in Servers :
     Working(s) /\ pc[s] # "merge" /\ ~change[s] =>
        bak[s] = Keys(s) /\ erasing[s] = NoFd

\* A map entry is never overwritten by another client: with a descriptor
\* reused too early `_clients[sockfd] = pClient' would lose the old one.
NoOverwrite ==
  [][\A s \in Servers, f \in Fds :
        clients[s][f] # NoClient =>
           clients'[s][f] \in {clients[s][f], NoClient}
    ]_vars

\* While a client is being dispatched every CellServer still serves: Close
\* stops the accept thread before the message threads.
NoHandoffToDead ==
  pc[Acceptor] = "scan" =>
     \A s \in Servers : pc[s] \notin {"cleanMap", "cleanBuff", "done"}

\* "When the object ends its resources are closed: thread and memory"
\* (CELLServer.hpp:33): a CellServer is deleted after its thread has ended.
FreedAfterDone == \A s \in Servers : s < closing => pc[s] = "done"

\* Also after a failed select, whose Exit Close does not wait for, a thread
\* whose CellServer is deleted has left its loop: what is left of it is
\* CleanClients.
FreedOutOfLoop ==
  \A s \in Servers :
     s < closing => pc[s] \in {"cleanMap", "cleanBuff", "done"}

\* Close and the threads it stops use each CELLThread as ThreadLifecycle says,
\* which module CELLThread shows that object to implement: the wait for
\* `done' stands for its semaphore.  A failed select, whose Exit ends a
\* thread that nobody has stopped, is not in that life cycle.
PhaseOf(t) == IF run[t] THEN "running"
              ELSE IF pc[t] = "done" THEN "stopped" ELSE "stopping"
Thread(t) == INSTANCE ThreadLifecycle WITH
               Callers <- {"main"}, NoCaller <- "none",
               phase <- PhaseOf(t),
               closer <- IF CloseWaitsFor(t) THEN "main" ELSE "none"
ThreadsAsPromised ==
  [][\A t \in Threads :
        Thread(t)!LifeNext \/ UNCHANGED <<PhaseOf(t), CloseWaitsFor(t)>>]_vars

\* When EasyTcpServer::Close returns no client object is left.
ReleasedAtClose == main = "closed" => Live = {}

\* EasyTcpServer::Close returns.
CloseTerminates == main = "closing" ~> main = "closed"

\* A client that is queued joins, unless its server is stopped.
QueuedJoins ==
  \A s \in Servers, c \in Clients :
     (c \in buff[s] /\ run[s]) ~> (c \notin buff[s] \/ ~run[s])

\* "If there is no client to handle, skip" (CELLServer.hpp:67): the read set
\* is never rebuilt from an empty map, whose begin() must not be read.
NonEmptyAtRebuild ==
  \A s \in Servers : pc[s] = "fdset" /\ change[s] => Keys(s) # {}
=============================================================================
