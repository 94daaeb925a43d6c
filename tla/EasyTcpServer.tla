----------------------------- MODULE EasyTcpServer ----------------------------
(***************************************************************************)
(* The life of an EasyTcpServer: its owner calls InitSocket, Listen, Start *)
(* and Close in any order and destroys it at last, while the accept thread *)
(* and the message threads run.  What they do with their clients between   *)
(* Start and Close is in CellServer.                                       *)
(*                                                                         *)
(* The accept thread is a CELLThread with one caller, the owner: Start may *)
(* create a second thread of execution after an Exit.  A CellServer is the *)
(* number of its creation; its CELLThread is started once and closed once, *)
(* by `delete', and msgPc says where its thread is.  A use of a deleted    *)
(* object is a fault, which ends the process.                              *)
(***************************************************************************)
EXTENDS Integers, Sequences

CONSTANTS
  N,           \* the CellServers that one Start creates
  MaxStarts,   \* bound on the calls of Start
  MaxSockets,  \* bound on the sockets that InitSocket creates
  MaxEvents    \* bound on the events of each kind

ASSUME SizeAssumption ==
  /\ N \in Nat \ {0}
  /\ MaxStarts \in Nat /\ MaxSockets \in Nat /\ MaxEvents \in Nat

Counters == {"recv", "msg"}
Workers  == 1 .. MaxStarts

VARIABLES
  sock,         \* _sock: "invalid", "open" or "listening"
  cellServers,  \* _cellServers
  made,         \* how many CellServers were created
  deleted,      \* those that were deleted
  msgPc,        \* where the thread of each of them is
  mutex, isRun, cpc, wpc, semCount, waiting,  \* of _thread, see CELLThread
  accPc,        \* where each thread of execution of _thread is in OnRun
  acceptLife,   \* history: "fresh", "exited" or "restarted" after an Exit
  ownerPc,      \* where the owner is: "idle" between two calls
  then,         \* what it goes on with when Close returns
  at,           \* its position in the loops of Start and of Close
  starts,       \* history: calls of Start
  sockets,      \* history: sockets created
  unguarded,    \* history: Start was called without a socket
  count,        \* _recvCount and _msgCount
  seen,         \* what time4msg has read of them, in each accept thread
  total,        \* history: what was counted
  reported,     \* history: what time4msg has reported
  missed,       \* history: what was counted between its read and its reset
  fault         \* history: "none", "dispatch", "twice" or "event"

serverVars == <<cellServers, made, deleted, msgPc>>
threadVars == <<mutex, isRun, cpc, wpc, semCount, waiting>>
ownerVars  == <<ownerPc, then, at, starts, sockets, unguarded>>
statVars   == <<count, seen, total, reported, missed>>
vars       == <<sock, serverVars, threadVars, accPc, acceptLife, ownerVars,
                statVars, fault>>

Thread == INSTANCE CELLThread
            WITH Callers <- {"owner"}, NoCaller <- "nobody",
                 ExitAllowed <- TRUE, SpuriousWakeups <- FALSE

InVector   == {cellServers[i] : i \in 1 .. Len(cellServers)}
Undeleted  == (1 .. made) \ deleted
Accepts(w) == wpc[w] = "run"

TypeOK ==
  /\ sock        \in {"invalid", "open", "listening"}
  /\ cellServers \in Seq(1 .. made)
  /\ made        \in Nat
  /\ deleted     \in SUBSET (1 .. made)
  /\ msgPc       \in [1 .. made -> {"loop", "exit", "quit", "clean", "done"}]
  /\ Thread!TypeOK
  /\ accPc       \in [Workers -> {"loop", "recv", "msg", "select"}]
  /\ acceptLife  \in {"fresh", "exited", "restarted"}
  /\ ownerPc     \in {"idle", "start", "join", "delete", "wait", "sock",
                      "socket", "gone"}
  /\ then        \in {"idle", "socket", "gone"}
  /\ at          \in Nat
  /\ starts      \in 0 .. MaxStarts
  /\ sockets     \in 0 .. MaxSockets
  /\ unguarded   \in BOOLEAN
  /\ \A f \in {count, total, reported, missed} : f \in [Counters -> Nat]
  /\ seen        \in [Workers -> [Counters -> Nat]]
  /\ fault       \in {"none", "dispatch", "twice", "event"}

Zero == [k \in Counters |-> 0]

Init ==
  /\ sock = "invalid"
  /\ cellServers = <<>> /\ made = 0 /\ deleted = {} /\ msgPc = <<>>
  /\ Thread!Init
  /\ accPc = [w \in Workers |-> "loop"] /\ acceptLife = "fresh"
  /\ ownerPc = "idle" /\ then = "idle" /\ at = 1
  /\ starts = 0 /\ sockets = 0 /\ unguarded = FALSE
  /\ count = Zero /\ total = Zero /\ reported = Zero /\ missed = Zero
  /\ seen = [w \in Workers |-> Zero]
  /\ fault = "none"

Crash(kind) ==
  /\ fault' = kind
  /\ UNCHANGED <<sock, serverVars, threadVars, accPc, acceptLife, ownerVars,
                 statVars>>

-----------------------------------------------------------------------------
\* Slips: Close does not wait for the accept thread; Close skips the last
\* server; time4msg forgets a reset.
JoinNoWait ==
  /\ ownerPc = "join"
  /\ ownerPc' = IF sock = "invalid" THEN then ELSE "delete"
  /\ UNCHANGED <<sock, serverVars, threadVars, accPc, acceptLife, then, at,
                 starts, sockets, unguarded, statVars, fault>>

DeletedAllButOne ==
  /\ ownerPc = "delete" /\ at >= Len(cellServers)
  /\ ownerPc' = "sock" /\ at' = 1
  /\ UNCHANGED <<sock, serverVars, threadVars, accPc, acceptLife, then, starts,
                 sockets, unguarded, statVars, fault>>

ResetForgotten(w, k) ==
  /\ Accepts(w) /\ accPc[w] = k
  /\ reported' = [reported EXCEPT ![k] = @ + seen[w][k]]
  /\ accPc' = [accPc EXCEPT ![w] = IF k = "recv" THEN "msg" ELSE "select"]
  /\ seen' = [seen EXCEPT ![w][k] = 0]
  /\ UNCHANGED <<sock, serverVars, threadVars, acceptLife, ownerVars, count,
                 total, missed, fault>>

-----------------------------------------------------------------------------
\* The calls of the owner.  InitSocket closes an open server first; Close
\* begins with CELLThread::Close, which does nothing if _isRun is not set,
\* and so does the destructor.
Call(next, after) ==
  /\ ownerPc = "idle"
  /\ ownerPc' = next
  /\ then' = after

BeginClose(after) ==
  /\ Call("join", after)
  /\ IF isRun THEN Thread!Close("owner") ELSE UNCHANGED threadVars
  /\ UNCHANGED <<sock, serverVars, accPc, acceptLife, at, starts, sockets,
                 unguarded, statVars, fault>>

InitSocketOpen == sock # "invalid" /\ BeginClose("socket")
Close          == BeginClose("idle")
Destroy        == BeginClose("gone")

NewSocket ==
  /\ \/ ownerPc = "idle" /\ sock = "invalid"
     \/ ownerPc = "socket"
  /\ \/ sock' = "invalid" /\ UNCHANGED sockets
     \/ /\ sockets < MaxSockets
        /\ sock' = "open" /\ sockets' = sockets + 1
  /\ ownerPc' = "idle" /\ then' = "idle"
  /\ UNCHANGED <<serverVars, threadVars, accPc, acceptLife, at, starts,
                 unguarded, statVars, fault>>

\* Bind and Listen: if one fails the server runs without being reached.
Listen ==
  /\ ownerPc = "idle" /\ sock = "open"
  /\ sock' = "listening"
  /\ UNCHANGED <<serverVars, threadVars, accPc, acceptLife, ownerVars,
                 statVars, fault>>

Start ==
  /\ Call("start", "idle")
  /\ starts < MaxStarts
  /\ starts' = starts + 1
  /\ unguarded' = (unguarded \/ sock = "invalid")
  /\ UNCHANGED <<sock, serverVars, threadVars, accPc, acceptLife, at, sockets,
                 statVars, fault>>

StartServer ==
  /\ ownerPc = "start" /\ at <= N
  /\ made' = made + 1
  /\ cellServers' = Append(cellServers, made + 1)
  /\ msgPc' = Append(msgPc, "loop")
  /\ at' = at + 1
  /\ UNCHANGED <<sock, deleted, threadVars, accPc, acceptLife, ownerPc, then,
                 starts, sockets, unguarded, statVars, fault>>

\* CELLThread::Start does nothing if _isRun is set.
StartThread ==
  /\ ownerPc = "start" /\ at > N
  /\ IF isRun THEN UNCHANGED threadVars ELSE Thread!Start(starts)
  /\ acceptLife' = IF acceptLife = "exited" THEN "restarted" ELSE acceptLife
  /\ ownerPc' = "idle" /\ at' = 1
  /\ UNCHANGED <<sock, serverVars, accPc, then, starts, sockets, unguarded,
                 statVars, fault>>

\* _sem.wait() of CELLThread::Close: after an Exit its count is one too high,
\* so that the Close of a restarted thread may return at once.
JoinWait ==
  /\ ownerPc = "join"
  /\ Thread!SemWait("owner") \/ Thread!CloseReturn("owner")
  /\ UNCHANGED <<sock, serverVars, accPc, acceptLife, ownerVars, statVars,
                 fault>>

\* CELLThread::Close has returned.  Without a socket Close leaves the
\* CellServers as they are.
Join ==
  /\ ownerPc = "join"
  /\ cpc["owner"] = "idle"
  /\ ownerPc' = IF sock = "invalid" THEN then ELSE "delete"
  /\ UNCHANGED <<sock, serverVars, threadVars, accPc, acceptLife, then, at,
                 starts, sockets, unguarded, statVars, fault>>

\* `delete' closes the thread of the CellServer: it waits for a thread whose
\* _isRun is set, and does not for one that has called Exit.
Deletes(s) == ownerPc \in {"delete", "wait"} /\ at <= Len(cellServers)
              /\ s = cellServers[at]

DeleteWaits(s) ==
  /\ ownerPc = "delete" /\ Deletes(s) /\ s \notin deleted
  /\ msgPc[s] \in {"loop", "exit"}
  /\ ownerPc' = "wait"
  /\ UNCHANGED <<sock, serverVars, threadVars, accPc, acceptLife, then, at,
                 starts, sockets, unguarded, statVars, fault>>

DeleteServer(s) ==
  /\ Deletes(s) /\ s \notin deleted
  /\ msgPc[s] \in IF ownerPc = "wait" THEN {"done"} ELSE {"quit", "done"}
  /\ deleted' = deleted \cup {s}
  /\ at' = at + 1
  /\ ownerPc' = "delete"
  /\ UNCHANGED <<sock, cellServers, made, msgPc, threadVars, accPc,
                 acceptLife, then, starts, sockets, unguarded, statVars, fault>>

DeleteTwice(s) ==
  /\ ownerPc = "delete" /\ Deletes(s) /\ s \in deleted
  /\ Crash("twice")

\* The vector is swapped with a copy of itself: the pointers stay in it.
Deleted ==
  /\ ownerPc = "delete" /\ at > Len(cellServers)
  /\ ownerPc' = "sock" /\ at' = 1
  /\ UNCHANGED <<sock, serverVars, threadVars, accPc, acceptLife, then,
                 starts, sockets, unguarded, statVars, fault>>

CloseSocket ==
  /\ ownerPc = "sock"
  /\ sock' = "invalid"
  /\ ownerPc' = then
  /\ UNCHANGED <<serverVars, threadVars, accPc, acceptLife, then, at, starts,
                 sockets, unguarded, statVars, fault>>

-----------------------------------------------------------------------------
\* An accept thread: the report of time4msg when a second has passed, then
\* select and accept.
Goes(w, from, to) ==
  /\ Accepts(w) /\ accPc[w] = from
  /\ accPc' = [accPc EXCEPT ![w] = to]
  /\ UNCHANGED <<sock, serverVars, threadVars, acceptLife, ownerVars, fault>>

Report(w) ==
  /\ isRun
  /\ Goes(w, "loop", "recv")
  /\ seen' = [seen EXCEPT ![w] = count]
  /\ UNCHANGED <<count, total, reported, missed>>

NoReport(w) == isRun /\ Goes(w, "loop", "select") /\ UNCHANGED statVars

ResetCount(w, k) ==
  /\ Goes(w, k, IF k = "recv" THEN "msg" ELSE "select")
  /\ reported' = [reported EXCEPT ![k] = @ + seen[w][k]]
  /\ count' = [count EXCEPT ![k] = 0]
  /\ seen' = [seen EXCEPT ![w][k] = 0]
  /\ UNCHANGED <<total, missed>>

\* No connection, or accept() fails.
NoConnection(w) == Goes(w, "select", "loop") /\ UNCHANGED statVars

\* addClientToCellServer asks every server of the vector for its load.
Dispatch(w) ==
  /\ sock = "listening" /\ InVector \cap deleted = {}
  /\ Goes(w, "select", "loop")
  /\ UNCHANGED statVars

DispatchToDeleted(w) ==
  /\ Accepts(w) /\ accPc[w] = "select"
  /\ sock = "listening" /\ InVector \cap deleted # {}
  /\ Crash("dispatch")

\* select fails; then CELLThread::Exit, which needs the mutex.
SelectFails(w) ==
  /\ accPc[w] = "select"
  /\ Thread!BodyFails(w)
  /\ UNCHANGED <<sock, serverVars, accPc, acceptLife, ownerVars, statVars,
                 fault>>

AcceptExit(w) ==
  /\ Thread!Exit(w)
  /\ acceptLife' = IF acceptLife = "fresh" THEN "exited" ELSE acceptLife
  /\ UNCHANGED <<sock, serverVars, accPc, ownerVars, statVars, fault>>

AcceptStops(w) ==
  /\ accPc[w] = "loop"
  /\ Thread!BodyEnds(w)
  /\ UNCHANGED <<sock, serverVars, accPc, acceptLife, ownerVars, statVars,
                 fault>>

AcceptEnds(w) ==
  /\ Thread!Destroy(w) \/ Thread!WorkerWakeup(w)
  /\ UNCHANGED <<sock, serverVars, accPc, acceptLife, ownerVars, statVars,
                 fault>>

-----------------------------------------------------------------------------
\* The thread of a CellServer: a failing select ends its loop through Exit,
\* which needs the mutex that a waiting `delete' holds; CleanClients follows.
MsgGoes(s, from, to) ==
  /\ msgPc[s] = from
  /\ msgPc' = [msgPc EXCEPT ![s] = to]
  /\ UNCHANGED <<sock, cellServers, made, deleted, threadVars, accPc,
                 acceptLife, ownerVars, statVars, fault>>

Waited(s) == ownerPc = "wait" /\ Deletes(s)

MsgStops(s) == Waited(s) /\ MsgGoes(s, "loop", "clean")
MsgFails(s) == MsgGoes(s, "loop", "exit")
MsgExit(s)  == ~Waited(s) /\ MsgGoes(s, "exit", "quit")
MsgEnds(s)  == MsgGoes(s, "clean", "done") \/ MsgGoes(s, "quit", "done")

\* In its loop it calls OnNetRecv and OnNetMsg of the EasyTcpServer.
Reporting(k) == \E w \in Workers : Accepts(w) /\ accPc[w] \in {"recv", k}

OnNetEvent(s, k) ==
  /\ msgPc[s] = "loop" /\ ownerPc # "gone"
  /\ total[k] < MaxEvents
  /\ count' = [count EXCEPT ![k] = @ + 1]
  /\ total' = [total EXCEPT ![k] = @ + 1]
  /\ missed' = [missed EXCEPT ![k] = IF Reporting(k) THEN @ + 1 ELSE @]
  /\ UNCHANGED <<sock, serverVars, threadVars, accPc, acceptLife, ownerVars,
                 seen, reported, fault>>

EventToDeleted(s) ==
  /\ msgPc[s] = "loop" /\ ownerPc = "gone"
  /\ Crash("event")

Owner ==
  \/ InitSocketOpen \/ NewSocket \/ Listen \/ Start \/ Close \/ Destroy
  \/ StartServer \/ StartThread
  \/ JoinWait \/ Join \/ Deleted \/ CloseSocket
  \/ \E s \in 1 .. made : DeleteWaits(s) \/ DeleteServer(s) \/ DeleteTwice(s)

AcceptThread(w) ==
  \/ Report(w) \/ NoReport(w) \/ \E k \in Counters : ResetCount(w, k)
  \/ NoConnection(w) \/ Dispatch(w) \/ DispatchToDeleted(w)
  \/ SelectFails(w) \/ AcceptExit(w) \/ AcceptStops(w) \/ AcceptEnds(w)

MessageThread(s) ==
  \/ MsgStops(s) \/ MsgFails(s) \/ MsgExit(s) \/ MsgEnds(s)
  \/ EventToDeleted(s) \/ \E k \in Counters : OnNetEvent(s, k)

Next ==
  /\ fault = "none"
  /\ \/ Owner
     \/ \E w \in Workers : AcceptThread(w)
     \/ \E s \in 1 .. made : MessageThread(s)

Spec == Init /\ [][Next]_vars

-----------------------------------------------------------------------------
\* As long as InitSocket has created one socket, no CellServer is deleted
\* twice, and none is dispatched to after its deletion unless the accept
\* thread was started again after an Exit.  Close leaves the deleted pointers
\* in _cellServers, and a second socket brings them back to use, even without
\* a second Start; the wakeup of a thread that called Exit is left over for
\* the next Close, which then deletes servers under the accept thread.
ServersUsedAlive ==
  /\ fault = "twice" => sockets > 1
  /\ fault = "dispatch" => sockets > 1 \/ acceptLife = "restarted"

\* When the server is destroyed its threads have ended, but for those that
\* called Exit, which no Close waits for, and the message threads of a server
\* that was started without a socket, which Close does not stop.  Only these
\* last call into the destroyed server.
ThreadsEnd ==
  /\ ownerPc = "gone" =>
       /\ \A s \in 1 .. made : msgPc[s] \in {"quit", "done"} \/ unguarded
       /\ Thread!Active = {} \/ acceptLife # "fresh"
  /\ fault = "event" => unguarded

\* The statistics are right but for what comes in while time4msg is between
\* its read and its reset, and never too high, as long as no second accept
\* thread can report at the same time.
StatisticsHonest ==
  acceptLife # "restarted" =>
    \A k \in Counters :
       /\ reported[k] + count[k] <= total[k]
       /\ reported[k] + count[k] + missed[k] >= total[k]
=============================================================================
