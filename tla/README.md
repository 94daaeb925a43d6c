# Specifications of millionTCPServer

TLA+ models of the select-based TCP server under `src/HelloSocket`, the TLC
runs that check them on small instances, and TLAPS proofs of the main results
for every size. Source names without a path are files of
`src/HelloSocket/dependence/include`. The Linux branch of every `#ifdef` is
the one modelled.

## Inventory

| component | state | operations | who calls it |
|---|---|---|---|
| `EasyTcpServer` (EasyTcpServer.hpp) | accept thread, listening socket, vector of `CellServer*`, three atomic counters | InitSocket, Bind, Listen, Start, Accept, addClientToCellServer, time4msg, Close, OnNet* | `main` of server.cpp starts and closes it; its accept thread runs OnRun; every message thread calls OnNet* |
| `CellServer` (CELLServer.hpp) | `_clients` (descriptor → client), `_clientsBuff` with `_mutex`, cached read set, `_clients_change`, `_oldTime` | addClient, getClientCount (accept thread); OnRun: merge, CheckTime, select, ReadData, WriteData; CleanClients; Close | one thread per object, plus the accept thread and the closer |
| `CellClient` (CELLClient.hpp), `CELLBuffer` (CELLBuffer.hpp) | descriptor, receive and send buffer, heartbeat and send timers | read4socket, hasMsg, pop, push, write2socket, checkHeart, checkSend | the message thread (server); two threads (client) |
| `MyServer::OnNetMsg` (server.cpp) | – | reaction to LOGIN, LOGOUT, C2S_HEART | CellServer::RecvData |
| `CELLThread` (CellThread.hpp) | `_isRun`, `_mutex`, a semaphore | Start, Close, Exit, isRun, OnWork | EasyTcpServer, CellServer, CellTaskServer |
| `CELLSemaphore` (CELLSemaphore.hpp) | counter from 1, mutex, condition variable | wait, wakeup | CELLThread |
| `CellTaskServer` (CELLTask.hpp) | two task lists, `_mutex`, a thread | addTask, Start, Close, OnRun | CELLLog |
| `CELLLog` (CELLLog.hpp) | `FILE*`, a task server | Info, setLogPath, destructor | everybody |
| `EasyTcpClient` (EasyTcpClient.hpp), load generator (client.cpp) | a CellClient, `_isConnect` | InitSocket, Connect, OnRun, SendData, Close | a send thread and a receive thread for each group of clients |
| `CELLStream`, `CELLMsgStream` | byte array, read and write position | Read, Write, ReadArray, WriteArray, finish | nobody |
| clock, `CELLNetWork`, `INetEvent`, `CELL.hpp` | – | wrappers, an interface, constants | everybody |
| `HelloEpoll`, `Test.cpp` | – | experiments | not part of the server |

A new connection is accepted by the accept thread, wrapped in a `CellClient`,
and handed to the `CellServer` with the smallest `getClientCount()` through its
locked `_clientsBuff`. The message thread of that server moves it to its map,
which only that thread uses (apart from the unlocked `size()`), and from then
on serves and finally deletes it. `Close` stops the accept thread, then each
message thread in turn.

What is hard here, and what correctness means for each part:

- *Connections*: three kinds of threads share clients, queues and counters;
  the kernel reuses a descriptor the moment a client is deleted, while the map
  and the cached read set still know the number. Correct: every live client
  has one owner, nothing dangles, nothing is overwritten, the caches agree.
- *Threads*: Start, Close and Exit race on `_isRun` and on one semaphore.
  Correct: one worker at a time, Close returns, and not before the worker ends.
- *Tasks*: the worker drains without the lock at the end. Correct: FIFO, once
  each, and Close flushes.
- *Life of the server*: its owner may call InitSocket, Start and Close again
  and in any order; deleted pointers stay in a vector. Correct: servers are used
  while they are alive, and their threads end with them.
- *Heartbeat*: the check comes before the read that would reset the count.
  Correct: a client that keeps sending stays, a silent one goes.
- *Load generator*: two threads share a client without a lock. Correct: what
  goes out is what was pushed, and nobody uses a deleted object.
- *Log*: callers replace the file while the log thread writes. Correct: the
  file is used while it is open.
- *Serialisation*: bounds tests and a length field of 16 bits. Correct: what was
  written is read back, within the buffer.
- *Connection streams*: TCP cuts anywhere, both buffers have a limit, send
  blocks. Correct: messages are seen whole and in order, replies are not torn.

The list of hazards, each at its line and with the properties that look for
it, is in `PROJECT.json`.

## Modules

| module | models |
|---|---|
| `CellServer` | EasyTcpServer and its CellServers: accept, dispatch, merge, the three passes, select, clean-up, Close |
| `ClientOwnership` | abstract: who holds a client, from its creation to its deletion |
| `CELLSemaphore` | wait and wakeup, any notify order, optional spurious wakeups |
| `CELLThread` | a thread object with its callers and workers, on top of `CELLSemaphore` |
| `ThreadLifecycle` | abstract: what CELLThread promises |
| `CellTaskServer` | the task lists and their worker |
| `TaskQueue` | abstract: a FIFO queue whose elements are consumed one at a time |
| `CELLBuffer` | the buffer operations on sequences of message pieces |
| `CellClient` | one connection of the server: pass after pass of its thread, and the peer |
| `EasyTcpServer` | its owner's calls in any order, the accept thread on an instance of `CELLThread`, how the message threads end, the statistics |
| `Heartbeat` | the time-outs of the clients of one CellServer, with a clock |
| `EasyTcpClient` | one client of the load generator under its two threads |
| `CELLLog` | the log file around `CellTaskServer`, whose steps it takes over |
| `CELLStream` | a message written with CELLWriteStream and read with CELLReadStream |
| `CELLThreadHistory` | `CELLThread` with a variable that tells whether Exit or a spurious wakeup has happened |
| `MCCellServer`, `MCCellClient` | symmetry sets and constant values for TLC |
| `CellServerProofs`, `CELLThreadProofs`, `CELLLogProofs`, `CellClientProofs`, `EasyTcpServerProofs`, `HeartbeatProofs`, `EasyTcpClientProofs`, `CELLStreamProofs` | theorems |

Definitions whose comment starts with *Slip* are wrong on purpose: an action
with one plausible mistake in it. No specification uses them; they are there to
confirm that each property notices a mistake of that kind (`mutants` in
`PROJECT.json`).

### CellServer

State: one program counter for each thread, `run` (`_isRun`), and for each
server `clients`, `buff`, `change` and `bak` as in the class. `unmerged`,
`doomed` and `erasing` are the positions of its loops: the part of the queue
the range-for has not reached, the clients the current pass will still remove,
and the key between `delete` and `erase`. `life` and `fd` describe the client
objects; a descriptor is open while the client that has it is live. `hand`,
`minServer`, `next` and `sizes` are the locals of the dispatch.

Granularity: a step is what runs under one lock, or one access to something
another thread or the kernel sees. (The test of `isRun` at the head of a message
thread's loop is joined to the step after it: nothing else looks at the flag
there, so a Close in between makes no difference.) The comparison of two
`getClientCount()` values therefore takes four reads. Between `delete` and
`erase` other threads may run, because the descriptor is already free. Which
clients a pass removes is an arbitrary choice: expired ones in CheckTime, those
whose `recv` fails in ReadData, whose `send` fails in WriteData. Messages,
buffers and time are in `CellClient`.

The semaphore of CELLThread is not repeated: `Close` here waits until the
thread has ended, and does not wait when `_isRun` is already FALSE. `Exit`
needs the mutex that a waiting Close holds. With an empty map `_maxSock` is an
arbitrary number, so that `select` may fail or find nothing.

A CellServer that was deleted under its running thread goes on with its memory
intact in the model. With failing selects this happens: the thread that called
Exit may be in CleanClients while Close deletes its object. FreedOutOfLoop says
that it has at least left its loop; no property is meant to say something about
what follows.

### EasyTcpServer

The same class seen from its owner. `InitSocketOpen`, `NewSocket`, `Listen`,
`Start`, `Close` and `Destroy` are the public calls (Bind and Listen are one
step; when one of them fails the socket stays as it is); a call that takes
several steps leaves `ownerPc` inside it, and `then` says what it returns to,
as InitSocket and the destructor call Close.

The accept thread is an instance of `CELLThread` with one caller, the owner, and
with its semaphore: `Join` goes on when the Close of that module has returned,
which after an Exit and a second Start may be too early. A CellServer is the
number of its creation, and `cellServers` keeps deleted ones, as the vector
does. Its own CELLThread is started and closed once, so that no wakeup is left
over, and `msgPc` is enough for it: a thread in its loop or about to call Exit
is waited for, and one that has called Exit (`quit`) is not. An Exit on either
side needs the mutex that a waiting Close holds, so that both may block. The
message threads only count and end here. `unguarded`, `acceptLife`, `total`,
`reported` and `missed` are histories. A use of a deleted object ends the
process (`fault`). What the threads do with clients is left to `CellServer`,
which starts where `Start` has returned.

Left out: a second Start appends to the vector while an accept thread of the
first may walk over it, a data race of the library's container.

The comments at EasyTcpServer.hpp:217 and 223, on which callbacks are safe, are
older than the code: the counters are atomic now, and OnNetJoin is called by
several threads. `CountAgrees` and `StatisticsHonest` are about what remains.

### Heartbeat

One message thread and its clients on a clock `now`. `dtHeart` and `oldTime` are
the members of the code; a client is in the queue, in the map or gone. The
thread reads its clock once in a pass; `MaxPass` bounds the time between two
readings. `Tick` does not pass that bound, nor the time at which a client of
`Keen` is due to send: that is what makes it keen. LOGIN stands for the messages
that reset the count (C2S_HEART does so too), LOGOUT for those that do not;
`lastHeard` and `lastRead` are when a client sent the first kind and when any
message of it was read. Removing a client, reading one and selecting are steps,
so that messages arrive between any two of them.

### EasyTcpClient

`sendThread` and `recvThread` of client.cpp have a program counter each. The
makefile compiles with -g and no optimisation, so every access of the source is
an access to memory: `_nLast += nLen` is a load and a store, Close deletes,
clears the pointer and clears the flag in three steps. The send buffer is an
array of slots of one login each, as all logins have one length; a login is the
serial number of its SendData, and 0 is a slot never written. `Close(thread)`
is taken by both threads. Every step that would use a null `_pClient`, a
deleted CellClient or a deleted client object is a fault step instead, and
ends both threads. The server reads and replies as long as the client's socket
has room. `overlapped` records that a push and a write2socket were under way at
one time.

### CELLThread and CELLSemaphore

`wait` and `wakeup` hold the semaphore's mutex throughout, so each is one step;
a waiting thread is a member of `waiting`. `Start` and `Exit` are one step
under `_mutex`; `Close` keeps `_mutex` over several. Callers are owner threads,
workers the threads that `Start` creates.

### CellTaskServer

Two sequences and a position `at` for the range-for. The test of `_isRun` is a
step of its own (`EnterLoop`), so that Close and addTask may come before the
fetch. `added`, `executed` and
`promised` are histories. A task of an append during the drain is still reached
by the iteration, as with `std::list`; the data race on the list itself is not
modelled.

### CELLLog

The module extends CellTaskServer and conjoins its steps with the log's own
variables. A task first tests `_logFile` (`TestFile`) and then writes through
it (`WriteFile`, joined with the step of the task server that executes it).
setLogPath closes, clears and opens the file in three steps; it logs too, which
is an AddTask like any other. The destructor is Close of the task server, then
`DestroyFile` and `DestroyClears`.

### CELLStream

Offsets, widths and tests are those of the code. The contents of the buffer are
kept as objects at the offset of their first byte, with their width and the
serial number of their write, so that a read at a wrong place or of a wrong
width finds something else. `LengthLimit` stands for 2^16 in the truncation of
the length, so that a short buffer reaches it.

### CELLBuffer and CellClient

A byte stream is a sequence of pieces `<<kind, i>>`; the first piece of a
message stands for the header's length field, so a buffer that lost its framing
reads a wrong length here as in the code. `toServer` and `toPeer` are the two
directions of the connection, `got`, `asked`, `handled` and `answered`
histories. `send` hands over one piece at a time and blocks while the window is
full. The peer may close in order (the stream ends after its data) or reset
(data under way is lost, `send` fails; when a part had gone out before, it
returns that number, and WriteData keeps the client). `_fullCount` is never read
and is left out.

## Runs

All cfgs set `CHECK_DEADLOCK FALSE`: each of these systems may stop, after
Close, after the last task or request.

| run | instance | shows |
|---|---|---|
| `CellServer_core` | 2 servers, 3 clients, 2 descriptors, failing selects and heartbeat time-outs, symmetry | ImplementsOwnership, NoDangling, FreedOutOfLoop, CountAgrees, FdCacheCoherent, NoOverwrite, TypeOK |
| `CellServer_shutdown` | 2 servers, 2 clients, 2 descriptors, no failing select, no time-out, fair threads | NoHandoffToDead, FreedAfterDone, ReleasedAtClose, CloseTerminates, QueuedJoins, ThreadsAsPromised |
| `EasyTcpServer_life` | 1 server a Start, 2 Starts, 2 sockets, 1 event of each kind, failing selects | ServersUsedAlive, ThreadsEnd, StatisticsHonest |
| `Heartbeat_limit` | 2 clients, one of them keen; limit 4, period 1, pass 1, clock to 8 | KeenStays, SilentGoes |
| `CELLThread_life` | module CELLThreadHistory: 2 callers, 3 workers, Exit and spurious wakeups | NoLostWakeup, SingleWaiter, LifecycleUntilFault, CloseReturnsUntilFault |
| `CellTaskServer_queue` | module CELLLog: 4 tasks, one start, 2 calls of setLogPath | CloseFlushes, FileUsedOpen, ImplementsQueue, EveryTaskRuns, ThreadAsPromised |
| `CellClient_stream` | 3 requests, header 2, messages 2 to 4, receive buffer 4, send buffer 5, window 3 | RequestStream, ReplyStream, ImplementsFifo, NothingLostAtHangUp, RepliesLeave, TypeOK |
| `EasyTcpClient_race` | 3 slots, 3 unread replies, 2 logins under way, 6 logins | SlotsWritten, LossNeedsRace, FaultNeedsCause, Flushed |
| `CELLStream_message` | 16 bytes, widths 1, 2, 4, arrays of 0 to 2 elements, length wraps at 15 | WithinWritten, ReadBack |

Runs that expect a violation, see below:

| run | instance | violated |
|---|---|---|
| `CellServer_empty_map` | 2 servers, 2 clients, heartbeat time-outs | NonEmptyAtRebuild |
| `EasyTcpClient_unread` | that of EasyTcpClient_race, fair threads | ReadableReceived |
| `Heartbeat_logout` | that of Heartbeat_limit | TalkersStay |

Three abstract specifications are implemented, each as a property of a run:
`ClientOwnership` by `CellServer`, `ThreadLifecycle` by `CELLThread` up to the
first Exit or spurious wakeup (`LifecycleUntilFault`), `TaskQueue` by
`CellTaskServer`, and `TaskQueue` again by the requests of a connection
(`ImplementsFifo`). What follows from one of them is not checked beside it:
`OneOwner` from ImplementsOwnership, `AtMostOneWorker` and
`CloseWaitsForWorker` from the life cycle. They are stated in their modules, and
proved, as is `ImplementsLifecycle`, the whole refinement, for objects in which
the two faults cannot happen.

`ThreadLifecycle` also links the modules. `CellServer`, `EasyTcpServer::Close` in
it, and `CellTaskServer` do not contain the semaphore of CELLThread; they wait
until the thread has ended. `ThreadsAsPromised` and `ThreadAsPromised` say that
this wait, and the flag around it, is the life cycle that `CELLThread` is shown
to implement with its semaphore. An Exit is outside that life cycle, on both
sides.

Bounds: three clients over two descriptors is the least at which a number is
reused while another is in use; two servers are enough for a comparison and
for two owners; three workers let a late wakeup of the first meet the third.
In `CellClient_stream` the receive buffer holds exactly the longest message,
the send buffer one reply and a part of the next, the window less than one
reply, so that cutting, refusal and blocking all occur. In `EasyTcpServer_life`
two Starts and two sockets give every order in which a deleted server may come
back and in which an Exit leaves its wakeup to the next thread; one server a
Start gives two in the vector, and one event may come before, in or after a
report. In `Heartbeat_limit` the
limit is the least that TimeAssumption allows, and the clock runs for two
limits. In `EasyTcpClient_race` six logins fill the buffer twice, the
connection and the client's socket fill up, and exit and a loss of the
connection may come anywhere. In `CELLStream_message` a message may be longer
than the length field can say.

Each run with a violation states what a comment of the code says, and is listed
under `findings` in `PROJECT.json` with the words:

- `CellServer_empty_map`: the map can be empty where `begin()` is read.
- `EasyTcpClient_unread`: a readable socket is answered with a send, and its
  data are never read. The trace is one under fair threads.
- `Heartbeat_logout`: every message is to reset the heartbeat; LOGOUT does not.

What holds only under a condition, which the property names or the constants
set, and what goes wrong without it:

- `LifecycleUntilFault` and `CloseReturnsUntilFault` end at the first Exit or
  spurious wakeup. `Close` should "block until the thread has completely ended"
  (CellThread.hpp:43), but the wakeup that an earlier thread left when it called
  Exit, or a spurious one, lets it return before (`CloseWaitsForWorker` fails);
  and Exit may wait for the mutex of the Close that waits for it.
- `ImplementsQueue`, `EveryTaskRuns` and `CloseFlushes` are for one start
  (`MaxStarts`). With two, the first fails: the tasks of the drain are not
  cleared, and the next worker executes them again. The log is started once.
- `NoHandoffToDead`, `FreedAfterDone`, `ReleasedAtClose` and `ThreadsAsPromised`
  hold as long as no thread calls Exit; with failing selects `FreedOutOfLoop` is
  what remains of the second.
- `ServersUsedAlive`: with a second socket the accept thread dispatches to the
  deleted servers left in the vector, and Close deletes them twice; with one
  socket it dispatches to a deleted server only when it was started again after
  an Exit, because Close may then return before it has ended.
- `ThreadsEnd`: after a Start without a socket Close does not stop the message
  threads, which then call a destroyed object; a thread that called Exit may
  outlive the server, with nothing to do but CleanClients and the wakeup, or,
  once the accept thread was restarted, with its loop.
- `StatisticsHonest`: two accept threads, after a restart, may report the same
  events twice.
- `FileUsedOpen`: the file is given one path. A second setLogPath closes it under
  a task that has tested it.
- `LossNeedsRace`: a push during a write2socket loses logins, or sends some
  twice. `FaultNeedsCause`: at exit, after a lost connection, or with no socket,
  a thread meets a null pointer or a deleted object.
- `ReadBack`: an array as long as the caller's place is refused; an empty one
  looks like a failure; a length of 2^16 or more wraps.
- `KeenStays`: a pass lasts at most `MaxPass`. One that is blocked in `send` is
  longer, and its clients are all charged for it.
- `RepliesLeave`: a peer that stays connected reads. One that does not, as
  EasyTcpClient, blocks the thread in `send`, and with it all clients of its
  server.
- `TypeOK` of CellServer says only that the dispatch has chosen a server. The one
  "with the fewest clients" (EasyTcpServer.hpp:136) it need not be, as
  getClientCount counts a client under merge twice or not at all.

### Fairness

`CellServer!FairSpec`: weak fairness of each thread's steps, as the scheduler
gives to a runnable thread; `select` waits at most a microsecond, and `send`
and `recv` are assumed to return here. Nobody has to connect or close.
A mutex that is free only now and then would ask for more than weak fairness:
`AddClient` waits for the merge lock, which the message thread holds for a
bounded number of steps, and it is enabled again whenever that thread is in
its passes; the run shows that Close terminates under weak fairness because
the message thread comes to rest when no new client arrives.
`CELLThread!Fairness`: workers and callers inside Close keep running.
`CELLLog!LogFairSpec`: the worker keeps running, and Close returns.
`EasyTcpClient!FairSpec`: recvThread keeps running, inside Close too, and the
server keeps reading as long as its reply has room. Nothing is asked of
sendThread.
`EasyTcpServer`, `Heartbeat` and `CELLStream` have safety properties only; the
promptness that Heartbeat needs is in `MaxPass`.
`CellClient!FairSpec`: the message thread keeps running, a connected peer keeps
reading, and TCP answers data for a closed end with a reset. The second is an
assumption about the peer.

## Proofs

`tlapm` checks all theorems; every constant is arbitrary within the
assumptions named in the modules (at least one server, finite sets of clients
and descriptors).

*CellServerProofs.* None of the properties of `CellServer_core` is inductive
alone. The invariant `IInv` joins them with: two live clients never share a
descriptor (`FdUnique`); objects not yet allocated appear nowhere (`Fresh`);
the client in the accept thread's hand is live and in no container
(`HandOK`, `HandFree`); what the phases of a message thread imply for
`erasing`, `doomed` and `unmerged` (`ErasingOK`, `DoomedOK`, `MergeOK`); no two
servers hold the same client (`OwnerUnique`), and every live client is held by
someone (`Owned`). `OneOwner`, `NoDangling` and `NoOverwrite` follow from it;
`FdCacheCoherent` and `CountAgrees` have invariants of their own on top, the
second by counting map entries with the cardinality theorems;
`FreedOutOfLoop` has one about the threads that Close has passed.

`OwnershipCorrect` is the refinement of `ClientOwnership`, step by step: Accept is
a Create, because the descriptor that the kernel gives is that of no live
client; AddClient is a HandOver; Leave, CleanMap and CleanBuff are DeleteOwn of
clients that the deleting thread holds (`OwnerUnique` says that no other thread
loses one); the steps of a merge, in which a client is in the queue and in the
map, and all others leave every thread with what it holds.

`CloseInv` is the order of Close: which threads it has told to stop, which of
them have ended, and what they have left. It is kept by every step but Exit, so
that NoHandoffToDead, FreedAfterDone, ReleasedAtClose and ThreadsAsPromised are
theorems of the form `Spec /\ []NoExit => ...`: with time-outs, and up to the
first Exit also with failing selects. `NoExitCorrect` shows that `NoExit` holds
when select does not fail of itself and no client times out, because then a
read set never holds a closed descriptor (from `FdCacheCoherent` and
`NoDangling`) and is never built from an empty map; `ShutdownCorrect` joins the
two for the conditions of the run.

*CELLThreadProofs.* `_mutex` gives SingleWaiter. What the counter is in each
phase (`CountOK`) is kept by every step that is no fault, an Exit to come or a
spurious wakeup. It gives AtMostOneWorker, CloseWaitsForWorker and the refinement
of ThreadLifecycle when there are no faults, and LifecycleUntilFault, with the
history variable, when there are. NoLostWakeup holds with them: the counter and
the workers that have not signalled yet always pay for one waiter (`CreditOK`).

*CELLLogProofs.* For one start: what the worker has executed, followed by what
it has still to visit in its two lists, is what was added (`QueueInv`), with the
place of the worker in its lists (`PlaceInv`). Every step appends one task to
that queue, takes its head or leaves it; hence the refinement of TaskQueue, and
CloseFlushes, as the queue is empty when the drain ends. `FileInv` says who may
hold the file at which point; with one setLogPath it is opened once and closed
after the worker has ended. The lemmas about `SubSeq` come first. `ThreadCorrect`
needs neither condition: for any number of starts the thread goes through
`ThreadLifecycle`.

*CellClientProofs.* For any lengths, buffers, window and number of requests. The
invariant is RequestStream (what was handled, the receive buffer and the bytes
under way are what was asked, byte by byte), ReplyStream (the same for the
replies), that what was handled is what was asked first (`OrderInv`), that between
two reads the receive buffer has no complete message (`DrainedInv`), and that a
socket found readable stays so (`ReadableInv`). A dispatch finds the message
that was asked next at the front of the buffer, since the first piece of each
message gives its length; hence the refinement of the queue. NothingLostAtHangUp
comes from `DrainedInv`: a buffer without a complete message has room, so that
a read of nothing means a hang-up.

*EasyTcpServerProofs.* `MutexInv` says when the owner holds the mutex of the
accept thread; `LifeInv` is the balance of the semaphore, which makes Close wait
for that thread as long as it never called Exit, and that after an Exit no
thread accepts until a restart. The rest says which servers the vector holds
(`VectorInv`), that the loops of Close meet each once and leave none in its
loop (`CloseInv`), that with one socket no deleted pointer is reachable
(`OneSocketInv`), and that a server whose socket existed at each Start is
deleted at its end (`GuardInv`); `CountInv` is the balance of the counters.

*HeartbeatProofs.* `KeenInv` bounds the count of a keen client by the time since
its last LOGIN, from above, `SilentInv` that of any client by the time since it
was last read from, from below; the first depends on whether a LOGIN waits in
the socket and whether the last select has seen it. The bounds are `Period + 2 *
MaxPass < Dead` for the first and two passes over the limit for the second.

*EasyTcpClientProofs.* `SlotsInv` says that the length, also the one loaded and
the one given to send, covers slots that were written; `HealthInv` which pointers
are good before exit or a loss of the connection; `StreamInv` that, without an
overlap, what went out and what is in the buffer are the logins in order.

*CELLStreamProofs.* The invariant names a layout: an offset for each item
written, increasing, with its object in the buffer; the reader is at the offset
of the item that it asks for.

The bytes of a list of messages are a recursive function of the list. The
induction that its lemmas need is stated with a set instead of an operator: a
set of naturals that has 0 and with each number the next one is `Nat`
(`SetInduction`, from the well-foundedness of `<`); the lemmas take for it the
set of lengths for which they hold.

Only model-checked: liveness (CloseTerminates, QueuedJoins,
CloseReturnsUntilFault, EveryTaskRuns, RepliesLeave, Flushed), which is out of
the prover's reach. Every other property of a passing run is a theorem.

## Not modelled

`CELLNetWork`, `INetEvent` and `CELL.hpp` (no state), `HelloEpoll` (an
experiment whose `epoll_wait` gets a null array) and `Test.cpp` (not part of the
server). The contents of messages and of the log, Windows branches, memory-level
data races on containers, a clock that is set back, a `send` that a signal cuts
short, and the limit FD_SETSIZE. `EasyTcpClient::RecvData` and `OnNetMsg` of the
load generator are never called.

## Plan

Every component with state of its own has a module, and every safety property a
theorem. What could still be added:

1. The composition of `EasyTcpClient` with `CellClient`, to show that a client
   that does not read stops the server's thread in `send`; here each side has the
   other as its environment.
2. The composition of `EasyTcpServer` with `CellServer`: the second starts where a
   Start has returned, and has one.
3. What remains true after an Exit, in `CellServer`: theorems about the threads
   that did not call it, as `EasyTcpServerProofs` has for the life of the server.
