------------------------------- MODULE Heartbeat ------------------------------
(***************************************************************************)
(* The heartbeat of one CellServer, with time.  A client is removed when   *)
(* the passes of the message thread have charged it CLIENT_HREAT_DEAD_TIME *)
(* since its last message that resets the count.                           *)
(*                                                                         *)
(* The thread reads the clock once in a pass, in CheckTime or while it has *)
(* no clients.  MaxPass is the longest time between two readings: select   *)
(* waits a microsecond, the rest depends on the machine and on send().     *)
(* Time is held back for a thread that is due, and for a keen client that  *)
(* is due to send.  What waits in a socket fits in one recv; of messages   *)
(* only their kind matters, LOGIN standing for C2S_HEART too.              *)
(***************************************************************************)
EXTENDS Integers, FiniteSets

CONSTANTS
  Clients,
  Keen,       \* the clients that never let Period pass without a LOGIN
  Dead,       \* CLIENT_HREAT_DEAD_TIME
  Period,
  MaxPass,
  MaxNow      \* bound on the clock

ASSUME TimeAssumption ==
  /\ Keen \subseteq Clients
  /\ Dead \in Nat /\ Period \in Nat /\ MaxPass \in Nat /\ MaxNow \in Nat
  /\ Dead > Period + 2 * MaxPass

Kinds == {"LOGIN", "LOGOUT"}

VARIABLES
  now,        \* the clock
  oldTime,    \* _oldTime
  pc,         \* where the message thread is in its pass
  where,      \* of each client: in _clientsBuff, in _clients, or in neither
  dtHeart,    \* _dtHeart of each client
  doomed,     \* clients that checkHeart has found dead in this pass
  ready,      \* clients in fdRead that ReadData has not reached
  waiting,    \* what waits in the socket of each client
  hungUp,     \* whether the client has closed its end
  lastHeard,  \* history: when the client connected or last sent a LOGIN
  lastRead    \* history: when it connected or when a message of it was read

clientVars == <<waiting, hungUp, lastHeard, lastRead>>
passVars   == <<oldTime, pc, dtHeart, doomed, ready>>
vars       == <<now, where, passVars, clientVars>>

In(place)    == {c \in Clients : where[c] = place}
Connected(c) == where[c] \in {"queued", "joined"} /\ ~hungUp[c]

TypeOK ==
  /\ now \in Nat /\ oldTime \in Nat
  /\ oldTime <= now /\ now <= oldTime + MaxPass
  /\ pc        \in {"loop", "idle", "time", "remove", "read"}
  /\ where     \in [Clients -> {"none", "queued", "joined", "gone"}]
  /\ dtHeart   \in [Clients -> Nat]
  /\ doomed    \in SUBSET In("joined")
  /\ ready     \in SUBSET In("joined")
  /\ waiting   \in [Clients -> SUBSET Kinds]
  /\ hungUp    \in [Clients -> BOOLEAN]
  /\ lastHeard \in [Clients -> Nat]
  /\ lastRead  \in [Clients -> Nat]

Init ==
  /\ now = 0 /\ oldTime = 0
  /\ pc = "loop"
  /\ where     = [c \in Clients |-> "none"]
  /\ dtHeart   = [c \in Clients |-> 0]
  /\ doomed = {} /\ ready = {}
  /\ waiting   = [c \in Clients |-> {}]
  /\ hungUp    = [c \in Clients |-> FALSE]
  /\ lastHeard = [c \in Clients |-> 0]
  /\ lastRead  = [c \in Clients |-> 0]

-----------------------------------------------------------------------------
\* Slips: _oldTime is not taken forward; a client is charged with the last
\* pass only.
CheckTimeFromStart ==
  /\ pc = "time"
  /\ dtHeart' = [c \in Clients |-> IF c \in In("joined")
                                   THEN dtHeart[c] + (now - oldTime)
                                   ELSE dtHeart[c]]
  /\ doomed' = {c \in In("joined") : dtHeart'[c] >= Dead}
  /\ pc' = "remove"
  /\ UNCHANGED <<now, oldTime, where, ready, clientVars>>

CheckTimeLastPass ==
  /\ pc = "time"
  /\ dtHeart' = [c \in Clients |-> IF c \in In("joined") THEN now - oldTime
                                                         ELSE dtHeart[c]]
  /\ doomed' = {c \in In("joined") : dtHeart'[c] >= Dead}
  /\ oldTime' = now
  /\ pc' = "remove"
  /\ UNCHANGED <<now, where, ready, clientVars>>

-----------------------------------------------------------------------------
\* Time and the clients.

Tick ==
  /\ now < MaxNow
  /\ now < oldTime + MaxPass
  /\ \A c \in Keen : Connected(c) => now < lastHeard[c] + Period
  /\ now' = now + 1
  /\ UNCHANGED <<where, passVars, clientVars>>

\* The accept thread constructs a CellClient, whose counts start at 0, and
\* queues it.
Connect(c) ==
  /\ where[c] = "none"
  /\ where' = [where EXCEPT ![c] = "queued"]
  /\ lastHeard' = [lastHeard EXCEPT ![c] = now]
  /\ lastRead' = [lastRead EXCEPT ![c] = now]
  /\ UNCHANGED <<now, passVars, waiting, hungUp>>

SendMsg(c, kind) ==
  /\ Connected(c)
  /\ waiting' = [waiting EXCEPT ![c] = @ \cup {kind}]
  /\ lastHeard' = IF kind = "LOGIN" THEN [lastHeard EXCEPT ![c] = now]
                                    ELSE lastHeard
  /\ UNCHANGED <<now, where, passVars, hungUp, lastRead>>

HangUp(c) ==
  /\ Connected(c)
  /\ hungUp' = [hungUp EXCEPT ![c] = TRUE]
  /\ UNCHANGED <<now, where, passVars, waiting, lastHeard, lastRead>>

-----------------------------------------------------------------------------
\* The message thread.

\* No clients: sleep for a millisecond and read the clock; a client may come
\* in the meantime.
NoClients ==
  /\ pc = "loop"
  /\ In("queued") \cup In("joined") = {}
  /\ pc' = "idle"
  /\ UNCHANGED <<now, oldTime, where, dtHeart, doomed, ready, clientVars>>

Idle ==
  /\ pc = "idle"
  /\ oldTime' = now
  /\ pc' = "loop"
  /\ UNCHANGED <<now, where, dtHeart, doomed, ready, clientVars>>

\* The queue goes into the map before CheckTime, which therefore charges the
\* new clients for time before they connected.
Merge ==
  /\ pc = "loop"
  /\ In("queued") \cup In("joined") # {}
  /\ where' = [c \in Clients |->
                 IF where[c] = "queued" THEN "joined" ELSE where[c]]
  /\ pc' = "time"
  /\ UNCHANGED <<now, oldTime, dtHeart, doomed, ready, clientVars>>

CheckTime ==
  /\ pc = "time"
  /\ dtHeart' = [c \in Clients |-> IF c \in In("joined")
                                   THEN dtHeart[c] + (now - oldTime)
                                   ELSE dtHeart[c]]
  /\ doomed' = {c \in In("joined") : dtHeart'[c] >= Dead}
  /\ oldTime' = now
  /\ pc' = "remove"
  /\ UNCHANGED <<now, where, ready, clientVars>>

Remove(c) ==
  /\ pc = "remove"
  /\ c \in doomed
  /\ where'  = [where EXCEPT ![c] = "gone"]
  /\ doomed' = doomed \ {c}
  /\ UNCHANGED <<now, oldTime, pc, dtHeart, ready, clientVars>>

Select ==
  /\ pc = "remove"
  /\ doomed = {}
  /\ ready' = {c \in In("joined") : waiting[c] # {} \/ hungUp[c]}
  /\ pc' = "read"
  /\ UNCHANGED <<now, oldTime, where, dtHeart, doomed, clientVars>>

ResetsHeart(kinds) == "LOGIN" \in kinds

\* RecvData and the messages it dispatches.
ReadMsgs(c) ==
  /\ pc = "read"
  /\ c \in ready
  /\ waiting[c] # {}
  /\ dtHeart' = IF ResetsHeart(waiting[c]) THEN [dtHeart EXCEPT ![c] = 0]
                                           ELSE dtHeart
  /\ waiting' = [waiting EXCEPT ![c] = {}]
  /\ lastRead' = [lastRead EXCEPT ![c] = now]
  /\ ready' = ready \ {c}
  /\ UNCHANGED <<now, oldTime, pc, where, doomed, hungUp, lastHeard>>

\* recv returns 0: OnClientLeave.
ReadEnd(c) ==
  /\ pc = "read"
  /\ c \in ready
  /\ waiting[c] = {}
  /\ where' = [where EXCEPT ![c] = "gone"]
  /\ ready' = ready \ {c}
  /\ UNCHANGED <<now, oldTime, pc, dtHeart, doomed, clientVars>>

PassDone ==
  /\ pc = "read"
  /\ ready = {}
  /\ pc' = "loop"
  /\ UNCHANGED <<now, oldTime, where, dtHeart, doomed, ready, clientVars>>

-----------------------------------------------------------------------------
Environment ==
  \/ Tick
  \/ \E c \in Clients : Connect(c) \/ HangUp(c)
  \/ \E c \in Clients, kind \in Kinds : SendMsg(c, kind)

Thread ==
  \/ NoClients \/ Idle \/ Merge \/ CheckTime \/ Select \/ PassDone
  \/ \E c \in Clients : Remove(c) \/ ReadMsgs(c) \/ ReadEnd(c)

Next == Environment \/ Thread

Spec == Init /\ [][Next]_vars

-----------------------------------------------------------------------------
\* A client that keeps sending is never removed by the heartbeat, although
\* CheckTime comes before ReadData, so that the LOGIN that would save it may
\* be waiting in the socket, and although a newcomer is charged for time
\* before it came: the limit has room for the period and two passes.
KeenStays == \A c \in Keen : c \in doomed => hungUp[c]

\* A silent client does not stay: when the server has read nothing from it
\* for the limit and two passes, it has been found dead.
SilentGoes ==
  \A c \in In("queued") \cup (In("joined") \ doomed) :
     now < lastRead[c] + Dead + 2 * MaxPass

\* "Whenever the server receives a message of a client it resets the heartbeat
\* count" (server.cpp:28): a client that is found dead has not been read from
\* for the limit, but for the pass that it may be charged too much.  The code
\* resets the count for LOGIN and C2S_HEART, not for LOGOUT.
TalkersStay == \A c \in doomed : now + MaxPass >= lastRead[c] + Dead
=============================================================================
