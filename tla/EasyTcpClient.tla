----------------------------- MODULE EasyTcpClient ----------------------------
(***************************************************************************)
(* One client of the load generator.  sendThread connects it and pushes    *)
(* logins into its send buffer; recvThread calls OnRun, which sends and    *)
(* empties that buffer.  They share _pClient, _isConnect and _nLast with   *)
(* no lock, and the makefile compiles without optimisation, so that each   *)
(* access in the source is one access to memory.                           *)
(*                                                                         *)
(* All logins have one length: the buffer is an array of slots, a login is *)
(* the serial number of its SendData.  A step on a deleted object or       *)
(* through a null pointer is a fault, which ends both threads.             *)
(***************************************************************************)
EXTENDS Integers, Sequences

CONSTANTS
  Slots,      \* logins the send buffer holds
  Window,     \* replies the client's socket holds unread
  Channel,    \* logins the connection holds before the server reads them
  MaxSends    \* bound on the logins that are accepted

ASSUME SizeAssumption ==
  /\ Slots \in Nat \ {0} /\ Window \in Nat
  /\ Channel \in Nat /\ MaxSends \in Nat

VARIABLES
  bRun,       \* g_bRun
  object,     \* the EasyTcpClient: "alive" or "deleted"
  cell,       \* its CellClient: "none", "alive" or "deleted"
  pClient,    \* whether _pClient is not null
  isConnect,  \* _isConnect
  slots,      \* the send buffer, 0 in a slot that was never written
  nLast,      \* _nLast, in logins
  sendPc,     \* where sendThread is
  loaded,     \* the value of _nLast it has loaded to increment it
  recvPc,     \* where recvThread is
  calls,      \* calls of SendDataReal that remain in this OnRun
  n,          \* the length it has given to send
  sent,       \* logins of that send that have gone out
  wire,       \* history: the logins sent, in order
  handled,    \* how many of them the server has read
  unread,     \* replies in the client's socket
  gone,       \* the server has closed the connection
  accepted,   \* history: logins that SendData has accepted
  overlapped, \* history: a push and a write2socket ran at the same time
  fault       \* history: "none", "null", "deleted" or "twice"

objectVars == <<object, cell, pClient, isConnect>>
bufferVars == <<slots, nLast>>
sendVars   == <<sendPc, loaded, accepted>>
recvVars   == <<recvPc, calls, n, sent>>
netVars    == <<wire, handled, unread, gone>>
vars       == <<bRun, objectVars, bufferVars, sendVars, recvVars, netVars,
                overlapped, fault>>

TypeOK ==
  /\ bRun \in BOOLEAN /\ pClient \in BOOLEAN /\ isConnect \in BOOLEAN
  /\ gone \in BOOLEAN /\ overlapped \in BOOLEAN
  /\ object   \in {"alive", "deleted"}
  /\ cell     \in {"none", "alive", "deleted"}
  /\ slots    \in [1 .. Slots -> Nat]
  /\ sendPc   \in {"init", "connect", "push", "copy", "load", "store", "close",
                   "null", "unset", "closed", "end", "crashed"}
  /\ recvPc   \in {"none", "loop", "need", "select", "call", "send", "reset",
                   "close", "null", "unset", "end", "crashed"}
  /\ calls    \in 0 .. 2
  /\ nLast \in Nat /\ n \in Nat /\ sent \in Nat /\ loaded \in Nat
  /\ accepted \in Nat /\ handled \in Nat /\ unread \in Nat
  /\ wire     \in Seq(Nat)
  /\ fault    \in {"none", "null", "deleted", "twice"}

Pushing == sendPc \in {"copy", "load", "store"}
Sending == recvPc \in {"send", "reset"}

Init ==
  /\ bRun = TRUE
  /\ object = "alive" /\ cell = "none"
  /\ pClient = FALSE /\ isConnect = FALSE
  /\ slots = [i \in 1 .. Slots |-> 0]
  /\ nLast = 0
  /\ sendPc = "init" /\ loaded = 0 /\ accepted = 0
  /\ recvPc = "none" /\ calls = 0 /\ n = 0 /\ sent = 0
  /\ wire = <<>> /\ handled = 0 /\ unread = 0 /\ gone = FALSE
  /\ overlapped = FALSE
  /\ fault = "none"

\* What comes of using _pClient when it does not point to a live CellClient.
PointerFault == IF ~pClient THEN "null" ELSE "deleted"
Usable       == object = "alive" /\ pClient /\ cell = "alive"

Crash(kind) ==
  /\ fault' = kind
  /\ sendPc' = "crashed" /\ recvPc' = "crashed"
  /\ UNCHANGED <<bRun, objectVars, bufferVars, loaded, accepted, calls, n, sent,
                 netVars, overlapped>>

-----------------------------------------------------------------------------
\* Slips: the login is copied to the start of the buffer; write2socket does
\* not empty the buffer; OnRun watches for writing when the buffer is full;
\* select's time-out is taken for an error.
CopyToStart ==
  /\ sendPc = "copy"
  /\ slots'  = [slots EXCEPT ![1] = accepted + 1]
  /\ sendPc' = "load"
  /\ UNCHANGED <<bRun, objectVars, nLast, loaded, accepted, recvVars, netVars,
                 overlapped, fault>>

ResetForgotten ==
  /\ recvPc = "reset"
  /\ recvPc' = "call" /\ n' = 0 /\ sent' = 0
  /\ UNCHANGED <<bRun, objectVars, bufferVars, sendVars, calls, netVars,
                 overlapped, fault>>

NeedWriteWhenFull == nLast = Slots

SelectTimeoutFails == cell = "deleted" \/ (unread = 0 /\ calls = 0)

-----------------------------------------------------------------------------
\* cmdThread reads "exit".
CmdExit ==
  /\ bRun
  /\ bRun' = FALSE
  /\ UNCHANGED <<objectVars, bufferVars, sendVars, recvVars, netVars,
                 overlapped, fault>>

\* InitSocket, from Connect: socket() may fail and leave _pClient null.
InitSocket ==
  /\ sendPc = "init"
  /\ \E ok \in BOOLEAN :
       /\ cell'    = IF ok THEN "alive" ELSE "none"
       /\ pClient' = ok
  /\ sendPc' = "connect"
  /\ UNCHANGED <<bRun, object, isConnect, bufferVars, loaded, accepted,
                 recvVars, netVars, overlapped, fault>>

\* connect() on the socket of _pClient, which may fail too; then recvThread
\* starts.
Connect ==
  /\ sendPc = "connect" /\ Usable
  /\ isConnect' \in BOOLEAN
  /\ sendPc' = "push"
  /\ recvPc' = "loop"
  /\ UNCHANGED <<bRun, object, cell, pClient, bufferVars, loaded, accepted,
                 calls, n, sent, netVars, overlapped, fault>>

\* SendData: push tests that the login fits and refuses it otherwise.
PushTest ==
  /\ sendPc = "push" /\ bRun /\ Usable
  /\ accepted < MaxSends
  /\ nLast + 1 <= Slots
  /\ sendPc' = "copy"
  /\ overlapped' = (overlapped \/ Sending)
  /\ UNCHANGED <<bRun, objectVars, bufferVars, loaded, accepted, recvVars,
                 netVars, fault>>

Copy ==
  /\ sendPc = "copy" /\ cell = "alive"
  /\ slots'  = [slots EXCEPT ![nLast + 1] = accepted + 1]
  /\ sendPc' = "load"
  /\ UNCHANGED <<bRun, objectVars, nLast, loaded, accepted, recvVars, netVars,
                 overlapped, fault>>

\* _nLast += nLen is a load and a store.
Load ==
  /\ sendPc = "load" /\ cell = "alive"
  /\ loaded' = nLast
  /\ sendPc' = "store"
  /\ UNCHANGED <<bRun, objectVars, bufferVars, accepted, recvVars, netVars,
                 overlapped, fault>>

Store ==
  /\ sendPc = "store" /\ cell = "alive"
  /\ nLast'    = loaded + 1
  /\ accepted' = accepted + 1
  /\ sendPc'   = "push"
  /\ UNCHANGED <<bRun, objectVars, slots, loaded, recvVars, netVars,
                 overlapped, fault>>

\* sendThread leaves its loop and closes the client.
SendLoopEnds ==
  /\ sendPc = "push" /\ ~bRun
  /\ sendPc' = "close"
  /\ UNCHANGED <<bRun, objectVars, bufferVars, loaded, accepted, recvVars,
                 netVars, overlapped, fault>>

\* delete client[n]: its destructor calls Close, which finds _pClient null.
DeleteObject ==
  /\ sendPc = "closed"
  /\ object' = "deleted"
  /\ sendPc' = "end"
  /\ UNCHANGED <<bRun, cell, pClient, isConnect, bufferVars, loaded, accepted,
                 recvVars, netVars, overlapped, fault>>

-----------------------------------------------------------------------------
\* OnRun returns at once unless isRun(), which tests _pClient and _isConnect.
OnRun ==
  /\ recvPc = "loop" /\ bRun
  /\ object = "alive" /\ pClient /\ isConnect
  /\ recvPc' = "need"
  /\ UNCHANGED <<bRun, objectVars, bufferVars, sendVars, calls, n, sent,
                 netVars, overlapped, fault>>

RecvLoopEnds ==
  /\ recvPc = "loop" /\ ~bRun
  /\ recvPc' = "end"
  /\ UNCHANGED <<bRun, objectVars, bufferVars, sendVars, calls, n, sent,
                 netVars, overlapped, fault>>

NeedWrite == nLast > 0

\* _pClient->sockfd() and _pClient->needWrite(); until select, calls says
\* whether the write set holds the socket.
Watch ==
  /\ recvPc = "need" /\ Usable
  /\ calls'  = IF NeedWrite THEN 1 ELSE 0
  /\ recvPc' = "select"
  /\ UNCHANGED <<bRun, objectVars, bufferVars, sendVars, n, sent, netVars,
                 overlapped, fault>>

Readable == unread > 0 \/ gone
Writable == calls = 1 /\ (Len(wire) - handled < Channel \/ gone)
Bit(b)   == IF b THEN 1 ELSE 0

\* select fails on the descriptor that the other thread has closed.
SelectFails == cell = "deleted"

\* A readable socket and a writable one are both answered by SendDataReal.
Select ==
  /\ recvPc = "select" /\ ~SelectFails
  /\ calls'  = Bit(Readable) + Bit(Writable)
  /\ recvPc' = "call"
  /\ UNCHANGED <<bRun, objectVars, bufferVars, sendVars, n, sent, netVars,
                 overlapped, fault>>

SelectError ==
  /\ recvPc = "select" /\ SelectFails
  /\ recvPc' = "close" /\ calls' = 0
  /\ UNCHANGED <<bRun, objectVars, bufferVars, sendVars, n, sent, netVars,
                 overlapped, fault>>

OnRunReturns ==
  /\ recvPc = "call" /\ calls = 0
  /\ recvPc' = "loop"
  /\ UNCHANGED <<bRun, objectVars, bufferVars, sendVars, calls, n, sent,
                 netVars, overlapped, fault>>

\* SendDataReal, write2socket: nothing to do, or all that _nLast says.
SendDataReal ==
  /\ recvPc = "call" /\ calls > 0 /\ Usable
  /\ calls'  = calls - 1
  /\ n'      = nLast
  /\ recvPc' = IF nLast > 0 THEN "send" ELSE "call"
  /\ overlapped' = (overlapped \/ (nLast > 0 /\ Pushing))
  /\ UNCHANGED <<bRun, objectVars, bufferVars, sendVars, sent, netVars, fault>>

\* send() on a blocking socket: one login after the other, when there is room.
SendOne ==
  /\ recvPc = "send" /\ cell = "alive" /\ ~gone
  /\ sent < n
  /\ Len(wire) - handled < Channel
  /\ wire' = Append(wire, slots[sent + 1])
  /\ sent' = sent + 1
  /\ UNCHANGED <<bRun, objectVars, bufferVars, sendVars, recvPc, calls, n,
                 handled, unread, gone, overlapped, fault>>

SendReturns ==
  /\ recvPc = "send" /\ cell = "alive"
  /\ sent = n
  /\ recvPc' = "reset"
  /\ UNCHANGED <<bRun, objectVars, bufferVars, sendVars, calls, n, sent,
                 netVars, overlapped, fault>>

Reset ==
  /\ recvPc = "reset" /\ cell = "alive"
  /\ nLast'  = 0
  /\ recvPc' = "call" /\ n' = 0 /\ sent' = 0
  /\ UNCHANGED <<bRun, objectVars, slots, sendVars, calls, netVars,
                 overlapped, fault>>

\* send() fails: the buffer is emptied all the same, and OnRun calls Close.
SendFails ==
  /\ recvPc = "send" /\ cell = "alive" /\ gone
  /\ nLast'  = 0
  /\ recvPc' = "close" /\ calls' = 0 /\ n' = 0 /\ sent' = 0
  /\ UNCHANGED <<bRun, objectVars, slots, sendVars, netVars, overlapped, fault>>

-----------------------------------------------------------------------------
\* EasyTcpClient::Close, by either thread: delete the CellClient, then set
\* _pClient to null, then clear _isConnect.
At(thread, label) ==
  IF thread = "send" THEN sendPc = label ELSE recvPc = label
Goto(thread, label) ==
  IF thread = "send" THEN sendPc' = label /\ UNCHANGED recvPc
                     ELSE recvPc' = label /\ UNCHANGED sendPc
Back(thread) == IF thread = "send" THEN "closed" ELSE "loop"

CloseDelete(thread) ==
  /\ At(thread, "close") /\ Usable
  /\ cell' = "deleted"
  /\ Goto(thread, "null")
  /\ UNCHANGED <<bRun, object, pClient, isConnect, bufferVars, loaded,
                 accepted, calls, n, sent, netVars, overlapped, fault>>

ClosePointer(thread) ==
  /\ \/ At(thread, "null")
     \/ At(thread, "close") /\ ~pClient
  /\ object = "alive"
  /\ pClient' = FALSE
  /\ Goto(thread, "unset")
  /\ UNCHANGED <<bRun, object, cell, isConnect, bufferVars, loaded, accepted,
                 calls, n, sent, netVars, overlapped, fault>>

CloseFlag(thread) ==
  /\ At(thread, "unset") /\ object = "alive"
  /\ isConnect' = FALSE
  /\ Goto(thread, Back(thread))
  /\ UNCHANGED <<bRun, object, cell, pClient, bufferVars, loaded, accepted,
                 calls, n, sent, netVars, overlapped, fault>>

\* The steps that need an object that is no longer there, or a null _pClient.
SendFault ==
  \/ /\ \/ sendPc = "connect"
        \/ sendPc = "push" /\ bRun /\ accepted < MaxSends
     /\ ~Usable
     /\ Crash(PointerFault)
  \/ /\ Pushing /\ cell = "deleted"
     /\ Crash("deleted")

RecvFault ==
  \/ /\ \/ recvPc = "need"
        \/ recvPc = "call" /\ calls > 0
     /\ ~Usable
     /\ Crash(PointerFault)
  \/ /\ Sending /\ cell = "deleted"
     /\ Crash("deleted")
  \/ /\ recvPc \in {"close", "null", "unset"} \/ (recvPc = "loop" /\ bRun)
     /\ object = "deleted"
     /\ Crash("deleted")

CloseFault(thread) ==
  /\ At(thread, "close") /\ object = "alive"
  /\ pClient /\ cell = "deleted"
  /\ Crash("twice")

-----------------------------------------------------------------------------
\* The server reads a login and replies to it; its blocking send waits for
\* the client's socket to have room.
ServerHandles ==
  /\ ~gone
  /\ handled < Len(wire) /\ unread < Window
  /\ handled' = handled + 1
  /\ unread'  = unread + 1
  /\ UNCHANGED <<bRun, objectVars, bufferVars, sendVars, recvVars, wire, gone,
                 overlapped, fault>>

ServerGone ==
  /\ ~gone /\ isConnect
  /\ gone' = TRUE
  /\ UNCHANGED <<bRun, objectVars, bufferVars, sendVars, recvVars, wire,
                 handled, unread, overlapped, fault>>

sendThread ==
  \/ InitSocket \/ Connect
  \/ PushTest \/ Copy \/ Load \/ Store
  \/ SendLoopEnds \/ DeleteObject
  \/ SendFault

recvThread ==
  \/ OnRun \/ RecvLoopEnds \/ Watch \/ Select \/ SelectError \/ OnRunReturns
  \/ SendDataReal \/ SendOne \/ SendReturns \/ Reset \/ SendFails
  \/ RecvFault

Close(thread) ==
  \/ CloseDelete(thread) \/ ClosePointer(thread) \/ CloseFlag(thread)
  \/ CloseFault(thread)

Next ==
  \/ CmdExit \/ ServerHandles \/ ServerGone
  \/ sendThread \/ recvThread
  \/ \E thread \in {"send", "recv"} : Close(thread)

Spec == Init /\ [][Next]_vars

FairSpec ==
  /\ Spec
  /\ WF_vars(recvThread \/ Close("recv"))
  /\ WF_vars(ServerHandles)

-----------------------------------------------------------------------------
\* Whatever the two threads do to _nLast, it stays inside the buffer, and
\* what goes out are logins that SendData has copied there, whole.
SlotsWritten ==
  /\ nLast <= Slots
  /\ \A i \in 1 .. nLast : slots[i] # 0
  /\ \A i \in 1 .. Len(wire) : wire[i] # 0

\* Logins are lost or repeated in one case only: a push ran at the same time
\* as a write2socket.  Otherwise they all go out, once and in order.
Buffered == SubSeq(slots, sent + 1, nLast)
LossNeedsRace ==
  ~overlapped /\ ~gone => wire \o Buffered = [i \in 1 .. accepted |-> i]

\* No thread meets a null pointer or a deleted object as long as the socket
\* could be created, the server stays and "exit" is not typed.
FaultNeedsCause ==
  fault # "none" => ~bRun \/ gone \/ cell = "none"

\* What is in the send buffer goes out, unless the replies, which the client
\* never reads, have filled its socket and stopped the server.
Flushed ==
  (isConnect /\ nLast > 0) ~> (nLast = 0 \/ unread = Window \/ gone \/ ~bRun)

\* "Readable, that is, receive data" (EasyTcpClient.hpp:118).
ReadableReceived == unread > 0 ~> (unread = 0 \/ gone \/ ~bRun)
=============================================================================
