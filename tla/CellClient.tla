------------------------------ MODULE CellClient ------------------------------
(***************************************************************************)
(* One connection of the server: a CellClient object with its two buffers  *)
(* and its two timers, as the thread of its CellServer serves it, pass     *)
(* after pass (CheckTime, select, ReadData, WriteData), and the peer at    *)
(* the other end of the TCP connection.                                    *)
(*                                                                         *)
(* The other clients of the thread are left out: time goes by between two  *)
(* calls of CheckTime.  send() on the blocking socket hands its bytes to   *)
(* TCP one unit at a time, and waits while the window is full; what is     *)
(* still to be sent is sendBuff, which nobody else looks at meanwhile.     *)
(* The peer sends whole messages of the protocol; it may close its end, or *)
(* reset the connection, which loses what is under way.                    *)
(***************************************************************************)
EXTENDS CELLBuffer

CONSTANTS
  RecvSize,     \* RECV_BUFF_SIZE, in units
  SendSize,     \* SEND_BUFF_SIZE, in units
  Window,       \* how many units TCP takes that the peer has not read
  HeartDead,    \* CLIENT_HREAT_DEAD_TIME
  SendTime,     \* CLIENT_SEND_BUFF_TIME
  Ticks,        \* the times that may pass between two calls of CheckTime
  MaxAsked      \* bound on the number of requests

Requests == {"LOGIN", "LOGOUT", "C2S_HEART"}
Replies  == {"LOGIN_RESULT", "S2C_HEART"}

ASSUME ClientAssumption ==
  /\ Kinds = Requests \cup Replies
  /\ RecvSize \in Nat /\ \A k \in Kinds : Length[k] <= RecvSize
  /\ SendSize \in Nat /\ \A k \in Kinds : Length[k] <= SendSize
  /\ Window \in Nat \ {0}
  /\ HeartDead \in Nat \ {0} /\ SendTime \in Nat \ {0}
  /\ Ticks \subseteq Nat
  /\ MaxAsked \in Nat

VARIABLES
  pc,         \* where the thread is in its pass
  recvBuff,   \* _recvBuff
  sendBuff,   \* _sendBuff
  dtHeart,    \* _dtHeart
  dtSend,     \* _dtSend
  readable,   \* the socket is in fdRead after select
  writable,   \* the socket is in fdWrite after select
  toServer,   \* units on their way to the server
  toPeer,     \* units on their way to the peer
  peer,       \* "open", or "closed", or "reset"
  asked,      \* history: the requests the peer has sent
  handled,    \* history: the messages OnNetMsg was called with
  answered,   \* history: the replies SendData has accepted
  got         \* history: the units the peer has read

timerVars   == <<dtHeart, dtSend>>
bufferVars  == <<recvBuff, sendBuff>>
selectVars  == <<readable, writable>>
networkVars == <<toServer, toPeer, peer>>
historyVars == <<asked, handled, answered, got>>
vars == <<pc, timerVars, bufferVars, selectVars, networkVars, historyVars>>

Pc == {"time", "flushTime", "select", "read", "dispatch", "write",
       "flushWrite", "flushRest", "gone"}
Flushing == pc \in {"flushTime", "flushWrite", "flushRest"}
AfterFlush == IF pc = "flushTime" THEN "select" ELSE "time"

TypeOK ==
  /\ pc \in Pc
  /\ recvBuff \in Seq(Units) /\ Len(recvBuff) <= RecvSize
  /\ sendBuff \in Seq(Units) /\ Len(sendBuff) <= SendSize
  /\ dtHeart \in Nat /\ dtSend \in Nat
  /\ readable \in BOOLEAN /\ writable \in BOOLEAN
  /\ toServer \in Seq(Units)
  /\ toPeer \in Seq(Units) /\ Len(toPeer) <= Window
  /\ peer \in {"open", "closed", "reset"}
  /\ asked \in Seq(Requests)
  /\ handled \in Seq(Kinds)
  /\ answered \in Seq(Replies)
  /\ got \in Seq(Units)

Init ==
  /\ pc = "time"
  /\ recvBuff = <<>> /\ sendBuff = <<>>
  /\ dtHeart = 0 /\ dtSend = 0
  /\ readable = FALSE /\ writable = FALSE
  /\ toServer = <<>> /\ toPeer = <<>> /\ peer = "open"
  /\ asked = <<>> /\ handled = <<>> /\ answered = <<>> /\ got = <<>>

-----------------------------------------------------------------------------
\* Slips: send() is taken to send all when it sends something; WriteData is
\* never asked for; one message for each read.
FlushPartly ==
  /\ Flushing
  /\ sendBuff' = <<>>
  /\ pc' = AfterFlush
  /\ UNCHANGED <<timerVars, recvBuff, selectVars, networkVars, historyVars>>

WriteNever ==
  /\ pc = "write"
  /\ pc' = "time"
  /\ UNCHANGED <<timerVars, bufferVars, selectVars, networkVars, historyVars>>

DispatchOnce ==
  /\ pc = "dispatch"
  /\ pc' = "write"
  /\ UNCHANGED <<timerVars, bufferVars, selectVars, networkVars, historyVars>>

-----------------------------------------------------------------------------
\* The peer.

Ask(k) ==
  /\ peer = "open"
  /\ Len(asked) < MaxAsked
  /\ asked' = Append(asked, k)
  /\ toServer' = toServer \o Msg(k)
  /\ UNCHANGED <<pc, timerVars, bufferVars, selectVars, toPeer, peer,
                 handled, answered, got>>

PeerRead ==
  /\ peer = "open"
  /\ toPeer # <<>>
  /\ got' = Append(got, Head(toPeer))
  /\ toPeer' = Tail(toPeer)
  /\ UNCHANGED <<pc, timerVars, bufferVars, selectVars, toServer, peer,
                 asked, handled, answered>>

HangUp ==
  /\ peer = "open"
  /\ peer' \in {"closed", "reset"}
  /\ UNCHANGED <<pc, timerVars, bufferVars, selectVars, toServer, toPeer,
                 historyVars>>

\* Data that reaches a closed end is answered with a reset.
Bounce ==
  /\ peer = "closed"
  /\ toPeer # <<>>
  /\ peer' = "reset"
  /\ UNCHANGED <<pc, timerVars, bufferVars, selectVars, toServer, toPeer,
                 historyVars>>

-----------------------------------------------------------------------------
\* CheckTime: checkHeart, then checkSend.

HeartDies(dt) ==
  /\ pc = "time"
  /\ dtHeart' = dtHeart + dt
  /\ dtHeart' >= HeartDead
  /\ pc' = "gone"
  /\ UNCHANGED <<dtSend, bufferVars, selectVars, networkVars, historyVars>>

SendDue(dt) ==
  /\ pc = "time"
  /\ dtHeart' = dtHeart + dt
  /\ dtHeart' < HeartDead
  /\ dtSend + dt >= SendTime
  /\ dtSend' = 0
  /\ pc' = "flushTime"
  /\ UNCHANGED <<bufferVars, selectVars, networkVars, historyVars>>

SendNotDue(dt) ==
  /\ pc = "time"
  /\ dtHeart' = dtHeart + dt
  /\ dtHeart' < HeartDead
  /\ dtSend' = dtSend + dt
  /\ dtSend' < SendTime
  /\ pc' = "select"
  /\ UNCHANGED <<bufferVars, selectVars, networkVars, historyVars>>

-----------------------------------------------------------------------------
\* write2socket, for checkSend and for WriteData, where "flushRest" is a send
\* that has handed over a part.

SendSome ==
  /\ Flushing
  /\ sendBuff # <<>>
  /\ Len(toPeer) < Window
  /\ toPeer' = Append(toPeer, Head(sendBuff))
  /\ sendBuff' = Tail(sendBuff)
  /\ pc' = IF pc = "flushTime" THEN pc ELSE "flushRest"
  /\ UNCHANGED <<timerVars, recvBuff, selectVars, toServer, peer,
                 historyVars>>

\* send returns: nothing is left to send.
FlushDone ==
  /\ Flushing
  /\ sendBuff = <<>>
  /\ pc' = AfterFlush
  /\ UNCHANGED <<timerVars, bufferVars, selectVars, networkVars, historyVars>>

\* send fails and returns -1, or the number of bytes that went out before: the
\* buffer is emptied all the same.  WriteData removes the client for a -1,
\* checkSend does not look at the result.
SendFails ==
  /\ Flushing
  /\ sendBuff # <<>>
  /\ peer = "reset"
  /\ sendBuff' = <<>>
  /\ pc' = IF pc = "flushWrite" THEN "gone" ELSE AfterFlush
  /\ UNCHANGED <<timerVars, recvBuff, selectVars, networkVars, historyVars>>

-----------------------------------------------------------------------------
\* select asks for writability only if there is something to write.
Select ==
  /\ pc = "select"
  /\ readable' = (toServer # <<>> \/ peer # "open")
  /\ writable' = (sendBuff # <<>> /\ 
                  /\ (Len(toPeer) < Window \/ peer = "reset"))
  /\ pc' = "read"
  /\ UNCHANGED <<timerVars, bufferVars, networkVars, historyVars>>

SkipRead ==
  /\ pc = "read"
  /\ ~readable
  /\ pc' = "write"
  /\ UNCHANGED <<timerVars, bufferVars, selectVars, networkVars, historyVars>>

\* RecvData gets n bytes, as many as have arrived and fit.
RecvSome(n) ==
  /\ pc = "read"
  /\ readable
  /\ n <= RecvSize - Len(recvBuff)
  /\ n <= Len(toServer)
  /\ recvBuff' = Append4Socket(recvBuff, SubSeq(toServer, 1, n))
  /\ toServer' = SubSeq(toServer, n + 1, Len(toServer))
  /\ pc' = "dispatch"
  /\ UNCHANGED <<timerVars, sendBuff, selectVars, toPeer, peer, historyVars>>

\* RecvData returns 0 or -1: the end of the stream, an error, or a buffer
\* without room.
RecvNothing ==
  /\ pc = "read"
  /\ readable
  /\ \/ toServer = <<>> \/ peer = "reset"
     \/ Len(recvBuff) = RecvSize
  /\ pc' = "gone"
  /\ UNCHANGED <<timerVars, bufferVars, selectVars, networkVars, historyVars>>

\* What MyServer::OnNetMsg does with a message of each kind.
ResetsHeart(k) == k \in {"LOGIN", "C2S_HEART"}
ReplyTo(k) == IF k = "LOGIN" THEN "LOGIN_RESULT" ELSE "S2C_HEART"

\* The loop of RecvData: OnNetMsg, then pop_front_msg.  A reply that does not
\* fit in _sendBuff is given up.
Dispatch ==
  /\ pc = "dispatch"
  /\ HasMsg(recvBuff)
  /\ LET k == FrontKind(recvBuff)
         r == Msg(ReplyTo(k))
     IN  /\ handled'  = Append(handled, k)
         /\ recvBuff' = Pop(recvBuff, FrontLength(recvBuff))
         /\ dtHeart'  = IF ResetsHeart(k) THEN 0 ELSE dtHeart
         /\ IF ResetsHeart(k) /\ Fits(sendBuff, r, SendSize)
            THEN /\ sendBuff' = Push(sendBuff, r, SendSize)
                 /\ answered' = Append(answered, ReplyTo(k))
            ELSE UNCHANGED <<sendBuff, answered>>
  /\ UNCHANGED <<pc, dtSend, selectVars, networkVars, asked, got>>

DispatchDone ==
  /\ pc = "dispatch"
  /\ ~HasMsg(recvBuff)
  /\ pc' = "write"
  /\ UNCHANGED <<timerVars, bufferVars, selectVars, networkVars, historyVars>>

\* WriteData
Write ==
  /\ pc = "write"
  /\ IF sendBuff # <<>> /\ writable
     THEN pc' = "flushWrite" /\ dtSend' = 0
     ELSE pc' = "time" /\ UNCHANGED dtSend
  /\ UNCHANGED <<dtHeart, bufferVars, selectVars, networkVars, historyVars>>

-----------------------------------------------------------------------------
Peer == (\E k \in Requests : Ask(k)) \/ PeerRead \/ HangUp \/ Bounce

Server ==
  \/ \E dt \in Ticks : HeartDies(dt) \/ SendDue(dt) \/ SendNotDue(dt)
  \/ SendSome \/ FlushDone \/ SendFails
  \/ Select \/ SkipRead \/ RecvNothing
  \/ \E n \in 1 .. Len(toServer) : RecvSome(n)
  \/ Dispatch \/ DispatchDone \/ Write

Next == Peer \/ Server

Spec == Init /\ [][Next]_vars

\* The thread keeps running, a peer that stays connected keeps reading, and
\* data sent to one that has closed comes back as a reset.
FairSpec == Spec /\ WF_vars(Server) /\ WF_vars(PeerRead) /\ WF_vars(Bounce)

-----------------------------------------------------------------------------
Rest(s, n) == SubSeq(s, n + 1, Len(s))

\* Framing: however TCP cuts the stream, the receive buffer and what is still
\* to arrive are exactly the messages that are not handled yet, so that the
\* buffer always starts with a header.
RequestStream == Bytes(Rest(asked, Len(handled))) = recvBuff \o toServer

\* OnNetMsg sees the requests as they were sent, each once and in order.
Fifo == INSTANCE TaskQueue WITH
          Tasks <- Requests, queue <- Rest(asked, Len(handled)),
          executed <- handled
ImplementsFifo == Fifo!QueueSpec

\* A read removes the client only when the peer has hung up, and after an
\* orderly close only when everything it had sent is handled: the buffer
\* that read4socket finds full, whose 0 looks like the end of the stream,
\* never occurs.
NothingLostAtHangUp ==
  [][pc = "read" /\ pc' = "gone" =>
        peer = "reset" \/ (peer = "closed" /\ handled = asked)]_vars

\* As long as the peer is there it gets the accepted replies, byte by byte
\* and in order; a reply that did not fit leaves no fragment.
ReplyStream ==
  peer # "reset" /\ pc # "gone" => got \o toPeer \o sendBuff = Bytes(answered)

\* A reply in the buffer is sent although the timer may never be due, to a
\* peer that reads.
RepliesLeave == sendBuff # <<>> ~> sendBuff = <<>> \/ pc = "gone"
=============================================================================
