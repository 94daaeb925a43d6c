-------------------------- MODULE EasyTcpClientProofs -------------------------
(***************************************************************************)
(* Proofs about EasyTcpClient, for buffers, windows and channels of any    *)
(* size.                                                                   *)
(***************************************************************************)
EXTENDS EasyTcpClient, SequenceTheorems, TLAPS

Written(k) == \A i \in 1 .. k : slots[i] # 0

\* What the push and the write2socket in progress know of the buffer; the
\* other thread may set _nLast to 0 meanwhile, or fill further slots.
SlotsInv ==
  /\ nLast <= Slots /\ Written(nLast)
  /\ n <= Slots /\ sent <= n /\ Written(n)
  /\ recvPc \notin {"send", "reset", "crashed"} => n = 0 /\ sent = 0
  /\ sendPc = "copy"  => nLast < Slots
  /\ sendPc = "load"  => nLast < Slots /\ Written(nLast + 1)
  /\ sendPc = "store" => loaded < Slots /\ Written(loaded + 1)
  /\ \A i \in 1 .. Len(wire) : wire[i] # 0

\* Where the two threads are as long as nothing has gone wrong.
HealthInv ==
  /\ sendPc \in {"init", "connect"} => recvPc = "none"
  /\ fault # "none" =>
       /\ sendPc = "crashed" /\ recvPc = "crashed"
       /\ ~bRun \/ gone \/ cell = "none"
  /\ fault = "none" /\ bRun /\ ~gone =>
       /\ object = "alive"
       /\ sendPc \in {"init", "connect", "push", "copy", "load", "store"}
       /\ recvPc \in {"none", "loop", "need", "select", "call", "send", "reset"}
       /\ sendPc = "init" => cell = "none"
       /\ sendPc = "connect" => cell = "none" \/ Usable
       /\ sendPc \notin {"init", "connect"} => Usable

\* The logins of the buffer and of the wire, when no push has overlapped a
\* write2socket: then a push sees _nLast unchanged, and so does a send.
StreamInv ==
  ~overlapped /\ ~gone =>
    /\ ~(Pushing /\ Sending)
    /\ Sending => n = nLast
    /\ recvPc = "reset" => sent = n
    /\ sent <= nLast
    /\ Len(wire) + nLast = accepted + sent
    /\ \A i \in 1 .. Len(wire) : wire[i] = i
    /\ \A i \in sent + 1 .. nLast : slots[i] = Len(wire) + i - sent
    /\ sendPc = "load" => slots[nLast + 1] = accepted + 1
    /\ sendPc = "store" => loaded = nLast /\ slots[nLast + 1] = accepted + 1

IInv == TypeOK /\ SlotsInv /\ HealthInv /\ StreamInv

USE SizeAssumption DEF IInv, TypeOK, SlotsInv, HealthInv, StreamInv, Written,
    Pushing, Sending, Usable, objectVars, bufferVars, sendVars, recvVars, netVars

\* The invariant holds at the start.
LEMMA InitInv == Init => IInv
<1> SUFFICES ASSUME Init PROVE IInv
  OBVIOUS
<1> USE DEF Init
<1>1. TypeOK
  <2>1. {bRun, pClient, isConnect, gone, overlapped} \subseteq BOOLEAN
    BY Zenon
  <2>2. wire \in Seq(Nat) /\ slots \in [1 .. Slots -> Nat]
    OBVIOUS
  <2> QED BY <2>1, <2>2
<1>2. SlotsInv
  OBVIOUS
<1>3. HealthInv
  OBVIOUS
<1>4. StreamInv
  OBVIOUS
<1> QED BY <1>1, <1>2, <1>3, <1>4

\* Steps of sendThread outside Close.
LEMMA SendInv == IInv /\ sendThread => IInv'
<1> SUFFICES ASSUME IInv, sendThread PROVE IInv'
  OBVIOUS
<1>1. CASE InitSocket
  BY <1>1 DEF InitSocket
<1>2. CASE Connect
  <2>1. TypeOK'
    BY <1>2 DEF Connect
  <2>2. SlotsInv'
    BY <1>2 DEF Connect
  <2>3. HealthInv'
    BY <1>2 DEF Connect
  <2>4. StreamInv'
    BY <1>2 DEF Connect
  <2> QED BY <2>1, <2>2, <2>3, <2>4
<1>3. CASE PushTest
  <2>1. TypeOK'
    BY <1>3 DEF PushTest
  <2>2. SlotsInv'
    BY <1>3 DEF PushTest
  <2>3. HealthInv'
    BY <1>3 DEF PushTest
  <2>4. StreamInv'
    BY <1>3 DEF PushTest
  <2> QED BY <2>1, <2>2, <2>3, <2>4
<1>4. CASE Copy
  BY <1>4 DEF Copy
<1>5. CASE Load
  BY <1>5 DEF Load
<1>6. CASE Store
  <2>1. TypeOK'
    BY <1>6 DEF Store
  <2>2. SlotsInv'
    BY <1>6 DEF Store
  <2>3. HealthInv'
    BY <1>6 DEF Store
  <2>4. StreamInv'
    <3> SUFFICES ASSUME ~overlapped, ~gone PROVE StreamInv'
      BY <1>6 DEF Store
    <3>1. /\ sendPc = "store" /\ sendPc' = "push"
          /\ nLast' = nLast + 1 /\ accepted' = accepted + 1
          /\ UNCHANGED <<slots, recvPc, n, sent, wire, overlapped, gone>>
      BY <1>6 DEF Store
    <3>2. /\ Len(wire) \in Nat /\ sent \in Nat
          /\ nLast \in Nat /\ accepted \in Nat
          /\ Len(wire) + nLast = accepted + sent
          /\ sent <= nLast /\ ~Sending
          /\ slots[nLast + 1] = accepted + 1
          /\ \A i \in sent + 1 .. nLast : slots[i] = Len(wire) + i - sent
          /\ \A i \in 1 .. Len(wire) : wire[i] = i
      BY <3>1
    <3>3. \A i \in sent + 1 .. nLast + 1 : slots[i] = Len(wire) + i - sent
      <4> TAKE i \in sent + 1 .. nLast + 1
      <4>1. i = nLast + 1 \/ i \in sent + 1 .. nLast
        OBVIOUS
      <4>2. CASE i = nLast + 1
        BY <3>2, <4>2
      <4> QED BY <3>2, <4>1, <4>2
    <3>4. ~(Pushing' /\ Sending') /\ ~Sending' /\ recvPc' # "reset"
      BY <3>1, <3>2
    <3> HIDE DEF IInv, TypeOK, SlotsInv, HealthInv
    <3>5. Len(wire') + nLast' = accepted' + sent' /\ sent' <= nLast'
      BY <3>1, <3>2
    <3> QED BY <3>1, <3>2, <3>3, <3>4, <3>5
  <2> QED BY <2>1, <2>2, <2>3, <2>4
<1>7. CASE SendLoopEnds
  BY <1>7 DEF SendLoopEnds
<1>8. CASE DeleteObject
  BY <1>8 DEF DeleteObject
<1>9. CASE SendFault
  <2>1. TypeOK'
    BY <1>9 DEF SendFault, Crash, PointerFault
  <2>2. SlotsInv'
    BY <1>9 DEF SendFault, Crash, PointerFault
  <2>3. HealthInv'
    BY <1>9 DEF SendFault, Crash, PointerFault
  <2>4. StreamInv'
    BY <1>9 DEF SendFault, Crash, PointerFault
  <2> QED BY <2>1, <2>2, <2>3, <2>4
<1> QED BY <1>1, <1>2, <1>3, <1>4, <1>5, <1>6, <1>7, <1>8, <1>9 DEF sendThread

\* Steps of recvThread outside Close.
LEMMA RecvInv == IInv /\ recvThread => IInv'
<1> SUFFICES ASSUME IInv, recvThread PROVE IInv'
  OBVIOUS
<1>1. CASE OnRun
  BY <1>1 DEF OnRun
<1>2. CASE RecvLoopEnds
  BY <1>2 DEF RecvLoopEnds
<1>3. CASE Watch
  BY <1>3 DEF Watch
<1>4. CASE Select
  BY <1>4 DEF Select, Bit
<1>5. CASE SelectError
  BY <1>5 DEF SelectError, SelectFails
<1>6. CASE OnRunReturns
  BY <1>6 DEF OnRunReturns
<1>7. CASE SendDataReal
  <2>1. TypeOK'
    BY <1>7 DEF SendDataReal
  <2>2. SlotsInv'
    BY <1>7 DEF SendDataReal
  <2>3. HealthInv'
    BY <1>7 DEF SendDataReal
  <2>4. StreamInv'
    BY <1>7 DEF SendDataReal
  <2> QED BY <2>1, <2>2, <2>3, <2>4
<1>8. CASE SendOne
  <2>1. TypeOK'
    BY <1>8 DEF SendOne
  <2>2. SlotsInv'
    BY <1>8 DEF SendOne
  <2>3. HealthInv'
    BY <1>8 DEF SendOne
  <2>4. StreamInv'
    BY <1>8 DEF SendOne
  <2> QED BY <2>1, <2>2, <2>3, <2>4
<1>9. CASE SendReturns
  BY <1>9 DEF SendReturns
<1>10. CASE Reset
  BY <1>10 DEF Reset
<1>11. CASE SendFails
  BY <1>11 DEF SendFails
<1>12. CASE RecvFault
  <2>1. TypeOK'
    BY <1>12 DEF RecvFault, Crash, PointerFault
  <2>2. SlotsInv'
    BY <1>12 DEF RecvFault, Crash, PointerFault
  <2>3. HealthInv'
    BY <1>12 DEF RecvFault, Crash, PointerFault
  <2>4. StreamInv'
    BY <1>12 DEF RecvFault, Crash, PointerFault
  <2> QED BY <2>1, <2>2, <2>3, <2>4
<1> QED BY <1>1, <1>2, <1>3, <1>4, <1>5, <1>6, <1>7, <1>8, <1>9, <1>10, <1>11,
           <1>12 DEF recvThread

\* Close, by either thread.
LEMMA CloseInv ==
  ASSUME NEW thread \in {"send", "recv"}, IInv, Close(thread)
  PROVE  IInv'
<1> USE DEF At, Goto, Back
<1>1. CASE CloseDelete(thread)
  BY <1>1 DEF CloseDelete
<1>2. CASE ClosePointer(thread)
  <2>1. TypeOK'
    <3>1. pClient' \in BOOLEAN
      BY <1>2, Zenon DEF ClosePointer
    <3> QED BY <1>2, <3>1 DEF ClosePointer
  <2>2. SlotsInv'
    BY <1>2 DEF ClosePointer
  <2>3. HealthInv'
    BY <1>2 DEF ClosePointer
  <2>4. StreamInv'
    BY <1>2 DEF ClosePointer
  <2> QED BY <2>1, <2>2, <2>3, <2>4
<1>3. CASE CloseFlag(thread)
  <2>1. TypeOK'
    <3>1. isConnect' \in BOOLEAN
      BY <1>3, Zenon DEF CloseFlag
    <3> QED BY <1>3, <3>1, SMTT(30) DEF CloseFlag
  <2>2. SlotsInv'
    BY <1>3 DEF CloseFlag
  <2>3. HealthInv'
    BY <1>3 DEF CloseFlag
  <2>4. StreamInv'
    BY <1>3 DEF CloseFlag
  <2> QED BY <2>1, <2>2, <2>3, <2>4
<1>4. CASE CloseFault(thread)
  BY <1>4 DEF CloseFault, Crash
<1> QED BY <1>1, <1>2, <1>3, <1>4 DEF Close

\* The console thread, the server, and steps that change nothing.
LEMMA OtherInv ==
  ASSUME IInv, CmdExit \/ ServerHandles \/ ServerGone \/ UNCHANGED vars
  PROVE  IInv'
<1>1. CASE CmdExit
  <2>1. TypeOK'
    <3>1. bRun' \in BOOLEAN
      BY <1>1, Zenon DEF CmdExit
    <3> QED BY <1>1, <3>1 DEF CmdExit
  <2>2. SlotsInv'
    BY <1>1 DEF CmdExit
  <2>3. HealthInv'
    BY <1>1 DEF CmdExit
  <2>4. StreamInv'
    BY <1>1 DEF CmdExit
  <2> QED BY <2>1, <2>2, <2>3, <2>4
<1>2. CASE ServerHandles
  BY <1>2 DEF ServerHandles
<1>3. CASE ServerGone
  BY <1>3 DEF ServerGone
<1>4. CASE UNCHANGED vars
  BY <1>4 DEF vars
<1> QED BY <1>1, <1>2, <1>3, <1>4

HIDE DEF IInv, TypeOK, SlotsInv, HealthInv, StreamInv, Written, Pushing,
    Sending, Usable, objectVars, bufferVars, sendVars, recvVars, netVars

LEMMA InvCorrect == Spec => []IInv
<1>1. IInv /\ [Next]_vars => IInv'
  BY SendInv, RecvInv, CloseInv, OtherInv DEF Next
<1> QED BY <1>1, InitInv, PTL DEF Spec

\* The variables keep their types.
THEOREM TypeCorrect == Spec => []TypeOK
<1>1. IInv => TypeOK
  BY DEF IInv
<1> QED BY <1>1, InvCorrect, PTL

\* No race of the two threads takes _nLast past the buffer or sends bytes
\* that were never written.
THEOREM SlotsWrittenCorrect == Spec => []SlotsWritten
<1>1. IInv => SlotsWritten
  BY DEF SlotsWritten, IInv, SlotsInv, Written
<1> QED BY <1>1, InvCorrect, PTL

\* A thread meets a bad pointer only after one of the three causes.
THEOREM FaultNeedsCauseCorrect == Spec => []FaultNeedsCause
<1>1. IInv => FaultNeedsCause
  BY DEF FaultNeedsCause, IInv, HealthInv
<1> QED BY <1>1, InvCorrect, PTL

\* Without an overlap no login is lost, repeated or overtaken.
THEOREM LossNeedsRaceCorrect == Spec => []LossNeedsRace
<1>1. IInv => LossNeedsRace
  <2> SUFFICES ASSUME IInv, ~overlapped, ~gone
               PROVE  wire \o Buffered = [i \in 1 .. accepted |-> i]
    BY DEF LossNeedsRace
  <2>1. /\ wire \in Seq(Nat) /\ Len(wire) \in Nat
        /\ slots \in [1 .. Slots -> Nat] /\ Slots \in Nat
        /\ nLast \in Nat /\ sent \in Nat /\ accepted \in Nat
        /\ sent <= nLast /\ nLast <= Slots
        /\ Len(wire) + nLast = accepted + sent
        /\ \A i \in 1 .. Len(wire) : wire[i] = i
        /\ \A i \in sent + 1 .. nLast : slots[i] = Len(wire) + i - sent
    BY SizeAssumption, LenProperties
       DEF IInv, TypeOK, SlotsInv, StreamInv, Written
  <2>2. \A i \in sent + 1 .. nLast : slots[i] \in Nat
    BY <2>1
  <2>3. /\ Buffered \in Seq(Nat)
        /\ Len(Buffered) = nLast - sent
        /\ \A i \in 1 .. nLast - sent : Buffered[i] = slots[sent + i]
    <3>1. sent + 1 \in Int /\ nLast \in Int
      BY <2>1
    <3>2. /\ Buffered \in Seq(Nat)
          /\ Len(Buffered) = IF sent + 1 <= nLast THEN nLast - (sent + 1) + 1
                                                  ELSE 0
          /\ \A i \in 1 .. nLast - (sent + 1) + 1 :
                Buffered[i] = slots[(sent + 1) + i - 1]
      BY <2>2, <3>1, SubSeqProperties DEF Buffered
    <3>3. /\ nLast - (sent + 1) + 1 = nLast - sent
          /\ \A i \in Int : (sent + 1) + i - 1 = sent + i
      BY <2>1
    <3> QED BY <2>1, <3>2, <3>3
  <2> DEFINE all == wire \o Buffered
             ids == [i \in 1 .. accepted |-> i]
  <2>4. /\ all \in Seq(Nat)
        /\ Len(all) = Len(wire) + (nLast - sent)
        /\ \A i \in 1 .. Len(wire) + (nLast - sent) :
              all[i] = IF i <= Len(wire) THEN wire[i]
                                         ELSE Buffered[i - Len(wire)]
    <3> HIDE DEF IInv, TypeOK, SlotsInv, HealthInv, StreamInv
    <3>1. /\ all \in Seq(Nat)
          /\ Len(all) = Len(wire) + Len(Buffered)
          /\ \A i \in 1 .. Len(wire) + Len(Buffered) :
                all[i] = IF i <= Len(wire) THEN wire[i]
                                           ELSE Buffered[i - Len(wire)]
      <4>1. wire \in Seq(Nat) /\ Buffered \in Seq(Nat)
        BY <2>1, <2>3
      <4> QED BY ONLY <4>1, ConcatProperties, Zenon DEF all
    <3>2. Len(Buffered) = nLast - sent
      BY <2>3
    <3> QED BY ONLY <3>1, <3>2
  <2>5. Len(wire) + (nLast - sent) = accepted
    BY <2>1
  <2>6. \A i \in 1 .. accepted : all[i] = i
    <3> SUFFICES ASSUME NEW i \in 1 .. accepted PROVE all[i] = i
      OBVIOUS
    <3>1. CASE i <= Len(wire)
      BY <2>1, <2>4, <2>5, <3>1
    <3>2. CASE i > Len(wire)
      <4>1. /\ i - Len(wire) \in 1 .. nLast - sent
            /\ sent + (i - Len(wire)) \in sent + 1 .. nLast
            /\ ~(i <= Len(wire))
        BY <2>1, <2>5, <3>2
      <4>2. all[i] = Buffered[i - Len(wire)]
        BY <2>4, <2>5, <4>1
      <4>3. Buffered[i - Len(wire)] = slots[sent + (i - Len(wire))]
        BY <2>3, <4>1
      <4>4. Len(wire) + (sent + (i - Len(wire))) - sent = i
        BY <2>1
      <4> QED BY <2>1, <4>1, <4>2, <4>3, <4>4
    <3>3. i <= Len(wire) \/ i > Len(wire)
      BY <2>1
    <3> QED BY <3>1, <3>2, <3>3
  <2>7. ids \in Seq(Nat) /\ Len(ids) = accepted
    BY <2>1
  <2> QED BY <2>4, <2>5, <2>6, <2>7, SeqEqual
<1> QED BY <1>1, InvCorrect, PTL
=============================================================================
