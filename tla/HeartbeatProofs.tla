---------------------------- MODULE HeartbeatProofs ---------------------------
(***************************************************************************)
(* Proofs about Heartbeat, for any clients and any times that satisfy      *)
(* TimeAssumption.                                                         *)
(***************************************************************************)
EXTENDS Heartbeat, TLAPS

\* What waits in the socket of c has come after the last select.
Unseen(c) == pc \in {"loop", "time"} \/ (pc = "read" /\ c \notin ready)

\* The phases of a pass, and the counts of the clients.
PhaseInv ==
  /\ pc # "remove" => doomed = {}
  /\ pc # "read" => ready = {}
  /\ pc = "idle" => In("joined") = {}
  /\ \A c \in Clients :
       /\ lastHeard[c] <= now
       /\ where[c] \in {"none", "queued"} => dtHeart[c] = 0
       /\ where[c] = "joined" /\ c \notin doomed => dtHeart[c] < Dead

\* A keen client: the count started at most a pass before its last LOGIN, as
\* long as no other LOGIN waits; one that does came at most a period later.
KeenInv ==
  \A c \in Keen : Connected(c) =>
     /\ c \notin doomed
     /\ now <= lastHeard[c] + Period
     /\ where[c] = "joined" /\ "LOGIN" \notin waiting[c]
          => lastHeard[c] + dtHeart[c] <= oldTime + MaxPass
     /\ where[c] = "joined" /\ "LOGIN" \in waiting[c] /\ Unseen(c)
          => dtHeart[c] <= MaxPass + Period

\* Any client: the count started at most a pass after it was last read from.
SilentInv ==
  \A c \in Clients :
     /\ lastRead[c] <= now
     /\ where[c] = "queued" =>
          /\ oldTime <= lastRead[c] + MaxPass
          /\ pc \in {"idle", "time"} => oldTime <= lastRead[c]
     /\ where[c] = "joined" => oldTime <= lastRead[c] + dtHeart[c] + MaxPass

IInv == TypeOK /\ PhaseInv /\ KeenInv /\ SilentInv

\* The invariant holds at the start.
LEMMA InitInv == Init => IInv
BY TimeAssumption DEF Init, IInv, TypeOK, PhaseInv, KeenInv, SilentInv,
   Connected, In, Unseen, Kinds

USE TimeAssumption DEF IInv, TypeOK, PhaseInv, KeenInv, SilentInv, Connected,
    In, Unseen, Kinds

\* Steps of the clients and of time.
LEMMA EnvironmentInv == IInv /\ Environment => IInv'
<1> SUFFICES ASSUME IInv, Environment PROVE IInv'
  OBVIOUS
<1>1. CASE Tick
  BY <1>1 DEF Tick, passVars, clientVars
<1>2. ASSUME NEW c \in Clients, Connect(c) PROVE IInv'
  BY <1>2 DEF Connect, passVars
<1>3. ASSUME NEW c \in Clients, HangUp(c) PROVE IInv'
  BY <1>3 DEF HangUp, passVars
<1>4. ASSUME NEW c \in Clients, NEW kind \in Kinds, SendMsg(c, kind)
      PROVE IInv'
  BY <1>4 DEF SendMsg, passVars
<1> QED BY <1>1, <1>2, <1>3, <1>4 DEF Environment

\* Steps of the message thread.
LEMMA ThreadInv == IInv /\ Thread => IInv'
<1> SUFFICES ASSUME IInv, Thread PROVE IInv'
  OBVIOUS
<1>0. CASE NoClients
  BY <1>0 DEF NoClients, clientVars
<1>1. CASE Idle
  BY <1>1 DEF Idle, clientVars
<1>2. CASE Merge
  BY <1>2 DEF Merge, clientVars
<1>3. CASE CheckTime
  BY <1>3 DEF CheckTime, clientVars
<1>4. CASE Select
  BY <1>4 DEF Select, clientVars
<1>5. CASE PassDone
  BY <1>5 DEF PassDone, clientVars
<1>6. ASSUME NEW c \in Clients, Remove(c) PROVE IInv'
  BY <1>6 DEF Remove, clientVars
<1>7. ASSUME NEW c \in Clients, ReadMsgs(c) PROVE IInv'
  BY <1>7 DEF ReadMsgs, ResetsHeart
<1>8. ASSUME NEW c \in Clients, ReadEnd(c) PROVE IInv'
  BY <1>8 DEF ReadEnd, clientVars
<1> QED BY <1>0, <1>1, <1>2, <1>3, <1>4, <1>5, <1>6, <1>7, <1>8 DEF Thread

LEMMA StutterInv == IInv /\ UNCHANGED vars => IInv'
BY DEF vars, passVars, clientVars

LEMMA InvCorrect == Spec => []IInv
<1>1. IInv /\ [Next]_vars => IInv'
  BY EnvironmentInv, ThreadInv, StutterInv DEF Next
<1> QED BY <1>1, InitInv, PTL DEF Spec

\* The variables keep their types; the thread reads its clock in time.
THEOREM TypeCorrect == Spec => []TypeOK
<1>1. IInv => TypeOK
  OBVIOUS
<1> QED BY <1>1, InvCorrect, PTL

\* CheckTime before ReadData removes no client that keeps sending, whatever
\* the period and the length of a pass, as long as the limit exceeds the
\* period and two passes.
THEOREM KeenStaysCorrect == Spec => []KeenStays
<1>1. IInv => KeenStays
  BY DEF KeenStays
<1> QED BY <1>1, InvCorrect, PTL

\* A client that nothing was read from for the limit and two passes is found
\* dead.
THEOREM SilentGoesCorrect == Spec => []SilentGoes
<1>1. IInv => SilentGoes
  BY DEF SilentGoes
<1> QED BY <1>1, InvCorrect, PTL
=============================================================================
