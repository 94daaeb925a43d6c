------------------------------ MODULE CELLBuffer -------------------------------
(***************************************************************************)
(* CELLBuffer: a byte array with an end position, here the sequence of the *)
(* bytes it holds.  The unit of data is a piece of a message, <<kind, i>>  *)
(* for the i-th piece of a message of that kind; the dataLength field is   *)
(* in the first.  _fullCount, which nothing reads, is left out.            *)
(***************************************************************************)
EXTENDS Integers, Sequences, SequencesExt

CONSTANTS
  Kinds,     \* the message types, CMD of MessageHeader.hpp
  Length,    \* the dataLength of each, in units
  Header     \* sizeof(netmsg_DataHeader), in units

ASSUME BufferAssumption ==
  /\ Header \in Nat \ {0}
  /\ Length \in [Kinds -> Nat]
  /\ \A k \in Kinds : Length[k] >= Header

Units == Kinds \X (Nat \ {0})

\* A message as its sender lays it out, and the stream of several.
Msg(k) == [i \in 1 .. Length[k] |-> <<k, i>>]
Bytes(ks) == FlattenSeq([i \in 1 .. Len(ks) |-> Msg(ks[i])])

\* Slips: push checks nothing; pop removes the header only.
FitsAlways(b, data, size) == TRUE
PopHeader(b, n) == SubSeq(b, Header + 1, Len(b))

\* push: all of the data or, when it does not fit, nothing.
Fits(b, data, size) == Len(b) + Len(data) <= size
Push(b, data, size) == IF Fits(b, data, size) THEN b \o data ELSE b

\* pop: the bytes after the first n move to the front.  The memcpy of the code
\* has overlapping regions, which C leaves undefined; here it moves the bytes
\* as memmove would.
Pop(b, n) == SubSeq(b, n + 1, Len(b))

\* Slip: recv writes at the start of the array.
Overwrite4Socket(b, data) == data \o SubSeq(b, Len(data) + 1, Len(b))

\* read4socket with n bytes from recv.
Append4Socket(b, data) == b \o data

\* What front_msg() reads in the header: whatever unit is at the front.
FrontKind(b)   == b[1][1]
FrontLength(b) == Length[FrontKind(b)]

HasMsg(b) == Len(b) >= Header /\ Len(b) >= FrontLength(b)
=============================================================================
