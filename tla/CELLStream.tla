------------------------------ MODULE CELLStream ------------------------------
(***************************************************************************)
(* A message written with CELLWriteStream and read with CELLReadStream.    *)
(* The first uint16 holds the length, which finish() fills in; an array is *)
(* preceded by its length as a uint32.                                     *)
(*                                                                         *)
(* Offsets and widths are those of the code, in bytes.  Of the contents    *)
(* the buffer keeps, at the offset of its first byte, each object that was *)
(* written: its width and its value, the serial number of its write.       *)
(***************************************************************************)
EXTENDS Integers, Sequences

CONSTANTS
  Size,        \* _nSize of the writer
  Widths,      \* the widths of the element types
  MaxLen,      \* bound on the length of an array
  LengthLimit  \* one more than the largest uint16

ASSUME SizeAssumption ==
  /\ Size \in Nat /\ Size >= 2
  /\ Widths \subseteq Nat \ {0}
  /\ MaxLen \in Nat
  /\ LengthLimit \in Nat \ {0}

VARIABLES
  phase,    \* "write", "finished" or "read"
  mem,      \* the buffer
  wPos,     \* _nWritePos of the writer
  rSize,    \* _nSize of the reader
  rPos,     \* _nReadPos of the reader
  written,  \* history: what the writer has written, in order
  read,     \* history: the values the reader has read
  refused   \* history: arrays that ReadArray refused, with the place it had

writerVars == <<wPos, written>>
readerVars == <<rSize, rPos, read, refused>>
vars       == <<phase, mem, writerVars, readerVars>>

Nothing           == [width |-> 0, val |-> 0]
Object(width, val) == [width |-> width, val |-> val]
Value(width, val)  == [array |-> FALSE, width |-> width, len |-> 1, val |-> val]
Array(width, len, val) ==
  [array |-> TRUE, width |-> width, len |-> len, val |-> val]

Items == [array : BOOLEAN, width : Nat \ {0}, len : Nat, val : Nat]

LengthWidth == 2    \* sizeof(uint16_t)
CountWidth  == 4    \* sizeof(uint32_t)

canWrite(k) == Size - wPos >= k
canRead(k)  == rSize - rPos >= k

TypeOK ==
  /\ phase \in {"write", "finished", "read"}
  /\ mem \in [0 .. Size - 1 -> [width : Nat, val : Nat]]
  /\ wPos \in Nat /\ rSize \in Nat /\ rPos \in Nat
  /\ written \in Seq(Items)
  /\ read \in Seq(Nat)
  /\ refused \in SUBSET [len : Nat, place : Nat]

\* The constructor of CELLWriteStream keeps the place of the length.
Init ==
  /\ phase = "write"
  /\ mem = [i \in 0 .. Size - 1 |->
              IF i = 0 THEN Object(LengthWidth, 0) ELSE Nothing]
  /\ wPos = LengthWidth
  /\ rSize = 0 /\ rPos = 0
  /\ written = <<Value(LengthWidth, 0)>>
  /\ read = <<>>
  /\ refused = {}

-----------------------------------------------------------------------------
\* Slips: WriteArray forgets the place of the count; finish stores the length
\* of what follows it.
WriteArrayUncounted(width, len) ==
  LET bytes == width * len
      v     == Len(written) + 1
  IN /\ phase # "read"
     /\ canWrite(bytes)
     /\ mem' = [mem EXCEPT ![wPos] = Object(CountWidth, len),
                           ![wPos + CountWidth] = Object(bytes, v)]
     /\ wPos' = wPos + CountWidth + bytes
     /\ written' = Append(written, Array(width, len, v))
     /\ phase' = "write"
     /\ UNCHANGED readerVars

FinishPayload ==
  /\ phase = "write"
  /\ mem' = [mem EXCEPT ![0] = Object(LengthWidth, wPos - LengthWidth)]
  /\ written' = [written EXCEPT ![1] = Value(LengthWidth, wPos - LengthWidth)]
  /\ phase' = "finished"
  /\ UNCHANGED <<wPos, readerVars>>

-----------------------------------------------------------------------------
\* Write, and with the width of a uint16 setNetCmd; it fails without a place.
Write(width) ==
  LET v == Len(written) + 1
  IN /\ phase # "read"
     /\ canWrite(width)
     /\ mem' = [mem EXCEPT ![wPos] = Object(width, v)]
     /\ wPos' = wPos + width
     /\ written' = Append(written, Value(width, v))
     /\ phase' = "write"
     /\ UNCHANGED readerVars

\* WriteArray and WriteString: the count and the elements, or nothing.
WriteArray(width, len) ==
  LET bytes == width * len
      v     == Len(written) + 1
      elems == IF bytes > 0 THEN {wPos + CountWidth} ELSE {}
  IN /\ phase # "read"
     /\ canWrite(bytes + CountWidth)
     /\ mem' = [i \in 0 .. Size - 1 |->
                  IF i = wPos THEN Object(CountWidth, len)
                  ELSE IF i \in elems THEN Object(bytes, v) ELSE mem[i]]
     /\ wPos' = wPos + CountWidth + bytes
     /\ written' = Append(written, Array(width, len, v))
     /\ phase' = "write"
     /\ UNCHANGED readerVars

\* finish stores the length, as a uint16, and restores the position.
Finish ==
  /\ phase = "write"
  /\ mem' = [mem EXCEPT ![0] = Object(LengthWidth, wPos % LengthLimit)]
  /\ written' = [written EXCEPT ![1] = Value(LengthWidth, wPos % LengthLimit)]
  /\ phase' = "finished"
  /\ UNCHANGED <<wPos, readerVars>>

\* The receiver builds a CELLReadStream from the header.
Open ==
  /\ phase = "finished"
  /\ rSize' = mem[0].val
  /\ phase' = "read"
  /\ UNCHANGED <<mem, writerVars, rPos, read, refused>>

-----------------------------------------------------------------------------
\* The reader asks for what was written next.  It knows the types, and goes
\* on after a result that is not a failure.
More == phase = "read" /\ Len(read) < Len(written)
Item == written[Len(read) + 1]

\* The value that memcpy finds at the read position; anything when no object
\* of this width starts there.
Found(width, anything) ==
  IF mem[rPos].width = width THEN {mem[rPos].val} ELSE anything

Read ==
  /\ More /\ ~Item.array
  /\ canRead(Item.width)
  /\ \E v \in Found(Item.width, {0}) : read' = Append(read, v)
  /\ rPos' = rPos + Item.width
  /\ UNCHANGED <<phase, mem, writerVars, rSize, refused>>

\* len1 stays 0 when the count cannot be read; the result is the length, so
\* that 0 is an empty array as well as a failure.
ReadArray(place) ==
  /\ More /\ Item.array
  /\ \E len1 \in IF canRead(CountWidth) THEN Found(CountWidth, 0 .. MaxLen)
                                        ELSE {0} :
       LET bytes == Item.width * len1
           ok    == len1 < place /\ canRead(bytes + CountWidth)
       IN /\ rPos' = IF ok THEN rPos + CountWidth + bytes ELSE rPos
          /\ IF ok /\ len1 > 0
             THEN \E v \in IF mem[rPos + CountWidth].width = bytes
                           THEN {mem[rPos + CountWidth].val} ELSE {0} :
                     read' = Append(read, v)
             ELSE UNCHANGED read
          /\ refused' = IF ok THEN refused
                        ELSE refused \cup {[len |-> Item.len, place |-> place]}
  /\ UNCHANGED <<phase, mem, writerVars, rSize>>

Next ==
  \/ \E w \in Widths : Write(w)
  \/ \E w \in Widths, l \in 0 .. MaxLen : WriteArray(w, l)
  \/ Finish \/ Open
  \/ Read
  \/ \E p \in 0 .. MaxLen + 1 : ReadArray(p)

Spec == Init /\ [][Next]_vars

-----------------------------------------------------------------------------
\* The writer stays inside its buffer, and the reader inside what was written.
WithinWritten == rPos <= rSize /\ rSize <= wPos /\ wPos <= Size

\* A message shorter than a uint16 can say, and without empty arrays, is read
\* back as it was written: no Read fails, and ReadArray refuses an array only
\* when the caller's place is not longer, though one as long would do.
Faithful == /\ wPos < LengthLimit
            /\ \A i \in 1 .. Len(written) : written[i].len > 0
ReadBack ==
  phase = "read" /\ Faithful =>
     /\ \A i \in 1 .. Len(read) : read[i] = written[i].val
     /\ \A r \in refused : r.place <= r.len
     /\ More /\ ~Item.array => canRead(Item.width)
     /\ Len(read) = Len(written) => rPos = wPos
=============================================================================
