---------------------------- MODULE CELLStreamProofs --------------------------
(***************************************************************************)
(* Proofs about CELLStream, for buffers, types and arrays of any size.     *)
(***************************************************************************)
EXTENDS CELLStream, SequenceTheorems, TLAPS

\* The bytes an item takes, and the objects it leaves at an offset.
Bytes(item) ==
  IF item.array THEN CountWidth + item.width * item.len ELSE item.width

Holds(m, item, p) ==
  IF item.array
  THEN /\ m[p] = Object(CountWidth, item.len)
       /\ item.len > 0 =>
            m[p + CountWidth] = Object(item.width * item.len, item.val)
  ELSE m[p] = Object(item.width, item.val)

\* The items lie one after the other from 0 to _nWritePos, off[i] being the
\* offset of the i-th.
Layout(off) ==
  /\ off \in [1 .. Len(written) + 1 -> Nat]
  /\ off[1] = 0 /\ off[Len(written) + 1] = wPos
  /\ \A i \in 1 .. Len(written) :
       /\ off[i + 1] = off[i] + Bytes(written[i])
       /\ off[i + 1] <= wPos
       /\ i > 1 => LengthWidth <= off[i]
       /\ Holds(mem, written[i], off[i])

\* The reader is at the beginning of the item that it has to read next.
InStep(off) ==
  phase = "read" /\ Faithful =>
    /\ rSize = wPos
    /\ Len(read) <= Len(written) /\ rPos = off[Len(read) + 1]
    /\ \A i \in 1 .. Len(read) : read[i] = written[i].val
    /\ \A r \in refused : r.place <= r.len

\* The first item is the length, which Open takes for the size.
LengthInv ==
  /\ Len(written) > 0
  /\ ~written[1].array /\ written[1].width = LengthWidth
  /\ LengthWidth <= wPos /\ wPos <= Size
  /\ phase = "finished" => mem[0].val = wPos % LengthLimit
  /\ phase # "read" => rSize = 0 /\ rPos = 0 /\ read = <<>> /\ refused = {}
  /\ rPos <= rSize /\ rSize <= wPos

IInv == /\ TypeOK /\ LengthInv
        /\ \E off \in [1 .. Len(written) + 1 -> Nat] : Layout(off) /\ InStep(off)

-----------------------------------------------------------------------------
LEMMA Truncated ==
  ASSUME NEW x \in Nat
  PROVE  /\ x % LengthLimit \in Nat
         /\ x % LengthLimit <= x
         /\ x < LengthLimit => x % LengthLimit = x
BY SizeAssumption

LEMMA Product ==
  ASSUME NEW a \in Nat \ {0}, NEW b \in Nat
  PROVE  a * b \in Nat /\ (b > 0 => a * b > 0) /\ (b = 0 => a * b = 0)
OBVIOUS

LEMMA BytesType ==
  ASSUME NEW item \in Items
  PROVE  Bytes(item) \in Nat \ {0}
<1> item.width \in Nat \ {0} /\ item.len \in Nat
  BY DEF Items
<1> item.width * item.len \in Nat
  BY Product
<1> QED BY DEF Bytes, CountWidth

\* The invariant holds at the start.
LEMMA InitInv == Init => IInv
<1> SUFFICES ASSUME Init PROVE IInv
  OBVIOUS
<1> USE SizeAssumption DEF Init, Value, Object, Nothing, LengthWidth, CountWidth
<1>1. /\ written \in Seq(Items) /\ Len(written) = 1
      /\ written[1] = Value(LengthWidth, 0)
  BY DEF Items
<1>2. TypeOK
  BY <1>1 DEF TypeOK
<1>3. LengthInv
  BY <1>1 DEF LengthInv, Items
<1>4. PICK off : off = [i \in 1 .. 2 |-> IF i = 1 THEN 0 ELSE LengthWidth]
  OBVIOUS
<1>5. Layout(off) /\ off \in [1 .. Len(written) + 1 -> Nat]
  <2>1. off \in [1 .. 1 + 1 -> Nat] /\ off[1] = 0 /\ off[1 + 1] = LengthWidth
    BY <1>4
  <2>2. Bytes(written[1]) = LengthWidth /\ Holds(mem, written[1], 0)
    BY <1>1 DEF Bytes, Holds
  <2>3. \A i \in 1 .. Len(written) : i = 1 /\ ~(i > 1)
    BY <1>1
  <2>4. wPos = LengthWidth /\ off[Len(written) + 1] = wPos
        /\ off \in [1 .. Len(written) + 1 -> Nat]
    BY <1>1, <2>1
  <2>5. off[1 + 1] = off[1] + Bytes(written[1]) /\ off[1 + 1] <= wPos
    BY <2>1, <2>2, <2>4
  <2> HIDE DEF Init
  <2> QED BY <2>1, <2>2, <2>3, <2>4, <2>5 DEF Layout
<1>6. InStep(off)
  BY DEF InStep
<1> QED BY <1>2, <1>3, <1>5, <1>6 DEF IInv

\* A write puts an item at the end and changes nothing before it.
LEMMA Grow ==
  ASSUME IInv, NEW item \in Items,
         written' = Append(written, item),
         wPos' = wPos + Bytes(item),
         \A i \in 0 .. wPos - 1 : mem'[i] = mem[i],
         Holds(mem', item, wPos)
  PROVE  \E off \in [1 .. Len(written') + 1 -> Nat] : Layout(off)'
<1> DEFINE k == Len(written)
<1>1. PICK old \in [1 .. k + 1 -> Nat] : Layout(old)
  BY DEF IInv
<1>2. /\ k \in Nat /\ k > 0 /\ wPos \in Nat /\ LengthWidth <= wPos
      /\ written \in Seq(Items)
      /\ Bytes(item) \in Nat \ {0}
  BY BytesType, LenProperties DEF IInv, TypeOK, LengthInv
<1>3. /\ Len(written') = k + 1 /\ written'[k + 1] = item
      /\ \A i \in 1 .. k : written'[i] = written[i] /\ written[i] \in Items
  BY <1>2, AppendProperties, ElementOfSeq
<1>4. PICK off : off = [i \in 1 .. (k + 1) + 1 |->
                         IF i <= k + 1 THEN old[i] ELSE wPos + Bytes(item)]
  OBVIOUS
<1>5. off \in [1 .. (k + 1) + 1 -> Nat]
  BY <1>2, <1>4
<1>6. /\ off[1] = 0 /\ off[(k + 1) + 1] = wPos' /\ off[k + 1] = wPos
      /\ \A i \in 1 .. k + 1 : off[i] = old[i]
  BY <1>1, <1>2, <1>4 DEF Layout
<1>7. ASSUME NEW i \in 1 .. k
      PROVE  /\ off[i + 1] = off[i] + Bytes(written'[i])
             /\ off[i + 1] <= wPos'
             /\ i > 1 => LengthWidth <= off[i]
             /\ Holds(mem', written'[i], off[i])
  <2>1. /\ old[i + 1] = old[i] + Bytes(written[i]) /\ old[i + 1] <= wPos
        /\ i > 1 => LengthWidth <= old[i]
        /\ Holds(mem, written[i], old[i])
        /\ old[i] \in Nat
    <3>1. k \in Nat /\ i \in 1 .. k /\ i \in 1 .. k + 1
      BY <1>2
    <3>2. old[i] \in Nat
      BY <1>1, <3>1
    <3> QED BY <1>1, <3>1, <3>2 DEF Layout
  <2>2. off[i] = old[i] /\ off[i + 1] = old[i + 1]
    BY <1>2, <1>6
  <2>3. Bytes(written[i]) \in Nat \ {0}
    BY <1>3, BytesType
  <2>4. mem'[old[i]] = mem[old[i]]
    <3>1. old[i] \in 0 .. wPos - 1
      BY <1>2, <2>1, <2>3
    <3> QED BY <3>1
  <2>5. written[i].array /\ written[i].len > 0
          => mem'[old[i] + CountWidth] = mem[old[i] + CountWidth]
    <3> SUFFICES ASSUME written[i].array, written[i].len > 0
                 PROVE  old[i] + CountWidth \in 0 .. wPos - 1
      OBVIOUS
    <3>1. written[i].width \in Nat \ {0} /\ written[i].len \in Nat
      BY <1>3 DEF Items
    <3>2. written[i].width * written[i].len \in Nat \ {0}
      BY <3>1, Product
    <3>3. Bytes(written[i]) = CountWidth + written[i].width * written[i].len
      BY DEF Bytes
    <3> QED BY <1>2, <2>1, <3>2, <3>3 DEF CountWidth
  <2>6. Holds(mem', written'[i], old[i])
    BY <1>3, <2>1, <2>4, <2>5 DEF Holds
  <2> QED BY <1>2, <1>3, <2>1, <2>2, <2>3, <2>6
<1>8. ASSUME NEW i \in 1 .. k + 1
      PROVE  /\ off[i + 1] = off[i] + Bytes(written'[i])
             /\ off[i + 1] <= wPos'
             /\ i > 1 => LengthWidth <= off[i]
             /\ Holds(mem', written'[i], off[i])
  <2>1. CASE i = k + 1
    BY <1>2, <1>3, <1>6, <2>1
  <2> QED BY <1>2, <1>7, <2>1
<1>9. Layout(off)'
  BY <1>2, <1>3, <1>5, <1>6, <1>8 DEF Layout
<1> QED BY <1>3, <1>5, <1>9

\* What a write leaves of the invariant.
LEMMA Grew ==
  ASSUME IInv, NEW item \in Items,
         written' = Append(written, item),
         wPos' = wPos + Bytes(item), wPos' <= Size,
         phase' = "write", phase # "read", UNCHANGED readerVars,
         mem' \in [0 .. Size - 1 -> [width : Nat, val : Nat]],
         \A i \in 0 .. wPos - 1 : mem'[i] = mem[i],
         Holds(mem', item, wPos)
  PROVE  IInv'
<1>1. PICK off \in [1 .. Len(written') + 1 -> Nat] : Layout(off)'
  BY Grow
<1>2. /\ Len(written) \in Nat /\ Len(written) > 0 /\ written \in Seq(Items)
      /\ wPos \in Nat /\ LengthWidth <= wPos
      /\ Bytes(item) \in Nat \ {0}
  BY BytesType, LenProperties DEF IInv, TypeOK, LengthInv
<1>3. /\ written' \in Seq(Items) /\ Len(written') = Len(written) + 1
      /\ written'[1] = written[1]
  BY <1>2, AppendProperties
<1>4. TypeOK'
  BY <1>2, <1>3 DEF IInv, TypeOK, readerVars
<1>5. LengthInv'
  BY <1>2, <1>3 DEF IInv, LengthInv, readerVars, LengthWidth
<1>6. InStep(off)'
  BY DEF InStep
<1> QED BY <1>1, <1>4, <1>5, <1>6 DEF IInv

\* Steps of the writer.
LEMMA WriteInv ==
  ASSUME NEW width \in Widths, IInv, Write(width)
  PROVE  IInv'
<1> DEFINE item == Value(width, Len(written) + 1)
<1>1. /\ width \in Nat \ {0} /\ Len(written) \in Nat /\ wPos \in Nat
      /\ written \in Seq(Items)
  BY SizeAssumption, LenProperties DEF IInv, TypeOK, LengthInv
<1>2. item \in Items /\ Bytes(item) = width
  BY <1>1 DEF Items, Value, Bytes
<1>3. /\ written' = Append(written, item)
      /\ wPos' = wPos + Bytes(item) /\ wPos' <= Size
      /\ phase' = "write" /\ phase # "read"
      /\ UNCHANGED readerVars
      /\ wPos \in 0 .. Size - 1
      /\ mem' = [mem EXCEPT ![wPos] = Object(width, Len(written) + 1)]
  BY <1>1, <1>2, SizeAssumption DEF Write, canWrite
<1>4. /\ \A i \in 0 .. wPos - 1 : mem'[i] = mem[i]
      /\ Holds(mem', item, wPos)
      /\ mem' \in [0 .. Size - 1 -> [width : Nat, val : Nat]]
  BY <1>1, <1>3, SizeAssumption DEF IInv, TypeOK, Holds, Object, Value
<1> QED BY <1>1, <1>2, <1>3, <1>4, Grew

LEMMA WriteArrayInv ==
  ASSUME NEW width \in Widths, NEW len \in 0 .. MaxLen, IInv,
         WriteArray(width, len)
  PROVE  IInv'
<1> DEFINE v    == Len(written) + 1
           item == Array(width, len, v)
           body == width * len
           elems == IF body > 0 THEN {wPos + CountWidth} ELSE {}
<1>1. /\ width \in Nat \ {0} /\ len \in Nat /\ v \in Nat /\ wPos \in Nat
      /\ body \in Nat /\ Size \in Nat /\ (len > 0 => body > 0)
  BY SizeAssumption, LenProperties, Product DEF IInv, TypeOK, LengthInv
<1>2. item \in Items /\ Bytes(item) = CountWidth + body
  BY <1>1 DEF Items, Array, Bytes
<1>3. /\ written' = Append(written, item)
      /\ wPos' = wPos + CountWidth + body
      /\ Size - wPos >= body + CountWidth
      /\ phase' = "write" /\ phase # "read"
      /\ UNCHANGED readerVars
      /\ mem' = [i \in 0 .. Size - 1 |->
                   IF i = wPos THEN Object(CountWidth, len)
                   ELSE IF i \in elems THEN Object(body, v) ELSE mem[i]]
  BY DEF WriteArray, canWrite
<1>4. wPos' = wPos + Bytes(item) /\ wPos' <= Size
  BY <1>1, <1>2, <1>3 DEF CountWidth
<1>5. mem' \in [0 .. Size - 1 -> [width : Nat, val : Nat]]
  BY <1>1, <1>3 DEF IInv, TypeOK, Object, CountWidth
<1>6. \A i \in 0 .. wPos - 1 : mem'[i] = mem[i]
  BY <1>1, <1>3, SMTT(30) DEF CountWidth
<1>7. Holds(mem', item, wPos)
  <2>1. mem'[wPos] = Object(CountWidth, len)
    <3>1. wPos \in 0 .. Size - 1
      BY <1>1, <1>3 DEF CountWidth
    <3> QED BY <1>3, <3>1
  <2>2. ASSUME len > 0 PROVE mem'[wPos + CountWidth] = Object(body, v)
    <3>1. /\ wPos + CountWidth \in 0 .. Size - 1 /\ wPos + CountWidth # wPos
          /\ wPos + CountWidth \in elems
      BY <1>1, <1>3, <2>2 DEF CountWidth
    <3> QED BY <1>3, <3>1
  <2> QED BY <2>1, <2>2 DEF Holds, Array
<1> HIDE DEF item
<1> QED BY <1>2, <1>3, <1>4, <1>5, <1>6, <1>7, Grew

LEMMA FinishInv == ASSUME IInv, Finish PROVE IInv'
<1> DEFINE len == wPos % LengthLimit
           item == Value(LengthWidth, len)
           k == Len(written)
<1>1. PICK off \in [1 .. k + 1 -> Nat] : Layout(off)
  BY DEF IInv
<1>2. /\ k \in Nat /\ k > 0 /\ wPos \in Nat /\ len \in Nat /\ len <= wPos
      /\ written \in Seq(Items) /\ LengthWidth <= wPos /\ wPos <= Size
      /\ ~written[1].array /\ written[1].width = LengthWidth
      /\ Size \in Nat /\ Size >= 2
  BY SizeAssumption, LenProperties, Truncated DEF IInv, TypeOK, LengthInv
<1>3. /\ phase' = "finished" /\ phase = "write"
      /\ written' = [written EXCEPT ![1] = item]
      /\ mem' = [mem EXCEPT ![0] = Object(LengthWidth, len)]
      /\ UNCHANGED <<wPos, readerVars>>
  BY DEF Finish
<1>4. item \in Items /\ Bytes(item) = LengthWidth
  BY <1>2 DEF Items, Value, Bytes, LengthWidth
<1>5. /\ written' \in Seq(Items) /\ Len(written') = k
      /\ written'[1] = item
      /\ \A i \in 2 .. k : written'[i] = written[i]
  BY <1>2, <1>3, <1>4, ExceptSeq
<1>6. /\ mem'[0] = Object(LengthWidth, len)
      /\ \A i \in 1 .. Size - 1 : mem'[i] = mem[i]
      /\ mem' \in [0 .. Size - 1 -> [width : Nat, val : Nat]]
  BY <1>2, <1>3 DEF IInv, TypeOK, Object, LengthWidth
<1> HIDE DEF item
<1>7. ASSUME NEW i \in 2 .. k
      PROVE  Holds(mem', written'[i], off[i])
  <2>1. /\ Holds(mem, written[i], off[i]) /\ LengthWidth <= off[i]
        /\ off[i] + Bytes(written[i]) <= wPos
        /\ off[i] \in Nat
    <3>1. i \in 1 .. k /\ i > 1 /\ i \in 1 .. k + 1
      BY <1>2
    <3>2. off[i] \in Nat
      BY <1>1, <3>1
    <3> QED BY <1>1, <3>1, <3>2 DEF Layout
  <2>2. written[i] \in Items /\ Bytes(written[i]) \in Nat \ {0}
    BY <1>2, ElementOfSeq, BytesType
  <2>3. mem'[off[i]] = mem[off[i]]
    BY <1>2, <1>6, <2>1, <2>2, SMTT(30) DEF LengthWidth
  <2>4. written[i].array /\ written[i].len > 0
          => mem'[off[i] + CountWidth] = mem[off[i] + CountWidth]
    <3> SUFFICES ASSUME written[i].array, written[i].len > 0
                 PROVE  off[i] + CountWidth \in 1 .. Size - 1
      BY <1>6
    <3>1. written[i].width \in Nat \ {0} /\ written[i].len \in Nat
      BY <2>2 DEF Items
    <3>2. written[i].width * written[i].len \in Nat \ {0}
      BY <3>1, Product
    <3>3. Bytes(written[i]) = CountWidth + written[i].width * written[i].len
      BY DEF Bytes
    <3> DEFINE p == written[i].width * written[i].len
    <3>4. p \in Nat \ {0} /\ off[i] + CountWidth + p <= wPos
      BY <2>1, <3>2, <3>3 DEF CountWidth
    <3> HIDE DEF p
    <3> QED BY <1>2, <2>1, <3>4, SMTT(30) DEF CountWidth
  <2> QED BY <1>5, <2>1, <2>3, <2>4 DEF Holds
<1>8. Holds(mem', written'[1], off[1])
  BY <1>1, <1>5, <1>6 DEF Layout, Holds, Value, item
<1>9. Bytes(written[1]) = Bytes(item)
  BY <1>2, <1>4 DEF Bytes
<1>10. ASSUME NEW i \in 1 .. k
       PROVE  /\ off[i + 1] = off[i] + Bytes(written'[i])
              /\ Holds(mem', written'[i], off[i])
  <2>1. off[i + 1] = off[i] + Bytes(written[i])
    BY <1>1 DEF Layout
  <2>2. i = 1 \/ i \in 2 .. k
    BY <1>2
  <2> QED BY <1>5, <1>7, <1>8, <1>9, <2>1, <2>2
<1>11. Layout(off)'
  BY <1>1, <1>3, <1>5, <1>10 DEF Layout
<1>12. InStep(off)'
  BY <1>3 DEF InStep
<1>13. TypeOK'
  BY <1>3, <1>5, <1>6 DEF IInv, TypeOK, readerVars
<1>14. LengthInv'
  BY <1>2, <1>3, <1>5, <1>6
     DEF IInv, LengthInv, readerVars, Object, Value, item
<1> QED BY <1>5, <1>11, <1>12, <1>13, <1>14 DEF IInv

-----------------------------------------------------------------------------
\* Steps of the reader.
LEMMA OpenInv == ASSUME IInv, Open PROVE IInv'
<1>1. PICK off \in [1 .. Len(written) + 1 -> Nat] : Layout(off) /\ InStep(off)
  BY DEF IInv
<1>2. /\ phase' = "read" /\ phase = "finished"
      /\ rSize' = wPos % LengthLimit
      /\ UNCHANGED <<mem, wPos, written, rPos, read, refused>>
      /\ rPos = 0 /\ read = <<>> /\ refused = {}
      /\ Len(written) \in Nat /\ wPos \in Nat
  BY LenProperties DEF Open, IInv, TypeOK, LengthInv, writerVars
<1>3. /\ rSize' \in Nat /\ rSize' <= wPos
      /\ wPos < LengthLimit => rSize' = wPos
  BY <1>2, Truncated
<1>4. Layout(off)'
  BY <1>1, <1>2 DEF Layout
<1>5. InStep(off)'
  BY <1>1, <1>2, <1>3 DEF InStep, Layout, Faithful
<1>6. TypeOK' /\ LengthInv'
  BY <1>2, <1>3 DEF IInv, TypeOK, LengthInv
<1> QED BY <1>1, <1>2, <1>4, <1>5, <1>6 DEF IInv

\* What a step of the reader leaves of the invariant.
LEMMA Advance ==
  ASSUME IInv, phase = "read", UNCHANGED <<phase, mem, writerVars, rSize>>,
         rPos' \in Nat, rPos' <= rSize,
         read' \in Seq(Nat), refused' \in SUBSET [len : Nat, place : Nat],
         \A off \in [1 .. Len(written) + 1 -> Nat] :
            Layout(off) /\ InStep(off) => InStep(off)'
  PROVE  IInv'
<1>1. PICK off \in [1 .. Len(written) + 1 -> Nat] : Layout(off) /\ InStep(off)
  BY DEF IInv
<1>2. Layout(off)'
  BY <1>1 DEF Layout, writerVars
<1>3. TypeOK' /\ LengthInv'
  BY DEF IInv, TypeOK, LengthInv, writerVars
<1> QED BY <1>1, <1>2, <1>3 DEF IInv, writerVars

LEMMA ReadInv == ASSUME IInv, Read PROVE IInv'
<1> DEFINE k == Len(read) + 1
<1>1. /\ phase = "read" /\ k \in 1 .. Len(written) /\ Item = written[k]
      /\ ~Item.array /\ rSize - rPos >= Item.width
      /\ rPos' = rPos + Item.width
      /\ UNCHANGED <<phase, mem, wPos, written, rSize, refused>>
      /\ Len(read) \in Nat /\ Len(written) \in Nat /\ read \in Seq(Nat)
      /\ rPos \in Nat /\ rSize \in Nat
  BY LenProperties
     DEF Read, More, Item, canRead, writerVars, IInv, TypeOK, LengthInv
<1>2. Item \in Items /\ Item.width \in Nat \ {0}
  <2>1. written \in Seq(Items)
    BY DEF IInv, TypeOK
  <2>2. written[k] \in Items
    BY <1>1, <2>1, ElementOfSeq
  <2> QED BY <1>1, <2>2 DEF Items
<1>3. PICK v \in Found(Item.width, {0}) : read' = Append(read, v)
  BY DEF Read
<1>4. v \in Nat
  <2>1. mem[rPos].width = Item.width => mem[rPos].val \in Nat
    <3>1. rPos \in 0 .. Size - 1
      BY <1>1, <1>2, SizeAssumption, SMTT(30) DEF IInv, TypeOK, LengthInv
    <3> QED BY <3>1 DEF IInv, TypeOK
  <2> QED BY <2>1 DEF Found
<1>5. /\ read' \in Seq(Nat) /\ Len(read') = k /\ read'[k] = v
      /\ \A i \in 1 .. Len(read) : read'[i] = read[i]
  BY <1>1, <1>3, <1>4, AppendProperties
<1>6. ASSUME NEW off \in [1 .. Len(written) + 1 -> Nat],
             Layout(off), InStep(off), Faithful
      PROVE  InStep(off)'
  <2>1. /\ rSize = wPos /\ rPos = off[k]
        /\ \A i \in 1 .. Len(read) : read[i] = written[i].val
        /\ \A r \in refused : r.place <= r.len
    BY <1>1, <1>6 DEF InStep
  <2>2. Holds(mem, Item, rPos) /\ off[k + 1] = off[k] + Bytes(Item)
    BY <1>1, <1>6, <2>1 DEF Layout
  <2>3. v = Item.val
    BY <1>1, <1>3, <2>2 DEF Holds, Found, Object
  <2>4. rPos' = off[k + 1]
    BY <1>1, <2>1, <2>2 DEF Bytes
  <2>5. \A i \in 1 .. Len(read') : read'[i] = written[i].val
    <3> TAKE i \in 1 .. Len(read')
    <3>1. i \in 1 .. Len(read) \/ i = k
      BY <1>1, <1>5
    <3>2. read'[k] = written[k].val
      BY <1>1, <1>5, <2>3
    <3> QED BY <1>5, <2>1, <3>1, <3>2
  <2>6. /\ rSize' = wPos' /\ Len(read') <= Len(written')
        /\ rPos' = off[Len(read') + 1]
        /\ \A r \in refused' : r.place <= r.len
    BY <1>1, <1>5, <2>1, <2>4
  <2> QED BY <1>1, <2>5, <2>6 DEF InStep
<1>7. Faithful' <=> Faithful
  BY <1>1 DEF Faithful
<1>8. rPos' \in Nat /\ rPos' <= rSize
  BY <1>1, <1>2
<1> QED BY <1>1, <1>5, <1>6, <1>7, <1>8, Advance
        DEF InStep, writerVars, IInv, TypeOK

LEMMA ReadArrayInv ==
  ASSUME NEW place \in 0 .. MaxLen + 1, IInv, ReadArray(place)
  PROVE  IInv'
<1> DEFINE k == Len(read) + 1
<1>1. /\ phase = "read" /\ k \in 1 .. Len(written) /\ Item = written[k]
      /\ Item.array
      /\ UNCHANGED <<phase, mem, wPos, written, rSize>>
      /\ Len(read) \in Nat /\ Len(written) \in Nat /\ read \in Seq(Nat)
      /\ rPos \in Nat /\ rSize \in Nat /\ rPos <= rSize
      /\ place \in Nat
  BY SizeAssumption, LenProperties, SMTT(30)
     DEF ReadArray, More, Item, writerVars, IInv, TypeOK, LengthInv
<1>2. /\ Item \in Items /\ Item.width \in Nat \ {0} /\ Item.len \in Nat
      /\ Item.width * Item.len \in Nat
      /\ Bytes(Item) = CountWidth + Item.width * Item.len
  <2>1. written \in Seq(Items)
    BY DEF IInv, TypeOK
  <2>2. written[k] \in Items
    BY <1>1, <2>1, ElementOfSeq
  <2>3. Item.width \in Nat \ {0} /\ Item.len \in Nat
    BY <1>1, <2>2 DEF Items
  <2> QED BY <1>1, <2>2, <2>3, Product DEF Bytes
<1>3. \A p \in 0 .. rSize - 1 : mem[p].val \in Nat
  BY <1>1, SizeAssumption DEF IInv, TypeOK, LengthInv
<1>4. PICK len1 \in IF canRead(CountWidth) THEN Found(CountWidth, 0 .. MaxLen)
                                           ELSE {0} :
        LET bytes == Item.width * len1
            ok    == len1 < place /\ canRead(bytes + CountWidth)
        IN /\ rPos' = IF ok THEN rPos + CountWidth + bytes ELSE rPos
           /\ IF ok /\ len1 > 0
              THEN \E v \in IF mem[rPos + CountWidth].width = bytes
                            THEN {mem[rPos + CountWidth].val} ELSE {0} :
                      read' = Append(read, v)
              ELSE UNCHANGED read
           /\ refused' = IF ok THEN refused
                         ELSE refused \cup {[len |-> Item.len, place |-> place]}
  BY DEF ReadArray
<1> DEFINE bytes == Item.width * len1
           ok    == len1 < place /\ canRead(bytes + CountWidth)
<1>5. len1 \in Nat /\ bytes \in Nat /\ (len1 > 0 => bytes > 0)
  <2>1. canRead(CountWidth) => rPos \in 0 .. rSize - 1
    BY <1>1 DEF canRead, CountWidth
  <2>2. len1 \in Nat
    BY <1>3, <1>4, <2>1, SizeAssumption DEF Found
  <2> QED BY <1>2, <2>2, Product
<1>6. ok => rPos + CountWidth + bytes <= rSize
  BY <1>1, <1>5 DEF canRead, CountWidth
<1>7. rPos' \in Nat /\ rPos' <= rSize
  BY <1>1, <1>4, <1>5, <1>6 DEF CountWidth
<1>8. refused' \in SUBSET [len : Nat, place : Nat]
  BY <1>1, <1>2, <1>4 DEF IInv, TypeOK
<1>9. ok /\ len1 > 0 =>
        \E v \in Nat : /\ read' = Append(read, v)
                       /\ mem[rPos + CountWidth].width = bytes
                            => v = mem[rPos + CountWidth].val
  <2> SUFFICES ASSUME ok, len1 > 0
               PROVE  mem[rPos + CountWidth].val \in Nat
    BY <1>4
  <2>1. rPos + CountWidth \in 0 .. rSize - 1
    BY <1>1, <1>5, <1>6 DEF CountWidth
  <2> QED BY <1>3, <2>1
<1>10. read' \in Seq(Nat)
  <2>1. CASE ok /\ len1 > 0
    <3>1. PICK v \in Nat : read' = Append(read, v)
      BY <1>9, <2>1
    <3> QED BY <1>1, <3>1, AppendProperties
  <2>2. CASE ~(ok /\ len1 > 0)
    BY <1>1, <1>4, <2>2
  <2> QED BY <2>1, <2>2
<1>11. ASSUME NEW off \in [1 .. Len(written) + 1 -> Nat],
              Layout(off), InStep(off), Faithful
       PROVE  InStep(off)'
  <2>1. /\ rSize = wPos /\ rPos = off[k]
        /\ \A i \in 1 .. Len(read) : read[i] = written[i].val
        /\ \A r \in refused : r.place <= r.len
        /\ Item.len > 0
    BY <1>1, <1>11 DEF InStep, Faithful
  <2>2. /\ Holds(mem, Item, rPos) /\ off[k + 1] = off[k] + Bytes(Item)
        /\ off[k + 1] <= wPos
    BY <1>1, <1>11, <2>1 DEF Layout
  <2>3. len1 = Item.len
    <3>1. rSize - rPos >= CountWidth
      BY <1>1, <1>2, <2>1, <2>2 DEF CountWidth
    <3>2. mem[rPos] = Object(CountWidth, Item.len)
      BY <1>1, <2>2 DEF Holds
    <3> QED BY <1>4, <3>1, <3>2 DEF canRead, Found, Object
  <2>4. canRead(bytes + CountWidth)
    BY <1>1, <1>2, <2>1, <2>2, <2>3 DEF canRead, CountWidth
  <2>5. CASE ~ok
    <3>1. refused' = refused \cup {[len |-> Item.len, place |-> place]}
          /\ rPos' = rPos /\ read' = read
      BY <1>4, <2>5
    <3>2. place <= Item.len
      BY <1>1, <1>2, <2>3, <2>4, <2>5
    <3>3. \A r \in refused' : r.place <= r.len
      BY <2>1, <3>1, <3>2
    <3> QED BY <1>1, <2>1, <3>1, <3>3 DEF InStep
  <2>6. CASE ok
    <3>1. rPos' = rPos + CountWidth + bytes /\ refused' = refused
      BY <1>4, <2>6
    <3>2. PICK v \in Nat : /\ read' = Append(read, v)
                           /\ mem[rPos + CountWidth].width = bytes
                                => v = mem[rPos + CountWidth].val
      BY <1>9, <2>1, <2>3, <2>6
    <3>3. v = Item.val
      BY <1>1, <2>1, <2>2, <2>3, <3>2 DEF Holds, Object
    <3>4. /\ Len(read') = k /\ read'[k] = v
          /\ \A i \in 1 .. Len(read) : read'[i] = read[i]
      BY <1>1, <3>2, AppendProperties
    <3>5. rPos' = off[k + 1]
      <4>1. bytes = Item.width * Item.len
        BY <2>3
      <4> HIDE DEF bytes
      <4>2. off[k + 1] = rPos + (CountWidth + bytes)
        BY <1>2, <2>1, <2>2, <4>1
      <4> QED BY <1>1, <1>5, <3>1, <4>2 DEF CountWidth
    <3>6. \A i \in 1 .. Len(read') : read'[i] = written[i].val
      <4> TAKE i \in 1 .. Len(read')
      <4>1. i \in 1 .. Len(read) \/ i = k
        BY <1>1, <3>4
      <4>2. read'[k] = written[k].val
        BY <1>1, <3>3, <3>4
      <4> QED BY <2>1, <3>4, <4>1, <4>2
    <3>7. /\ rSize' = wPos' /\ Len(read') <= Len(written')
          /\ rPos' = off[Len(read') + 1]
          /\ \A r \in refused' : r.place <= r.len
      BY <1>1, <2>1, <3>1, <3>4, <3>5
    <3> QED BY <1>1, <3>6, <3>7 DEF InStep
  <2> QED BY <2>5, <2>6
<1>12. Faithful' <=> Faithful
  BY <1>1 DEF Faithful
<1> QED BY <1>1, <1>7, <1>8, <1>10, <1>11, <1>12, Advance
        DEF InStep, writerVars

LEMMA InvCorrect == Spec => []IInv
<1>1. ASSUME IInv, [Next]_vars PROVE IInv'
  <2>1. CASE UNCHANGED vars
    <3>1. PICK off \in [1 .. Len(written) + 1 -> Nat] :
                 Layout(off) /\ InStep(off)
      BY <1>1 DEF IInv
    <3>2. UNCHANGED <<phase, mem, wPos, rSize, rPos, written, read, refused>>
      BY <2>1 DEF vars, writerVars, readerVars
    <3>3. Layout(off)'
      BY <3>1, <3>2 DEF Layout
    <3>4. InStep(off)'
      BY <3>1, <3>2 DEF InStep, Faithful
    <3>5. TypeOK' /\ LengthInv'
      BY <1>1, <3>2 DEF IInv, TypeOK, LengthInv
    <3> QED BY <3>2, <3>3, <3>4, <3>5 DEF IInv
  <2> QED BY <1>1, <2>1, WriteInv, WriteArrayInv, FinishInv, OpenInv, ReadInv,
             ReadArrayInv DEF Next
<1> QED BY <1>1, InitInv, PTL DEF Spec

-----------------------------------------------------------------------------
\* The variables keep their types.
THEOREM TypeCorrect == Spec => []TypeOK
<1>1. IInv => TypeOK
  BY DEF IInv
<1> QED BY <1>1, InvCorrect, PTL

\* Neither position leaves what belongs to it, however large the objects.
THEOREM WithinWrittenCorrect == Spec => []WithinWritten
<1>1. IInv => WithinWritten
  BY DEF IInv, LengthInv, WithinWritten
<1> QED BY <1>1, InvCorrect, PTL

\* A message that a uint16 can measure and without empty arrays is read back.
THEOREM ReadBackCorrect == Spec => []ReadBack
<1>1. IInv => ReadBack
  <2> SUFFICES ASSUME IInv, phase = "read", Faithful
               PROVE  /\ \A i \in 1 .. Len(read) : read[i] = written[i].val
                      /\ \A r \in refused : r.place <= r.len
                      /\ More /\ ~Item.array => canRead(Item.width)
                      /\ Len(read) = Len(written) => rPos = wPos
    BY DEF ReadBack
  <2>1. PICK off \in [1 .. Len(written) + 1 -> Nat] : Layout(off) /\ InStep(off)
    BY DEF IInv
  <2>2. /\ rSize = wPos /\ rPos = off[Len(read) + 1]
        /\ \A i \in 1 .. Len(read) : read[i] = written[i].val
        /\ \A r \in refused : r.place <= r.len
    BY <2>1 DEF InStep
  <2>3. Len(read) \in Nat /\ Len(written) \in Nat /\ rPos \in Nat /\ wPos \in Nat
    BY LenProperties DEF IInv, TypeOK
  <2>4. ASSUME More, ~Item.array PROVE canRead(Item.width)
    <3>1. Len(read) + 1 \in 1 .. Len(written)
      BY <2>3, <2>4 DEF More
    <3>2. off[(Len(read) + 1) + 1] = rPos + Item.width
      BY <2>1, <2>2, <2>4, <3>1 DEF Layout, Bytes, Item
    <3>3. off[(Len(read) + 1) + 1] <= wPos
      BY <2>1, <3>1 DEF Layout
    <3>4. Item.width \in Nat
      <4>1. written \in Seq(Items)
        BY DEF IInv, TypeOK
      <4>2. Item \in Items
        BY <3>1, <4>1, ElementOfSeq DEF Item
      <4> QED BY <4>2 DEF Items
    <3> QED BY <2>2, <2>3, <3>2, <3>3, <3>4 DEF canRead
  <2>5. Len(read) = Len(written) => rPos = wPos
    BY <2>1, <2>2 DEF Layout
  <2> QED BY <2>2, <2>4, <2>5
<1> QED BY <1>1, InvCorrect, PTL
=============================================================================
