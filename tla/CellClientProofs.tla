--------------------------- MODULE CellClientProofs ---------------------------
(***************************************************************************)
(* Proofs about one connection of the server, for any lengths of messages, *)
(* buffers and window, any timers and any number of requests.              *)
(***************************************************************************)
EXTENDS CellClient, SequenceTheorems, WellFoundedInduction, TLAPS

-----------------------------------------------------------------------------
\* Induction, stated with a set: a set of numbers that has 0 and with each
\* number the next one has them all.  Its complement would have a least one.
LEMMA SetInduction ==
  ASSUME NEW T \in SUBSET Nat, 0 \in T, \A n \in T : n + 1 \in T
  PROVE  T = Nat
<1> DEFINE U == Nat \ T
<1> SUFFICES ASSUME U # {} PROVE FALSE
  OBVIOUS
<1>1. PICK x \in U : \A y \in U : ~ (<<y, x>> \in OpToRel(<, Nat))
  <2>1. U \subseteq Nat
    OBVIOUS
  <2> HIDE DEF U
  <2> QED BY ONLY U # {}, <2>1, NatLessThanWellFounded, WFMin, Zenon
<1>2. x - 1 \in Nat /\ x - 1 < x /\ x - 1 \notin T
  OBVIOUS
<1>3. <<x - 1, x>> \in OpToRel(<, Nat)
  BY <1>2 DEF OpToRel
<1> QED BY <1>1, <1>2, <1>3

-----------------------------------------------------------------------------
\* The function that FlattenSeq defines by recursion.
Flattens(f, ss, n) ==
  f = [i \in 1 .. n |-> IF i = 1 THEN ss[i] ELSE f[i - 1] \o ss[i]]

\* The recursion has a solution, one element after the other.
LEMMA FlattensExists ==
  ASSUME NEW ss, NEW n \in Nat
  PROVE  \E f : Flattens(f, ss, n)
<1> DEFINE T == {m \in Nat : \E f : Flattens(f, ss, m)}
<1>1. 0 \in T
  <2> DEFINE f == [i \in 1 .. 0 |-> {}]
  <2>1. Flattens(f, ss, 0)
    BY DEF Flattens
  <2> QED BY <2>1
<1>2. ASSUME NEW m \in T PROVE m + 1 \in T
  <2>1. PICK f : Flattens(f, ss, m)
    BY <1>2
  <2> DEFINE top == IF m + 1 = 1 THEN ss[m + 1] ELSE f[m] \o ss[m + 1]
             g   == [i \in 1 .. m + 1 |-> IF i = m + 1 THEN top ELSE f[i]]
  <2>2. ASSUME NEW i \in 1 .. m + 1
        PROVE  g[i] = IF i = 1 THEN ss[i] ELSE g[i - 1] \o ss[i]
    <3>1. CASE i = m + 1
      <4>1. i # 1 => g[i - 1] = f[m]
        BY <3>1
      <4> QED BY <3>1, <4>1
    <3>2. CASE i # m + 1
      <4>1. i \in 1 .. m /\ g[i] = f[i] /\ (i # 1 => g[i - 1] = f[i - 1])
        BY <3>2
      <4>2. f[i] = IF i = 1 THEN ss[i] ELSE f[i - 1] \o ss[i]
        BY <2>1, <4>1, Zenon DEF Flattens
      <4> QED BY <4>1, <4>2
    <3> QED BY <3>1, <3>2
  <2>3. g = [i \in 1 .. m + 1 |-> g[i]]
    BY Zenon
  <2>4. Flattens(g, ss, m + 1)
    <3> HIDE DEF g
    <3> QED BY <2>2, <2>3 DEF Flattens
  <2> HIDE DEF g
  <2> QED BY <2>4
<1>3. T = Nat
  <2> HIDE DEF T
  <2>1. T \in SUBSET Nat
    BY DEF T
  <2> QED BY <1>1, <1>2, <2>1, SetInduction
<1> QED BY <1>3

\* Solutions for a sequence and for a longer one agree where both are defined.
LEMMA FlattensAgree ==
  ASSUME NEW f, NEW g, NEW ss, NEW tt, NEW m \in Nat, NEW n \in Nat,
         Flattens(f, ss, m), Flattens(g, tt, n),
         m <= n, \A i \in 1 .. m : ss[i] = tt[i]
  PROVE  \A i \in 1 .. m : f[i] = g[i]
<1> DEFINE T == {k \in Nat : k + 1 <= m => f[k + 1] = g[k + 1]}
<1>1. \A i \in 1 .. m : /\ f[i] = IF i = 1 THEN ss[i] ELSE f[i - 1] \o ss[i]
                        /\ g[i] = IF i = 1 THEN ss[i] ELSE g[i - 1] \o ss[i]
  <2> TAKE i \in 1 .. m
  <2>1. i \in 1 .. n /\ ss[i] = tt[i]
    OBVIOUS
  <2>2. f[i] = IF i = 1 THEN ss[i] ELSE f[i - 1] \o ss[i]
    BY Zenon DEF Flattens
  <2>3. g[i] = IF i = 1 THEN tt[i] ELSE g[i - 1] \o tt[i]
    BY <2>1, Zenon DEF Flattens
  <2> QED BY <2>1, <2>2, <2>3
<1>2. 0 \in T
  BY <1>1
<1>3. ASSUME NEW k \in T PROVE k + 1 \in T
  <2> SUFFICES ASSUME (k + 1) + 1 <= m PROVE f[(k + 1) + 1] = g[(k + 1) + 1]
    OBVIOUS
  <2> DEFINE i == (k + 1) + 1
  <2>1. i \in 1 .. m /\ i # 1 /\ i - 1 = k + 1 /\ k + 1 <= m /\ k + 1 \in 1 .. m
    OBVIOUS
  <2>2. f[i - 1] = g[i - 1]
    BY <2>1
  <2> HIDE DEF i
  <2> QED BY <1>1, <2>1, <2>2 DEF i
<1>4. T = Nat
  <2> HIDE DEF T
  <2>1. T \in SUBSET Nat
    BY DEF T
  <2> QED BY <1>2, <1>3, <2>1, SetInduction
<1> QED
  <2> TAKE i \in 1 .. m
  <2> HIDE DEF T
  <2>1. i - 1 \in T /\ (i - 1) + 1 = i
    BY <1>4
  <2> QED BY <2>1 DEF T

\* FlattenSeq takes the last value of such a solution.
LEMMA FlattenIs ==
  ASSUME NEW ss, Len(ss) \in Nat \ {0}
  PROVE  \E f : Flattens(f, ss, Len(ss)) /\ FlattenSeq(ss) = f[Len(ss)]
<1> DEFINE f == CHOOSE g : Flattens(g, ss, Len(ss))
<1>1. Flattens(f, ss, Len(ss))
  BY FlattensExists, Zenon
<1>2. FlattenSeq(ss) = f[Len(ss)]
  BY Zenon DEF FlattenSeq, Flattens
<1> HIDE DEF f
<1> QED BY <1>1, <1>2

\* FlattenSeq of nothing, of sequences over S, and of one sequence more.
LEMMA FlattenEmpty == FlattenSeq(<<>>) = <<>>
<1>1. Len(<<>>) = 0
  BY EmptySeq
<1> QED BY <1>1, Zenon DEF FlattenSeq

LEMMA FlattenType ==
  ASSUME NEW S, NEW ss \in Seq(Seq(S))
  PROVE  FlattenSeq(ss) \in Seq(S)
<1>1. CASE ss = <<>>
  BY <1>1, FlattenEmpty, EmptySeq
<1>2. CASE ss # <<>>
  <2>1. Len(ss) \in Nat \ {0}
    BY <1>2, EmptySeq
  <2>2. PICK f : Flattens(f, ss, Len(ss)) /\ FlattenSeq(ss) = f[Len(ss)]
    BY <2>1, FlattenIs
  <2>3. \A i \in 1 .. Len(ss) :
           /\ ss[i] \in Seq(S)
           /\ f[i] = IF i = 1 THEN ss[i] ELSE f[i - 1] \o ss[i]
    BY <2>2, ElementOfSeq, Zenon DEF Flattens
  <2> DEFINE T == {k \in Nat : k + 1 <= Len(ss) => f[k + 1] \in Seq(S)}
  <2>4. 0 \in T
    BY <2>1, <2>3
  <2>5. ASSUME NEW k \in T PROVE k + 1 \in T
    <3> SUFFICES ASSUME (k + 1) + 1 <= Len(ss) PROVE f[(k + 1) + 1] \in Seq(S)
      OBVIOUS
    <3> DEFINE i == (k + 1) + 1
    <3>1. i \in 1 .. Len(ss) /\ i # 1 /\ i - 1 = k + 1 /\ f[k + 1] \in Seq(S)
      BY <2>1
    <3> HIDE DEF i
    <3>2. f[i] = f[i - 1] \o ss[i] /\ f[i - 1] \in Seq(S) /\ ss[i] \in Seq(S)
      BY <2>3, <3>1
    <3>3. f[i] \in Seq(S)
      BY <3>2, ConcatProperties
    <3> QED BY <3>3 DEF i
  <2>6. T = Nat
    <3> HIDE DEF T
    <3>1. T \in SUBSET Nat
      BY DEF T
    <3> QED BY <2>4, <2>5, <3>1, SetInduction
  <2> HIDE DEF T
  <2>7. Len(ss) - 1 \in T /\ (Len(ss) - 1) + 1 = Len(ss)
    BY <2>1, <2>6
  <2> QED BY <2>1, <2>2, <2>7 DEF T
<1> QED BY <1>1, <1>2

LEMMA FlattenAppend ==
  ASSUME NEW S, NEW ss \in Seq(Seq(S)), NEW s \in Seq(S)
  PROVE  FlattenSeq(Append(ss, s)) = FlattenSeq(ss) \o s
<1> DEFINE tt == Append(ss, s)
           n  == Len(ss)
<1>1. /\ n \in Nat /\ Len(tt) = n + 1
      /\ tt[n + 1] = s /\ \A i \in 1 .. n : tt[i] = ss[i]
  BY AppendProperties, LenProperties
<1>2. PICK g : Flattens(g, tt, n + 1) /\ FlattenSeq(tt) = g[n + 1]
  <2> HIDE DEF tt, n
  <2>1. Len(tt) \in Nat \ {0}
    BY <1>1
  <2>2. \E g : Flattens(g, tt, Len(tt)) /\ FlattenSeq(tt) = g[Len(tt)]
    BY ONLY <2>1, FlattenIs
  <2> QED BY <1>1, <2>2
<1>3. g[n + 1] = IF n + 1 = 1 THEN tt[n + 1] ELSE g[(n + 1) - 1] \o tt[n + 1]
  <2> HIDE DEF tt, n
  <2>1. n + 1 \in 1 .. n + 1
    BY <1>1
  <2> QED BY <1>2, <2>1, Zenon DEF Flattens
<1>4. CASE ss = <<>>
  <2>1. n = 0
    BY <1>4, EmptySeq
  <2> QED BY <1>1, <1>2, <1>3, <1>4, <2>1, FlattenEmpty, ConcatEmptySeq
<1>5. CASE ss # <<>>
  <2>1. n \in Nat \ {0}
    BY <1>5, EmptySeq
  <2>2. PICK f : Flattens(f, ss, n) /\ FlattenSeq(ss) = f[n]
    BY <2>1, FlattenIs
  <2>3. f[n] = g[n]
    <3> HIDE DEF tt, n
    <3>1. \A i \in 1 .. n : f[i] = g[i]
      BY <1>1, <1>2, <2>2, FlattensAgree
    <3> QED BY <2>1, <3>1
  <2>4. (n + 1) - 1 = n /\ n + 1 # 1
    BY <2>1
  <2> HIDE DEF tt, n
  <2>5. FlattenSeq(tt) = FlattenSeq(ss) \o s
    BY <1>1, <1>2, <1>3, <2>2, <2>3, <2>4
  <2> QED BY <2>5 DEF tt
<1> QED BY <1>4, <1>5

-----------------------------------------------------------------------------
\* A message has at least a header, and its kind is in its first unit.
LEMMA MsgType ==
  ASSUME NEW k \in Kinds
  PROVE  /\ Msg(k) \in Seq(Units)
         /\ Len(Msg(k)) = Length[k]
         /\ Length[k] \in Nat /\ Length[k] >= Header /\ Header \in Nat \ {0}
         /\ Msg(k)[1] = <<k, 1>>
         /\ Msg(k) # <<>>
<1>1. Length[k] \in Nat /\ Length[k] >= Header /\ Header \in Nat \ {0}
  BY BufferAssumption
<1>2. \A i \in 1 .. Length[k] : <<k, i>> \in Units
  BY <1>1 DEF Units
<1>3. Msg(k) \in Seq(Units) /\ Len(Msg(k)) = Length[k]
  BY <1>1, <1>2 DEF Msg
<1>4. Msg(k)[1] = <<k, 1>>
  BY <1>1 DEF Msg
<1>5. Msg(k) # <<>>
  BY <1>1, <1>3, EmptySeq
<1> QED BY <1>1, <1>3, <1>4, <1>5

\* The messages whose units Bytes strings together.
Parts(ks) == [i \in 1 .. Len(ks) |-> Msg(ks[i])]

LEMMA PartsType ==
  ASSUME NEW ks \in Seq(Kinds)
  PROVE  Parts(ks) \in Seq(Seq(Units)) /\ Len(Parts(ks)) = Len(ks)
<1>1. \A i \in 1 .. Len(ks) : Msg(ks[i]) \in Seq(Units)
  BY ElementOfSeq, MsgType
<1> QED BY <1>1, LenProperties DEF Parts

LEMMA PartsAppend ==
  ASSUME NEW ks \in Seq(Kinds), NEW k \in Kinds
  PROVE  Parts(Append(ks, k)) = Append(Parts(ks), Msg(k))
<1> DEFINE ls == Append(ks, k)
<1>1. /\ ls \in Seq(Kinds) /\ Len(ls) = Len(ks) + 1 /\ Len(ks) \in Nat
      /\ ls[Len(ks) + 1] = k /\ \A i \in 1 .. Len(ks) : ls[i] = ks[i]
  BY AppendProperties, LenProperties
<1>2. Parts(ls) \in Seq(Seq(Units)) /\ Len(Parts(ls)) = Len(ks) + 1
  BY <1>1, PartsType
<1>3. /\ Append(Parts(ks), Msg(k)) \in Seq(Seq(Units))
      /\ Len(Append(Parts(ks), Msg(k))) = Len(ks) + 1
      /\ Append(Parts(ks), Msg(k))[Len(ks) + 1] = Msg(k)
      /\ \A i \in 1 .. Len(ks) : Append(Parts(ks), Msg(k))[i] = Parts(ks)[i]
  <2>1. Parts(ks) \in Seq(Seq(Units)) /\ Len(Parts(ks)) = Len(ks) /\ Msg(k) \in Seq(Units)
    BY PartsType, MsgType
  <2> HIDE DEF ls
  <2> QED BY <2>1, AppendProperties
<1>4. \A i \in 1 .. Len(ks) + 1 : Parts(ls)[i] = Append(Parts(ks), Msg(k))[i]
  <2> HIDE DEF ls
  <2> TAKE i \in 1 .. Len(ks) + 1
  <2>1. Parts(ls)[i] = Msg(ls[i])
    BY <1>1 DEF Parts
  <2>2. CASE i = Len(ks) + 1
    BY <1>1, <1>3, <2>1, <2>2
  <2>3. CASE i # Len(ks) + 1
    <3>1. i \in 1 .. Len(ks)
      BY <1>1, <2>3
    <3>2. Parts(ks)[i] = Msg(ks[i])
      BY <3>1 DEF Parts
    <3> QED BY <1>1, <1>3, <2>1, <3>1, <3>2
  <2> QED BY <2>2, <2>3
<1> HIDE DEF ls
<1>5. Parts(ls) = Append(Parts(ks), Msg(k))
  BY <1>2, <1>3, <1>4, SeqEqual
<1> QED BY <1>5 DEF ls

LEMMA BytesIs ==
  \A ks : Bytes(ks) = FlattenSeq(Parts(ks))
BY DEF Bytes, Parts

\* The stream of no message, of one message more at its end, and of one
\* message more at its front.
LEMMA BytesEmpty == Bytes(<<>>) = <<>>
<1>1. Len(<<>>) = 0 /\ <<>> \in Seq(Kinds)
  BY EmptySeq
<1>2. Parts(<<>>) = <<>>
  BY <1>1, PartsType, EmptySeq
<1> QED BY <1>2, BytesIs, FlattenEmpty

LEMMA BytesType ==
  ASSUME NEW ks \in Seq(Kinds)
  PROVE  Bytes(ks) \in Seq(Units)
BY PartsType, FlattenType, BytesIs

LEMMA BytesAppend ==
  ASSUME NEW ks \in Seq(Kinds), NEW k \in Kinds
  PROVE  Bytes(Append(ks, k)) = Bytes(ks) \o Msg(k)
BY PartsType, PartsAppend, MsgType, FlattenAppend, BytesIs

LEMMA BytesCons ==
  ASSUME NEW k \in Kinds, NEW ks \in Seq(Kinds)
  PROVE  Bytes(<<k>> \o ks) = Msg(k) \o Bytes(ks)
<1> DEFINE T == {n \in Nat : \A ls \in Seq(Kinds) :
                    Len(ls) = n => Bytes(<<k>> \o ls) = Msg(k) \o Bytes(ls)}
<1>1. <<>> \in Seq(Kinds) /\ <<k>> = Append(<<>>, k) /\ <<k>> \in Seq(Kinds)
  BY EmptySeq
<1>2. 0 \in T
  <2> SUFFICES Bytes(<<k>> \o <<>>) = Msg(k) \o Bytes(<<>>)
    BY EmptySeq
  <2>1. <<k>> \o <<>> = Append(<<>>, k)
    BY <1>1, ConcatEmptySeq
  <2>2. Msg(k) \o <<>> = Msg(k) /\ <<>> \o Msg(k) = Msg(k)
    BY MsgType, ConcatEmptySeq
  <2> QED BY <1>1, <2>1, <2>2, BytesAppend, BytesEmpty
<1>3. ASSUME NEW n \in T PROVE n + 1 \in T
  <2> SUFFICES ASSUME NEW ls \in Seq(Kinds), Len(ls) = n + 1
               PROVE  Bytes(<<k>> \o ls) = Msg(k) \o Bytes(ls)
    OBVIOUS
  <2>1. PICK ms \in Seq(Kinds), m \in Kinds : ls = Append(ms, m)
    <3>1. ls # <<>>
      BY EmptySeq
    <3> QED BY <3>1, SequenceEmptyOrAppend
  <2>2. Len(ms) = n
    BY <2>1, AppendProperties, LenProperties
  <2>3. Bytes(<<k>> \o ms) = Msg(k) \o Bytes(ms)
    BY <2>2
  <2>4. <<k>> \o ls = Append(<<k>> \o ms, m) /\ <<k>> \o ms \in Seq(Kinds)
    <3>1. <<m>> \in Seq(Kinds) /\ <<k>> \o ms \in Seq(Kinds)
      BY <1>1, ConcatProperties
    <3> QED BY <1>1, <2>1, <3>1, AppendIsConcat, ConcatAssociative
  <2>5. Bytes(<<k>> \o ls) = (Msg(k) \o Bytes(ms)) \o Msg(m)
    BY <2>3, <2>4, BytesAppend
  <2>6. Bytes(ls) = Bytes(ms) \o Msg(m)
    BY <2>1, BytesAppend
  <2>7. /\ Msg(k) \in Seq(Units) /\ Bytes(ms) \in Seq(Units)
        /\ Msg(m) \in Seq(Units)
    BY MsgType, BytesType
  <2>8. (Msg(k) \o Bytes(ms)) \o Msg(m) = Msg(k) \o (Bytes(ms) \o Msg(m))
    BY ONLY <2>7, ConcatAssociative
  <2> HIDE DEF T
  <2> QED BY <2>5, <2>6, <2>8
<1> HIDE DEF T
<1>4. T = Nat
  <2>1. T \in SUBSET Nat
    BY DEF T
  <2> QED BY <1>2, <1>3, <2>1, SetInduction
<1>5. Len(ks) \in T
  BY <1>4, LenProperties
<1> QED BY <1>5 DEF T
-----------------------------------------------------------------------------
\* What is left of a sequence after its first n elements.
LEMMA RestType ==
  ASSUME NEW S, NEW s \in Seq(S), NEW n \in 0 .. Len(s)
  PROVE  /\ Rest(s, n) \in Seq(S) /\ Len(Rest(s, n)) = Len(s) - n
         /\ \A i \in 1 .. Len(s) - n : Rest(s, n)[i] = s[n + i]
<1>1. /\ Len(s) \in Nat /\ n + 1 \in Int
      /\ \A i \in n + 1 .. Len(s) : s[i] \in S
  BY LenProperties, ElementOfSeq
<1>2. /\ Rest(s, n) \in Seq(S)
      /\ Len(Rest(s, n)) = IF n + 1 <= Len(s) THEN Len(s) - (n + 1) + 1 ELSE 0
      /\ \A i \in 1 .. Len(s) - (n + 1) + 1 : Rest(s, n)[i] = s[(n + 1) + i - 1]
  BY <1>1, SubSeqProperties DEF Rest
<1>3. /\ Len(s) - (n + 1) + 1 = Len(s) - n
      /\ \A i \in Int : (n + 1) + i - 1 = n + i
  BY <1>1
<1>4. Len(Rest(s, n)) = Len(s) - n
  BY <1>1, <1>2
<1>5. \A i \in 1 .. Len(s) - n : Rest(s, n)[i] = s[n + i]
  <2> TAKE i \in 1 .. Len(s) - n
  <2>1. i \in 1 .. Len(s) - (n + 1) + 1 /\ (n + 1) + i - 1 = n + i
    BY <1>3
  <2>2. Rest(s, n)[i] = s[(n + 1) + i - 1]
    BY <1>2, <2>1
  <2> QED BY <2>1, <2>2
<1> QED BY <1>2, <1>4, <1>5

LEMMA RestNext ==
  ASSUME NEW S, NEW s \in Seq(S), NEW n \in Nat, n < Len(s)
  PROVE  /\ Rest(s, n) # <<>>
         /\ Head(Rest(s, n)) = s[n + 1]
         /\ Tail(Rest(s, n)) = Rest(s, n + 1)
         /\ Rest(s, n) = <<s[n + 1]>> \o Rest(s, n + 1)
<1>1. Len(s) \in Nat /\ n + 1 \in 1 .. Len(s) /\ Len(s) \in n + 1 .. Len(s)
      /\ n \in 0 .. Len(s)
  BY LenProperties
<1>2. Len(Rest(s, n)) > 0 /\ Rest(s, n) \in Seq(S)
  BY <1>1, RestType
<1>3. Rest(s, n) # <<>>
  BY <1>2, EmptySeq
<1>4. /\ Head(Rest(s, n)) = s[n + 1]
      /\ Tail(Rest(s, n)) = Rest(s, n + 1)
  BY <1>1, HeadTailOfSubSeq DEF Rest
<1>5. Rest(s, n) = <<s[n + 1]>> \o Rest(s, n + 1)
  BY <1>1, SubSeqRecursiveFirst DEF Rest
<1> QED BY <1>3, <1>4, <1>5

LEMMA RestAppend ==
  ASSUME NEW S, NEW s \in Seq(S), NEW e \in S, NEW n \in 0 .. Len(s)
  PROVE  Rest(Append(s, e), n) = Append(Rest(s, n), e)
<1> DEFINE u == Append(s, e)
           r == Append(Rest(s, n), e)
<1>1. /\ u \in Seq(S) /\ Len(u) = Len(s) + 1 /\ Len(s) \in Nat
      /\ u[Len(s) + 1] = e /\ \A i \in 1 .. Len(s) : u[i] = s[i]
  BY AppendProperties, LenProperties
<1>2. /\ Rest(s, n) \in Seq(S) /\ Len(Rest(s, n)) = Len(s) - n
      /\ \A i \in 1 .. Len(s) - n : Rest(s, n)[i] = s[n + i]
  BY RestType
<1>3. /\ r \in Seq(S) /\ Len(r) = Len(s) - n + 1
      /\ r[Len(s) - n + 1] = e
      /\ \A i \in 1 .. Len(s) - n : r[i] = s[n + i]
  BY <1>2, AppendProperties
<1> HIDE DEF u, r
<1>4. /\ Rest(u, n) \in Seq(S) /\ Len(Rest(u, n)) = Len(s) - n + 1
      /\ \A i \in 1 .. Len(s) - n + 1 : Rest(u, n)[i] = u[n + i]
  <2>1. n \in 0 .. Len(u) /\ Len(u) - n = Len(s) - n + 1
    BY <1>1
  <2>2. /\ Rest(u, n) \in Seq(S) /\ Len(Rest(u, n)) = Len(u) - n
        /\ \A i \in 1 .. Len(u) - n : Rest(u, n)[i] = u[n + i]
    BY ONLY <1>1, <2>1, RestType
  <2> QED BY ONLY <2>1, <2>2
<1>5. \A i \in 1 .. Len(s) - n + 1 : Rest(u, n)[i] = r[i]
  <2> TAKE i \in 1 .. Len(s) - n + 1
  <2>1. CASE i = Len(s) - n + 1
    <3>1. n + i = Len(s) + 1
      BY <1>1, <2>1
    <3> QED BY <1>1, <1>3, <1>4, <2>1, <3>1
  <2>2. CASE i # Len(s) - n + 1
    <3>1. i \in 1 .. Len(s) - n /\ n + i \in 1 .. Len(s)
      BY <1>1, <2>2
    <3> QED BY <1>1, <1>3, <1>4, <3>1
  <2> QED BY <2>1, <2>2
<1>6. Rest(u, n) = r
  BY <1>3, <1>4, <1>5, SeqEqual
<1> QED BY <1>6 DEF u, r

\* Both sides of a \o t = m \o b lose m, if it is within a.
LEMMA PopFront ==
  ASSUME NEW S, NEW a \in Seq(S), NEW t \in Seq(S), NEW m \in Seq(S),
         NEW b \in Seq(S), a \o t = m \o b, Len(m) <= Len(a)
  PROVE  Rest(a, Len(m)) \o t = b
<1>1. /\ Len(a) \in Nat /\ Len(t) \in Nat /\ Len(m) \in Nat /\ Len(b) \in Nat
      /\ Len(m) \in 0 .. Len(a)
  BY LenProperties
<1>2. /\ Rest(a, Len(m)) \in Seq(S) /\ Len(Rest(a, Len(m))) = Len(a) - Len(m)
      /\ \A i \in 1 .. Len(a) - Len(m) : Rest(a, Len(m))[i] = a[Len(m) + i]
  BY <1>1, RestType
<1>3. /\ Len(a) + Len(t) = Len(m) + Len(b)
      /\ \A i \in 1 .. Len(a) + Len(t) :
           (IF i <= Len(a) THEN a[i] ELSE t[i - Len(a)])
             = IF i <= Len(m) THEN m[i] ELSE b[i - Len(m)]
  <2>1. /\ Len(a \o t) = Len(a) + Len(t)
        /\ \A i \in 1 .. Len(a) + Len(t) :
             (a \o t)[i] = IF i <= Len(a) THEN a[i] ELSE t[i - Len(a)]
    BY ConcatProperties
  <2>2. /\ Len(m \o b) = Len(m) + Len(b)
        /\ \A i \in 1 .. Len(m) + Len(b) :
             (m \o b)[i] = IF i <= Len(m) THEN m[i] ELSE b[i - Len(m)]
    BY ConcatProperties
  <2> QED BY <2>1, <2>2
<1> DEFINE r == Rest(a, Len(m))
<1>4. /\ r \o t \in Seq(S) /\ Len(r \o t) = Len(b)
      /\ \A i \in 1 .. Len(b) :
           (r \o t)[i] = IF i <= Len(r) THEN r[i] ELSE t[i - Len(r)]
  <2>1. Len(r) + Len(t) = Len(b)
    BY <1>1, <1>2, <1>3
  <2> HIDE DEF r
  <2> QED BY <1>2, <2>1, ConcatProperties DEF r
<1>5. \A i \in 1 .. Len(b) : (r \o t)[i] = b[i]
  <2> TAKE i \in 1 .. Len(b)
  <2> DEFINE j == Len(m) + i
  <2>1. /\ j \in 1 .. Len(a) + Len(t) /\ ~(j <= Len(m)) /\ j - Len(m) = i
        /\ j <= Len(a) <=> i <= Len(r)
        /\ j - Len(a) = i - Len(r)
    BY <1>1, <1>2, <1>3
  <2>2. (IF j <= Len(a) THEN a[j] ELSE t[j - Len(a)]) = b[i]
    <3> HIDE DEF j
    <3> QED BY <1>3, <2>1
  <2>3. i <= Len(r) => r[i] = a[j]
    BY <1>1, <1>2
  <2> HIDE DEF j, r
  <2> QED BY <1>4, <2>1, <2>2, <2>3
<1>6. r \o t = b
  <2> HIDE DEF r
  <2> QED BY <1>4, <1>5, SeqEqual
<1> QED BY <1>6

\* A sequence is its first n elements and the rest.
LEMMA CutAt ==
  ASSUME NEW S, NEW s \in Seq(S), NEW n \in 0 .. Len(s)
  PROVE  /\ SubSeq(s, 1, n) \in Seq(S) /\ Len(SubSeq(s, 1, n)) = n
         /\ SubSeq(s, 1, n) \o Rest(s, n) = s
<1>1. /\ Len(s) \in Nat /\ 1 \in 1 .. Len(s) + 1 /\ n \in 1 - 1 .. Len(s)
      /\ Len(s) \in n .. Len(s)
      /\ \A i \in 1 .. n : s[i] \in S
  BY LenProperties, ElementOfSeq
<1>2. SubSeq(s, 1, n) \in Seq(S) /\ Len(SubSeq(s, 1, n)) = n
  BY <1>1, SubSeqProperties
<1>3. SubSeq(s, 1, n) \o SubSeq(s, n + 1, Len(s)) = SubSeq(s, 1, Len(s))
  BY <1>1, ConcatAdjacentSubSeq
<1> QED BY <1>2, <1>3, SubSeqFull DEF Rest

-----------------------------------------------------------------------------
\* The inductive invariant.  What is handled is what was asked first; between
\* two reads no complete message waits in the buffer; a socket found readable
\* stays so, because the bytes that have arrived wait for the thread and a
\* peer that has hung up does not come back.
OrderInv ==
  /\ Len(handled) <= Len(asked)
  /\ \A i \in 1 .. Len(handled) : handled[i] = asked[i]

DrainedInv == pc \notin {"dispatch", "gone"} => ~HasMsg(recvBuff)

ReadableInv == pc = "read" /\ readable => toServer # <<>> \/ peer # "open"

IInv == /\ TypeOK /\ RequestStream /\ OrderInv /\ DrainedInv /\ ReadableInv
        /\ ReplyStream

LEMMA KindsAre ==
  /\ \A k \in Requests : k \in Kinds
  /\ \A k \in Kinds : ReplyTo(k) \in Replies /\ ReplyTo(k) \in Kinds
  /\ \A s \in Seq(Requests) : s \in Seq(Kinds)
  /\ \A s \in Seq(Replies) : s \in Seq(Kinds)
  /\ Requests # {}
<1>1. Requests \subseteq Kinds /\ Replies \subseteq Kinds
  BY ClientAssumption
<1>2. /\ \A s \in Seq(Requests) : s \in Seq(Kinds)
      /\ \A s \in Seq(Replies) : s \in Seq(Kinds)
  BY <1>1, SeqMonotonic
<1>3. \A k \in Kinds : ReplyTo(k) \in Replies
  BY DEF ReplyTo, Replies
<1> QED BY <1>1, <1>2, <1>3 DEF Requests

\* The kind of the message at the front of the buffer is one of Kinds.
LEMMA FrontType ==
  ASSUME NEW b \in Seq(Units), HasMsg(b)
  PROVE  /\ Len(b) \in Nat \ {0} /\ b[1] \in Units
         /\ FrontKind(b) \in Kinds
         /\ FrontLength(b) = Length[FrontKind(b)]
         /\ FrontLength(b) \in 1 .. Len(b)
<1>1. Len(b) \in Nat /\ Len(b) >= Header /\ Header \in Nat \ {0}
  BY LenProperties, BufferAssumption DEF HasMsg
<1>2. 1 \in 1 .. Len(b)
  BY <1>1
<1>3. b[1] \in Units
  BY <1>2, ElementOfSeq
<1>4. FrontKind(b) \in Kinds
  BY <1>3 DEF FrontKind, Units
<1>5. Length[FrontKind(b)] \in Nat \ {0}
  BY <1>1, <1>4, MsgType
<1> QED BY <1>1, <1>3, <1>4, <1>5 DEF HasMsg, FrontLength

\* The types hold at first and are kept by every step.
LEMMA TypeInit == Init => TypeOK
<1>1. \A S : <<>> \in Seq(S) /\ Len(<<>>) = 0
  BY EmptySeq
<1>2. Init => readable \in BOOLEAN /\ writable \in BOOLEAN
  BY Zenon DEF Init
<1> QED BY <1>1, <1>2, ClientAssumption DEF Init, TypeOK, Pc

LEMMA TypeStep == TypeOK /\ [Next]_vars => TypeOK'
<1> SUFFICES ASSUME TypeOK, [Next]_vars PROVE TypeOK'
  OBVIOUS
<1> USE DEF timerVars, bufferVars, selectVars, networkVars, historyVars, vars
<1>0. /\ Window \in Nat /\ RecvSize \in Nat /\ SendSize \in Nat
      /\ Len(toPeer) <= Window /\ Len(recvBuff) <= RecvSize
      /\ Len(sendBuff) <= SendSize
  BY ClientAssumption DEF TypeOK
<1>1. ASSUME NEW k \in Requests, Ask(k) PROVE TypeOK'
  <2>1. Append(asked, k) \in Seq(Requests) /\ toServer \o Msg(k) \in Seq(Units)
    BY KindsAre, MsgType, AppendProperties, ConcatProperties DEF TypeOK
  <2> QED BY <1>1, <2>1 DEF Ask, TypeOK
<1>2. CASE PeerRead
  <2>1. /\ Head(toPeer) \in Units /\ Tail(toPeer) \in Seq(Units)
        /\ Len(Tail(toPeer)) = Len(toPeer) - 1 /\ Len(toPeer) \in Nat
    BY <1>2, HeadTailProperties, LenProperties DEF PeerRead, TypeOK
  <2>2. Append(got, Head(toPeer)) \in Seq(Units)
    BY <2>1, AppendProperties DEF TypeOK
  <2>3. toPeer' \in Seq(Units) /\ Len(toPeer') <= Window /\ got' \in Seq(Units)
    <3>1. toPeer' = Tail(toPeer) /\ got' = Append(got, Head(toPeer))
      BY <1>2 DEF PeerRead
    <3>2. Len(toPeer) - 1 <= Window
      BY <1>0, <2>1
    <3> QED BY ONLY <2>1, <2>2, <3>1, <3>2
  <2> QED BY <1>2, <2>3 DEF PeerRead, TypeOK
<1>3. CASE HangUp \/ Bounce
  BY <1>3 DEF HangUp, Bounce, TypeOK
<1>4. ASSUME NEW dt \in Ticks, HeartDies(dt) \/ SendDue(dt) \/ SendNotDue(dt)
      PROVE  TypeOK'
  <2>1. dt \in Nat
    BY ClientAssumption
  <2> QED BY <1>4, <2>1 DEF HeartDies, SendDue, SendNotDue, TypeOK, Pc
<1>5. CASE SendSome
  <2>1. /\ Head(sendBuff) \in Units /\ Tail(sendBuff) \in Seq(Units)
        /\ Len(Tail(sendBuff)) = Len(sendBuff) - 1 /\ Len(sendBuff) \in Nat
    BY <1>5, HeadTailProperties, LenProperties DEF SendSome, TypeOK
  <2>2. /\ Append(toPeer, Head(sendBuff)) \in Seq(Units)
        /\ Len(Append(toPeer, Head(sendBuff))) = Len(toPeer) + 1
        /\ Len(toPeer) \in Nat
    BY <2>1, AppendProperties, LenProperties DEF TypeOK
  <2>3. /\ toPeer' \in Seq(Units) /\ Len(toPeer') <= Window
        /\ sendBuff' \in Seq(Units) /\ Len(sendBuff') <= SendSize
    <3>1. /\ sendBuff' = Tail(sendBuff)
          /\ toPeer' = Append(toPeer, Head(sendBuff))
          /\ Len(toPeer) < Window
      BY <1>5 DEF SendSome
    <3>2. Len(sendBuff) \in Nat /\ Len(toPeer) \in Nat
      BY <2>1, <2>2
    <3>3. Len(sendBuff) - 1 <= SendSize /\ Len(toPeer) + 1 <= Window
      BY ONLY <1>0, <3>1, <3>2
    <3> QED BY ONLY <2>1, <2>2, <3>1, <3>3
  <2> QED BY <1>5, <2>3 DEF SendSome, TypeOK, Pc
<1>6. CASE FlushDone \/ SendFails
  <2>1. <<>> \in Seq(Units) /\ Len(<<>>) = 0
    BY EmptySeq
  <2>2. sendBuff' \in Seq(Units) /\ Len(sendBuff') <= SendSize
    <3>1. sendBuff' \in {sendBuff, <<>>} /\ sendBuff \in Seq(Units)
      BY <1>6 DEF FlushDone, SendFails, TypeOK
    <3>2. 0 <= SendSize
      BY <1>0
    <3> QED BY <1>0, <2>1, <3>1, <3>2, Zenon
  <2> QED BY <1>6, <2>2 DEF FlushDone, SendFails, AfterFlush, TypeOK, Pc
<1>7. CASE Select
  <2>1. readable' \in BOOLEAN /\ writable' \in BOOLEAN
    BY <1>7, Zenon DEF Select
  <2> QED BY <1>7, <2>1 DEF Select, TypeOK, Pc
<1>8. CASE SkipRead \/ RecvNothing \/ DispatchDone
  BY <1>8 DEF SkipRead, RecvNothing, DispatchDone, TypeOK, Pc
<1>9. ASSUME NEW n \in 1 .. Len(toServer), RecvSome(n) PROVE TypeOK'
  <2>1. /\ SubSeq(toServer, 1, n) \in Seq(Units)
        /\ Len(SubSeq(toServer, 1, n)) = n
        /\ Rest(toServer, n) \in Seq(Units)
    <3>1. n \in 0 .. Len(toServer)
      BY LenProperties DEF TypeOK
    <3> QED BY <3>1, CutAt, RestType DEF TypeOK
  <2>2. /\ recvBuff \o SubSeq(toServer, 1, n) \in Seq(Units)
        /\ Len(recvBuff \o SubSeq(toServer, 1, n)) = Len(recvBuff) + n
        /\ Len(recvBuff) \in Nat
    BY <2>1, ConcatProperties, LenProperties DEF TypeOK
  <2>3. recvBuff' \in Seq(Units) /\ Len(recvBuff') <= RecvSize
    BY <1>0, <1>9, <2>2 DEF RecvSome, Append4Socket
  <2> QED BY <1>9, <2>1, <2>3 DEF RecvSome, TypeOK, Rest, Pc
<1>10. CASE Dispatch
  <2> DEFINE k == FrontKind(recvBuff)
             n == FrontLength(recvBuff)
             r == Msg(ReplyTo(k))
  <2>1. /\ k \in Kinds /\ n \in 0 .. Len(recvBuff) /\ Len(recvBuff) \in Nat
        /\ HasMsg(recvBuff) /\ recvBuff \in Seq(Units)
    <3>1. HasMsg(recvBuff) /\ recvBuff \in Seq(Units)
      BY <1>10 DEF Dispatch, TypeOK
    <3>2. k \in Kinds /\ n \in 1 .. Len(recvBuff) /\ Len(recvBuff) \in Nat
      BY <3>1, FrontType
    <3> QED BY <3>1, <3>2
  <2>2. handled' \in Seq(Kinds)
    <3>1. handled' = Append(handled, k)
      BY <1>10 DEF Dispatch
    <3> QED BY <2>1, <3>1, AppendProperties DEF TypeOK
  <2>3. recvBuff' \in Seq(Units) /\ Len(recvBuff') <= RecvSize
    <3>1. recvBuff' = Rest(recvBuff, n)
      BY <1>10 DEF Dispatch, Pop, Rest
    <3> HIDE DEF n
    <3>2. /\ Rest(recvBuff, n) \in Seq(Units)
          /\ Len(Rest(recvBuff, n)) = Len(recvBuff) - n
      BY <2>1, RestType
    <3> QED BY <1>0, <2>1, <3>1, <3>2 DEF TypeOK
  <2>4. dtHeart' \in Nat
    BY <1>10 DEF Dispatch, TypeOK
  <2>5. /\ sendBuff' \in Seq(Units) /\ Len(sendBuff') <= SendSize
        /\ answered' \in Seq(Replies)
    <3>1. CASE UNCHANGED <<sendBuff, answered>>
      BY <3>1 DEF TypeOK
    <3>2. CASE /\ Fits(sendBuff, r, SendSize)
               /\ sendBuff' = Push(sendBuff, r, SendSize)
               /\ answered' = Append(answered, ReplyTo(k))
      <4>1. r \in Seq(Units) /\ ReplyTo(k) \in Replies
        BY <2>1, KindsAre, MsgType
      <4>2. sendBuff' = sendBuff \o r /\ Len(sendBuff) + Len(r) <= SendSize
        BY <3>2 DEF Push, Fits
      <4> HIDE DEF r, k
      <4>3. sendBuff' \in Seq(Units) /\ Len(sendBuff') <= SendSize
        BY <4>1, <4>2, ConcatProperties DEF TypeOK
      <4>4. answered' \in Seq(Replies)
        BY <3>2, <4>1, AppendProperties DEF TypeOK
      <4> QED BY <4>3, <4>4
    <3> QED BY <1>10, <3>1, <3>2 DEF Dispatch
  <2> QED BY <1>10, <2>2, <2>3, <2>4, <2>5 DEF Dispatch, TypeOK
<1>11. CASE Write
  BY <1>11 DEF Write, TypeOK, Pc
<1>12. CASE UNCHANGED vars
  BY <1>12 DEF TypeOK
<1> QED
  BY <1>1, <1>2, <1>3, <1>4, <1>5, <1>6, <1>7, <1>8, <1>9, <1>10, <1>11, <1>12
  DEF Next, Peer, Server

\* The variables keep their types; the buffers stay within their sizes and
\* the connection within its window.
THEOREM TypeCorrect == Spec => []TypeOK
BY TypeInit, TypeStep, PTL DEF Spec

-----------------------------------------------------------------------------
\* What a step does to the stream of requests.
Asks     == \E k \in Requests : Ask(k)
Receives == \E n \in 1 .. Len(toServer) : RecvSome(n)
Rests    == UNCHANGED <<asked, handled, recvBuff, toServer>>

LEMMA StreamSteps == [Next]_vars => Asks \/ Receives \/ Dispatch \/ Rests
BY DEF Asks, Receives, Rests, Next, Peer, Server, PeerRead, HangUp, Bounce,
       HeartDies, SendDue, SendNotDue, SendSome, FlushDone, SendFails, Select,
       SkipRead, RecvNothing, DispatchDone, Write, vars, timerVars, bufferVars,
       selectVars, networkVars, historyVars

\* A message at the front of the buffer is the first that is not handled yet,
\* and what follows it in the buffer and on the way is the rest of them.
LEMMA FrontIsNext ==
  ASSUME TypeOK, RequestStream, OrderInv, Len(recvBuff) > 0
  PROVE  /\ Len(handled) \in Nat /\ Len(asked) \in Nat
         /\ Len(handled) < Len(asked)
         /\ asked[Len(handled) + 1] \in Requests
         /\ FrontKind(recvBuff) = asked[Len(handled) + 1]
         /\ recvBuff \o toServer =
              Msg(FrontKind(recvBuff)) \o Bytes(Rest(asked, Len(handled) + 1))
<1> DEFINE n == Len(handled)
           k == asked[n + 1]
           b == Bytes(Rest(asked, n + 1))
<1>1. /\ n \in Nat /\ Len(asked) \in Nat /\ n <= Len(asked)
      /\ asked \in Seq(Requests) /\ asked \in Seq(Kinds)
      /\ recvBuff \in Seq(Units) /\ toServer \in Seq(Units)
      /\ Len(recvBuff) \in Nat /\ Len(toServer) \in Nat
  BY LenProperties, KindsAre DEF TypeOK, OrderInv
<1>2. Len(recvBuff \o toServer) > 0
  <2>1. Len(recvBuff \o toServer) = Len(recvBuff) + Len(toServer)
    BY <1>1, ConcatProperties
  <2> QED BY <1>1, <2>1
<1>3. n < Len(asked)
  <2> SUFFICES ASSUME n = Len(asked) PROVE FALSE
    BY <1>1
  <2>1. Rest(asked, n) = <<>>
    BY <1>1, SubSeqEmpty DEF Rest
  <2>2. recvBuff \o toServer = <<>>
    BY <2>1, BytesEmpty DEF RequestStream
  <2> QED BY <1>2, <2>2, EmptySeq
<1>4. k \in Requests /\ k \in Kinds
  <2>1. n + 1 \in 1 .. Len(asked)
    BY <1>1, <1>3
  <2> QED BY <1>1, <2>1, ElementOfSeq
<1>5. recvBuff \o toServer = Msg(k) \o b
  <2>1. Rest(asked, n + 1) \in Seq(Kinds)
    <3>1. n + 1 \in 0 .. Len(asked)
      BY <1>1, <1>3
    <3> QED BY <1>1, <3>1, RestType
  <2>2. Rest(asked, n) = <<k>> \o Rest(asked, n + 1)
    BY <1>1, <1>3, RestNext
  <2>3. Bytes(<<k>> \o Rest(asked, n + 1)) = Msg(k) \o b
    BY <1>4, <2>1, BytesCons
  <2> QED BY <2>2, <2>3 DEF RequestStream
<1>6. recvBuff[1] = Msg(k)[1]
  <2>1. b \in Seq(Units)
    <3>1. n + 1 \in 0 .. Len(asked)
      BY <1>1, <1>3
    <3> QED BY <1>1, <3>1, RestType, BytesType
  <2>2. Msg(k) \in Seq(Units) /\ Len(Msg(k)) \in Nat \ {0}
    BY <1>4, MsgType
  <2>3. /\ 1 \in 1 .. Len(recvBuff) + Len(toServer) /\ 1 <= Len(recvBuff)
        /\ 1 \in 1 .. Len(Msg(k)) + Len(b) /\ 1 <= Len(Msg(k))
    BY <1>1, <2>1, <2>2, LenProperties
  <2> HIDE DEF n, k, b
  <2>4. (recvBuff \o toServer)[1] = recvBuff[1]
    BY <1>1, <2>3, ConcatProperties
  <2>5. (Msg(k) \o b)[1] = Msg(k)[1]
    BY <2>1, <2>2, <2>3, ConcatProperties
  <2> QED BY <1>5, <2>4, <2>5
<1>7. FrontKind(recvBuff) = k
  <2>1. Msg(k)[1] = <<k, 1>>
    BY <1>4, MsgType
  <2> QED BY <1>6, <2>1 DEF FrontKind
<1> QED BY <1>1, <1>3, <1>4, <1>5, <1>7

\* What the loop of RecvData does with it.
LEMMA DispatchEffect ==
  ASSUME TypeOK, RequestStream, OrderInv, Dispatch
  PROVE  /\ Len(handled) \in Nat /\ Len(handled) < Len(asked)
         /\ handled' = Append(handled, asked[Len(handled) + 1])
         /\ Len(handled') = Len(handled) + 1
         /\ asked' = asked
         /\ Bytes(Rest(asked, Len(handled) + 1)) = recvBuff' \o toServer'
<1> DEFINE k == FrontKind(recvBuff)
           b == Bytes(Rest(asked, Len(handled) + 1))
<1>1. HasMsg(recvBuff) /\ recvBuff \in Seq(Units) /\ toServer \in Seq(Units)
  BY DEF Dispatch, TypeOK
<1>2. /\ k \in Kinds /\ Length[k] <= Len(recvBuff) /\ Len(recvBuff) \in Nat
      /\ FrontLength(recvBuff) = Length[k] /\ Len(recvBuff) > 0
  BY <1>1, FrontType
<1>3. /\ Len(handled) \in Nat /\ Len(asked) \in Nat
      /\ Len(handled) < Len(asked)
      /\ k = asked[Len(handled) + 1]
      /\ recvBuff \o toServer = Msg(k) \o b
  BY <1>2, FrontIsNext
<1>4. /\ handled' = Append(handled, k) /\ asked' = asked
      /\ recvBuff' = Rest(recvBuff, Length[k]) /\ toServer' = toServer
  BY <1>2 DEF Dispatch, Pop, Rest, networkVars
<1>5. Len(handled') = Len(handled) + 1
  BY <1>2, <1>4, AppendProperties DEF TypeOK
<1>6. b \in Seq(Units)
  <2>1. Len(handled) + 1 \in 0 .. Len(asked) /\ asked \in Seq(Kinds)
    BY <1>3, KindsAre DEF TypeOK
  <2> QED BY <2>1, RestType, BytesType
<1>7. Rest(recvBuff, Length[k]) \o toServer = b
  <2>1. Msg(k) \in Seq(Units) /\ Len(Msg(k)) = Length[k]
    BY <1>2, MsgType
  <2> HIDE DEF k, b
  <2>2. Len(Msg(k)) <= Len(recvBuff) /\ recvBuff \o toServer = Msg(k) \o b
    BY <1>2, <1>3, <2>1
  <2>3. Rest(recvBuff, Len(Msg(k))) \o toServer = b
    BY ONLY <1>1, <1>6, <2>1, <2>2, PopFront
  <2> QED BY <2>1, <2>3
<1> QED BY <1>3, <1>4, <1>5, <1>7

\* Concatenation of units is associative.
LEMMA UnitsAssoc ==
  ASSUME NEW s \in Seq(Units), NEW t \in Seq(Units), NEW u \in Seq(Units)
  PROVE  (s \o t) \o u = s \o (t \o u)
BY ConcatAssociative

LEMMA StreamStep ==
  ASSUME TypeOK, RequestStream, OrderInv, [Next]_vars
  PROVE  RequestStream'
<1>0. /\ asked \in Seq(Requests) /\ asked \in Seq(Kinds)
      /\ Len(handled) \in 0 .. Len(asked)
      /\ recvBuff \in Seq(Units) /\ toServer \in Seq(Units)
  BY KindsAre, LenProperties DEF TypeOK, OrderInv
<1>1. CASE Asks
  <2> PICK k \in Requests : Ask(k)
    BY <1>1 DEF Asks
  <2>1. /\ asked' = Append(asked, k) /\ handled' = handled
        /\ recvBuff' = recvBuff /\ toServer' = toServer \o Msg(k)
    BY DEF Ask, bufferVars
  <2>2. k \in Kinds
    BY KindsAre
  <2>3. Rest(Append(asked, k), Len(handled)) = Append(Rest(asked, Len(handled)), k)
    BY <1>0, <2>2, RestAppend
  <2>4. Rest(asked, Len(handled)) \in Seq(Kinds)
    BY <1>0, RestType
  <2>5. Bytes(Rest(asked', Len(handled'))) = (recvBuff \o toServer) \o Msg(k)
    <3>1. Bytes(Append(Rest(asked, Len(handled)), k))
            = Bytes(Rest(asked, Len(handled))) \o Msg(k)
      BY <2>2, <2>4, BytesAppend
    <3> QED BY <2>1, <2>3, <3>1 DEF RequestStream
  <2>6. (recvBuff \o toServer) \o Msg(k) = recvBuff \o (toServer \o Msg(k))
    <3>1. Msg(k) \in Seq(Units)
      BY <2>2, MsgType
    <3> QED BY ONLY <1>0, <3>1, UnitsAssoc
  <2> QED BY <2>1, <2>5, <2>6 DEF RequestStream, Rest
<1>2. CASE Receives
  <2> PICK n \in 1 .. Len(toServer) : RecvSome(n)
    BY <1>2 DEF Receives
  <2>1. /\ asked' = asked /\ handled' = handled
        /\ recvBuff' = recvBuff \o SubSeq(toServer, 1, n)
        /\ toServer' = Rest(toServer, n)
    BY DEF RecvSome, Append4Socket, Rest, historyVars
  <2>2. n \in 0 .. Len(toServer)
    BY <1>0, LenProperties
  <2>3. /\ SubSeq(toServer, 1, n) \in Seq(Units)
        /\ Rest(toServer, n) \in Seq(Units)
        /\ SubSeq(toServer, 1, n) \o Rest(toServer, n) = toServer
    BY <1>0, <2>2, CutAt, RestType
  <2>4. recvBuff' \o toServer' = recvBuff \o toServer
    <3>1. (recvBuff \o SubSeq(toServer, 1, n)) \o Rest(toServer, n)
            = recvBuff \o (SubSeq(toServer, 1, n) \o Rest(toServer, n))
      BY ONLY <1>0, <2>3, ConcatAssociative
    <3> QED BY <2>1, <2>3, <3>1
  <2>5. Bytes(Rest(asked, Len(handled))) = recvBuff' \o toServer'
    BY <2>4 DEF RequestStream
  <2> QED BY <2>1, <2>5 DEF RequestStream, Rest
<1>3. CASE Dispatch
  <2>1. /\ asked' = asked /\ Len(handled') = Len(handled) + 1
        /\ Bytes(Rest(asked, Len(handled) + 1)) = recvBuff' \o toServer'
    BY <1>3, DispatchEffect
  <2> QED BY <2>1 DEF RequestStream, Rest
<1>4. CASE Rests
  BY <1>4 DEF Rests, RequestStream, Rest
<1> QED BY <1>1, <1>2, <1>3, <1>4, StreamSteps

LEMMA OrderStep ==
  ASSUME TypeOK, RequestStream, OrderInv, [Next]_vars
  PROVE  OrderInv'
<1>0. /\ Len(handled) \in Nat /\ Len(asked) \in Nat
      /\ asked \in Seq(Requests) /\ handled \in Seq(Kinds)
  BY LenProperties DEF TypeOK
<1>1. CASE Asks
  <2> PICK k \in Requests : Ask(k)
    BY <1>1 DEF Asks
  <2>1. asked' = Append(asked, k) /\ handled' = handled
    BY DEF Ask
  <2>2. /\ Len(asked') = Len(asked) + 1
        /\ \A i \in 1 .. Len(asked) : asked'[i] = asked[i]
    BY <1>0, <2>1, AppendProperties
  <2> QED BY <1>0, <2>1, <2>2 DEF OrderInv
<1>2. CASE Dispatch
  <2>1. /\ Len(handled) < Len(asked) /\ asked' = asked
        /\ handled' = Append(handled, asked[Len(handled) + 1])
    BY <1>2, DispatchEffect
  <2>2. asked[Len(handled) + 1] \in Kinds
    <3>1. Len(handled) + 1 \in 1 .. Len(asked)
      BY <1>0, <2>1
    <3> QED BY <1>0, <3>1, ElementOfSeq, KindsAre
  <2>3. /\ Len(handled') = Len(handled) + 1
        /\ handled'[Len(handled) + 1] = asked[Len(handled) + 1]
        /\ \A i \in 1 .. Len(handled) : handled'[i] = handled[i]
    BY <1>0, <2>1, <2>2, AppendProperties
  <2> QED BY <1>0, <2>1, <2>3 DEF OrderInv
<1>3. CASE Receives
  BY <1>3 DEF Receives, RecvSome, historyVars, OrderInv
<1>4. CASE Rests
  BY <1>4 DEF Rests, OrderInv
<1> QED BY <1>1, <1>2, <1>3, <1>4, StreamSteps

-----------------------------------------------------------------------------
\* Between two reads the buffer has no message; a readable socket stays so.
LEMMA DrainedStep ==
  ASSUME DrainedInv, [Next]_vars
  PROVE  DrainedInv'
<1> USE DEF DrainedInv, vars, timerVars, bufferVars, selectVars, networkVars,
            historyVars
<1>1. CASE Peer
  BY <1>1 DEF Peer, Ask, PeerRead, HangUp, Bounce
<1>2. CASE \E n \in 1 .. Len(toServer) : RecvSome(n)
  BY <1>2 DEF RecvSome
<1>3. CASE Dispatch \/ DispatchDone
  BY <1>3 DEF Dispatch, DispatchDone
<1>4. CASE \E dt \in Ticks : HeartDies(dt) \/ SendDue(dt) \/ SendNotDue(dt)
  BY <1>4 DEF HeartDies, SendDue, SendNotDue
<1>5. CASE \/ SendSome \/ FlushDone \/ SendFails \/ Select \/ SkipRead
           \/ RecvNothing \/ Write
  BY <1>5 DEF SendSome, FlushDone, SendFails, Select, SkipRead, RecvNothing,
              Write, Flushing
<1>6. CASE UNCHANGED vars
  BY <1>6
<1> QED BY <1>1, <1>2, <1>3, <1>4, <1>5, <1>6 DEF Next, Server

LEMMA ReadableStep ==
  ASSUME TypeOK, ReadableInv, [Next]_vars
  PROVE  ReadableInv'
<1> USE DEF ReadableInv, vars, timerVars, bufferVars, selectVars, networkVars,
            historyVars
<1>1. CASE \E k \in Requests : Ask(k)
  <2> PICK k \in Requests : Ask(k)
    BY <1>1
  <2>1. toServer \o Msg(k) # <<>>
    BY KindsAre, MsgType, ConcatEqualIffEmpty DEF TypeOK
  <2> QED BY <2>1 DEF Ask
<1>2. CASE PeerRead \/ HangUp \/ Bounce
  BY <1>2 DEF PeerRead, HangUp, Bounce
<1>3. CASE Select
  BY <1>3 DEF Select
<1>4. CASE \E n \in 1 .. Len(toServer) : RecvSome(n)
  BY <1>4 DEF RecvSome
<1>5. CASE \E dt \in Ticks : HeartDies(dt) \/ SendDue(dt) \/ SendNotDue(dt)
  BY <1>5 DEF HeartDies, SendDue, SendNotDue
<1>6. CASE \/ SendSome \/ FlushDone \/ SendFails \/ SkipRead \/ RecvNothing
           \/ Dispatch \/ DispatchDone \/ Write
  BY <1>6 DEF SendSome, FlushDone, SendFails, SkipRead, RecvNothing, Dispatch,
              DispatchDone, Write, Flushing, AfterFlush
<1>7. CASE UNCHANGED vars
  BY <1>7
<1> QED BY <1>1, <1>2, <1>3, <1>4, <1>5, <1>6, <1>7 DEF Next, Peer, Server

-----------------------------------------------------------------------------
\* The replies.

\* The head of one sequence moves to the end of the one before it.
LEMMA MoveHead ==
  ASSUME NEW S, NEW s \in Seq(S), NEW u \in Seq(S), u # <<>>
  PROVE  /\ Append(s, Head(u)) \o Tail(u) = s \o u
         /\ Append(s, Head(u)) \in Seq(S) /\ Tail(u) \in Seq(S)
<1>1. Head(u) \in S /\ Tail(u) \in Seq(S) /\ <<Head(u)>> \in Seq(S)
  BY HeadTailProperties
<1>2. <<Head(u)>> \o Tail(u) = u
  <2>1. Len(u) \in Nat /\ 1 \in 1 .. Len(u) /\ Len(u) \in 1 .. Len(u)
    BY LenProperties, EmptySeq
  <2>2. SubSeq(u, 1, Len(u)) = <<u[1]>> \o SubSeq(u, 2, Len(u))
    BY <2>1, SubSeqRecursiveFirst
  <2> QED BY <2>2, SubSeqFull, TailIsSubSeq
<1>3. Append(s, Head(u)) = s \o <<Head(u)>> /\ Append(s, Head(u)) \in Seq(S)
  BY <1>1, AppendIsConcat, AppendProperties
<1>4. (s \o <<Head(u)>>) \o Tail(u) = s \o (<<Head(u)>> \o Tail(u))
  BY ONLY <1>1, s \in Seq(S), ConcatAssociative
<1> QED BY <1>1, <1>2, <1>3, <1>4

LEMMA ReplyStep ==
  ASSUME TypeOK, ReplyStream, [Next]_vars
  PROVE  ReplyStream'
<1> USE DEF vars, timerVars, bufferVars, selectVars, networkVars, historyVars
<1>0. /\ got \in Seq(Units) /\ toPeer \in Seq(Units) /\ sendBuff \in Seq(Units)
      /\ got \o toPeer \in Seq(Units)
  BY ConcatProperties DEF TypeOK
<1>1. CASE PeerRead
  <2>1. /\ toPeer # <<>> /\ got' = Append(got, Head(toPeer))
        /\ toPeer' = Tail(toPeer)
        /\ UNCHANGED <<sendBuff, answered, peer, pc>>
    BY <1>1 DEF PeerRead
  <2>2. got' \o toPeer' = got \o toPeer
    BY <1>0, <2>1, MoveHead
  <2> QED BY <2>1, <2>2 DEF ReplyStream
<1>2. CASE SendSome
  <2>1. /\ sendBuff # <<>> /\ toPeer' = Append(toPeer, Head(sendBuff))
        /\ sendBuff' = Tail(sendBuff)
        /\ pc # "gone" /\ UNCHANGED <<got, answered, peer>>
    BY <1>2 DEF SendSome, Flushing
  <2>2. /\ toPeer' \o sendBuff' = toPeer \o sendBuff
        /\ toPeer' \in Seq(Units) /\ sendBuff' \in Seq(Units)
    BY <1>0, <2>1, MoveHead
  <2>3. (got \o toPeer') \o sendBuff' = got \o (toPeer' \o sendBuff')
    BY ONLY <1>0, <2>2, UnitsAssoc
  <2>4. (got \o toPeer) \o sendBuff = got \o (toPeer \o sendBuff)
    BY ONLY <1>0, ConcatAssociative
  <2> QED BY <2>1, <2>2, <2>3, <2>4 DEF ReplyStream
<1>3. CASE Dispatch
  <2> DEFINE r == ReplyTo(FrontKind(recvBuff))
  <2>1. UNCHANGED <<got, toPeer, peer, pc>>
    BY <1>3 DEF Dispatch
  <2>2. CASE UNCHANGED <<sendBuff, answered>>
    BY <2>1, <2>2 DEF ReplyStream
  <2>3. CASE /\ Fits(sendBuff, Msg(r), SendSize)
             /\ sendBuff' = Push(sendBuff, Msg(r), SendSize)
             /\ answered' = Append(answered, r)
    <3>1. r \in Kinds /\ Msg(r) \in Seq(Units) /\ answered \in Seq(Kinds)
      <4>1. FrontKind(recvBuff) \in Kinds
        BY <1>3, FrontType DEF Dispatch, TypeOK
      <4> QED BY <4>1, KindsAre, MsgType DEF TypeOK
    <3>2. sendBuff' = sendBuff \o Msg(r)
      BY <2>3 DEF Push
    <3> HIDE DEF r
    <3>3. Bytes(answered') = Bytes(answered) \o Msg(r)
      BY <2>3, <3>1, BytesAppend
    <3>4. (got \o toPeer) \o (sendBuff \o Msg(r))
            = ((got \o toPeer) \o sendBuff) \o Msg(r)
      <4> DEFINE g == got \o toPeer
      <4>1. g \in Seq(Units) /\ sendBuff \in Seq(Units) /\ Msg(r) \in Seq(Units)
        BY <1>0, <3>1
      <4> HIDE DEF g
      <4>2. g \o (sendBuff \o Msg(r)) = (g \o sendBuff) \o Msg(r)
        BY ONLY <4>1, UnitsAssoc
      <4> QED BY <4>2 DEF g
    <3> QED BY <2>1, <3>2, <3>3, <3>4 DEF ReplyStream
  <2> QED BY <1>3, <2>2, <2>3 DEF Dispatch
<1>4. CASE SendFails
  BY <1>4 DEF SendFails, ReplyStream
<1>5. CASE (\E k \in Requests : Ask(k)) \/ HangUp \/ Bounce
  BY <1>5 DEF Ask, HangUp, Bounce, ReplyStream
<1>6. CASE \E dt \in Ticks : HeartDies(dt) \/ SendDue(dt) \/ SendNotDue(dt)
  BY <1>6 DEF HeartDies, SendDue, SendNotDue, ReplyStream
<1>7. CASE \E n \in 1 .. Len(toServer) : RecvSome(n)
  BY <1>7 DEF RecvSome, ReplyStream
<1>8. CASE \/ FlushDone \/ Select \/ SkipRead \/ RecvNothing \/ DispatchDone
           \/ Write
  BY <1>8 DEF FlushDone, Select, SkipRead, RecvNothing, DispatchDone, Write,
              Flushing, ReplyStream
<1>9. CASE UNCHANGED vars
  BY <1>9 DEF ReplyStream
<1> QED BY <1>1, <1>2, <1>3, <1>4, <1>5, <1>6, <1>7, <1>8, <1>9
        DEF Next, Peer, Server

-----------------------------------------------------------------------------
LEMMA InvInit == Init => IInv
<1> SUFFICES ASSUME Init PROVE IInv
  OBVIOUS
<1>1. <<>> \in Seq(Kinds) /\ Len(<<>>) = 0
  BY EmptySeq
<1>2. Rest(<<>>, 0) = <<>> /\ <<>> \o <<>> = <<>>
  BY <1>1, SubSeqEmpty, ConcatEmptySeq DEF Rest
<1>3. RequestStream
  BY <1>1, <1>2, BytesEmpty DEF Init, RequestStream
<1>4. OrderInv /\ DrainedInv /\ ReadableInv
  BY <1>1, BufferAssumption DEF Init, OrderInv, DrainedInv, ReadableInv, HasMsg
<1>5. ReplyStream
  BY <1>2, BytesEmpty DEF Init, ReplyStream
<1> QED BY <1>3, <1>4, <1>5, TypeInit DEF IInv

LEMMA InvCorrect == Spec => []IInv
<1>1. IInv /\ [Next]_vars => IInv'
  BY TypeStep, StreamStep, OrderStep, DrainedStep, ReadableStep, ReplyStep
     DEF IInv
<1> QED BY <1>1, InvInit, PTL DEF Spec

\* However TCP cuts the stream, the receive buffer and what is on its way are
\* the requests that are not handled yet.
THEOREM RequestStreamCorrect == Spec => []RequestStream
<1>1. IInv => RequestStream
  BY DEF IInv
<1> QED BY <1>1, InvCorrect, PTL

\* As long as the peer is there it gets the accepted replies, whole and in
\* order.
THEOREM ReplyStreamCorrect == Spec => []ReplyStream
<1>1. IInv => ReplyStream
  BY DEF IInv
<1> QED BY <1>1, InvCorrect, PTL

\* OnNetMsg gets the requests once each, in the order of their sending.
THEOREM ImplementsFifoCorrect == Spec => ImplementsFifo
<1>1. Init => Fifo!QueueInit
  <2>1. <<>> \in Seq(Requests) /\ Len(<<>>) = 0
    BY EmptySeq
  <2>2. Rest(<<>>, 0) = <<>>
    BY <2>1, SubSeqEmpty DEF Rest
  <2> QED BY <2>1, <2>2 DEF Init, Fifo!QueueInit
<1>2. IInv /\ [Next]_vars
        => [Fifo!QueueNext]_<<Rest(asked, Len(handled)), handled>>
  <2> SUFFICES ASSUME IInv, [Next]_vars
               PROVE  [Fifo!QueueNext]_<<Rest(asked, Len(handled)), handled>>
    OBVIOUS
  <2>0. /\ TypeOK /\ RequestStream /\ OrderInv /\ asked \in Seq(Requests)
        /\ Len(handled) \in 0 .. Len(asked)
    BY LenProperties DEF IInv, TypeOK, OrderInv
  <2>1. CASE Asks
    <3> PICK k \in Requests : Ask(k)
      BY <2>1 DEF Asks
    <3>1. asked' = Append(asked, k) /\ handled' = handled
      BY DEF Ask
    <3>2. Rest(Append(asked, k), Len(handled)) = Append(Rest(asked, Len(handled)), k)
      BY <2>0, RestAppend
    <3>3. Rest(asked, Len(handled))' = Append(Rest(asked, Len(handled)), k)
      BY <3>1, <3>2 DEF Rest
    <3>4. Fifo!Add(k)
      BY <3>1, <3>3 DEF Fifo!Add
    <3> QED BY <3>4 DEF Fifo!QueueNext
  <2>2. CASE Dispatch
    <3>1. /\ Len(handled) \in Nat /\ Len(handled) < Len(asked)
          /\ handled' = Append(handled, asked[Len(handled) + 1])
          /\ Len(handled') = Len(handled) + 1 /\ asked' = asked
      BY <2>0, <2>2, DispatchEffect
    <3>2. /\ Rest(asked, Len(handled)) # <<>>
          /\ Head(Rest(asked, Len(handled))) = asked[Len(handled) + 1]
          /\ Tail(Rest(asked, Len(handled))) = Rest(asked, Len(handled) + 1)
      BY <2>0, <3>1, RestNext
    <3>3. Rest(asked, Len(handled))' = Rest(asked, Len(handled) + 1)
      BY <3>1 DEF Rest
    <3>4. Fifo!Execute
      BY <3>1, <3>2, <3>3 DEF Fifo!Execute
    <3> QED BY <3>4 DEF Fifo!QueueNext
  <2>3. CASE Receives \/ Rests
    BY <2>3 DEF Receives, RecvSome, Rests, Rest, historyVars
  <2> QED BY <2>1, <2>2, <2>3, StreamSteps
<1> QED BY <1>1, <1>2, InvCorrect, PTL
        DEF Spec, ImplementsFifo, Fifo!QueueSpec, Fifo!queueVars

-----------------------------------------------------------------------------
\* A buffer without a complete message has room, so that a read of 0 bytes is
\* the end of the stream.
LEMMA RoomForMore ==
  ASSUME TypeOK, ~HasMsg(recvBuff)
  PROVE  Len(recvBuff) # RecvSize
<1> SUFFICES ASSUME Len(recvBuff) = RecvSize PROVE FALSE
  OBVIOUS
<1>1. /\ RecvSize \in Nat /\ Header \in Nat \ {0} /\ Kinds # {}
      /\ \A k \in Kinds : Length[k] \in Nat /\ Length[k] >= Header
                          /\ Length[k] <= RecvSize
  BY ClientAssumption, BufferAssumption DEF Requests
<1>2. Header <= RecvSize /\ 1 <= RecvSize
  BY <1>1
<1>3. FrontKind(recvBuff) \in Kinds
  <2>1. recvBuff[1] \in Units
    BY <1>1, <1>2, ElementOfSeq DEF TypeOK
  <2> QED BY <2>1 DEF FrontKind, Units
<1> QED BY <1>1, <1>2, <1>3 DEF HasMsg, FrontLength

\* If no byte is on its way and the buffer has no message, all is handled.
LEMMA NothingWaits ==
  ASSUME TypeOK, RequestStream, OrderInv, ~HasMsg(recvBuff), toServer = <<>>
  PROVE  handled = asked
<1>1. /\ asked \in Seq(Kinds) /\ handled \in Seq(Kinds)
      /\ Len(asked) \in Nat /\ Len(handled) \in Nat
      /\ recvBuff \in Seq(Units) /\ Len(recvBuff) \in Nat
      /\ Len(handled) <= Len(asked)
  BY KindsAre, LenProperties DEF TypeOK, OrderInv
<1>2. recvBuff \o toServer = recvBuff
  BY <1>1, ConcatEmptySeq
<1>3. Len(handled) = Len(asked)
  <2> SUFFICES ASSUME Len(handled) < Len(asked) PROVE FALSE
    BY <1>1
  <2> DEFINE k == asked[Len(handled) + 1]
             b == Bytes(Rest(asked, Len(handled) + 1))
  <2>1. /\ Len(handled) + 1 \in 1 .. Len(asked)
        /\ Len(handled) + 1 \in 0 .. Len(asked)
    BY <1>1
  <2>2. k \in Kinds /\ b \in Seq(Units) /\ Rest(asked, Len(handled) + 1) \in Seq(Kinds)
    BY <1>1, <2>1, ElementOfSeq, RestType, BytesType
  <2>3. recvBuff = Msg(k) \o b
    <3>1. Rest(asked, Len(handled)) = <<k>> \o Rest(asked, Len(handled) + 1)
      BY <1>1, RestNext
    <3>2. Bytes(<<k>> \o Rest(asked, Len(handled) + 1)) = Msg(k) \o b
      BY <2>2, BytesCons
    <3> QED BY <1>2, <3>1, <3>2 DEF RequestStream
  <2>4. /\ Msg(k) \in Seq(Units) /\ Len(Msg(k)) = Length[k]
        /\ Length[k] \in Nat /\ Length[k] >= Header /\ Header \in Nat \ {0}
    BY <2>2, MsgType
  <2>5. Len(recvBuff) = Length[k] + Len(b) /\ Len(b) \in Nat
    <3> HIDE DEF k, b
    <3> QED BY <2>2, <2>3, <2>4, ConcatProperties, LenProperties
  <2>6. Len(recvBuff) >= Length[k] /\ Len(recvBuff) >= Header /\ Len(recvBuff) > 0
    BY <1>1, <2>4, <2>5
  <2>7. FrontKind(recvBuff) = k
    BY <2>6, FrontIsNext
  <2> QED BY <2>6, <2>7 DEF HasMsg, FrontLength
<1>4. \A i \in 1 .. Len(handled) : handled[i] = asked[i]
  BY DEF OrderInv
<1> QED BY <1>1, <1>3, <1>4, SeqEqual

\* A read removes the client only when the peer has hung up; after an orderly
\* close everything it had sent is handled.
THEOREM NothingLostCorrect == Spec => NothingLostAtHangUp
<1>1. IInv /\ [Next]_vars
        => (pc = "read" /\ pc' = "gone"
              => peer = "reset" \/ (peer = "closed" /\ handled = asked))
  <2> SUFFICES ASSUME IInv, [Next]_vars, pc = "read", pc' = "gone",
                      peer # "reset"
               PROVE  peer = "closed" /\ handled = asked
    OBVIOUS
  <2>1. RecvNothing
    BY DEF Next, Peer, Server, Ask, PeerRead, HangUp, Bounce, HeartDies, SendDue,
           SendNotDue, SendSome, FlushDone, SendFails, Select, SkipRead,
           RecvSome, Dispatch, DispatchDone, Write, Flushing, vars
  <2>2. /\ TypeOK /\ RequestStream /\ OrderInv /\ ~HasMsg(recvBuff)
        /\ toServer # <<>> \/ peer # "open"
    BY <2>1 DEF IInv, DrainedInv, ReadableInv, RecvNothing
  <2>3. toServer = <<>>
    BY <2>1, <2>2, RoomForMore DEF RecvNothing
  <2>4. peer = "closed"
    BY <2>2, <2>3 DEF TypeOK
  <2> QED BY <2>2, <2>3, <2>4, NothingWaits
<1> QED BY <1>1, InvCorrect, PTL DEF Spec, NothingLostAtHangUp

=============================================================================
