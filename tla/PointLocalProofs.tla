-------------------------- MODULE PointLocalProofs --------------------------
(***************************************************************************)
(* The modes of point local reconstruction arrive, whatever the patches,   *)
(* the number of frames, the modes and the options are.                    *)
(***************************************************************************)
EXTENDS PointLocal, DataLemmas

-----------------------------------------------------------------------------
(***************************************************************************)
(* The bits of a mode.                                                     *)
(***************************************************************************)
IsMode(m) == m \in 0 .. Modes - 1

\* The bits of a mode can tell all modes but the first apart.
LEMMA ModeBitsFit == ModeBits \in Nat /\ Modes - 1 <= Pow2[ModeBits]
<1> DEFINE range == Modes - 1
           T == {n \in 0 .. range : Pow2[n] >= range}
<1>1. range \in Nat
  BY PointLocalAssumption
<1>2. range \in T
  BY <1>1, Pow2Exceeds, Pow2Type
<1>3. T \in SUBSET Nat /\ T # {}
  BY <1>1, <1>2
<1>4. PICK n \in T : \A m \in T : n <= m
  <2> HIDE DEF T
  <2> QED
    BY <1>3, LeastNumber
<1>5. \A m \in 0 .. n - 1 : Pow2[m] < range
  <2> TAKE m \in 0 .. n - 1
  <2>1. m \in 0 .. range /\ ~(n <= m) /\ m \in Nat /\ n \in Nat
    BY <1>1, <1>3, <1>4
  <2>2. m \notin T
    BY <1>4, <2>1
  <2>3. Pow2[m] \in Nat
    BY <2>1, Pow2Type
  <2> QED
    BY <1>1, <2>1, <2>2, <2>3
<1>6. n \in 0 .. range /\ Pow2[n] >= range
  BY <1>4
<1> HIDE DEF T, range
<1>7. /\ BitsFor(range) \in 0 .. range /\ Pow2[BitsFor(range)] >= range
  BY <1>5, <1>6 DEF BitsFor
<1> DEFINE bits == BitsFor(range)
<1>8. bits \in Nat /\ Pow2[bits] \in Nat
  BY <1>1, <1>7, Pow2Type
<1> HIDE DEF bits
<1>9. range <= Pow2[bits]
  BY <1>1, <1>7, <1>8 DEF bits
<1> QED
  BY <1>8, <1>9 DEF bits, range, ModeBits

\* A mode is one bit, or a one and the bits of the mode.
LEMMA ModeCodeType ==
  ASSUME NEW m, IsMode(m)
  PROVE  /\ ModeCode(m) \in Seq({0, 1})
         /\ Len(ModeCode(m)) = IF m > 0 THEN 1 + ModeBits ELSE 1
         /\ ModeCode(m)[1] = IF m > 0 THEN 1 ELSE 0
         /\ m > 0 => \A i \in 1 .. ModeBits :
                       ModeCode(m)[1 + i] = Field(m - 1, ModeBits)[i]
<1>1. m \in Nat /\ ModeBits \in Nat
  BY ModeBitsFit, PointLocalAssumption DEF IsMode
<1>2. CASE m > 0
  <2> DEFINE field == Field(m - 1, ModeBits)
  <2>1. field \in Seq({0, 1}) /\ Len(field) = ModeBits
    BY <1>1, <1>2, FieldType
  <2> HIDE DEF field
  <2>2. ModeCode(m) = <<1>> \o field
    BY <1>2 DEF ModeCode, field
  <2>3. <<1>> \in Seq({0, 1}) /\ Len(<<1>>) = 1 /\ <<1>>[1] = 1
    OBVIOUS
  <2>4. /\ <<1>> \o field \in Seq({0, 1}) /\ Len(<<1>> \o field) = 1 + ModeBits
        /\ (<<1>> \o field)[1] = 1
        /\ \A i \in 1 .. ModeBits : (<<1>> \o field)[1 + i] = field[i]
    BY <1>1, <2>1, <2>3, ConcatProperties
  <2> QED
    BY <1>2, <2>2, <2>4 DEF field
<1>3. CASE ~(m > 0)
  BY <1>3, <1>1 DEF ModeCode
<1> QED
  BY <1>2, <1>3

\* A part of one member.
LEMMA OneOf ==
  ASSUME NEW T, NEW s \in Seq(T), NEW i \in 1 .. Len(s)
  PROVE  SubSeq(s, i, i) = <<s[i]>>
<1>1. /\ SubSeq(s, i, i) \in Seq(T) /\ Len(SubSeq(s, i, i)) = 1
      /\ SubSeq(s, i, i)[1] = s[i]
  OBVIOUS
<1>2. <<s[i]>> \in Seq(T) /\ Len(<<s[i]>>) = 1 /\ <<s[i]>>[1] = s[i]
  OBVIOUS
<1>3. \A k \in 1 .. 1 : SubSeq(s, i, i)[k] = <<s[i]>>[k]
  BY <1>1, <1>2
<1> QED
  BY <1>1, <1>2, <1>3, SeqEqual

\* One mode is read from the bits it was written as, wherever they are.
LEMMA ReadOneMode ==
  ASSUME NEW bits \in Seq({0, 1}), NEW at \in Nat, NEW m, IsMode(m),
         at + Len(ModeCode(m)) <= Len(bits),
         \A i \in 1 .. Len(ModeCode(m)) : bits[at + i] = ModeCode(m)[i]
  PROVE  ReadMode(bits, at) = [at |-> at + Len(ModeCode(m)), mode |-> m]
<1> DEFINE len == Len(ModeCode(m))
           code == ModeCode(m)
           first == BitsAt(bits, at, 1)
           field == BitsAt(bits, at + 1, ModeBits)
<1>1. /\ m \in Nat /\ m <= Modes - 1 /\ ModeBits \in Nat /\ Modes - 1 <= Pow2[ModeBits]
      /\ Pow2[ModeBits] \in Nat /\ Modes \in Nat
  BY ModeBitsFit, Pow2Type, PointLocalAssumption DEF IsMode
<1>2. /\ len = IF m > 0 THEN 1 + ModeBits ELSE 1
      /\ code[1] = IF m > 0 THEN 1 ELSE 0
      /\ m > 0 => \A i \in 1 .. ModeBits : code[1 + i] = Field(m - 1, ModeBits)[i]
  BY ModeCodeType
<1>3. at + len <= Len(bits) /\ \A i \in 1 .. len : bits[at + i] = code[i]
  OBVIOUS
<1> HIDE DEF len, code
<1>4. len \in Nat /\ len >= 1 /\ Len(bits) \in Nat
  BY <1>1, <1>2
<1>5. first = <<code[1]>>
  <2>1. first = SubSeq(bits, at + 1, at + 1)
    BY <1>3, <1>4 DEF BitsAt
  <2>2. bits[at + 1] = code[1]
    BY <1>3, <1>4
  <2>3. SubSeq(bits, at + 1, at + 1) = <<bits[at + 1]>>
    <3>1. at + 1 \in 1 .. Len(bits)
      BY <1>3, <1>4
    <3> QED
      BY <3>1, OneOf
  <2> QED
    BY <2>1, <2>2, <2>3
<1>6. Value(first) = IF m > 0 THEN 1 ELSE 0
  BY <1>2, <1>5, ValueOfBit
<1>7. CASE m > 0
  <2>1. field = Field(m - 1, ModeBits)
    <3>1. field = SubSeq(bits, at + 2, at + 1 + ModeBits)
      <4>1. /\ (IF at + 1 + ModeBits < Len(bits) THEN at + 1 + ModeBits ELSE Len(bits))
                 = at + 1 + ModeBits
            /\ (at + 1) + 1 = at + 2
        <5>1. len = 1 + ModeBits /\ at + len <= Len(bits)
          BY <1>2, <1>3, <1>7
        <5> HIDE DEF first, field
        <5>2. at + 1 + ModeBits <= Len(bits)
          BY <5>1, <1>1, <1>4
        <5> QED
          BY <5>2, <1>1, <1>4
      <4> QED
        BY <4>1 DEF BitsAt
    <3>2. /\ field \in Seq({0, 1}) /\ Len(field) = ModeBits
          /\ \A i \in 1 .. ModeBits : field[i] = bits[at + 1 + i]
      <4> HIDE DEF field
      <4> QED
        BY <3>1, <1>1, <1>2, <1>3, <1>4, <1>7
    <3>3. \A i \in 1 .. ModeBits : bits[at + 1 + i] = Field(m - 1, ModeBits)[i]
      <4> TAKE i \in 1 .. ModeBits
      <4>1. 1 + i \in 1 .. len /\ at + (1 + i) = at + 1 + i
        BY <1>1, <1>2, <1>7
      <4> QED
        BY <4>1, <1>2, <1>3, <1>7
    <3>4. Field(m - 1, ModeBits) \in Seq({0, 1}) /\ Len(Field(m - 1, ModeBits)) = ModeBits
      <4>1. m - 1 \in Nat
        BY <1>1, <1>7
      <4> QED
        BY <1>1, <4>1, FieldType
    <3> HIDE DEF field
    <3> QED
      BY <3>2, <3>3, <3>4, SeqEqual
  <2>2. Value(Field(m - 1, ModeBits)) = m - 1
    BY <1>1, <1>7, ValueOfField
  <2> HIDE DEF field, first
  <2>3. Value(field) + 1 = m
    BY <1>1, <2>1, <2>2
  <2>4. at + 1 + ModeBits = at + len
    BY <1>1, <1>2, <1>7
  <2> QED
    BY <1>6, <1>7, <2>3, <2>4 DEF ReadMode, field, first, len
<1>8. CASE ~(m > 0)
  <2>1. m = 0 /\ len = 1 /\ Value(first) = 0 /\ at + 1 + 0 = at + len
    BY <1>1, <1>2, <1>6, <1>8
  <2> HIDE DEF first
  <2> QED
    BY <2>1 DEF ReadMode, first, len
<1> QED
  BY <1>7, <1>8

(***************************************************************************)
(* The bits of several modes.                                              *)
(***************************************************************************)
\* Positions after each of n codes that follow each other in bits.
Follow(bits, modes, pos, n) ==
  \A i \in 1 .. n :
    /\ pos[i - 1] \in Nat
    /\ pos[i] = pos[i - 1] + Len(ModeCode(modes[i]))
    /\ pos[i] <= Len(bits)
    /\ \A k \in 1 .. Len(ModeCode(modes[i])) :
         bits[pos[i - 1] + k] = ModeCode(modes[i])[k]

\* The beginnings of a sequence, each one longer than the one before.
LEMMA OneMore ==
  ASSUME NEW T, NEW modes \in Seq(T), NEW i \in 1 .. Len(modes)
  PROVE  SubSeq(modes, 1, i) = Append(SubSeq(modes, 1, i - 1), modes[i])
<1>1. /\ SubSeq(modes, 1, i) \in Seq(T) /\ Len(SubSeq(modes, 1, i)) = i
      /\ \A k \in 1 .. i : SubSeq(modes, 1, i)[k] = modes[k]
      /\ SubSeq(modes, 1, i - 1) \in Seq(T)
      /\ Len(SubSeq(modes, 1, i - 1)) = i - 1
      /\ \A k \in 1 .. i - 1 : SubSeq(modes, 1, i - 1)[k] = modes[k]
  OBVIOUS
<1> DEFINE t == SubSeq(modes, 1, i - 1)
           u == Append(t, modes[i])
<1> HIDE DEF t
<1>2. /\ u \in Seq(T) /\ Len(u) = i /\ u[i] = modes[i]
      /\ \A k \in 1 .. i - 1 : u[k] = modes[k]
  BY <1>1, AppendProperties DEF t
<1> HIDE DEF u
<1>3. \A k \in 1 .. i : SubSeq(modes, 1, i)[k] = u[k]
  BY <1>1, <1>2
<1>4. SubSeq(modes, 1, i) = u
  BY <1>1, <1>2, <1>3, SeqEqual
<1> QED
  BY <1>4 DEF u, t

\* As many modes are read as asked for, one after the other.
LEMMA ReadAllModes ==
  ASSUME NEW bits \in Seq({0, 1}), NEW n \in Nat, NEW modes \in Seq(0 .. Modes - 1),
         Len(modes) = n, NEW pos, Follow(bits, modes, pos, n)
  PROVE  ReadModes(bits, pos[0], n) = [at |-> pos[n], modes |-> modes]
<1> DEFINE start == [at |-> pos[0], modes |-> <<>>]
           next(before, r) == [at |-> r.at, modes |-> Append(before.modes, r.mode)]
           Table(g) == g = [i \in 0 .. n |->
                              IF i = 0 THEN start
                              ELSE next(g[i - 1], ReadMode(bits, g[i - 1].at))]
           h == [i \in 0 .. n |-> [at |-> pos[i], modes |-> SubSeq(modes, 1, i)]]
           g == CHOOSE g : Table(g)
<1>1. ReadModes(bits, pos[0], n) = g[n]
  BY Zenon DEF ReadModes
<1> HIDE DEF g, h, start, Table, next
<1>2. ASSUME NEW i \in 1 .. n
      PROVE  ReadMode(bits, pos[i - 1]) = [at |-> pos[i], mode |-> modes[i]]
  <2>1. IsMode(modes[i])
    BY ElementOfSeq DEF IsMode
  <2>2. /\ pos[i - 1] \in Nat
        /\ pos[i] = pos[i - 1] + Len(ModeCode(modes[i]))
        /\ pos[i - 1] + Len(ModeCode(modes[i])) <= Len(bits)
        /\ \A k \in 1 .. Len(ModeCode(modes[i])) :
             bits[pos[i - 1] + k] = ModeCode(modes[i])[k]
    BY DEF Follow
  <2>3. PICK at \in Nat : at = pos[i - 1]
    BY <2>2
  <2>4. PICK m : m = modes[i]
    OBVIOUS
  <2>5. ReadMode(bits, at) = [at |-> at + Len(ModeCode(m)), mode |-> m]
    BY <2>1, <2>2, <2>3, <2>4, ReadOneMode
  <2> QED
    BY <2>2, <2>3, <2>4, <2>5
<1>3. ASSUME NEW i \in 1 .. n
      PROVE  SubSeq(modes, 1, i) = Append(SubSeq(modes, 1, i - 1), modes[i])
  <2> HIDE DEF g, h, start, Table, next
  <2> QED
    BY OneMore
<1> USE DEF g, h, start, Table, next
<1>4. h = [i \in 0 .. n |-> IF i = 0 THEN start
                            ELSE next(h[i - 1], ReadMode(bits, h[i - 1].at))]
  <2>1. ASSUME NEW i \in 0 .. n
        PROVE  h[i] = IF i = 0 THEN start ELSE next(h[i - 1], ReadMode(bits, h[i - 1].at))
    <3>1. CASE i = 0
      <4>1. SubSeq(modes, 1, 0) = <<>>
        OBVIOUS
      <4> QED
        BY <3>1, <4>1
    <3>2. CASE i # 0
      <4>1. i \in 1 .. n /\ i - 1 \in 0 .. n
        BY <3>2
      <4>2. h[i - 1] = [at |-> pos[i - 1], modes |-> SubSeq(modes, 1, i - 1)]
        BY <4>1
      <4>3. h[i] = [at |-> pos[i], modes |-> SubSeq(modes, 1, i)]
        BY <4>1
      <4> HIDE DEF h
      <4>4. ReadMode(bits, h[i - 1].at) = [at |-> pos[i], mode |-> modes[i]]
        BY <4>1, <4>2, <1>2
      <4>5. SubSeq(modes, 1, i) = Append(SubSeq(modes, 1, i - 1), modes[i])
        BY <4>1, <1>3
      <4>6. PICK r : r = ReadMode(bits, h[i - 1].at)
        OBVIOUS
      <4>7. r.at = pos[i] /\ r.mode = modes[i]
        BY <4>4, <4>6
      <4>8. PICK b : b = h[i - 1]
        OBVIOUS
      <4>9. b.modes = SubSeq(modes, 1, i - 1)
        BY <4>2, <4>8
      <4>10. next(b, r) = h[i]
        BY <4>3, <4>5, <4>7, <4>9
      <4> HIDE DEF next
      <4> QED
        BY <3>2, <4>6, <4>8, <4>10
    <3> QED
      BY <3>1, <3>2
  <2>2. h = [i \in 0 .. n |-> h[i]]
    OBVIOUS
  <2> HIDE DEF h, start, next
  <2> QED
    BY <2>1, <2>2
<1>5. Table(h)
  <2> HIDE DEF h, start, next
  <2> QED
    BY <1>4
<1>6. Table(g)
  <2> HIDE DEF Table, h
  <2> QED
    BY <1>5
<1>7. h[n] = [at |-> pos[n], modes |-> modes]
  <2>1. SubSeq(modes, 1, n) = modes
    OBVIOUS
  <2> QED
    BY <2>1
<1> HIDE DEF g, h, start, next
<1> DEFINE S == {i \in Nat : i <= n => g[i] = h[i]}
<1>8. 0 \in S
  BY <1>5, <1>6
<1>9. ASSUME NEW i \in S PROVE i + 1 \in S
  <2> SUFFICES ASSUME i + 1 <= n PROVE g[i + 1] = h[i + 1]
    OBVIOUS
  <2>1. i + 1 \in 0 .. n /\ i + 1 # 0 /\ (i + 1) - 1 = i /\ g[i] = h[i]
    OBVIOUS
  <2>2. /\ g[i + 1] = next(g[i], ReadMode(bits, g[i].at))
        /\ h[i + 1] = next(h[i], ReadMode(bits, h[i].at))
    BY <1>5, <1>6, <2>1
  <2> QED
    BY <2>1, <2>2
<1>10. S \in SUBSET Nat
  OBVIOUS
<1> HIDE DEF S
<1>11. S = Nat
  BY <1>8, <1>9, <1>10, SetInduction
<1>12. g[n] = h[n]
  BY <1>11 DEF S
<1> QED
  BY <1>1, <1>7, <1>12

\* The codes of modes behind other bits follow each other up to the end.
Codes(modes) == [i \in 1 .. Len(modes) |-> ModeCode(modes[i])]

LEMMA CodesFollow ==
  ASSUME NEW pre \in Seq({0, 1}), NEW modes \in Seq(0 .. Modes - 1)
  PROVE  /\ pre \o FlattenSeq(Codes(modes)) \in Seq({0, 1})
         /\ \E pos : /\ pos[0] = Len(pre)
                      /\ pos[Len(modes)] = Len(pre \o FlattenSeq(Codes(modes)))
                      /\ Follow(pre \o FlattenSeq(Codes(modes)), modes, pos, Len(modes))
<1> DEFINE n == Len(modes)
           codes == Codes(modes)
           cut(i) == SubSeq(codes, 1, i)
           flat(i) == FlattenSeq(cut(i))
           bits == pre \o FlattenSeq(codes)
           pos == [i \in 0 .. n |-> Len(pre) + Len(flat(i))]
<1>1. n \in Nat /\ Len(pre) \in Nat
  OBVIOUS
<1>2. ASSUME NEW i \in 1 .. n
      PROVE  ModeCode(modes[i]) \in Seq({0, 1}) /\ Len(ModeCode(modes[i])) \in Nat
  <2>1. IsMode(modes[i])
    BY ElementOfSeq DEF IsMode
  <2> QED
    BY <2>1, ModeCodeType, LenProperties
<1>3. codes \in Seq(Seq({0, 1})) /\ Len(codes) = n
  <2>1. codes \in [1 .. n -> Seq({0, 1})]
    BY <1>2 DEF Codes
  <2> HIDE DEF codes
  <2> QED
    BY <1>1, <2>1
<1>4. \A i \in 1 .. n : codes[i] = ModeCode(modes[i])
  BY DEF Codes
<1> HIDE DEF codes, n
<1>5. \A i \in 0 .. n : cut(i) \in Seq(Seq({0, 1})) /\ flat(i) \in Seq({0, 1})
  <2> TAKE i \in 0 .. n
  <2>1. cut(i) \in Seq(Seq({0, 1}))
    BY <1>1, <1>3
  <2> HIDE DEF cut
  <2> QED
    BY <2>1, FlattenType
<1>6. cut(0) = <<>> /\ cut(n) = codes
  BY <1>3
<1>7. flat(0) = <<>>
  <2> HIDE DEF cut
  <2>1. FlattenSeq(<<>>) = <<>>
    <3>1. Len(<<>>) = 0
      OBVIOUS
    <3> QED
      BY <3>1, FlattenIs
  <2> QED
    BY <1>6, <2>1
<1>8. ASSUME NEW i \in 1 .. n PROVE flat(i) = flat(i - 1) \o codes[i]
  <2>1. cut(i) = Append(cut(i - 1), codes[i])
    BY <1>3, OneMore
  <2>2. cut(i - 1) \in Seq(Seq({0, 1})) /\ codes[i] \in Seq({0, 1})
    BY <1>1, <1>2, <1>4, <1>5
  <2> HIDE DEF cut
  <2> QED
    BY <2>1, <2>2, FlattenAppend
<1>9. bits \in Seq({0, 1}) /\ Len(bits) = Len(pre) + Len(flat(n))
  <2>1. FlattenSeq(codes) = flat(n) /\ flat(n) \in Seq({0, 1})
    <3>1. n \in 0 .. n
      BY <1>1
    <3> QED
      BY <1>5, <1>6, <3>1
  <2> HIDE DEF flat
  <2> QED
    BY <2>1, ConcatProperties
<1>10. ASSUME NEW i \in 0 .. n
       PROVE  /\ Len(flat(i)) \in Nat /\ Len(flat(i)) <= Len(flat(n))
              /\ \A k \in 1 .. Len(flat(i)) : bits[Len(pre) + k] = flat(i)[k]
  <2>1. PICK rest \in Seq({0, 1}) : FlattenSeq(codes) = FlattenSeq(SubSeq(codes, 1, i)) \o rest
    BY <1>3, FlattenPrefix
  <2>2. PICK a \in Seq({0, 1}) : a = flat(i)
    BY <1>5
  <2>3. bits = pre \o (a \o rest) /\ FlattenSeq(codes) = a \o rest
    BY <2>1, <2>2
  <2>4. FlattenSeq(codes) = flat(n)
    BY <1>6
  <2> HIDE DEF bits, flat
  <2>5. Len(a) \in Nat /\ Len(flat(n)) = Len(a) + Len(rest) /\ Len(rest) \in Nat
    BY <2>3, <2>4, ConcatProperties, LenProperties
  <2>6. \A k \in 1 .. Len(a) : (a \o rest)[k] = a[k] /\ k \in 1 .. Len(a \o rest)
    BY <2>5, ConcatProperties
  <2>7. a \o rest \in Seq({0, 1})
    BY ConcatProperties
  <2>8. \A k \in 1 .. Len(a \o rest) : (pre \o (a \o rest))[Len(pre) + k] = (a \o rest)[k]
    <3>1. PICK b \in Seq({0, 1}) : b = a \o rest
      BY <2>7
    <3> QED
      BY <3>1
  <2> QED
    BY <2>2, <2>3, <2>5, <2>6, <2>8
<1>11. ASSUME NEW i \in 1 .. n
       PROVE  /\ pos[i - 1] \in Nat
              /\ pos[i] = pos[i - 1] + Len(ModeCode(modes[i]))
              /\ pos[i] <= Len(bits)
              /\ \A k \in 1 .. Len(ModeCode(modes[i])) :
                   bits[pos[i - 1] + k] = ModeCode(modes[i])[k]
  <2>1. i \in 0 .. n /\ i - 1 \in 0 .. n
    BY <1>1
  <2>2. pos[i - 1] = Len(pre) + Len(flat(i - 1)) /\ pos[i] = Len(pre) + Len(flat(i))
    BY <2>1
  <2>3. PICK c \in Seq({0, 1}) : c = ModeCode(modes[i]) /\ Len(c) \in Nat
    BY <1>2
  <2>4. PICK a \in Seq({0, 1}) : a = flat(i - 1) /\ Len(a) \in Nat
    BY <1>5, <2>1
  <2>5. flat(i) = a \o c
    BY <1>4, <1>8, <2>3, <2>4
  <2>6. /\ Len(a \o c) = Len(a) + Len(c)
        /\ \A k \in 1 .. Len(c) : (a \o c)[Len(a) + k] = c[k]
    BY ConcatProperties
  <2> HIDE DEF pos, bits, flat
  <2>7. Len(flat(i)) <= Len(flat(n)) /\ Len(flat(n)) \in Nat
    BY <1>1, <1>10, <2>1
  <2>8. \A k \in 1 .. Len(flat(i)) : bits[Len(pre) + k] = flat(i)[k]
    BY <1>10, <2>1
  <2>9. \A k \in 1 .. Len(c) : bits[(Len(pre) + Len(a)) + k] = c[k]
    <3> TAKE k \in 1 .. Len(c)
    <3>1. Len(a) + k \in 1 .. Len(a \o c) /\ Len(pre) + (Len(a) + k) = (Len(pre) + Len(a)) + k
      BY <1>1, <2>3, <2>4, <2>6
    <3> QED
      BY <2>5, <2>6, <2>8, <3>1
  <2> QED
    BY <1>1, <1>9, <2>2, <2>3, <2>4, <2>5, <2>6, <2>7, <2>9
<1>12. pos[0] = Len(pre) /\ pos[n] = Len(bits)
  <2>1. pos[0] = Len(pre) + Len(<<>>)
    BY <1>1, <1>7
  <2>2. pos[n] = Len(pre) + Len(flat(n))
    BY <1>1
  <2> HIDE DEF pos, bits, flat
  <2> QED
    BY <1>1, <1>9, <2>1, <2>2
<1>13. Follow(bits, modes, pos, n)
  <2> HIDE DEF pos, bits
  <2> QED
    BY <1>11 DEF Follow
<1> HIDE DEF pos
<1> QED
  BY <1>9, <1>12, <1>13 DEF bits, codes, n

-----------------------------------------------------------------------------
(***************************************************************************)
(* The bits of a unit.                                                     *)
(***************************************************************************)
IsSize(s) == s \in (Nat \ {0}) \X (Nat \ {0})
IsPatch(x) ==
  IsSize(x.size) /\ x.owned \subseteq 0 .. Count(x.size) - 1 /\ x.match \in Nat
FromShape(x) == \E s \in Shapes : s.size = x.size /\ s.owned = x.owned
IsPlr(p, n) ==
  /\ p.level \in {0, 1} /\ IsMode(p.byPatch)
  /\ \A b \in 0 .. n - 1 : IsMode(p.byBlock[b])

\* A patch has blocks.
LEMMA CountType == ASSUME NEW s, IsSize(s) PROVE Count(s) \in Nat \ {0}
<1>1. s[1] \in Nat \ {0} /\ s[2] \in Nat \ {0}
  BY DEF IsSize
<1> QED
  BY <1>1 DEF Count

\* The threshold is a number, and below patchSize if there is one.
LEMMA ThresholdType ==
  ASSUME options.patchSize \in Nat
  PROVE  Threshold \in Nat /\ (options.patchSize # 0 => Threshold < options.patchSize)
<1>1. PICK n \in Nat : n = options.patchSize
  OBVIOUS
<1>2. ByteMod \in Nat \ {0}
  BY PointLocalAssumption
<1>3. Threshold = (n + ByteMod - 1) % ByteMod
  BY <1>1 DEF Threshold
<1>4. (n + ByteMod - 1) % ByteMod \in Nat
  BY <1>2
<1>5. ASSUME n # 0 PROVE (n + ByteMod - 1) % ByteMod < n
  <2>1. PICK k \in Nat : k = n - 1
    BY <1>5
  <2>2. n + ByteMod - 1 = k + ByteMod
    BY <1>2, <2>1
  <2>3. (k + ByteMod) % ByteMod <= k
    <3>1. PICK q \in Int : /\ k + ByteMod = ByteMod * q + ((k + ByteMod) % ByteMod)
                           /\ q = (k + ByteMod) \div ByteMod
      BY <1>2
    <3>2. q >= 1
      BY <1>2, <3>1
    <3>3. ByteMod * q >= ByteMod
      BY <1>2, <3>2
    <3>4. (k + ByteMod) % ByteMod \in Nat
      BY <1>2
    <3> DEFINE r == (k + ByteMod) % ByteMod
               x == ByteMod * q
    <3>5. x \in Int /\ r \in Nat /\ k + ByteMod = x + r /\ x >= ByteMod
      BY <1>2, <3>1, <3>3, <3>4
    <3> HIDE DEF r, x
    <3>6. r <= k
      BY <3>5, <1>2
    <3> QED
      BY <3>6 DEF r
  <2>4. (k + ByteMod) % ByteMod \in Nat
    BY <1>2
  <2> QED
    BY <2>1, <2>2, <2>3, <2>4
<1> QED
  BY <1>1, <1>3, <1>4, <1>5

\* The modes that are sent for a patch, and what is sent before them.
Sent(x, p) ==
  IF p.level = 1 THEN <<p.byPatch>>
  ELSE [i \in 1 .. Count(x.size) |-> IF i - 1 \in x.owned THEN p.byBlock[i - 1] ELSE 0]
Before(x, p) == IF Count(x.size) > Threshold + 1 THEN <<p.level>> ELSE <<>>

LEMMA SentType ==
  ASSUME NEW x, NEW p, IsPatch(x), IsPlr(p, Count(x.size))
  PROVE  /\ Sent(x, p) \in Seq(0 .. Modes - 1)
         /\ Len(Sent(x, p)) = IF p.level = 1 THEN 1 ELSE Count(x.size)
         /\ \A b \in x.owned : Sent(x, p)[IF p.level = 1 THEN 1 ELSE b + 1] = ModeOf(p, b)
<1> DEFINE n == Count(x.size)
<1>1. n \in Nat \ {0} /\ x.owned \subseteq 0 .. n - 1
  BY CountType DEF IsPatch
<1>2. p.level \in {0, 1} /\ IsMode(p.byPatch) /\ IsMode(0)
  BY PointLocalAssumption DEF IsPlr, IsMode
<1>3. CASE p.level = 1
  BY <1>2, <1>3 DEF Sent, IsMode, ModeOf
<1>4. CASE p.level # 1
  <2> DEFINE s == [i \in 1 .. n |-> IF i - 1 \in x.owned THEN p.byBlock[i - 1] ELSE 0]
  <2>1. Sent(x, p) = s
    BY <1>4 DEF Sent
  <2>2. \A b \in 0 .. n - 1 : IsMode(p.byBlock[b])
    BY DEF IsPlr
  <2> HIDE DEF n
  <2>3. s \in [1 .. n -> 0 .. Modes - 1]
    <3> SUFFICES ASSUME NEW i \in 1 .. n PROVE IsMode(s[i])
      BY DEF IsMode
    <3>1. i - 1 \in 0 .. n - 1
      BY <1>1
    <3> QED
      BY <3>1, <1>2, <2>2
  <2>4. \A b \in x.owned : s[b + 1] = p.byBlock[b]
    <3> TAKE b \in x.owned
    <3>1. b \in 0 .. n - 1
      BY <1>1
    <3>2. b + 1 \in 1 .. n /\ (b + 1) - 1 = b
      BY <1>1, <3>1
    <3> QED
      BY <3>2
  <2> HIDE DEF s
  <2>5. s \in Seq(0 .. Modes - 1) /\ Len(s) = n
    BY <1>1, <2>3, FunctionIsSeq
  <2> QED
    BY <1>4, <2>1, <2>4, <2>5 DEF ModeOf, n
<1> QED
  BY <1>3, <1>4

\* A list of one list is that list.
LEMMA FlattenOne == ASSUME NEW T, NEW s \in Seq(T) PROVE FlattenSeq(<<s>>) = s
<1> DEFINE none == <<>>
<1>1. none \in Seq(Seq(T)) /\ Len(none) = 0 /\ Append(none, s) = <<s>>
  OBVIOUS
<1>2. FlattenSeq(Append(none, s)) = FlattenSeq(none) \o s
  <2> HIDE DEF none
  <2> QED
    BY <1>1, FlattenAppend
<1>3. FlattenSeq(none) = none
  BY <1>1, FlattenIs
<1>4. none \o s = s
  OBVIOUS
<1> HIDE DEF none
<1> QED
  BY <1>1, <1>2, <1>3, <1>4

\* The bits of a unit are the codes of these modes.
LEMMA PlrBitsAre ==
  ASSUME NEW x, NEW p, IsPatch(x), IsPlr(p, Count(x.size))
  PROVE  PlrBits(x, p) = Before(x, p) \o FlattenSeq(Codes(Sent(x, p)))
<1>1. CASE p.level = 1
  <2>1. IsMode(p.byPatch)
    BY DEF IsPlr
  <2>2. Codes(<<p.byPatch>>) = <<ModeCode(p.byPatch)>>
    <3>1. Len(<<p.byPatch>>) = 1 /\ <<p.byPatch>>[1] = p.byPatch
      OBVIOUS
    <3> DEFINE one == <<p.byPatch>>
    <3> HIDE DEF one
    <3>2. Codes(one) = [i \in 1 .. 1 |-> ModeCode(one[i])]
      BY <3>1 DEF Codes, one
    <3> DEFINE c == ModeCode(p.byPatch)
    <3>3. \A i \in 1 .. 1 : ModeCode(one[i]) = c
      BY <3>1 DEF one
    <3> HIDE DEF c
    <3>4. Codes(one) = [i \in 1 .. 1 |-> c]
      BY <3>2, <3>3
    <3>5. [i \in 1 .. 1 |-> c] = <<c>>
      OBVIOUS
    <3> QED
      BY <3>4, <3>5 DEF one, c
  <2>3. FlattenSeq(<<ModeCode(p.byPatch)>>) = ModeCode(p.byPatch)
    BY <2>1, ModeCodeType, FlattenOne
  <2> QED
    BY <1>1, <2>2, <2>3 DEF PlrBits, Before, Sent
<1>2. CASE p.level # 1
  <2> DEFINE n == Count(x.size)
             sent == [i \in 1 .. n |-> IF i - 1 \in x.owned THEN p.byBlock[i - 1] ELSE 0]
  <2>1. Sent(x, p) = sent /\ Len(Sent(x, p)) = n
    BY <1>2, SentType DEF Sent
  <2>2. Codes(Sent(x, p)) = [i \in 1 .. n |-> ModeCode(sent[i])]
    <3> HIDE DEF n, sent
    <3> QED
      BY <2>1 DEF Codes
  <2>3. [i \in 1 .. n |-> ModeCode(sent[i])]
          = [i \in 1 .. n |-> ModeCode(IF i - 1 \in x.owned THEN p.byBlock[i - 1] ELSE 0)]
    <3> HIDE DEF n
    <3> QED
      BY Zenon
  <2> QED
    BY <1>2, <2>2, <2>3 DEF PlrBits, Before
<1> QED
  BY <1>1, <1>2

\* The modes a unit gives a patch are the ones chosen for it.
RightModes(x, p, u) ==
  IF u.level = 1 THEN \A b \in x.owned : u.modes[1] = ModeOf(p, b)
  ELSE u.level = 0 /\ \A b \in x.owned : u.modes[b + 1] = ModeOf(p, b)

\* Coded block by block without a level.
Unclear(x, p) == p.level = 0 /\ Count(x.size) \in 2 .. Threshold + 1

ReadRight(x, p, r) ==
  /\ r.map = x.size
  /\ r.at # Len(PlrBits(x, p)) <=> Unclear(x, p)
  /\ ~Unclear(x, p) => RightModes(x, p, r)

\* The data of a patch are read as they were written and take all the bits,
\* but for a patch coded block by block without a level, whose data end early.
LEMMA PlrReadBack ==
  ASSUME NEW x, NEW p, IsPatch(x), IsPlr(p, Count(x.size)), options.patchSize \in Nat
  PROVE  ReadRight(x, p, ReadPlr(PlrBits(x, p), x.size))
<1> DEFINE n == Count(x.size)
           pre == Before(x, p)
           modes == Sent(x, p)
           bits == PlrBits(x, p)
           r == ReadPlr(bits, x.size)
<1>1. n \in Nat \ {0} /\ Threshold \in Nat /\ p.level \in {0, 1}
  BY CountType, ThresholdType DEF IsPatch, IsPlr
<1>2. /\ modes \in Seq(0 .. Modes - 1) /\ Len(modes) = IF p.level = 1 THEN 1 ELSE n
      /\ \A b \in x.owned : modes[IF p.level = 1 THEN 1 ELSE b + 1] = ModeOf(p, b)
  BY SentType
<1>3. bits = pre \o FlattenSeq(Codes(modes))
  BY PlrBitsAre
<1>4. pre \in Seq({0, 1}) /\ Len(pre) = IF n > Threshold + 1 THEN 1 ELSE 0
  <2>1. CASE n > Threshold + 1
    <3>1. pre = <<p.level>>
      BY <2>1 DEF Before
    <3> QED
      BY <1>1, <2>1, <3>1
  <2>2. CASE ~(n > Threshold + 1)
    <3>1. pre = <<>>
      BY <2>2 DEF Before
    <3> HIDE DEF pre
    <3> QED
      BY <2>2, <3>1
  <2> QED
    BY <2>1, <2>2
<1>5. bits \in Seq({0, 1})
  <2> HIDE DEF pre, modes, bits
  <2> QED
    BY <1>2, <1>3, <1>4, CodesFollow
<1>6. PICK pos : /\ pos[0] = Len(pre) /\ pos[Len(modes)] = Len(bits)
                 /\ Follow(bits, modes, pos, Len(modes))
  <2> HIDE DEF pre, modes, bits
  <2> QED
    BY <1>2, <1>3, <1>4, CodesFollow
<1>7. x.owned \subseteq 0 .. n - 1
  BY DEF IsPatch
<1>8. Len(bits) \in Nat
  BY <1>5
<1>9. r.map = x.size
  BY DEF ReadPlr
<1> DEFINE start == IF n > Threshold + 1 THEN 1 ELSE 0
           level == IF start = 1 THEN Value(BitsAt(bits, 0, 1)) ELSE 1
           read == IF level = 1 THEN ReadModes(bits, start, 1)
                   ELSE ReadModes(bits, start, n)
<1>10. r = [at |-> read.at, map |-> x.size, level |-> level, modes |-> read.modes]
  BY DEF ReadPlr
<1>11. Unclear(x, p) <=> (p.level = 0 /\ n \in 2 .. Threshold + 1)
  BY DEF Unclear
<1> HIDE DEF modes, bits, r, n
<1>12. ReadModes(bits, pos[0], Len(modes)) = [at |-> Len(bits), modes |-> modes]
  <2>1. PICK m \in Nat : m = Len(modes)
    BY <1>1, <1>2
  <2> HIDE DEF read, level, start, pre
  <2>2. Follow(bits, modes, pos, m) /\ Len(modes) = m /\ modes \in Seq(0 .. Modes - 1)
    BY <1>2, <1>6, <2>1
  <2>3. ReadModes(bits, pos[0], m) = [at |-> pos[m], modes |-> modes]
    BY <1>5, <2>2, ReadAllModes, Zenon
  <2> QED
    BY <1>6, <2>1, <2>3
<1>13. pos[0] = start
  BY <1>4, <1>6
<1>14. CASE n > Threshold + 1
  <2>1. Len(pre) = 1 /\ pre[1] = p.level /\ start = 1
    BY <1>14 DEF Before, n
  <2>2. Len(bits) >= 1 /\ bits[1] = p.level
    <3>1. PICK codes \in Seq({0, 1}) : codes = FlattenSeq(Codes(modes))
      <4>1. <<>> \in Seq({0, 1})
        OBVIOUS
      <4>2. \A none \in Seq({0, 1}) : none \o FlattenSeq(Codes(modes)) \in Seq({0, 1})
        BY <1>2, CodesFollow
      <4>3. \A i \in 1 .. Len(modes) : ModeCode(modes[i]) \in Seq({0, 1})
        <5> TAKE i \in 1 .. Len(modes)
        <5>1. IsMode(modes[i])
          BY <1>2, ElementOfSeq DEF IsMode
        <5> QED
          BY <5>1, ModeCodeType
      <4>4. Codes(modes) \in Seq(Seq({0, 1}))
        <5>1. Codes(modes) \in [1 .. Len(modes) -> Seq({0, 1})] /\ Len(modes) \in Nat
          BY <1>2, <4>3 DEF Codes
        <5> QED
          BY <5>1, FunctionIsSeq
      <4> QED
        BY <4>4, FlattenType
    <3> HIDE DEF pre
    <3>2. bits = pre \o codes
      BY <1>3, <3>1
    <3>3. /\ Len(pre \o codes) = Len(pre) + Len(codes) /\ Len(codes) \in Nat
          /\ (pre \o codes)[1] = pre[1]
      <4>1. 1 \in 1 .. Len(pre)
        BY <2>1
      <4> QED
        BY <1>4, <4>1, ConcatProperties, LenProperties
    <3> QED
      BY <2>1, <3>2, <3>3
  <2>3. level = p.level
    <3>1. BitsAt(bits, 0, 1) = SubSeq(bits, 1, 1)
      BY <1>8, <2>2 DEF BitsAt
    <3>2. SubSeq(bits, 1, 1) = <<p.level>>
      <4>1. 1 \in 1 .. Len(bits)
        BY <1>8, <2>2
      <4> QED
        BY <1>5, <2>2, <4>1, OneOf
    <3> QED
      BY <1>1, <2>1, <3>1, <3>2, ValueOfBit
  <2>4. read = [at |-> Len(bits), modes |-> modes]
    BY <1>1, <1>2, <1>12, <1>13, <2>1, <2>3
  <2> HIDE DEF read, level
  <2>5. r.at = Len(bits) /\ r.level = p.level /\ r.modes = modes
    BY <1>10, <2>3, <2>4
  <2>6. ~Unclear(x, p)
    BY <1>1, <1>11, <1>14
  <2>7. RightModes(x, p, r)
    BY <1>1, <1>2, <2>5 DEF RightModes
  <2> QED
    BY <1>9, <2>5, <2>6, <2>7 DEF r, bits, ReadRight
<1>15. CASE ~(n > Threshold + 1)
  <2>1. start = 0 /\ level = 1 /\ read = ReadModes(bits, 0, 1)
    BY <1>15
  <2>2. CASE ~Unclear(x, p)
    <3>1. Len(modes) = 1 /\ (p.level = 1 \/ n = 1)
      BY <1>1, <1>2, <1>11, <1>15, <2>2
    <3>2. read = [at |-> Len(bits), modes |-> modes]
      BY <1>12, <1>13, <2>1, <3>1
    <3>3. \A b \in x.owned : modes[1] = ModeOf(p, b)
      <4> TAKE b \in x.owned
      <4>1. (IF p.level = 1 THEN 1 ELSE b + 1) = 1
        <5>1. CASE p.level = 1
          BY <5>1
        <5>2. CASE n = 1
          BY <1>7, <5>2
        <5> QED
          BY <3>1, <5>1, <5>2
      <4> QED
        BY <1>2, <4>1
    <3> HIDE DEF read, level
    <3>4. r.at = Len(bits) /\ r.level = 1 /\ r.modes = modes
      BY <1>10, <2>1, <3>2
    <3>5. RightModes(x, p, r)
      BY <3>3, <3>4 DEF RightModes
    <3> QED
      BY <1>9, <2>2, <3>4, <3>5 DEF r, bits, ReadRight
  <2>3. CASE Unclear(x, p)
    <3>1. Len(modes) = n /\ n >= 2
      BY <1>1, <1>2, <1>11, <2>3
    <3>2. Follow(bits, modes, pos, n)
      BY <1>6, <3>1
    <3> DEFINE first == SubSeq(modes, 1, 1)
    <3>3. first \in Seq(0 .. Modes - 1) /\ Len(first) = 1 /\ first[1] = modes[1]
      <4>1. PICK M : M = 0 .. Modes - 1
        OBVIOUS
      <4>2. modes \in Seq(M)
        BY <1>2, <4>1
      <4>3. first \in Seq(M) /\ Len(first) = 1 /\ first[1] = modes[1]
        BY <3>1, <4>2
      <4> QED
        BY <4>1, <4>3
    <3> HIDE DEF first
    <3>4. Follow(bits, first, pos, 1)
      <4>1. \A i \in 1 .. 1 : i \in 1 .. n /\ first[i] = modes[i]
        BY <3>1, <3>3
      <4> QED
        BY <3>2, <4>1 DEF Follow
    <3>5. ReadModes(bits, pos[0], 1) = [at |-> pos[1], modes |-> first]
      BY <1>5, <3>3, <3>4, ReadAllModes
    <3>6. /\ pos[1] \in Nat /\ pos[2] <= Len(bits)
          /\ pos[2] = pos[1] + Len(ModeCode(modes[2]))
      <4>1. 2 \in 1 .. n /\ 2 - 1 = 1
        BY <1>1, <3>1
      <4> QED
        BY <3>2, <4>1 DEF Follow
    <3>7. Len(ModeCode(modes[2])) \in Nat \ {0}
      <4>1. 2 \in 1 .. Len(modes)
        BY <1>1, <3>1
      <4>2. IsMode(modes[2])
        BY <1>2, <4>1, ElementOfSeq DEF IsMode
      <4> QED
        BY <4>2, ModeCodeType, ModeBitsFit
    <3>8. pos[1] # Len(bits)
      BY <1>8, <3>6, <3>7
    <3>9. read.at = pos[1]
      BY <1>13, <2>1, <3>5
    <3> HIDE DEF read, level
    <3>10. r.at # Len(bits)
      BY <1>10, <3>8, <3>9
    <3> QED
      BY <1>9, <2>3, <3>10 DEF r, bits, ReadRight
  <2> QED
    BY <2>2, <2>3
<1> QED
  BY <1>14, <1>15

-----------------------------------------------------------------------------
(***************************************************************************)
(* What the decoder makes of a unit.                                       *)
(***************************************************************************)
\* Row and column of a block give its number back.
LEMMA BlockPlace ==
  ASSUME NEW w \in Nat \ {0}, NEW h \in Nat \ {0}, NEW b \in 0 .. w * h - 1
  PROVE  b % w < w /\ b \div w < h /\ (b \div w) * w + (b % w) + 1 = b + 1
<1> DEFINE q == b \div w
           r == b % w
<1>1. b \in Nat /\ b < w * h
  OBVIOUS
<1>2. q \in Nat /\ r \in 0 .. w - 1 /\ b = w * q + r
  BY <1>1
<1> HIDE DEF q, r
<1>3. w * q = q * w
  BY <1>2
<1>4. q < h
  <2> SUFFICES ASSUME q >= h PROVE FALSE
    BY <1>2
  <2>1. w * q >= w * h
    BY <1>2
  <2> QED
    BY <1>1, <1>2, <2>1
<1>5. (q * w) + r + 1 = b + 1
  <2> DEFINE x == q * w
  <2>1. x \in Int /\ b = x + r
    BY <1>2, <1>3
  <2> HIDE DEF x
  <2>2. x + r + 1 = b + 1
    BY <1>2, <2>1
  <2> QED
    BY <2>2 DEF x
<1> QED
  BY <1>2, <1>4, <1>5 DEF q, r

\* Modes that were read into a map of the size of the patch are found again.
LEMMA DecodedRight ==
  ASSUME NEW x, NEW p, NEW u, IsPatch(x), u.map = x.size, RightModes(x, p, u)
  PROVE  /\ DecodedPatch(u, x.size).size = x.size
         /\ \A b \in x.owned : ModeOf(DecodedPatch(u, x.size), b) = ModeOf(p, b)
<1> DEFINE w == x.size[1]
           h == x.size[2]
           d == DecodedPatch(u, x.size)
<1>1. w \in Nat \ {0} /\ h \in Nat \ {0} /\ x.owned \subseteq 0 .. w * h - 1
  BY DEF IsPatch, IsSize, Count
<1>2. d.size = x.size /\ d.level = u.level /\ (u.level = 1 => d.byPatch = u.modes[1])
  BY DEF DecodedPatch
<1>3. ASSUME NEW b \in x.owned PROVE ModeOf(d, b) = ModeOf(p, b)
  <2>1. CASE u.level = 1
    <3>1. u.modes[1] = ModeOf(p, b)
      BY <2>1 DEF RightModes
    <3> HIDE DEF d
    <3>2. ModeOf(d, b) = d.byPatch
      BY <1>2, <2>1 DEF ModeOf
    <3> QED
      BY <1>2, <2>1, <3>1, <3>2
  <2>2. CASE u.level # 1
    <3>1. u.level = 0 /\ u.modes[b + 1] = ModeOf(p, b)
      BY <2>2 DEF RightModes
    <3>2. b \in 0 .. w * h - 1 /\ b \in 0 .. Count(x.size) - 1
      BY <1>1 DEF Count
    <3>3. b % w < w /\ b \div w < h /\ (b \div w) * w + (b % w) + 1 = b + 1
      BY <1>1, <3>2, BlockPlace
    <3>4. d.byBlock[b] = IF u.level = 0 /\ b % w < u.map[1] /\ b \div w < u.map[2]
                         THEN u.modes[(b \div w) * u.map[1] + (b % w) + 1] ELSE 0
      BY <3>2 DEF DecodedPatch
    <3>5. u.map[1] = w /\ u.map[2] = h
      OBVIOUS
    <3> HIDE DEF d, w, h
    <3>6. d.byBlock[b] = u.modes[b + 1]
      BY <3>1, <3>3, <3>4, <3>5
    <3>7. ModeOf(d, b) = d.byBlock[b]
      BY <1>2, <2>2 DEF ModeOf
    <3> QED
      BY <3>1, <3>6, <3>7
  <2> QED
    BY <2>1, <2>2
<1> QED
  BY <1>2, <1>3

\* A difference added to what it was taken to.
LEMMA PlusMinus ==
  ASSUME NEW s, IsSize(s), NEW t \in Nat \X Nat
  PROVE  Plus(t, Minus(s, t)) = s
<1>1. /\ s = <<s[1], s[2]>> /\ s[1] \in Nat /\ s[2] \in Nat
      /\ t[1] \in Nat /\ t[2] \in Nat
  BY DEF IsSize
<1>2. t[1] + (s[1] - t[1]) = s[1] /\ t[2] + (s[2] - t[2]) = s[2]
  BY <1>1
<1> QED
  BY <1>1, <1>2 DEF Plus, Minus

-----------------------------------------------------------------------------
(***************************************************************************)
(* The invariant.  What the encoder settles first, and how far the parser  *)
(* and the decoder have come in it.                                        *)
(***************************************************************************)
FrameBefore(f) == IF f = 1 THEN <<>> ELSE frames[f - 1]
FrameOK(f) ==
  /\ IsSeq(frames[f]) /\ Len(frames[f]) >= 1
  /\ \A j \in 1 .. Len(frames[f]) : IsPatch(frames[f][j]) /\ FromShape(frames[f][j])
  /\ Packed(frames[f], FrameBefore(f))
PlrOK(f, j) ==
  /\ IsPlr(plr[f][j], Count(SizeOf(f, j)))
  /\ Searched /\ plr[f][j].level = 0 => ~Whole(Count(SizeOf(f, j)))

Settled ==
  /\ options.patchSize \in Nat
  /\ IsSeq(frames) /\ Len(frames) <= Frames
  /\ \A f \in 1 .. Len(frames) : FrameOK(f)
  /\ IsSeq(plr) /\ Len(plr) <= Frames
  /\ Len(plr) > 0 => Len(frames) = Frames
  /\ \A f \in 1 .. Len(plr) : \A j \in 1 .. Len(frames[f]) : PlrOK(f, j)

\* A stream holds a unit for each patch, and nothing is read before there is one.
Written ==
  \/ /\ stream = <<>> /\ parsed = <<>> /\ decoded = <<>> /\ lost = FALSE
     /\ pred = 0 /\ prevSize = NoSize
  \/ /\ Len(plr) = Frames /\ Len(frames) = Frames /\ Len(parsed) >= 1
     /\ stream = [f \in 1 .. Frames |-> [j \in DOMAIN frames[f] |-> Unit(f, j)]]

\* The parser has the size of each patch right, of the modes those it has a
\* chance to; it gets out of step at the others.
UnitOK(f, j) ==
  LET u == parsed[f][j]
  IN  /\ u.inter = Inter(f, j) /\ u.idx = Index(f, j)
      /\ u.delta = Minus(SizeOf(f, j), Predicted(f, j))
      /\ u.map = SizeOf(f, j)
      /\ ~Ambiguous(f, j) => RightModes(frames[f][j], plr[f][j], u)

ParsedOK ==
  /\ IsSeq(parsed) /\ Len(parsed) <= Frames
  /\ \A f \in 1 .. Len(parsed) :
       /\ IsSeq(parsed[f]) /\ Len(parsed[f]) <= Len(frames[f])
       /\ f < Len(parsed) => Len(parsed[f]) = Len(frames[f])
       /\ \A j \in 1 .. Len(parsed[f]) : UnitOK(f, j)

LostOK ==
  /\ lost \in BOOLEAN
  /\ lost <=> \E f \in 1 .. Len(parsed) : \E j \in 1 .. Len(parsed[f]) : Ambiguous(f, j)

\* A predictor after n units of a frame.
PredictsAfter(f, n, match, size) ==
  /\ n = 0 => match = 0
  /\ n > 0 /\ Inter(f, n) => match = frames[f][n].match
  /\ size = IF n = 0 THEN NoSize ELSE SizeOf(f, n)

PredOK ==
  Len(parsed) > 0 => PredictsAfter(Current, Len(parsed[Current]), pred, prevSize)

PatchOK(f, j, d) ==
  /\ d.size = SizeOf(f, j)
  /\ \A b \in frames[f][j].owned : ModeOf(d, b) = ModeOf(plr[f][j], b)

DecodedOK ==
  /\ IsSeq(decoded) /\ Len(decoded) <= Frames
  /\ Len(decoded) > 0 => Len(parsed) = Frames /\ Len(parsed[Frames]) = Len(frames[Frames])
  /\ \A f \in 1 .. Len(decoded) :
       /\ IsSeq(decoded[f]) /\ Len(decoded[f]) = Len(frames[f])
       /\ \A j \in 1 .. Len(decoded[f]) : PatchOK(f, j, decoded[f][j])

InStep == Settled /\ Written /\ ParsedOK /\ LostOK /\ PredOK /\ DecodedOK

\* There are frames.
LEMMA FramesType == Frames \in Nat \ {0}
BY PointLocalAssumption DEF Frames

\* In the beginning there is nothing.
LEMMA InitInStep == Init => InStep
<1> SUFFICES ASSUME Init PROVE InStep
  OBVIOUS
<1>1. options.patchSize \in Nat
  BY PointLocalAssumption DEF Init
<1>2. /\ frames = <<>> /\ plr = <<>> /\ stream = <<>> /\ parsed = <<>>
      /\ decoded = <<>> /\ lost = FALSE /\ pred = 0 /\ prevSize = NoSize
  BY DEF Init
<1>3. Len(<<>>) = 0
  OBVIOUS
<1>4. Settled
  BY <1>1, <1>2, <1>3, FramesType, EmptyIsSeq DEF Settled
<1>5. Written /\ PredOK
  BY <1>2, <1>3 DEF Written, PredOK
<1>7. LostOK
  <2>1. ~\E f \in 1 .. Len(parsed) : \E j \in 1 .. Len(parsed[f]) : Ambiguous(f, j)
    <3>1. 1 .. Len(parsed) = {}
      BY <1>2, <1>3
    <3> QED
      BY <3>1
  <2> QED
    BY <1>2, <2>1 DEF LostOK
<1>6. ParsedOK /\ DecodedOK
  BY <1>2, <1>3, FramesType, EmptyIsSeq DEF ParsedOK, DecodedOK
<1> QED
  BY <1>4, <1>5, <1>6, <1>7 DEF InStep

\* What is settled stays.
LEMMA SettledStays ==
  ASSUME Settled, UNCHANGED <<options, frames, plr>> PROVE Settled'
BY DEF Settled, FrameOK, FrameBefore, Packed, PlrOK, SizeOf, Searched, Whole, Frames

\* Packing a frame leaves the earlier frames alone.
LEMMA PackKeeps == InStep /\ Pack => InStep'
<1> SUFFICES ASSUME InStep, Pack PROVE InStep'
  OBVIOUS
<1> DEFINE f == Len(frames) + 1
           before == IF f = 1 THEN <<>> ELSE frames[f - 1]
<1>1. PICK n \in 1 .. MaxPatches[f] : \E patches \in [1 .. n -> Patches(0 .. Len(before))] :
        Packed(patches, before) /\ frames' = Append(frames, patches)
  BY DEF Pack
<1>2. PICK patches \in [1 .. n -> Patches(0 .. Len(before))] :
        Packed(patches, before) /\ frames' = Append(frames, patches)
  BY <1>1
<1>3. /\ Settled /\ Written /\ Len(frames) < Frames
      /\ UNCHANGED <<options, plr, stream, parsed, pred, prevSize, decoded, lost>>
  BY DEF Pack, InStep
<1>4. IsSeq(frames) /\ Len(frames) \in Nat
  BY <1>3 DEF Settled, IsSeq
<1>5. Len(frames) # Frames /\ Frames \in Nat \ {0}
  BY <1>3, <1>4, FramesType
<1>6. /\ plr = <<>> /\ stream = <<>> /\ parsed = <<>> /\ decoded = <<>> /\ lost = FALSE
      /\ pred = 0 /\ prevSize = NoSize
  <2>1. Len(plr) = 0 /\ IsSeq(plr)
    BY <1>3, <1>5 DEF Settled, IsSeq
  <2>2. plr = <<>>
    BY <2>1 DEF IsSeq
  <2>3. ~(Len(frames) = Frames)
    BY <1>5
  <2> QED
    BY <1>3, <2>2, <2>3 DEF Written
<1>7. /\ IsSeq(frames') /\ Len(frames') = Len(frames) + 1
      /\ \A i \in 1 .. Len(frames) : frames'[i] = frames[i]
      /\ frames'[Len(frames) + 1] = patches
  BY <1>2, <1>4, AppendIs
<1>8. Len(before) \in Nat
  <2>1. CASE f = 1
    BY <2>1
  <2>2. CASE f # 1
    <3>1. f - 1 \in 1 .. Len(frames) /\ before = frames[f - 1]
      BY <1>4, <2>2
    <3> HIDE DEF f, before
    <3> QED
      BY <1>3, <3>1 DEF Settled, FrameOK, IsSeq
  <2> QED
    BY <2>1, <2>2
<1>9. ASSUME NEW j \in 1 .. n PROVE IsPatch(patches[j]) /\ FromShape(patches[j])
  <2>1. patches[j] \in Patches(0 .. Len(before))
    BY <1>2
  <2> HIDE DEF before, f
  <2>2. PICK s \in Shapes, m \in 0 .. Len(before) :
          patches[j] = [size |-> s.size, owned |-> s.owned, match |-> m]
    BY <2>1 DEF Patches
  <2>3. s.size \in (Nat \ {0}) \X (Nat \ {0}) /\ s.owned \subseteq 0 .. s.size[1] * s.size[2] - 1
    BY PointLocalAssumption
  <2>4. /\ patches[j].size = s.size /\ patches[j].owned = s.owned
        /\ patches[j].match = m /\ m \in Nat
    BY <1>8, <2>2
  <2> QED
    BY <2>3, <2>4 DEF IsPatch, IsSize, Count, FromShape
<1>10. n \in Nat /\ n >= 1 /\ IsSeq(patches) /\ Len(patches) = n
  <2>1. n \in Nat /\ n >= 1
    <3>1. f \in 1 .. Len(MaxPatches)
      BY <1>3, <1>4, <1>5 DEF Frames
    <3> HIDE DEF f
    <3>2. MaxPatches[f] \in Nat
      BY <3>1, PointLocalAssumption, ElementOfSeq
    <3> QED
      BY <3>2
  <2> DEFINE P == Patches(0 .. Len(before))
  <2>2. patches \in [1 .. n -> P]
    BY <1>2
  <2> HIDE DEF P
  <2>3. patches \in Seq(P) /\ Len(patches) = n
    BY <2>1, <2>2, FunctionIsSeq
  <2>4. IsSeq(patches)
    BY <2>1, <2>2, <2>3 DEF IsSeq
  <2> QED
    BY <2>1, <2>3, <2>4
<1>11. ASSUME NEW g \in 1 .. Len(frames') PROVE FrameOK(g)'
  <2>1. CASE g # f
    <3>1. g \in 1 .. Len(frames) /\ (g # 1 => g - 1 \in 1 .. Len(frames))
      BY <1>4, <1>7, <2>1
    <3>2. frames'[g] = frames[g] /\ FrameBefore(g)' = FrameBefore(g)
      BY <1>7, <3>1 DEF FrameBefore
    <3>3. FrameOK(g)
      BY <1>3, <3>1 DEF Settled
    <3> QED
      BY <3>2, <3>3 DEF FrameOK
  <2>2. CASE g = f
    <3>1. frames'[g] = patches /\ FrameBefore(g)' = before
      <4>1. f # 1 => f - 1 \in 1 .. Len(frames)
        BY <1>4
      <4> QED
        BY <1>7, <2>2, <4>1 DEF FrameBefore
    <3> HIDE DEF before, f
    <3> QED
      BY <1>2, <1>9, <1>10, <3>1 DEF FrameOK
  <2> QED
    BY <2>1, <2>2
<1>12. Settled'
  <2>1. Len(plr') = 0 /\ IsSeq(plr')
    BY <1>3, <1>6, EmptyIsSeq
  <2>2. Len(frames') <= Frames' /\ Frames' = Frames
    BY <1>4, <1>5, <1>7, <1>3 DEF Frames
  <2>3. options'.patchSize \in Nat
    BY <1>3 DEF Settled
  <2> QED
    BY <1>5, <1>7, <1>11, <2>1, <2>2, <2>3 DEF Settled
<1>13. Len(<<>>) = 0
  OBVIOUS
<1>14. Frames' = Frames
  BY DEF Frames
<1> QED
  BY <1>3, <1>6, <1>12, <1>13, <1>14, FramesType, EmptyIsSeq
     DEF InStep, Written, ParsedOK, LostOK, PredOK, DecodedOK

\* The searched modes fit, and only large patches are searched block by block.
LEMMA FoundType ==
  ASSUME NEW x, NEW best \in Outcomes, IsPatch(x), FromShape(x)
  PROVE  /\ IsPlr(Found(x, best), Count(x.size))
         /\ Found(x, best).level = 0 => ~Whole(Count(x.size))
<1> DEFINE n == Count(x.size)
<1>1. PICK s \in Shapes : s.size = x.size /\ s.owned = x.owned
  BY DEF FromShape
<1>2. \A b \in 0 .. n - 1 : IsMode(best[b])
  BY <1>1, PointLocalAssumption DEF IsMode, Count
<1>3. n \in Nat \ {0} /\ IsMode(0)
  BY CountType, PointLocalAssumption DEF IsPatch, IsMode
<1> HIDE DEF n
<1>4. /\ Allocated(n).level = 0 /\ Allocated(n).byPatch = 0
      /\ Allocated(n).byBlock = [b \in 0 .. n - 1 |-> 0]
  BY DEF Allocated
<1>5. CASE Whole(n)
  <2>1. Found(x, best) = [level |-> 1, byPatch |-> best[0], byBlock |-> [b \in 0 .. n - 1 |-> 0]]
    BY <1>5 DEF Found, n, Allocated
  <2>2. IsMode(best[0])
    BY <1>2, <1>3
  <2> QED
    BY <1>3, <2>1, <2>2 DEF IsPlr, n
<1>6. CASE ~Whole(n)
  <2>1. Found(x, best) = [level |-> 0, byPatch |-> 0,
                          byBlock |-> [b \in 0 .. n - 1 |->
                                         IF b \in x.owned THEN best[b] ELSE 0]]
    BY <1>6 DEF Found, n, Allocated
  <2> QED
    BY <1>2, <1>3, <1>6, <2>1 DEF IsPlr, n
<1> QED
  BY <1>5, <1>6

\* A frame that is searched, or not, has its modes.
LEMMA SearchKeeps == InStep /\ Search => InStep'
<1> SUFFICES ASSUME InStep, Search PROVE InStep'
  OBVIOUS
<1> DEFINE f == Len(plr) + 1
           patches == frames[f]
<1>1. /\ Settled /\ Written /\ Len(frames) = Frames /\ Len(plr) < Frames
      /\ UNCHANGED <<options, frames, stream, parsed, pred, prevSize, decoded, lost>>
  BY DEF Search, InStep
<1>2. IsSeq(plr) /\ Len(plr) \in Nat /\ f \in 1 .. Len(frames) /\ Frames \in Nat
  BY <1>1, FramesType DEF Settled, IsSeq
<1>3. /\ stream = <<>> /\ parsed = <<>> /\ decoded = <<>> /\ lost = FALSE
      /\ pred = 0 /\ prevSize = NoSize
  <2>1. ~(Len(plr) = Frames)
    BY <1>1, <1>2
  <2> QED
    BY <1>1, <2>1 DEF Written
<1>4. /\ IsSeq(patches)
      /\ \A j \in 1 .. Len(patches) : IsPatch(patches[j]) /\ FromShape(patches[j])
  BY <1>1, <1>2 DEF Settled, FrameOK
<1>5. DOMAIN patches = 1 .. Len(patches)
  BY <1>4 DEF IsSeq
<1>6. PICK found : /\ plr' = Append(plr, found)
                   /\ \A j \in 1 .. Len(patches) :
                        /\ IsPlr(found[j], Count(patches[j].size))
                        /\ Searched /\ found[j].level = 0 => ~Whole(Count(patches[j].size))
  <2> HIDE DEF f, patches
  <2>1. CASE Searched
    <3>1. PICK best \in [DOMAIN patches -> Outcomes] :
            plr' = Append(plr, [j \in DOMAIN patches |-> Found(patches[j], best[j])])
      BY <2>1 DEF Search, patches, f
    <3> DEFINE found == [j \in DOMAIN patches |-> Found(patches[j], best[j])]
    <3>2. ASSUME NEW j \in 1 .. Len(patches)
          PROVE  /\ IsPlr(found[j], Count(patches[j].size))
                 /\ found[j].level = 0 => ~Whole(Count(patches[j].size))
      <4>1. best[j] \in Outcomes /\ found[j] = Found(patches[j], best[j])
        BY <1>5
      <4> HIDE DEF found
      <4> QED
        BY <1>4, <4>1, FoundType
    <3> HIDE DEF found
    <3> QED
      BY <3>1, <3>2 DEF found
  <2>2. CASE ~Searched
    <3> DEFINE found == [j \in DOMAIN patches |-> Allocated(Count(patches[j].size))]
    <3>1. plr' = Append(plr, found)
      BY <2>2 DEF Search, patches, f
    <3>2. ASSUME NEW j \in 1 .. Len(patches) PROVE IsPlr(found[j], Count(patches[j].size))
      <4>1. found[j] = Allocated(Count(patches[j].size))
        BY <1>5
      <4> HIDE DEF found
      <4> QED
        BY <4>1, PointLocalAssumption DEF Allocated, IsPlr, IsMode
    <3> HIDE DEF found
    <3> QED
      BY <2>2, <3>1, <3>2
  <2> QED
    BY <2>1, <2>2
<1>7. /\ IsSeq(plr') /\ Len(plr') = Len(plr) + 1
      /\ \A i \in 1 .. Len(plr) : plr'[i] = plr[i]
      /\ plr'[Len(plr) + 1] = found
  BY <1>2, <1>6, AppendIs
<1>8. /\ frames' = frames /\ options' = options /\ Frames' = Frames
      /\ (Searched <=> Searched')
  BY <1>1 DEF Frames, Searched
<1>9. ASSUME NEW g \in 1 .. Len(plr'), NEW j \in 1 .. Len(frames[g]) PROVE PlrOK(g, j)'
  <2>1. CASE g # f
    <3>1. g \in 1 .. Len(plr)
      BY <1>2, <1>7, <2>1
    <3>2. PlrOK(g, j)
      BY <1>1, <3>1 DEF Settled
    <3>3. plr'[g] = plr[g]
      BY <1>7, <3>1
    <3> QED
      BY <1>8, <3>2, <3>3 DEF PlrOK, SizeOf, Whole
  <2>2. CASE g = f
    <3>1. plr'[g] = found /\ frames[g] = patches /\ SizeOf(g, j) = patches[j].size
      BY <1>7, <2>2 DEF SizeOf
    <3>2. /\ IsPlr(found[j], Count(patches[j].size))
          /\ Searched /\ found[j].level = 0 => ~Whole(Count(patches[j].size))
      BY <1>6, <3>1
    <3> HIDE DEF patches, f
    <3> QED
      BY <1>8, <3>1, <3>2 DEF PlrOK, SizeOf, Whole
  <2> QED
    BY <2>1, <2>2
<1>10. \A g \in 1 .. Len(frames) : FrameOK(g)'
  BY <1>1, <1>8 DEF Settled, FrameOK, FrameBefore
<1>11. Settled'
  <2>1. /\ options.patchSize \in Nat /\ IsSeq(frames) /\ Len(frames) <= Frames
    BY <1>1 DEF Settled
  <2>2. Len(plr') <= Frames
    BY <1>1, <1>2, <1>7
  <2> QED
    BY <1>1, <1>7, <1>8, <1>9, <1>10, <2>1, <2>2 DEF Settled
<1>12. Len(<<>>) = 0
  OBVIOUS
<1>13. Written' /\ PredOK'
  BY <1>1, <1>3, <1>12 DEF Written, PredOK
<1>14. ParsedOK' /\ DecodedOK'
  BY <1>1, <1>2, <1>3, <1>8, <1>12, EmptyIsSeq DEF ParsedOK, DecodedOK
<1>15. LostOK'
  <2>1. 1 .. Len(parsed') = {} /\ lost' = FALSE
    BY <1>1, <1>3, <1>12
  <2>2. ~\E g \in 1 .. Len(parsed') : \E j \in 1 .. Len(parsed'[g]) : Ambiguous(g, j)'
    BY <2>1
  <2> QED
    BY <2>1, <2>2 DEF LostOK
<1> QED
  BY <1>11, <1>13, <1>14, <1>15 DEF InStep

\* Writing starts the parser at the first frame.
LEMMA WriteKeeps == InStep /\ Write => InStep'
<1> SUFFICES ASSUME InStep, Write PROVE InStep'
  OBVIOUS
<1>1. /\ Settled /\ Written /\ Len(plr) = Frames /\ stream = <<>>
      /\ stream' = [f \in 1 .. Frames |-> [j \in DOMAIN frames[f] |-> Unit(f, j)]]
      /\ parsed' = << <<>> >>
      /\ UNCHANGED <<options, frames, plr, pred, prevSize, decoded, lost>>
  BY DEF Write, InStep
<1>2. Frames \in Nat \ {0} /\ Frames' = Frames
  BY <1>1, FramesType DEF Frames
<1>3. Len(frames) = Frames
  BY <1>1, <1>2 DEF Settled
<1>4. parsed = <<>> /\ decoded = <<>> /\ lost = FALSE /\ pred = 0 /\ prevSize = NoSize
  <2> SUFFICES ASSUME stream = [f \in 1 .. Frames |-> [j \in DOMAIN frames[f] |-> Unit(f, j)]]
               PROVE  FALSE
    BY <1>1 DEF Written
  <2>1. 1 \in DOMAIN stream /\ DOMAIN <<>> = {}
    BY <1>2
  <2> QED
    BY <1>1, <2>1
<1>5. Settled'
  BY <1>1, SettledStays
<1>6. Len(parsed') = 1 /\ parsed'[1] = <<>> /\ IsSeq(parsed') /\ Len(<<>>) = 0
  <2>1. Append(<<>>, <<>>) = << <<>> >> /\ Len(<<>>) = 0
    OBVIOUS
  <2>2. \A none : none = <<>> => /\ IsSeq(Append(none, <<>>)) /\ Len(Append(none, <<>>)) = Len(none) + 1
                                /\ Append(none, <<>>)[Len(none) + 1] = <<>>
    BY EmptyIsSeq, AppendIs
  <2> QED
    BY <1>1, <2>1, <2>2
<1>7. Written'
  <2>1. \A f \in 1 .. Frames : \A j \in DOMAIN frames[f] : Unit(f, j) = Unit(f, j)'
    BY <1>1 DEF Unit, Inter, Index, SizeOf, Predicted, PlrBits, Threshold
  <2>2. stream' = [f \in 1 .. Frames |-> [j \in DOMAIN frames[f] |-> Unit(f, j)']]
    BY <1>1, <2>1
  <2> QED
    BY <1>1, <1>2, <1>3, <1>6, <2>2 DEF Written
<1>8. PredOK'
  BY <1>1, <1>4, <1>6 DEF PredOK, PredictsAfter, Current
<1>9. ParsedOK'
  <2>1. FrameOK(1) /\ Len(frames[1]) \in Nat
    <3>1. 1 \in 1 .. Len(frames)
      BY <1>2, <1>3
    <3>2. FrameOK(1)
      BY <1>1, <3>1 DEF Settled
    <3> QED
      BY <3>2 DEF FrameOK, IsSeq
  <2> QED
    BY <1>1, <1>2, <1>6, <2>1, EmptyIsSeq DEF ParsedOK, FrameOK
<1>10. DecodedOK'
  BY <1>1, <1>2, <1>4, <1>6, EmptyIsSeq DEF DecodedOK
<1>11. LostOK'
  <2>1. ~\E f \in 1 .. 1 : \E j \in 1 .. Len(parsed'[f]) : Ambiguous(f, j)'
    BY <1>6
  <2> QED
    BY <1>1, <1>4, <1>6, <2>1 DEF LostOK
<1> QED
  BY <1>5, <1>7, <1>8, <1>9, <1>10, <1>11 DEF InStep

-----------------------------------------------------------------------------
(***************************************************************************)
(* The predictors, of the parser and of the decoder.                       *)
(***************************************************************************)
\* A matched patch follows matched patches and its match is a patch of the
\* frame before, further on than theirs.
LEMMA MatchesOnward ==
  ASSUME Settled, NEW f \in 1 .. Len(frames), NEW j \in 1 .. Len(frames[f]), Inter(f, j)
  PROVE  /\ f # 1 /\ f - 1 \in 1 .. Len(frames)
         /\ frames[f][j].match \in 1 .. Len(frames[f - 1])
         /\ j > 1 => /\ Inter(f, j - 1)
                     /\ frames[f][j - 1].match \in 1 .. frames[f][j].match - 1
<1>1. Len(frames) \in Nat /\ FrameOK(f)
  BY DEF Settled, IsSeq
<1>2. /\ IsSeq(frames[f]) /\ Packed(frames[f], FrameBefore(f)) /\ Len(frames[f]) \in Nat
  BY <1>1 DEF FrameOK, IsSeq
<1>3. DOMAIN frames[f] = 1 .. Len(frames[f])
  BY <1>2 DEF IsSeq
<1>4. /\ frames[f][j].match \in 0 .. Len(FrameBefore(f)) /\ frames[f][j].match # 0
      /\ frames[f][1].match # 0
  BY <1>2, <1>3 DEF Packed, Inter, NoMatch
<1>5. f # 1
  <2> SUFFICES ASSUME f = 1 PROVE FALSE
    OBVIOUS
  <2>1. Len(FrameBefore(f)) = 0
    BY DEF FrameBefore
  <2> QED
    BY <1>4, <2>1
<1>6. FrameBefore(f) = frames[f - 1] /\ f - 1 \in 1 .. Len(frames)
  BY <1>1, <1>5 DEF FrameBefore
<1>7. Len(frames[f - 1]) \in Nat
  BY <1>6 DEF Settled, FrameOK, IsSeq
<1>8. frames[f][j].match \in 1 .. Len(frames[f - 1])
  BY <1>4, <1>6, <1>7
<1>9. ASSUME j > 1
      PROVE  Inter(f, j - 1) /\ frames[f][j - 1].match \in 1 .. frames[f][j].match - 1
  <2>1. j - 1 \in DOMAIN frames[f] /\ j \in DOMAIN frames[f] /\ j - 1 < j
    BY <1>2, <1>3, <1>9
  <2>2. frames[f][j - 1].match \in 1 .. frames[f][j].match - 1
    BY <1>2, <1>4, <2>1 DEF Packed, NoMatch
  <2>3. frames[f][j - 1].match # 0
    BY <2>2
  <2> QED
    BY <1>4, <2>2, <2>3 DEF Inter, NoMatch
<1> QED
  BY <1>5, <1>6, <1>8, <1>9

\* The index of an inter patch leads on to its match, from the match before it.
LEMMA MatchReached ==
  ASSUME Settled, NEW f \in 1 .. Len(frames), NEW j \in 1 .. Len(frames[f]), Inter(f, j),
         NEW match, NEW size, PredictsAfter(f, j - 1, match, size)
  PROVE  Index(f, j) + match + 1 = frames[f][j].match
<1>1. /\ frames[f][j].match \in Nat /\ j \in Nat
      /\ j > 1 => Inter(f, j - 1) /\ frames[f][j - 1].match \in Nat
  BY MatchesOnward
<1>2. CASE j = 1
  <2>1. match = 0
    BY <1>2 DEF PredictsAfter
  <2>2. Index(f, j) = frames[f][j].match - 1
    BY <1>2 DEF Index
  <2> QED
    BY <1>1, <2>1, <2>2
<1>3. CASE j > 1
  <2>1. match = frames[f][j - 1].match
    BY <1>1, <1>3 DEF PredictsAfter
  <2>2. Index(f, j) = frames[f][j].match - frames[f][j - 1].match - 1
    BY <1>1, <1>3 DEF Index
  <2> QED
    BY <1>1, <1>3, <2>1, <2>2
<1> QED
  BY <1>1, <1>2, <1>3

\* What the size of a patch is predicted from.
LEMMA PredictedType ==
  ASSUME Settled, NEW f \in 1 .. Len(frames), NEW j \in 1 .. Len(frames[f])
  PROVE  Predicted(f, j) \in Nat \X Nat /\ IsSize(SizeOf(f, j)) /\ IsPatch(frames[f][j])
<1>1. \A g \in 1 .. Len(frames) : \A k \in 1 .. Len(frames[g]) :
        IsPatch(frames[g][k]) /\ IsSize(SizeOf(g, k)) /\ SizeOf(g, k) \in Nat \X Nat
  BY DEF Settled, FrameOK, IsPatch, IsSize, SizeOf
<1>2. CASE Inter(f, j)
  <2>1. f - 1 \in 1 .. Len(frames) /\ frames[f][j].match \in 1 .. Len(frames[f - 1])
    BY <1>2, MatchesOnward
  <2> QED
    BY <1>1, <1>2, <2>1 DEF Predicted
<1>3. CASE ~Inter(f, j) /\ j = 1
  BY <1>1, <1>3 DEF Predicted, NoSize
<1>4. CASE ~Inter(f, j) /\ j # 1
  <2>1. j - 1 \in 1 .. Len(frames[f])
    <3>1. Len(frames[f]) \in Nat
      BY DEF Settled, FrameOK, IsSeq
    <3> QED
      BY <1>4, <3>1
  <2> QED
    BY <1>1, <1>4, <2>1 DEF Predicted
<1> QED
  BY <1>2, <1>3, <1>4

-----------------------------------------------------------------------------
(***************************************************************************)
(* The steps of the parser.                                                *)
(***************************************************************************)
\* What the parser finds.
LEMMA UnitsWritten ==
  ASSUME InStep, parsed # <<>>
  PROVE  /\ Len(plr) = Frames /\ Len(frames) = Frames /\ Len(parsed) \in 1 .. Frames
         /\ \A f \in 1 .. Frames : /\ Len(frames[f]) \in Nat /\ Len(stream[f]) = Len(frames[f])
                                 /\ \A j \in 1 .. Len(frames[f]) : stream[f][j] = Unit(f, j)
<1>1. /\ Len(plr) = Frames /\ Len(frames) = Frames /\ Len(parsed) >= 1
      /\ stream = [f \in 1 .. Frames |-> [j \in DOMAIN frames[f] |-> Unit(f, j)]]
  BY DEF InStep, Written
<1>2. Len(parsed) \in 1 .. Frames
  BY <1>1, FramesType DEF InStep, ParsedOK, IsSeq
<1>3. ASSUME NEW f \in 1 .. Frames
      PROVE  /\ Len(frames[f]) \in Nat /\ Len(stream[f]) = Len(frames[f])
             /\ \A j \in 1 .. Len(frames[f]) : stream[f][j] = Unit(f, j)
  <2>1. IsSeq(frames[f])
    BY <1>1 DEF InStep, Settled, FrameOK
  <2>2. DOMAIN frames[f] = 1 .. Len(frames[f]) /\ Len(frames[f]) \in Nat
    BY <2>1 DEF IsSeq
  <2>3. stream[f] = [j \in 1 .. Len(frames[f]) |-> Unit(f, j)]
    BY <1>1, <2>2
  <2> DEFINE units == [j \in 1 .. Len(frames[f]) |-> Unit(f, j)]
             T == {Unit(f, j) : j \in 1 .. Len(frames[f])}
  <2>4. units \in [1 .. Len(frames[f]) -> T]
    OBVIOUS
  <2>5. \A j \in 1 .. Len(frames[f]) : units[j] = Unit(f, j)
    OBVIOUS
  <2> HIDE DEF units, T
  <2>6. Len(units) = Len(frames[f])
    BY <2>2, <2>4, FunctionIsSeq
  <2> QED
    BY <2>2, <2>3, <2>5, <2>6 DEF units
<1> QED
  BY <1>1, <1>2, <1>3

\* Once something is rebuilt, the parser is at the end.
LEMMA NotYetDecoded ==
  ASSUME InStep, parsed # <<>>, Len(parsed[Current]) < Len(frames[Current]) \/ Current < Frames
  PROVE  decoded = <<>>
<1>1. IsSeq(decoded) /\ Len(decoded) \in Nat
  BY DEF InStep, DecodedOK, IsSeq
<1>2. Len(decoded) > 0 => Len(parsed) = Frames /\ Len(parsed[Frames]) = Len(frames[Frames])
  BY DEF InStep, DecodedOK
<1>3. Len(parsed) \in Nat /\ Frames \in Nat
  BY FramesType DEF InStep, ParsedOK, IsSeq
<1>4. Len(frames[Current]) \in Nat /\ Current \in 1 .. Frames
  BY UnitsWritten DEF Current
<1>5. ~(Len(decoded) > 0)
  BY <1>2, <1>3, <1>4 DEF Current
<1>6. Len(decoded) = 0
  BY <1>1, <1>5
<1> QED
  BY <1>1, <1>6 DEF IsSeq

\* What the encoder derives from what is settled stays with it.
LEMMA PartsStay ==
  ASSUME UNCHANGED <<options, frames, plr>>
  PROVE  \A g, k : /\ Inter(g, k)' = Inter(g, k) /\ Index(g, k)' = Index(g, k)
                   /\ SizeOf(g, k)' = SizeOf(g, k) /\ Predicted(g, k)' = Predicted(g, k)
                   /\ Ambiguous(g, k)' = Ambiguous(g, k) /\ Unit(g, k)' = Unit(g, k)
<1> TAKE g, k
<1>1. Inter(g, k)' = Inter(g, k) /\ SizeOf(g, k)' = SizeOf(g, k)
  BY DEF Inter, SizeOf
<1>2. Index(g, k)' = Index(g, k)
  BY <1>1 DEF Index
<1>3. Predicted(g, k)' = Predicted(g, k)
  BY <1>1 DEF Predicted, SizeOf
<1>4. Ambiguous(g, k)' = Ambiguous(g, k)
  BY DEF Ambiguous, Threshold, SizeOf
<1>5. PlrBits(frames[g][k], plr[g][k])' = PlrBits(frames[g][k], plr[g][k])
  BY DEF PlrBits, Threshold
<1>6. Unit(g, k)' = Unit(g, k)
  BY <1>1, <1>2, <1>3, <1>5 DEF Unit
<1> QED
  BY <1>1, <1>2, <1>3, <1>4, <1>6

\* A unit read with the right size, and a match reached if there is one.
LEMMA ParseKeeps ==
  ASSUME InStep, Parsing, NEW f, f = Current, NEW j, j = Len(parsed[f]) + 1,
         Parse(Unit(f, j), SizeOf(f, j)), Inter(f, j) => pred' = frames[f][j].match,
         UNCHANGED <<options, frames, plr, stream, decoded>>
  PROVE  InStep'
<1> DEFINE u == Unit(f, j)
           read == ReadPlr(u.bits, SizeOf(f, j))
           new == [inter |-> u.inter, idx |-> u.idx, delta |-> u.delta, map |-> read.map,
                   level |-> read.level, modes |-> read.modes]
           x == frames[f][j]
           p == plr[f][j]
<1>1. /\ Len(plr) = Frames /\ Len(frames) = Frames /\ f \in 1 .. Frames /\ f = Len(parsed)
      /\ Len(frames[f]) \in Nat /\ Len(stream[f]) = Len(frames[f])
  BY UnitsWritten DEF Parsing, Current
<1>2. IsSeq(parsed) /\ IsSeq(parsed[f]) /\ Len(parsed[f]) \in Nat /\ f \in 1 .. Len(parsed)
  BY <1>1 DEF InStep, ParsedOK, IsSeq
<1>3. j \in 1 .. Len(frames[f]) /\ j - 1 = Len(parsed[f])
  BY <1>1, <1>2 DEF Parsing
<1>4. /\ lost' = (read.at # Len(u.bits))
      /\ parsed' = [parsed EXCEPT ![f] = Append(parsed[f], new)]
      /\ prevSize' = SizeOf(f, j)
  BY DEF Parse
<1>5. /\ u.inter = Inter(f, j) /\ u.idx = Index(f, j)
      /\ u.delta = Minus(SizeOf(f, j), Predicted(f, j)) /\ u.bits = PlrBits(x, p)
  BY DEF Unit
<1>6. IsPatch(x) /\ IsPlr(p, Count(x.size)) /\ SizeOf(f, j) = x.size /\ options.patchSize \in Nat
  <2>1. IsPatch(x)
    BY <1>1, <1>3, PredictedType DEF InStep
  <2>2. PlrOK(f, j)
    BY <1>1, <1>3 DEF InStep, Settled
  <2> QED
    BY <2>1, <2>2 DEF PlrOK, SizeOf, InStep, Settled
<1>7. Ambiguous(f, j) <=> Unclear(x, p)
  BY DEF Ambiguous, Unclear, SizeOf
<1> HIDE DEF x, p, u
<1>8. ReadRight(x, p, read)
  BY <1>5, <1>6, PlrReadBack
<1> HIDE DEF read
<1>9. /\ read.map = SizeOf(f, j) /\ (lost' <=> Ambiguous(f, j))
      /\ ~Ambiguous(f, j) => RightModes(x, p, read)
  BY <1>4, <1>5, <1>6, <1>7, <1>8 DEF ReadRight
<1>10. /\ new.inter = Inter(f, j) /\ new.idx = Index(f, j)
       /\ new.delta = Minus(SizeOf(f, j), Predicted(f, j)) /\ new.map = SizeOf(f, j)
       /\ new.level = read.level /\ new.modes = read.modes
  BY <1>5, <1>9
<1> HIDE DEF new
<1>11. ~Ambiguous(f, j) => RightModes(x, p, new)
  BY <1>9, <1>10 DEF RightModes
<1> DEFINE units == Append(parsed[f], new)
<1>12. /\ IsSeq(units) /\ Len(units) = j /\ units[j] = new
       /\ \A k \in 1 .. j - 1 : units[k] = parsed[f][k]
  BY <1>2, <1>3, AppendIs
<1> HIDE DEF units
<1>13. /\ IsSeq(parsed') /\ Len(parsed') = Len(parsed) /\ parsed'[f] = units
       /\ \A g \in 1 .. Len(parsed) : g # f => parsed'[g] = parsed[g]
  <2>1. PICK t : t = units
    OBVIOUS
  <2>2. parsed' = [parsed EXCEPT ![f] = t]
    BY <1>4, <2>1 DEF units
  <2>3. /\ IsSeq([parsed EXCEPT ![f] = t]) /\ Len([parsed EXCEPT ![f] = t]) = Len(parsed)
        /\ [parsed EXCEPT ![f] = t][f] = t
        /\ \A g \in 1 .. Len(parsed) : g # f => [parsed EXCEPT ![f] = t][g] = parsed[g]
    BY <1>2, ReplaceIs
  <2> QED
    BY <2>1, <2>2, <2>3
<1>14. /\ frames' = frames /\ plr' = plr /\ options' = options /\ stream' = stream
       /\ decoded' = decoded /\ Frames' = Frames
  BY DEF Frames
<1>15. \A g, k : /\ Inter(g, k)' = Inter(g, k) /\ Index(g, k)' = Index(g, k)
                 /\ SizeOf(g, k)' = SizeOf(g, k) /\ Predicted(g, k)' = Predicted(g, k)
                 /\ Ambiguous(g, k)' = Ambiguous(g, k) /\ Unit(g, k)' = Unit(g, k)
  BY <1>14, PartsStay
<1>16. Settled'
  BY <1>14, SettledStays DEF InStep
<1>17. Written'
  <2>1. Len(parsed') >= 1
    BY <1>1, <1>2, <1>13
  <2>2. stream = [g \in 1 .. Frames |-> [k \in DOMAIN frames[g] |-> Unit(g, k)]]
    BY DEF InStep, Written, Parsing
  <2>3. stream' = [g \in 1 .. Frames |-> [k \in DOMAIN frames[g] |-> Unit(g, k)']]
    BY <1>14, <1>15, <2>2
  <2> QED
    BY <1>1, <1>14, <2>1, <2>3 DEF Written
<1>18. ASSUME NEW g \in 1 .. Len(parsed'), NEW k \in 1 .. Len(parsed'[g]), g # f \/ k # j
       PROVE  UnitOK(g, k)' /\ k \in 1 .. Len(parsed[g])
  <2>1. g \in 1 .. Len(parsed) /\ k \in 1 .. Len(parsed[g]) /\ parsed'[g][k] = parsed[g][k]
    <3>1. CASE g # f
      BY <1>13, <3>1
    <3>2. CASE g = f
      BY <1>2, <1>3, <1>12, <1>13, <1>18, <3>2
    <3> QED
      BY <3>1, <3>2
  <2>2. UnitOK(g, k)
    BY <2>1 DEF InStep, ParsedOK
  <2> QED
    BY <1>14, <1>15, <2>1, <2>2 DEF UnitOK, RightModes, ModeOf
<1>19. UnitOK(f, j)'
  BY <1>10, <1>11, <1>12, <1>13, <1>14, <1>15 DEF UnitOK, RightModes, ModeOf, x, p
<1>20. ParsedOK'
  <2>1. ASSUME NEW g \in 1 .. Len(parsed')
        PROVE  /\ IsSeq(parsed'[g]) /\ Len(parsed'[g]) <= Len(frames[g])
               /\ g < Len(parsed') => Len(parsed'[g]) = Len(frames[g])
               /\ \A k \in 1 .. Len(parsed'[g]) : UnitOK(g, k)'
    <3>1. \A k \in 1 .. Len(parsed'[g]) : UnitOK(g, k)'
      BY <1>18, <1>19
    <3>2. CASE g = f
      BY <1>1, <1>2, <1>3, <1>12, <1>13, <3>1, <3>2
    <3>3. CASE g # f
      BY <1>13, <3>1, <3>3 DEF InStep, ParsedOK
    <3> QED
      BY <3>2, <3>3
  <2>2. Len(parsed') <= Frames
    BY <1>1, <1>13, FramesType
  <2> QED
    BY <1>13, <1>14, <2>1, <2>2 DEF ParsedOK
<1>21. LostOK'
  <2>1. ~\E g \in 1 .. Len(parsed) : \E k \in 1 .. Len(parsed[g]) : Ambiguous(g, k)
    BY DEF InStep, LostOK, Parsing
  <2>2. ASSUME NEW g \in 1 .. Len(parsed'), NEW k \in 1 .. Len(parsed'[g])
        PROVE  Ambiguous(g, k) => g = f /\ k = j
    BY <1>13, <1>18, <2>1
  <2>3. f \in 1 .. Len(parsed') /\ j \in 1 .. Len(parsed'[f])
    BY <1>1, <1>2, <1>3, <1>12, <1>13
  <2>4. lost' <=> \E g \in 1 .. Len(parsed') : \E k \in 1 .. Len(parsed'[g]) : Ambiguous(g, k)
    BY <1>9, <2>2, <2>3
  <2>5. lost' \in BOOLEAN
    BY <1>4
  <2> QED
    BY <1>15, <2>4, <2>5 DEF LostOK
<1>22. PredOK'
  <2>1. Current' = f /\ Len(parsed'[f]) = j /\ j > 0
    BY <1>1, <1>3, <1>12, <1>13 DEF Current
  <2> QED
    BY <1>3, <1>4, <1>14, <1>15, <2>1 DEF PredOK, PredictsAfter
<1>23. DecodedOK'
  <2>1. decoded = <<>>
    BY <1>1, NotYetDecoded DEF Parsing
  <2>2. Len(<<>>) = 0
    OBVIOUS
  <2> QED
    BY <1>14, <2>1, <2>2, EmptyIsSeq, FramesType DEF DecodedOK
<1> QED
  BY <1>16, <1>17, <1>20, <1>21, <1>22, <1>23 DEF InStep

\* The unit a step reads, and where the predictors of the parser are.
LEMMA NextUnit ==
  ASSUME InStep, Parsing
  PROVE  LET f == Current
             j == Len(parsed[f]) + 1
         IN  /\ f \in 1 .. Len(frames) /\ j \in 1 .. Len(frames[f])
             /\ stream[f][j] = Unit(f, j)
             /\ PredictsAfter(f, j - 1, pred, prevSize)
             /\ \A g \in 1 .. f - 1 : \A k \in 1 .. Len(frames[g]) : parsed[g][k].map = SizeOf(g, k)
<1> DEFINE f == Current
           j == Len(parsed[f]) + 1
<1>1. /\ Len(frames) = Frames /\ f \in 1 .. Frames /\ f = Len(parsed)
      /\ Len(frames[f]) \in Nat /\ Len(stream[f]) = Len(frames[f])
      /\ \A k \in 1 .. Len(frames[f]) : stream[f][k] = Unit(f, k)
  BY UnitsWritten DEF Parsing, Current
<1>2. Len(parsed[f]) \in Nat /\ Len(parsed[f]) < Len(stream[f]) /\ Len(parsed) > 0
  BY <1>1 DEF InStep, ParsedOK, IsSeq, Parsing
<1>3. j \in 1 .. Len(frames[f]) /\ j - 1 = Len(parsed[f])
  BY <1>1, <1>2
<1>4. PredictsAfter(f, j - 1, pred, prevSize)
  BY <1>2, <1>3 DEF InStep, PredOK
<1>5. \A g \in 1 .. f - 1 : \A k \in 1 .. Len(frames[g]) : parsed[g][k].map = SizeOf(g, k)
  BY <1>1 DEF InStep, ParsedOK, UnitOK
<1> QED
  BY <1>1, <1>3, <1>4, <1>5

\* A patch without a match has its size coded as a difference to the one before.
LEMMA ParseIntraKeeps == InStep /\ ParseIntra => InStep'
<1> SUFFICES ASSUME InStep, ParseIntra PROVE InStep'
  OBVIOUS
<1>1. PICK f : f = Current
  OBVIOUS
<1>2. PICK j : j = Len(parsed[f]) + 1
  OBVIOUS
<1>3. /\ Parsing /\ ~stream[f][j].inter
      /\ Parse(stream[f][j], Plus(prevSize, stream[f][j].delta))
      /\ UNCHANGED <<options, frames, plr, stream, decoded>>
  BY <1>1, <1>2 DEF ParseIntra
<1>4. /\ f \in 1 .. Len(frames) /\ j \in 1 .. Len(frames[f]) /\ stream[f][j] = Unit(f, j)
      /\ PredictsAfter(f, j - 1, pred, prevSize)
  BY <1>1, <1>2, <1>3, NextUnit
<1>5. Unit(f, j).inter = Inter(f, j) /\ Unit(f, j).delta = Minus(SizeOf(f, j), Predicted(f, j))
  BY DEF Unit
<1>6. ~Inter(f, j)
  BY <1>3, <1>4, <1>5
<1>7. Predicted(f, j) = prevSize
  <2>1. j - 1 = 0 <=> j = 1
    BY <1>4
  <2> QED
    BY <1>4, <1>6, <2>1 DEF Predicted, PredictsAfter
<1>8. Predicted(f, j) \in Nat \X Nat /\ IsSize(SizeOf(f, j))
  BY <1>4, PredictedType DEF InStep
<1>9. Plus(prevSize, stream[f][j].delta) = SizeOf(f, j)
  BY <1>4, <1>5, <1>7, <1>8, PlusMinus
<1>10. Parse(Unit(f, j), SizeOf(f, j))
  BY <1>3, <1>4, <1>9
<1> QED
  BY <1>1, <1>2, <1>3, <1>6, <1>10, ParseKeeps

\* One with a match, as a difference to the patch the predictor leads to.
LEMMA ParseInterKeeps == InStep /\ ParseInter => InStep'
<1> SUFFICES ASSUME InStep, ParseInter PROVE InStep'
  OBVIOUS
<1>1. PICK f : f = Current
  OBVIOUS
<1>2. PICK j : j = Len(parsed[f]) + 1
  OBVIOUS
<1>3. PICK u : u = stream[f][j]
  OBVIOUS
<1>4. /\ Parsing /\ u.inter
      /\ Parse(u, Plus(parsed[f - 1][u.idx + pred + 1].map, u.delta))
      /\ pred' = pred + u.idx + 1
      /\ UNCHANGED <<options, frames, plr, stream, decoded>>
  BY <1>1, <1>2, <1>3 DEF ParseInter
<1>5. /\ f \in 1 .. Len(frames) /\ j \in 1 .. Len(frames[f]) /\ u = Unit(f, j)
      /\ PredictsAfter(f, j - 1, pred, prevSize)
      /\ \A g \in 1 .. f - 1 : \A k \in 1 .. Len(frames[g]) : parsed[g][k].map = SizeOf(g, k)
  BY <1>1, <1>2, <1>3, <1>4, NextUnit
<1>6. /\ u.inter = Inter(f, j) /\ u.idx = Index(f, j)
      /\ u.delta = Minus(SizeOf(f, j), Predicted(f, j))
  BY <1>5 DEF Unit
<1>7. Inter(f, j) /\ Settled
  BY <1>4, <1>6 DEF InStep
<1>8. Index(f, j) + pred + 1 = frames[f][j].match
  BY <1>5, <1>7, MatchReached
<1>9. f - 1 \in 1 .. f - 1 /\ frames[f][j].match \in 1 .. Len(frames[f - 1])
  BY <1>5, <1>7, MatchesOnward
<1>10. pred' = frames[f][j].match
  <2>1. CASE j = 1
    BY <1>4, <1>5, <1>6, <1>7, <1>8, <1>9, <2>1 DEF PredictsAfter, Index
  <2>2. CASE j # 1
    <3>1. j > 1 /\ j - 1 > 0
      BY <1>5, <2>2
    <3>2. Inter(f, j - 1) /\ frames[f][j - 1].match \in Nat
      BY <1>5, <1>7, <3>1, MatchesOnward
    <3>3. pred \in Nat
      BY <1>5, <3>1, <3>2 DEF PredictsAfter
    <3>4. Index(f, j) \in Int
      BY <1>7, <1>9, <3>1, <3>2 DEF Index
    <3> QED
      BY <1>4, <1>6, <1>8, <3>3, <3>4
  <2> QED
    BY <2>1, <2>2
<1>11. parsed[f - 1][u.idx + pred + 1].map = Predicted(f, j)
  BY <1>5, <1>6, <1>7, <1>8, <1>9 DEF Predicted
<1>12. Predicted(f, j) \in Nat \X Nat /\ IsSize(SizeOf(f, j))
  BY <1>5, <1>7, PredictedType
<1>13. Plus(Predicted(f, j), u.delta) = SizeOf(f, j)
  BY <1>6, <1>12, PlusMinus
<1>14. Parse(Unit(f, j), SizeOf(f, j))
  BY <1>4, <1>5, <1>11, <1>13
<1> QED
  BY <1>1, <1>2, <1>4, <1>10, <1>14, ParseKeeps

\* A frame starts with fresh predictors.
LEMMA ParseEndKeeps == InStep /\ ParseEnd => InStep'
<1> SUFFICES ASSUME InStep, ParseEnd PROVE InStep'
  OBVIOUS
<1> DEFINE f == Len(parsed)
<1>1. /\ parsed # <<>> /\ ~lost /\ Len(parsed[f]) = Len(stream[f]) /\ f < Frames
      /\ parsed' = Append(parsed, <<>>) /\ pred' = 0 /\ prevSize' = NoSize
      /\ UNCHANGED <<options, frames, plr, stream, decoded, lost>>
  BY DEF ParseEnd, Current
<1>2. /\ Len(plr) = Frames /\ Len(frames) = Frames /\ f \in 1 .. Frames
      /\ Len(stream[f]) = Len(frames[f])
      /\ \A g \in 1 .. Frames : Len(frames[g]) \in Nat
  BY <1>1, UnitsWritten
<1>3. IsSeq(parsed) /\ ParsedOK /\ Written
  BY DEF InStep, ParsedOK
<1>4. /\ IsSeq(parsed') /\ Len(parsed') = f + 1 /\ parsed'[f + 1] = <<>>
      /\ \A g \in 1 .. f : parsed'[g] = parsed[g]
  BY <1>1, <1>3, AppendIs
<1>5. /\ frames' = frames /\ plr' = plr /\ options' = options /\ stream' = stream
      /\ decoded' = decoded /\ Frames' = Frames /\ lost' = lost
  BY <1>1 DEF Frames
<1>6. \A g, k : /\ Inter(g, k)' = Inter(g, k) /\ Index(g, k)' = Index(g, k)
                /\ SizeOf(g, k)' = SizeOf(g, k) /\ Predicted(g, k)' = Predicted(g, k)
                /\ Ambiguous(g, k)' = Ambiguous(g, k) /\ Unit(g, k)' = Unit(g, k)
  BY <1>5, PartsStay
<1>7. Settled'
  BY <1>5, SettledStays DEF InStep
<1>8. Written'
  <2>1. Len(parsed') >= 1
    BY <1>2, <1>4
  <2>2. stream = [g \in 1 .. Frames |-> [k \in DOMAIN frames[g] |-> Unit(g, k)]]
    BY <1>1, <1>3 DEF Written
  <2>3. stream' = [g \in 1 .. Frames |-> [k \in DOMAIN frames[g] |-> Unit(g, k)']]
    BY <1>5, <1>6, <2>2
  <2> QED
    BY <1>2, <1>5, <2>1, <2>3 DEF Written
<1>9. Len(<<>>) = 0
  OBVIOUS
<1>10. \A g \in 1 .. Len(parsed') : \A k \in 1 .. Len(parsed'[g]) :
         g \in 1 .. f /\ k \in 1 .. Len(parsed[g])
  BY <1>2, <1>4, <1>9
<1>11. \A g \in 1 .. Len(parsed') : \A k \in 1 .. Len(parsed'[g]) : UnitOK(g, k)'
  <2> TAKE g \in 1 .. Len(parsed')
  <2> TAKE k \in 1 .. Len(parsed'[g])
  <2>1. UnitOK(g, k) /\ parsed'[g] = parsed[g]
    BY <1>3, <1>4, <1>10 DEF ParsedOK
  <2> QED
    BY <1>5, <1>6, <2>1 DEF UnitOK, RightModes, ModeOf
<1>12. ParsedOK'
  <2>1. ASSUME NEW g \in 1 .. Len(parsed')
        PROVE  /\ IsSeq(parsed'[g]) /\ Len(parsed'[g]) <= Len(frames[g])
               /\ g < Len(parsed') => Len(parsed'[g]) = Len(frames[g])
    <3>1. CASE g = f + 1
      <4>1. g \in 1 .. Frames
        BY <1>1, <1>2, <3>1, FramesType
      <4>2. Len(frames[g]) \in Nat
        BY <1>2, <4>1
      <4>3. parsed'[g] = <<>> /\ ~(g < Len(parsed'))
        BY <1>2, <1>4, <3>1
      <4> QED
        BY <1>9, <4>2, <4>3, EmptyIsSeq
    <3>2. CASE g = f
      BY <1>1, <1>2, <1>3, <1>4, <3>2 DEF ParsedOK
    <3>3. CASE g # f + 1 /\ g # f
      <4>1. g \in 1 .. f /\ g < f
        BY <1>2, <1>4, <3>3
      <4> QED
        BY <1>3, <1>4, <4>1 DEF ParsedOK
    <3> QED
      BY <3>1, <3>2, <3>3
  <2>2. Len(parsed') <= Frames
    BY <1>1, <1>2, <1>4, FramesType
  <2> QED
    BY <1>4, <1>5, <1>11, <2>1, <2>2 DEF ParsedOK
<1>13. LostOK'
  <2>1. lost = FALSE /\ ~\E g \in 1 .. f : \E k \in 1 .. Len(parsed[g]) : Ambiguous(g, k)
    BY <1>1 DEF InStep, LostOK
  <2>2. ~\E g \in 1 .. Len(parsed') : \E k \in 1 .. Len(parsed'[g]) : Ambiguous(g, k)
    BY <1>10, <2>1
  <2> QED
    BY <1>5, <1>6, <2>1, <2>2 DEF LostOK
<1>14. PredOK'
  BY <1>1, <1>4, <1>9 DEF PredOK, PredictsAfter, Current
<1>15. DecodedOK'
  <2>1. decoded = <<>>
    BY <1>1, NotYetDecoded DEF Current
  <2> QED
    BY <1>5, <1>9, <2>1, EmptyIsSeq, FramesType DEF DecodedOK
<1> QED
  BY <1>7, <1>8, <1>12, <1>13, <1>14, <1>15 DEF InStep

-----------------------------------------------------------------------------
(***************************************************************************)
(* The decoder, patch by patch.                                            *)
(***************************************************************************)
NothingYet == [patches |-> <<>>, pred |-> 0, prevSize |-> NoSize]
DecodeTable(g, units, n) ==
  g = [j \in 0 .. n |-> IF j = 0 THEN NothingYet ELSE AddPatch(g[j - 1], units[j])]

\* There is a table of what is rebuilt, patch by patch.
LEMMA DecodeTableExists ==
  ASSUME NEW units, NEW n \in Nat
  PROVE  \E g : DecodeTable(g, units, n)
<1> DEFINE S == {m \in Nat : \E g : DecodeTable(g, units, m)}
<1>1. 0 \in S
  <2>1. DecodeTable([j \in 0 .. 0 |-> NothingYet], units, 0)
    BY DEF DecodeTable
  <2> QED
    BY <2>1
<1>2. ASSUME NEW m \in S PROVE m + 1 \in S
  <2>1. PICK f : DecodeTable(f, units, m)
    OBVIOUS
  <2> DEFINE last == AddPatch(f[m], units[m + 1])
             g == [j \in 0 .. m + 1 |-> IF j = m + 1 THEN last ELSE f[j]]
  <2> HIDE DEF last
  <2>2. \A j \in 0 .. m : f[j] = IF j = 0 THEN NothingYet ELSE AddPatch(f[j - 1], units[j])
    BY <2>1 DEF DecodeTable
  <2>3. ASSUME NEW j \in 0 .. m + 1
        PROVE  g[j] = IF j = 0 THEN NothingYet ELSE AddPatch(g[j - 1], units[j])
    <3>1. CASE j = m + 1
      <4>1. j # 0 /\ j - 1 = m /\ m \in 0 .. m + 1 /\ m # m + 1
        BY <3>1
      <4>2. g[j] = last /\ g[m] = f[m]
        BY <3>1, <4>1
      <4> HIDE DEF g
      <4> QED
        BY <3>1, <4>1, <4>2 DEF last
    <3>2. CASE j # m + 1
      <4>1. j \in 0 .. m /\ g[j] = f[j]
        BY <3>2
      <4>2. j # 0 => g[j - 1] = f[j - 1]
        BY <4>1
      <4> HIDE DEF g
      <4> QED
        BY <4>1, <4>2, <2>2
    <3> QED
      BY <3>1, <3>2
  <2>4. g = [j \in 0 .. m + 1 |-> g[j]]
    OBVIOUS
  <2> HIDE DEF g
  <2>5. DecodeTable(g, units, m + 1)
    BY <2>3, <2>4 DEF DecodeTable
  <2> QED
    BY <2>5
<1>3. S \in SUBSET Nat
  OBVIOUS
<1> HIDE DEF S
<1>4. S = Nat
  BY <1>1, <1>2, <1>3, SetInduction
<1> QED
  BY <1>4 DEF S

\* A frame is rebuilt when the last of its patches is.
LEMMA DecodeFrameIs ==
  ASSUME NEW units, NEW n \in Nat, Len(units) = n
  PROVE  \E g : DecodeTable(g, units, n) /\ DecodeFrame(units) = g[n].patches
<1> DEFINE g == CHOOSE g : DecodeTable(g, units, n)
<1>1. DecodeTable(g, units, n)
  BY DecodeTableExists
<1>2. DecodeFrame(units) = g[n].patches
  BY Zenon DEF DecodeFrame, DecodeTable, NothingYet
<1> QED
  BY <1>1, <1>2

\* The decoder is right about the first j patches of a frame.
RebuiltUpTo(f, j, acc) ==
  /\ IsSeq(acc.patches) /\ Len(acc.patches) = j
  /\ \A i \in 1 .. j : PatchOK(f, i, acc.patches[i])
  /\ PredictsAfter(f, j, acc.pred, acc.prevSize)

\* It is right about the next one too.
LEMMA NextPatch ==
  ASSUME InStep, ~lost, NEW f, f = Len(decoded) + 1, f \in 1 .. Len(frames),
         Len(parsed) = Frames, Len(parsed[f]) = Len(frames[f]),
         NEW j \in 1 .. Len(frames[f]), NEW acc, RebuiltUpTo(f, j - 1, acc)
  PROVE  RebuiltUpTo(f, j, AddPatch(acc, parsed[f][j]))
<1>1. PICK u : u = parsed[f][j]
  OBVIOUS
<1>2. Settled /\ f \in 1 .. Len(parsed) /\ j \in 1 .. Len(parsed[f])
  <2>1. Len(frames) <= Frames /\ Len(frames) \in Nat /\ Frames \in Nat
    BY FramesType DEF InStep, Settled, IsSeq
  <2> QED
    BY <2>1 DEF InStep
<1>3. UnitOK(f, j) /\ ~Ambiguous(f, j)
  BY <1>2 DEF InStep, ParsedOK, LostOK
<1>4. /\ u.inter = Inter(f, j) /\ u.idx = Index(f, j)
      /\ u.delta = Minus(SizeOf(f, j), Predicted(f, j)) /\ u.map = SizeOf(f, j)
      /\ RightModes(frames[f][j], plr[f][j], u)
  BY <1>1, <1>3 DEF UnitOK
<1> DEFINE before == IF u.inter THEN decoded[Len(decoded)][u.idx + acc.pred + 1].size
                     ELSE acc.prevSize
           patch == DecodedPatch(u, Plus(before, u.delta))
<1>5. before = Predicted(f, j)
  <2>1. CASE Inter(f, j)
    <3>1. Index(f, j) + acc.pred + 1 = frames[f][j].match
      BY <1>2, <2>1, MatchReached DEF RebuiltUpTo
    <3>2. f # 1 /\ frames[f][j].match \in 1 .. Len(frames[f - 1])
      BY <1>2, <2>1, MatchesOnward
    <3>3. Len(decoded) \in Nat /\ f - 1 = Len(decoded) /\ Len(decoded) \in 1 .. Len(decoded)
      BY <3>2 DEF InStep, DecodedOK, IsSeq
    <3>4. /\ Len(decoded[f - 1]) = Len(frames[f - 1])
          /\ \A k \in 1 .. Len(decoded[f - 1]) : PatchOK(f - 1, k, decoded[f - 1][k])
      BY <3>3 DEF InStep, DecodedOK
    <3>5. decoded[f - 1][frames[f][j].match].size = SizeOf(f - 1, frames[f][j].match)
      BY <3>2, <3>4 DEF PatchOK
    <3> QED
      BY <1>4, <2>1, <3>1, <3>3, <3>5 DEF Predicted
  <2>2. CASE ~Inter(f, j)
    <3>1. j - 1 = 0 <=> j = 1
      OBVIOUS
    <3> QED
      BY <1>4, <2>2, <3>1 DEF Predicted, RebuiltUpTo, PredictsAfter
  <2> QED
    BY <2>1, <2>2
<1>6. Predicted(f, j) \in Nat \X Nat /\ IsSize(SizeOf(f, j)) /\ IsPatch(frames[f][j])
  BY <1>2, PredictedType
<1>7. Plus(before, u.delta) = SizeOf(f, j)
  BY <1>4, <1>5, <1>6, PlusMinus
<1>8. SizeOf(f, j) = frames[f][j].size
  BY DEF SizeOf
<1> HIDE DEF before
<1>9. PatchOK(f, j, patch)
  <2>1. patch = DecodedPatch(u, frames[f][j].size)
    BY <1>7, <1>8
  <2> HIDE DEF patch
  <2> QED
    BY <1>4, <1>6, <1>8, <2>1, DecodedRight DEF PatchOK
<1>10. AddPatch(acc, u) = [patches |-> Append(acc.patches, patch),
                           pred |-> IF u.inter THEN acc.pred + u.idx + 1 ELSE acc.pred,
                           prevSize |-> patch.size]
  BY DEF AddPatch, before
<1> HIDE DEF patch
<1>11. PICK new : new = AddPatch(acc, u)
  OBVIOUS
<1>12. /\ new.patches = Append(acc.patches, patch) /\ new.prevSize = SizeOf(f, j)
       /\ new.pred = IF u.inter THEN acc.pred + u.idx + 1 ELSE acc.pred
  BY <1>9, <1>10, <1>11 DEF PatchOK
<1>13. IsSeq(acc.patches) /\ Len(acc.patches) = j - 1
  BY DEF RebuiltUpTo
<1>14. /\ IsSeq(new.patches) /\ Len(new.patches) = j - 1 + 1 /\ new.patches[j - 1 + 1] = patch
       /\ \A i \in 1 .. j - 1 : new.patches[i] = acc.patches[i]
  BY <1>12, <1>13, AppendIs
<1>15. \A i \in 1 .. j : PatchOK(f, i, new.patches[i])
  <2> TAKE i \in 1 .. j
  <2>1. CASE i = j
    BY <1>9, <1>14, <2>1
  <2>2. CASE i # j
    BY <1>14, <2>2 DEF RebuiltUpTo
  <2> QED
    BY <2>1, <2>2
<1>16. PredictsAfter(f, j, new.pred, new.prevSize)
  <2>1. ASSUME Inter(f, j) PROVE new.pred = frames[f][j].match
    <3>1. Index(f, j) + acc.pred + 1 = frames[f][j].match
      BY <1>2, <2>1, MatchReached DEF RebuiltUpTo
    <3>2. acc.pred \in Int /\ Index(f, j) \in Int
      <4>1. frames[f][j].match \in Nat
        BY <1>6 DEF IsPatch
      <4>2. CASE j = 1
        BY <2>1, <4>1, <4>2 DEF RebuiltUpTo, PredictsAfter, Index
      <4>3. CASE j # 1
        <5>1. j > 1 /\ j - 1 > 0
          BY <4>3
        <5>2. Inter(f, j - 1) /\ frames[f][j - 1].match \in Nat
          BY <1>2, <2>1, <5>1, MatchesOnward
        <5>3. acc.pred = frames[f][j - 1].match
          BY <5>1, <5>2 DEF RebuiltUpTo, PredictsAfter
        <5> QED
          BY <2>1, <4>1, <5>1, <5>2, <5>3 DEF Index
      <4> QED
        BY <4>2, <4>3
    <3> QED
      BY <1>4, <1>12, <2>1, <3>1, <3>2
  <2>2. j # 0
    OBVIOUS
  <2> QED
    BY <1>12, <2>1, <2>2 DEF PredictsAfter
<1> QED
  BY <1>1, <1>11, <1>14, <1>15, <1>16 DEF RebuiltUpTo

\* A frame is rebuilt as it was packed.
LEMMA DecodeKeeps == InStep /\ Decode => InStep'
<1> SUFFICES ASSUME InStep, Decode PROVE InStep'
  OBVIOUS
<1>f. PICK f : f = Len(decoded) + 1
  OBVIOUS
<1>1. /\ ~lost /\ Len(parsed) = Frames /\ Len(parsed[Frames]) = Len(stream[Frames])
      /\ Len(decoded) < Frames
      /\ decoded' = Append(decoded, DecodeFrame(parsed[f]))
      /\ UNCHANGED <<options, frames, plr, stream, parsed, pred, prevSize, lost>>
  BY <1>f DEF Decode, Current
<1>2. Frames \in Nat \ {0} /\ IsSeq(decoded) /\ Len(decoded) \in Nat
  BY FramesType DEF InStep, DecodedOK, IsSeq
<1>3. parsed # <<>>
  <2>1. Len(<<>>) = 0
    OBVIOUS
  <2> QED
    BY <1>1, <1>2, <2>1
<1>4. /\ Len(frames) = Frames /\ Len(stream[Frames]) = Len(frames[Frames])
      /\ f \in 1 .. Frames /\ Len(frames[f]) \in Nat
  BY <1>f, <1>1, <1>2, <1>3, UnitsWritten
<1>5. Len(parsed[f]) = Len(frames[f])
  BY <1>1, <1>2, <1>4 DEF InStep, ParsedOK
<1>6. PICK g : /\ DecodeTable(g, parsed[f], Len(frames[f]))
               /\ DecodeFrame(parsed[f]) = g[Len(frames[f])].patches
  BY <1>4, <1>5, DecodeFrameIs
<1>7. PICK n : n = Len(frames[f])
  OBVIOUS
<1>8. \A j \in 0 .. n : g[j] = IF j = 0 THEN NothingYet ELSE AddPatch(g[j - 1], parsed[f][j])
  BY <1>6, <1>7 DEF DecodeTable
<1> DEFINE S == {j \in Nat : j <= n => RebuiltUpTo(f, j, g[j])}
<1>9. 0 \in S
  <2>1. g[0] = NothingYet /\ Len(<<>>) = 0
    BY <1>4, <1>7, <1>8
  <2> QED
    BY <2>1, EmptyIsSeq DEF NothingYet, RebuiltUpTo, PredictsAfter
<1>10. ASSUME NEW j \in S PROVE j + 1 \in S
  <2> SUFFICES ASSUME j + 1 <= n PROVE RebuiltUpTo(f, j + 1, g[j + 1])
    OBVIOUS
  <2>1. PICK k : k = j + 1
    OBVIOUS
  <2>2. k \in 1 .. n /\ k - 1 = j /\ k \in 0 .. n /\ k # 0 /\ j <= n
    BY <1>4, <1>7, <2>1
  <2>3. RebuiltUpTo(f, k - 1, g[k - 1])
    BY <2>2
  <2>4. g[k] = AddPatch(g[k - 1], parsed[f][k])
    BY <1>8, <2>2
  <2>5. RebuiltUpTo(f, k, AddPatch(g[k - 1], parsed[f][k]))
    <3> HIDE DEF S
    <3> QED
      BY <1>f, <1>1, <1>4, <1>5, <1>7, <2>2, <2>3, NextPatch
  <2> QED
    BY <2>1, <2>4, <2>5
<1>11. S \in SUBSET Nat
  OBVIOUS
<1> HIDE DEF S
<1>12. S = Nat
  BY <1>9, <1>10, <1>11, SetInduction
<1>13. PICK d : d = DecodeFrame(parsed[f])
  OBVIOUS
<1>14. IsSeq(d) /\ Len(d) = n /\ \A i \in 1 .. n : PatchOK(f, i, d[i])
  <2>1. n \in S /\ n <= n
    BY <1>4, <1>7, <1>12
  <2> QED
    BY <1>6, <1>7, <1>13, <2>1 DEF S, RebuiltUpTo
<1>15. /\ IsSeq(decoded') /\ Len(decoded') = f /\ decoded'[f] = d
       /\ \A i \in 1 .. Len(decoded) : decoded'[i] = decoded[i]
  BY <1>f, <1>1, <1>2, <1>13, AppendIs
<1>16. /\ options' = options /\ frames' = frames /\ plr' = plr /\ stream' = stream
       /\ parsed' = parsed /\ pred' = pred /\ prevSize' = prevSize /\ lost' = lost
       /\ Frames' = Frames /\ Current' = Current
  BY <1>1 DEF Frames, Current
<1>17. \A h, k : /\ Inter(h, k)' = Inter(h, k) /\ Index(h, k)' = Index(h, k)
                 /\ SizeOf(h, k)' = SizeOf(h, k) /\ Predicted(h, k)' = Predicted(h, k)
                 /\ Ambiguous(h, k)' = Ambiguous(h, k) /\ Unit(h, k)' = Unit(h, k)
  BY <1>16, PartsStay
<1>18. Settled'
  BY <1>16, SettledStays DEF InStep
<1>19. Written'
  <2>1. stream = [h \in 1 .. Frames |-> [k \in DOMAIN frames[h] |-> Unit(h, k)]]
    BY <1>3 DEF InStep, Written
  <2>2. stream' = [h \in 1 .. Frames |-> [k \in DOMAIN frames[h] |-> Unit(h, k)']]
    BY <1>16, <1>17, <2>1
  <2>3. Len(plr) = Frames
    BY <1>3, UnitsWritten
  <2>4. Len(parsed) >= 1
    BY <1>1, <1>2
  <2> QED
    BY <1>4, <1>16, <2>2, <2>3, <2>4 DEF Written
<1>20. ParsedOK'
  BY <1>16, <1>17 DEF InStep, ParsedOK, UnitOK, RightModes, ModeOf
<1>21. LostOK' /\ PredOK'
  BY <1>16, <1>17 DEF InStep, LostOK, PredOK, PredictsAfter
<1>22. DecodedOK'
  <2>1. ASSUME NEW h \in 1 .. Len(decoded')
        PROVE  /\ IsSeq(decoded'[h]) /\ Len(decoded'[h]) = Len(frames[h])
               /\ \A k \in 1 .. Len(decoded'[h]) : PatchOK(h, k, decoded[h][k])'
    <3>2. CASE h = f
      <4>1. IsSeq(d) /\ Len(d) = Len(frames[h]) /\ \A k \in 1 .. Len(d) : PatchOK(h, k, d[k])
        BY <1>7, <1>14, <3>2
      <4>2. decoded'[h] = d
        BY <1>15, <3>2
      <4>3. \A k \in 1 .. Len(d) : PatchOK(h, k, decoded[h][k])'
        BY <1>16, <1>17, <4>1, <4>2 DEF PatchOK, ModeOf
      <4> QED
        BY <4>1, <4>2, <4>3
    <3>3. CASE h # f
      <4>1. h \in 1 .. Len(decoded) /\ decoded'[h] = decoded[h]
        BY <1>f, <1>2, <1>15, <3>3
      <4>2. /\ IsSeq(decoded[h]) /\ Len(decoded[h]) = Len(frames[h])
            /\ \A k \in 1 .. Len(decoded[h]) : PatchOK(h, k, decoded[h][k])
        BY <4>1 DEF InStep, DecodedOK
      <4>3. \A k \in 1 .. Len(decoded[h]) : PatchOK(h, k, decoded[h][k])'
        BY <1>16, <1>17, <4>1, <4>2 DEF PatchOK, ModeOf
      <4> QED
        BY <4>1, <4>2, <4>3
    <3> QED
      BY <3>2, <3>3
  <2>2. Len(decoded') <= Frames
    BY <1>2, <1>4, <1>15
  <2>3. Len(parsed') = Frames' /\ Len(parsed'[Frames']) = Len(frames'[Frames'])
    BY <1>1, <1>4, <1>16
  <2> QED
    BY <1>15, <1>16, <2>1, <2>2, <2>3 DEF DecodedOK
<1> QED
  BY <1>18, <1>19, <1>20, <1>21, <1>22 DEF InStep

-----------------------------------------------------------------------------
(***************************************************************************)
(* The theorems.                                                           *)
(***************************************************************************)
\* Every step keeps parser and decoder in step as far as they can be.
LEMMA NextInStep == InStep /\ [Next]_vars => InStep'
<1>1. InStep /\ UNCHANGED vars => InStep'
  <2> SUFFICES ASSUME InStep, UNCHANGED vars PROVE InStep'
    OBVIOUS
  <2>1. /\ options' = options /\ frames' = frames /\ plr' = plr /\ stream' = stream
        /\ parsed' = parsed /\ pred' = pred /\ prevSize' = prevSize /\ lost' = lost
        /\ decoded' = decoded /\ Frames' = Frames /\ Current' = Current
    BY DEF vars, Frames, Current
  <2>2. \A h, k : /\ Inter(h, k)' = Inter(h, k) /\ Index(h, k)' = Index(h, k)
                  /\ SizeOf(h, k)' = SizeOf(h, k) /\ Predicted(h, k)' = Predicted(h, k)
                  /\ Ambiguous(h, k)' = Ambiguous(h, k) /\ Unit(h, k)' = Unit(h, k)
    BY <2>1, PartsStay
  <2>3. Settled'
    BY <2>1, SettledStays DEF InStep
  <2>4. Written'
    BY <2>1, <2>2 DEF InStep, Written
  <2>5. ParsedOK'
    BY <2>1, <2>2 DEF InStep, ParsedOK, UnitOK, RightModes, ModeOf
  <2>6. LostOK' /\ PredOK'
    BY <2>1, <2>2 DEF InStep, LostOK, PredOK, PredictsAfter
  <2>7. DecodedOK'
    BY <2>1, <2>2 DEF InStep, DecodedOK, PatchOK, ModeOf
  <2> QED
    BY <2>3, <2>4, <2>5, <2>6, <2>7 DEF InStep
<1>2. Terminated => UNCHANGED vars
  BY DEF Terminated
<1> QED
  BY <1>1, <1>2, PackKeeps, SearchKeeps, WriteKeeps, ParseIntraKeeps, ParseInterKeeps,
     ParseEndKeeps, DecodeKeeps DEF Next

\* The parser gets out of step exactly where it cannot know better, and never
\* where modes were searched for with a patchSize.
THEOREM OutOfStepOnlyUnsearchedHolds == Spec => []OutOfStepOnlyUnsearched
<1>1. InStep => OutOfStepOnlyUnsearched
  <2> SUFFICES ASSUME InStep PROVE OutOfStepOnlyUnsearched
    OBVIOUS
  <2>1. /\ DOMAIN parsed = 1 .. Len(parsed)
        /\ \A f \in 1 .. Len(parsed) : DOMAIN parsed[f] = 1 .. Len(parsed[f])
    BY DEF InStep, ParsedOK, IsSeq
  <2>2. lost = (\E f \in DOMAIN parsed : \E j \in DOMAIN parsed[f] : Ambiguous(f, j))
    BY <2>1 DEF InStep, LostOK
  <2>3. ASSUME lost, Searched, options.patchSize # 0 PROVE FALSE
    <3>0. PICK f \in 1 .. Len(parsed) : \E j \in 1 .. Len(parsed[f]) : Ambiguous(f, j)
      BY <2>3 DEF InStep, LostOK
    <3>1. PICK j \in 1 .. Len(parsed[f]) : Ambiguous(f, j)
      BY <3>0
    <3>2. parsed # <<>>
      <4>1. Len(<<>>) = 0
        OBVIOUS
      <4> QED
        BY <4>1
    <3>3. /\ Len(plr) = Frames /\ Len(frames) = Frames /\ Len(parsed) \in 1 .. Frames
          /\ Frames \in Nat
      BY <3>2, UnitsWritten, FramesType
    <3>4. f \in 1 .. Len(plr) /\ f \in 1 .. Len(frames)
      BY <3>3
    <3>5. j \in 1 .. Len(frames[f])
      <4>1. Len(parsed[f]) <= Len(frames[f]) /\ Len(parsed[f]) \in Nat
        BY DEF InStep, ParsedOK, IsSeq
      <4>2. Len(frames[f]) \in Nat
        BY <3>2, <3>3, <3>4, UnitsWritten
      <4> QED
        BY <4>1, <4>2
    <3>6. plr[f][j].level = 0 /\ ~Whole(Count(SizeOf(f, j)))
      BY <2>3, <3>1, <3>4, <3>5 DEF InStep, Settled, PlrOK, Ambiguous
    <3>7. options.patchSize \in Nat /\ Threshold \in Nat /\ Threshold < options.patchSize
      BY <2>3, ThresholdType DEF InStep, Settled
    <3>8. Count(SizeOf(f, j)) \in 2 .. Threshold + 1
      BY <3>1 DEF Ambiguous
    <3> DEFINE n == Count(SizeOf(f, j))
    <3>9. ~(n <= options.patchSize)
      BY <3>6 DEF Whole
    <3> HIDE DEF n
    <3> QED
      BY <3>7, <3>8, <3>9 DEF n
  <2> QED
    BY <2>2, <2>3 DEF OutOfStepOnlyUnsearched
<1> QED
  BY <1>1, InitInStep, NextInStep, PTL DEF Spec

\* Every block a patch owns gets the mode the encoder chose for it.
THEOREM ModesArriveHolds == Spec => []ModesArrive
<1>1. InStep => ModesArrive
  <2> SUFFICES ASSUME InStep, NEW f \in DOMAIN decoded
               PROVE  /\ Len(decoded[f]) = Len(frames[f])
                      /\ \A j \in DOMAIN decoded[f] :
                           /\ decoded[f][j].size = SizeOf(f, j)
                           /\ parsed[f][j].map = SizeOf(f, j)
                           /\ \A b \in frames[f][j].owned :
                                ModeOf(decoded[f][j], b) = ModeOf(plr[f][j], b)
    BY DEF ModesArrive
  <2>1. f \in 1 .. Len(decoded)
    BY DEF InStep, DecodedOK, IsSeq
  <2>2. /\ IsSeq(decoded[f]) /\ Len(decoded[f]) = Len(frames[f])
        /\ \A j \in 1 .. Len(decoded[f]) : PatchOK(f, j, decoded[f][j])
    BY <2>1 DEF InStep, DecodedOK
  <2>3. DOMAIN decoded[f] = 1 .. Len(decoded[f])
    BY <2>2 DEF IsSeq
  <2>4. ASSUME NEW j \in 1 .. Len(decoded[f]) PROVE parsed[f][j].map = SizeOf(f, j)
    <3>1. /\ Len(decoded) \in Nat /\ Len(decoded) <= Frames /\ Frames \in Nat
          /\ Len(decoded) > 0 => Len(parsed) = Frames /\ Len(parsed[Frames]) = Len(frames[Frames])
      BY FramesType DEF InStep, DecodedOK, IsSeq
    <3>2. Len(parsed) = Frames /\ Len(parsed[Frames]) = Len(frames[Frames]) /\ f \in 1 .. Frames
      BY <2>1, <3>1
    <3>3. Len(parsed[f]) = Len(frames[f])
      BY <3>1, <3>2 DEF InStep, ParsedOK
    <3>4. UnitOK(f, j)
      BY <2>2, <3>2, <3>3 DEF InStep, ParsedOK
    <3> QED
      BY <3>4 DEF UnitOK
  <2> QED
    BY <2>2, <2>3, <2>4 DEF PatchOK
<1> QED
  BY <1>1, InitInStep, NextInStep, PTL DEF Spec

=============================================================================
