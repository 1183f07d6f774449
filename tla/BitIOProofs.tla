----------------------------- MODULE BitIOProofs -----------------------------
(***************************************************************************)
(* What is written to the bit buffer is read back.  Every code of an item  *)
(* is shown to spell its value at the position of the writer without a     *)
(* change to the bits before it, and the reader to find the value again    *)
(* wherever it is spelled.  The invariant of the writer and the reader is  *)
(* a list of positions, one at each border of two items.                   *)
(***************************************************************************)
EXTENDS BitIO, DataLemmas

-----------------------------------------------------------------------------
(***************************************************************************)
(* Numbers.                                                                *)
(***************************************************************************)
\* A quotient is known by its remainder.
LEMMA QuotientIs ==
  ASSUME NEW a \in Int, NEW k \in Nat \ {0}, NEW q \in Int, NEW r \in 0 .. k - 1,
         a = k * q + r
  PROVE  a \div k = q /\ a % k = r
OBVIOUS

LEMMA NegativeRemainder ==
  ASSUME NEW a \in Int, NEW k \in Nat \ {0}, NEW r \in 0 .. k - 1, a = r - k
  PROVE  a % k = r
OBVIOUS

LEMMA QuotientOne ==
  ASSUME NEW a \in Nat, NEW k \in Nat \ {0}, k <= a, a < 2 * k
  PROVE  a \div k = 1
OBVIOUS

LEMMA NextByte ==
  ASSUME NEW p \in Nat
  PROVE  /\ (p + 1) % 8 = 0 => p + 1 = 8 * (p \div 8 + 1)
         /\ (p + 1) % 8 # 0 => /\ 8 * ((p + 1) \div 8 + 1) = 8 * (p \div 8 + 1)
                              /\ 8 * ((p + 1) \div 8 + 1) > p + 1
OBVIOUS

LEMMA MappedBack ==
  ASSUME NEW v \in Int, NEW m \in Int, m = IF v <= 0 THEN -2 * v ELSE 2 * v - 1
  PROVE  (IF m % 2 = 1 THEN m \div 2 + 1 ELSE -(m \div 2)) = v
<1>1. CASE v <= 0
  <2>1. PICK w : w = -v
    OBVIOUS
  <2>2. w \in Nat /\ m = 2 * w /\ v = -w
    BY <1>1, <2>1
  <2>3. m % 2 = 0 /\ m \div 2 = w
    BY <2>2
  <2> QED
    BY <2>2, <2>3
<1>2. CASE v > 0
  <2>1. PICK w : w = v - 1
    OBVIOUS
  <2>2. w \in Nat /\ m = 2 * w + 1 /\ v = w + 1
    BY <1>2, <2>1
  <2>3. m % 2 = 1 /\ m \div 2 = w
    BY <2>2
  <2> QED
    BY <2>2, <2>3
<1> QED
  BY <1>1, <1>2

\* 1 << (m + n).
LEMMA Pow2Sum ==
  ASSUME NEW m \in Nat, NEW n \in Nat
  PROVE  Pow2[m + n] = Pow2[m] * Pow2[n]
<1> DEFINE S == {d \in Nat : Pow2[m + d] = Pow2[m] * Pow2[d]}
<1>1. 0 \in S
  BY Pow2Recursive
<1>2. ASSUME NEW d \in S PROVE d + 1 \in S
  <2>1. Pow2[m + (d + 1)] = 2 * Pow2[m + d] /\ Pow2[d + 1] = 2 * Pow2[d]
    BY Pow2Recursive
  <2> DEFINE a == Pow2[m]
             b == Pow2[d]
  <2>2. a \in Nat /\ b \in Nat /\ Pow2[m + d] = a * b
    BY Pow2Recursive
  <2> HIDE DEF a, b
  <2>3. 2 * (a * b) = a * (2 * b)
    BY <2>2
  <2> QED
    BY <2>1, <2>2, <2>3 DEF a, b
<1>3. S \in SUBSET Nat
  OBVIOUS
<1> HIDE DEF S
<1>4. S = Nat
  BY <1>1, <1>2, <1>3, SetInduction
<1> QED
  BY <1>4 DEF S

\* A number without its highest bit has the other bits of it.
LEMMA WithoutTopBit ==
  ASSUME NEW m \in Nat, NEW k \in Nat, k < m, NEW c \in Nat, Pow2[m] <= c
  PROVE  ((c - Pow2[m]) \div Pow2[k]) % 2 = (c \div Pow2[k]) % 2
<1> DEFINE K == Pow2[k]
           P == Pow2[m - k - 1]
           q == c \div K
           r == c - K * q
<1>1. K \in Nat \ {0} /\ P \in Nat \ {0}
  BY Pow2Type
<1>2. Pow2[m] = 2 * (P * K)
  <2>1. Pow2[m] = 2 * Pow2[(m - k - 1) + k]
    BY Pow2Recursive
  <2> QED
    BY <2>1, Pow2Sum, m - k - 1 \in Nat
<1> HIDE DEF K, P
<1>3. q \in Nat /\ c = K * q + r /\ r \in 0 .. K - 1
  BY <1>1
<1> HIDE DEF q, r
<1>4. K * (q - 2 * P) = K * q - 2 * (P * K)
  BY <1>1, <1>3
<1>5. c - Pow2[m] = K * (q - 2 * P) + r /\ q - 2 * P \in Int /\ c - Pow2[m] \in Int
  BY <1>1, <1>2, <1>3, <1>4
<1>6. (c - Pow2[m]) \div K = q - 2 * P
  BY <1>1, <1>3, <1>5, QuotientIs
<1>7. (q - 2 * P) % 2 = q % 2
  BY <1>1, <1>3
<1> QED
  BY <1>6, <1>7 DEF K, q

\* Every number that fits a word has a length.
LEMMA BitLengthIs ==
  ASSUME BitAssumption, NEW v \in Nat, 0 < v, v < Pow2[Word]
  PROVE  /\ BitLength(v) \in 1 .. Word
         /\ Pow2[BitLength(v) - 1] <= v /\ v < Pow2[BitLength(v)]
<1> DEFINE T == {n \in Nat : v < Pow2[n]}
<1>0. Word \in Nat
  BY DEF BitAssumption
<1>1. PICK n \in T : \A y \in T : n <= y
  <2>1. Word \in T /\ T \in SUBSET Nat
    BY <1>0
  <2> HIDE DEF T
  <2> QED
    BY <2>1, LeastNumber
<1>2. n \in 1 .. Word
  BY <1>0, <1>1, Pow2Recursive
<1>3. n - 1 \notin T
  BY <1>1, <1>2
<1>4. Pow2[n - 1] <= v /\ v < Pow2[n]
  <2>1. n - 1 \in Nat /\ Pow2[n - 1] \in Nat
    BY <1>2, Pow2Recursive
  <2> QED
    BY <1>1, <1>3, <2>1
<1> QED
  BY <1>2, <1>4 DEF BitLength

-----------------------------------------------------------------------------
(***************************************************************************)
(* Buffers.                                                                *)
(***************************************************************************)
IsBuffer(b) ==
  /\ b \in [data : SUBSET Nat, size : Nat, at : Nat]
  /\ b.data \subseteq 0 .. b.at - 1

\* The bits from p up to q are the same.
Same(D, E, p, q) == \A y \in p .. q - 1 : y \in D <=> y \in E

\* The buffer c is b with something behind it.
Follows(b, c) ==
  /\ IsBuffer(c)
  /\ c.at >= b.at
  /\ Same(b.data, c.data, 0, b.at)

\* n bits of v are at p.
HasBits(D, p, v, n) == \A i \in 0 .. n - 1 : p + i \in D <=> IsSet(v, n - 1 - i)

Fits(b) == b.at <= 8 * b.size

LEMMA FollowsFollows ==
  ASSUME NEW a, NEW b, NEW c, IsBuffer(a), Follows(a, b), Follows(b, c)
  PROVE  Follows(a, c)
BY DEF Follows, IsBuffer, Same

LEMMA HasBitsKept ==
  ASSUME NEW D, NEW E, NEW p \in Nat, NEW n \in Nat, NEW v, NEW l \in Nat, NEW r \in Nat,
         HasBits(D, p, v, n), Same(D, E, l, r), l <= p, p + n <= r
  PROVE  HasBits(E, p, v, n)
BY DEF HasBits, Same

\* A field is put behind the buffer.
LEMMA PutIs ==
  ASSUME BitAssumption, NEW b, IsBuffer(b), NEW v \in Nat, NEW n \in Nat
  PROVE  /\ Follows(b, Put(b, v, n))
         /\ Put(b, v, n).at = b.at + n
         /\ HasBits(Put(b, v, n).data, b.at, v, n)
<1> DEFINE c == Put(b, v, n)
           one(i) == IsSet(v, n - 1 - i)
           O == {b.at + i : i \in {i \in 0 .. n - 1 : one(i)}}
<1>1. /\ b.data \in SUBSET Nat /\ b.at \in Nat /\ b.size \in Nat
      /\ b.data \subseteq 0 .. b.at - 1
  BY DEF IsBuffer
<1>2. Page \in Nat /\ Margin \in Nat
  BY DEF BitAssumption
<1>3. c.data = b.data \union O
  BY DEF Put, Ones
<1>4. /\ c.at = b.at + n
      /\ c.size = IF b.at \div 8 + n + Margin >= b.size THEN b.size + 2 * Page ELSE b.size
      /\ c = [data |-> c.data, size |-> c.size, at |-> c.at]
  BY DEF Put
<1> HIDE DEF c
<1>5. c.size \in Nat
  BY <1>1, <1>2, <1>4
<1> HIDE DEF one
<1>6. O \subseteq b.at .. b.at + n - 1
  BY <1>1
<1>7. \A i \in 0 .. n - 1 : b.at + i \in O <=> one(i)
  BY <1>1
<1> HIDE DEF O
<1>8. IsBuffer(c)
  <2>1. c.data \subseteq 0 .. c.at - 1 /\ c.data \in SUBSET Nat /\ c.at \in Nat
    BY <1>1, <1>3, <1>4, <1>6
  <2> QED
    BY <1>4, <1>5, <2>1 DEF IsBuffer
<1>9. Same(b.data, c.data, 0, b.at)
  BY <1>1, <1>3, <1>6 DEF Same
<1>10. \A i \in 0 .. n - 1 : b.at + i \in c.data <=> one(i)
  BY <1>1, <1>3, <1>7
<1>11. HasBits(c.data, b.at, v, n)
  BY <1>10 DEF HasBits, one
<1>12. Follows(b, c)
  BY <1>1, <1>4, <1>8, <1>9 DEF Follows
<1> QED
  BY <1>4, <1>11, <1>12 DEF c

\* A field of a word or two does not reach behind the end.
LEMMA PutFits ==
  ASSUME BitAssumption, NEW b, IsBuffer(b), NEW v \in Nat, NEW n \in 0 .. 2 * Word, Fits(b)
  PROVE  Fits(Put(b, v, n))
<1>1. /\ Page \in Nat /\ Margin \in Nat /\ Word \in Nat /\ 2 * Page > Word
      /\ b.at \in Nat /\ b.size \in Nat /\ b.at <= 8 * b.size
  BY DEF BitAssumption, IsBuffer, Fits
<1>2. /\ Put(b, v, n).at = b.at + n
      /\ Put(b, v, n).size = IF b.at \div 8 + n + Margin >= b.size
                             THEN b.size + 2 * Page ELSE b.size
  BY DEF Put
<1>3. CASE b.at \div 8 + n + Margin >= b.size
  BY <1>1, <1>2, <1>3 DEF Fits
<1>4. CASE ~(b.at \div 8 + n + Margin >= b.size)
  <2> DEFINE h == b.at \div 8
  <2>1. h \in Nat /\ b.at <= 8 * h + 7
    BY <1>1
  <2>2. h + n + Margin < b.size
    BY <1>1, <1>4
  <2> HIDE DEF h
  <2> QED
    BY <1>1, <1>2, <1>4, <2>1, <2>2 DEF Fits
<1> QED
  BY <1>3, <1>4

-----------------------------------------------------------------------------
(***************************************************************************)
(* Items.                                                                  *)
(***************************************************************************)
\* What the fields of the five codes may hold.
Coded(x) ==
  /\ x.code \in {"u", "size", "s", "ue", "se", "align", "video"}
  /\ x.code = "u" => x.n \in 0 .. Word /\ x.v \in 0 .. Pow2[x.n] - 1
  /\ x.code = "size" => x.n = 2 * Word /\ x.v = 0
  /\ x.code = "s" => x.n \in 1 .. Word /\ x.v + Pow2[x.n - 1] \in 0 .. Pow2[x.n] - 1 /\ x.v \in Int
  /\ x.code = "ue" => x.v \in 0 .. Pow2[Word] - 2
  /\ x.code = "se" => x.v + Pow2[Word - 1] \in 1 .. Pow2[Word] - 1 /\ x.v \in Int
  /\ x.code = "align" => x.v = 0
  /\ x.code = "video" => x.v \in Videos

\* The two's complement, and the number of a signed value.
Complement(v, n) == IF v >= 0 THEN v ELSE v + Pow2[n]
Mapped(v) == IF v <= 0 THEN -2 * v ELSE 2 * v - 1

SpellsUvlc(D, v, p, q) ==
  LET n == BitLength(v + 1)
  IN  /\ q = p + 2 * n - 1
      /\ HasBits(D, p, 0, n - 1)
      /\ HasBits(D, p + n - 1, v + 1, n)

\* The item x stands at p, and the next one at q.
Spells(D, x, p, q) ==
  /\ x.code = "u" => q = p + x.n /\ HasBits(D, p, x.v, x.n)
  /\ x.code = "size" => q = p + x.n
  /\ x.code = "s" => q = p + x.n /\ HasBits(D, p, Complement(x.v, x.n), x.n)
  /\ x.code = "ue" => SpellsUvlc(D, x.v, p, q)
  /\ x.code = "se" => SpellsUvlc(D, Mapped(x.v), p, q)
  /\ x.code = "align" => q = 8 * (p \div 8 + 1)
  /\ x.code = "video" =>
       /\ p % 8 = 0
       /\ q = p + Word + 8 * x.v.size
       /\ HasBits(D, p, x.v.size, Word)
       /\ \A o \in 0 .. 8 * x.v.size - 1 : p + Word + o \in D <=> o \in x.v.ones

\* The number of a signed value fits.
LEMMA MappedFits ==
  ASSUME BitAssumption, NEW v \in Int, v + Pow2[Word - 1] \in 1 .. Pow2[Word] - 1
  PROVE  Mapped(v) \in 0 .. Pow2[Word] - 2
<1>1. Word \in Nat /\ Word > 0
  BY DEF BitAssumption
<1>2. Pow2[Word] = 2 * Pow2[Word - 1] /\ Pow2[Word - 1] \in Nat
  BY <1>1, Pow2Recursive
<1> QED
  BY <1>1, <1>2 DEF Mapped

\* The complement is what PutS puts.
LEMMA ComplementFits ==
  ASSUME NEW n \in Nat \ {0}, NEW v \in Int, v + Pow2[n - 1] \in 0 .. Pow2[n] - 1
  PROVE  /\ Complement(v, n) \in 0 .. Pow2[n] - 1
         /\ \A b : PutS(b, v, n) = Put(b, Complement(v, n), n)
<1> DEFINE P == Pow2[n - 1]
<1>1. Pow2[n] = 2 * P /\ P \in Nat \ {0}
  BY Pow2Recursive, Pow2Type
<1>2. v + P \in 0 .. 2 * P - 1
  BY <1>1
<1>3. Complement(v, n) = IF v >= 0 THEN v ELSE v + 2 * P
  BY <1>1 DEF Complement
<1>4. \A b : PutS(b, v, n) = Put(b, IF v >= 0 THEN v ELSE (v % P) + P, n)
  BY DEF PutS
<1> HIDE DEF P
<1>5. Complement(v, n) \in 0 .. Pow2[n] - 1
  BY <1>1, <1>2, <1>3
<1>6. v < 0 => v % P = v + P
  <2>1. v < 0 => v + P \in 0 .. P - 1
    BY <1>1, <1>2
  <2>2. v = (v + P) - P
    BY <1>1
  <2> QED
    BY <1>1, <2>1, <2>2, NegativeRemainder
<1>7. (IF v >= 0 THEN v ELSE (v % P) + P) = Complement(v, n)
  BY <1>1, <1>3, <1>6
<1> QED
  BY <1>4, <1>5, <1>7

\* An item is kept with the bits of it.
LEMMA SpellsKept ==
  ASSUME BitAssumption, NEW D, NEW E, NEW p \in Nat, NEW q \in Nat, NEW l \in Nat, NEW r \in Nat, NEW x,
         Coded(x), Spells(D, x, p, q), l <= p, q <= r, Same(D, E, l, r)
  PROVE  Spells(E, x, p, q)
<1>w. Word \in Nat /\ Word > 0 /\ Videos \subseteq [size : 0 .. Pow2[Word] - 1, ones : SUBSET Nat]
  BY DEF BitAssumption
<1>1. CASE x.code = "u"
  BY <1>1, HasBitsKept DEF Spells, Coded
<1>2. CASE x.code = "size"
  BY <1>2 DEF Spells
<1>3. CASE x.code = "s"
  BY <1>3, HasBitsKept DEF Spells, Coded
<1>4. ASSUME NEW v \in 0 .. Pow2[Word] - 2, SpellsUvlc(D, v, p, q)
      PROVE  SpellsUvlc(E, v, p, q)
  <2>1. PICK n : n = BitLength(v + 1)
    OBVIOUS
  <2>2. n \in 1 .. Word
    BY <1>w, <2>1, BitLengthIs, Pow2Type
  <2>3. /\ q = p + 2 * n - 1
        /\ HasBits(D, p, 0, n - 1)
        /\ HasBits(D, p + n - 1, v + 1, n)
    BY <1>4, <2>1 DEF SpellsUvlc
  <2>4. HasBits(E, p, 0, n - 1)
    BY <2>2, <2>3, HasBitsKept
  <2>5. HasBits(E, p + n - 1, v + 1, n)
    <3>1. p + n - 1 \in Nat /\ p + n - 1 + n <= r /\ l <= p + n - 1
      BY <2>2, <2>3
    <3> QED
      BY <2>2, <2>3, <3>1, HasBitsKept
  <2> QED
    BY <2>1, <2>3, <2>4, <2>5 DEF SpellsUvlc
<1>5. CASE x.code = "ue"
  BY <1>4, <1>5 DEF Spells, Coded
<1>6. CASE x.code = "se"
  <2>1. Mapped(x.v) \in 0 .. Pow2[Word] - 2
    BY <1>6, MappedFits DEF Coded
  <2> QED
    BY <1>4, <1>6, <2>1 DEF Spells
<1>7. CASE x.code = "align"
  BY <1>7 DEF Spells
<1>8. CASE x.code = "video"
  <2>1. x.v.size \in Nat
    BY <1>w, <1>8, Pow2Type DEF Coded
  <2>2. /\ p % 8 = 0
        /\ q = p + Word + 8 * x.v.size
        /\ HasBits(D, p, x.v.size, Word)
        /\ \A o \in 0 .. 8 * x.v.size - 1 : p + Word + o \in D <=> o \in x.v.ones
    BY <1>8 DEF Spells
  <2>3. HasBits(E, p, x.v.size, Word)
    BY <1>w, <2>1, <2>2, HasBitsKept
  <2>4. \A o \in 0 .. 8 * x.v.size - 1 : p + Word + o \in E <=> o \in x.v.ones
    BY <1>w, <2>1, <2>2 DEF Same
  <2> QED
    BY <1>8, <2>2, <2>3, <2>4 DEF Spells
<1> QED
  BY <1>1, <1>2, <1>3, <1>5, <1>6, <1>7, <1>8 DEF Coded

-----------------------------------------------------------------------------
(***************************************************************************)
(* Writing an item.                                                        *)
(***************************************************************************)
\* An exponential Golomb code.
LEMMA UvlcIs ==
  ASSUME BitAssumption, NEW b, IsBuffer(b), NEW v \in 0 .. Pow2[Word] - 2
  PROVE  /\ Follows(b, PutUvlc(b, v))
         /\ SpellsUvlc(PutUvlc(b, v).data, v, b.at, PutUvlc(b, v).at)
         /\ Fits(b) => Fits(PutUvlc(b, v))
<1>1. PICK n : n = BitLength(v + 1)
  OBVIOUS
<1>2. PICK c : c = Put(b, 0, n - 1)
  OBVIOUS
<1>3. PICK d : d = Put(c, v + 1, n)
  OBVIOUS
<1>4. PutUvlc(b, v) = d
  BY <1>1, <1>2, <1>3 DEF PutUvlc
<1>5. Word \in Nat /\ n \in 1 .. Word
  <2>1. Word \in Nat
    BY DEF BitAssumption
  <2>2. Pow2[Word] \in Nat
    BY <2>1, Pow2Type
  <2> QED
    BY <1>1, <2>1, <2>2, BitLengthIs
<1>6. /\ Follows(b, c) /\ c.at = b.at + n - 1 /\ HasBits(c.data, b.at, 0, n - 1)
  <2>1. b.at \in Nat
    BY DEF IsBuffer
  <2>2. n - 1 \in Nat
    BY <1>5
  <2>3. /\ Follows(b, Put(b, 0, n - 1)) /\ Put(b, 0, n - 1).at = b.at + (n - 1)
        /\ HasBits(Put(b, 0, n - 1).data, b.at, 0, n - 1)
    BY <2>2, PutIs
  <2>4. b.at + (n - 1) = b.at + n - 1
    BY <1>5, <2>1
  <2> QED
    BY <1>2, <2>3, <2>4
<1>7. /\ Follows(c, d) /\ d.at = c.at + n /\ HasBits(d.data, c.at, v + 1, n)
  <2>1. IsBuffer(c)
    BY <1>6 DEF Follows
  <2>2. n \in Nat /\ v + 1 \in Nat
    BY <1>5
  <2> QED
    BY <1>3, <2>1, <2>2, PutIs
<1>8. Follows(b, d)
  BY <1>6, <1>7, FollowsFollows
<1>9. b.at \in Nat /\ c.at \in Nat /\ d.at \in Nat
  BY <1>6, <1>7 DEF Follows, IsBuffer
<1>10. HasBits(d.data, b.at, 0, n - 1)
  BY <1>5, <1>6, <1>7, <1>9, HasBitsKept DEF Follows
<1>11. SpellsUvlc(d.data, v, b.at, d.at)
  BY <1>1, <1>5, <1>6, <1>7, <1>9, <1>10 DEF SpellsUvlc
<1>12. Fits(b) => Fits(d)
  <2>1. Fits(b) => Fits(c)
    BY <1>2, <1>5, PutFits
  <2>2. Fits(c) => Fits(d)
    BY <1>3, <1>5, <1>6, PutFits DEF Follows
  <2> QED
    BY <2>1, <2>2
<1> QED
  BY <1>4, <1>8, <1>11, <1>12

\* The alignment of a byte.
LEMMA AlignmentIs ==
  ASSUME BitAssumption, NEW b, IsBuffer(b)
  PROVE  /\ Follows(b, PutAlignment(b))
         /\ PutAlignment(b).at = 8 * (b.at \div 8 + 1)
         /\ Fits(b) => Fits(PutAlignment(b))
<1>1. PICK c : c = Put(b, 1, 1)
  OBVIOUS
<1>2. PICK d : d = Put(c, 0, 1)
  OBVIOUS
<1>3. Follows(b, c) /\ c.at = b.at + 1 /\ b.at \in Nat
  BY <1>1, PutIs DEF IsBuffer
<1>4. Follows(c, d) /\ d.at = c.at + 1
  <2>1. IsBuffer(c)
    BY <1>3 DEF Follows
  <2> QED
    BY <1>2, <2>1, PutIs
<1>w. Word \in Nat /\ Word > 0
  BY DEF BitAssumption
<1>5. Fits(b) => Fits(c)
  BY <1>1, <1>w, PutFits
<1>6. CASE c.at % 8 = 0
  <2>1. PutAlignment(b) = c
    BY <1>1, <1>6 DEF PutAlignment, ZerosToByte
  <2>2. c.at = 8 * (b.at \div 8 + 1)
    BY <1>3, <1>6, NextByte
  <2> QED
    BY <1>3, <1>5, <2>1, <2>2
<1>7. CASE c.at % 8 # 0
  <2> DEFINE r == 8 * (c.at \div 8 + 1)
             e == [d EXCEPT !.at = r]
  <2>1. PutAlignment(b) = e
    BY <1>1, <1>2, <1>7 DEF PutAlignment, ZerosToByte
  <2>2. r = 8 * (b.at \div 8 + 1) /\ r > c.at /\ r \in Nat
    <3>1. PICK p : p = b.at
      OBVIOUS
    <3>2. p \in Nat /\ c.at = p + 1 /\ (p + 1) % 8 # 0
      BY <1>3, <1>7, <3>1
    <3>3. /\ 8 * ((p + 1) \div 8 + 1) = 8 * (p \div 8 + 1)
          /\ 8 * ((p + 1) \div 8 + 1) > p + 1
      BY <3>2, NextByte
    <3>4. 8 * ((p + 1) \div 8 + 1) \in Nat
      BY <3>2
    <3> QED
      BY <3>1, <3>2, <3>3, <3>4
  <2>3. /\ d \in [data : SUBSET Nat, size : Nat, at : Nat]
        /\ d.data \subseteq 0 .. d.at - 1
        /\ c.at \in Nat
    BY <1>3, <1>4 DEF Follows, IsBuffer
  <2> HIDE DEF r
  <2>4. e.data = d.data /\ e.at = r /\ e.size = d.size /\ e \in [data : SUBSET Nat, size : Nat, at : Nat]
    BY <2>2, <2>3
  <2> HIDE DEF e
  <2>5. Follows(c, e)
    BY <1>4, <2>2, <2>3, <2>4 DEF Follows, IsBuffer, Same
  <2>6. Follows(b, e)
    BY <1>3, <2>5, FollowsFollows
  <2>7. Fits(b) => Fits(e)
    <3>1. Fits(b) => Fits(d)
      BY <1>2, <1>3, <1>5, <1>w, PutFits DEF Follows
    <3>2. d.at <= 8 * d.size => r <= 8 * d.size
      BY <1>3, <1>4, <1>7, <2>3 DEF r
    <3> QED
      BY <2>4, <3>1, <3>2 DEF Fits
  <2> QED
    BY <2>1, <2>2, <2>4, <2>6, <2>7
<1> QED
  BY <1>6, <1>7

\* A buffer grows by more than is asked for.
LEMMA GrownBy ==
  ASSUME BitAssumption, NEW n \in Nat
  PROVE  (n \div Page + 1) * Page \in Nat /\ (n \div Page + 1) * Page > n
<1>1. Page \in Nat \ {0}
  BY DEF BitAssumption
<1>2. PICK q : q = n \div Page
  OBVIOUS
<1>3. q \in Nat /\ n < Page * q + Page
  BY <1>1, <1>2
<1>4. (q + 1) * Page = Page * q + Page
  BY <1>1, <1>3
<1> QED
  BY <1>1, <1>2, <1>3, <1>4

\* A video at the border of a byte.
LEMMA VideoIs ==
  ASSUME BitAssumption, NEW b, IsBuffer(b), b.at % 8 = 0, NEW w \in Videos
  PROVE  LET c == PutVideo(b, w)
         IN  /\ Follows(b, c)
             /\ c.at = b.at + Word + 8 * w.size
             /\ HasBits(c.data, b.at, w.size, Word)
             /\ \A o \in 0 .. 8 * w.size - 1 : b.at + Word + o \in c.data <=> o \in w.ones
             /\ c.at % 8 = 0
             /\ \A room \in Int : b.at + room <= 8 * b.size => c.at + room - Word <= 8 * c.size
<1>w. /\ Word \in Nat /\ Word > 0 /\ Word % 8 = 0 /\ Margin \in Nat /\ Page \in Nat
      /\ w.size \in Nat /\ w.ones \in SUBSET Nat /\ w.ones \subseteq 0 .. 8 * w.size - 1
  BY Pow2Type DEF BitAssumption
<1>n. PICK n : n = w.size
  OBVIOUS
<1>o. PICK ones : ones = w.ones
  OBVIOUS
<1>1. PICK g : g = Grown(b, n)
  OBVIOUS
<1>2. /\ IsBuffer(g) /\ g.data = b.data /\ g.at = b.at /\ g.size >= b.size + n + 1
      /\ b.at \in Nat /\ b.size \in Nat /\ b.data \subseteq 0 .. b.at - 1
  <2>1. b \in [data : SUBSET Nat, size : Nat, at : Nat] /\ b.data \subseteq 0 .. b.at - 1
    BY DEF IsBuffer
  <2>2. PICK more : more = (n \div Page + 1) * Page
    OBVIOUS
  <2>3. more \in Nat /\ more > n /\ n \in Nat
    BY <1>w, <1>n, <2>2, GrownBy
  <2>4. g = [b EXCEPT !.size = @ + more]
    BY <1>1, <2>2 DEF Grown
  <2>5. /\ g.data = b.data /\ g.at = b.at /\ g.size = b.size + more
        /\ g \in [data : SUBSET Nat, size : Nat, at : Nat]
    BY <2>1, <2>3, <2>4
  <2> QED
    BY <2>1, <2>3, <2>5 DEF IsBuffer
<1>3. PICK s : s = Put(g, n, Word)
  OBVIOUS
<1>4. Follows(g, s) /\ s.at = g.at + Word /\ HasBits(s.data, g.at, n, Word)
  BY <1>w, <1>n, <1>2, <1>3, PutIs
<1>5. s.size >= g.size /\ s.size \in Nat
  BY <1>2, <1>3, <1>w DEF Put, IsBuffer
<1>6. /\ s \in [data : SUBSET Nat, size : Nat, at : Nat] /\ s.data \subseteq 0 .. s.at - 1
      /\ s.at = b.at + Word
  BY <1>2, <1>4 DEF Follows, IsBuffer
<1>7. 8 * (s.at \div 8) = s.at
  BY <1>2, <1>6, <1>w
<1> DEFINE V == {s.at + o : o \in ones}
           Z == s.data \ (s.at .. s.at + 8 * n - 1)
<1>c. PICK c : c = PutVideo(b, w)
  OBVIOUS
<1>8. /\ c = [data |-> Z \union V, size |-> s.size, at |-> s.at + 8 * n]
      /\ PutVideo(b, w) = c
  <2>1. c = LET byte == 8 * (s.at \div 8)
            IN  [data |-> (s.data \ (byte .. byte + 8 * n - 1)) \union {byte + o : o \in ones},
                 size |-> s.size, at |-> s.at + 8 * n]
    BY <1>1, <1>3, <1>c, <1>n, <1>o DEF PutVideo
  <2>2. PICK byte : byte = 8 * (s.at \div 8)
    OBVIOUS
  <2>3. c = [data |-> (s.data \ (byte .. byte + 8 * n - 1)) \union {byte + o : o \in ones},
             size |-> s.size, at |-> s.at + 8 * n]
    BY <2>1, <2>2, Zenon
  <2>4. byte = s.at
    BY <1>7, <2>2
  <2> QED
    BY <1>c, <2>3, <2>4
<1>9. Z = s.data
  BY <1>2, <1>6, <1>n, <1>w
<1> HIDE DEF Z
<1>10. V \subseteq s.at .. s.at + 8 * n - 1 /\ V \in SUBSET Nat
  BY <1>2, <1>6, <1>n, <1>o, <1>w
<1>11. \A o \in 0 .. 8 * n - 1 : s.at + o \in V <=> o \in ones
  BY <1>2, <1>6, <1>n, <1>o, <1>w
<1> HIDE DEF V
<1>12. /\ c \in [data : SUBSET Nat, size : Nat, at : Nat]
       /\ c.data = s.data \union V /\ c.at = s.at + 8 * n /\ c.size = s.size
  <2>1. PICK D : D = s.data \union V
    OBVIOUS
  <2>2. PICK a : a = s.at + 8 * n
    OBVIOUS
  <2>3. D \in SUBSET Nat /\ a \in Nat
    <3>1. s.data \in SUBSET Nat /\ s.at \in Nat
      BY <1>6
    <3>2. D \in SUBSET Nat
      BY <1>10, <2>1, <3>1
    <3>3. a \in Nat
      BY <1>n, <1>w, <2>2, <3>1
    <3> QED
      BY <3>2, <3>3
  <2>4. c = [data |-> D, size |-> s.size, at |-> a]
    BY <1>8, <1>9, <2>1, <2>2
  <2>5. c \in [data : SUBSET Nat, size : Nat, at : Nat] /\ c.data = D /\ c.at = a /\ c.size = s.size
    BY <1>6, <2>3, <2>4
  <2> QED
    BY <2>1, <2>2, <2>5
<1>13. Follows(s, c)
  <2>1. c.data \subseteq 0 .. c.at - 1
    BY <1>2, <1>6, <1>10, <1>12, <1>n, <1>w
  <2>2. Same(s.data, c.data, 0, s.at)
    BY <1>6, <1>10, <1>12 DEF Same
  <2> QED
    BY <1>6, <1>12, <1>n, <1>w, <2>1, <2>2 DEF Follows, IsBuffer
<1>14. Follows(b, c)
  <2>1. Follows(b, s)
    BY <1>2, <1>4 DEF Follows
  <2> QED
    BY <1>13, <2>1, FollowsFollows
<1>15. HasBits(c.data, b.at, n, Word)
  <2>1. Same(s.data, c.data, 0, s.at)
    BY <1>13 DEF Follows
  <2> QED
    BY <1>2, <1>4, <1>6, <1>w, <2>1, HasBitsKept
<1>16. \A o \in 0 .. 8 * n - 1 : b.at + Word + o \in c.data <=> o \in ones
  BY <1>2, <1>6, <1>11, <1>12, <1>n, <1>w
<1>17. c.at = b.at + Word + 8 * n
  BY <1>6, <1>12
<1>18. c.at % 8 = 0
  BY <1>2, <1>17, <1>n, <1>w
<1>19. \A room \in Int : b.at + room <= 8 * b.size => c.at + room - Word <= 8 * c.size
  <2>1. c.size >= b.size + n + 1
    BY <1>2, <1>5, <1>6, <1>12, <1>n, <1>w DEF IsBuffer
  <2> QED
    BY <1>2, <1>6, <1>12, <1>17, <1>n, <1>w, <2>1
<1> QED
  BY <1>8, <1>14, <1>15, <1>16, <1>17, <1>18, <1>19, <1>n, <1>o

\* Every item is spelled where it is put, and nothing before it is changed.
LEMMA ItemIs ==
  ASSUME BitAssumption, NEW b, IsBuffer(b), NEW x, Coded(x),
         x.code = "video" => b.at % 8 = 0
  PROVE  /\ Follows(b, PutItem(b, x))
         /\ Spells(PutItem(b, x).data, x, b.at, PutItem(b, x).at)
         /\ Fits(b) /\ x.code # "video" => Fits(PutItem(b, x))
<1>1. PICK c : c = PutItem(b, x)
  OBVIOUS
<1>w. Word \in Nat
  BY DEF BitAssumption
<1>2. ASSUME x.code \in {"u", "size"}
      PROVE  Follows(b, c) /\ Spells(c.data, x, b.at, c.at) /\ (Fits(b) => Fits(c))
  <2>1. c = Put(b, x.v, x.n)
    BY <1>1, <1>2 DEF PutItem
  <2>2. x.n \in 0 .. 2 * Word /\ x.v \in Nat /\ x.n \in Nat
    BY <1>2, <1>w, Pow2Type DEF Coded
  <2>3. Follows(b, c) /\ c.at = b.at + x.n /\ HasBits(c.data, b.at, x.v, x.n)
    BY <2>1, <2>2, PutIs
  <2>4. Fits(b) => Fits(c)
    BY <2>1, <2>2, PutFits
  <2> QED
    BY <1>2, <2>3, <2>4 DEF Spells
<1>3. ASSUME x.code = "s"
      PROVE  Follows(b, c) /\ Spells(c.data, x, b.at, c.at) /\ (Fits(b) => Fits(c))
  <2>1. x.n \in 1 .. Word /\ x.v + Pow2[x.n - 1] \in 0 .. Pow2[x.n] - 1 /\ x.v \in Int
    BY <1>3 DEF Coded
  <2>2. x.n \in Nat \ {0} /\ x.n \in 0 .. 2 * Word
    BY <1>w, <2>1
  <2>3. PICK v : v = Complement(x.v, x.n)
    OBVIOUS
  <2>4. v \in 0 .. Pow2[x.n] - 1 /\ PutS(b, x.v, x.n) = Put(b, v, x.n)
    BY <2>1, <2>2, <2>3, ComplementFits
  <2>5. c = Put(b, v, x.n)
    BY <1>1, <1>3, <2>4 DEF PutItem
  <2>6. v \in Nat
    BY <2>2, <2>4, Pow2Type
  <2>7. Follows(b, c) /\ c.at = b.at + x.n /\ HasBits(c.data, b.at, v, x.n)
    BY <2>2, <2>5, <2>6, PutIs
  <2>8. Fits(b) => Fits(c)
    BY <2>2, <2>5, <2>6, PutFits
  <2> QED
    BY <1>3, <2>3, <2>7, <2>8 DEF Spells
<1>4. ASSUME x.code = "ue"
      PROVE  Follows(b, c) /\ Spells(c.data, x, b.at, c.at) /\ (Fits(b) => Fits(c))
  <2>1. c = PutUvlc(b, x.v) /\ x.v \in 0 .. Pow2[Word] - 2
    BY <1>1, <1>4 DEF PutItem, Coded
  <2>2. Follows(b, c) /\ SpellsUvlc(c.data, x.v, b.at, c.at) /\ (Fits(b) => Fits(c))
    BY <2>1, UvlcIs
  <2> QED
    BY <1>4, <2>2 DEF Spells
<1>5. ASSUME x.code = "se"
      PROVE  Follows(b, c) /\ Spells(c.data, x, b.at, c.at) /\ (Fits(b) => Fits(c))
  <2>1. c = PutUvlc(b, Mapped(x.v)) /\ Mapped(x.v) \in 0 .. Pow2[Word] - 2
    <3>1. Mapped(x.v) \in 0 .. Pow2[Word] - 2
      BY <1>5, MappedFits DEF Coded
    <3> QED
      BY <1>1, <1>5, <3>1 DEF PutItem, PutSvlc, Mapped
  <2>2. Follows(b, c) /\ SpellsUvlc(c.data, Mapped(x.v), b.at, c.at) /\ (Fits(b) => Fits(c))
    BY <2>1, UvlcIs
  <2> QED
    BY <1>5, <2>2 DEF Spells
<1>6. ASSUME x.code = "align"
      PROVE  Follows(b, c) /\ Spells(c.data, x, b.at, c.at) /\ (Fits(b) => Fits(c))
  <2>1. c = PutAlignment(b)
    BY <1>1, <1>6 DEF PutItem
  <2> QED
    BY <1>6, <2>1, AlignmentIs DEF Spells
<1>7. ASSUME x.code = "video"
      PROVE  Follows(b, c) /\ Spells(c.data, x, b.at, c.at)
  <2>1. c = PutVideo(b, x.v) /\ x.v \in Videos
    BY <1>1, <1>7 DEF PutItem, Coded
  <2> QED
    BY <1>7, <2>1, VideoIs DEF Spells
<1> QED
  BY <1>1, <1>2, <1>3, <1>4, <1>5, <1>6, <1>7 DEF Coded

-----------------------------------------------------------------------------
(***************************************************************************)
(* Reading an item.                                                        *)
(***************************************************************************)
\* A field is the value whose bits are there.
LEMMA GetIs ==
  ASSUME BitAssumption, NEW p \in Nat, NEW n \in 0 .. Word, NEW v \in 0 .. Pow2[n] - 1,
         HasBits(data, p, v, n)
  PROVE  Get(p, n) = v
<1>w. Word \in Nat /\ n \in Nat /\ v \in Nat /\ v < Pow2[n]
  BY Pow2Type DEF BitAssumption
<1> DEFINE bits == [i \in 1 .. n |-> IF p + i - 1 \in data THEN 1 ELSE 0]
<1>1. bits = Field(v, n)
  <2>1. ASSUME NEW i \in 1 .. n
        PROVE  (IF p + i - 1 \in data THEN 1 ELSE 0) = (v \div Pow2[n - i]) % 2
    <3>1. PICK q : q = v \div Pow2[n - i]
      OBVIOUS
    <3>2. q \in Nat
      <4>1. Pow2[n - i] \in Nat \ {0}
        BY <1>w, Pow2Type
      <4> QED
        BY <1>w, <3>1, <4>1
    <3>3. q % 2 \in {0, 1}
      BY <3>2
    <3>4. p + i - 1 \in data <=> q % 2 = 1
      <4>1. i - 1 \in 0 .. n - 1 /\ p + (i - 1) = p + i - 1 /\ n - 1 - (i - 1) = n - i /\ n - i < Word
        BY <1>w
      <4>2. p + (i - 1) \in data <=> IsSet(v, n - 1 - (i - 1))
        BY <4>1 DEF HasBits
      <4>3. IsSet(v, n - i) <=> q % 2 = 1
        BY <4>1, <3>1 DEF IsSet
      <4> QED
        BY <4>1, <4>2, <4>3
    <3> QED
      BY <3>1, <3>3, <3>4
  <2> QED
    BY <2>1 DEF Field
<1>2. Get(p, n) = Value(bits)
  BY DEF Get
<1> HIDE DEF bits
<1> QED
  BY <1>1, <1>2, <1>w, ValueOfField

\* An exponential Golomb code is found by its first 1.
LEMMA GetUvlcIs ==
  ASSUME BitAssumption, data \in SUBSET Nat, NEW p \in Nat, NEW q,
         NEW v \in 0 .. Pow2[Word] - 2, SpellsUvlc(data, v, p, q)
  PROVE  GetUvlc(p) = v /\ p + 2 * Zeros(p) + 1 = q
<1>1. PICK n : n = BitLength(v + 1)
  OBVIOUS
<1>2. Word \in Nat /\ n \in 1 .. Word /\ Pow2[n - 1] <= v + 1 /\ v + 1 < Pow2[n]
  <2>1. Word \in Nat
    BY DEF BitAssumption
  <2>2. Pow2[Word] \in Nat
    BY <2>1, Pow2Type
  <2> QED
    BY <1>1, <2>1, <2>2, BitLengthIs
<1>3. /\ q = p + 2 * n - 1
      /\ HasBits(data, p, 0, n - 1)
      /\ HasBits(data, p + n - 1, v + 1, n)
  BY <1>1 DEF SpellsUvlc
<1>p. PICK P : P = Pow2[n - 1]
  OBVIOUS
<1>4. P \in Nat \ {0} /\ Pow2[n] = 2 * P /\ n - 1 \in Nat
  BY <1>2, <1>p, Pow2Type, Pow2Recursive
<1>5. \A y \in p .. p + n - 2 : y \notin data
  <2>1. ASSUME NEW y \in p .. p + n - 2 PROVE y \notin data
    <3>1. y - p \in 0 .. (n - 1) - 1 /\ p + (y - p) = y
      BY <1>2
    <3>2. y \in data <=> IsSet(0, n - 1 - 1 - (y - p))
      BY <1>3, <3>1 DEF HasBits
    <3>3. PICK k : k = n - 1 - 1 - (y - p)
      OBVIOUS
    <3>4. k \in Nat
      BY <1>2, <3>3
    <3>5. Pow2[k] \in Nat \ {0}
      BY <3>4, Pow2Type
    <3>6. (0 \div Pow2[k]) % 2 = 0
      BY <3>5
    <3> QED
      BY <3>2, <3>3, <3>6 DEF IsSet
  <2> QED
    BY <2>1
<1>6. p + n - 1 \in data
  <2>1. 0 \in 0 .. n - 1 /\ p + n - 1 + 0 = p + n - 1 /\ n - 1 - 0 = n - 1 /\ n - 1 < Word
    BY <1>2
  <2>2. p + n - 1 + 0 \in data <=> IsSet(v + 1, n - 1 - 0)
    BY <1>3, <2>1 DEF HasBits
  <2>3. (v + 1) \div P = 1
    <3>1. P <= v + 1 /\ v + 1 < 2 * P /\ v + 1 \in Nat
      BY <1>2, <1>4, <1>p
    <3> QED
      BY <1>4, <3>1, QuotientOne
  <2>4. IsSet(v + 1, n - 1)
    BY <1>p, <2>1, <2>3 DEF IsSet
  <2> QED
    BY <2>1, <2>2, <2>4
<1>7. Zeros(p) = n - 1
  <2>1. CASE n = 1
    BY <1>6, <2>1 DEF Zeros
  <2>2. CASE n # 1
    <3> DEFINE S == {y \in data : y > p}
               m == p + n - 1
    <3>1. p \notin data
      BY <1>2, <1>5, <2>2
    <3>2. m \in S /\ m \in Int
      BY <1>2, <1>6, <2>2
    <3>3. \A y \in S : m <= y
      BY <1>2, <1>5
    <3>4. S \in SUBSET Nat
      OBVIOUS
    <3>5. Zeros(p) = Min(S) - p
      BY <3>1 DEF Zeros
    <3> HIDE DEF S, m
    <3>6. \A y \in S : (\A z \in S : y <= z) => y = m
      BY <3>2, <3>3, <3>4
    <3>7. Min(S) = m
      BY <3>2, <3>3, <3>6 DEF Min
    <3> QED
      BY <1>2, <3>5, <3>7 DEF m
  <2> QED
    BY <2>1, <2>2
<1>8. HasBits(data, p + n, v + 1 - P, n - 1)
  <2>1. ASSUME NEW i \in 0 .. (n - 1) - 1
        PROVE  p + n + i \in data <=> IsSet(v + 1 - P, (n - 1) - 1 - i)
    <3>1. PICK k : k = (n - 1) - 1 - i
      OBVIOUS
    <3>2. k \in Nat /\ k < n - 1 /\ i + 1 \in 0 .. n - 1 /\ n - 1 - (i + 1) = k
      BY <1>2, <3>1
    <3>3. p + n - 1 + (i + 1) = p + n + i
      BY <1>2
    <3>4. p + n + i \in data <=> IsSet(v + 1, k)
      BY <1>3, <3>2, <3>3 DEF HasBits
    <3>5. ((v + 1 - P) \div Pow2[k]) % 2 = ((v + 1) \div Pow2[k]) % 2
      BY <1>2, <1>4, <1>p, <3>2, WithoutTopBit
    <3> QED
      BY <3>1, <3>4, <3>5 DEF IsSet
  <2> QED
    BY <2>1 DEF HasBits
<1>9. v + 1 - P \in 0 .. Pow2[n - 1] - 1
  BY <1>2, <1>4, <1>p
<1>10. Get(p + n, n - 1) = v + 1 - P
  <2>1. p + n \in Nat /\ n - 1 \in 0 .. Word
    BY <1>2
  <2> QED
    BY <1>8, <1>9, <2>1, GetIs
<1>11. GetUvlc(p) = Get(p + (n - 1) + 1, n - 1) + P - 1
  BY <1>7, <1>p DEF GetUvlc
<1>12. p + (n - 1) + 1 = p + n /\ p + 2 * (n - 1) + 1 = p + 2 * n - 1
  BY <1>2
<1> QED
  BY <1>3, <1>4, <1>7, <1>10, <1>11, <1>12

\* An item that is spelled where the reader is, is what the reader finds.
LEMMA ReadIs ==
  ASSUME BitAssumption, data \in SUBSET Nat, readAt \in Nat, NEW x, NEW q,
         Coded(x), Spells(data, x, readAt, q)
  PROVE  Read(x.code, x.n) = [v |-> x.v, at |-> q]
<1>w. Word \in Nat /\ Word > 0 /\ Word % 8 = 0
  BY DEF BitAssumption
<1>1. CASE x.code = "u"
  <2>1. x.n \in 0 .. Word /\ x.v \in 0 .. Pow2[x.n] - 1 /\ q = readAt + x.n
        /\ HasBits(data, readAt, x.v, x.n)
    BY <1>1 DEF Coded, Spells
  <2>2. Get(readAt, x.n) = x.v
    BY <2>1, GetIs
  <2> QED
    BY <1>1, <2>1, <2>2 DEF Read
<1>2. CASE x.code = "size"
  BY <1>2 DEF Read, Coded, Spells
<1>3. CASE x.code = "s"
  <2>1. x.n \in 1 .. Word /\ x.v + Pow2[x.n - 1] \in 0 .. Pow2[x.n] - 1 /\ x.v \in Int
        /\ q = readAt + x.n /\ HasBits(data, readAt, Complement(x.v, x.n), x.n)
    BY <1>3 DEF Coded, Spells
  <2>2. x.n \in Nat \ {0} /\ x.n \in 0 .. Word
    BY <1>w, <2>1
  <2>3. PICK v : v = Complement(x.v, x.n)
    OBVIOUS
  <2>4. v \in 0 .. Pow2[x.n] - 1
    BY <2>1, <2>2, <2>3, ComplementFits
  <2>5. Get(readAt, x.n) = v
    BY <2>1, <2>2, <2>3, <2>4, GetIs
  <2>6. Pow2[x.n] = 2 * Pow2[x.n - 1] /\ Pow2[x.n - 1] \in Nat
    BY <2>2, Pow2Recursive
  <2>7. v = IF x.v >= 0 THEN x.v ELSE x.v + Pow2[x.n]
    BY <2>3 DEF Complement
  <2>8. GetS(readAt, x.n) = IF v < Pow2[x.n - 1] THEN v ELSE v - Pow2[x.n]
    BY <2>5 DEF GetS
  <2>9. GetS(readAt, x.n) = x.v
    BY <2>1, <2>6, <2>7, <2>8
  <2> QED
    BY <1>3, <2>1, <2>9 DEF Read
<1>4. CASE x.code = "ue"
  <2>1. GetUvlc(readAt) = x.v /\ readAt + 2 * Zeros(readAt) + 1 = q
    BY <1>4, GetUvlcIs DEF Coded, Spells
  <2> QED
    BY <1>4, <2>1 DEF Read
<1>5. CASE x.code = "se"
  <2>1. PICK m : m = Mapped(x.v)
    OBVIOUS
  <2>2. m \in 0 .. Pow2[Word] - 2
    BY <1>5, <2>1, MappedFits DEF Coded
  <2>3. GetUvlc(readAt) = m /\ readAt + 2 * Zeros(readAt) + 1 = q
    BY <1>5, <2>1, <2>2, GetUvlcIs DEF Spells
  <2>4. m = (IF x.v <= 0 THEN -2 * x.v ELSE 2 * x.v - 1) /\ x.v \in Int
    BY <1>5, <2>1 DEF Mapped, Coded
  <2>5. (IF m % 2 = 1 THEN m \div 2 + 1 ELSE -(m \div 2)) = x.v
    <3>1. m \in Int
      BY <2>4
    <3> QED
      BY <2>4, <3>1, MappedBack
  <2>6. GetSvlc(readAt) = x.v
    BY <2>3, <2>5 DEF GetSvlc
  <2> QED
    BY <1>5, <2>3, <2>6 DEF Read
<1>6. CASE x.code = "align"
  BY <1>6 DEF Read, Coded, Spells
<1>7. CASE x.code = "video"
  <2>1. x.v \in Videos
    BY <1>7 DEF Coded
  <2>2. /\ x.v \in [size : 0 .. Pow2[Word] - 1, ones : SUBSET Nat]
        /\ x.v.ones \subseteq 0 .. 8 * x.v.size - 1
    BY <2>1 DEF BitAssumption
  <2>3. PICK n : n = x.v.size
    OBVIOUS
  <2>4. PICK ones : ones = x.v.ones
    OBVIOUS
  <2>5. x.v = [size |-> n, ones |-> ones] /\ n \in 0 .. Pow2[Word] - 1 /\ ones \subseteq 0 .. 8 * n - 1
    BY <2>2, <2>3, <2>4
  <2>6. /\ readAt % 8 = 0
        /\ q = readAt + Word + 8 * n
        /\ HasBits(data, readAt, n, Word)
        /\ \A o \in 0 .. 8 * n - 1 : readAt + Word + o \in data <=> o \in ones
    BY <1>7, <2>3, <2>4 DEF Spells
  <2>7. Get(readAt, Word) = n
    BY <1>w, <2>5, <2>6, GetIs
  <2>8. 8 * ((readAt + Word) \div 8) = readAt + Word
    BY <1>w, <2>6
  <2>9. {o \in 0 .. 8 * n - 1 : readAt + Word + o \in data} = ones
    BY <2>5, <2>6
  <2>10. GetVideo(readAt) = [size |-> n, ones |-> ones]
    BY <2>7, <2>8, <2>9 DEF GetVideo
  <2>11. GetVideo(readAt) = x.v /\ GetVideo(readAt).size = n
    BY <2>5, <2>10
  <2> QED
    BY <1>7, <2>6, <2>11 DEF Read
<1> QED
  BY <1>1, <1>2, <1>3, <1>4, <1>5, <1>6, <1>7 DEF Coded

-----------------------------------------------------------------------------
(***************************************************************************)
(* The invariant.                                                          *)
(***************************************************************************)
\* The items ws stand one behind the other in D, item k at pos[k], and end
\* at the position a.
Laid(D, a, ws, pos) ==
  /\ pos \in [1 .. Len(ws) + 1 -> Nat]
  /\ pos[1] = 0 /\ pos[Len(ws) + 1] = a
  /\ \A k \in 1 .. Len(ws) :
       Coded(ws[k]) /\ Spells(D, ws[k], pos[k], pos[k + 1]) /\ pos[k + 1] <= a

\* The place of the size is the third item, and the others are around it.
HeaderLaid(ws, pos) ==
  /\ Len(ws) >= 3
  /\ ws[3].code = "size"
  /\ pos[2] = Word /\ pos[3] = 2 * Word
  /\ \A k \in 4 .. Len(ws) + 1 : pos[k] >= 4 * Word

\* What has been read, and where the reader is.
ReaderAt(g, r, ws, pos) ==
  /\ Len(g) <= Len(ws)
  /\ r = pos[Len(g) + 1]
  /\ \A k \in 1 .. Len(g) : g[k] = ws[k].v

Buffers ==
  /\ IsBuffer(Buffer)
  /\ unit \in 0 .. Closed + 1 /\ count \in Nat
  /\ IsSeq(written) /\ IsSeq(got)
  /\ unit = 0 => at = 0 /\ written = <<>>
  /\ unit # 0 => sizeAt = 2 * Word
  /\ unit <= Closed => got = <<>> /\ readAt = 0

\* Videos start at the border of a byte, and the buffer has room for the
\* words of those that may still follow.
Room ==
  /\ at <= 8 * size
  /\ OfVideos =>
       /\ at % 8 = 0
       /\ count = 1 => at + 3 * Word <= 8 * size
       /\ count = 2 => at + 2 * Word <= 8 * size
       /\ count = 3 => at + Word <= 8 * size

Laying ==
  \E pos : /\ Laid(data, at, written, pos)
           /\ unit # 0 => HeaderLaid(written, pos)
           /\ ReaderAt(got, readAt, written, pos)

Kept == Buffers /\ Room /\ Laying

\* An item more.
LEMMA LaidAppend ==
  ASSUME BitAssumption, NEW b, IsBuffer(b), NEW c, Follows(b, c), NEW ws, IsSeq(ws),
         NEW pos, Laid(b.data, b.at, ws, pos), NEW x, Coded(x), Spells(c.data, x, b.at, c.at)
  PROVE  \E new : /\ Laid(c.data, c.at, Append(ws, x), new)
                  /\ \A k \in 1 .. Len(ws) + 1 : new[k] = pos[k]
                  /\ new[Len(ws) + 2] = c.at
<1> DEFINE n == Len(ws)
           ys == Append(ws, x)
           new == [k \in 1 .. n + 2 |-> IF k <= n + 1 THEN pos[k] ELSE c.at]
<1>1. /\ n \in Nat /\ Len(ys) = n + 1 /\ ys[n + 1] = x
      /\ \A k \in 1 .. n : ys[k] = ws[k]
  BY AppendIs DEF IsSeq
<1>2. /\ b.at \in Nat /\ c.at \in Nat /\ b.at <= c.at /\ Same(b.data, c.data, 0, b.at)
  BY DEF Follows, IsBuffer
<1>3. /\ pos \in [1 .. n + 1 -> Nat] /\ pos[1] = 0 /\ pos[n + 1] = b.at
      /\ \A k \in 1 .. n :
           Coded(ws[k]) /\ Spells(b.data, ws[k], pos[k], pos[k + 1]) /\ pos[k + 1] <= b.at
  BY DEF Laid
<1> HIDE DEF n, ys
<1>4. /\ new \in [1 .. n + 2 -> Nat] /\ \A k \in 1 .. n + 1 : new[k] = pos[k]
      /\ new[n + 2] = c.at
  BY <1>1, <1>2, <1>3
<1> HIDE DEF new
<1>5. ASSUME NEW k \in 1 .. n + 1
      PROVE  Coded(ys[k]) /\ Spells(c.data, ys[k], new[k], new[k + 1]) /\ new[k + 1] <= c.at
  <2>1. CASE k = n + 1
    BY <1>1, <1>2, <1>3, <1>4, <2>1
  <2>2. CASE k # n + 1
    <3>1. k \in 1 .. n /\ k + 1 \in 1 .. n + 1 /\ k \in 1 .. n + 1
      BY <1>1, <2>2
    <3>2. ys[k] = ws[k] /\ new[k] = pos[k] /\ new[k + 1] = pos[k + 1]
      BY <1>1, <1>4, <3>1
    <3>3. pos[k] \in Nat /\ pos[k + 1] \in Nat /\ pos[k + 1] <= b.at
      BY <1>3, <3>1
    <3>4. Coded(ws[k]) /\ Spells(b.data, ws[k], pos[k], pos[k + 1])
      BY <1>3, <3>1
    <3>5. Spells(c.data, ws[k], pos[k], pos[k + 1])
      BY <1>2, <3>3, <3>4, SpellsKept
    <3> QED
      BY <1>2, <3>2, <3>3, <3>4, <3>5
  <2> QED
    BY <2>1, <2>2
<1>6. Laid(c.data, c.at, ys, new)
  <2>1. n + 1 + 1 = n + 2 /\ new[1] = 0
    BY <1>1, <1>3, <1>4
  <2> QED
    BY <1>1, <1>4, <1>5, <2>1 DEF Laid
<1> QED
  BY <1>4, <1>6 DEF n, ys

\* The step of an item, whatever its code.
LEMMA ItemWritten ==
  ASSUME BitAssumption, Buffers, Laying, unit \in 1 .. 5, NEW x, Coded(x),
         x.code = "video" => at % 8 = 0, WriteItem(x),
         unit' \in 1 .. Closed, count' \in Nat, UNCHANGED <<sizeAt, readAt, got>>
  PROVE  Buffers' /\ Laying' /\ at' >= at
         /\ (at <= 8 * size /\ x.code # "video" => at' <= 8 * size')
<1>1. PICK b : b = Buffer
  OBVIOUS
<1>2. PICK c : c = PutItem(b, x)
  OBVIOUS
<1>3. /\ IsBuffer(b) /\ b.data = data /\ b.at = at /\ b.size = size
  BY <1>1 DEF Buffers, Buffer
<1>4. /\ Follows(b, c) /\ Spells(c.data, x, b.at, c.at)
      /\ Fits(b) /\ x.code # "video" => Fits(c)
  BY <1>2, <1>3, ItemIs
<1>5. data' = c.data /\ size' = c.size /\ at' = c.at /\ written' = Append(written, x)
  BY <1>1, <1>2 DEF WriteItem, Store
<1>6. Buffer' = c
  <2>1. c \in [data : SUBSET Nat, size : Nat, at : Nat]
    BY <1>4 DEF Follows, IsBuffer
  <2> QED
    BY <1>5, <2>1 DEF Buffer
<1>7. unit # 0 /\ unit <= Closed /\ unit' # 0 /\ unit' \in 0 .. Closed + 1
  BY DEF Closed, Order
<1>8. IsSeq(written) /\ got = <<>> /\ readAt = 0 /\ sizeAt = 2 * Word
  BY <1>7 DEF Buffers
<1>9. Buffers'
  <2>1. IsBuffer(Buffer')
    BY <1>4, <1>6 DEF Follows
  <2>2. IsSeq(written')
    BY <1>5, <1>8, AppendIs
  <2>3. IsSeq(got') /\ got' = <<>> /\ readAt' = 0 /\ sizeAt' = 2 * Word
    BY <1>8, EmptyIsSeq
  <2> QED
    BY <1>7, <2>1, <2>2, <2>3 DEF Buffers
<1>10. Laying'
  <2>1. PICK pos : Laid(data, at, written, pos) /\ HeaderLaid(written, pos)
    BY <1>7 DEF Laying
  <2>2. PICK new : /\ Laid(c.data, c.at, Append(written, x), new)
                   /\ \A k \in 1 .. Len(written) + 1 : new[k] = pos[k]
                   /\ new[Len(written) + 2] = c.at
    <3>1. Laid(b.data, b.at, written, pos)
      BY <1>3, <2>1
    <3> QED
      BY <1>3, <1>4, <1>8, <3>1, LaidAppend
  <2>3. PICK n : n = Len(written)
    OBVIOUS
  <2>4. /\ n \in Nat /\ Len(written') = n + 1 /\ \A k \in 1 .. n : written'[k] = written[k]
    BY <1>5, <1>8, <2>3, AppendIs DEF IsSeq
  <2>5. Laid(data', at', written', new)
    BY <1>5, <2>2
  <2>6. /\ n >= 3 /\ written[3].code = "size" /\ pos[2] = Word /\ pos[3] = 2 * Word
        /\ \A k \in 4 .. n + 1 : pos[k] >= 4 * Word
        /\ pos[n + 1] = at
    BY <2>1, <2>3 DEF HeaderLaid, Laid
  <2>7. at <= c.at /\ at \in Nat /\ c.at \in Nat /\ Word \in Nat
    BY <1>3, <1>4 DEF Follows, IsBuffer, BitAssumption
  <2>8. at >= 4 * Word
    <3>1. n + 1 \in 4 .. n + 1
      BY <2>4, <2>6
    <3> QED
      BY <2>6, <3>1
  <2>9. \A k \in 4 .. n + 2 : new[k] >= 4 * Word
    <3>1. \A k \in 1 .. n + 1 : new[k] = pos[k]
      BY <2>2, <2>3
    <3>2. new[n + 2] >= 4 * Word
      BY <2>2, <2>3, <2>7, <2>8
    <3>3. ASSUME NEW k \in 4 .. n + 2 PROVE k = n + 2 \/ (k \in 1 .. n + 1 /\ k \in 4 .. n + 1)
      BY <2>4
    <3> QED
      BY <2>6, <3>1, <3>2, <3>3
  <2>10. HeaderLaid(written', new)
    <3>1. new[2] = pos[2] /\ new[3] = pos[3] /\ written'[3] = written[3]
      BY <2>2, <2>3, <2>4, <2>6
    <3>2. n + 1 + 1 = n + 2 /\ n + 1 >= 3
      BY <2>4, <2>6
    <3> QED
      BY <2>4, <2>6, <2>9, <3>1, <3>2 DEF HeaderLaid
  <2>11. ReaderAt(got', readAt', written', new)
    BY <1>8, <2>4, <2>5 DEF ReaderAt, Laid
  <2> QED
    BY <2>5, <2>10, <2>11 DEF Laying
<1>11. at' >= at /\ (at <= 8 * size /\ x.code # "video" => at' <= 8 * size')
  BY <1>3, <1>4, <1>5 DEF Follows, Fits
<1> QED
  BY <1>9, <1>10, <1>11

\* The fields of the runs can be coded, and so can the items of the headers.
LEMMA FieldsCoded ==
  ASSUME BitAssumption
  PROVE  /\ \A f \in Fields : Coded(f) /\ f.code # "video"
         /\ \A n \in 0 .. 4 : Coded(Item("u", Word, n * Pow2[Word - 5]))
         /\ Coded(Item("u", Word, 1)) /\ Coded(Item("u", Word, 0))
         /\ Coded(Item("size", 2 * Word, 0)) /\ Coded(Item("align", 0, 0))
         /\ \A w \in Videos : Coded(Item("video", 0, w))
<1>w. Word \in Nat /\ Word >= 8
  BY DEF BitAssumption
<1>1. ASSUME NEW f \in Fields PROVE Coded(f) /\ f.code # "video"
  <2>1. /\ f.code \in {"u", "s", "ue", "se"}
        /\ f.v \in Int
        /\ f.n \in 0 .. Word
        /\ f.code = "u" => f.v \in 0 .. Pow2[f.n] - 1
        /\ f.code = "s" => f.n > 0 /\ f.v + Pow2[f.n - 1] \in 0 .. Pow2[f.n] - 1
        /\ f.code = "ue" => f.v \in 0 .. Pow2[Word] - 2
        /\ f.code = "se" => f.v + Pow2[Word - 1] \in 1 .. Pow2[Word] - 1
    BY DEF BitAssumption
  <2>2. f.n > 0 => f.n \in 1 .. Word
    BY <1>w, <2>1
  <2> QED
    BY <2>1, <2>2 DEF Coded
<1>2. ASSUME NEW n \in 0 .. 4 PROVE n * Pow2[Word - 5] \in 0 .. Pow2[Word] - 1
  <2>1. PICK k : k = Word - 5
    OBVIOUS
  <2>2. k \in Nat /\ Pow2[k] \in Nat \ {0}
    BY <1>w, <2>1, Pow2Type
  <2>3. /\ Pow2[k + 1] = 2 * Pow2[k] /\ Pow2[k + 2] = 2 * Pow2[k + 1]
        /\ Pow2[k + 3] = 2 * Pow2[k + 2] /\ k + 5 = Word
    <3>1. \A m \in Nat : Pow2[m + 1] = 2 * Pow2[m]
      BY Pow2Recursive
    <3>2. k + 1 \in Nat /\ k + 2 \in Nat
      BY <2>2
    <3>3. k + 2 = (k + 1) + 1 /\ k + 3 = (k + 2) + 1 /\ k + 5 = Word
      BY <1>w, <2>1, <2>2
    <3>4. Pow2[k + 1] = 2 * Pow2[k]
      BY <2>2, <3>1
    <3>5. Pow2[(k + 1) + 1] = 2 * Pow2[k + 1]
      BY <3>1, <3>2
    <3>6. Pow2[(k + 2) + 1] = 2 * Pow2[k + 2]
      BY <3>1, <3>2
    <3> QED
      BY <3>3, <3>4, <3>5, <3>6
  <2>4. Pow2[k + 3] <= Pow2[Word] /\ Pow2[Word] \in Nat
    <3>1. k + 3 \in Nat /\ k + 3 <= Word
      BY <2>2, <2>3
    <3> QED
      BY <1>w, <3>1, Pow2Monotone, Pow2Type
  <2>5. PICK p : p = Pow2[k]
    OBVIOUS
  <2>6. p \in Nat \ {0} /\ 8 * p <= Pow2[Word]
    BY <2>2, <2>3, <2>4, <2>5
  <2>7. n * p \in 0 .. 8 * p - 1
    BY <2>6
  <2> QED
    BY <2>1, <2>4, <2>5, <2>6, <2>7
<1>3. Pow2[Word] \in Nat /\ Pow2[Word] > 8 /\ Word \in 0 .. Word
  BY <1>w, Pow2Type, Pow2Exceeds
<1>4. \A n \in 0 .. 4 : Coded(Item("u", Word, n * Pow2[Word - 5]))
  BY <1>2, <1>3 DEF Coded, Item
<1>5. Coded(Item("u", Word, 1)) /\ Coded(Item("u", Word, 0))
  BY <1>3 DEF Coded, Item
<1>6. Coded(Item("size", 2 * Word, 0)) /\ Coded(Item("align", 0, 0))
  BY DEF Coded, Item
<1>7. \A w \in Videos : Coded(Item("video", 0, w))
  BY DEF Coded, Item
<1> QED
  BY <1>1, <1>4, <1>5, <1>6, <1>7

\* Behind the header of a unit there is room for the words of three videos.
LEMMA PutRoom ==
  ASSUME BitAssumption, NEW b, IsBuffer(b), b.at % 8 = 0, Fits(b), NEW v \in Nat
  PROVE  Put(b, v, Word).at + 3 * Word <= 8 * Put(b, v, Word).size
<1>1. /\ Page \in Nat /\ Margin \in Nat /\ Word \in Nat /\ 2 * Page > Word
      /\ b.at \in Nat /\ b.size \in Nat /\ b.at <= 8 * b.size
  BY DEF BitAssumption, IsBuffer, Fits
<1>2. PICK c : c = Put(b, v, Word)
  OBVIOUS
<1>3. /\ c.at = b.at + Word
      /\ c.size = IF b.at \div 8 + Word + Margin >= b.size
                  THEN b.size + 2 * Page ELSE b.size
  BY <1>2 DEF Put
<1>4. 8 * (b.at \div 8) = b.at
  BY <1>1
<1>5. c.at + 3 * Word <= 8 * c.size
  BY <1>1, <1>3, <1>4
<1> QED
  BY <1>2, <1>5

-----------------------------------------------------------------------------
(***************************************************************************)
(* The steps.                                                              *)
(***************************************************************************)
LEMMA WriteHeaderKeeps ==
  ASSUME BitAssumption, Kept, WriteHeader
  PROVE  Kept'
<1>w. Word \in Nat /\ Word > 0
  BY DEF BitAssumption
<1> DEFINE major == Item("u", Word, 1)
           minor == Item("u", Word, 0)
           total == Item("size", 2 * Word, 0)
<1>1. PICK b : b = Buffer
  OBVIOUS
<1>2. PICK c : c = PutItem(b, major)
  OBVIOUS
<1>3. PICK d : d = PutItem(c, minor)
  OBVIOUS
<1>4. PICK e : e = PutItem(d, total)
  OBVIOUS
<1>5. /\ data' = e.data /\ size' = e.size /\ at' = e.at
      /\ written' = <<major, minor, total>>
      /\ sizeAt' = 2 * Word /\ unit' = 1 /\ count' = 0 /\ UNCHANGED <<readAt, got>>
  BY <1>1, <1>2, <1>3, <1>4 DEF WriteHeader, Store
<1>6. unit = 0 /\ got = <<>> /\ readAt = 0 /\ at = 0 /\ IsBuffer(b) /\ at <= 8 * size
  BY <1>1 DEF WriteHeader, Kept, Buffers, Room, Closed, Order
<1>7. b.at = 0 /\ b.size = size
  BY <1>1, <1>6 DEF Buffer
<1>8. /\ Coded(major) /\ major.code = "u" /\ major.n = Word
      /\ Coded(minor) /\ minor.code = "u" /\ minor.n = Word
      /\ Coded(total) /\ total.code = "size" /\ total.n = 2 * Word
  BY FieldsCoded DEF Item
<1>9. PICK x : x = major
  OBVIOUS
<1>10. PICK y : y = minor
  OBVIOUS
<1>11. PICK z : z = total
  OBVIOUS
<1>12. /\ Coded(x) /\ x.code = "u" /\ x.n = Word
       /\ Coded(y) /\ y.code = "u" /\ y.n = Word
       /\ Coded(z) /\ z.code = "size" /\ z.n = 2 * Word
       /\ c = PutItem(b, x) /\ d = PutItem(c, y) /\ e = PutItem(d, z)
       /\ written' = <<x, y, z>>
  BY <1>2, <1>3, <1>4, <1>5, <1>8, <1>9, <1>10, <1>11
<1> HIDE DEF major, minor, total
<1>13. Fits(b)
  BY <1>6, <1>7 DEF Fits
<1>14. Follows(b, c) /\ Spells(c.data, x, b.at, c.at) /\ Fits(c)
  BY <1>6, <1>12, <1>13, ItemIs
<1>15. IsBuffer(c)
  BY <1>14 DEF Follows
<1>16. Follows(c, d) /\ Spells(d.data, y, c.at, d.at) /\ Fits(d)
  BY <1>12, <1>14, <1>15, ItemIs
<1>17. IsBuffer(d)
  BY <1>16 DEF Follows
<1>18. Follows(d, e) /\ Spells(e.data, z, d.at, e.at) /\ Fits(e)
  BY <1>12, <1>16, <1>17, ItemIs
<1>19. IsBuffer(e)
  BY <1>18 DEF Follows
<1>20. c.at = Word /\ d.at = 2 * Word /\ e.at = 4 * Word
  BY <1>7, <1>12, <1>14, <1>16, <1>18, <1>w DEF Spells
<1>21. PICK w0 : w0 = <<>>
  OBVIOUS
<1>22. PICK w1 : w1 = Append(w0, x)
  OBVIOUS
<1>23. PICK w2 : w2 = Append(w1, y)
  OBVIOUS
<1>24. PICK w3 : w3 = Append(w2, z)
  OBVIOUS
<1>25. PICK p0 : Laid(b.data, b.at, w0, p0) /\ IsSeq(w0) /\ Len(w0) = 0
  <2> DEFINE p == [k \in 1 .. 1 |-> 0]
  <2>1. Laid(b.data, b.at, w0, p) /\ IsSeq(w0) /\ Len(w0) = 0
    BY <1>7, <1>21, EmptyIsSeq DEF Laid
  <2> QED
    BY <2>1
<1>26. IsSeq(w1) /\ Len(w1) = 1 /\ w1[1] = x
  <2>1. IsSeq(w0)
    BY <1>25
  <2>2. IsSeq(w1) /\ Len(w1) = Len(w0) + 1 /\ w1[Len(w0) + 1] = x
    BY <1>22, <2>1, AppendIs
  <2>3. Len(w0) + 1 = 1
    BY <1>25
  <2> QED
    BY <2>2, <2>3
<1>27. IsSeq(w2) /\ Len(w2) = 2 /\ w2[1] = x /\ w2[2] = y
  <2>1. IsSeq(w1)
    BY <1>26
  <2>2. /\ IsSeq(w2) /\ Len(w2) = Len(w1) + 1 /\ w2[Len(w1) + 1] = y
        /\ \A i \in 1 .. Len(w1) : w2[i] = w1[i]
    BY <1>23, <2>1, AppendIs
  <2>3. Len(w1) + 1 = 2 /\ 1 \in 1 .. Len(w1)
    BY <1>26
  <2> QED
    BY <1>26, <2>2, <2>3
<1>28. IsSeq(w3) /\ Len(w3) = 3 /\ w3[1] = x /\ w3[2] = y /\ w3[3] = z
  <2>1. IsSeq(w2)
    BY <1>27
  <2>2. /\ IsSeq(w3) /\ Len(w3) = Len(w2) + 1 /\ w3[Len(w2) + 1] = z
        /\ \A i \in 1 .. Len(w2) : w3[i] = w2[i]
    BY <1>24, <2>1, AppendIs
  <2>3. Len(w2) + 1 = 3 /\ 1 \in 1 .. Len(w2) /\ 2 \in 1 .. Len(w2)
    BY <1>27
  <2> QED
    BY <1>27, <2>2, <2>3
<1>29. PICK p1 : Laid(c.data, c.at, w1, p1) /\ p1[2] = c.at
  <2>0. /\ IsBuffer(b) /\ IsSeq(w0) /\ Laid(b.data, b.at, w0, p0) /\ Coded(x)
        /\ Follows(b, c) /\ Spells(c.data, x, b.at, c.at)
    BY <1>6, <1>12, <1>14, <1>25
  <2>1. PICK p1 : /\ Laid(c.data, c.at, Append(w0, x), p1)
                  /\ \A k \in 1 .. Len(w0) + 1 : p1[k] = p0[k]
                  /\ p1[Len(w0) + 2] = c.at
    BY <2>0, LaidAppend
  <2>2. Len(w0) + 2 = 2
    BY <1>25
  <2> QED
    BY <1>22, <2>1, <2>2
<1>30. PICK p2 : Laid(d.data, d.at, w2, p2) /\ p2[2] = p1[2] /\ p2[3] = d.at
  <2>1. PICK p2 : /\ Laid(d.data, d.at, Append(w1, y), p2)
                  /\ \A k \in 1 .. Len(w1) + 1 : p2[k] = p1[k]
                  /\ p2[Len(w1) + 2] = d.at
    <3>1. IsSeq(w1) /\ Coded(y)
      BY <1>12, <1>26
    <3> QED
      BY <1>15, <1>16, <1>29, <3>1, LaidAppend
  <2>2. Len(w1) + 2 = 3 /\ 2 \in 1 .. Len(w1) + 1
    BY <1>26
  <2> QED
    BY <1>23, <2>1, <2>2
<1>31. PICK p3 : Laid(e.data, e.at, w3, p3) /\ p3[2] = p2[2] /\ p3[3] = p2[3] /\ p3[4] = e.at
  <2>1. PICK p3 : /\ Laid(e.data, e.at, Append(w2, z), p3)
                  /\ \A k \in 1 .. Len(w2) + 1 : p3[k] = p2[k]
                  /\ p3[Len(w2) + 2] = e.at
    <3>1. IsSeq(w2) /\ Coded(z)
      BY <1>12, <1>27
    <3> QED
      BY <1>17, <1>18, <1>30, <3>1, LaidAppend
  <2>2. Len(w2) + 2 = 4 /\ 2 \in 1 .. Len(w2) + 1 /\ 3 \in 1 .. Len(w2) + 1
    BY <1>27
  <2> QED
    BY <1>24, <2>1, <2>2
<1>32. written' = w3
  <2>1. <<x, y, z>> = w3
    BY <1>21, <1>22, <1>23, <1>24
  <2> QED
    BY <1>12, <2>1
<1>33. p3[2] = Word /\ p3[3] = 2 * Word /\ p3[4] = 4 * Word
  BY <1>20, <1>29, <1>30, <1>31
<1>34. HeaderLaid(w3, p3)
  <2>1. \A k \in 4 .. Len(w3) + 1 : k = 4
    BY <1>28
  <2> QED
    BY <1>12, <1>28, <1>33, <1>w, <2>1 DEF HeaderLaid
<1>35. Laying'
  <2>1. ReaderAt(<<>>, 0, w3, p3)
    BY <1>28, <1>31 DEF ReaderAt, Laid
  <2> QED
    BY <1>5, <1>6, <1>31, <1>32, <1>34, <2>1 DEF Laying
<1>36. Buffer' = e
  <2>1. e \in [data : SUBSET Nat, size : Nat, at : Nat]
    BY <1>19 DEF IsBuffer
  <2> QED
    BY <1>5, <2>1 DEF Buffer
<1>37. Buffers'
  <2>1. IsBuffer(Buffer')
    BY <1>19, <1>36
  <2>2. IsSeq(written') /\ IsSeq(got') /\ got' = <<>> /\ readAt' = 0
    BY <1>5, <1>6, <1>28, <1>32, EmptyIsSeq
  <2> QED
    BY <1>5, <2>1, <2>2 DEF Buffers, Closed, Order
<1>38. Room'
  BY <1>5, <1>18 DEF Room, Fits, OfVideos
<1> QED
  BY <1>35, <1>37, <1>38 DEF Kept

LEMMA WriteUnitHeaderKeeps ==
  ASSUME BitAssumption, Kept, WriteUnitHeader
  PROVE  Kept'
<1>1. PICK x : x = Item("u", Word, (unit - 1) * Pow2[Word - 5])
  OBVIOUS
<1>2. unit \in 1 .. 5 /\ unit - 1 \in 0 .. 4
  BY DEF WriteUnitHeader, OfFields, OfVideos
<1>3. Coded(x) /\ x.code = "u" /\ x.n = Word /\ x.v = (unit - 1) * Pow2[Word - 5]
  BY <1>1, <1>2, FieldsCoded DEF Item
<1>4. /\ WriteItem(x) /\ count' = 1 /\ unit' = unit /\ UNCHANGED <<sizeAt, readAt, got>>
  BY <1>1 DEF WriteUnitHeader
<1>5. unit' \in 1 .. Closed /\ count' \in Nat
  BY <1>2, <1>4 DEF Closed, Order
<1>6. Buffers /\ Laying /\ Room
  BY DEF Kept
<1>7. Buffers' /\ Laying' /\ at' <= 8 * size'
  BY <1>2, <1>3, <1>4, <1>5, <1>6, ItemWritten DEF Room
<1>8. Room'
  <2>1. CASE OfVideos
    <3>1. at % 8 = 0
      BY <1>6, <2>1 DEF Room
    <3>2. PICK b : b = Buffer
      OBVIOUS
    <3>3. IsBuffer(b) /\ b.at = at /\ Fits(b)
      BY <1>6, <3>2 DEF Buffers, Room, Fits, Buffer
    <3>4. PICK c : c = Put(b, x.v, Word)
      OBVIOUS
    <3>5. c.at = at' /\ c.size = size'
      BY <1>3, <1>4, <3>2, <3>4 DEF WriteItem, Store, PutItem
    <3>6. x.v \in Nat
      BY <1>3, Pow2Type DEF Coded, BitAssumption
    <3>7. c.at + 3 * Word <= 8 * c.size
      BY <3>1, <3>3, <3>4, <3>6, PutRoom
    <3>8. c.at = at + Word
      BY <3>3, <3>4 DEF Put
    <3>9. at' % 8 = 0
      <4>1. at \in Nat /\ Word \in Nat /\ Word % 8 = 0
        BY <1>6 DEF BitAssumption, Buffers, IsBuffer, Buffer
      <4> QED
        BY <3>1, <3>5, <3>8, <4>1
    <3> QED
      BY <1>4, <1>7, <3>5, <3>7, <3>9 DEF Room
  <2>2. CASE ~OfVideos
    BY <1>4, <1>7, <2>2 DEF Room, OfVideos
  <2> QED
    BY <2>1, <2>2
<1> QED
  BY <1>7, <1>8 DEF Kept

LEMMA WriteFieldKeeps ==
  ASSUME BitAssumption, Kept, WriteField
  PROVE  Kept'
<1>1. PICK x \in Fields : WriteItem(x)
  BY DEF WriteField
<1>2. Coded(x) /\ x.code # "video"
  BY FieldsCoded
<1>3. unit \in 1 .. 5 /\ unit \in {1, 2} /\ Buffers /\ Laying /\ Room
  BY DEF WriteField, OfFields, Kept
<1>4. unit' = unit /\ count' = count + 1 /\ UNCHANGED <<sizeAt, readAt, got>>
  BY DEF WriteField
<1>5. unit' \in 1 .. Closed /\ count' \in Nat
  BY <1>3, <1>4 DEF Closed, Order, Buffers
<1>6. Buffers' /\ Laying' /\ at' <= 8 * size'
  BY <1>1, <1>2, <1>3, <1>4, <1>5, ItemWritten DEF Room
<1>7. Room'
  BY <1>3, <1>4, <1>6 DEF Room, OfVideos
<1> QED
  BY <1>6, <1>7 DEF Kept

LEMMA EndFieldsKeeps ==
  ASSUME BitAssumption, Kept, EndFields
  PROVE  Kept'
<1>1. PICK x : x = Item("align", 0, 0)
  OBVIOUS
<1>2. Coded(x) /\ x.code = "align" /\ WriteItem(x)
  BY <1>1, FieldsCoded DEF EndFields, Item
<1>3. unit \in 1 .. 5 /\ unit \in {1, 2} /\ Buffers /\ Laying /\ Room
  BY DEF EndFields, OfFields, Kept
<1>4. unit' = unit + 1 /\ count' = 0 /\ UNCHANGED <<sizeAt, readAt, got>>
  BY DEF EndFields
<1>5. unit' \in 1 .. Closed /\ count' \in Nat
  BY <1>3, <1>4 DEF Closed, Order
<1>6. Buffers' /\ Laying' /\ at' <= 8 * size'
  BY <1>2, <1>3, <1>4, <1>5, ItemWritten DEF Room
<1>7. at' % 8 = 0
  <2>1. PICK b : b = Buffer
    OBVIOUS
  <2>2. IsBuffer(b) /\ b.at \in Nat
    BY <1>3, <2>1 DEF Buffers, IsBuffer
  <2>3. at' = PutAlignment(b).at
    BY <1>2, <2>1 DEF WriteItem, Store, PutItem
  <2>4. at' = 8 * (b.at \div 8 + 1)
    BY <2>2, <2>3, AlignmentIs
  <2>5. PICK h : h = b.at \div 8 + 1
    OBVIOUS
  <2>6. h \in Nat /\ at' = 8 * h
    BY <2>2, <2>4, <2>5
  <2> QED
    BY <2>6
<1>8. Room'
  BY <1>4, <1>6, <1>7 DEF Room
<1> QED
  BY <1>6, <1>8 DEF Kept

LEMMA WriteVideoKeeps ==
  ASSUME BitAssumption, Kept, WriteVideo
  PROVE  Kept'
<1>1. PICK w \in Videos : WriteItem(Item("video", 0, w))
  BY DEF WriteVideo
<1>2. PICK x : x = Item("video", 0, w)
  OBVIOUS
<1>3. Coded(x) /\ x.code = "video" /\ x.v = w /\ WriteItem(x)
  BY <1>1, <1>2, FieldsCoded DEF Item
<1>4. unit \in 3 .. 5 /\ unit \in 1 .. 5 /\ OfVideos /\ Buffers /\ Laying /\ Room
  BY DEF WriteVideo, OfVideos, Kept
<1>5. count \in 1 .. 3
  <2>1. count > 0 /\ count \in Nat
    BY <1>4 DEF WriteVideo, Buffers
  <2>2. PICK n \in VideoCounts[Order[unit]] : count <= n
    BY DEF WriteVideo
  <2>3. VideoCounts[Order[unit]] \subseteq 0 .. 3
    <3>1. unit = 3 \/ unit = 4 \/ unit = 5
      BY <1>4
    <3>2. Order[3] = "OVD" /\ Order[4] = "GVD" /\ Order[5] = "AVD"
      BY DEF Order
    <3>3. /\ VideoCounts["OVD"] = {1} /\ VideoCounts["GVD"] = 1 .. 3
          /\ VideoCounts["AVD"] = 0 .. 2
      BY DEF VideoCounts
    <3> QED
      BY <3>1, <3>2, <3>3
  <2> QED
    BY <2>1, <2>2, <2>3
<1>6. unit' = unit /\ count' = count + 1 /\ UNCHANGED <<sizeAt, readAt, got>>
  BY DEF WriteVideo
<1>7. unit' \in 1 .. Closed /\ count' \in Nat /\ count' \in 2 .. 4
  BY <1>4, <1>5, <1>6 DEF Closed, Order
<1>8. at % 8 = 0
  BY <1>4 DEF Room
<1>9. Buffers' /\ Laying'
  BY <1>3, <1>4, <1>6, <1>7, <1>8, ItemWritten
<1>10. PICK b : b = Buffer
  OBVIOUS
<1>11. IsBuffer(b) /\ b.at = at /\ b.size = size /\ at \in Nat /\ size \in Nat
  BY <1>4, <1>10 DEF Buffers, Buffer, IsBuffer
<1>12. PICK c : c = PutVideo(b, w)
  OBVIOUS
<1>13. at' = c.at /\ size' = c.size
  BY <1>3, <1>10, <1>12 DEF WriteItem, Store, PutItem
<1>14. /\ c.at % 8 = 0
       /\ \A room \in Int : b.at + room <= 8 * b.size => c.at + room - Word <= 8 * c.size
  BY <1>8, <1>11, <1>12, VideoIs
<1>15. PICK a : a = c.at
  OBVIOUS
<1>16. PICK s : s = c.size
  OBVIOUS
<1>17. /\ at' = a /\ size' = s /\ a % 8 = 0
       /\ \A room \in Int : at + room <= 8 * size => a + room - Word <= 8 * s
  BY <1>11, <1>13, <1>14, <1>15, <1>16
<1>18. a \in Nat /\ s \in Nat /\ Word \in Nat
  BY <1>9, <1>17 DEF Buffers, IsBuffer, Buffer, BitAssumption
<1>19. Room'
  <2>0. 3 * Word \in Int /\ 2 * Word \in Int /\ Word \in Int
    BY <1>18
  <2>1. count = 1 => a + 2 * Word <= 8 * s
    <3>1. count = 1 => at + 3 * Word <= 8 * size
      BY <1>4 DEF Room
    <3>2. count = 1 => a + 3 * Word - Word <= 8 * s
      BY <1>17, <2>0, <3>1
    <3> QED
      BY <1>18, <3>2
  <2>2. count = 2 => a + Word <= 8 * s
    <3>1. count = 2 => at + 2 * Word <= 8 * size
      BY <1>4 DEF Room
    <3>2. count = 2 => a + 2 * Word - Word <= 8 * s
      BY <1>17, <2>0, <3>1
    <3> QED
      BY <1>18, <3>2
  <2>3. count = 3 => a <= 8 * s
    <3>1. count = 3 => at + Word <= 8 * size
      BY <1>4 DEF Room
    <3>2. count = 3 => a + Word - Word <= 8 * s
      BY <1>17, <2>0, <3>1
    <3> QED
      BY <1>18, <3>2
  <2>4. a <= 8 * s
    BY <1>5, <1>18, <2>1, <2>2, <2>3
  <2>5. /\ count' # 1
        /\ count' = 2 => a + 2 * Word <= 8 * s
        /\ count' = 3 => a + Word <= 8 * s
    BY <1>5, <1>6, <2>1, <2>2
  <2> QED
    BY <1>17, <2>4, <2>5 DEF Room
<1> QED
  BY <1>9, <1>19 DEF Kept

LEMMA EndVideosKeeps ==
  ASSUME BitAssumption, Kept, EndVideos
  PROVE  Kept'
<1>1. /\ unit \in 3 .. 5 /\ OfVideos /\ unit' = unit + 1 /\ count' = 0
      /\ UNCHANGED <<data, size, at, sizeAt, written, readAt, got>>
  BY DEF EndVideos, OfVideos
<1>2. Buffers'
  <2>1. Buffer' = Buffer
    BY <1>1 DEF Buffer
  <2> QED
    BY <1>1, <2>1 DEF Kept, Buffers, Closed, Order
<1>3. Room'
  BY <1>1 DEF Kept, Room
<1>4. Laying'
  BY <1>1 DEF Kept, Laying
<1> QED
  BY <1>2, <1>3, <1>4 DEF Kept

\* The size goes to its own place, whatever its upper half is.
LEMMA WriteSizeKeeps ==
  ASSUME BitAssumption, Kept, WriteSize
  PROVE  Kept'
<1>w. Word \in Nat /\ Word > 0 /\ Page \in Nat
  BY DEF BitAssumption
<1>1. /\ unit = Closed /\ unit # 0 /\ unit' = Closed + 1 /\ unit' = unit + 1
      /\ UNCHANGED <<at, sizeAt, count, written, readAt, got>>
      /\ sizeAt = 2 * Word /\ got = <<>> /\ readAt = 0
      /\ at \in Nat /\ size \in Nat /\ data \in SUBSET Nat /\ data \subseteq 0 .. at - 1
      /\ at <= 8 * size
  BY DEF WriteSize, Kept, Buffers, Room, IsBuffer, Buffer, Closed, Order
<1>2. PICK upper : data' = data \union Ones(sizeAt, upper, Word)
                                \union Ones(sizeAt + Word, at \div 8, Word)
  BY DEF WriteSize
<1>3. size' \in Nat /\ size' >= size
  <2>1. PICK b : b = [Buffer EXCEPT !.at = sizeAt]
    OBVIOUS
  <2>2. b.size = size
    BY <2>1 DEF Buffer
  <2>3. size' = Put(b, 0, 2 * Word).size
    BY <2>1 DEF WriteSize
  <2>4. size' = IF b.at \div 8 + 2 * Word + Margin >= b.size THEN b.size + 2 * Page ELSE b.size
    BY <2>3 DEF Put
  <2> QED
    BY <1>1, <1>w, <2>2, <2>4
<1>4. \A p, v : p \in Nat => Ones(p, v, Word) \subseteq p .. p + Word - 1
  BY <1>w DEF Ones
<1>5. Ones(sizeAt, upper, Word) \subseteq 2 * Word .. 4 * Word - 1
  <2>1. sizeAt \in Nat /\ sizeAt = 2 * Word
    BY <1>1, <1>w
  <2>2. Ones(sizeAt, upper, Word) \subseteq sizeAt .. sizeAt + Word - 1
    BY <1>4, <2>1
  <2> QED
    BY <1>w, <2>1, <2>2
<1>6. Ones(sizeAt + Word, at \div 8, Word) \subseteq 2 * Word .. 4 * Word - 1
  <2>1. sizeAt + Word \in Nat /\ sizeAt = 2 * Word
    BY <1>1, <1>w
  <2>2. Ones(sizeAt + Word, at \div 8, Word) \subseteq sizeAt + Word .. (sizeAt + Word) + Word - 1
    BY <1>4, <2>1
  <2> QED
    BY <1>w, <2>1, <2>2
<1>7. \A y : y \notin 2 * Word .. 4 * Word - 1 => (y \in data <=> y \in data')
  BY <1>2, <1>5, <1>6
<1>8. data' \subseteq data \union 2 * Word .. 4 * Word - 1
  BY <1>2, <1>5, <1>6
<1>9. PICK pos : Laid(data, at, written, pos) /\ HeaderLaid(written, pos)
  BY <1>1 DEF Kept, Laying
<1>10. PICK n : n = Len(written)
  OBVIOUS
<1>11. /\ n \in Nat /\ n >= 3 /\ written[3].code = "size"
       /\ pos \in [1 .. n + 1 -> Nat] /\ pos[1] = 0 /\ pos[n + 1] = at
       /\ pos[2] = Word /\ pos[3] = 2 * Word
       /\ \A k \in 4 .. n + 1 : pos[k] >= 4 * Word
       /\ \A k \in 1 .. n : /\ Coded(written[k])
                            /\ Spells(data, written[k], pos[k], pos[k + 1])
                            /\ pos[k + 1] <= at
  BY <1>9, <1>10 DEF Laid, HeaderLaid, Kept, Buffers, IsSeq
<1>12. at >= 4 * Word
  <2>1. n + 1 \in 4 .. n + 1
    BY <1>11
  <2> QED
    BY <1>11, <2>1
<1>13. IsBuffer(Buffer')
  <2>1. data' \in SUBSET Nat /\ data' \subseteq 0 .. at' - 1
    BY <1>1, <1>8, <1>12, <1>w
  <2> QED
    BY <1>1, <1>3, <2>1 DEF IsBuffer, Buffer
<1>14. Buffers'
  BY <1>1, <1>13 DEF Kept, Buffers, Closed, Order
<1>15. Room'
  <2>1. ~OfVideos'
    BY <1>1 DEF OfVideos, Closed, Order
  <2>2. \A s \in Nat : s >= size => at <= 8 * s
    BY <1>1
  <2>3. at' <= 8 * size'
    BY <1>1, <1>3, <2>2
  <2> QED
    BY <2>1, <2>3 DEF Room
<1>16. ASSUME NEW k \in 1 .. n
       PROVE  Spells(data', written[k], pos[k], pos[k + 1])
  <2>1. pos[k] \in Nat /\ pos[k + 1] \in Nat
    BY <1>11
  <2>2. CASE k \in 1 .. 2
    <3>1. pos[k + 1] <= 2 * Word
      BY <1>11, <1>w, <2>2
    <3>2. Same(data, data', 0, 2 * Word)
      BY <1>7, <1>w DEF Same
    <3>3. 2 * Word \in Nat /\ Coded(written[k]) /\ Spells(data, written[k], pos[k], pos[k + 1])
      BY <1>11, <1>w
    <3> QED
      BY <2>1, <3>1, <3>2, <3>3, SpellsKept
  <2>3. CASE k = 3
    <3>1. Spells(data, written[3], pos[3], pos[3 + 1]) /\ written[3].code = "size"
      BY <1>11, <2>3
    <3> QED
      BY <2>3, <3>1 DEF Spells
  <2>4. CASE k > 3
    <3>1. k \in 4 .. n + 1
      BY <1>11, <2>4
    <3>2. pos[k] >= 4 * Word /\ 4 * Word \in Nat
      BY <1>11, <1>w, <3>1
    <3>3. Same(data, data', 4 * Word, pos[k + 1])
      BY <1>7, <1>w, <2>1 DEF Same
    <3>4. Coded(written[k]) /\ Spells(data, written[k], pos[k], pos[k + 1])
      BY <1>11
    <3> QED
      BY <2>1, <3>2, <3>3, <3>4, SpellsKept
  <2> QED
    BY <2>2, <2>3, <2>4
<1>17. Laid(data', at', written', pos)
  BY <1>1, <1>10, <1>11, <1>16 DEF Laid
<1>18. HeaderLaid(written', pos)
  BY <1>1, <1>9
<1>19. ReaderAt(got', readAt', written', pos)
  BY <1>1, <1>10, <1>11 DEF ReaderAt
<1>20. Laying'
  BY <1>17, <1>18, <1>19 DEF Laying
<1> QED
  BY <1>14, <1>15, <1>20 DEF Kept

LEMMA ReadItemKeeps ==
  ASSUME BitAssumption, Kept, ReadItem
  PROVE  Kept'
<1>1. /\ unit > Closed /\ Len(got) < Len(written)
      /\ UNCHANGED <<data, size, at, sizeAt, unit, count, written>>
      /\ unit # 0
  BY DEF ReadItem, Closed, Order
<1>2. /\ IsSeq(got) /\ Len(got) \in Nat /\ Len(written) \in Nat /\ data \in SUBSET Nat
  BY DEF Kept, Buffers, IsSeq, IsBuffer, Buffer
<1>3. PICK pos : /\ Laid(data, at, written, pos) /\ HeaderLaid(written, pos)
                 /\ ReaderAt(got, readAt, written, pos)
  BY <1>1 DEF Kept, Laying
<1>4. PICK n : n = Len(got)
  OBVIOUS
<1>5. PICK x : x = written[n + 1]
  OBVIOUS
<1>6. n \in Nat /\ n + 1 \in 1 .. Len(written) /\ n + 1 \in 1 .. Len(written) + 1
  BY <1>1, <1>2, <1>4
<1>7. /\ readAt = pos[n + 1] /\ readAt \in Nat
      /\ Coded(x) /\ Spells(data, x, pos[n + 1], pos[n + 1 + 1])
  BY <1>3, <1>4, <1>5, <1>6 DEF Laid, ReaderAt
<1>8. Read(x.code, x.n) = [v |-> x.v, at |-> pos[n + 1 + 1]]
  BY <1>2, <1>7, ReadIs
<1>9. got' = Append(got, x.v) /\ readAt' = pos[n + 1 + 1]
  BY <1>4, <1>5, <1>8 DEF ReadItem
<1>10. /\ IsSeq(got') /\ Len(got') = n + 1 /\ got'[n + 1] = x.v
       /\ \A k \in 1 .. n : got'[k] = got[k]
  BY <1>2, <1>4, <1>9, AppendIs
<1>11. ReaderAt(got', readAt', written', pos)
  <2>1. \A k \in 1 .. n : got[k] = written[k].v
    BY <1>3, <1>4 DEF ReaderAt
  <2>2. \A k \in 1 .. n + 1 : got'[k] = written[k].v
    BY <1>5, <1>6, <1>10, <2>1
  <2> QED
    BY <1>1, <1>6, <1>9, <1>10, <2>2 DEF ReaderAt
<1>12. Laying'
  <2>1. Laid(data', at', written', pos) /\ HeaderLaid(written', pos)
    BY <1>1, <1>3
  <2> QED
    BY <1>11, <2>1 DEF Laying
<1>13. Buffers'
  <2>1. Buffer' = Buffer
    BY <1>1 DEF Buffer
  <2>2. ~(unit' <= Closed)
    BY <1>1 DEF Kept, Buffers, Closed, Order
  <2> QED
    BY <1>1, <1>10, <2>1, <2>2 DEF Kept, Buffers
<1>14. Room'
  BY <1>1 DEF Kept, Room, OfVideos
<1> QED
  BY <1>12, <1>13, <1>14 DEF Kept

LEMMA KeptInit ==
  ASSUME BitAssumption, Init
  PROVE  Kept
<1>1. Buffers
  BY EmptyIsSeq DEF Init, Buffers, Buffer, IsBuffer, Closed, Order
<1>2. Room
  BY DEF Init, Room, OfVideos
<1>3. Laying
  <2> DEFINE pos == [k \in 1 .. 1 |-> 0]
  <2>1. Laid({}, 0, <<>>, pos) /\ ReaderAt(<<>>, 0, <<>>, pos)
    BY EmptyIsSeq DEF Laid, ReaderAt
  <2> HIDE DEF pos
  <2> QED
    BY <2>1 DEF Init, Laying
<1> QED
  BY <1>1, <1>2, <1>3 DEF Kept

LEMMA KeptNext ==
  ASSUME BitAssumption, Kept, [Next]_vars
  PROVE  Kept'
<1>1. CASE UNCHANGED vars
  <2>1. /\ UNCHANGED <<data, size, at, sizeAt, unit, count, written, readAt, got>>
        /\ Buffer' = Buffer
    BY <1>1 DEF vars, Buffer
  <2> QED
    BY <2>1 DEF Kept, Buffers, Room, Laying, OfVideos
<1>2. CASE Next
  <2>1. CASE Terminated
    BY <1>1, <2>1 DEF Terminated
  <2> QED
    BY <1>2, <2>1, WriteHeaderKeeps, WriteUnitHeaderKeeps, WriteFieldKeeps, EndFieldsKeeps,
       WriteVideoKeeps, EndVideosKeeps, WriteSizeKeeps, ReadItemKeeps DEF Next
<1> QED
  BY <1>1, <1>2

\* The writer and the reader agree on the place of every item.
THEOREM KeptHolds == Spec => []Kept
<1>1. Init => Kept
  BY BitAssumption, KeptInit
<1>2. Kept /\ [Next]_vars => Kept'
  BY BitAssumption, KeptNext
<1> QED
  BY <1>1, <1>2, PTL DEF Spec

\* Nothing is written behind the end of the buffer.
THEOREM InBufferHolds == Spec => []InBuffer
<1>1. Kept => InBuffer
  BY DEF Kept, Room, Buffers, IsBuffer, Buffer, InBuffer
<1> QED
  BY <1>1, KeptHolds, PTL

\* What is read is what was written, item by item and up to the last bit.
THEOREM ReadBackHolds == Spec => []ReadBack
<1>1. Kept => ReadBack
  <2> SUFFICES ASSUME Kept PROVE ReadBack
    OBVIOUS
  <2>1. PICK pos : Laid(data, at, written, pos) /\ ReaderAt(got, readAt, written, pos)
    BY DEF Kept, Laying
  <2>2. DOMAIN got = 1 .. Len(got)
    BY DEF Kept, Buffers, IsSeq
  <2>3. \A k \in DOMAIN got : got[k] = written[k].v
    BY <2>1, <2>2 DEF ReaderAt
  <2>4. Len(got) = Len(written) => readAt = at
    BY <2>1 DEF Laid, ReaderAt
  <2> QED
    BY <2>3, <2>4 DEF ReadBack
<1> QED
  BY <1>1, KeptHolds, PTL
=============================================================================
