---------------------------- MODULE DataLemmas ----------------------------
(***************************************************************************)
(* Facts about numbers and sequences that the proofs of several components *)
(* use.  Induction on the naturals is done with a set, which the provers   *)
(* can handle, in place of a predicate.                                    *)
(***************************************************************************)
EXTENDS Bits, SequencesExt, FiniteSetTheorems, SequenceTheorems,
        WellFoundedInduction, TLAPS

\* A set of naturals that holds 0 and every successor is Nat: otherwise the
\* successor would map its part below a missing n one to one into itself
\* without 0.
LEMMA SetInduction ==
  ASSUME NEW S \in SUBSET Nat, 0 \in S, \A n \in S : n + 1 \in S
  PROVE  S = Nat
<1> SUFFICES ASSUME NEW n \in Nat, n \notin S PROVE FALSE
  OBVIOUS
<1> DEFINE T == S \cap (0 .. n)
           f == [x \in T |-> x + 1]
<1>1. IsFiniteSet(T)
  BY FS_Interval, FS_Subset, 0 \in Int, n \in Int
<1>2. f \in [T -> T \ {0}]
  OBVIOUS
<1>3. Cardinality(T \ {0}) < Cardinality(T) /\ IsFiniteSet(T \ {0})
  <2>1. 0 \in T
    OBVIOUS
  <2> HIDE DEF T
  <2>2. Cardinality(T) \in Nat
    BY <1>1, FS_CardinalityType
  <2>3. IsFiniteSet(T \ {0}) /\ Cardinality(T \ {0}) = Cardinality(T) - 1
    BY <2>1, <1>1, FS_RemoveElement
  <2> QED
    BY <2>2, <2>3
<1> HIDE DEF f
<1>4. \E x, y \in T : x # y /\ f[x] = f[y]
  BY <1>1, <1>2, <1>3, FS_PigeonHole
<1> QED
  BY <1>4 DEF f

\* A set of numbers with a member has a least one.
LEMMA LeastNumber ==
  ASSUME NEW T \in SUBSET Nat, T # {}
  PROVE  \E x \in T : \A y \in T : x <= y
  <1>1. PICK x \in T : \A y \in T : ~ (<<y, x>> \in OpToRel(<, Nat))
    BY NatLessThanWellFounded, WFMin
  <1>2. ASSUME NEW y \in T PROVE x <= y
    <2>1. y \in Nat /\ x \in Nat
      OBVIOUS
    <2>2. <<y,x>> \in OpToRel(<, Nat) \/ ~(y < x)
      BY <2>1 DEF OpToRel
    <2>3. ~(y < x)
      BY <1>1, <2>2, Zenon
    <2> QED BY <2>1, <2>3
  <1> QED BY <1>2

-----------------------------------------------------------------------------
\* A sequence, of whatever.
IsSeq(s) == Len(s) \in Nat /\ s = [i \in 1 .. Len(s) |-> s[i]]

\* A function of the numbers up to n is a sequence of length n.
LEMMA FunctionIsSeq ==
  ASSUME NEW T, NEW n \in Nat, NEW s \in [1 .. n -> T]
  PROVE  s \in Seq(T) /\ Len(s) = n
OBVIOUS

\* The empty sequence, and one that is made longer.
LEMMA EmptyIsSeq == IsSeq(<<>>)
BY DEF IsSeq

\* A sequence that gets an element keeps the others.
LEMMA AppendIs ==
  ASSUME NEW s, IsSeq(s), NEW x
  PROVE  /\ IsSeq(Append(s, x)) /\ Len(Append(s, x)) = Len(s) + 1
         /\ \A i \in 1 .. Len(s) : Append(s, x)[i] = s[i]
         /\ Append(s, x)[Len(s) + 1] = x
         /\ Append(s, x) # <<>>
<1> DEFINE S == {s[i] : i \in 1 .. Len(s)} \cup {x}
<1>1. s \in [1 .. Len(s) -> S] /\ x \in S /\ Len(s) \in Nat
  BY DEF IsSeq
<1>2. s \in Seq(S)
  BY <1>1, SeqDef
<1> HIDE DEF S
<1>3. /\ Append(s, x) \in Seq(S) /\ Len(Append(s, x)) = Len(s) + 1
      /\ \A i \in 1 .. Len(s) : Append(s, x)[i] = s[i]
      /\ Append(s, x)[Len(s) + 1] = x
  BY <1>1, <1>2, AppendProperties
<1>4. IsSeq(Append(s, x))
  <2> DEFINE t == Append(s, x)
  <2>1. t \in Seq(S)
    BY <1>3
  <2> HIDE DEF t
  <2> QED
    BY <2>1, LenProperties DEF IsSeq, t
<1> QED
  BY <1>1, <1>3, <1>4

\* A sequence of which one element is replaced keeps the others.
LEMMA ReplaceIs ==
  ASSUME NEW s, IsSeq(s), NEW i \in 1 .. Len(s), NEW x
  PROVE  /\ IsSeq([s EXCEPT ![i] = x]) /\ Len([s EXCEPT ![i] = x]) = Len(s)
         /\ [s EXCEPT ![i] = x][i] = x
         /\ \A k \in 1 .. Len(s) : k # i => [s EXCEPT ![i] = x][k] = s[k]
<1> DEFINE T == {s[k] : k \in 1 .. Len(s)} \cup {x}
           t == [s EXCEPT ![i] = x]
<1>1. s \in [1 .. Len(s) -> T] /\ x \in T /\ Len(s) \in Nat
  BY DEF IsSeq
<1> HIDE DEF T
<1>2. t \in [1 .. Len(s) -> T] /\ t[i] = x /\ \A k \in 1 .. Len(s) : k # i => t[k] = s[k]
  BY <1>1
<1> HIDE DEF t
<1>3. Len(t) = Len(s)
  BY <1>1, <1>2, FunctionIsSeq
<1>4. IsSeq(t)
  BY <1>1, <1>2, <1>3 DEF IsSeq
<1> QED
  BY <1>2, <1>3, <1>4 DEF t

-----------------------------------------------------------------------------
(***************************************************************************)
(* FlattenSeq joins a list of lists from the front.                        *)
(***************************************************************************)
\* The beginnings of a flattened list, after each of its first n members.
Joined(f, ss, n) ==
  f = [i \in 1 .. n |-> IF i = 1 THEN ss[i] ELSE f[i - 1] \o ss[i]]

JoinOf(ss, n) == CHOOSE f : Joined(f, ss, n)

\* Such a table exists for every list.
LEMMA JoinedExists ==
  ASSUME NEW ss, NEW n \in Nat
  PROVE  Joined(JoinOf(ss, n), ss, n)
<1> DEFINE S == {m \in Nat : \E f : Joined(f, ss, m)}
<1>1. 0 \in S
  <2>1. Joined([i \in 1 .. 0 |-> 0], ss, 0)
    BY DEF Joined
  <2> QED
    BY <2>1
<1>2. ASSUME NEW m \in S PROVE m + 1 \in S
  <2>1. PICK f : Joined(f, ss, m)
    OBVIOUS
  <2> DEFINE g == [i \in 1 .. m + 1 |->
                     IF i = 1 THEN ss[i]
                     ELSE IF i = m + 1 THEN f[m] \o ss[i] ELSE f[i]]
  <2>2. \A i \in 1 .. m : f[i] = IF i = 1 THEN ss[i] ELSE f[i - 1] \o ss[i]
    BY <2>1 DEF Joined
  <2>3. \A i \in 1 .. m + 1 : g[i] = IF i = 1 THEN ss[i] ELSE g[i - 1] \o ss[i]
    <3> TAKE i \in 1 .. m + 1
    <3>1. CASE i = 1
      BY <3>1
    <3>2. CASE i # 1 /\ i # m + 1
      <4>1. i - 1 \in 1 .. m /\ i \in 1 .. m /\ i - 1 # m + 1
        BY <3>2
      <4>2. g[i - 1] = f[i - 1]
        BY <4>1, <2>2
      <4>3. g[i] = f[i]
        BY <4>1, <3>2
      <4> HIDE DEF g
      <4> QED
        BY <4>1, <4>2, <4>3, <3>2, <2>2
    <3>3. CASE i # 1 /\ i = m + 1
      <4>1. m \in 1 .. m /\ m # m + 1 /\ i - 1 = m
        BY <3>3
      <4>2. g[m] = f[m]
        BY <4>1, <2>2
      <4>3. g[i] = f[m] \o ss[i]
        BY <3>3
      <4> HIDE DEF g
      <4> QED
        BY <4>1, <4>2, <4>3, <3>3
    <3> QED
      BY <3>1, <3>2, <3>3
  <2>4. g = [i \in 1 .. m + 1 |-> g[i]]
    OBVIOUS
  <2> HIDE DEF g
  <2>5. Joined(g, ss, m + 1)
    BY <2>3, <2>4 DEF Joined
  <2> QED
    BY <2>5
<1>3. S \in SUBSET Nat
  OBVIOUS
<1> HIDE DEF S
<1>4. S = Nat
  BY <1>1, <1>2, <1>3, SetInduction
<1>5. \E f : Joined(f, ss, n)
  BY <1>4 DEF S
<1> QED
  BY <1>5 DEF JoinOf

\* Lists that begin alike have tables that begin alike.
LEMMA JoinedUnique ==
  ASSUME NEW f, NEW ss, NEW m \in Nat, NEW g, NEW tt, NEW n \in Nat,
         m <= n, Joined(f, ss, m), Joined(g, tt, n),
         \A i \in 1 .. m : ss[i] = tt[i]
  PROVE  \A i \in 1 .. m : f[i] = g[i]
<1> DEFINE S == {i \in Nat : i \in 1 .. m => f[i] = g[i]}
<1>0. /\ \A i \in 1 .. m : f[i] = IF i = 1 THEN ss[i] ELSE f[i - 1] \o ss[i]
      /\ \A i \in 1 .. n : g[i] = IF i = 1 THEN tt[i] ELSE g[i - 1] \o tt[i]
  BY DEF Joined
<1>1. 0 \in S
  OBVIOUS
<1>2. ASSUME NEW i \in S PROVE i + 1 \in S
  <2> SUFFICES ASSUME i + 1 \in 1 .. m PROVE f[i + 1] = g[i + 1]
    OBVIOUS
  <2>1. i + 1 \in 1 .. m /\ i + 1 \in 1 .. n /\ ss[i + 1] = tt[i + 1] /\ (i + 1) - 1 = i
    OBVIOUS
  <2>2. CASE i = 0
    BY <1>0, <2>1, <2>2
  <2>3. CASE i # 0
    <3>1. f[i] = g[i] /\ i + 1 # 1
      BY <2>1, <2>3
    <3>2. f[i + 1] = f[i] \o ss[i + 1] /\ g[i + 1] = g[i] \o tt[i + 1]
      BY <1>0, <2>1, <3>1
    <3> QED
      BY <3>1, <3>2, <2>1
  <2> QED
    BY <2>2, <2>3
<1>3. S \in SUBSET Nat
  OBVIOUS
<1> HIDE DEF S
<1>4. S = Nat
  BY <1>1, <1>2, <1>3, SetInduction
<1> QED
  BY <1>4 DEF S

\* A list that begins with another one has a table that begins with its.
LEMMA JoinedLonger ==
  ASSUME NEW ss, NEW tt, NEW m \in Nat, \A i \in 1 .. m : ss[i] = tt[i]
  PROVE  \A i \in 1 .. m : JoinOf(ss, m)[i] = JoinOf(tt, m + 1)[i]
<1> DEFINE f == JoinOf(ss, m)
           g == JoinOf(tt, m + 1)
<1>1. Joined(f, ss, m) /\ Joined(g, tt, m + 1) /\ m + 1 \in Nat /\ m <= m + 1
  BY JoinedExists
<1> HIDE DEF f, g
<1>2. \A i \in 1 .. m : f[i] = g[i]
  BY <1>1, JoinedUnique
<1> QED
  BY <1>2 DEF f, g

\* FlattenSeq is the last of the beginnings.
LEMMA FlattenIs ==
  ASSUME NEW ss
  PROVE  FlattenSeq(ss) = IF Len(ss) = 0 THEN ss ELSE JoinOf(ss, Len(ss))[Len(ss)]
BY Zenon DEF FlattenSeq, JoinOf, Joined

\* Flattening a longer list adds its last member.
LEMMA FlattenAppend ==
  ASSUME NEW T, NEW ss \in Seq(Seq(T)), NEW s \in Seq(T)
  PROVE  FlattenSeq(Append(ss, s)) = FlattenSeq(ss) \o s
<1> DEFINE n == Len(ss)
           tt == Append(ss, s)
<1>1. /\ n \in Nat /\ tt \in Seq(Seq(T)) /\ Len(tt) = n + 1 /\ tt[n + 1] = s
      /\ \A i \in 1 .. n : ss[i] = tt[i]
  BY AppendProperties, LenProperties
<1> HIDE DEF n, tt
<1>f. PICK f : f = JoinOf(ss, n)
  OBVIOUS
<1>g. PICK g : g = JoinOf(tt, n + 1)
  OBVIOUS
<1>2. Joined(f, ss, n) /\ Joined(g, tt, n + 1)
  BY <1>f, <1>g, <1>1, JoinedExists
<1>3. FlattenSeq(ss) = IF n = 0 THEN ss ELSE f[n]
  BY <1>f, FlattenIs DEF n
<1>4. FlattenSeq(tt) = g[n + 1]
  <2>1. FlattenSeq(tt) = IF n + 1 = 0 THEN tt ELSE g[n + 1]
    BY <1>g, <1>1, FlattenIs
  <2> QED
    BY <1>1, <2>1
<1>5. g[n + 1] = IF n + 1 = 1 THEN tt[n + 1] ELSE g[(n + 1) - 1] \o tt[n + 1]
  <2>1. n + 1 \in 1 .. n + 1
    BY <1>1
  <2> QED
    BY <1>2, <2>1 DEF Joined
<1>6. CASE n = 0
  <2>1. ss = <<>>
    BY <1>6 DEF n
  <2>2. <<>> \o s = s
    OBVIOUS
  <2>3. FlattenSeq(ss) = <<>>
    BY <1>3, <1>6, <2>1
  <2>4. FlattenSeq(tt) = s
    BY <1>1, <1>4, <1>5, <1>6
  <2> QED
    BY <2>2, <2>3, <2>4 DEF tt
<1>7. CASE n # 0
  <2>1. g[n] = f[n]
    <3>1. n \in 1 .. n
      BY <1>1, <1>7
    <3>2. \A i \in 1 .. n : JoinOf(ss, n)[i] = JoinOf(tt, n + 1)[i]
      BY <1>1, JoinedLonger
    <3> QED
      BY <3>1, <3>2, <1>f, <1>g
  <2>2. (n + 1) - 1 = n /\ n + 1 # 1
    BY <1>1, <1>7
  <2> QED
    BY <1>1, <1>3, <1>4, <1>5, <1>7, <2>1, <2>2 DEF tt
<1> QED
  BY <1>6, <1>7

\* A flattened list is a list of members of its members.
LEMMA FlattenType ==
  ASSUME NEW T, NEW ss \in Seq(Seq(T))
  PROVE  FlattenSeq(ss) \in Seq(T)
<1> DEFINE n == Len(ss)
           f == JoinOf(ss, n)
           S == {i \in Nat : i \in 1 .. n => f[i] \in Seq(T)}
<1>0. n \in Nat /\ \A i \in 1 .. n : ss[i] \in Seq(T)
  OBVIOUS
<1>1. \A i \in 1 .. n : f[i] = IF i = 1 THEN ss[i] ELSE f[i - 1] \o ss[i]
  <2> HIDE DEF n
  <2>1. Joined(f, ss, n)
    BY <1>0, JoinedExists
  <2> HIDE DEF f
  <2> QED
    BY <2>1 DEF Joined
<1> HIDE DEF n, f
<1>2. 0 \in S
  OBVIOUS
<1>3. ASSUME NEW i \in S PROVE i + 1 \in S
  <2> SUFFICES ASSUME i + 1 \in 1 .. n PROVE f[i + 1] \in Seq(T)
    OBVIOUS
  <2>1. CASE i = 0
    BY <1>0, <1>1, <2>1
  <2>2. CASE i # 0
    <3>1. i \in 1 .. n /\ (i + 1) - 1 = i /\ i + 1 # 1
      BY <1>0, <2>2
    <3>2. f[i] \in Seq(T) /\ ss[i + 1] \in Seq(T) /\ f[i + 1] = f[i] \o ss[i + 1]
      BY <1>0, <1>1, <3>1
    <3> QED
      BY <3>2, ConcatProperties
  <2> QED
    BY <2>1, <2>2
<1>4. S \in SUBSET Nat
  OBVIOUS
<1> HIDE DEF S
<1>5. S = Nat
  BY <1>2, <1>3, <1>4, SetInduction
<1>6. n # 0 => f[n] \in Seq(T)
  BY <1>0, <1>5 DEF S
<1>7. FlattenSeq(ss) = IF n = 0 THEN ss ELSE f[n]
  BY FlattenIs DEF n, f
<1>8. n = 0 => ss = <<>>
  BY EmptySeq DEF n
<1> QED
  BY <1>6, <1>7, <1>8

\* The beginning of a list flattens to the beginning of the flattened list.
LEMMA FlattenPrefix ==
  ASSUME NEW T, NEW ss \in Seq(Seq(T)), NEW k \in 0 .. Len(ss)
  PROVE  \E rest \in Seq(T) :
           FlattenSeq(ss) = FlattenSeq(SubSeq(ss, 1, k)) \o rest
<1> DEFINE n == Len(ss)
           cut(m) == SubSeq(ss, 1, m)
           Reach(m) == \E rest \in Seq(T) :
                         FlattenSeq(cut(m)) = FlattenSeq(cut(k)) \o rest
           S == {d \in Nat : k + d <= n => Reach(k + d)}
<1>0. n \in Nat /\ k \in Nat /\ k <= n
  OBVIOUS
<1>1. \A m \in 0 .. n : cut(m) \in Seq(Seq(T)) /\ FlattenSeq(cut(m)) \in Seq(T)
  <2> TAKE m \in 0 .. n
  <2>1. cut(m) \in Seq(Seq(T))
    OBVIOUS
  <2> HIDE DEF cut
  <2> QED
    BY <2>1, FlattenType
<1>2. \A m \in Nat : m + 1 <= n => cut(m + 1) = Append(cut(m), ss[m + 1]) /\ ss[m + 1] \in Seq(T)
  <2> SUFFICES ASSUME NEW m \in Nat, m + 1 <= n
               PROVE  cut(m + 1) = Append(cut(m), ss[m + 1]) /\ ss[m + 1] \in Seq(T)
    OBVIOUS
  <2>1. ss[m + 1] \in Seq(T)
    OBVIOUS
  <2>2. /\ Len(cut(m + 1)) = m + 1 /\ \A i \in 1 .. m + 1 : cut(m + 1)[i] = ss[i]
        /\ Len(cut(m)) = m /\ \A i \in 1 .. m : cut(m)[i] = ss[i]
        /\ cut(m + 1) \in Seq(Seq(T)) /\ cut(m) \in Seq(Seq(T))
    OBVIOUS
  <2> HIDE DEF cut
  <2>3. /\ Append(cut(m), ss[m + 1]) \in Seq(Seq(T))
        /\ Len(Append(cut(m), ss[m + 1])) = m + 1
        /\ \A i \in 1 .. m : Append(cut(m), ss[m + 1])[i] = ss[i]
        /\ Append(cut(m), ss[m + 1])[m + 1] = ss[m + 1]
    BY <2>1, <2>2, AppendProperties
  <2>4. \A i \in 1 .. m + 1 : cut(m + 1)[i] = Append(cut(m), ss[m + 1])[i]
    BY <2>2, <2>3
  <2>5. cut(m + 1) = Append(cut(m), ss[m + 1])
    BY <2>2, <2>3, <2>4, SeqEqual
  <2> QED
    BY <2>1, <2>5
<1> HIDE DEF cut, n
<1>3. 0 \in S
  <2>1. k + 0 = k /\ FlattenSeq(cut(k)) \in Seq(T)
    BY <1>0, <1>1
  <2>2. FlattenSeq(cut(k)) = FlattenSeq(cut(k)) \o <<>> /\ <<>> \in Seq(T)
    BY <2>1, ConcatEmptySeq
  <2>3. Reach(k)
    BY <2>2
  <2> HIDE DEF Reach
  <2> QED
    BY <2>1, <2>3
<1> HIDE DEF Reach
<1>4. ASSUME NEW d \in S PROVE d + 1 \in S
  <2> SUFFICES ASSUME k + (d + 1) <= n PROVE Reach(k + (d + 1))
    OBVIOUS
  <2>0. Reach(k + d)
    BY <1>0
  <2>1. PICK rest \in Seq(T) : FlattenSeq(cut(k + d)) = FlattenSeq(cut(k)) \o rest
    BY <2>0 DEF Reach
  <2>2. k + d \in Nat /\ k + (d + 1) = (k + d) + 1 /\ k + d \in 0 .. n
    BY <1>0
  <2>3. /\ cut(k + (d + 1)) = Append(cut(k + d), ss[(k + d) + 1])
        /\ ss[(k + d) + 1] \in Seq(T)
    BY <1>2, <2>2
  <2>4. FlattenSeq(cut(k + (d + 1))) = FlattenSeq(cut(k + d)) \o ss[(k + d) + 1]
    BY <1>1, <2>2, <2>3, FlattenAppend
  <2>5. FlattenSeq(cut(k)) \in Seq(T)
    BY <1>0, <1>1
  <2>6. (FlattenSeq(cut(k)) \o rest) \o ss[(k + d) + 1]
          = FlattenSeq(cut(k)) \o (rest \o ss[(k + d) + 1])
    <3>1. PICK a \in Seq(T) : a = FlattenSeq(cut(k))
      BY <2>5
    <3>2. PICK b \in Seq(T) : b = ss[(k + d) + 1]
      BY <2>3
    <3>3. (a \o rest) \o b = a \o (rest \o b)
      BY ConcatAssociative
    <3> QED
      BY <3>1, <3>2, <3>3
  <2>7. rest \o ss[(k + d) + 1] \in Seq(T)
    BY <2>3, ConcatProperties
  <2> QED
    BY <2>1, <2>4, <2>6, <2>7, Zenon DEF Reach
<1>5. S \in SUBSET Nat
  OBVIOUS
<1> HIDE DEF S
<1>6. S = Nat
  BY <1>3, <1>4, <1>5, SetInduction
<1>7. n - k \in Nat /\ k + (n - k) = n
  BY <1>0
<1>8. Reach(n)
  <2>1. n - k \in S
    BY <1>6, <1>7
  <2>2. k + (n - k) <= n
    BY <1>0, <1>7
  <2>3. Reach(k + (n - k))
    BY <2>1, <2>2 DEF S
  <2> QED
    BY <1>7, <2>3
<1>9. cut(n) = ss
  BY DEF cut, n
<1> QED
  BY <1>8, <1>9 DEF cut, Reach

-----------------------------------------------------------------------------
(***************************************************************************)
(* Powers of two, and the bits of a number.                                *)
(***************************************************************************)
\* A table of the powers of two up to n.
Pow2Table(f, n) ==
  f \in [0 .. n -> Nat] /\ \A i \in 0 .. n :
    f[i] = IF i = 0 THEN 1 ELSE 2 * f[i - 1]

\* A table of the powers of two exists up to every size.
LEMMA Pow2TableExists == \A n \in Nat : \E f : Pow2Table(f, n)
<1> DEFINE S == {n \in Nat : \E f : Pow2Table(f, n)}
<1>1. 0 \in S
  <2>1. Pow2Table([i \in 0 .. 0 |-> 1], 0)
    BY DEF Pow2Table
  <2> QED
    BY <2>1
<1>2. ASSUME NEW n \in S PROVE n + 1 \in S
  <2>1. PICK f : Pow2Table(f, n)
    OBVIOUS
  <2> DEFINE g == [i \in 0 .. n + 1 |-> IF i = n + 1 THEN 2 * f[n] ELSE f[i]]
  <2>2. Pow2Table(g, n + 1)
    BY <2>1 DEF Pow2Table
  <2> HIDE DEF g
  <2> QED
    BY <2>2
<1> HIDE DEF S
<1>3. S = Nat
  <2>1. S \in SUBSET Nat
    BY DEF S
  <2> QED
    BY <1>1, <1>2, <2>1, SetInduction
<1> QED
  BY <1>3 DEF S

\* Two such tables agree where both are defined.
LEMMA Pow2TableUnique ==
  ASSUME NEW f, NEW g, NEW m \in Nat, NEW n \in Nat,
         Pow2Table(f, m), Pow2Table(g, n)
  PROVE  \A i \in Nat : i <= m /\ i <= n => f[i] = g[i]
<1> DEFINE S == {i \in Nat : i <= m /\ i <= n => f[i] = g[i]}
<1>1. 0 \in S
  BY DEF Pow2Table
<1>2. ASSUME NEW i \in S PROVE i + 1 \in S
  <2> SUFFICES ASSUME i + 1 <= m, i + 1 <= n PROVE f[i + 1] = g[i + 1]
    OBVIOUS
  <2>1. f[i] = g[i]
    OBVIOUS
  <2>2. f[i + 1] = 2 * f[i] /\ g[i + 1] = 2 * g[i]
    <3>1. i + 1 \in 0 .. m /\ i + 1 \in 0 .. n /\ i + 1 # 0 /\ (i + 1) - 1 = i
      OBVIOUS
    <3> QED
      BY <3>1 DEF Pow2Table
  <2> QED
    BY <2>1, <2>2
<1>3. S \in SUBSET Nat
  OBVIOUS
<1> HIDE DEF S
<1>4. S = Nat
  BY <1>1, <1>2, <1>3, SetInduction
<1> QED
  BY <1>4 DEF S

\* The recursive definition of Pow2 has a solution, so Pow2 is one.
LEMMA Pow2Recursive ==
  /\ Pow2 \in [Nat -> Nat]
  /\ \A n \in Nat : Pow2[n] = IF n = 0 THEN 1 ELSE 2 * Pow2[n - 1]
<1> DEFINE table(n) == CHOOSE f : Pow2Table(f, n)
           g == [n \in Nat |-> table(n)[n]]
           step(h) == [n \in Nat |-> IF n = 0 THEN 1 ELSE 2 * h[n - 1]]
<1>1. \A n \in Nat : Pow2Table(table(n), n)
  BY Pow2TableExists
<1> HIDE DEF table
<1>2. g \in [Nat -> Nat]
  BY <1>1 DEF Pow2Table
<1>3. \A n \in Nat : g[n] = IF n = 0 THEN 1 ELSE 2 * g[n - 1]
  <2> TAKE n \in Nat
  <2>1. CASE n = 0
    BY <1>1, <2>1 DEF Pow2Table
  <2>2. CASE n # 0
    <3>1. n - 1 \in Nat
      BY <2>2
    <3>2. table(n)[n - 1] = table(n - 1)[n - 1]
      <4>1. Pow2Table(table(n), n) /\ Pow2Table(table(n - 1), n - 1)
        BY <1>1, <3>1
      <4> QED
        BY <4>1, <3>1, Pow2TableUnique
    <3>3. table(n)[n] = 2 * table(n)[n - 1]
      BY <1>1, <2>2 DEF Pow2Table
    <3> QED
      BY <2>2, <3>1, <3>2, <3>3
  <2> QED
    BY <2>1, <2>2
<1> HIDE DEF g
<1>4. g = step(g)
  BY <1>2, <1>3
<1>5. Pow2 = step(Pow2)
  BY <1>4 DEF Pow2
<1>6. \A n \in Nat : Pow2[n] = IF n = 0 THEN 1 ELSE 2 * Pow2[n - 1]
  BY <1>5
<1> DEFINE S == {n \in Nat : Pow2[n] \in Nat}
<1>7. 0 \in S
  BY <1>6
<1>8. ASSUME NEW n \in S PROVE n + 1 \in S
  <2>1. Pow2[n + 1] = 2 * Pow2[n]
    BY <1>6
  <2> QED
    BY <2>1
<1>9. S \in SUBSET Nat
  OBVIOUS
<1> HIDE DEF S
<1>10. S = Nat
  BY <1>7, <1>8, <1>9, SetInduction
<1>11. \A n \in Nat : Pow2[n] \in Nat
  BY <1>10 DEF S
<1> HIDE DEF step
<1>12. Pow2 = [n \in Nat |-> Pow2[n]]
  BY <1>5 DEF step
<1> QED
  BY <1>6, <1>11, <1>12

\* A power of two is a positive number.
LEMMA Pow2Type == Pow2 \in [Nat -> Nat \ {0}]
<1> DEFINE S == {n \in Nat : Pow2[n] # 0}
<1>1. 0 \in S
  BY Pow2Recursive
<1>2. ASSUME NEW n \in S PROVE n + 1 \in S
  <2>1. Pow2[n + 1] = 2 * Pow2[n] /\ Pow2[n] \in Nat
    BY Pow2Recursive
  <2> QED
    BY <2>1
<1>3. S \in SUBSET Nat
  OBVIOUS
<1> HIDE DEF S
<1>4. S = Nat
  BY <1>1, <1>2, <1>3, SetInduction
<1> QED
  BY <1>4, Pow2Recursive DEF S

\* Powers of two grow.
LEMMA Pow2Monotone ==
  ASSUME NEW m \in Nat, NEW n \in Nat, m <= n
  PROVE  Pow2[m] <= Pow2[n]
<1> DEFINE S == {d \in Nat : Pow2[m] <= Pow2[m + d]}
<1>1. 0 \in S
  BY Pow2Type
<1>2. ASSUME NEW d \in S PROVE d + 1 \in S
  <2>1. Pow2[m + (d + 1)] = 2 * Pow2[m + d]
    BY Pow2Recursive
  <2>2. Pow2[m] \in Nat /\ Pow2[m + d] \in Nat /\ Pow2[m] <= Pow2[m + d]
    BY Pow2Type
  <2> QED
    BY <2>1, <2>2
<1>3. S \in SUBSET Nat
  OBVIOUS
<1> HIDE DEF S
<1>4. S = Nat
  BY <1>1, <1>2, <1>3, SetInduction
<1>5. n - m \in S /\ m + (n - m) = n
  BY <1>4
<1> QED
  BY <1>5 DEF S

\* A power of two is larger than its exponent.
LEMMA Pow2Exceeds == \A n \in Nat : n < Pow2[n]
<1> DEFINE S == {n \in Nat : n < Pow2[n]}
<1>1. 0 \in S
  BY Pow2Recursive
<1>2. ASSUME NEW n \in S PROVE n + 1 \in S
  <2>1. Pow2[n + 1] = 2 * Pow2[n] /\ Pow2[n] \in Nat
    BY Pow2Recursive
  <2> QED
    BY <2>1
<1>3. S \in SUBSET Nat
  OBVIOUS
<1> HIDE DEF S
<1>4. S = Nat
  BY <1>1, <1>2, <1>3, SetInduction
<1> QED
  BY <1>4 DEF S

\* Halving a quotient divides by twice as much.
LEMMA HalfOfQuotient ==
  ASSUME NEW v \in Nat, NEW p \in Nat \ {0}
  PROVE  v \div (2 * p) = (v \div p) \div 2 /\ v \div p \in Nat
<1> DEFINE q == v \div p
           r == v - p * q
           h == q \div 2
           b == q - 2 * h
<1>1. q \in Nat /\ v = p * q + r /\ r \in 0 .. p - 1
  OBVIOUS
<1> HIDE DEF q, r
<1>2. h \in Nat /\ q = 2 * h + b /\ b \in 0 .. 1
  BY <1>1
<1> HIDE DEF h, b
<1>3. p * q = p * (2 * h) + p * b
  BY <1>1, <1>2
<1>4. p * (2 * h) = (2 * p) * h
  BY <1>2
<1>5. p * b + r \in 0 .. 2 * p - 1
  <2>1. p * b \in {0, p}
    BY <1>2
  <2> QED
    BY <2>1, <1>1
<1>6. v = (2 * p) * h + (p * b + r)
  BY <1>1, <1>2, <1>3, <1>4, <1>5
<1> DEFINE s == p * b + r
           d == 2 * p
<1>7. d \in Nat \ {0} /\ s \in 0 .. d - 1 /\ v = d * h + s
  BY <1>5, <1>6
<1> HIDE DEF s, d
<1>8. v \div d = h
  BY <1>2, <1>7
<1> QED
  BY <1>1, <1>8 DEF d, h, q

\* What a table of the values of the first bits says of all of them.
ValueTable(h, bits, n) ==
  h = [i \in 0 .. n |-> IF i = 0 THEN 0 ELSE 2 * h[i - 1] + bits[i]]

\* The value of bits is the last entry of their table.
LEMMA ValueIs ==
  ASSUME NEW bits, NEW n \in Nat, Len(bits) = n, NEW h, ValueTable(h, bits, n)
  PROVE  Value(bits) = h[n]
<1> DEFINE g == CHOOSE g : ValueTable(g, bits, n)
<1>1. Value(bits) = g[n]
  BY Zenon DEF Value, ValueTable
<1>2. ValueTable(g, bits, n)
  OBVIOUS
<1> HIDE DEF g
<1>3. /\ \A i \in 0 .. n : h[i] = IF i = 0 THEN 0 ELSE 2 * h[i - 1] + bits[i]
      /\ \A i \in 0 .. n : g[i] = IF i = 0 THEN 0 ELSE 2 * g[i - 1] + bits[i]
  BY <1>2 DEF ValueTable
<1> DEFINE S == {i \in Nat : i <= n => h[i] = g[i]}
<1>4. 0 \in S
  BY <1>3
<1>5. ASSUME NEW i \in S PROVE i + 1 \in S
  <2> SUFFICES ASSUME i + 1 <= n PROVE h[i + 1] = g[i + 1]
    OBVIOUS
  <2>1. i + 1 \in 0 .. n /\ i + 1 # 0 /\ (i + 1) - 1 = i /\ h[i] = g[i]
    OBVIOUS
  <2> QED
    BY <1>3, <2>1
<1>6. S \in SUBSET Nat
  OBVIOUS
<1> HIDE DEF S
<1>7. S = Nat
  BY <1>4, <1>5, <1>6, SetInduction
<1> QED
  BY <1>1, <1>7 DEF S

\* Bits are 0 or 1, as many as asked for.
LEMMA FieldType ==
  ASSUME NEW v \in Nat, NEW n \in Nat
  PROVE  Field(v, n) \in Seq({0, 1}) /\ Len(Field(v, n)) = n
<1>1. ASSUME NEW i \in 1 .. n PROVE (v \div Pow2[n - i]) % 2 \in {0, 1}
  <2>1. n - i \in Nat /\ Pow2[n - i] \in Nat \ {0}
    BY Pow2Type
  <2>2. v \div Pow2[n - i] \in Nat
    BY <2>1, HalfOfQuotient
  <2> DEFINE q == v \div Pow2[n - i]
  <2> HIDE DEF q
  <2>3. q \in Nat => q % 2 \in {0, 1}
    OBVIOUS
  <2> QED
    BY <2>2, <2>3 DEF q
<1>2. Field(v, n) \in [1 .. n -> {0, 1}]
  BY <1>1 DEF Field
<1> QED
  BY <1>2

\* A number that fits in n bits is the value of them.
LEMMA ValueOfField ==
  ASSUME NEW n \in Nat, NEW v \in Nat, v < Pow2[n]
  PROVE  Value(Field(v, n)) = v
<1> DEFINE h == [i \in 0 .. n |-> v \div Pow2[n - i]]
           bits == Field(v, n)
<1>1. ASSUME NEW i \in 0 .. n
      PROVE h[i] = IF i = 0 THEN 0 ELSE 2 * h[i - 1] + bits[i]
  <2>1. CASE i = 0
    <3>1. h[i] = v \div Pow2[n] /\ Pow2[n] \in Nat \ {0}
      BY <2>1, Pow2Type
    <3> DEFINE p == Pow2[n]
    <3> HIDE DEF p
    <3>2. p \in Nat \ {0} /\ v < p => v \div p = 0
      OBVIOUS
    <3> QED
      BY <2>1, <3>1, <3>2 DEF p
  <2>2. CASE i # 0
    <3>1. /\ n - i \in Nat /\ n - (i - 1) \in Nat /\ n - (i - 1) # 0
          /\ (n - (i - 1)) - 1 = n - i /\ i \in 1 .. n /\ i - 1 \in 0 .. n
      BY <2>2
    <3>2. Pow2[n - i] \in Nat \ {0} /\ Pow2[n - (i - 1)] = 2 * Pow2[n - i]
      BY <3>1, Pow2Type, Pow2Recursive
    <3> DEFINE p == Pow2[n - i]
               q == v \div p
    <3>3. v \div (2 * p) = q \div 2 /\ q \in Nat
      BY <3>2, HalfOfQuotient
    <3>4. h[i] = q /\ bits[i] = q % 2 /\ h[i - 1] = v \div (2 * p)
      BY <3>1, <3>2 DEF Field
    <3> HIDE DEF p, q
    <3>5. q = 2 * (q \div 2) + (q % 2)
      BY <3>3
    <3> HIDE DEF h, bits
    <3> QED
      BY <2>2, <3>3, <3>4, <3>5
  <2> QED
    BY <2>1, <2>2
<1>2. h = [i \in 0 .. n |-> h[i]]
  OBVIOUS
<1>3. h[n] = v
  <2>1. h[n] = v \div Pow2[0] /\ Pow2[0] = 1
    BY Pow2Recursive
  <2> QED
    BY <2>1
<1>4. Len(bits) = n
  BY FieldType
<1> HIDE DEF h, bits
<1>5. ValueTable(h, bits, n)
  BY <1>1, <1>2 DEF ValueTable
<1> QED
  BY <1>3, <1>4, <1>5, ValueIs DEF bits

\* One bit is its own value, and none is 0.
LEMMA ValueOfBit ==
  /\ \A b \in {0, 1} : Value(<<b>>) = b
  /\ Value(<<>>) = 0
<1>1. ASSUME NEW b \in {0, 1} PROVE Value(<<b>>) = b
  <2> DEFINE h == [i \in 0 .. 1 |-> IF i = 0 THEN 0 ELSE b]
  <2>1. ValueTable(h, <<b>>, 1)
    BY DEF ValueTable
  <2> HIDE DEF h
  <2>2. Value(<<b>>) = h[1]
    BY <2>1, ValueIs
  <2> QED
    BY <2>2 DEF h
<1>2. Value(<<>>) = 0
  <2> DEFINE h == [i \in 0 .. 0 |-> 0]
             none == <<>>
  <2>1. ValueTable(h, none, 0)
    BY DEF ValueTable
  <2>0. Len(none) = 0
    OBVIOUS
  <2> HIDE DEF h, none
  <2>2. Value(none) = h[0]
    BY <2>0, <2>1, ValueIs
  <2> QED
    BY <2>2 DEF h, none
<1> QED
  BY <1>1, <1>2

-----------------------------------------------------------------------------
(***************************************************************************)
(* Enumerations of sets of indices in their order.                         *)
(***************************************************************************)
\* s lists the members of S in their order.
Lists(s, S) ==
  /\ IsSeq(s)
  /\ \A i \in 1 .. Len(s) : s[i] \in S
  /\ \A x \in S : \E i \in 1 .. Len(s) : s[i] = x
  /\ \A i, j \in 1 .. Len(s) : i < j => s[i] < s[j]

\* A set of numbers can be listed in their order.
LEMMA ListExists ==
  \A n \in Nat : \A S \in SUBSET (1 .. n) :
    /\ IsFiniteSet(S)
    /\ \E s \in [1 .. Cardinality(S) -> S] :
         /\ {s[i] : i \in DOMAIN s} = S
         /\ \A i, j \in DOMAIN s : i < j => s[i] < s[j]
<1> DEFINE P(S) == /\ IsFiniteSet(S)
                   /\ \E s \in [1 .. Cardinality(S) -> S] :
                        /\ {s[i] : i \in DOMAIN s} = S
                        /\ \A i, j \in DOMAIN s : i < j => s[i] < s[j]
           T == {n \in Nat : \A S \in SUBSET (1 .. n) : P(S)}
<1>1. 0 \in T
  <2> SUFFICES ASSUME NEW S \in SUBSET (1 .. 0) PROVE P(S)
    OBVIOUS
  <2>1. S = {}
    <3>1. 1 .. 0 = {}
      OBVIOUS
    <3> QED
      BY <3>1
  <2>2. IsFiniteSet(S) /\ Cardinality(S) = 0
    BY <2>1, FS_EmptySet
  <2>3. 1 .. Cardinality(S) = {}
    BY <2>2
  <2> DEFINE s == [i \in 1 .. Cardinality(S) |-> 0]
  <2>4. s \in [1 .. Cardinality(S) -> S] /\ DOMAIN s = {}
    BY <2>3
  <2>5. {s[i] : i \in DOMAIN s} = S
    BY <2>1, <2>4
  <2> QED
    BY <2>2, <2>4, <2>5
<1>2. ASSUME NEW n \in T PROVE n + 1 \in T
  <2> HIDE DEF P
  <2> SUFFICES ASSUME NEW S \in SUBSET (1 .. n + 1) PROVE P(S)
    OBVIOUS
  <2>0. n \in Nat /\ \A R \in SUBSET (1 .. n) : P(R)
    OBVIOUS
  <2> USE DEF P
  <2>1. CASE n + 1 \notin S
    <3>1. S \in SUBSET (1 .. n)
      BY <2>0, <2>1
    <3> QED
      BY <2>0, <3>1
  <2>2. CASE n + 1 \in S
    <3> DEFINE R == S \ {n + 1}
    <3>1. R \in SUBSET (1 .. n) /\ S = R \cup {n + 1} /\ n + 1 \notin R
      BY <2>0, <2>2
    <3> HIDE DEF R
    <3>2. IsFiniteSet(R)
      BY <2>0, <3>1
    <3>3. PICK t \in [1 .. Cardinality(R) -> R] :
            /\ {t[i] : i \in DOMAIN t} = R
            /\ \A i, j \in DOMAIN t : i < j => t[i] < t[j]
      BY <2>0, <3>1
    <3>4. IsFiniteSet(S) /\ Cardinality(S) = Cardinality(R) + 1
      BY <3>1, <3>2, FS_AddElement
    <3>5. PICK c \in Nat : c = Cardinality(R)
      BY <3>2, FS_CardinalityType
    <3> DEFINE s == [i \in 1 .. c + 1 |-> IF i <= c THEN t[i] ELSE n + 1]
    <3>6. \A i \in 1 .. c : t[i] \in R /\ t[i] \in 1 .. n
      BY <3>1, <3>3, <3>5
    <3>7. s \in [1 .. c + 1 -> S]
      <4> SUFFICES ASSUME NEW i \in 1 .. c + 1 PROVE s[i] \in S
        OBVIOUS
      <4>1. i <= c => i \in 1 .. c
        BY <3>5
      <4> QED
        BY <3>1, <3>6, <4>1
    <3>8. ASSUME NEW x \in S PROVE \E i \in 1 .. c + 1 : s[i] = x
      <4>1. CASE x = n + 1
        BY <3>5, <4>1
      <4>2. CASE x # n + 1
        <5>1. PICK i \in 1 .. c : t[i] = x
          BY <3>1, <3>3, <3>5, <4>2
        <5>2. i \in 1 .. c + 1 /\ i <= c
          BY <3>5
        <5> QED
          BY <5>1, <5>2
      <4> QED
        BY <4>1, <4>2
    <3>10. ASSUME NEW i \in 1 .. c + 1, NEW j \in 1 .. c + 1, i < j
           PROVE  s[i] < s[j]
      <4>1. i \in 1 .. c
        BY <3>5, <3>10
      <4>2. CASE j <= c
        <5>1. j \in 1 .. c
          BY <3>5, <4>2
        <5>2. t[i] < t[j]
          BY <3>3, <3>5, <3>10, <4>1, <5>1
        <5> QED
          BY <4>1, <4>2, <5>2
      <4>3. CASE ~(j <= c)
        <5>1. s[i] = t[i] /\ s[j] = n + 1
          BY <4>1, <4>3
        <5>2. t[i] \in 1 .. n
          BY <3>6, <4>1
        <5> QED
          BY <2>0, <5>1, <5>2
      <4> QED
        BY <4>2, <4>3
    <3>11. DOMAIN s = 1 .. c + 1
      OBVIOUS
    <3> HIDE DEF s
    <3>9. {s[i] : i \in DOMAIN s} = S
      <4>1. {s[i] : i \in 1 .. c + 1} = S
        <5>1. \A i \in 1 .. c + 1 : s[i] \in S
          BY <3>7
        <5> DEFINE I == {s[i] : i \in 1 .. c + 1}
        <5>2. \A x \in I : x \in S
          BY <5>1
        <5>3. \A x \in S : x \in I
          BY <3>8
        <5> HIDE DEF I
        <5>4. I = S
          BY <5>2, <5>3
        <5> QED
          BY <5>4 DEF I
      <4> QED
        BY <3>11, <4>1
    <3>12. \A i, j \in DOMAIN s : i < j => s[i] < s[j]
      BY <3>10, <3>11
    <3>13. \E r \in [1 .. c + 1 -> S] :
             /\ {r[i] : i \in DOMAIN r} = S
             /\ \A i, j \in DOMAIN r : i < j => r[i] < r[j]
      BY <3>7, <3>9, <3>12
    <3> QED
      BY <3>4, <3>5, <3>13
  <2> QED
    BY <2>1, <2>2
<1> HIDE DEF P
<1>3. T = Nat
  BY <1>1, <1>2, SetInduction
<1> QED
  BY <1>3 DEF P

\* There is one list of a set.
LEMMA ListsOnce ==
  ASSUME NEW S, NEW s, NEW t, S \subseteq Int, Lists(s, S), Lists(t, S)
  PROVE  s = t
<1> DEFINE A == {n \in Nat : \A i \in 1 .. n : i <= Len(s) => i <= Len(t) /\ s[i] = t[i]}
<1>0. Len(s) \in Nat /\ Len(t) \in Nat
  BY DEF Lists, IsSeq
<1>a. /\ \A i \in 1 .. Len(s) : s[i] \in Int /\ s[i] \in S
      /\ \A i \in 1 .. Len(t) : t[i] \in Int /\ t[i] \in S
  BY DEF Lists
<1>1. 0 \in A
  OBVIOUS
<1>2. ASSUME NEW n \in A PROVE n + 1 \in A
  <2> SUFFICES ASSUME n + 1 <= Len(s) PROVE n + 1 <= Len(t) /\ s[n + 1] = t[n + 1]
    <3>1. \A i \in 1 .. n + 1 : i \in 1 .. n \/ i = n + 1
      OBVIOUS
    <3> QED
      BY <3>1
  <2>1. n + 1 \in 1 .. Len(s) /\ n \in Nat
    BY <1>0
  <2>2. \A i \in 1 .. n : i \in 1 .. Len(s) /\ i \in 1 .. Len(t) /\ s[i] = t[i]
    BY <1>0, <2>1
  <2>3. PICK j \in 1 .. Len(t) : t[j] = s[n + 1]
    BY <1>a, <2>1 DEF Lists
  <2>4. ~(j \in 1 .. n)
    <3>1. SUFFICES ASSUME j \in 1 .. n PROVE FALSE
      OBVIOUS
    <3>2. s[j] = s[n + 1] /\ j \in 1 .. Len(s) /\ j < n + 1
      BY <2>1, <2>2, <2>3, <3>1
    <3>3. s[j] < s[n + 1]
      BY <2>1, <3>2 DEF Lists
    <3> QED
      BY <1>a, <2>1, <3>2, <3>3
  <2>5. n + 1 \in 1 .. Len(t) /\ n + 1 <= j
    BY <1>0, <2>1, <2>3, <2>4
  <2>6. PICK k \in 1 .. Len(s) : s[k] = t[n + 1]
    BY <1>a, <2>5 DEF Lists
  <2>7. ~(k \in 1 .. n)
    <3>1. SUFFICES ASSUME k \in 1 .. n PROVE FALSE
      OBVIOUS
    <3>2. t[k] = t[n + 1] /\ k \in 1 .. Len(t) /\ k < n + 1
      BY <2>1, <2>2, <2>6, <3>1
    <3>3. t[k] < t[n + 1]
      BY <2>5, <3>2 DEF Lists
    <3> QED
      BY <1>a, <2>5, <3>2, <3>3
  <2>8. k = n + 1
    <3>1. SUFFICES ASSUME k > n + 1 PROVE FALSE
      BY <1>0, <2>1, <2>7
    <3>2. s[n + 1] < s[k]
      BY <2>1, <2>6, <3>1 DEF Lists
    <3>3. j = n + 1 \/ t[n + 1] < t[j]
      BY <2>3, <2>5 DEF Lists
    <3> QED
      BY <1>a, <2>1, <2>3, <2>5, <2>6, <3>2, <3>3
  <2> QED
    BY <2>5, <2>6, <2>8
<1>3. A = Nat
  BY <1>1, <1>2, SetInduction
<1>4. \A i \in 1 .. Len(s) : i <= Len(t) /\ s[i] = t[i]
  BY <1>0, <1>3
<1>5. Len(s) <= Len(t)
  BY <1>0, <1>4
<1>6. Len(s) = Len(t)
  <2>1. SUFFICES ASSUME Len(s) < Len(t) PROVE FALSE
    BY <1>0, <1>5
  <2>2. Len(s) + 1 \in 1 .. Len(t)
    BY <1>0, <2>1
  <2>3. PICK k \in 1 .. Len(s) : s[k] = t[Len(s) + 1]
    BY <1>a, <2>2 DEF Lists
  <2>4. s[k] = t[k] /\ k \in 1 .. Len(t) /\ k < Len(s) + 1
    BY <1>0, <1>4, <2>1, <2>3
  <2>5. t[k] < t[Len(s) + 1]
    BY <2>2, <2>4 DEF Lists
  <2> QED
    BY <1>a, <2>2, <2>3, <2>4, <2>5
<1> QED
  BY <1>4, <1>6 DEF Lists, IsSeq

\* f maps A onto B and keeps the order.
Rises(f, A, B) ==
  /\ \A x \in A : f[x] \in B
  /\ \A y \in B : \E x \in A : f[x] = y
  /\ \A x, y \in A : x < y => f[x] < f[y]

\* t is what f makes of s.
IsImage(f, s, t) == Len(t) = Len(s) /\ \A i \in 1 .. Len(s) : t[i] = f[s[i]]

\* The list of the image of a set under a map that keeps the order.
LEMMA ListsMapped ==
  ASSUME NEW A, NEW B, NEW s, NEW t, NEW f, A \subseteq Int, B \subseteq Int,
         Lists(s, A), Lists(t, B), Rises(f, A, B)
  PROVE  IsImage(f, s, t)
<1> DEFINE r == [i \in 1 .. Len(s) |-> f[s[i]]]
<1>1. Len(s) \in Nat /\ \A i \in 1 .. Len(s) : s[i] \in A
  BY DEF Lists, IsSeq
<1>2. r \in [1 .. Len(s) -> B]
  BY <1>1 DEF Rises
<1>3. Len(r) = Len(s) /\ IsSeq(r)
  <2>1. Len(r) = Len(s)
    BY <1>1, <1>2, FunctionIsSeq
  <2> QED
    BY <1>1, <2>1 DEF IsSeq
<1>4. \A x \in B : \E i \in 1 .. Len(s) : r[i] = x
  <2> TAKE y \in B
  <2>1. PICK x \in A : f[x] = y
    BY DEF Rises
  <2>2. PICK i \in 1 .. Len(s) : s[i] = x
    BY DEF Lists
  <2> QED
    BY <2>1, <2>2
<1>5. \A i, j \in 1 .. Len(s) : i < j => r[i] < r[j]
  BY <1>1 DEF Lists, Rises
<1>6. \A i \in 1 .. Len(s) : r[i] \in B /\ r[i] = f[s[i]]
  BY <1>2
<1> HIDE DEF r
<1>7. Lists(r, B)
  BY <1>3, <1>4, <1>5, <1>6 DEF Lists
<1>8. r = t
  BY <1>7, ListsOnce
<1> QED
  BY <1>3, <1>6, <1>8 DEF IsImage

\* The numbers up to n are listed by themselves.
LEMMA ListsIdentity ==
  ASSUME NEW n \in Nat, NEW s, Lists(s, 1 .. n)
  PROVE  Len(s) = n /\ \A i \in 1 .. n : s[i] = i
<1> DEFINE r == [i \in 1 .. n |-> i]
<1>1. r \in [1 .. n -> 1 .. n]
  OBVIOUS
<1>2. Len(r) = n /\ IsSeq(r)
  <2>1. Len(r) = n
    BY <1>1, FunctionIsSeq
  <2> QED
    BY <2>1 DEF IsSeq
<1>3. Lists(r, 1 .. n)
  BY <1>2 DEF Lists
<1>4. r = s
  BY <1>3, ListsOnce
<1> QED
  BY <1>2, <1>4
===========================================================================
