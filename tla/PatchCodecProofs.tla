-------------------------- MODULE PatchCodecProofs --------------------------
(***************************************************************************)
(* What the codec keeps true for every group of frames, whatever is packed *)
(* and with every option.                                                  *)
(*                                                                         *)
(* The inductive invariant says what every variable holds as a function of *)
(* the frames that were packed: each tile group built is the list of units *)
(* of its frame (UnitsOf), each one written is its image under the header  *)
(* in force, each one parsed is what was written up to its end mark, and   *)
(* the predictors of encoder and decoder after k units are those of the    *)
(* first k patches (PredAfter, SizeAfter).                                 *)
(***************************************************************************)
EXTENDS PatchCodec, DataLemmas

-----------------------------------------------------------------------------
(***************************************************************************)
(* Bit counts and fields of a fixed length, for every width.               *)
(***************************************************************************)
\* The bits counted for a set of values; each is a position of the largest.
BitsOf(values) == {n \in 0 .. MaxBits - 1 : \E v \in values : Pow2[n] <= v}

\* The bit count of a set of values is the size of a finite set, a number.
LEMMA BitsOfFinite ==
  ASSUME NEW values
  PROVE  /\ IsFiniteSet(BitsOf(values))
         /\ BitsFor(values) = Cardinality(BitsOf(values))
         /\ BitsFor(values) \in Nat
<1>1. IsFiniteSet(0 .. MaxBits - 1)
  BY FS_Interval, WidthAssumption
<1>2. IsFiniteSet(BitsOf(values))
  BY <1>1, FS_Subset DEF BitsOf
<1> QED
  BY <1>2, FS_CardinalityType DEF BitsOf, BitsFor

\* More values need no fewer bits.
LEMMA BitsForMonotone ==
  ASSUME NEW small, NEW large, small \subseteq large
  PROVE  BitsFor(small) <= BitsFor(large)
<1>1. BitsOf(small) \subseteq BitsOf(large)
  BY DEF BitsOf
<1> QED
  BY <1>1, BitsOfFinite, FS_Subset

\* The width getFixedLengthCodeBitsCount returns holds every value it was
\* derived from.
LEMMA BitsForSuffices ==
  ASSUME NEW values, NEW v \in values, v \in Nat, v < Pow2[MaxBits]
  PROVE  v < Pow2[BitsFor(values)]
<1> DEFINE k == BitsFor(values)
<1>1. k \in Nat /\ MaxBits \in Nat
  BY BitsOfFinite, WidthAssumption
<1> HIDE DEF k
<1> SUFFICES ASSUME Pow2[k] <= v PROVE FALSE
  BY <1>1, Pow2Type DEF k
<1>2. k < MaxBits
  <2> SUFFICES ASSUME MaxBits <= k PROVE FALSE
    BY <1>1
  <2>1. Pow2[MaxBits] <= Pow2[k]
    BY <1>1, Pow2Monotone
  <2> QED
    BY <2>1, <1>1, Pow2Type
<1>3. 0 .. k \subseteq BitsOf(values)
  <2> SUFFICES ASSUME NEW n \in 0 .. k PROVE n \in BitsOf(values)
    OBVIOUS
  <2>1. n \in 0 .. MaxBits - 1
    BY <1>1, <1>2
  <2>2. Pow2[n] <= Pow2[k]
    BY <1>1, Pow2Monotone
  <2>3. Pow2[n] <= v
    BY <2>2, <1>1, Pow2Type
  <2> QED
    BY <2>1, <2>3 DEF BitsOf
<1>4. Cardinality(0 .. k) = k + 1 /\ IsFiniteSet(0 .. k)
  BY <1>1, FS_Interval
<1>5. Cardinality(0 .. k) <= Cardinality(BitsOf(values))
  BY <1>3, BitsOfFinite, FS_Subset
<1>6. Cardinality(BitsOf(values)) = k
  BY BitsOfFinite DEF k
<1> QED
  BY <1>1, <1>4, <1>5, <1>6

\* A field that is wide enough keeps its value.
LEMMA LowExact ==
  ASSUME NEW v \in Nat, NEW width \in Nat, v < Pow2[width]
  PROVE  Low(v, width) = v
<1>1. Pow2[width] \in Nat \ {0}
  BY Pow2Type
<1> QED
  BY <1>1 DEF Low

\* What a field keeps of a value is a number.
LEMMA LowType ==
  ASSUME NEW v \in Int, NEW width \in Nat
  PROVE  Low(v, width) \in Nat
<1>1. Pow2[width] \in Nat \ {0}
  BY Pow2Type
<1> QED
  BY <1>1 DEF Low

-----------------------------------------------------------------------------
(***************************************************************************)
(* Headers.                                                                *)
(***************************************************************************)
Widths == [u0 : Nat, lod : Nat]

\* A needed header holds widths.
LEMMA NeededHeaderType ==
  ASSUME NEW patches, NEW pcm
  PROVE  NeededHeader(patches, pcm) \in Widths
<1>1. \A values : Minus1(BitsFor(values)) \in Nat
  BY BitsOfFinite DEF Minus1
<1> QED
  BY <1>1, BitsOfFinite DEF NeededHeader, Widths

\* A header in force holds widths.
LEMMA HeaderInForceType ==
  ASSUME NEW type, NEW need \in Widths, NEW prev \in Widths
  PROVE  HeaderInForce(type, need, prev) \in Widths
BY DEF HeaderInForce, GrowFlags, Widths

\* The header in force is at least as wide as the frame needs, and in a P
\* frame no narrower than the one before.
LEMMA HeaderCovers ==
  ASSUME NEW type, NEW need \in Widths, NEW prev \in Widths
  PROVE  LET hdr == HeaderInForce(type, need, prev)
         IN  /\ hdr.u0 >= need.u0 /\ hdr.lod >= need.lod
             /\ type # FrameI => hdr.u0 >= prev.u0 /\ hdr.lod >= prev.lod
<1>1. need.u0 \in Nat /\ need.lod \in Nat /\ prev.u0 \in Nat /\ prev.lod \in Nat
  BY DEF Widths
<1>2. CASE type = FrameI
  BY <1>1, <1>2 DEF HeaderInForce
<1>3. CASE type # FrameI
  <2>1. HeaderInForce(type, need, prev) =
          [u0  |-> IF need.u0 > prev.u0 THEN need.u0 ELSE prev.u0,
           lod |-> IF need.lod > prev.lod THEN need.lod ELSE prev.lod]
    BY <1>3, Zenon DEF HeaderInForce, GrowFlags
  <2> QED
    BY <1>1, <1>3, <2>1
<1> QED
  BY <1>2, <1>3

\* The parser comes to the writer's width of the position fields, and to its
\* width of the level of detail unless a P frame sends that one.
LEMMA ParsedInStep ==
  ASSUME NEW type, NEW need \in Widths, NEW prev \in Widths,
         NEW last \in Widths, last.u0 = prev.u0
  PROVE  LET syntax == HeaderSyntax(type, need, prev)
             hdr == HeaderInForce(type, need, prev)
             parsed == ParsedHeader(syntax, last)
         IN  /\ parsed \in Widths
             /\ parsed.u0 = hdr.u0
             /\ \/ parsed.lod = hdr.lod
                \/ type # FrameI /\ syntax.flags.lod
                \/ type # FrameI /\ last.lod # prev.lod
BY DEF HeaderSyntax, HeaderInForce, ParsedHeader, GrowFlags, Widths

\* A position fits the field of every header that covers its frame.
LEMMA PositionFits ==
  ASSUME NEW patches, NEW pcm, NEW x \in patches \cup pcm,
         x.u0 \in Nat, x.u0 < Pow2[MaxBits],
         NEW w \in Nat, w >= NeededHeader(patches, pcm).u0
  PROVE  x.u0 < Pow2[w + 1]
<1> DEFINE values == {p.u0 : p \in patches} \cup {m.u0 : m \in pcm}
           k == BitsFor(values)
<1>1. x.u0 \in values
  OBVIOUS
<1> HIDE DEF values
<1>2. k \in Nat /\ x.u0 < Pow2[k]
  BY <1>1, BitsOfFinite, BitsForSuffices
<1>3. w >= Minus1(k)
  BY DEF NeededHeader, values
<1> HIDE DEF k
<1>4. k <= w + 1
  BY <1>2, <1>3 DEF Minus1
<1>5. Pow2[k] <= Pow2[w + 1]
  BY <1>2, <1>4, Pow2Monotone
<1> QED
  BY <1>2, <1>5, Pow2Type

\* A level of detail fits the field of every header that covers its frame.
LEMMA LodFits ==
  ASSUME NEW patches, NEW pcm, NEW p \in patches,
         p.lod \in Nat, p.lod < Pow2[MaxBits],
         NEW w \in Nat, w >= NeededHeader(patches, pcm).lod
  PROVE  p.lod < Pow2[w]
<1> DEFINE values == {q.lod : q \in patches}
           k == BitsFor(values)
<1>1. p.lod \in values
  OBVIOUS
<1> HIDE DEF values
<1>2. k \in Nat /\ p.lod < Pow2[k]
  BY <1>1, BitsOfFinite, BitsForSuffices
<1>3. w >= k
  BY DEF NeededHeader, values
<1> HIDE DEF k
<1>4. Pow2[k] <= Pow2[w]
  BY <1>2, <1>3, Pow2Monotone
<1> QED
  BY <1>2, <1>4, Pow2Type

-----------------------------------------------------------------------------
(***************************************************************************)
(* A unit that reaches the decoder unchanged is decoded to the patch it    *)
(* was made from: the quantisation of the encoder loses nothing, because   *)
(* segmentation leaves only depths the levels can express.                 *)
(***************************************************************************)
PatchFields ==
  [u0 : Nat, sizeU0 : Nat, d1 : Nat, sizeD : Nat, plane : Planes, lod : Nat]

\* The decoder clamps the depth range as the encoder does.
ClampsAgree == MaxAllowedDepth = DepthClamp

\* A level divides what is a multiple of it.
LEMMA DivideMultiple ==
  ASSUME NEW k \in Int, NEW level \in Nat \ {0}
  PROVE  (k * level) \div level = k
OBVIOUS

\* Dividing a multiple of the level and rounding up gives the factor back.
LEMMA RoundUpMultiple ==
  ASSUME NEW k \in Nat \ {0}, NEW level \in Nat \ {0}
  PROVE  (k * level - 1) \div level + 1 = k
<1>1. k * level - 1 = (k - 1) * level + (level - 1)
  OBVIOUS
<1>2. ((k - 1) * level + (level - 1)) \div level = k - 1
  OBVIOUS
<1> QED
  BY <1>1, <1>2

\* Rounding up reaches a multiple that is not below the value.
LEMMA RoundUpCovers ==
  ASSUME NEW n \in Nat \ {0}, NEW level \in Nat \ {0}
  PROVE  /\ (n - 1) \div level + 1 \in Nat \ {0}
         /\ n <= ((n - 1) \div level + 1) * level
<1> DEFINE q == (n - 1) \div level
<1>1. q \in Nat /\ n - 1 < q * level + level
  OBVIOUS
<1> HIDE DEF q
<1>2. (q + 1) * level = q * level + level /\ q * level \in Int
  BY <1>1
<1> QED
  BY <1>1, <1>2 DEF q

\* The decoder rounds the depth range of its reference up as the encoder does.
LEMMA PrevDDIsQuantDD == \A n \in Nat : PrevDD(n) = QuantDD(n) /\ QuantDD(n) \in Nat
<1> TAKE n \in Nat
<1> USE LevelAssumption
<1>1. CASE n = 0
  BY <1>1 DEF PrevDD, QuantDD
<1>2. CASE n # 0
  <2> DEFINE q == n \div MinLevel
             r == (n - 1) \div MinLevel
  <2>1. q \in Nat /\ q * MinLevel <= n /\ n < q * MinLevel + MinLevel
    OBVIOUS
  <2>2. r \in Nat /\ r * MinLevel <= n - 1 /\ n - 1 < r * MinLevel + MinLevel
    BY <1>2
  <2> HIDE DEF q, r
  <2>3. CASE q * MinLevel = n
    <3>1. r = q - 1
      <4>1. q \in Nat \ {0}
        BY <2>1, <2>3, <1>2
      <4>2. (q * MinLevel - 1) \div MinLevel + 1 = q
        BY <4>1, RoundUpMultiple
      <4> QED
        BY <4>1, <4>2, <2>2, <2>3 DEF r
    <3> QED
      BY <3>1, <2>1, <2>3, <1>2 DEF PrevDD, QuantDD, q, r
  <2>4. CASE q * MinLevel # n
    <3>1. r = q
      <4>1. n - 1 = q * MinLevel + (n - 1 - q * MinLevel)
        BY <2>1
      <4>2. n - 1 - q * MinLevel \in 0 .. MinLevel - 1
        BY <2>1, <2>4
      <4> QED
        BY <4>1, <4>2, <2>1 DEF r
    <3> QED
      BY <3>1, <2>1, <2>4, <1>2 DEF PrevDD, QuantDD, q, r
  <2> QED
    BY <2>3, <2>4
<1> QED
  BY <1>1, <1>2

\* The depth range survives the rounding to levels and the clamp.
LEMMA SizeDExact ==
  ASSUME ClampsAgree, NEW sizeD \in Nat, NEW k \in Nat,
         sizeD = Least(k * MinLevel, MaxAllowedDepth)
  PROVE  SizeDOf(QuantDD(sizeD)) = sizeD
<1> USE LevelAssumption, DepthAssumption
<1>1. k * MinLevel \in Nat
  OBVIOUS
<1>2. CASE k * MinLevel <= MaxAllowedDepth
  <2>1. sizeD = k * MinLevel
    BY <1>2 DEF Least
  <2>2. QuantDD(sizeD) = k
    <3>1. CASE k = 0
      BY <2>1, <3>1 DEF QuantDD
    <3>2. CASE k # 0
      <4>1. sizeD # 0
        BY <2>1, <3>2
      <4> QED
        BY <2>1, <3>2, <4>1, RoundUpMultiple DEF QuantDD
    <3> QED
      BY <3>1, <3>2
  <2> QED
    BY <2>1, <2>2, <1>2 DEF SizeDOf, Least, ClampsAgree
<1>3. CASE ~(k * MinLevel <= MaxAllowedDepth)
  <2>1. sizeD = MaxAllowedDepth
    BY <1>3 DEF Least
  <2>2. QuantDD(sizeD) = (sizeD - 1) \div MinLevel + 1
    BY <2>1 DEF QuantDD
  <2>3. sizeD <= QuantDD(sizeD) * MinLevel
    BY <2>1, <2>2, RoundUpCovers
  <2>4. QuantDD(sizeD) * MinLevel \in Int
    BY PrevDDIsQuantDD
  <2> HIDE DEF QuantDD
  <2> QED
    BY <2>1, <2>3, <2>4 DEF SizeDOf, Least, ClampsAgree
<1> QED
  BY <1>2, <1>3

\* The end of the axis is a multiple of the level.
LEMMA AxisEndMultiple == \E m \in Nat : AxisEnd = m * MinLevel
<1>1. PICK k \in 1 .. Max3D : Max3D = k * MinLevel
  BY LevelAssumption
<1>2. 2 * Max3D = (2 * k) * MinLevel
  BY <1>1, LevelAssumption
<1> QED
  BY <1>1, <1>2, FlagAssumption DEF AxisEnd

\* The coded depth is a number, for every side of projection.
LEMMA QuantD1Type ==
  ASSUME NEW plane, NEW d1 \in Nat
  PROVE  QuantD1(plane, d1) \in Int
BY LevelAssumption DEF QuantD1, AxisEnd

\* The depth offset of an intra patch is exact from the near side, and from
\* the far side if the axis is not doubled by the 45 degree planes.
LEMMA IntraD1Exact ==
  ASSUME NEW plane, NEW d1 \in Nat, NEW k \in Nat, d1 = k * MinLevel,
         FromNear(plane) \/ ~Plane45
  PROVE  IntraD1(plane, QuantD1(plane, d1)) = d1
<1> USE LevelAssumption
<1>1. CASE FromNear(plane)
  BY <1>1, DivideMultiple DEF IntraD1, QuantD1
<1>2. CASE ~FromNear(plane)
  <2>1. AxisEnd = Max3D
    BY <1>2 DEF AxisEnd
  <2>2. PICK m \in Nat : AxisEnd = m * MinLevel
    BY AxisEndMultiple
  <2>3. AxisEnd - d1 = (m - k) * MinLevel
    BY <2>2
  <2>4. (AxisEnd - d1) \div MinLevel = m - k
    BY <2>3, DivideMultiple
  <2> QED
    BY <1>2, <2>1, <2>2, <2>3, <2>4 DEF IntraD1, QuantD1
<1> QED
  BY <1>1, <1>2

\* The depth offset of an inter patch is exact on every plane.
LEMMA InterD1Exact ==
  ASSUME NEW plane, NEW d1 \in Nat, NEW k \in Nat, d1 = k * MinLevel,
         NEW prevD1 \in Nat
  PROVE  InterD1(plane, QuantD1(plane, d1) - QuantD1(plane, prevD1), prevD1) = d1
<1> USE LevelAssumption
<1>1. CASE FromNear(plane)
  <2>1. d1 \div MinLevel = k /\ prevD1 \div MinLevel \in Int
    BY DivideMultiple
  <2>2. (k - prevD1 \div MinLevel) + prevD1 \div MinLevel = k
    BY <2>1
  <2> QED
    BY <1>1, <2>1, <2>2 DEF InterD1, QuantD1
<1>2. CASE ~FromNear(plane)
  <2>1. PICK m \in Nat : AxisEnd = m * MinLevel
    BY AxisEndMultiple
  <2> DEFINE r == (AxisEnd - prevD1) \div MinLevel
  <2>2. AxisEnd - d1 = (m - k) * MinLevel /\ AxisEnd \in Int
    BY <2>1
  <2>3. (AxisEnd - d1) \div MinLevel = m - k
    BY <2>2, DivideMultiple
  <2>4. r \in Int
    BY <2>2
  <2>5. QuantD1(plane, d1) = m - k /\ QuantD1(plane, prevD1) = r
    BY <1>2, <2>3 DEF QuantD1
  <2> HIDE DEF r
  <2>6. ((m - k) - r) + r = m - k
    BY <2>4
  <2> QED
    BY <1>2, <2>2, <2>5, <2>6 DEF InterD1, r
<1> QED
  BY <1>1, <1>2

-----------------------------------------------------------------------------
(***************************************************************************)
(* The units of a group.                                                   *)
(***************************************************************************)
\* The units of a frame, one for each patch and missed points patch, and the
\* end mark.
Count(f) == Len(src[f].patches)
NumUnits(f) == Count(f) + Len(src[f].pcm) + 1

PredAfter(f, k) == IF k = 0 THEN 0 ELSE src[f].match[k] + 1
SizeAfter(f, k) == IF k = 0 THEN 0 ELSE src[f].patches[k].sizeU0
RefOf(f, i) == src[f - 1].patches[src[f].match[i] + 1]

IntraMode(f) == IF FrameType(f) = FrameI THEN I_INTRA ELSE P_INTRA
PcmMode(f) == IF LateType(f) = FrameI THEN I_PCM ELSE P_PCM
EndMode(f) == IF LateType(f) = FrameI THEN I_END ELSE P_END

UnitOf(f, i) ==
  IF i <= NumMatched(f)
  THEN InterUnit(src[f].patches[i], src[f].match[i], RefOf(f, i),
                 PredAfter(f, i - 1))
  ELSE IF i <= Count(f)
  THEN IntraUnit(IntraMode(f), src[f].patches[i], SizeAfter(f, i - 1))
  ELSE IF i < NumUnits(f)
  THEN PcmUnit(PcmMode(f), src[f].pcm[i - Count(f)])
  ELSE BlankUnit(EndMode(f))

UnitsOf(f) == [i \in 1 .. NumUnits(f) |-> UnitOf(f, i)]

FreePatches(f) == {src[f].patches[i] : i \in NumMatched(f) + 1 .. Count(f)}
NeedOf(f) == NeededHeader(FreePatches(f), Elems(src[f].pcm))
GroupOf(f) == [type |-> FrameType(f), need |-> NeedOf(f), pids |-> UnitsOf(f)]

PrevHeader(f) == IF f = 1 THEN NoHeader ELSE sent[f - 1].header
PrevParsed(f) == IF f = 1 THEN NoHeader ELSE rcvd[f - 1].header

-----------------------------------------------------------------------------
SrcFrame == [patches : Seq(PatchSet), match : Seq(Int), numMatched : Nat,
             pcm : Seq(PcmSet)]

\* A packed frame whose matches lie in the frame before.
ValidFrame(frame, prev) ==
  /\ Len(frame.patches) > 0
  /\ Len(frame.match) = Len(frame.patches)
  /\ frame.numMatched <= Len(frame.patches)
  /\ \A i \in 1 .. Len(frame.patches) :
       IF i <= frame.numMatched
       THEN /\ frame.match[i] \in 0 .. Len(prev) - 1
            /\ SameView(prev[frame.match[i] + 1], frame.patches[i])
       ELSE frame.match[i] = Invalid

PrevPatches(f) == IF f = 1 THEN <<>> ELSE src[f - 1].patches

SrcOK ==
  /\ src \in Seq(SrcFrame)
  /\ Len(src) <= NumFrames
  /\ \A f \in 1 .. Len(src) : ValidFrame(src[f], PrevPatches(f))

\* While frames are packed nothing else has begun.
PackFirst ==
  Len(src) < NumFrames => /\ pdg = <<>> /\ enc = EncStart /\ sent = <<>>
                          /\ rcvd = <<>> /\ lost = FALSE
                          /\ dec = <<>> /\ dcd = DecStart

GroupSet == [type : Types, need : Header, pids : Seq(UnitType)]

PdgOK ==
  /\ pdg \in Seq(GroupSet)
  /\ Len(pdg) <= NumFrames
  /\ \A f \in 1 .. Len(pdg) : pdg[f] = GroupOf(f)

EncOK ==
  /\ enc \in [pids : Seq(UnitType), pred : Int, prev : Int]
  /\ Len(pdg) = NumFrames => enc = EncStart
  /\ Building =>
       LET f == BuildFrame
           k == Len(enc.pids)
       IN  /\ k < NumUnits(f)
           /\ \A i \in 1 .. k : enc.pids[i] = UnitOf(f, i)
           /\ k <= NumMatched(f) => enc.pred = PredAfter(f, k)
           /\ k <= Count(f) => enc.prev = SizeAfter(f, k)

SentSet ==
  [syntax : [type : Types, flags : [u0 : BOOLEAN, lod : BOOLEAN],
             count : Header],
   header : Header, pids : Seq(UnitType)]

SentOK ==
  /\ sent \in Seq(SentSet)
  /\ Len(sent) <= NumFrames
  /\ sent # <<>> => Len(pdg) = NumFrames
  /\ \A f \in 1 .. Len(sent) :
       LET hdr == HeaderInForce(FrameType(f), NeedOf(f), PrevHeader(f))
       IN  sent[f] = [syntax |-> HeaderSyntax(FrameType(f), NeedOf(f),
                                              PrevHeader(f)),
                      header |-> hdr,
                      pids |-> [i \in 1 .. NumUnits(f) |->
                                  WrittenUnit(FrameType(f), hdr, UnitOf(f, i))]]

RcvdSet == [type : Types, header : Header, pids : Seq(UnitType)]

RcvdOK ==
  /\ rcvd \in Seq(RcvdSet)
  /\ Len(rcvd) <= NumFrames
  /\ rcvd # <<>> => Len(sent) = NumFrames
  /\ \A f \in 1 .. Len(rcvd) :
       /\ rcvd[f] = [type |-> FrameType(f),
                     header |-> ParsedHeader(sent[f].syntax, PrevParsed(f)),
                     pids |-> [i \in 1 .. NumUnits(f) - 1 |-> sent[f].pids[i]]]
       /\ rcvd[f].header.u0 = sent[f].header.u0
       /\ \/ rcvd[f].header.lod = sent[f].header.lod
          \/ \E g \in 2 .. f : /\ sent[g].syntax.type = FrameP
                               /\ sent[g].syntax.flags.lod

LostOK ==
  /\ lost \in BOOLEAN
  /\ lost => /\ rcvd # <<>>
             /\ rcvd[Len(rcvd)].header.lod # sent[Len(rcvd)].header.lod
             /\ dec = <<>> /\ dcd = DecStart

DecFrame == [patches : Seq(Patch), match : Seq(Int), pcm : Seq(Missed)]

\* The first k patches are decoded, from the references of the encoder.
MatchedUpTo(frame, f, k) ==
  /\ Len(frame.match) = Len(frame.patches)
  /\ Len(frame.patches) >= k
  /\ \A i \in 1 .. k : i <= NumMatched(f) => frame.match[i] = src[f].match[i]

DecOK ==
  /\ dec \in Seq(DecFrame)
  /\ Len(dec) <= NumFrames
  /\ dec # <<>> => Len(rcvd) = NumFrames
  /\ \A f \in 1 .. Len(dec) : MatchedUpTo(dec[f], f, Count(f))

DcdSet == [patches : Seq(Patch), match : Seq(Int), pcm : Seq(Missed),
           pos : Nat \ {0}, pred : Int, prev : Int]

DcdOK ==
  /\ dcd \in DcdSet
  /\ Len(rcvd) < NumFrames => dcd = DecStart
  /\ Rebuilding =>
       LET f == Len(dec) + 1
           k == dcd.pos - 1
       IN  /\ k < NumUnits(f)
           /\ MatchedUpTo(dcd, f, IF k <= Count(f) THEN k ELSE Count(f))
           /\ k <= Count(f) => Len(dcd.patches) = k
           /\ k <= NumMatched(f) => dcd.pred = PredAfter(f, k)

Inv == /\ SrcOK /\ PackFirst /\ PdgOK /\ EncOK /\ SentOK /\ RcvdOK /\ LostOK
       /\ DecOK /\ DcdOK

-----------------------------------------------------------------------------
(***************************************************************************)
(* Facts about the packed frames alone.                                    *)
(***************************************************************************)
LEMMA PatchFacts ==
  ASSUME NEW p \in PatchSet
  PROVE  /\ p.u0 \in Nat /\ p.sizeU0 \in Nat /\ p.d1 \in Nat /\ p.sizeD \in Nat
         /\ p.plane \in Planes /\ p.lod \in Nat
         /\ p.u0 < Pow2[MaxBits] /\ p.lod < Pow2[MaxBits]
         /\ IsSegmented(p)
         /\ p = [u0 |-> p.u0, sizeU0 |-> p.sizeU0, d1 |-> p.d1,
                 sizeD |-> p.sizeD, plane |-> p.plane, lod |-> p.lod]
<1>1. Pow2[MaxBits] \in Nat
  BY Pow2Type, WidthAssumption
<1> QED
  BY <1>1, PatchAssumption

\* A missed points patch is the record of its fields.
LEMMA PcmFacts ==
  ASSUME NEW m \in PcmSet
  PROVE  /\ m.u0 \in Nat /\ m.sizeU0 \in Nat /\ m.points \in Nat
         /\ m.u0 < Pow2[MaxBits]
         /\ m = [u0 |-> m.u0, sizeU0 |-> m.sizeU0, points |-> m.points]
BY PcmAssumption

\* The counts of a packed frame, and the sets its patches come from.
LEMMA FrameFacts ==
  ASSUME SrcOK, NEW f \in 1 .. Len(src)
  PROVE  /\ src[f] \in SrcFrame
         /\ Count(f) \in Nat \ {0} /\ Len(src[f].pcm) \in Nat
         /\ NumUnits(f) \in Nat /\ NumUnits(f) > Count(f)
         /\ NumMatched(f) \in Nat /\ NumMatched(f) <= Count(f)
         /\ FrameType(f) \in Types
         /\ FrameType(f) = FrameI => NumMatched(f) = 0
         /\ \A i \in 1 .. Count(f) : src[f].patches[i] \in PatchSet
         /\ \A i \in 1 .. Len(src[f].pcm) : src[f].pcm[i] \in PcmSet
<1>1. src[f] \in SrcFrame
  BY ElementOfSeq DEF SrcOK
<1>2. ValidFrame(src[f], PrevPatches(f))
  BY DEF SrcOK
<1>3. Count(f) \in Nat \ {0} /\ Len(src[f].pcm) \in Nat
  BY <1>1, <1>2 DEF SrcFrame, ValidFrame, Count
<1>4. NumUnits(f) \in Nat /\ NumUnits(f) > Count(f)
  BY <1>3 DEF NumUnits
<1>5. /\ NumMatched(f) \in Nat /\ NumMatched(f) <= Count(f)
      /\ FrameType(f) = FrameI => NumMatched(f) = 0
  BY <1>1, <1>2, <1>3 DEF SrcFrame, ValidFrame, NumMatched, Count
<1>6. FrameType(f) \in Types
  BY DEF FrameType, Types
<1>7. /\ \A i \in 1 .. Count(f) : src[f].patches[i] \in PatchSet
      /\ \A i \in 1 .. Len(src[f].pcm) : src[f].pcm[i] \in PcmSet
  BY <1>1, ElementOfSeq DEF SrcFrame, Count
<1> QED
  BY <1>1, <1>3, <1>4, <1>5, <1>6, <1>7

\* A matched patch has its reference in the frame before.
LEMMA RefFacts ==
  ASSUME SrcOK, NEW f \in 1 .. Len(src), NEW i \in 1 .. NumMatched(f)
  PROVE  /\ f > 1 /\ f - 1 \in 1 .. Len(src)
         /\ FrameType(f) = FrameP
         /\ src[f].match[i] \in 0 .. Count(f - 1) - 1
         /\ RefOf(f, i) \in PatchSet
         /\ SameView(RefOf(f, i), src[f].patches[i])
<1>1. ValidFrame(src[f], PrevPatches(f)) /\ src[f] \in SrcFrame
  BY FrameFacts DEF SrcOK
<1>2. FrameType(f) = FrameP
  BY FrameFacts DEF Types
<1>3. f > 1 /\ f - 1 \in 1 .. Len(src)
  BY <1>2, SrcOK DEF FrameType, FrameI, FrameP
<1>4. i \in 1 .. Count(f) /\ i <= src[f].numMatched
  BY <1>2, FrameFacts DEF NumMatched, FrameI, FrameP
<1>5. /\ src[f].match[i] \in 0 .. Count(f - 1) - 1
      /\ SameView(RefOf(f, i), src[f].patches[i])
  BY <1>1, <1>3, <1>4 DEF ValidFrame, PrevPatches, Count, RefOf
<1>6. RefOf(f, i) \in PatchSet
  <2>1. /\ Count(f - 1) \in Nat
        /\ \A j \in 1 .. Count(f - 1) : src[f - 1].patches[j] \in PatchSet
    BY <1>3, FrameFacts
  <2>2. src[f].match[i] + 1 \in 1 .. Count(f - 1)
    BY <1>5, <2>1
  <2> QED
    BY <2>1, <2>2 DEF RefOf
<1> QED
  BY <1>2, <1>3, <1>5, <1>6

\* The predictor of the index is an integer all along a frame.
LEMMA PredType ==
  ASSUME SrcOK, NEW f \in 1 .. Len(src), NEW k \in 0 .. NumMatched(f)
  PROVE  PredAfter(f, k) \in Int
<1>1. CASE k = 0
  BY <1>1 DEF PredAfter
<1>2. CASE k # 0
  <2>1. k \in 1 .. NumMatched(f)
    BY <1>2, FrameFacts
  <2>2. src[f].match[k] \in 0 .. Count(f - 1) - 1
    BY <2>1, RefFacts
  <2> QED
    BY <1>2, <2>2 DEF PredAfter
<1> QED
  BY <1>1, <1>2

\* The predictor of the size is an integer all along a frame.
LEMMA SizeType ==
  ASSUME SrcOK, NEW f \in 1 .. Len(src), NEW k \in 0 .. Count(f)
  PROVE  SizeAfter(f, k) \in Int
<1>1. CASE k = 0
  BY <1>1 DEF SizeAfter
<1>2. CASE k # 0
  <2>1. k \in 1 .. Count(f)
    BY <1>2, FrameFacts
  <2>2. src[f].patches[k] \in PatchSet
    BY <2>1, FrameFacts
  <2> QED
    BY <1>2, <2>2, PatchFacts DEF SizeAfter
<1> QED
  BY <1>1, <1>2

\* Every constructor of a unit yields a unit.
LEMMA UnitTypes ==
  /\ \A mode \in 0 .. P_END : BlankUnit(mode) \in UnitType
  /\ \A mode \in 0 .. P_END, p \in PatchSet, prev \in Int :
       IntraUnit(mode, p, prev) \in UnitType
  /\ \A p \in PatchSet, ref \in PatchSet, match \in Int, pred \in Int :
       InterUnit(p, match, ref, pred) \in UnitType
  /\ \A mode \in 0 .. P_END, m \in PcmSet : PcmUnit(mode, m) \in UnitType
<1>1. \A mode \in 0 .. P_END : BlankUnit(mode) \in UnitType
  BY DEF BlankUnit, UnitType, Planes
<1>2. ASSUME NEW p \in PatchSet
      PROVE  QuantD1(p.plane, p.d1) \in Int /\ QuantDD(p.sizeD) \in Nat
  BY PatchFacts, QuantD1Type, PrevDDIsQuantDD
<1>3. ASSUME NEW mode \in 0 .. P_END, NEW p \in PatchSet, NEW prev \in Int
      PROVE  IntraUnit(mode, p, prev) \in UnitType
  BY <1>2, PatchFacts DEF IntraUnit, UnitType
<1>4. ASSUME NEW p \in PatchSet, NEW ref \in PatchSet, NEW match \in Int,
             NEW pred \in Int
      PROVE  InterUnit(p, match, ref, pred) \in UnitType
  <2>1. /\ QuantD1(p.plane, p.d1) - QuantD1(p.plane, ref.d1) \in Int
        /\ QuantDD(p.sizeD) - QuantDD(ref.sizeD) \in Int
    BY <1>2, PatchFacts, QuantD1Type
  <2>2. p.u0 - ref.u0 \in Int /\ p.sizeU0 - ref.sizeU0 \in Int /\ match - pred \in Int
    BY PatchFacts
  <2> QED
    BY <2>1, <2>2, PatchFacts DEF InterUnit, UnitType, Planes, P_INTER, P_END
<1>5. ASSUME NEW mode \in 0 .. P_END, NEW m \in PcmSet
      PROVE  PcmUnit(mode, m) \in UnitType
  BY PcmFacts DEF PcmUnit, UnitType, Planes
<1> QED
  BY <1>1, <1>3, <1>4, <1>5

\* Every unit has a type and a mode of its own kind of patch; only the last
\* one is the end mark.
LEMMA UnitFacts ==
  ASSUME SrcOK, NEW f \in 1 .. Len(src), NEW i \in 1 .. NumUnits(f)
  PROVE  /\ UnitOf(f, i) \in UnitType
         /\ (UnitOf(f, i).mode = I_END) <=> (i = NumUnits(f))
         /\ i \in 1 .. NumMatched(f) =>
              Kind(FrameType(f), UnitOf(f, i).mode) = "inter"
         /\ i \in NumMatched(f) + 1 .. Count(f) =>
              Kind(FrameType(f), UnitOf(f, i).mode) = "intra"
         /\ i \in Count(f) + 1 .. NumUnits(f) - 1 =>
              Kind(FrameType(f), UnitOf(f, i).mode) \in {"pcm", "none"}
<1> USE DEF I_END, P_END, I_INTRA, P_INTRA, I_PCM, P_PCM, P_INTER, FrameI, FrameP
<1>1. CASE i \in 1 .. NumMatched(f)
  <2>1. /\ src[f].patches[i] \in PatchSet /\ RefOf(f, i) \in PatchSet
        /\ src[f].match[i] \in Int /\ PredAfter(f, i - 1) \in Int
        /\ FrameType(f) = FrameP
    BY <1>1, FrameFacts, RefFacts, PredType
  <2>2. UnitOf(f, i) = InterUnit(src[f].patches[i], src[f].match[i],
                                 RefOf(f, i), PredAfter(f, i - 1))
    BY <1>1 DEF UnitOf
  <2>3. UnitOf(f, i) \in UnitType
    BY <2>1, <2>2, UnitTypes
  <2>4. UnitOf(f, i).mode = P_INTER
    BY <2>2 DEF InterUnit
  <2>5. i # NumUnits(f) /\ i \notin NumMatched(f) + 1 .. Count(f)
        /\ i \notin Count(f) + 1 .. NumUnits(f) - 1
    BY <1>1, FrameFacts
  <2> QED
    BY <2>1, <2>3, <2>4, <2>5 DEF Kind
<1>2. CASE i \in NumMatched(f) + 1 .. Count(f)
  <2>1. /\ src[f].patches[i] \in PatchSet /\ SizeAfter(f, i - 1) \in Int
        /\ IntraMode(f) \in 0 .. P_END
    BY <1>2, FrameFacts, SizeType DEF IntraMode
  <2>2. UnitOf(f, i) = IntraUnit(IntraMode(f), src[f].patches[i],
                                 SizeAfter(f, i - 1))
    BY <1>2, FrameFacts DEF UnitOf
  <2>3. UnitOf(f, i) \in UnitType
    BY <2>1, <2>2, UnitTypes
  <2>4. UnitOf(f, i).mode = IntraMode(f)
    BY <2>2 DEF IntraUnit
  <2>5. i # NumUnits(f) /\ i \notin 1 .. NumMatched(f)
        /\ i \notin Count(f) + 1 .. NumUnits(f) - 1
    BY <1>2, FrameFacts
  <2>6. FrameType(f) \in {FrameI, FrameP}
    BY FrameFacts DEF Types
  <2>7. Kind(FrameType(f), IntraMode(f)) = "intra" /\ IntraMode(f) # I_END
    BY <2>6 DEF Kind, IntraMode
  <2> QED
    BY <2>3, <2>4, <2>5, <2>7
<1>3. CASE i \in Count(f) + 1 .. NumUnits(f) - 1
  <2>1. i - Count(f) \in 1 .. Len(src[f].pcm)
    BY <1>3, FrameFacts DEF NumUnits
  <2>2. src[f].pcm[i - Count(f)] \in PcmSet /\ PcmMode(f) \in 0 .. P_END
    BY <2>1, FrameFacts DEF PcmMode
  <2>3. UnitOf(f, i) = PcmUnit(PcmMode(f), src[f].pcm[i - Count(f)])
    BY <1>3, FrameFacts DEF UnitOf
  <2>4. UnitOf(f, i) \in UnitType
    BY <2>2, <2>3, UnitTypes
  <2>5. UnitOf(f, i).mode = PcmMode(f)
    BY <2>3 DEF PcmUnit
  <2>6. i # NumUnits(f) /\ i \notin 1 .. NumMatched(f)
        /\ i \notin NumMatched(f) + 1 .. Count(f)
    BY <1>3, FrameFacts
  <2>7. /\ Kind(FrameType(f), PcmMode(f)) \in {"pcm", "none"}
        /\ PcmMode(f) # I_END
    BY DEF Kind, PcmMode, FrameType, LateType
  <2> QED
    BY <2>4, <2>5, <2>6, <2>7
<1>4. CASE i = NumUnits(f)
  <2>1. UnitOf(f, i) = BlankUnit(EndMode(f)) /\ EndMode(f) = I_END
    BY <1>4, FrameFacts DEF UnitOf, EndMode
  <2>2. UnitOf(f, i) \in UnitType /\ UnitOf(f, i).mode = I_END
    BY <2>1, UnitTypes DEF BlankUnit
  <2>3. i \notin 1 .. NumMatched(f) /\ i \notin NumMatched(f) + 1 .. Count(f)
        /\ i \notin Count(f) + 1 .. NumUnits(f) - 1
    BY <1>4, FrameFacts
  <2> QED
    BY <1>4, <2>2, <2>3
<1> QED
  BY <1>1, <1>2, <1>3, <1>4, FrameFacts

\* The tile group of a frame has the type of a tile group.
LEMMA GroupFacts ==
  ASSUME SrcOK, NEW f \in 1 .. Len(src)
  PROVE  /\ UnitsOf(f) \in Seq(UnitType) /\ Len(UnitsOf(f)) = NumUnits(f)
         /\ NeedOf(f) \in Header
         /\ GroupOf(f) \in GroupSet
<1>1. UnitsOf(f) \in [1 .. NumUnits(f) -> UnitType]
  BY UnitFacts DEF UnitsOf
<1>2. UnitsOf(f) \in Seq(UnitType) /\ Len(UnitsOf(f)) = NumUnits(f)
  BY <1>1, FrameFacts, SeqDef
<1>3. NeedOf(f) \in Header
  BY NeededHeaderType DEF NeedOf, Header, Widths
<1> QED
  BY <1>2, <1>3, FrameFacts DEF GroupOf, GroupSet

-----------------------------------------------------------------------------
(***************************************************************************)
(* A step leaves alone the parts of the invariant whose variables it does  *)
(* not change; the packed frames change in Pack only.                      *)
(***************************************************************************)
LEMMA Static ==
  ASSUME src' = src
  PROVE  /\ \A f : FrameType(f)' = FrameType(f)
         /\ \A f : NumMatched(f)' = NumMatched(f)
         /\ \A f : Count(f)' = Count(f)
         /\ \A f : NumUnits(f)' = NumUnits(f)
         /\ \A f : NeedOf(f)' = NeedOf(f)
         /\ \A f, i : UnitOf(f, i)' = UnitOf(f, i)
         /\ \A f : GroupOf(f)' = GroupOf(f)
         /\ \A f, k : PredAfter(f, k)' = PredAfter(f, k)
         /\ \A f, k : SizeAfter(f, k)' = SizeAfter(f, k)
<1>1. \A f : FrameType(f)' = FrameType(f)
  BY DEF FrameType
<1>2. \A f : NumMatched(f)' = NumMatched(f)
  BY <1>1 DEF NumMatched
<1>3. \A f : Count(f)' = Count(f) /\ NumUnits(f)' = NumUnits(f)
  BY DEF Count, NumUnits
<1>4. \A f : NeedOf(f)' = NeedOf(f)
  BY <1>2, <1>3 DEF NeedOf, FreePatches
<1>5. \A f, k : PredAfter(f, k)' = PredAfter(f, k) /\ SizeAfter(f, k)' = SizeAfter(f, k)
  BY DEF PredAfter, SizeAfter
<1>6. \A f : IntraMode(f)' = IntraMode(f) /\ PcmMode(f)' = PcmMode(f) /\ EndMode(f)' = EndMode(f)
  BY <1>1 DEF IntraMode, PcmMode, EndMode, LateType
<1>7. \A f, i : RefOf(f, i)' = RefOf(f, i)
  BY DEF RefOf
<1>8. \A f, i : UnitOf(f, i)' = UnitOf(f, i)
  BY <1>2, <1>3, <1>5, <1>6, <1>7 DEF UnitOf
<1>9. \A f : GroupOf(f)' = GroupOf(f)
  BY <1>1, <1>3, <1>4, <1>8 DEF GroupOf, UnitsOf
<1> QED
  BY <1>1, <1>2, <1>3, <1>4, <1>5, <1>8, <1>9

\* A part of the invariant stays while the variables it speaks of do.
LEMMA Untouched ==
  ASSUME src' = src
  PROVE  /\ SrcOK => SrcOK'
         /\ PdgOK /\ UNCHANGED pdg => PdgOK'
         /\ EncOK /\ UNCHANGED <<enc, pdg>> => EncOK'
         /\ SentOK /\ UNCHANGED <<sent, pdg>> => SentOK'
         /\ RcvdOK /\ UNCHANGED <<rcvd, sent>> => RcvdOK'
         /\ LostOK /\ UNCHANGED <<lost, rcvd, sent, dec, dcd>> => LostOK'
         /\ DecOK /\ UNCHANGED <<dec, rcvd>> => DecOK'
         /\ DcdOK /\ UNCHANGED <<dcd, dec, rcvd, lost>> => DcdOK'
<1>1. SrcOK => SrcOK'
  BY DEF SrcOK, PrevPatches
<1>2. PdgOK /\ UNCHANGED pdg => PdgOK'
  BY Static DEF PdgOK
<1>3. EncOK /\ UNCHANGED <<enc, pdg>> => EncOK'
  BY Static DEF EncOK, Building, BuildFrame
<1>4. SentOK /\ UNCHANGED <<sent, pdg>> => SentOK'
  BY Static DEF SentOK, PrevHeader
<1>5. RcvdOK /\ UNCHANGED <<rcvd, sent>> => RcvdOK'
  BY Static DEF RcvdOK, PrevParsed
<1>6. LostOK /\ UNCHANGED <<lost, rcvd, sent, dec, dcd>> => LostOK'
  BY DEF LostOK
<1>7. DecOK /\ UNCHANGED <<dec, rcvd>> => DecOK'
  BY Static DEF DecOK, MatchedUpTo
<1>8. DcdOK /\ UNCHANGED <<dcd, dec, rcvd, lost>> => DcdOK'
  BY Static DEF DcdOK, MatchedUpTo, Rebuilding
<1> QED
  BY <1>1, <1>2, <1>3, <1>4, <1>5, <1>6, <1>7, <1>8

\* Initially nothing is packed, built, written, parsed or rebuilt.
LEMMA InitInv == Init => Inv
<1> SUFFICES ASSUME Init PROVE Inv
  OBVIOUS
<1> USE DEF Init
<1>1. NumFrames \in Nat \ {0}
  BY FrameAssumption
<1>2. SrcOK
  BY <1>1 DEF SrcOK
<1>3. PackFirst
  BY DEF PackFirst
<1>4. PdgOK
  BY <1>1 DEF PdgOK
<1>5. EncOK
  BY <1>1 DEF EncOK, Building, EncStart
<1>6. SentOK
  BY <1>1, EmptySeq DEF SentOK
<1>8. RcvdOK
  BY <1>1, EmptySeq DEF RcvdOK
<1>9. LostOK
  BY <1>1 DEF LostOK
<1>10. DecOK
  BY <1>1, EmptySeq DEF DecOK
<1>7. DcdOK
  BY <1>1, EmptySeq DEF DcdOK, DcdSet, Rebuilding, DecStart
<1> QED
  BY <1>2, <1>3, <1>4, <1>5, <1>6, <1>7, <1>8, <1>9, <1>10 DEF Inv

-----------------------------------------------------------------------------
(***************************************************************************)
(* Pack.                                                                   *)
(***************************************************************************)
LEMMA PackInv == Inv /\ Pack => Inv'
<1> SUFFICES ASSUME Inv, Pack PROVE Inv'
  OBVIOUS
<1> USE FrameAssumption
<1>1. PICK n \in 1 .. MaxPatches, k \in 0 .. MaxPcm :
        \E patches \in [1 .. n -> PatchSet], pcm \in [1 .. k -> PcmSet],
           match \in [1 .. n -> Invalid .. MaxPatches - 1], m \in 0 .. n :
          PackFrame(patches, match, m, pcm)
  BY DEF Pack
<1>2. PICK patches \in [1 .. n -> PatchSet], pcm \in [1 .. k -> PcmSet],
           match \in [1 .. n -> Invalid .. MaxPatches - 1], m \in 0 .. n :
          PackFrame(patches, match, m, pcm)
  BY <1>1
<1> DEFINE frame == [patches |-> patches, match |-> match, numMatched |-> m,
                     pcm |-> pcm]
<1>3. /\ Len(src) < NumFrames /\ src' = Append(src, frame)
      /\ UNCHANGED <<pdg, enc, sent, rcvd, lost, dec, dcd>>
  BY <1>2 DEF PackFrame
<1>4. /\ patches \in Seq(PatchSet) /\ Len(patches) = n
      /\ match \in Seq(Int) /\ Len(match) = n
      /\ pcm \in Seq(PcmSet)
  <2>1. match \in [1 .. n -> Int] /\ n \in Nat /\ k \in Nat
    BY DEF Invalid
  <2> QED
    BY <2>1, SeqDef
<1>5. frame \in SrcFrame
  BY <1>4 DEF SrcFrame
<1>6. Inv
  OBVIOUS
<1>7. src \in Seq(SrcFrame) /\ Len(src) \in Nat
  BY DEF Inv, SrcOK
<1>8. ValidFrame(frame, PrevPatches(Len(src) + 1))
  <2>1. /\ Len(src) = 0 => m = 0
        /\ ValidMatching(patches, match, m, PrevPatches(Len(src) + 1))
    <3>1. CASE Len(src) = 0 \/ ~Constrained
      <4>1. m = 0 /\ ValidMatching(patches, match, 0, <<>>)
        BY <1>2, <3>1 DEF PackFrame
      <4> QED
        BY <4>1, <1>4 DEF ValidMatching
    <3>2. CASE ~(Len(src) = 0 \/ ~Constrained)
      <4>1. ValidMatching(patches, match, m, src[Len(src)].patches)
        BY <1>2, <3>2 DEF PackFrame
      <4>2. PrevPatches(Len(src) + 1) = src[Len(src)].patches
        BY <1>7, <3>2 DEF PrevPatches
      <4> QED
        BY <4>1, <4>2, <3>2
    <3> QED
      BY <3>1, <3>2
  <2> QED
    BY <2>1, <1>4 DEF ValidFrame, ValidMatching
<1> HIDE DEF frame
<1>9. SrcOK'
  <2>1. /\ src' \in Seq(SrcFrame) /\ Len(src') = Len(src) + 1
        /\ \A f \in 1 .. Len(src) : src'[f] = src[f]
        /\ src'[Len(src) + 1] = frame
    BY <1>3, <1>5, <1>7, AppendProperties
  <2>2. \A f \in 1 .. Len(src) + 1 : PrevPatches(f)' = PrevPatches(f)
    <3> SUFFICES ASSUME NEW f \in 1 .. Len(src) + 1, f # 1
                 PROVE  src'[f - 1] = src[f - 1]
      BY DEF PrevPatches
    <3>1. f - 1 \in 1 .. Len(src)
      BY <1>7
    <3> QED
      BY <2>1, <3>1
  <2>3. ASSUME NEW f \in 1 .. Len(src')
        PROVE  ValidFrame(src[f], PrevPatches(f))'
    <3>1. CASE f \in 1 .. Len(src)
      BY <3>1, <2>1, <2>2, <1>7 DEF Inv, SrcOK, ValidFrame
    <3>2. CASE f = Len(src) + 1
      BY <3>2, <2>1, <2>2, <1>7, <1>8 DEF ValidFrame
    <3> QED
      BY <3>1, <3>2, <2>1, <1>7
  <2> QED
    BY <2>1, <2>3, <1>3, <1>7 DEF SrcOK
<1>10. /\ pdg' = <<>> /\ enc' = EncStart /\ sent' = <<>> /\ rcvd' = <<>>
       /\ lost' = FALSE /\ dec' = <<>> /\ dcd' = DecStart
  BY <1>3 DEF Inv, PackFirst
<1>11. PackFirst'
  BY <1>10 DEF PackFirst
<1>12. PdgOK' /\ SentOK' /\ RcvdOK' /\ LostOK' /\ DecOK'
  <2>1. PdgOK'
    BY <1>10, EmptySeq DEF PdgOK
  <2>2. SentOK'
    BY <1>10, EmptySeq DEF SentOK
  <2>3. RcvdOK'
    BY <1>10, EmptySeq DEF RcvdOK
  <2>4. LostOK'
    BY <1>10 DEF LostOK
  <2>5. DecOK'
    BY <1>10, EmptySeq DEF DecOK
  <2> QED
    BY <2>1, <2>2, <2>3, <2>4, <2>5
<1>13. EncOK'
  <2> SUFFICES ASSUME Building'
               PROVE  /\ NumUnits(BuildFrame)' > 0
                      /\ PredAfter(BuildFrame, 0)' = 0
                      /\ SizeAfter(BuildFrame, 0)' = 0
    BY <1>10 DEF EncOK, EncStart, BuildFrame
  <2>1. BuildFrame' = 1 /\ 1 \in 1 .. Len(src')
    BY <1>10 DEF Building, BuildFrame
  <2>2. src' \in Seq(SrcFrame)
    BY <1>9 DEF SrcOK
  <2>3. src'[1] \in SrcFrame
    BY <2>1, <2>2, ElementOfSeq
  <2>4. src'[1].patches \in Seq(PatchSet) /\ src'[1].pcm \in Seq(PcmSet)
    BY <2>3 DEF SrcFrame
  <2>5. NumUnits(1)' > 0 /\ PredAfter(1, 0)' = 0 /\ SizeAfter(1, 0)' = 0
    <3>1. NumUnits(1)' > 0
      <4> DEFINE patchCount == Len(src'[1].patches)
                 pcmCount == Len(src'[1].pcm)
      <4>1. patchCount \in Nat /\ pcmCount \in Nat
        BY <2>4, LenProperties
      <4>2. NumUnits(1)' = patchCount + pcmCount + 1
        BY Zenon DEF NumUnits, Count
      <4> HIDE DEF patchCount, pcmCount
      <4> QED
        BY <4>1, <4>2
    <3>2. PredAfter(1, 0)' = 0 /\ SizeAfter(1, 0)' = 0
      BY DEF PredAfter, SizeAfter
    <3> QED
      BY <3>1, <3>2
  <2> QED
    BY <2>1, <2>5
<1>14. DcdOK'
  BY <1>10, EmptySeq DEF DcdOK, DcdSet, Rebuilding, DecStart
<1> QED
  BY <1>9, <1>11, <1>12, <1>13, <1>14 DEF Inv

-----------------------------------------------------------------------------
(***************************************************************************)
(* Encode.                                                                 *)
(***************************************************************************)
\* What the tile group under construction says of its frame.
LEMMA BuildingFacts ==
  ASSUME Inv, Building
  PROVE  /\ Len(src) = NumFrames /\ BuildFrame \in 1 .. Len(src)
         /\ Len(pdg) \in Nat /\ Len(enc.pids) \in Nat
         /\ Len(enc.pids) < NumUnits(BuildFrame)
         /\ BuildPatch = Len(enc.pids) + 1
         /\ BuildPatch \in 1 .. NumUnits(BuildFrame)
         /\ BuildPatch - 1 = Len(enc.pids)
         /\ sent = <<>>
<1>1. Len(src) = NumFrames /\ Len(pdg) < NumFrames /\ NumFrames \in Nat
  BY FrameAssumption DEF Building
<1>2. Len(pdg) \in Nat /\ Len(enc.pids) \in Nat
  BY LenProperties DEF Inv, PdgOK, EncOK
<1>3. BuildFrame \in 1 .. Len(src)
  BY <1>1, <1>2 DEF BuildFrame
<1>4. Len(enc.pids) < NumUnits(BuildFrame)
  BY DEF Inv, EncOK
<1>5. NumUnits(BuildFrame) \in Nat
  BY <1>3, FrameFacts DEF Inv
<1>6. sent = <<>>
  BY <1>1, <1>2 DEF Inv, SentOK
<1> QED
  BY <1>1, <1>2, <1>3, <1>4, <1>5, <1>6 DEF BuildPatch

\* Adding the unit of the next patch, with the predictors it leaves.
LEMMA BuildStep ==
  ASSUME Inv, Building, BuildPatch < NumUnits(BuildFrame),
         NEW pred \in Int, NEW prev \in Int,
         BuildPatch <= NumMatched(BuildFrame) =>
           pred = PredAfter(BuildFrame, BuildPatch),
         BuildPatch <= Count(BuildFrame) =>
           prev = SizeAfter(BuildFrame, BuildPatch),
         enc' = [pids |-> Append(enc.pids, UnitOf(BuildFrame, BuildPatch)),
                 pred |-> pred, prev |-> prev],
         UNCHANGED <<src, pdg, sent, rcvd, lost, dec, dcd>>
  PROVE  Inv'
<1> DEFINE k == Len(enc.pids)
           f == BuildFrame
           unit == UnitOf(f, BuildPatch)
<1>1. /\ k \in Nat /\ BuildPatch = k + 1 /\ f \in 1 .. Len(src)
      /\ BuildPatch \in 1 .. NumUnits(f) /\ Len(src) = NumFrames
  BY BuildingFacts
<1>2. unit \in UnitType
  BY <1>1, UnitFacts DEF Inv
<1>3. enc.pids \in Seq(UnitType)
  BY DEF Inv, EncOK
<1> HIDE DEF unit
<1>4. /\ enc'.pids \in Seq(UnitType) /\ Len(enc'.pids) = k + 1
      /\ \A i \in 1 .. k : enc'.pids[i] = enc.pids[i]
      /\ enc'.pids[k + 1] = unit
      /\ enc'.pred = pred /\ enc'.prev = prev
  BY <1>2, <1>3, AppendProperties DEF unit
<1>5. \A i \in 1 .. k + 1 : enc'.pids[i] = UnitOf(f, i)
  <2> SUFFICES ASSUME NEW i \in 1 .. k + 1 PROVE enc'.pids[i] = UnitOf(f, i)
    OBVIOUS
  <2>1. CASE i \in 1 .. k
    BY <2>1, <1>4 DEF Inv, EncOK
  <2>2. CASE i = k + 1
    BY <2>2, <1>1, <1>4 DEF unit
  <2> QED
    BY <2>1, <2>2, <1>1
<1>6. enc' \in [pids : Seq(UnitType), pred : Int, prev : Int]
  BY <1>2, <1>3, AppendProperties DEF unit
<1>7. f' = f /\ Building'
  BY DEF BuildFrame, Building
<1>8. EncOK'
  <2>1. Len(pdg') # NumFrames
    BY BuildingFacts DEF Building
  <2>2. k + 1 < NumUnits(f)
    BY <1>1
  <2> HIDE DEF f, k
  <2> QED
    BY <1>1, <1>4, <1>5, <1>6, <1>7, <2>1, <2>2, Static DEF EncOK, f
<1>9. PackFirst'
  BY <1>1 DEF PackFirst
<1> QED
  BY <1>8, <1>9, Untouched DEF Inv

\* Building an inter unit keeps the invariant.
LEMMA BuildInterInv == Inv /\ BuildInter => Inv'
<1> SUFFICES ASSUME Inv, BuildInter PROVE Inv'
  OBVIOUS
<1> DEFINE f == BuildFrame
           i == BuildPatch
<1>1. Building /\ i <= NumMatched(f)
  BY DEF BuildInter
<1>2. /\ f \in 1 .. Len(src) /\ i \in 1 .. NumUnits(f)
      /\ i - 1 = Len(enc.pids) /\ i = Len(enc.pids) + 1
  BY <1>1, BuildingFacts
<1>3. /\ NumMatched(f) <= Count(f) /\ Count(f) < NumUnits(f)
      /\ NumMatched(f) \in Nat /\ Count(f) \in Nat /\ NumUnits(f) \in Nat
      /\ \A j \in 1 .. Count(f) : src[f].patches[j] \in PatchSet
  BY <1>2, FrameFacts DEF Inv
<1>4. enc.pred = PredAfter(f, i - 1) /\ enc.pred \in Int
  <2>1. Len(enc.pids) <= NumMatched(f)
    BY <1>1, <1>2, <1>3
  <2> QED
    BY <2>1, <1>1, <1>2 DEF Inv, EncOK
<1>5. src[f].match[i] \in Int
  BY <1>1, <1>2, RefFacts DEF Inv
<1>6. src[f].patches[i].sizeU0 \in Int
  <2>1. i \in 1 .. Count(f)
    BY <1>1, <1>2, <1>3
  <2> QED
    BY <2>1, <1>3, PatchFacts
<1> DEFINE unit == InterUnit(src[f].patches[i], src[f].match[i], RefOf(f, i),
                             enc.pred)
<1>7. /\ enc' = [pids |-> Append(enc.pids, unit),
                 pred |-> enc.pred + unit.idx + 1,
                 prev |-> src[f].patches[i].sizeU0]
      /\ UNCHANGED <<src, pdg, sent, rcvd, lost, dec, dcd>>
  BY DEF BuildInter, RefOf
<1>8. unit = UnitOf(f, i)
  BY <1>1, <1>2, <1>4 DEF UnitOf
<1>9. enc.pred + unit.idx + 1 = PredAfter(f, i)
  <2>1. unit.idx = src[f].match[i] - enc.pred
    BY DEF InterUnit
  <2> HIDE DEF unit
  <2> QED
    BY <2>1, <1>2, <1>4, <1>5 DEF PredAfter
<1>10. src[f].patches[i].sizeU0 = SizeAfter(f, i)
  BY <1>2 DEF SizeAfter
<1>11. PredAfter(f, i) \in Int
  BY <1>2, <1>5 DEF PredAfter
<1>12. i < NumUnits(f)
  BY <1>1, <1>2, <1>3
<1> HIDE DEF unit
<1>13. enc' = [pids |-> Append(enc.pids, UnitOf(f, i)),
               pred |-> PredAfter(f, i), prev |-> SizeAfter(f, i)]
  BY <1>7, <1>8, <1>9, <1>10
<1> QED
  BY <1>1, <1>6, <1>7, <1>10, <1>11, <1>12, <1>13, BuildStep

\* Building an intra unit keeps the invariant.
LEMMA BuildIntraInv == Inv /\ BuildIntra => Inv'
<1> SUFFICES ASSUME Inv, BuildIntra PROVE Inv'
  OBVIOUS
<1> DEFINE f == BuildFrame
           i == BuildPatch
<1>1. Building /\ i > NumMatched(f) /\ i <= Count(f)
  BY DEF BuildIntra, Count
<1>2. /\ f \in 1 .. Len(src) /\ i \in 1 .. NumUnits(f)
      /\ i - 1 = Len(enc.pids) /\ i = Len(enc.pids) + 1
  BY <1>1, BuildingFacts
<1>3. /\ Count(f) < NumUnits(f) /\ NumUnits(f) \in Nat
      /\ NumMatched(f) \in Nat /\ Count(f) \in Nat
      /\ \A j \in 1 .. Count(f) : src[f].patches[j] \in PatchSet
  BY <1>2, FrameFacts DEF Inv
<1>4. enc.prev = SizeAfter(f, i - 1) /\ enc.pred \in Int
  <2>1. Len(enc.pids) <= Count(f)
    BY <1>1, <1>2, <1>3
  <2> QED
    BY <2>1, <1>1, <1>2 DEF Inv, EncOK
<1>5. i < NumUnits(f) /\ ~(i <= NumMatched(f)) /\ i \in 1 .. Count(f)
  BY <1>1, <1>2, <1>3
<1>6. src[f].patches[i].sizeU0 \in Int
  BY <1>3, <1>5, PatchFacts
<1> DEFINE unit == IntraUnit(IntraMode(f), src[f].patches[i], enc.prev)
<1>7. /\ enc' = [pids |-> Append(enc.pids, unit), pred |-> enc.pred,
                 prev |-> src[f].patches[i].sizeU0]
      /\ UNCHANGED <<src, pdg, sent, rcvd, lost, dec, dcd>>
  BY DEF BuildIntra, IntraMode
<1>8. unit = UnitOf(f, i)
  BY <1>4, <1>5 DEF UnitOf
<1>9. src[f].patches[i].sizeU0 = SizeAfter(f, i)
  BY <1>5 DEF SizeAfter
<1> HIDE DEF unit
<1>10. enc' = [pids |-> Append(enc.pids, UnitOf(f, i)),
               pred |-> enc.pred, prev |-> SizeAfter(f, i)]
  BY <1>7, <1>8, <1>9
<1> QED
  BY <1>1, <1>4, <1>5, <1>6, <1>7, <1>9, <1>10, BuildStep

\* Building a unit of missed points keeps the invariant.
LEMMA BuildPcmInv == Inv /\ BuildPcm => Inv'
<1> SUFFICES ASSUME Inv, BuildPcm PROVE Inv'
  OBVIOUS
<1> DEFINE f == BuildFrame
           i == BuildPatch
<1>1. Building /\ i - Count(f) \in 1 .. Len(src[f].pcm)
  BY DEF BuildPcm, Count
<1>2. f \in 1 .. Len(src) /\ i \in 1 .. NumUnits(f) /\ i = Len(enc.pids) + 1
  BY <1>1, BuildingFacts
<1>3. /\ Count(f) < NumUnits(f) /\ NumUnits(f) \in Nat
      /\ NumMatched(f) \in Nat /\ Count(f) \in Nat /\ NumMatched(f) <= Count(f)
      /\ Len(src[f].pcm) \in Nat
  BY <1>2, FrameFacts DEF Inv
<1>4. i < NumUnits(f) /\ ~(i <= NumMatched(f)) /\ ~(i <= Count(f))
  BY <1>1, <1>2, <1>3 DEF NumUnits
<1> DEFINE unit == PcmUnit(PcmMode(f), src[f].pcm[i - Count(f)])
<1>5. /\ enc' = [enc EXCEPT !.pids = Append(@, unit)]
      /\ UNCHANGED <<src, pdg, sent, rcvd, lost, dec, dcd>>
  BY DEF BuildPcm, PcmMode, Count
<1>6. unit = UnitOf(f, i)
  BY <1>4 DEF UnitOf
<1>7. enc \in [pids : Seq(UnitType), pred : Int, prev : Int]
  BY DEF Inv, EncOK
<1> HIDE DEF unit
<1>8. enc' = [pids |-> Append(enc.pids, UnitOf(f, i)),
              pred |-> enc.pred, prev |-> enc.prev]
  BY <1>5, <1>6, <1>7
<1> QED
  BY <1>1, <1>4, <1>5, <1>7, <1>8, BuildStep

\* Ending a tile group keeps the invariant.
LEMMA BuildEndInv == Inv /\ BuildEnd => Inv'
<1> SUFFICES ASSUME Inv, BuildEnd PROVE Inv'
  OBVIOUS
<1> DEFINE f == BuildFrame
           i == BuildPatch
<1>1. Building /\ i > Count(f) + Len(src[f].pcm)
  BY DEF BuildEnd, Count
<1>2. /\ f \in 1 .. Len(src) /\ i \in 1 .. NumUnits(f)
      /\ i = Len(enc.pids) + 1 /\ Len(enc.pids) \in Nat
      /\ Len(src) = NumFrames /\ sent = <<>> /\ f = Len(pdg) + 1
      /\ Len(pdg) \in Nat
  BY <1>1, BuildingFacts DEF BuildFrame
<1>3. NumUnits(f) \in Nat /\ Count(f) \in Nat /\ Len(src[f].pcm) \in Nat
  BY <1>2, FrameFacts DEF Inv
<1>4. i = NumUnits(f)
  BY <1>1, <1>2, <1>3 DEF NumUnits
<1> DEFINE mode == EndMode(f)
           pids == Append(enc.pids, BlankUnit(mode))
<1>5. /\ pdg' = Append(pdg, [type |-> FrameType(f), need |-> NeedOf(f),
                             pids |-> pids])
      /\ enc' = EncStart
      /\ UNCHANGED <<src, sent, rcvd, lost, dec, dcd>>
  BY DEF BuildEnd, EndMode, NeedOf, FreePatches, Count
<1>6. UnitOf(f, i) = BlankUnit(mode)
  <2>1. NumMatched(f) <= Count(f) /\ NumMatched(f) \in Nat /\ Count(f) < NumUnits(f)
    BY <1>2, FrameFacts DEF Inv
  <2> QED
    BY <1>3, <1>4, <2>1 DEF UnitOf
<1>7. UnitOf(f, i) \in UnitType
  BY <1>2, UnitFacts DEF Inv
<1> HIDE DEF mode
<1>8. pids = UnitsOf(f)
  <2>1. enc.pids \in Seq(UnitType)
    BY DEF Inv, EncOK
  <2>2. /\ pids \in Seq(UnitType) /\ Len(pids) = NumUnits(f)
        /\ \A j \in 1 .. Len(enc.pids) : pids[j] = enc.pids[j]
        /\ pids[NumUnits(f)] = UnitOf(f, NumUnits(f))
    BY <1>2, <1>4, <1>6, <1>7, <2>1, AppendProperties
  <2>3. \A j \in 1 .. NumUnits(f) : pids[j] = UnitOf(f, j)
    <3> SUFFICES ASSUME NEW j \in 1 .. NumUnits(f) PROVE pids[j] = UnitOf(f, j)
      OBVIOUS
    <3>1. CASE j = NumUnits(f)
      BY <3>1, <2>2
    <3>2. CASE j # NumUnits(f)
      <4>1. j \in 1 .. Len(enc.pids)
        BY <3>2, <1>2, <1>3, <1>4
      <4>2. enc.pids[j] = UnitOf(f, j)
        BY <4>1, <1>1 DEF Inv, EncOK
      <4> QED
        BY <4>1, <4>2, <2>2
    <3> QED
      BY <3>1, <3>2
  <2> HIDE DEF pids
  <2>4. UnitsOf(f) \in Seq(UnitType) /\ Len(UnitsOf(f)) = NumUnits(f)
    BY <1>2, GroupFacts DEF Inv
  <2>5. \A j \in 1 .. NumUnits(f) : UnitsOf(f)[j] = UnitOf(f, j)
    BY DEF UnitsOf
  <2> QED
    BY <2>2, <2>3, <2>4, <2>5, SeqEqual
<1> HIDE DEF pids
<1>9. pdg' = Append(pdg, GroupOf(f))
  BY <1>5, <1>8 DEF GroupOf
<1>10. PdgOK'
  <2>1. GroupOf(f) \in GroupSet /\ pdg \in Seq(GroupSet)
    BY <1>2, GroupFacts DEF Inv, PdgOK
  <2>2. /\ pdg' \in Seq(GroupSet) /\ Len(pdg') = Len(pdg) + 1
        /\ \A g \in 1 .. Len(pdg) : pdg'[g] = pdg[g]
        /\ pdg'[Len(pdg) + 1] = GroupOf(f)
    BY <1>9, <2>1, AppendProperties
  <2>3. Len(pdg') <= NumFrames
    BY <1>1, <1>2, <2>2
  <2>4. \A g \in 1 .. Len(pdg') : pdg'[g] = GroupOf(g)
    BY <1>2, <2>2 DEF Inv, PdgOK
  <2> QED
    BY <1>5, <2>2, <2>3, <2>4, Static DEF PdgOK
<1>11. EncOK'
  <2>1. enc' \in [pids : Seq(UnitType), pred : Int, prev : Int]
    BY <1>5, EmptySeq DEF EncStart
  <2>2. ASSUME Building'
        PROVE  /\ NumUnits(BuildFrame)' > 0
               /\ PredAfter(BuildFrame, 0)' = 0
               /\ SizeAfter(BuildFrame, 0)' = 0
    <3>1. Len(pdg') < NumFrames /\ pdg' \in Seq(GroupSet) /\ NumFrames \in Nat
      BY <1>10, <2>2, FrameAssumption DEF Building, PdgOK
    <3>2. PICK g \in 1 .. Len(src) : g = BuildFrame'
      BY <1>2, <3>1, LenProperties DEF BuildFrame
    <3>3. PredAfter(g, 0) = 0 /\ SizeAfter(g, 0) = 0
      BY DEF PredAfter, SizeAfter
    <3>4. NumUnits(g) \in Nat /\ NumUnits(g) > 0
      BY FrameFacts DEF Inv
    <3>5. NumUnits(g)' > 0 /\ PredAfter(g, 0)' = 0 /\ SizeAfter(g, 0)' = 0
      BY <1>5, <3>3, <3>4, Static
    <3> QED
      BY <3>2, <3>5
  <2> QED
    BY <1>5, <2>1, <2>2 DEF EncOK, EncStart
<1>12. SentOK'
  BY <1>2, <1>5, FrameAssumption, EmptySeq DEF SentOK
<1>13. PackFirst'
  BY <1>2, <1>5 DEF PackFirst
<1> QED
  BY <1>5, <1>10, <1>11, <1>12, <1>13, Untouched DEF Inv

-----------------------------------------------------------------------------
(***************************************************************************)
(* Transmit.                                                               *)
(***************************************************************************)
LEMMA WrittenUnitFacts ==
  ASSUME NEW type \in Types, NEW hdr \in Header, NEW u \in UnitType
  PROVE  /\ WrittenUnit(type, hdr, u) \in UnitType
         /\ WrittenUnit(type, hdr, u).mode = u.mode
         /\ Kind(type, u.mode) = "inter" => WrittenUnit(type, hdr, u).idx = u.idx
<1> DEFINE w == WrittenUnit(type, hdr, u)
           kind == Kind(type, u.mode)
<1>1. hdr.u0 \in Nat /\ hdr.u0 + 1 \in Nat /\ hdr.lod \in Nat
  BY DEF Header
<1>7. u.u0 \in Int /\ u.lod \in Int /\ u.d1 \in Int /\ u.dd \in Int
  BY DEF UnitType
<1>2. CoordBits \in Nat /\ DDBits \in Nat
  BY WidthAssumption DEF DDBits
<1>3. CASE kind = "intra"
  <2> DEFINE a == Low(u.u0, hdr.u0 + 1)
             b == Low(u.lod, hdr.lod)
             c == Low(u.d1, CoordBits)
             d == Low(u.dd, DDBits)
  <2>1. a \in Nat /\ b \in Nat /\ c \in Nat /\ d \in Nat
    BY <1>1, <1>2, <1>7, LowType
  <2>2. w = [u EXCEPT !.u0 = a, !.lod = b, !.d1 = c, !.dd = d]
    BY <1>3 DEF WrittenUnit
  <2> HIDE DEF a, b, c, d, w
  <2>3. w = [[[[u EXCEPT !.u0 = a] EXCEPT !.lod = b] EXCEPT !.d1 = c] EXCEPT !.dd = d]
    BY <2>2
  <2> DEFINE u1 == [u EXCEPT !.u0 = a]
             u2 == [u1 EXCEPT !.lod = b]
             u3 == [u2 EXCEPT !.d1 = c]
  <2>4. u1 \in UnitType /\ u1.mode = u.mode
    BY <2>1 DEF UnitType
  <2> HIDE DEF u1
  <2>5. u2 \in UnitType /\ u2.mode = u.mode
    BY <2>1, <2>4 DEF UnitType
  <2> HIDE DEF u2
  <2>6. u3 \in UnitType /\ u3.mode = u.mode
    BY <2>1, <2>5 DEF UnitType
  <2> HIDE DEF u3
  <2>7. w = [u3 EXCEPT !.dd = d]
    BY <2>3 DEF u1, u2, u3
  <2>8. w \in UnitType /\ w.mode = u.mode
    BY <2>1, <2>6, <2>7 DEF UnitType
  <2> QED
    BY <1>3, <2>8 DEF w
<1>4. CASE kind = "inter"
  BY <1>4 DEF WrittenUnit, UnitType
<1>5. CASE kind = "pcm"
  <2>1. Low(u.u0, hdr.u0 + 1) \in Nat
    BY <1>1, <1>7, LowType
  <2> QED
    BY <1>5, <2>1 DEF WrittenUnit, UnitType
<1>6. CASE kind \notin {"intra", "inter", "pcm"}
  <2>1. w = BlankUnit(u.mode)
    BY <1>6 DEF WrittenUnit
  <2>2. u.mode \in 0 .. P_END
    BY DEF UnitType
  <2>3. w \in UnitType /\ w.mode = u.mode
    BY <2>1, <2>2, UnitTypes DEF BlankUnit
  <2> QED
    BY <1>6, <2>3
<1> QED
  BY <1>3, <1>4, <1>5, <1>6

\* The header the writer compares with holds widths.
LEMMA PrevHeaderType ==
  ASSUME Inv, NEW f \in 1 .. Len(sent) + 1
  PROVE  PrevHeader(f) \in Header
<1>1. sent \in Seq(SentSet) /\ Len(sent) \in Nat
  BY LenProperties DEF Inv, SentOK
<1>2. CASE f = 1
  BY <1>2 DEF PrevHeader, NoHeader, Header
<1>3. CASE f # 1
  <2>1. f - 1 \in 1 .. Len(sent)
    BY <1>1, <1>3
  <2>2. sent[f - 1] \in SentSet
    BY <1>1, <2>1, ElementOfSeq
  <2> QED
    BY <1>3, <2>2 DEF PrevHeader, SentSet
<1> QED
  BY <1>2, <1>3

\* Writing a tile group keeps the invariant.
LEMMA WriteGroupInv == Inv /\ WriteGroup => Inv'
<1> SUFFICES ASSUME Inv, WriteGroup PROVE Inv'
  OBVIOUS
<1> DEFINE f == Len(sent) + 1
           hdr == HeaderInForce(FrameType(f), NeedOf(f), PrevHeader(f))
           written == [i \in 1 .. NumUnits(f) |->
                         WrittenUnit(FrameType(f), hdr, UnitOf(f, i))]
           group == [syntax |-> HeaderSyntax(FrameType(f), NeedOf(f), PrevHeader(f)),
                     header |-> hdr, pids |-> written]
<1>1. Len(pdg) = NumFrames /\ Len(sent) < NumFrames /\ NumFrames \in Nat \ {0}
  BY FrameAssumption DEF WriteGroup
<1>2. sent \in Seq(SentSet) /\ Len(sent) \in Nat
  BY LenProperties DEF Inv, SentOK
<1>3. Len(src) = NumFrames
  <2>1. pdg # <<>>
    BY <1>1
  <2>2. ~(Len(src) < NumFrames)
    BY <2>1 DEF Inv, PackFirst
  <2>3. Len(src) \in Nat /\ Len(src) <= NumFrames
    BY LenProperties DEF Inv, SrcOK
  <2> QED
    BY <1>1, <2>2, <2>3
<1>4. f \in 1 .. Len(src) /\ f \in 1 .. Len(pdg)
  BY <1>1, <1>2, <1>3
<1>5. pdg[f] = GroupOf(f)
  BY <1>4 DEF Inv, PdgOK
<1>6. LastHeader(sent) = PrevHeader(f)
  <2>1. CASE sent = <<>>
    BY <2>1 DEF LastHeader, PrevHeader
  <2>2. CASE sent # <<>>
    <3>1. Len(sent) # 0
      BY <2>2, <1>2, EmptySeq
    <3> QED
      BY <2>2, <3>1, <1>2 DEF LastHeader, PrevHeader
  <2> QED
    BY <2>1, <2>2
<1>7. UnitsOf(f) \in Seq(UnitType) /\ Len(UnitsOf(f)) = NumUnits(f)
  BY <1>4, GroupFacts DEF Inv
<1>8. /\ sent' = Append(sent, group)
      /\ UNCHANGED <<src, pdg, enc, rcvd, lost, dec, dcd>>
  <2>1. /\ pdg[f].type = FrameType(f) /\ pdg[f].need = NeedOf(f)
        /\ pdg[f].pids = UnitsOf(f)
    BY <1>5 DEF GroupOf
  <2>2. \A i \in 1 .. NumUnits(f) : UnitsOf(f)[i] = UnitOf(f, i)
    BY DEF UnitsOf
  <2>3. written = [i \in 1 .. Len(pdg[f].pids) |->
                     WrittenUnit(FrameType(f), hdr, pdg[f].pids[i])]
    BY <1>7, <2>1, <2>2
  <2> QED
    BY <1>6, <2>1, <2>3 DEF WriteGroup
<1>9. /\ FrameType(f) \in Types /\ NeedOf(f) \in Header
      /\ PrevHeader(f) \in Header /\ hdr \in Header
  <2>1. NeedOf(f) \in Header /\ FrameType(f) \in Types
    BY <1>4, GroupFacts, FrameFacts DEF Inv
  <2>2. PrevHeader(f) \in Header
    BY <1>2, PrevHeaderType
  <2> QED
    BY <2>1, <2>2, HeaderInForceType DEF Header, Widths
<1>10. group \in SentSet
  <2>1. written \in Seq(UnitType)
    <3>1. \A i \in 1 .. NumUnits(f) :
            WrittenUnit(FrameType(f), hdr, UnitOf(f, i)) \in UnitType
      BY <1>4, <1>9, UnitFacts, WrittenUnitFacts DEF Inv
    <3>2. NumUnits(f) \in Nat
      BY <1>4, FrameFacts DEF Inv
    <3>3. written \in [1 .. NumUnits(f) -> UnitType]
      BY <3>1
    <3> QED
      BY <3>2, <3>3, SeqDef
  <2>2. HeaderSyntax(FrameType(f), NeedOf(f), PrevHeader(f)) \in
          [type : Types, flags : [u0 : BOOLEAN, lod : BOOLEAN], count : Header]
    <3>1. GrowFlags(NeedOf(f), PrevHeader(f)) \in [u0 : BOOLEAN, lod : BOOLEAN]
      BY DEF GrowFlags
    <3> QED
      BY <1>9, <3>1 DEF HeaderSyntax
  <2> HIDE DEF written, hdr
  <2> QED
    BY <1>9, <2>1, <2>2 DEF SentSet
<1> HIDE DEF group
<1>11. /\ sent' \in Seq(SentSet) /\ Len(sent') = f
       /\ \A g \in 1 .. Len(sent) : sent'[g] = sent[g]
       /\ sent'[f] = group
  BY <1>2, <1>8, <1>10, AppendProperties
<1>12. \A g \in 1 .. f : PrevHeader(g)' = PrevHeader(g)
  <2> SUFFICES ASSUME NEW g \in 1 .. f, g # 1 PROVE sent'[g - 1] = sent[g - 1]
    BY DEF PrevHeader
  <2>1. g - 1 \in 1 .. Len(sent)
    BY <1>2
  <2> QED
    BY <2>1, <1>11
<1>13. SentOK'
  <2> DEFINE Described(g, sequence) ==
        LET header == HeaderInForce(FrameType(g), NeedOf(g), PrevHeader(g))
        IN  sequence[g] = [syntax |-> HeaderSyntax(FrameType(g), NeedOf(g),
                                                   PrevHeader(g)),
                    header |-> header,
                    pids |-> [i \in 1 .. NumUnits(g) |->
                                WrittenUnit(FrameType(g), header, UnitOf(g, i))]]
  <2>1. \A g \in 1 .. Len(sent) : Described(g, sent)
    BY DEF Inv, SentOK
  <2>2. Described(f, sent')
    BY <1>11 DEF group
  <2>3. \A g \in 1 .. Len(sent') : Described(g, sent')
    <3> SUFFICES ASSUME NEW g \in 1 .. f PROVE Described(g, sent')
      BY <1>11
    <3>1. CASE g = f
      BY <3>1, <2>2
    <3>2. CASE g # f
      <4>1. g \in 1 .. Len(sent)
        BY <3>2, <1>2
      <4> QED
        BY <4>1, <2>1, <1>11
    <3> QED
      BY <3>1, <3>2
  <2>4. Len(sent') <= NumFrames /\ Len(pdg') = NumFrames
    BY <1>1, <1>2, <1>8, <1>11
  <2>5. Len(sent') = f
    BY <1>11
  <2> HIDE DEF f
  <2> QED
    BY <1>8, <1>11, <1>12, <2>3, <2>4, <2>5, Static DEF SentOK
<1>14. rcvd = <<>> /\ lost = FALSE
  BY <1>1, <1>2 DEF Inv, RcvdOK, LostOK
<1>15. RcvdOK'
  BY <1>8, <1>14, FrameAssumption, EmptySeq DEF RcvdOK
<1>16. LostOK' /\ PackFirst'
  <2>1. lost' = FALSE /\ ~(Len(src') < NumFrames)
    BY <1>1, <1>3, <1>8, <1>14
  <2> QED
    BY <2>1 DEF LostOK, PackFirst
<1> QED
  BY <1>8, <1>13, <1>15, <1>16, Untouched DEF Inv

\* What was written for a frame, once all tile groups are in the bitstream.
LEMMA SentFacts ==
  ASSUME Inv, NEW f \in 1 .. Len(sent)
  PROVE  /\ f \in 1 .. Len(src) /\ Len(src) = NumFrames
         /\ sent[f].syntax = HeaderSyntax(FrameType(f), NeedOf(f), PrevHeader(f))
         /\ sent[f].header = HeaderInForce(FrameType(f), NeedOf(f), PrevHeader(f))
         /\ sent[f].pids \in Seq(UnitType) /\ Len(sent[f].pids) = NumUnits(f)
         /\ sent[f].header \in Header
         /\ \A i \in 1 .. NumUnits(f) :
              /\ sent[f].pids[i] = WrittenUnit(FrameType(f), sent[f].header,
                                               UnitOf(f, i))
              /\ sent[f].pids[i] \in UnitType
              /\ sent[f].pids[i].mode = UnitOf(f, i).mode
              /\ i <= NumMatched(f) => sent[f].pids[i].idx = UnitOf(f, i).idx
<1>1. sent \in Seq(SentSet) /\ Len(sent) \in Nat /\ Len(sent) <= NumFrames
  BY LenProperties DEF Inv, SentOK
<1>2. Len(src) = NumFrames
  <2>1. sent # <<>>
    BY <1>1
  <2>2. ~(Len(src) < NumFrames)
    BY <2>1 DEF Inv, PackFirst
  <2>3. Len(src) \in Nat /\ Len(src) <= NumFrames
    BY LenProperties DEF Inv, SrcOK
  <2> QED
    BY <2>2, <2>3, FrameAssumption
<1>3. f \in 1 .. Len(src)
  BY <1>1, <1>2
<1> DEFINE hdr == HeaderInForce(FrameType(f), NeedOf(f), PrevHeader(f))
<1>4. sent[f] = [syntax |-> HeaderSyntax(FrameType(f), NeedOf(f), PrevHeader(f)),
                 header |-> hdr,
                 pids |-> [i \in 1 .. NumUnits(f) |->
                             WrittenUnit(FrameType(f), hdr, UnitOf(f, i))]]
  BY DEF Inv, SentOK
<1>5. sent[f] \in SentSet
  BY <1>1, ElementOfSeq
<1> HIDE DEF hdr
<1>6. /\ sent[f].syntax = HeaderSyntax(FrameType(f), NeedOf(f), PrevHeader(f))
      /\ sent[f].header = hdr /\ hdr \in Header
      /\ sent[f].pids \in Seq(UnitType)
  BY <1>4, <1>5 DEF SentSet
<1>7. /\ NumUnits(f) \in Nat /\ NumMatched(f) \in Nat /\ FrameType(f) \in Types
  BY <1>3, FrameFacts DEF Inv
<1>8. Len(sent[f].pids) = NumUnits(f)
  BY <1>4, <1>6, <1>7, LenProperties
<1>9. ASSUME NEW i \in 1 .. NumUnits(f)
      PROVE  /\ sent[f].pids[i] = WrittenUnit(FrameType(f), hdr, UnitOf(f, i))
             /\ sent[f].pids[i] \in UnitType
             /\ sent[f].pids[i].mode = UnitOf(f, i).mode
             /\ i <= NumMatched(f) => sent[f].pids[i].idx = UnitOf(f, i).idx
  <2>1. sent[f].pids[i] = WrittenUnit(FrameType(f), hdr, UnitOf(f, i))
    BY <1>4
  <2>2. /\ UnitOf(f, i) \in UnitType
        /\ i <= NumMatched(f) => Kind(FrameType(f), UnitOf(f, i).mode) = "inter"
    BY <1>3, <1>7, UnitFacts DEF Inv
  <2> QED
    BY <1>6, <1>7, <2>1, <2>2, WrittenUnitFacts
<1> QED
  BY <1>2, <1>3, <1>6, <1>8, <1>9 DEF hdr

\* The parser stops at the end mark, the last unit written.
LEMMA UpToEndFacts ==
  ASSUME Inv, NEW f \in 1 .. Len(sent)
  PROVE  /\ UpToEnd(sent[f].pids) =
              [i \in 1 .. NumUnits(f) - 1 |-> sent[f].pids[i]]
         /\ UpToEnd(sent[f].pids) \in Seq(UnitType)
         /\ Len(UpToEnd(sent[f].pids)) = NumUnits(f) - 1
<1> DEFINE pids == sent[f].pids
           IsEnd(n) == /\ pids[n + 1].mode = I_END
                       /\ \A i \in 1 .. n : pids[i].mode # I_END
           n0 == CHOOSE n \in 0 .. Len(pids) - 1 : IsEnd(n)
           last == NumUnits(f) - 1
<1>1. /\ f \in 1 .. Len(src) /\ pids \in Seq(UnitType) /\ Len(pids) = NumUnits(f)
      /\ \A i \in 1 .. NumUnits(f) : pids[i].mode = UnitOf(f, i).mode
      /\ \A i \in 1 .. NumUnits(f) : pids[i] \in UnitType
  BY SentFacts
<1>2. NumUnits(f) \in Nat \ {0}
  BY <1>1, FrameFacts DEF Inv
<1>3. \A i \in 1 .. NumUnits(f) : pids[i].mode = I_END <=> i = NumUnits(f)
  BY <1>1, UnitFacts DEF Inv
<1> HIDE DEF pids
<1>4. last \in 0 .. Len(pids) - 1 /\ IsEnd(last)
  BY <1>1, <1>2, <1>3
<1>5. n0 \in 0 .. Len(pids) - 1 /\ IsEnd(n0)
  <2> HIDE DEF IsEnd
  <2> QED
    BY <1>4
<1>6. n0 = last
  <2> HIDE DEF n0
  <2>1. n0 + 1 \in 1 .. NumUnits(f)
    BY <1>1, <1>2, <1>5
  <2>2. n0 + 1 = NumUnits(f)
    BY <1>3, <1>5, <2>1
  <2> QED
    BY <1>2, <1>5, <2>2
<1>7. UpToEnd(pids) = SubSeq(pids, 1, last)
  BY <1>6 DEF UpToEnd
<1>8. /\ SubSeq(pids, 1, last) \in Seq(UnitType)
      /\ Len(SubSeq(pids, 1, last)) = last
      /\ \A i \in 1 .. last : SubSeq(pids, 1, last)[i] = pids[i]
  <2>1. \A i \in 1 .. last : pids[i] \in UnitType
    BY <1>1, <1>2
  <2>2. last \in Int /\ 1 \in Int /\ last >= 0
    BY <1>2
  <2> HIDE DEF last
  <2>3. /\ SubSeq(pids, 1, last) \in Seq(UnitType)
        /\ Len(SubSeq(pids, 1, last)) = IF 1 <= last THEN last - 1 + 1 ELSE 0
        /\ \A i \in 1 .. last - 1 + 1 : SubSeq(pids, 1, last)[i] = pids[1 + i - 1]
    BY <2>1, <2>2, SubSeqProperties
  <2> QED
    BY <2>2, <2>3
<1>9. SubSeq(pids, 1, last) = [i \in 1 .. last |-> pids[i]]
  BY <1>8, LenProperties
<1> QED
  BY <1>7, <1>8, <1>9 DEF pids

\* The parser's previous header differs from the writer's only in the width
\* of the level of detail, and then a P frame has sent that width.
LEMMA PrevParsedFacts ==
  ASSUME Inv, NEW f \in 1 .. Len(rcvd) + 1
  PROVE  /\ PrevParsed(f) \in Header
         /\ PrevParsed(f).u0 = PrevHeader(f).u0
         /\ \/ PrevParsed(f).lod = PrevHeader(f).lod
            \/ \E g \in 2 .. f - 1 : /\ sent[g].syntax.type = FrameP
                                     /\ sent[g].syntax.flags.lod
<1>1. rcvd \in Seq(RcvdSet) /\ Len(rcvd) \in Nat
  BY LenProperties DEF Inv, RcvdOK
<1>2. CASE f = 1
  BY <1>2 DEF PrevParsed, PrevHeader, NoHeader, Header
<1>3. CASE f # 1
  <2>1. f - 1 \in 1 .. Len(rcvd)
    BY <1>1, <1>3
  <2>2. rcvd[f - 1] \in RcvdSet
    BY <1>1, <2>1, ElementOfSeq
  <2>3. /\ rcvd[f - 1].header.u0 = sent[f - 1].header.u0
        /\ \/ rcvd[f - 1].header.lod = sent[f - 1].header.lod
           \/ \E g \in 2 .. f - 1 : /\ sent[g].syntax.type = FrameP
                                    /\ sent[g].syntax.flags.lod
    BY <2>1 DEF Inv, RcvdOK
  <2> QED
    BY <1>3, <2>2, <2>3 DEF PrevParsed, PrevHeader, RcvdSet
<1> QED
  BY <1>2, <1>3

\* Parsing a tile group keeps the invariant.
LEMMA ParseGroupInv == Inv /\ ParseGroup => Inv'
<1> SUFFICES ASSUME Inv, ParseGroup PROVE Inv'
  OBVIOUS
<1> DEFINE f == Len(rcvd) + 1
           hdr == ParsedHeader(sent[f].syntax, PrevParsed(f))
           units == UpToEnd(sent[f].pids)
           group == [type |-> FrameType(f), header |-> hdr, pids |-> units]
<1>1. /\ Len(sent) = NumFrames /\ Len(rcvd) < NumFrames /\ ~lost
      /\ NumFrames \in Nat \ {0}
  BY FrameAssumption DEF ParseGroup
<1>2. rcvd \in Seq(RcvdSet) /\ Len(rcvd) \in Nat
  BY LenProperties DEF Inv, RcvdOK
<1>3. f \in 1 .. Len(sent) /\ f \in Nat
  BY <1>1, <1>2
<1>4. /\ f \in 1 .. Len(src) /\ Len(src) = NumFrames
      /\ sent[f].syntax = HeaderSyntax(FrameType(f), NeedOf(f), PrevHeader(f))
      /\ sent[f].header = HeaderInForce(FrameType(f), NeedOf(f), PrevHeader(f))
  BY <1>3, SentFacts
<1>5. sent[f].syntax.type = FrameType(f)
  BY <1>4 DEF HeaderSyntax
<1>6. LastHeader(rcvd) = PrevParsed(f)
  <2>1. CASE rcvd = <<>>
    BY <2>1 DEF LastHeader, PrevParsed
  <2>2. CASE rcvd # <<>>
    <3>1. Len(rcvd) # 0
      BY <2>2, <1>2, EmptySeq
    <3> QED
      BY <2>2, <3>1, <1>2 DEF LastHeader, PrevParsed
  <2> QED
    BY <2>1, <2>2
<1>7. /\ rcvd' = Append(rcvd, group)
      /\ lost' = \E i \in DOMAIN units :
                   ~Aligned(FrameType(f), units[i], sent[f].header, hdr)
      /\ UNCHANGED <<src, pdg, enc, sent, dec, dcd>>
  BY <1>5, <1>6 DEF ParseGroup
<1>8. /\ hdr \in Header /\ hdr.u0 = sent[f].header.u0
      /\ \/ hdr.lod = sent[f].header.lod
         \/ \E g \in 2 .. f : /\ sent[g].syntax.type = FrameP
                              /\ sent[g].syntax.flags.lod
  <2>1. /\ NeedOf(f) \in Header /\ PrevHeader(f) \in Header
        /\ FrameType(f) \in Types
    BY <1>1, <1>3, <1>4, GroupFacts, PrevHeaderType, FrameFacts DEF Inv
  <2>2. /\ PrevParsed(f) \in Header /\ PrevParsed(f).u0 = PrevHeader(f).u0
        /\ \/ PrevParsed(f).lod = PrevHeader(f).lod
           \/ \E g \in 2 .. f - 1 : /\ sent[g].syntax.type = FrameP
                                    /\ sent[g].syntax.flags.lod
    BY <1>3, <1>2, PrevParsedFacts
  <2>3. /\ hdr \in Header /\ hdr.u0 = sent[f].header.u0
        /\ \/ hdr.lod = sent[f].header.lod
           \/ FrameType(f) # FrameI /\ sent[f].syntax.flags.lod
           \/ FrameType(f) # FrameI /\ PrevParsed(f).lod # PrevHeader(f).lod
    BY <1>4, <2>1, <2>2, ParsedInStep DEF Header, Widths
  <2>4. FrameType(f) # FrameI => FrameType(f) = FrameP /\ f \in 2 .. f
    BY <2>1, <1>3 DEF Types, FrameType
  <2> HIDE DEF hdr
  <2>5. CASE FrameType(f) # FrameI /\ sent[f].syntax.flags.lod
    BY <2>3, <2>4, <2>5, <1>5
  <2>6. CASE FrameType(f) # FrameI /\ PrevParsed(f).lod # PrevHeader(f).lod
    <3>1. PICK g \in 2 .. f - 1 : /\ sent[g].syntax.type = FrameP
                                  /\ sent[g].syntax.flags.lod
      BY <2>2, <2>6
    <3>2. g \in 2 .. f
      BY <1>3
    <3> QED
      BY <2>3, <3>1, <3>2
  <2> QED
    BY <2>3, <2>5, <2>6
<1>9. /\ units = [i \in 1 .. NumUnits(f) - 1 |-> sent[f].pids[i]]
      /\ units \in Seq(UnitType)
  BY <1>3, UpToEndFacts
<1> HIDE DEF hdr, units
<1>10. group \in RcvdSet
  BY <1>4, <1>8, <1>9, FrameFacts DEF RcvdSet, Inv
<1>11. /\ rcvd' \in Seq(RcvdSet) /\ Len(rcvd') = f
       /\ \A g \in 1 .. Len(rcvd) : rcvd'[g] = rcvd[g]
       /\ rcvd'[f] = group
  BY <1>2, <1>7, <1>10, AppendProperties
<1>12. \A g \in 1 .. f : PrevParsed(g)' = PrevParsed(g)
  <2> SUFFICES ASSUME NEW g \in 1 .. f, g # 1 PROVE rcvd'[g - 1] = rcvd[g - 1]
    BY DEF PrevParsed
  <2>1. g - 1 \in 1 .. Len(rcvd)
    BY <1>2
  <2> QED
    BY <2>1, <1>11
<1>13. RcvdOK'
  <2> DEFINE Described(g, s) ==
       /\ s[g] = [type |-> FrameType(g),
                  header |-> ParsedHeader(sent[g].syntax, PrevParsed(g)),
                  pids |-> [i \in 1 .. NumUnits(g) - 1 |-> sent[g].pids[i]]]
       /\ s[g].header.u0 = sent[g].header.u0
       /\ \/ s[g].header.lod = sent[g].header.lod
          \/ \E h \in 2 .. g : /\ sent[h].syntax.type = FrameP
                               /\ sent[h].syntax.flags.lod
  <2>1. \A g \in 1 .. Len(rcvd) : Described(g, rcvd)
    BY DEF Inv, RcvdOK
  <2>2. Described(f, rcvd')
    <3>1. rcvd'[f].header = hdr
      BY <1>11
    <3>2. rcvd'[f] = [type |-> FrameType(f),
                  header |-> ParsedHeader(sent[f].syntax, PrevParsed(f)),
                  pids |-> [i \in 1 .. NumUnits(f) - 1 |-> sent[f].pids[i]]]
      BY <1>9, <1>11 DEF hdr
    <3> QED
      BY <3>1, <3>2, <1>8
  <2>3. \A g \in 1 .. Len(rcvd') : Described(g, rcvd')
    <3> SUFFICES ASSUME NEW g \in 1 .. f PROVE Described(g, rcvd')
      BY <1>11
    <3>1. CASE g = f
      BY <3>1, <2>2
    <3>2. CASE g # f
      <4>1. g \in 1 .. Len(rcvd) /\ rcvd'[g] = rcvd[g]
        BY <3>2, <1>2, <1>11
      <4>2. Described(g, rcvd)
        BY <4>1, <2>1
      <4> QED
        BY <4>1, <4>2
    <3> QED
      BY <3>1, <3>2
  <2>4. Len(rcvd') <= NumFrames /\ Len(sent') = NumFrames
    BY <1>1, <1>2, <1>7, <1>11
  <2>5. Len(rcvd') = f
    BY <1>11
  <2> HIDE DEF f
  <2> QED
    BY <1>7, <1>11, <1>12, <2>3, <2>4, <2>5, Static DEF RcvdOK
<1>14. dec = <<>> /\ dcd = DecStart
  BY <1>1, <1>2 DEF Inv, DecOK, DcdOK
<1>15. LostOK'
  <2>1. rcvd' # <<>> /\ rcvd'[Len(rcvd')].header = hdr
    BY <1>3, <1>11
  <2>2. ASSUME lost' PROVE hdr.lod # sent[f].header.lod
    <3>1. PICK i \in DOMAIN units :
            ~Aligned(FrameType(f), units[i], sent[f].header, hdr)
      BY <1>7, <2>2
    <3> QED
      BY <3>1, <1>8 DEF Aligned
  <2>3. lost' \in BOOLEAN
    BY <1>7
  <2> QED
    BY <1>7, <1>11, <1>14, <2>1, <2>2, <2>3 DEF LostOK
<1>16. DecOK'
  BY <1>7, <1>14, <1>1, EmptySeq DEF DecOK
<1>17. DcdOK'
  <2>1. dcd' = DecStart /\ dec' = <<>> /\ Len(dec') + 1 = 1
    BY <1>7, <1>14
  <2>2. DecStart \in DcdSet
    BY EmptySeq DEF DecStart, DcdSet
  <2>3. 1 \in 1 .. Len(src) /\ NumUnits(1) \in Nat /\ 0 < NumUnits(1)
        /\ Count(1) \in Nat
    <3>1. 1 \in 1 .. Len(src)
      BY <1>1, <1>4
    <3> QED
      BY <3>1, FrameFacts DEF Inv
  <2>4. MatchedUpTo(DecStart, 1, 0)
    BY DEF MatchedUpTo, DecStart
  <2>5. PredAfter(1, 0) = 0
    BY DEF PredAfter
  <2>6. DecStart.pos - 1 = 0 /\ DecStart.pred = 0 /\ Len(DecStart.patches) = 0
    BY DEF DecStart
  <2>7. NumUnits(1)' = NumUnits(1) /\ PredAfter(1, 0)' = PredAfter(1, 0)
        /\ MatchedUpTo(DecStart, 1, 0)' /\ Count(1)' = Count(1)
    BY <1>7, <2>4, Static DEF MatchedUpTo
  <2> QED
    BY <2>1, <2>2, <2>3, <2>5, <2>6, <2>7 DEF DcdOK
<1>18. PackFirst'
  BY <1>1, <1>4, <1>7 DEF PackFirst
<1> QED
  BY <1>7, <1>13, <1>15, <1>16, <1>17, <1>18, Untouched DEF Inv

-----------------------------------------------------------------------------
(***************************************************************************)
(* Decode.                                                                 *)
(***************************************************************************)
LEMMA DecodedTypes ==
  /\ \A u \in UnitType, prev \in Int : IntraPatch(u, prev) \in Patch
  /\ \A u \in UnitType, pre \in Patch : InterPatch(u, pre) \in Patch
  /\ \A u \in UnitType : PcmPatch(u) \in Missed
  /\ DefaultPatch \in Patch
<1> USE LevelAssumption, DepthAssumption
<1>1. \A q \in Int : SizeDOf(q) \in Int
  BY DEF SizeDOf, Least
<1>2. ASSUME NEW u \in UnitType, NEW prev \in Int
      PROVE  IntraPatch(u, prev) \in Patch
  <2>1. u.d1 \in Int /\ u.dd \in Int /\ u.u0 \in Int /\ u.size \in Int
        /\ u.plane \in Planes /\ u.lod \in Nat
    BY DEF UnitType
  <2>2. IntraD1(u.plane, u.d1) \in Int
    BY <2>1 DEF IntraD1
  <2> QED
    BY <1>1, <2>1, <2>2 DEF IntraPatch, Patch
<1>3. ASSUME NEW u \in UnitType, NEW pre \in Patch
      PROVE  InterPatch(u, pre) \in Patch
  <2>1. u.d1 \in Int /\ u.dd \in Int /\ u.u0 \in Int /\ u.size \in Int
    BY DEF UnitType
  <2>2. /\ pre.u0 \in Int /\ pre.sizeU0 \in Int /\ pre.d1 \in Int
        /\ pre.sizeD \in Int /\ pre.plane \in Planes /\ pre.lod \in Nat
    BY DEF Patch
  <2>3. AxisEnd \in Int
    BY DEF AxisEnd
  <2>4. InterD1(pre.plane, u.d1, pre.d1) \in Int
    BY <2>1, <2>2, <2>3 DEF InterD1
  <2>5. PrevDD(pre.sizeD) \in Int
    BY <2>2 DEF PrevDD
  <2>6. SizeDOf(u.dd + PrevDD(pre.sizeD)) \in Int
    BY <1>1, <2>1, <2>5
  <2> QED
    BY <2>1, <2>2, <2>4, <2>6 DEF InterPatch, Patch
<1>4. \A u \in UnitType : PcmPatch(u) \in Missed
  BY DEF PcmPatch, Missed, UnitType
<1>5. DefaultPatch \in Patch
  BY DEF DefaultPatch, Patch, Planes
<1> QED
  BY <1>2, <1>3, <1>4, <1>5

\* The tile group being rebuilt is the one written for its frame.
LEMMA RebuildingFacts ==
  ASSUME Inv, Rebuilding
  PROVE  LET f == Len(dec) + 1
         IN  /\ f \in 1 .. Len(src) /\ f \in 1 .. Len(sent) /\ f \in 1 .. Len(rcvd)
             /\ Len(src) = NumFrames /\ Len(rcvd) = NumFrames /\ lost = FALSE
             /\ dcd \in DcdSet /\ dec \in Seq(DecFrame) /\ Len(dec) \in Nat
             /\ dcd.pos \in 1 .. NumUnits(f)
             /\ Group.type = FrameType(f) /\ Len(Group.pids) = NumUnits(f) - 1
             /\ \A i \in 1 .. NumUnits(f) - 1 : Group.pids[i] = sent[f].pids[i]
<1> DEFINE f == Len(dec) + 1
<1>1. /\ Len(rcvd) = NumFrames /\ Len(dec) < NumFrames /\ lost = FALSE
      /\ NumFrames \in Nat \ {0}
  BY FrameAssumption DEF Rebuilding, Inv, LostOK
<1>2. /\ dec \in Seq(DecFrame) /\ Len(dec) \in Nat /\ dcd \in DcdSet
  BY LenProperties DEF Inv, DecOK, DcdOK
<1>3. rcvd # <<>>
  BY <1>1
<1>4. Len(sent) = NumFrames
  BY <1>3 DEF Inv, RcvdOK
<1>5. f \in 1 .. Len(sent) /\ f \in 1 .. Len(rcvd)
  BY <1>1, <1>2, <1>4
<1>6. f \in 1 .. Len(src) /\ Len(src) = NumFrames
  BY <1>5, SentFacts
<1>7. /\ Group.type = FrameType(f)
      /\ Group.pids = [i \in 1 .. NumUnits(f) - 1 |-> sent[f].pids[i]]
  <2>1. rcvd[f] = [type |-> FrameType(f),
                   header |-> ParsedHeader(sent[f].syntax, PrevParsed(f)),
                   pids |-> [i \in 1 .. NumUnits(f) - 1 |-> sent[f].pids[i]]]
    BY <1>5 DEF Inv, RcvdOK
  <2>2. Group = rcvd[f]
    BY DEF Group
  <2> HIDE DEF f
  <2> QED
    BY <2>1, <2>2
<1>8. Group.pids \in Seq(UnitType)
  <2>1. rcvd \in Seq(RcvdSet)
    BY DEF Inv, RcvdOK
  <2>2. rcvd[f] \in RcvdSet
    BY <1>5, <2>1, ElementOfSeq
  <2> QED
    BY <2>2 DEF Group, RcvdSet
<1>9. NumUnits(f) \in Nat /\ NumUnits(f) > 0
  BY <1>6, FrameFacts DEF Inv
<1>10. Len(Group.pids) = NumUnits(f) - 1
  BY <1>7, <1>8, <1>9, LenProperties
<1>11. dcd.pos \in 1 .. NumUnits(f)
  <2>1. dcd.pos \in Nat \ {0}
    BY <1>2 DEF DcdSet
  <2>2. dcd.pos - 1 < NumUnits(f)
    BY DEF Inv, DcdOK
  <2> QED
    BY <1>9, <2>1, <2>2
<1> QED
  BY <1>1, <1>2, <1>4, <1>5, <1>6, <1>7, <1>10, <1>11

\* The unit that is decoded next, and where its kind can stand.
LEMMA UnitIsFacts ==
  ASSUME Inv, NEW kind, UnitIs(kind)
  PROVE  LET f == Len(dec) + 1
             i == dcd.pos
         IN  /\ Rebuilding /\ i \in 1 .. NumUnits(f) - 1
             /\ Unit = sent[f].pids[i] /\ Unit \in UnitType
             /\ kind = "inter" => i \in 1 .. NumMatched(f)
             /\ kind = "intra" => i \in NumMatched(f) + 1 .. Count(f)
             /\ kind \in {"pcm", "none"} => i \in Count(f) + 1 .. NumUnits(f) - 1
<1> DEFINE f == Len(dec) + 1
           i == dcd.pos
<1>1. Rebuilding /\ i <= Len(Group.pids) /\ Kind(Group.type, Unit.mode) = kind
  BY DEF UnitIs
<1>2. /\ f \in 1 .. Len(src) /\ f \in 1 .. Len(sent) /\ i \in 1 .. NumUnits(f)
      /\ Group.type = FrameType(f) /\ Len(Group.pids) = NumUnits(f) - 1
      /\ \A j \in 1 .. NumUnits(f) - 1 : Group.pids[j] = sent[f].pids[j]
  BY <1>1, RebuildingFacts
<1>3. /\ NumUnits(f) \in Nat /\ Count(f) \in Nat /\ NumMatched(f) \in Nat
      /\ NumMatched(f) <= Count(f) /\ Count(f) < NumUnits(f)
  BY <1>2, FrameFacts DEF Inv
<1>4. i \in 1 .. NumUnits(f) - 1
  BY <1>1, <1>2, <1>3
<1>5. Unit = sent[f].pids[i]
  BY <1>2, <1>4 DEF Unit
<1>6. Unit \in UnitType /\ Unit.mode = UnitOf(f, i).mode
  BY <1>2, <1>5, SentFacts
<1>7. Kind(FrameType(f), UnitOf(f, i).mode) = kind
  BY <1>1, <1>2, <1>6
<1>8. /\ i \in 1 .. NumMatched(f) => kind = "inter"
      /\ i \in NumMatched(f) + 1 .. Count(f) => kind = "intra"
      /\ i \in Count(f) + 1 .. NumUnits(f) - 1 => kind \in {"pcm", "none"}
  BY <1>2, <1>7, UnitFacts DEF Inv
<1>9. \/ i \in 1 .. NumMatched(f) \/ i \in NumMatched(f) + 1 .. Count(f)
      \/ i \in Count(f) + 1 .. NumUnits(f) - 1
  BY <1>3, <1>4
<1> HIDE DEF i, f
<1>10. /\ kind = "inter" => i \in 1 .. NumMatched(f)
       /\ kind = "intra" => i \in NumMatched(f) + 1 .. Count(f)
       /\ kind \in {"pcm", "none"} => i \in Count(f) + 1 .. NumUnits(f) - 1
  BY <1>8, <1>9
<1> QED
  BY <1>1, <1>4, <1>5, <1>6, <1>10 DEF i, f

\* Decoding one more unit, with the predictor it leaves.
LEMMA DecodeStep ==
  ASSUME Inv, Rebuilding, dcd.pos < NumUnits(Len(dec) + 1),
         dcd' \in DcdSet, dcd'.pos = dcd.pos + 1,
         LET f == Len(dec) + 1
             i == dcd.pos
         IN  /\ MatchedUpTo(dcd', f, IF i <= Count(f) THEN i ELSE Count(f))
             /\ i <= Count(f) => Len(dcd'.patches) = i
             /\ i <= NumMatched(f) => dcd'.pred = PredAfter(f, i),
         UNCHANGED <<src, pdg, enc, sent, rcvd, lost, dec>>
  PROVE  Inv'
<1> DEFINE f == Len(dec) + 1
           i == dcd.pos
<1>1. /\ Len(src) = NumFrames /\ Len(rcvd) = NumFrames /\ lost = FALSE
      /\ i \in 1 .. NumUnits(f) /\ f \in 1 .. Len(src)
  BY RebuildingFacts
<1>2. dcd'.pos - 1 = i
  BY <1>1
<1>3. DcdOK'
  <2>1. /\ MatchedUpTo(dcd', f, IF i <= Count(f) THEN i ELSE Count(f))
        /\ i <= Count(f) => Len(dcd'.patches) = i
        /\ i <= NumMatched(f) => dcd'.pred = PredAfter(f, i)
        /\ i < NumUnits(f)
    OBVIOUS
  <2>2. ~(Len(rcvd') < NumFrames)
    BY <1>1, FrameAssumption
  <2>3. (Len(dec) + 1)' = f
    OBVIOUS
  <2> HIDE DEF f, i
  <2> QED
    BY <1>2, <2>1, <2>2, <2>3, Static DEF DcdOK, MatchedUpTo
<1>4. LostOK'
  BY <1>1 DEF LostOK
<1>5. PackFirst'
  BY <1>1, FrameAssumption DEF PackFirst
<1> QED
  BY <1>3, <1>4, <1>5, Untouched DEF Inv

\* Rebuilding an intra patch keeps the invariant.
LEMMA DecodeIntraInv == Inv /\ DecodeIntra => Inv'
<1> SUFFICES ASSUME Inv, DecodeIntra PROVE Inv'
  OBVIOUS
<1> DEFINE f == Len(dec) + 1
           i == dcd.pos
           p == IntraPatch(Unit, dcd.prev)
<1>1. UnitIs("intra")
  BY DEF DecodeIntra
<1>2. /\ Rebuilding /\ i \in NumMatched(f) + 1 .. Count(f)
      /\ Unit \in UnitType
  BY <1>1, UnitIsFacts
<1>3. /\ f \in 1 .. Len(src) /\ dcd \in DcdSet
  BY <1>2, RebuildingFacts
<1>4. /\ Count(f) \in Nat /\ NumMatched(f) \in Nat /\ Count(f) < NumUnits(f)
      /\ NumUnits(f) \in Nat
  BY <1>3, FrameFacts DEF Inv
<1>5. /\ MatchedUpTo(dcd, f, i - 1) /\ Len(dcd.patches) = i - 1
  <2>1. i - 1 <= Count(f)
    BY <1>2, <1>4
  <2> QED
    BY <2>1, <1>2 DEF Inv, DcdOK
<1>6. /\ dcd.patches \in Seq(Patch) /\ dcd.match \in Seq(Int) /\ dcd.pos \in Nat \ {0}
      /\ dcd.prev \in Int
  BY <1>3 DEF DcdSet
<1>7. p \in Patch
  BY <1>2, <1>6, DecodedTypes
<1> HIDE DEF p
<1>8. /\ dcd' = [dcd EXCEPT !.patches = Append(@, p), !.match = Append(@, 0),
                            !.pos = @ + 1, !.prev = p.sizeU0]
      /\ UNCHANGED <<src, pdg, enc, sent, rcvd, lost, dec>>
  BY DEF DecodeIntra, p
<1> DEFINE patches == Append(dcd.patches, p)
           match == Append(dcd.match, 0)
<1>9. /\ patches \in Seq(Patch) /\ Len(patches) = i
      /\ match \in Seq(Int) /\ Len(match) = i
      /\ \A j \in 1 .. i - 1 : match[j] = dcd.match[j]
  <2>1. /\ patches \in Seq(Patch) /\ Len(patches) = Len(dcd.patches) + 1
    BY <1>6, <1>7, AppendProperties
  <2>2. /\ match \in Seq(Int) /\ Len(match) = Len(dcd.match) + 1
        /\ \A j \in 1 .. Len(dcd.match) : match[j] = dcd.match[j]
    BY <1>6, AppendProperties
  <2>3. Len(dcd.match) = i - 1
    BY <1>5 DEF MatchedUpTo
  <2> QED
    BY <1>5, <1>6, <2>1, <2>2, <2>3
<1> HIDE DEF patches, match
<1>10. /\ dcd' \in DcdSet /\ dcd'.patches = patches /\ dcd'.match = match
       /\ dcd'.pos = i + 1 /\ dcd'.pred = dcd.pred
  <2> DEFINE d1 == [dcd EXCEPT !.patches = patches]
             d2 == [d1 EXCEPT !.match = match]
             pos == i + 1
             d3 == [d2 EXCEPT !.pos = pos]
  <2>1. dcd' = [d3 EXCEPT !.prev = p.sizeU0]
    BY <1>8 DEF patches, match
  <2>6. pos \in Nat \ {0}
    BY <1>6
  <2> HIDE DEF pos
  <2>2. d1 \in DcdSet /\ d1.patches = patches /\ d1.pred = dcd.pred
    BY <1>3, <1>9 DEF DcdSet
  <2> HIDE DEF d1
  <2>3. /\ d2 \in DcdSet /\ d2.patches = patches /\ d2.match = match
        /\ d2.pred = dcd.pred
    BY <1>9, <2>2 DEF DcdSet
  <2> HIDE DEF d2
  <2>4. /\ d3 \in DcdSet /\ d3.patches = patches /\ d3.match = match
        /\ d3.pos = pos /\ d3.pred = dcd.pred
    BY <2>6, <2>3 DEF DcdSet
  <2> HIDE DEF d3
  <2>5. p.sizeU0 \in Int
    BY <1>7 DEF Patch
  <2> QED
    BY <2>1, <2>4, <2>5 DEF DcdSet, pos
<1>11. MatchedUpTo(dcd', f, i)
  <2>1. \A j \in 1 .. i : j <= NumMatched(f) => match[j] = src[f].match[j]
    <3> SUFFICES ASSUME NEW j \in 1 .. i, j <= NumMatched(f)
                 PROVE  match[j] = src[f].match[j]
      OBVIOUS
    <3>1. j \in 1 .. i - 1
      BY <1>2, <1>4
    <3> QED
      BY <3>1, <1>5, <1>9 DEF MatchedUpTo
  <2> QED
    BY <1>6, <1>9, <1>10, <2>1 DEF MatchedUpTo
<1>12. /\ i <= Count(f) /\ ~(i <= NumMatched(f)) /\ i < NumUnits(f)
  BY <1>2, <1>4
<1>13. Len(dcd'.patches) = i
  BY <1>9, <1>10
<1> QED
  BY <1>2, <1>8, <1>10, <1>11, <1>12, <1>13, DecodeStep

\* The index the decoder forms is the match of the patch, which lies in the
\* frame rebuilt last.
LEMMA InterBest ==
  ASSUME Inv, UnitIs("inter")
  PROVE  LET f == Len(dec) + 1
             i == dcd.pos
         IN  /\ f > 1 /\ f - 1 \in 1 .. Len(dec) /\ f - 1 = Len(dec)
             /\ src[f].match[i] \in 0 .. Count(f - 1) - 1
             /\ Unit.idx + dcd.pred = src[f].match[i]
             /\ Unit.idx + dcd.pred + 1 = PredAfter(f, i)
<1> DEFINE f == Len(dec) + 1
           i == dcd.pos
<1>1. /\ Rebuilding /\ i \in 1 .. NumMatched(f) /\ i \in 1 .. NumUnits(f) - 1
      /\ Unit = sent[f].pids[i] /\ Unit \in UnitType
  BY UnitIsFacts
<1>2. /\ f \in 1 .. Len(src) /\ f \in 1 .. Len(sent)
      /\ dcd \in DcdSet /\ Len(dec) \in Nat
  BY <1>1, RebuildingFacts
<1>3. /\ Count(f) \in Nat /\ NumMatched(f) \in Nat
      /\ NumMatched(f) <= Count(f) /\ NumUnits(f) \in Nat
  BY <1>2, FrameFacts DEF Inv
<1>4. dcd.pred = PredAfter(f, i - 1) /\ dcd.pred \in Int
  <2>1. i - 1 <= NumMatched(f)
    BY <1>1, <1>3
  <2> QED
    BY <2>1, <1>1, <1>2 DEF Inv, DcdOK, DcdSet
<1>5. /\ f > 1 /\ f - 1 \in 1 .. Len(dec) /\ f - 1 = Len(dec)
      /\ src[f].match[i] \in 0 .. Count(f - 1) - 1
  BY <1>1, <1>2, RefFacts DEF Inv
<1>6. Unit.idx = src[f].match[i] - PredAfter(f, i - 1)
  <2>1. Unit.idx = UnitOf(f, i).idx
    BY <1>1, <1>2, <1>3, SentFacts
  <2>2. UnitOf(f, i) = InterUnit(src[f].patches[i], src[f].match[i],
                                 RefOf(f, i), PredAfter(f, i - 1))
    BY <1>1 DEF UnitOf
  <2> QED
    BY <2>1, <2>2 DEF InterUnit
<1>7. PredAfter(f, i) = src[f].match[i] + 1
  BY <1>1 DEF PredAfter
<1> QED
  BY <1>4, <1>5, <1>6, <1>7

\* Rebuilding an inter patch keeps the invariant: both predictors of the index
\* have advanced alike.
LEMMA DecodeInterInv == Inv /\ DecodeInter => Inv'
<1> SUFFICES ASSUME Inv, DecodeInter PROVE Inv'
  OBVIOUS
<1> DEFINE f == Len(dec) + 1
           i == dcd.pos
           best == Unit.idx + dcd.pred
           p == InterPatch(Unit, dec[Len(dec)].patches[best + 1])
<1>1. UnitIs("inter")
  BY DEF DecodeInter
<1>2. /\ Rebuilding /\ i \in 1 .. NumMatched(f) /\ i \in 1 .. NumUnits(f) - 1
      /\ Unit = sent[f].pids[i] /\ Unit \in UnitType
  BY <1>1, UnitIsFacts
<1>3. /\ f \in 1 .. Len(src) /\ f \in 1 .. Len(sent)
      /\ dcd \in DcdSet /\ dec \in Seq(DecFrame) /\ Len(dec) \in Nat
  BY <1>2, RebuildingFacts
<1>4. /\ Count(f) \in Nat /\ NumMatched(f) \in Nat /\ Count(f) < NumUnits(f)
      /\ NumMatched(f) <= Count(f) /\ NumUnits(f) \in Nat
  BY <1>3, FrameFacts DEF Inv
<1>5. /\ MatchedUpTo(dcd, f, i - 1) /\ Len(dcd.patches) = i - 1
      /\ dcd.pred = PredAfter(f, i - 1)
  <2>1. i - 1 <= Count(f) /\ i - 1 <= NumMatched(f)
    BY <1>2, <1>4
  <2> QED
    BY <2>1, <1>2 DEF Inv, DcdOK
<1>6. /\ dcd.patches \in Seq(Patch) /\ dcd.match \in Seq(Int) /\ dcd.pos \in Nat \ {0}
      /\ dcd.pred \in Int
  BY <1>3 DEF DcdSet
<1>7. /\ f > 1 /\ f - 1 \in 1 .. Len(dec) /\ f - 1 = Len(dec)
      /\ src[f].match[i] \in 0 .. Count(f - 1) - 1
  BY <1>1, InterBest
<1>8. best = src[f].match[i] /\ Unit.idx + dcd.pred + 1 = PredAfter(f, i)
  BY <1>1, InterBest
<1> HIDE DEF best
<1>9. p \in Patch
  <2>1. dec[f - 1] \in DecFrame /\ MatchedUpTo(dec[f - 1], f - 1, Count(f - 1))
    BY <1>3, <1>7, ElementOfSeq DEF Inv, DecOK
  <2> DEFINE n == Len(dec[f - 1].patches)
  <2>2. dec[f - 1].patches \in Seq(Patch) /\ n >= Count(f - 1)
    BY <2>1 DEF DecFrame, MatchedUpTo
  <2>3. Count(f - 1) \in Nat /\ n \in Nat
    <3>1. f - 1 \in 1 .. Len(src)
      BY <1>3, <1>7
    <3> QED
      BY <3>1, <2>2, FrameFacts, LenProperties DEF Inv
  <2> HIDE DEF n
  <2>4. best + 1 \in 1 .. n
    BY <1>7, <1>8, <2>2, <2>3
  <2>5. dec[f - 1].patches[best + 1] \in Patch
    BY <2>2, <2>4, ElementOfSeq DEF n
  <2> QED
    BY <1>2, <1>7, <2>5, DecodedTypes
<1> HIDE DEF p
<1>10. /\ dcd' = [dcd EXCEPT !.patches = Append(@, p), !.match = Append(@, best),
                             !.pos = @ + 1, !.pred = @ + Unit.idx + 1,
                             !.prev = p.sizeU0]
       /\ UNCHANGED <<src, pdg, enc, sent, rcvd, lost, dec>>
  BY DEF DecodeInter, p, best
<1> DEFINE patches == Append(dcd.patches, p)
           match == Append(dcd.match, best)
           pred == dcd.pred + Unit.idx + 1
<1>11. /\ patches \in Seq(Patch) /\ Len(patches) = i
       /\ match \in Seq(Int) /\ Len(match) = i
       /\ \A j \in 1 .. i - 1 : match[j] = dcd.match[j]
       /\ match[i] = src[f].match[i]
  <2>1. /\ patches \in Seq(Patch) /\ Len(patches) = Len(dcd.patches) + 1
    BY <1>6, <1>9, AppendProperties
  <2>2. best \in Int
    BY <1>7, <1>8
  <2>3. /\ match \in Seq(Int) /\ Len(match) = Len(dcd.match) + 1
        /\ \A j \in 1 .. Len(dcd.match) : match[j] = dcd.match[j]
        /\ match[Len(dcd.match) + 1] = best
    BY <1>6, <2>2, AppendProperties
  <2>4. Len(dcd.match) = i - 1
    BY <1>5 DEF MatchedUpTo
  <2> QED
    BY <1>5, <1>6, <1>8, <2>1, <2>3, <2>4
<1>12. pred = PredAfter(f, i) /\ pred \in Int
  <2>1. Unit.idx \in Int
    BY <1>2 DEF UnitType
  <2> QED
    BY <1>6, <1>8, <2>1
<1> HIDE DEF patches, match, pred
<1>13. /\ dcd' \in DcdSet /\ dcd'.patches = patches /\ dcd'.match = match
       /\ dcd'.pos = i + 1 /\ dcd'.pred = pred
  <2> DEFINE d1 == [dcd EXCEPT !.patches = patches]
             d2 == [d1 EXCEPT !.match = match]
             pos == i + 1
             d3 == [d2 EXCEPT !.pos = pos]
             d4 == [d3 EXCEPT !.pred = pred]
  <2>1. dcd' = [d4 EXCEPT !.prev = p.sizeU0]
    BY <1>10 DEF patches, match, pred
  <2>7. pos \in Nat \ {0}
    BY <1>6
  <2> HIDE DEF pos
  <2>2. d1 \in DcdSet /\ d1.patches = patches
    BY <1>3, <1>11 DEF DcdSet
  <2> HIDE DEF d1
  <2>3. d2 \in DcdSet /\ d2.patches = patches /\ d2.match = match
    BY <1>11, <2>2 DEF DcdSet
  <2> HIDE DEF d2
  <2>4. d3 \in DcdSet /\ d3.patches = patches /\ d3.match = match /\ d3.pos = pos
    BY <2>7, <2>3 DEF DcdSet
  <2> HIDE DEF d3
  <2>5. /\ d4 \in DcdSet /\ d4.patches = patches /\ d4.match = match
        /\ d4.pos = pos /\ d4.pred = pred
    BY <1>12, <2>4 DEF DcdSet
  <2> HIDE DEF d4
  <2>6. p.sizeU0 \in Int
    BY <1>9 DEF Patch
  <2> QED
    BY <2>1, <2>5, <2>6 DEF DcdSet, pos
<1>14. MatchedUpTo(dcd', f, i)
  <2>1. \A j \in 1 .. i : j <= NumMatched(f) => match[j] = src[f].match[j]
    <3> SUFFICES ASSUME NEW j \in 1 .. i, j <= NumMatched(f)
                 PROVE  match[j] = src[f].match[j]
      OBVIOUS
    <3>1. CASE j = i
      BY <3>1, <1>11
    <3>2. CASE j # i
      <4>1. j \in 1 .. i - 1
        BY <3>2, <1>2, <1>4
      <4> QED
        BY <4>1, <1>5, <1>11 DEF MatchedUpTo
    <3> QED
      BY <3>1, <3>2
  <2> QED
    BY <1>6, <1>11, <1>13, <2>1 DEF MatchedUpTo
<1>15. /\ i <= Count(f) /\ i < NumUnits(f)
  BY <1>2, <1>4
<1>16. Len(dcd'.patches) = i
  BY <1>11, <1>13
<1>17. dcd'.pred = PredAfter(f, i)
  BY <1>12, <1>13
<1> QED
  BY <1>2, <1>10, <1>13, <1>14, <1>15, <1>16, <1>17, DecodeStep

\* Rebuilding a missed points patch keeps the invariant.
LEMMA DecodePcmInv == Inv /\ DecodePcm => Inv'
<1> SUFFICES ASSUME Inv, DecodePcm PROVE Inv'
  OBVIOUS
<1> DEFINE f == Len(dec) + 1
           i == dcd.pos
           pcm == Append(dcd.pcm, PcmPatch(Unit))
<1>1. UnitIs("pcm")
  BY DEF DecodePcm
<1>2. /\ Rebuilding /\ i \in Count(f) + 1 .. NumUnits(f) - 1 /\ Unit \in UnitType
  BY <1>1, UnitIsFacts
<1>3. f \in 1 .. Len(src) /\ dcd \in DcdSet
  BY <1>2, RebuildingFacts
<1>4. /\ Count(f) \in Nat /\ NumMatched(f) \in Nat /\ NumMatched(f) <= Count(f)
      /\ NumUnits(f) \in Nat
  BY <1>3, FrameFacts DEF Inv
<1>5. dcd.pcm \in Seq(Missed) /\ i \in Nat \ {0}
  BY <1>3 DEF DcdSet
<1>6. pcm \in Seq(Missed)
  BY <1>2, <1>5, DecodedTypes, AppendProperties
<1>7. /\ dcd' = [dcd EXCEPT !.pcm = pcm, !.pos = i + 1]
      /\ UNCHANGED <<src, pdg, enc, sent, rcvd, lost, dec>>
  BY DEF DecodePcm
<1> HIDE DEF pcm
<1>8. /\ dcd' \in DcdSet /\ dcd'.patches = dcd.patches /\ dcd'.match = dcd.match
      /\ dcd'.pos = i + 1
  <2> DEFINE d1 == [dcd EXCEPT !.pcm = pcm]
             pos == i + 1
  <2>1. dcd' = [d1 EXCEPT !.pos = pos]
    BY <1>7
  <2>2. d1 \in DcdSet /\ d1.patches = dcd.patches /\ d1.match = dcd.match
    BY <1>3, <1>6 DEF DcdSet
  <2>3. pos \in Nat \ {0}
    BY <1>5
  <2> HIDE DEF d1, pos
  <2> QED
    BY <2>1, <2>2, <2>3 DEF DcdSet, pos
<1>9. MatchedUpTo(dcd, f, Count(f))
  <2>1. (IF i - 1 <= Count(f) THEN i - 1 ELSE Count(f)) = Count(f)
    BY <1>2, <1>4
  <2> QED
    BY <2>1, <1>2 DEF Inv, DcdOK
<1>10. MatchedUpTo(dcd', f, Count(f))
  BY <1>8, <1>9 DEF MatchedUpTo
<1>11. ~(i <= Count(f)) /\ ~(i <= NumMatched(f)) /\ i < NumUnits(f)
  BY <1>2, <1>4
<1> QED
  BY <1>2, <1>7, <1>8, <1>10, <1>11, DecodeStep

\* A unit of unknown mode keeps the invariant: it comes after the patches.
LEMMA DecodeUnknownInv == Inv /\ DecodeUnknown => Inv'
<1> SUFFICES ASSUME Inv, DecodeUnknown PROVE Inv'
  OBVIOUS
<1> DEFINE f == Len(dec) + 1
           i == dcd.pos
           patches == Append(dcd.patches, DefaultPatch)
           match == Append(dcd.match, 0)
<1>1. UnitIs("none")
  BY DEF DecodeUnknown
<1>2. /\ Rebuilding /\ i \in Count(f) + 1 .. NumUnits(f) - 1
  BY <1>1, UnitIsFacts
<1>3. f \in 1 .. Len(src) /\ dcd \in DcdSet
  BY <1>2, RebuildingFacts
<1>4. /\ Count(f) \in Nat /\ NumMatched(f) \in Nat /\ NumMatched(f) <= Count(f)
      /\ NumUnits(f) \in Nat
  BY <1>3, FrameFacts DEF Inv
<1>5. dcd.patches \in Seq(Patch) /\ dcd.match \in Seq(Int) /\ i \in Nat \ {0}
  BY <1>3 DEF DcdSet
<1>6. /\ patches \in Seq(Patch) /\ Len(patches) = Len(dcd.patches) + 1
      /\ match \in Seq(Int) /\ Len(match) = Len(dcd.match) + 1
      /\ \A j \in 1 .. Len(dcd.match) : match[j] = dcd.match[j]
  BY <1>5, DecodedTypes, AppendProperties
<1>7. /\ dcd' = [dcd EXCEPT !.patches = patches, !.match = match, !.pos = i + 1]
      /\ UNCHANGED <<src, pdg, enc, sent, rcvd, lost, dec>>
  BY DEF DecodeUnknown
<1> HIDE DEF patches, match
<1>8. /\ dcd' \in DcdSet /\ dcd'.patches = patches /\ dcd'.match = match
      /\ dcd'.pos = i + 1
  <2> DEFINE d1 == [dcd EXCEPT !.patches = patches]
             d2 == [d1 EXCEPT !.match = match]
             pos == i + 1
  <2>1. dcd' = [d2 EXCEPT !.pos = pos]
    BY <1>7
  <2>2. d1 \in DcdSet /\ d1.patches = patches
    BY <1>3, <1>6 DEF DcdSet
  <2>3. pos \in Nat \ {0}
    BY <1>5
  <2> HIDE DEF d1, pos
  <2>4. d2 \in DcdSet /\ d2.patches = patches /\ d2.match = match
    BY <1>6, <2>2 DEF DcdSet
  <2> HIDE DEF d2
  <2> QED
    BY <2>1, <2>4, <2>3 DEF DcdSet, pos
<1>9. MatchedUpTo(dcd, f, Count(f))
  <2>1. (IF i - 1 <= Count(f) THEN i - 1 ELSE Count(f)) = Count(f)
    BY <1>2, <1>4
  <2> QED
    BY <2>1, <1>2 DEF Inv, DcdOK
<1>10. MatchedUpTo(dcd', f, Count(f))
  <2> DEFINE n == Len(dcd.patches)
             m == Len(dcd.match)
  <2>1. n \in Nat /\ m = n /\ n >= Count(f)
    BY <1>5, <1>9, LenProperties DEF MatchedUpTo
  <2>2. Len(dcd'.patches) = n + 1 /\ Len(dcd'.match) = m + 1
    BY <1>6, <1>8
  <2>3. \A j \in 1 .. m : match[j] = dcd.match[j]
    BY <1>6
  <2> HIDE DEF n, m
  <2>4. \A j \in 1 .. Count(f) : j <= NumMatched(f) => match[j] = src[f].match[j]
    BY <1>4, <1>9, <2>1, <2>3 DEF MatchedUpTo
  <2> QED
    BY <1>4, <1>8, <2>1, <2>2, <2>4 DEF MatchedUpTo
<1>11. ~(i <= Count(f)) /\ ~(i <= NumMatched(f)) /\ i < NumUnits(f)
  BY <1>2, <1>4
<1> QED
  BY <1>2, <1>7, <1>8, <1>10, <1>11, DecodeStep

\* Ending a rebuilt frame keeps the invariant.
LEMMA DecodeEndInv == Inv /\ DecodeEnd => Inv'
<1> SUFFICES ASSUME Inv, DecodeEnd PROVE Inv'
  OBVIOUS
<1> DEFINE f == Len(dec) + 1
           i == dcd.pos
           frame == [patches |-> dcd.patches, match |-> dcd.match, pcm |-> dcd.pcm]
<1>1. /\ Rebuilding /\ i > Len(Group.pids)
      /\ dec' = Append(dec, frame) /\ dcd' = DecStart
      /\ UNCHANGED <<src, pdg, enc, sent, rcvd, lost>>
  BY DEF DecodeEnd
<1>2. /\ f \in 1 .. Len(src) /\ Len(src) = NumFrames /\ Len(rcvd) = NumFrames
      /\ lost = FALSE /\ dcd \in DcdSet /\ dec \in Seq(DecFrame) /\ Len(dec) \in Nat
      /\ i \in 1 .. NumUnits(f) /\ Len(Group.pids) = NumUnits(f) - 1
  BY <1>1, RebuildingFacts
<1>3. /\ Count(f) \in Nat /\ NumUnits(f) \in Nat /\ NumUnits(f) > Count(f)
  BY <1>2, FrameFacts DEF Inv
<1>4. MatchedUpTo(dcd, f, Count(f))
  <2>1. i = NumUnits(f)
    BY <1>1, <1>2, <1>3
  <2>2. (IF i - 1 <= Count(f) THEN i - 1 ELSE Count(f)) = Count(f)
    BY <2>1, <1>3
  <2> QED
    BY <2>2, <1>1 DEF Inv, DcdOK
<1>5. frame \in DecFrame /\ MatchedUpTo(frame, f, Count(f))
  BY <1>2, <1>4 DEF DcdSet, DecFrame, MatchedUpTo
<1> HIDE DEF frame
<1>6. /\ dec' \in Seq(DecFrame) /\ Len(dec') = f
      /\ \A g \in 1 .. Len(dec) : dec'[g] = dec[g]
      /\ dec'[f] = frame
  BY <1>1, <1>2, <1>5, AppendProperties
<1>7. DecOK'
  <2>1. \A g \in 1 .. f : MatchedUpTo(dec'[g], g, Count(g))
    <3> SUFFICES ASSUME NEW g \in 1 .. f PROVE MatchedUpTo(dec'[g], g, Count(g))
      OBVIOUS
    <3>1. CASE g = f
      BY <3>1, <1>5, <1>6
    <3>2. CASE g # f
      <4>1. g \in 1 .. Len(dec) /\ dec'[g] = dec[g]
        BY <3>2, <1>2, <1>6
      <4> QED
        BY <4>1 DEF Inv, DecOK
    <3> QED
      BY <3>1, <3>2
  <2>2. Len(dec') <= NumFrames /\ Len(rcvd') = NumFrames
    BY <1>1, <1>2, <1>6 DEF Rebuilding
  <2>3. \A g \in 1 .. Len(dec') : MatchedUpTo(dec[g], g, Count(g))'
    BY <1>1, <1>6, <2>1, Static DEF MatchedUpTo
  <2> QED
    BY <1>6, <2>2, <2>3 DEF DecOK
<1>8. DcdOK'
  <2>1. dcd' = DecStart /\ DecStart \in DcdSet
    BY <1>1, EmptySeq DEF DecStart, DcdSet
  <2>2. ASSUME Rebuilding'
        PROVE  /\ 0 < NumUnits(Len(dec) + 1)'
               /\ MatchedUpTo(dcd, Len(dec) + 1, 0)'
               /\ PredAfter(Len(dec) + 1, 0)' = 0
               /\ Count(Len(dec) + 1)' \in Nat
    <3>1. PICK g \in 1 .. Len(src) : g = (Len(dec) + 1)'
      BY <1>2, <1>6, <2>2, FrameAssumption DEF Rebuilding
    <3>2. NumUnits(g) \in Nat /\ NumUnits(g) > Count(g) /\ Count(g) \in Nat
      BY FrameFacts DEF Inv
    <3>3. PredAfter(g, 0) = 0 /\ MatchedUpTo(DecStart, g, 0)
      BY DEF PredAfter, MatchedUpTo, DecStart
    <3>4. /\ NumUnits(g)' = NumUnits(g) /\ PredAfter(g, 0)' = PredAfter(g, 0)
          /\ Count(g)' = Count(g) /\ MatchedUpTo(dcd, g, 0)'
      BY <1>1, <3>3, Static DEF MatchedUpTo
    <3>5. /\ 0 < NumUnits(g)' /\ PredAfter(g, 0)' = 0 /\ Count(g)' \in Nat
      BY <3>2, <3>3, <3>4
    <3> QED
      BY <3>1, <3>4, <3>5
  <2>3. DecStart.pos - 1 = 0 /\ DecStart.pred = 0 /\ Len(DecStart.patches) = 0
    BY DEF DecStart
  <2>4. dcd'.pos - 1 = 0 /\ dcd'.pred = 0 /\ Len(dcd'.patches) = 0
    BY <2>1, <2>3
  <2> QED
    BY <2>1, <2>2, <2>4 DEF DcdOK
<1>9. LostOK' /\ PackFirst'
  <2>1. lost' = FALSE /\ ~(Len(src') < NumFrames)
    BY <1>1, <1>2, FrameAssumption
  <2> QED
    BY <2>1 DEF LostOK, PackFirst
<1> QED
  BY <1>1, <1>7, <1>8, <1>9, Untouched DEF Inv
-----------------------------------------------------------------------------
(***************************************************************************)
(* The invariant holds, and what follows from it.                          *)
(***************************************************************************)
LEMMA NextInv == Inv /\ [Next]_vars => Inv'
<1> SUFFICES ASSUME Inv, [Next]_vars PROVE Inv'
  OBVIOUS
<1>1. CASE Pack
  BY <1>1, PackInv
<1>2. CASE Encode
  BY <1>2, BuildInterInv, BuildIntraInv, BuildPcmInv, BuildEndInv DEF Encode
<1>3. CASE Transmit
  BY <1>3, WriteGroupInv, ParseGroupInv DEF Transmit
<1>4. CASE Decode
  BY <1>4, DecodeIntraInv, DecodeInterInv, DecodePcmInv, DecodeUnknownInv,
     DecodeEndInv DEF Decode
<1>5. CASE UNCHANGED vars
  <2>1. PackFirst'
    BY <1>5 DEF vars, Inv, PackFirst
  <2> QED
    BY <1>5, <2>1, Untouched DEF Inv, vars
<1> QED
  BY <1>1, <1>2, <1>3, <1>4, <1>5 DEF Next, Terminated

\* The tile groups built, written and parsed, and the predictors of both
\* createPatchFrameDataStructure, are at every step those the packed frames
\* determine.
THEOREM InvHolds == Spec => []Inv
<1>1. Init => Inv
  BY InitInv
<1>2. Inv /\ [Next]_vars => Inv'
  BY NextInv
<1> QED
  BY <1>1, <1>2, PTL DEF Spec

\* The shape of the state of both programs is kept by every handler, whatever
\* is packed and whether or not the decoder can follow.
THEOREM TypeCorrect == Spec => []TypeOK
<1>1. Inv => TypeOK
  BY DEF Inv, TypeOK, SrcOK, SrcFrame, PdgOK, GroupSet, EncOK, SentOK, SentSet,
         RcvdOK, RcvdSet, LostOK, DecOK, DecFrame, DcdOK, DcdSet
<1> QED
  BY <1>1, InvHolds, PTL

\* The decoder predicts every inter patch from the patch of the previous
\* frame that the encoder predicted it from, also in groups in which
\* unknown patch types come between.
THEOREM SameReferenceHolds == Spec => []SameReference
<1>1. ASSUME Inv PROVE SameReference
  <2> SUFFICES ASSUME NEW f \in DOMAIN dec, NEW i \in 1 .. NumMatched(f)
               PROVE  dec[f].match[i] = src[f].match[i]
    BY DEF SameReference
  <2>1. f \in 1 .. Len(dec) /\ Len(dec) \in Nat /\ Len(dec) <= NumFrames
        /\ Len(rcvd) = NumFrames
    BY <1>1, LenProperties DEF Inv, DecOK
  <2>2. Len(src) = NumFrames
    BY <1>1, <2>1, LenProperties, FrameAssumption
    DEF Inv, PackFirst, SrcOK
  <2>3. f \in 1 .. Len(src)
    BY <2>1, <2>2
  <2>4. /\ NumMatched(f) \in Nat /\ Count(f) \in Nat /\ NumMatched(f) <= Count(f)
    BY <1>1, <2>3, FrameFacts DEF Inv
  <2>5. i \in 1 .. Count(f) /\ i <= NumMatched(f)
    BY <2>4
  <2> QED
    BY <1>1, <2>1, <2>5 DEF Inv, DecOK, MatchedUpTo
<1> QED
  BY <1>1, InvHolds, PTL

\* patchDataGroupHeader: whatever widths a P frame sends, the parser holds
\* the writer's widths of the positions; it can only lose its place after a
\* P frame that sends the width of the level of detail.
THEOREM LostOnlyByLodHolds == Spec => []LostOnlyByLod
<1>1. ASSUME Inv PROVE LostOnlyByLod
  <2>1. /\ DOMAIN rcvd = 1 .. Len(rcvd) /\ Len(rcvd) \in Nat
        /\ rcvd # <<>> => Len(rcvd) \in 1 .. Len(rcvd)
    BY <1>1, LenProperties DEF Inv, RcvdOK
  <2> QED
    BY <1>1, <2>1 DEF Inv, RcvdOK, LostOK, LostOnlyByLod
<1> QED
  BY <1>1, InvHolds, PTL

\* patchDataGroupHeader updates the header in place: the widths in force
\* never shrink from a frame to a P frame after it.
THEOREM WidthsOnlyGrowHolds == Spec => []WidthsOnlyGrow
<1>1. ASSUME Inv PROVE WidthsOnlyGrow
  <2> SUFFICES ASSUME NEW f \in DOMAIN sent, f > 1, sent[f].syntax.type = FrameP
               PROVE  /\ sent[f].header.u0 >= sent[f - 1].header.u0
                      /\ sent[f].header.lod >= sent[f - 1].header.lod
    BY DEF WidthsOnlyGrow
  <2>1. f \in 1 .. Len(sent) /\ Len(sent) \in Nat
    BY <1>1, LenProperties DEF Inv, SentOK
  <2>2. /\ sent[f].syntax = HeaderSyntax(FrameType(f), NeedOf(f), PrevHeader(f))
        /\ sent[f].header = HeaderInForce(FrameType(f), NeedOf(f), PrevHeader(f))
    BY <1>1, <2>1, SentFacts
  <2>3. FrameType(f) # FrameI
    BY <2>2 DEF HeaderSyntax, FrameI, FrameP
  <2>4. PrevHeader(f) = sent[f - 1].header /\ PrevHeader(f) \in Widths
    BY <1>1, <2>1, PrevHeaderType DEF PrevHeader, Header, Widths
  <2>5. NeedOf(f) \in Widths
    BY NeededHeaderType DEF NeedOf
  <2> QED
    BY <2>2, <2>3, <2>4, <2>5, HeaderCovers
<1> QED
  BY <1>1, InvHolds, PTL
-----------------------------------------------------------------------------
(***************************************************************************)
(* What is left of a frame whose missed points have no mode of its type.   *)
(***************************************************************************)
Unknown(f) == Kind(FrameType(f), PcmMode(f)) = "none"

\* The patches after k units: one for each, but a missed points patch makes a
\* patch only when its mode is unknown.
PatchesAfter(f, k) == IF k <= Count(f) \/ Unknown(f) THEN k ELSE Count(f)

InPlaceUpTo(frame, f, k) ==
  /\ Len(frame.patches) = PatchesAfter(f, k)
  /\ \A i \in 1 .. k : i <= Count(f) =>
       frame.patches[i].u0 = src[f].patches[i].u0

DecInPlace == \A f \in 1 .. Len(dec) : InPlaceUpTo(dec[f], f, NumUnits(f) - 1)
DcdInPlace == dcd # DecStart => InPlaceUpTo(dcd, Len(dec) + 1, dcd.pos - 1)
InPlace == DecInPlace /\ DcdInPlace

\* A missed points patch is without a mode only in a later I frame.
LEMMA UnknownFacts == \A f : Unknown(f) => f # 1 /\ FrameType(f) = FrameI
BY DEF Unknown, Kind, PcmMode, LateType, FrameType, FrameI, FrameP, I_PCM, P_PCM,
       I_INTRA, P_INTRA, P_INTER, I_END

\* The position of a patch is as wide as its field, whatever else is cut.
LEMMA PositionKept ==
  ASSUME Inv, NEW f \in 1 .. Len(sent), NEW i \in 1 .. Count(f)
  PROVE  sent[f].pids[i].u0 = UnitOf(f, i).u0
<1> DEFINE u == UnitOf(f, i)
           hdr == sent[f].header
           type == FrameType(f)
           free == FreePatches(f)
           pcm == Elems(src[f].pcm)
<1>1. /\ f \in 1 .. Len(src) /\ hdr \in Header
      /\ hdr = HeaderInForce(type, NeedOf(f), PrevHeader(f))
      /\ \A j \in 1 .. NumUnits(f) :
           sent[f].pids[j] = WrittenUnit(type, hdr, UnitOf(f, j))
  BY SentFacts
<1>2. /\ Count(f) \in Nat /\ NumMatched(f) \in Nat /\ NumMatched(f) <= Count(f)
      /\ NumUnits(f) \in Nat /\ Count(f) < NumUnits(f)
      /\ \A j \in 1 .. Count(f) : src[f].patches[j] \in PatchSet
  BY <1>1, FrameFacts DEF Inv
<1>3. i \in 1 .. NumUnits(f) /\ sent[f].pids[i] = WrittenUnit(type, hdr, u)
  BY <1>1, <1>2
<1>4. hdr.u0 \in Nat /\ hdr.lod \in Nat
  BY <1>1 DEF Header
<1>5. hdr.u0 >= NeededHeader(free, pcm).u0
  <2>1. NeedOf(f) \in Widths /\ NeedOf(f) = NeededHeader(free, pcm)
    BY NeededHeaderType DEF NeedOf
  <2>2. PrevHeader(f) \in Widths
    <3>1. Len(sent) \in Nat
      BY LenProperties DEF Inv, SentOK
    <3>2. f \in 1 .. Len(sent) + 1
      BY <3>1
    <3> QED
      BY <3>2, PrevHeaderType DEF Header, Widths
  <2> QED
    BY <1>1, <2>1, <2>2, HeaderCovers
<1>6. u \in UnitType
  BY <1>1, <1>3, UnitFacts DEF Inv
<1>7. CASE i \in 1 .. NumMatched(f)
  <2>1. Kind(type, u.mode) = "inter"
    BY <1>1, <1>3, <1>7, UnitFacts DEF Inv
  <2>2. WrittenUnit(type, hdr, u) = [u EXCEPT !.lod = 0]
    BY <2>1 DEF WrittenUnit
  <2> HIDE DEF u
  <2> QED
    BY <1>3, <1>6, <2>2 DEF UnitType, u
<1>8. CASE i \in NumMatched(f) + 1 .. Count(f)
  <2> DEFINE p == src[f].patches[i]
  <2>1. Kind(type, u.mode) = "intra" /\ ~(i <= NumMatched(f))
    BY <1>1, <1>2, <1>3, <1>8, UnitFacts DEF Inv
  <2>2. p \in PatchSet /\ p \in free
    BY <1>2, <1>8 DEF FreePatches
  <2>3. u.u0 = p.u0
    BY <2>1 DEF UnitOf, IntraUnit
  <2>4. p.u0 \in Nat /\ p.u0 < Pow2[MaxBits]
    BY <2>2, PatchFacts
  <2> DEFINE width == hdr.u0 + 1
  <2> HIDE DEF p, u, hdr, free, pcm
  <2>5. p.u0 < Pow2[width] /\ width \in Nat
    BY <1>4, <1>5, <2>2, <2>4, PositionFits
  <2> HIDE DEF width
  <2>6. Low(u.u0, width) = u.u0
    BY <2>3, <2>4, <2>5, LowExact
  <2>7. WrittenUnit(type, hdr, u).u0 = Low(u.u0, width)
    BY <1>6, <2>1 DEF WrittenUnit, UnitType, width
  <2> QED
    BY <1>3, <2>6, <2>7 DEF u, hdr
<1> QED
  BY <1>2, <1>7, <1>8

\* A step that decodes one more unit keeps the finished frames.
LEMMA InPlaceStep ==
  ASSUME Inv, InPlace, UNCHANGED <<src, pdg, enc, sent, rcvd, lost, dec>>,
         dcd'.pos - 1 = dcd.pos,
         InPlaceUpTo(dcd', Len(dec) + 1, dcd.pos)
  PROVE  InPlace'
<1>1. DecInPlace'
  BY Static DEF InPlace, DecInPlace, InPlaceUpTo, PatchesAfter, Unknown, PcmMode,
                LateType
<1>2. DcdInPlace'
  <2> DEFINE f == Len(dec) + 1
             i == dcd.pos
  <2>1. (Len(dec) + 1)' = f /\ dcd'.pos - 1 = i /\ InPlaceUpTo(dcd', f, i)
    OBVIOUS
  <2> HIDE DEF f, i
  <2> QED
    BY <2>1, Static DEF DcdInPlace, InPlaceUpTo, PatchesAfter, Unknown, PcmMode,
                        LateType
<1> QED
  BY <1>1, <1>2 DEF InPlace

\* What is decoded so far, when a unit is decoded.
LEMMA InPlaceSoFar ==
  ASSUME Inv, InPlace, Rebuilding
  PROVE  InPlaceUpTo(dcd, Len(dec) + 1, dcd.pos - 1)
<1>1. CASE dcd # DecStart
  BY <1>1 DEF InPlace, DcdInPlace
<1>2. CASE dcd = DecStart
  <2> DEFINE f == Len(dec) + 1
  <2>1. Count(f) \in Nat
    BY RebuildingFacts, FrameFacts DEF Inv
  <2>2. dcd.pos - 1 = 0 /\ Len(dcd.patches) = 0
    BY <1>2 DEF DecStart
  <2> HIDE DEF f
  <2>3. InPlaceUpTo(dcd, f, dcd.pos - 1)
    BY <2>1, <2>2 DEF InPlaceUpTo, PatchesAfter
  <2> QED
    BY <2>3 DEF f
<1> QED
  BY <1>1, <1>2

\* One more patch, at the place of the one that was packed.
LEMMA InPlaceAppend ==
  ASSUME NEW f, NEW i \in Nat \ {0}, NEW q, Count(f) \in Nat,
         InPlaceUpTo(dcd, f, i - 1), dcd.patches \in Seq(Patch), q \in Patch,
         i <= Count(f) \/ Unknown(f),
         i <= Count(f) => q.u0 = src[f].patches[i].u0,
         dcd'.patches = Append(dcd.patches, q)
  PROVE  InPlaceUpTo(dcd', f, i)
<1> DEFINE ps == Append(dcd.patches, q)
<1>1. Len(dcd.patches) = i - 1
  BY DEF InPlaceUpTo, PatchesAfter
<1>2. /\ Len(ps) = i /\ ps[i] = q
      /\ \A j \in 1 .. i - 1 : ps[j] = dcd.patches[j]
  BY <1>1, AppendProperties
<1> HIDE DEF ps
<1>3. ASSUME NEW j \in 1 .. i, j <= Count(f)
      PROVE  ps[j].u0 = src[f].patches[j].u0
  <2>1. CASE j = i
    BY <1>2, <1>3, <2>1
  <2>2. CASE j # i
    <3>1. j \in 1 .. i - 1
      BY <2>2
    <3> QED
      BY <3>1, <1>2, <1>3 DEF InPlaceUpTo
  <2> QED
    BY <2>1, <2>2
<1>4. dcd'.patches = ps /\ PatchesAfter(f, i) = i
  BY DEF ps, PatchesAfter
<1> QED
  BY <1>2, <1>3, <1>4 DEF InPlaceUpTo

\* An intra patch carries its position.
LEMMA InPlaceIntra == Inv /\ InPlace /\ DecodeIntra => InPlace'
<1> SUFFICES ASSUME Inv, InPlace, DecodeIntra PROVE InPlace'
  OBVIOUS
<1> DEFINE f == Len(dec) + 1
           i == dcd.pos
           q == IntraPatch(Unit, dcd.prev)
<1>1. UnitIs("intra")
  BY DEF DecodeIntra
<1>2. /\ Rebuilding /\ i \in NumMatched(f) + 1 .. Count(f)
      /\ Unit = sent[f].pids[i] /\ Unit \in UnitType
  BY <1>1, UnitIsFacts
<1>3. /\ f \in 1 .. Len(src) /\ f \in 1 .. Len(sent) /\ dcd \in DcdSet
  BY <1>2, RebuildingFacts
<1>4. Count(f) \in Nat /\ NumMatched(f) \in Nat
  BY <1>3, FrameFacts DEF Inv
<1>5. /\ i \in 1 .. Count(f) /\ i \in Nat \ {0} /\ i <= Count(f)
      /\ ~(i <= NumMatched(f))
  BY <1>2, <1>4
<1>6. InPlaceUpTo(dcd, f, i - 1)
  BY <1>2, InPlaceSoFar
<1>7. dcd.patches \in Seq(Patch) /\ dcd.prev \in Int
  BY <1>3 DEF DcdSet
<1>8. q \in Patch
  BY <1>2, <1>7, DecodedTypes
<1>9. q.u0 = src[f].patches[i].u0
  <2>1. Unit.u0 = UnitOf(f, i).u0
    BY <1>2, <1>3, <1>5, PositionKept
  <2>2. UnitOf(f, i).u0 = src[f].patches[i].u0
    BY <1>5 DEF UnitOf, IntraUnit
  <2> QED
    BY <2>1, <2>2 DEF IntraPatch
<1>10. /\ UNCHANGED <<src, pdg, enc, sent, rcvd, lost, dec>>
       /\ dcd'.patches = Append(dcd.patches, q) /\ dcd'.pos = i + 1
  BY <1>3 DEF DecodeIntra, DcdSet
<1> HIDE DEF f, q
<1>11. InPlaceUpTo(dcd', f, i)
  BY <1>4, <1>5, <1>6, <1>7, <1>8, <1>9, <1>10, InPlaceAppend
<1>12. dcd'.pos - 1 = i
  BY <1>5, <1>10
<1> QED
  BY <1>10, <1>11, <1>12, InPlaceStep DEF f

\* An inter patch takes its position from a reference that is in place.
LEMMA InPlaceInter == Inv /\ InPlace /\ DecodeInter => InPlace'
<1> SUFFICES ASSUME Inv, InPlace, DecodeInter PROVE InPlace'
  OBVIOUS
<1> DEFINE f == Len(dec) + 1
           i == dcd.pos
           best == Unit.idx + dcd.pred
           ref == dec[Len(dec)].patches[best + 1]
           q == InterPatch(Unit, ref)
<1>1. UnitIs("inter")
  BY DEF DecodeInter
<1>2. /\ Rebuilding /\ i \in 1 .. NumMatched(f)
      /\ Unit = sent[f].pids[i] /\ Unit \in UnitType
  BY <1>1, UnitIsFacts
<1>3. /\ f \in 1 .. Len(src) /\ f \in 1 .. Len(sent) /\ dcd \in DcdSet
      /\ dec \in Seq(DecFrame) /\ Len(dec) \in Nat
  BY <1>2, RebuildingFacts
<1>4. /\ Count(f) \in Nat /\ NumMatched(f) \in Nat /\ NumMatched(f) <= Count(f)
  BY <1>3, FrameFacts DEF Inv
<1>5. /\ i \in 1 .. Count(f) /\ i \in Nat \ {0} /\ i <= Count(f)
      /\ i <= NumMatched(f)
  BY <1>2, <1>4
<1>6. InPlaceUpTo(dcd, f, i - 1)
  BY <1>2, InPlaceSoFar
<1>7. dcd.patches \in Seq(Patch)
  BY <1>3 DEF DcdSet
<1>8. /\ f - 1 \in 1 .. Len(dec) /\ f - 1 = Len(dec)
      /\ best = src[f].match[i] /\ best \in 0 .. Count(f - 1) - 1
      /\ f - 1 \in 1 .. Len(src)
  BY <1>1, <1>3, InterBest
<1>9. /\ Count(f - 1) \in Nat /\ NumUnits(f - 1) \in Nat
      /\ Count(f - 1) < NumUnits(f - 1)
      /\ \A j \in 1 .. Count(f - 1) : src[f - 1].patches[j] \in PatchSet
  BY <1>8, FrameFacts DEF Inv
<1>10. /\ ref \in Patch /\ ref.u0 = RefOf(f, i).u0 /\ RefOf(f, i) \in PatchSet
  <2> DEFINE g == f - 1
             n == Len(dec[g].patches)
             j == best + 1
  <2>1. dec[g] \in DecFrame /\ MatchedUpTo(dec[g], g, Count(g))
    BY <1>3, <1>8, ElementOfSeq DEF Inv, DecOK
  <2>2. dec[g].patches \in Seq(Patch) /\ n \in Nat /\ n >= Count(g)
    BY <2>1, LenProperties DEF DecFrame, MatchedUpTo
  <2>3. InPlaceUpTo(dec[g], g, NumUnits(g) - 1)
    BY <1>8 DEF InPlace, DecInPlace
  <2>4. ref = dec[g].patches[j] /\ RefOf(f, i) = src[g].patches[j]
    BY <1>8 DEF RefOf
  <2>7. g \in 1 .. Len(dec) /\ best \in 0 .. Count(g) - 1
    BY <1>8
  <2>8. /\ Count(g) \in Nat /\ NumUnits(g) \in Nat /\ Count(g) < NumUnits(g)
        /\ \A k \in 1 .. Count(g) : src[g].patches[k] \in PatchSet
    BY <1>9
  <2> HIDE DEF n, g, f, i, best, ref
  <2>5. j \in 1 .. n /\ j \in 1 .. Count(g) /\ j \in 1 .. NumUnits(g) - 1
    BY <2>2, <2>7, <2>8
  <2>6. dec[g].patches[j] \in Patch
    BY <2>2, <2>5, ElementOfSeq DEF n
  <2>9. dec[g].patches[j].u0 = src[g].patches[j].u0 /\ src[g].patches[j] \in PatchSet
    BY <2>3, <2>5, <2>8 DEF InPlaceUpTo
  <2> QED
    BY <2>4, <2>6, <2>9 DEF f, i
<1> HIDE DEF ref, best
<1>11. q \in Patch
  BY <1>2, <1>10, DecodedTypes
<1>12. q.u0 = src[f].patches[i].u0
  <2>1. Unit.u0 = UnitOf(f, i).u0
    BY <1>2, <1>3, <1>5, PositionKept
  <2>2. UnitOf(f, i).u0 = src[f].patches[i].u0 - RefOf(f, i).u0
    BY <1>5 DEF UnitOf, InterUnit
  <2>3. src[f].patches[i].u0 \in Nat /\ RefOf(f, i).u0 \in Nat
    BY <1>3, <1>5, <1>10, FrameFacts, PatchFacts DEF Inv
  <2>4. q.u0 = Unit.u0 + ref.u0
    BY DEF InterPatch
  <2> QED
    BY <1>10, <2>1, <2>2, <2>3, <2>4
<1>13. /\ UNCHANGED <<src, pdg, enc, sent, rcvd, lost, dec>>
       /\ dcd'.patches = Append(dcd.patches, q) /\ dcd'.pos = i + 1
  BY <1>3 DEF DecodeInter, DcdSet, ref, best
<1> HIDE DEF f, q
<1>14. InPlaceUpTo(dcd', f, i)
  BY <1>4, <1>5, <1>6, <1>7, <1>11, <1>12, <1>13, InPlaceAppend
<1>15. dcd'.pos - 1 = i
  BY <1>5, <1>13
<1> QED
  BY <1>13, <1>14, <1>15, InPlaceStep DEF f

\* The mode of a unit after the patches.
LEMMA LateUnit ==
  ASSUME Inv, NEW kind \in {"pcm", "none"}, UnitIs(kind)
  PROVE  LET f == Len(dec) + 1
         IN  (kind = "none") <=> Unknown(f)
<1> DEFINE f == Len(dec) + 1
           i == dcd.pos
<1>1. /\ Rebuilding /\ i \in Count(f) + 1 .. NumUnits(f) - 1
      /\ Unit = sent[f].pids[i]
  BY UnitIsFacts
<1>2. /\ f \in 1 .. Len(src) /\ f \in 1 .. Len(sent) /\ Group.type = FrameType(f)
  BY <1>1, RebuildingFacts
<1>3. /\ Count(f) \in Nat /\ NumMatched(f) \in Nat /\ NumMatched(f) <= Count(f)
      /\ NumUnits(f) \in Nat
  BY <1>2, FrameFacts DEF Inv
<1>4. /\ ~(i <= NumMatched(f)) /\ ~(i <= Count(f)) /\ i < NumUnits(f)
      /\ i \in 1 .. NumUnits(f)
  BY <1>1, <1>3
<1>5. UnitOf(f, i).mode = PcmMode(f)
  BY <1>4 DEF UnitOf, PcmUnit
<1>6. Unit.mode = PcmMode(f)
  BY <1>1, <1>2, <1>4, <1>5, SentFacts
<1> QED
  BY <1>2, <1>6 DEF UnitIs, Unknown

\* A missed points patch is no patch.
LEMMA InPlacePcm == Inv /\ InPlace /\ DecodePcm => InPlace'
<1> SUFFICES ASSUME Inv, InPlace, DecodePcm PROVE InPlace'
  OBVIOUS
<1> DEFINE f == Len(dec) + 1
           i == dcd.pos
<1>1. UnitIs("pcm")
  BY DEF DecodePcm
<1>2. /\ Rebuilding /\ i \in Count(f) + 1 .. NumUnits(f) - 1
  BY <1>1, UnitIsFacts
<1>3. /\ f \in 1 .. Len(src) /\ dcd \in DcdSet
  BY <1>2, RebuildingFacts
<1>4. Count(f) \in Nat
  BY <1>3, FrameFacts DEF Inv
<1>5. InPlaceUpTo(dcd, f, i - 1) /\ ~Unknown(f)
  BY <1>1, <1>2, InPlaceSoFar, LateUnit
<1>6. /\ UNCHANGED <<src, pdg, enc, sent, rcvd, lost, dec>>
      /\ dcd'.patches = dcd.patches /\ dcd'.pos = i + 1
  BY <1>3 DEF DecodePcm, DcdSet
<1> HIDE DEF f
<1>7. i \in Nat /\ i > Count(f)
  BY <1>2, <1>4
<1>8. PatchesAfter(f, i - 1) = Count(f) /\ PatchesAfter(f, i) = Count(f)
  BY <1>4, <1>5, <1>7 DEF PatchesAfter
<1>9. InPlaceUpTo(dcd', f, i)
  BY <1>4, <1>5, <1>6, <1>7, <1>8 DEF InPlaceUpTo
<1>10. dcd'.pos - 1 = i
  BY <1>6, <1>7
<1> QED
  BY <1>6, <1>9, <1>10, InPlaceStep DEF f

\* A missed points patch of unknown mode comes behind the patches.
LEMMA InPlaceUnknown == Inv /\ InPlace /\ DecodeUnknown => InPlace'
<1> SUFFICES ASSUME Inv, InPlace, DecodeUnknown PROVE InPlace'
  OBVIOUS
<1> DEFINE f == Len(dec) + 1
           i == dcd.pos
<1>1. UnitIs("none")
  BY DEF DecodeUnknown
<1>2. /\ Rebuilding /\ i \in Count(f) + 1 .. NumUnits(f) - 1
  BY <1>1, UnitIsFacts
<1>3. /\ f \in 1 .. Len(src) /\ dcd \in DcdSet
  BY <1>2, RebuildingFacts
<1>4. Count(f) \in Nat
  BY <1>3, FrameFacts DEF Inv
<1>5. InPlaceUpTo(dcd, f, i - 1) /\ Unknown(f)
  BY <1>1, <1>2, InPlaceSoFar, LateUnit
<1>6. /\ UNCHANGED <<src, pdg, enc, sent, rcvd, lost, dec>>
      /\ dcd'.patches = Append(dcd.patches, DefaultPatch) /\ dcd'.pos = i + 1
  BY <1>3 DEF DecodeUnknown, DcdSet
<1>7. dcd.patches \in Seq(Patch) /\ DefaultPatch \in Patch
  BY <1>3, DecodedTypes DEF DcdSet
<1> HIDE DEF f
<1>8. i \in Nat \ {0} /\ ~(i <= Count(f))
  BY <1>2, <1>4
<1>9. InPlaceUpTo(dcd', f, i)
  BY <1>4, <1>5, <1>6, <1>7, <1>8, InPlaceAppend
<1>10. dcd'.pos - 1 = i
  BY <1>6, <1>8
<1> QED
  BY <1>6, <1>9, <1>10, InPlaceStep DEF f

\* A finished frame is kept as it was decoded.
LEMMA InPlaceEnd == Inv /\ InPlace /\ DecodeEnd => InPlace'
<1> SUFFICES ASSUME Inv, InPlace, DecodeEnd PROVE InPlace'
  OBVIOUS
<1> DEFINE f == Len(dec) + 1
           i == dcd.pos
           frame == [patches |-> dcd.patches, match |-> dcd.match, pcm |-> dcd.pcm]
<1>1. /\ Rebuilding /\ i > Len(Group.pids)
      /\ dec' = Append(dec, frame) /\ dcd' = DecStart
      /\ UNCHANGED <<src, pdg, enc, sent, rcvd, lost>>
  BY DEF DecodeEnd
<1>2. /\ f \in 1 .. Len(src) /\ dcd \in DcdSet /\ dec \in Seq(DecFrame)
      /\ Len(dec) \in Nat /\ i \in 1 .. NumUnits(f)
      /\ Len(Group.pids) = NumUnits(f) - 1
  BY <1>1, RebuildingFacts
<1>3. NumUnits(f) \in Nat
  BY <1>2, FrameFacts DEF Inv
<1>4. i - 1 = NumUnits(f) - 1
  BY <1>1, <1>2, <1>3
<1>5. InPlaceUpTo(dcd, f, NumUnits(f) - 1)
  BY <1>1, <1>4, InPlaceSoFar
<1>6. frame \in DecFrame /\ InPlaceUpTo(frame, f, NumUnits(f) - 1)
  BY <1>2, <1>5 DEF DcdSet, DecFrame, InPlaceUpTo
<1> HIDE DEF frame
<1>7. /\ Len(dec') = f /\ dec'[f] = frame
      /\ \A g \in 1 .. Len(dec) : dec'[g] = dec[g]
  BY <1>1, <1>2, <1>6, AppendProperties
<1>8. ASSUME NEW g \in 1 .. f PROVE InPlaceUpTo(dec'[g], g, NumUnits(g) - 1)
  <2>1. CASE g = f
    BY <2>1, <1>6, <1>7
  <2>2. CASE g # f
    <3>1. g \in 1 .. Len(dec) /\ dec'[g] = dec[g]
      BY <2>2, <1>2, <1>7
    <3> QED
      BY <3>1 DEF InPlace, DecInPlace
  <2> QED
    BY <2>1, <2>2
<1>9. DecInPlace'
  <2> HIDE DEF f
  <2> QED
    BY <1>1, <1>7, <1>8, Static DEF DecInPlace, InPlaceUpTo, PatchesAfter, Unknown,
                                    PcmMode, LateType
<1> QED
  BY <1>1, <1>9 DEF InPlace, DcdInPlace

\* Steps of the encoder and the bitstream touch no decoded frame, and the
\* frames are packed before any is decoded.
LEMMA InPlaceBefore ==
  Inv /\ InPlace /\ (Pack \/ Encode \/ Transmit) => InPlace'
<1> SUFFICES ASSUME Inv, InPlace, Pack \/ Encode \/ Transmit PROVE InPlace'
  OBVIOUS
<1>1. UNCHANGED <<dec, dcd>>
  BY DEF Pack, PackFrame, Encode, BuildInter, BuildIntra, BuildPcm, BuildEnd,
         Transmit, WriteGroup, ParseGroup
<1>2. CASE src' = src
  BY <1>1, <1>2, Static DEF InPlace, DecInPlace, DcdInPlace, InPlaceUpTo,
     PatchesAfter, Unknown, PcmMode, LateType
<1>3. CASE src' # src
  <2>1. Pack
    BY <1>3 DEF Encode, BuildInter, BuildIntra, BuildPcm, BuildEnd, Transmit,
                WriteGroup, ParseGroup
  <2>2. Len(src) < NumFrames
    BY <2>1 DEF Pack, PackFrame
  <2>3. Len(dec') = 0 /\ dcd' = DecStart
    BY <1>1, <2>2 DEF Inv, PackFirst
  <2> QED
    BY <2>3 DEF InPlace, DecInPlace, DcdInPlace
<1> QED
  BY <1>2, <1>3

LEMMA InPlaceNext == Inv /\ InPlace /\ [Next]_vars => InPlace'
<1> SUFFICES ASSUME Inv, InPlace, [Next]_vars PROVE InPlace'
  OBVIOUS
<1>1. CASE Pack \/ Encode \/ Transmit
  BY <1>1, InPlaceBefore
<1>2. CASE Decode
  BY <1>2, InPlaceIntra, InPlaceInter, InPlacePcm, InPlaceUnknown, InPlaceEnd
  DEF Decode
<1>3. CASE UNCHANGED vars
  BY <1>3, Static DEF vars, InPlace, DecInPlace, DcdInPlace, InPlaceUpTo,
     PatchesAfter, Unknown, PcmMode, LateType
<1> QED
  BY <1>1, <1>2, <1>3 DEF Next, Terminated

\* createPatchFrameDataStructure of both sides, with any patches and options,
\* also when depths or levels of detail are lost: the decoder has every patch
\* at its place, and what it cannot name are missed points of an I frame that
\* is not the first.
THEOREM UnknownOnlyMissedHolds == Spec => []UnknownOnlyMissed
<1>1. Init => InPlace
  BY DEF Init, InPlace, DecInPlace, DcdInPlace
<1>2. Inv /\ InPlace /\ [Next]_vars => InPlace'
  BY InPlaceNext
<1>3. ASSUME Inv, InPlace PROVE UnknownOnlyMissed
  <2>1. /\ dec \in Seq(DecFrame) /\ Len(dec) \in Nat /\ Len(dec) <= NumFrames
        /\ dec # <<>> => Len(rcvd) = NumFrames
    BY <1>3, LenProperties DEF Inv, DecOK
  <2> SUFFICES ASSUME NEW f \in DOMAIN dec
               PROVE  LET n == Len(src[f].patches)
                      IN  \/ Len(dec[f].patches) = n
                          \/ /\ f > 1 /\ FrameType(f) = FrameI
                             /\ Len(dec[f].patches) = n + Len(src[f].pcm)
                             /\ \A i \in 1 .. n :
                                  dec[f].patches[i].u0 = src[f].patches[i].u0
    BY DEF UnknownOnlyMissed
  <2>2. f \in 1 .. Len(dec)
    BY <2>1, LenProperties
  <2>3. f \in 1 .. Len(src)
    <3>1. Len(rcvd) = NumFrames
      BY <2>1, <2>2
    <3>2. Len(src) \in Nat /\ ~(Len(src) < NumFrames)
      BY <1>3, <3>1, LenProperties, FrameAssumption DEF Inv, PackFirst, SrcOK
    <3> QED
      BY <2>1, <2>2, <3>2, FrameAssumption
  <2>4. /\ Count(f) \in Nat \ {0} /\ Len(src[f].pcm) \in Nat
    BY <1>3, <2>3, FrameFacts DEF Inv
  <2>5. InPlaceUpTo(dec[f], f, Count(f) + Len(src[f].pcm))
    <3>1. InPlaceUpTo(dec[f], f, NumUnits(f) - 1)
      BY <1>3, <2>2 DEF InPlace, DecInPlace
    <3>2. NumUnits(f) - 1 = Count(f) + Len(src[f].pcm)
      BY <2>4 DEF NumUnits
    <3> QED
      BY <3>1, <3>2
  <2> DEFINE c == Count(f)
             m == Len(src[f].pcm)
  <2>6. /\ Len(dec[f].patches) = IF c + m <= c \/ Unknown(f) THEN c + m ELSE c
        /\ \A i \in 1 .. c + m : i <= c =>
             dec[f].patches[i].u0 = src[f].patches[i].u0
    BY <2>5 DEF InPlaceUpTo, PatchesAfter
  <2>7. Unknown(f) => f > 1 /\ FrameType(f) = FrameI
    BY <2>3, UnknownFacts
  <2>8. c \in Nat /\ m \in Nat
    BY <2>4
  <2>9. \A i \in 1 .. c : dec[f].patches[i].u0 = src[f].patches[i].u0
    BY <2>6, <2>8
  <2>10. Len(src[f].patches) = c
    BY DEF Count
  <2> HIDE DEF c, m
  <2>11. Len(dec[f].patches) = c \/ (Unknown(f) /\ Len(dec[f].patches) = c + m)
    BY <2>6, <2>8
  <2> QED
    BY <2>7, <2>9, <2>10, <2>11 DEF m
<1> QED
  BY <1>1, <1>2, <1>3, InvHolds, PTL DEF Spec

-----------------------------------------------------------------------------
(***************************************************************************)
(* When the codec is exact.  Each condition below is about the options and *)
(* the patches; where one of them does not hold, a run finds a group that  *)
(* the decoder does not rebuild.                                           *)
(***************************************************************************)
\* All patches have one level of detail, so that no P frame sends a wider one.
UniformLod == \A p, q \in PatchSet : p.lod = q.lod

\* No missed points patch in an I frame after the first: there are none, or
\* no frame is predicted, or every later frame has a match.
PcmModesAgree == PcmSet = {} \/ ~InterPred \/ (Constrained /\ ~SceneCuts)

\* The largest coded depth is below the coordinate range.
FieldsWide ==
  /\ MinLevel > IF Plane45 THEN 2 ELSE 1
  /\ MaxAllowedDepth < Max3D

\* No far plane is coded with the doubled axis.
AxisAgrees == \A p \in PatchSet : FromNear(p.plane) \/ ~Plane45

\* A patch is projected from the side its view tells.
ModesFromView ==
  AbsoluteD1 \/ ~InterPred \/
    \A p, q \in PatchSet : p.plane % 3 = q.plane % 3 => p.plane = q.plane

-----------------------------------------------------------------------------
(***************************************************************************)
(* The parser stays in step.                                               *)
(***************************************************************************)
LodBits == BitsFor({p.lod : p \in PatchSet})

LodInStep ==
  \A f \in 1 .. Len(sent) :
    /\ sent[f].header.lod = LodBits
    /\ sent[f].syntax.type = FrameP => ~sent[f].syntax.flags.lod

\* An I frame needs the one width all patches need; a P frame, in which every
\* patch may be matched, needs no more.
LEMMA NeedLod ==
  ASSUME UniformLod, SrcOK, NEW f \in 1 .. Len(src)
  PROVE  /\ NeedOf(f) \in Widths /\ LodBits \in Nat
         /\ NeedOf(f).lod <= LodBits
         /\ FrameType(f) = FrameI => NeedOf(f).lod = LodBits
<1> DEFINE lods == {p.lod : p \in FreePatches(f)}
           all == {p.lod : p \in PatchSet}
<1>1. NeedOf(f) \in Widths /\ LodBits \in Nat
  BY NeededHeaderType, BitsOfFinite DEF NeedOf, LodBits
<1>2. NeedOf(f).lod = BitsFor(lods)
  BY DEF NeedOf, NeededHeader
<1>3. /\ Count(f) \in Nat \ {0} /\ NumMatched(f) \in Nat
      /\ FrameType(f) = FrameI => NumMatched(f) = 0
      /\ \A i \in 1 .. Count(f) : src[f].patches[i] \in PatchSet
  BY FrameFacts
<1>4. FreePatches(f) \subseteq PatchSet
  BY <1>3 DEF FreePatches
<1>5. lods \subseteq all
  BY <1>4
<1>6. FrameType(f) = FrameI => lods = all
  <2> SUFFICES ASSUME FrameType(f) = FrameI PROVE all \subseteq lods
    BY <1>5
  <2>1. 1 \in NumMatched(f) + 1 .. Count(f)
    BY <1>3
  <2>2. src[f].patches[1] \in FreePatches(f)
    BY <2>1 DEF FreePatches
  <2> QED
    BY <2>2, <1>4 DEF UniformLod
<1> HIDE DEF lods, all
<1> QED
  BY <1>1, <1>2, <1>5, <1>6, BitsForMonotone DEF LodBits, all

\* A P frame that needs no wider level of detail leaves the width as it is.
LEMMA NotWidened ==
  ASSUME NEW type, type # FrameI, NEW need, NEW prev, ~(need.lod > prev.lod)
  PROVE  /\ ~HeaderSyntax(type, need, prev).flags.lod
         /\ HeaderInForce(type, need, prev).lod = prev.lod
<1> DEFINE flags == GrowFlags(need, prev)
           wider == need.lod > prev.lod
<1>1. flags = [u0 |-> need.u0 > prev.u0, lod |-> wider]
  BY DEF GrowFlags
<1>5. ~wider
  OBVIOUS
<1> HIDE DEF wider, flags
<1>2. flags.lod = wider
  BY <1>1, Zenon
<1> USE DEF flags
<1>3. HeaderSyntax(type, need, prev).flags = flags
  BY DEF HeaderSyntax
<1>4. HeaderInForce(type, need, prev).lod = IF flags.lod THEN need.lod ELSE prev.lod
  BY DEF HeaderInForce
<1> QED
  BY <1>2, <1>3, <1>4, <1>5, Zenon

\* Once all widths are the one width, a P frame does not send it again.
LEMMA LodStays == ASSUME UniformLod, Inv PROVE LodInStep
<1> DEFINE Good(f) == /\ sent[f].header.lod = LodBits
                      /\ sent[f].syntax.type = FrameP => ~sent[f].syntax.flags.lod
           S == {n \in Nat : n \in 1 .. Len(sent) => Good(n)}
<1>1. Len(sent) \in Nat
  BY LenProperties DEF Inv, SentOK
<1>2. ASSUME NEW n \in S PROVE n + 1 \in S
  <2> SUFFICES ASSUME n + 1 \in 1 .. Len(sent) PROVE Good(n + 1)
    OBVIOUS
  <2> DEFINE f == n + 1
             need == NeedOf(f)
             prev == PrevHeader(f)
  <2>1. /\ sent[f].syntax = HeaderSyntax(FrameType(f), need, prev)
        /\ sent[f].header = HeaderInForce(FrameType(f), need, prev)
        /\ f \in 1 .. Len(src)
    BY SentFacts
  <2>2. /\ need \in Widths /\ LodBits \in Nat /\ need.lod <= LodBits
        /\ FrameType(f) = FrameI => need.lod = LodBits
    BY <2>1, NeedLod DEF Inv
  <2>3. CASE FrameType(f) = FrameI
    BY <2>1, <2>2, <2>3 DEF HeaderSyntax, HeaderInForce, FrameI, FrameP
  <2>4. CASE FrameType(f) # FrameI
    <3>1. f # 1
      BY <2>4 DEF FrameType
    <3>2. n \in 1 .. Len(sent)
      BY <1>1, <3>1
    <3>3. prev.lod = LodBits
      BY <3>1, <3>2 DEF PrevHeader
    <3> HIDE DEF prev, need
    <3>4. ~(need.lod > prev.lod)
      BY <2>2, <3>3 DEF Widths
    <3> QED
      BY <2>1, <2>4, <3>3, <3>4, NotWidened
  <2> QED
    BY <2>3, <2>4
<1>3. S \in SUBSET Nat /\ 0 \in S
  OBVIOUS
<1> HIDE DEF S
<1>4. S = Nat
  BY <1>2, <1>3, SetInduction
<1>5. ASSUME NEW f \in 1 .. Len(sent) PROVE Good(f)
  BY <1>4, f \in S DEF S
<1> QED
  BY <1>5 DEF LodInStep

\* One level of detail: after every tile group the parser holds the writer's
\* widths, and it never leaves the bits that were written
\* (patchTileGroupHeader of both sides).
THEOREM InStep == ASSUME UniformLod PROVE Spec => [](SameHeader /\ BitAligned)
<1>1. ASSUME Inv PROVE SameHeader /\ BitAligned
  <2>1. LodInStep
    BY <1>1, LodStays
  <2>2. /\ rcvd \in Seq(RcvdSet) /\ Len(rcvd) \in Nat /\ Len(rcvd) <= NumFrames
        /\ rcvd # <<>> => Len(sent) = NumFrames
    BY <1>1, LenProperties DEF Inv, RcvdOK
  <2>3. ASSUME NEW f \in 1 .. Len(rcvd)
        PROVE  rcvd[f].header = sent[f].header /\ f \in 1 .. Len(sent)
    <3>1. f \in 1 .. Len(sent)
      BY <2>2
    <3>2. ~ \E g \in 2 .. f : /\ sent[g].syntax.type = FrameP
                              /\ sent[g].syntax.flags.lod
      BY <2>1, <3>1 DEF LodInStep
    <3>3. /\ rcvd[f].header.u0 = sent[f].header.u0
          /\ rcvd[f].header.lod = sent[f].header.lod
      BY <1>1, <3>2 DEF Inv, RcvdOK
    <3>4. rcvd[f].header \in Header /\ sent[f].header \in Header
      <4>1. rcvd[f] \in RcvdSet
        BY <2>2, ElementOfSeq
      <4> QED
        BY <1>1, <4>1, <3>1, SentFacts DEF RcvdSet
    <3> QED
      BY <3>1, <3>3, <3>4 DEF Header
  <2>4. SameHeader
    BY <2>2, <2>3, LenProperties DEF SameHeader
  <2>5. ~lost
    <3> SUFFICES ASSUME lost PROVE FALSE
      OBVIOUS
    <3>1. rcvd # <<>> /\ rcvd[Len(rcvd)].header.lod # sent[Len(rcvd)].header.lod
      BY <1>1 DEF Inv, LostOK
    <3>2. Len(rcvd) \in 1 .. Len(rcvd)
      BY <2>2, <3>1, EmptySeq
    <3> QED
      BY <3>1, <3>2, <2>3
  <2> QED
    BY <2>4, <2>5 DEF BitAligned
<1> QED
  BY <1>1, InvHolds, PTL
-----------------------------------------------------------------------------
(***************************************************************************)
(* Modes.                                                                  *)
(***************************************************************************)
\* Without scene cuts every frame after the first is matched.
Matched ==
  Constrained /\ ~SceneCuts =>
    \A f \in 1 .. Len(src) : f > 1 => src[f].numMatched > 0

\* Constrained packing without scene cuts gives every later frame a match.
LEMMA MatchedStep == Inv /\ Matched /\ [Next]_vars => Matched'
<1> SUFFICES ASSUME Inv, Matched, [Next]_vars, Constrained, ~SceneCuts,
                    NEW f \in 1 .. Len(src'), f > 1
             PROVE  src'[f].numMatched > 0
  BY DEF Matched
<1>1. CASE src' = src
  BY <1>1 DEF Matched
<1>2. CASE Pack
  <2>1. PICK n \in 1 .. MaxPatches, k \in 0 .. MaxPcm :
          \E patches \in [1 .. n -> PatchSet], pcm \in [1 .. k -> PcmSet],
             match \in [1 .. n -> Invalid .. MaxPatches - 1], m \in 0 .. n :
            PackFrame(patches, match, m, pcm)
    BY <1>2 DEF Pack
  <2>2. PICK patches \in [1 .. n -> PatchSet], pcm \in [1 .. k -> PcmSet],
             match \in [1 .. n -> Invalid .. MaxPatches - 1], m \in 0 .. n :
            PackFrame(patches, match, m, pcm)
    BY <2>1
  <2> DEFINE frame == [patches |-> patches, match |-> match, numMatched |-> m,
                       pcm |-> pcm]
  <2>3. /\ src' = Append(src, frame)
        /\ Len(src) = 0 \/ m > 0
        /\ frame.numMatched = m
    BY <2>2 DEF PackFrame
  <2>4. src \in Seq(SrcFrame) /\ Len(src) \in Nat /\ src' \in Seq(SrcFrame)
    BY <1>2, PackInv, LenProperties DEF Inv, SrcOK
  <2>8. /\ patches \in Seq(PatchSet) /\ match \in Seq(Int) /\ pcm \in Seq(PcmSet)
    <3>1. match \in [1 .. n -> Int] /\ n \in Nat /\ k \in Nat
      BY FrameAssumption DEF Invalid
    <3> QED
      BY <3>1, SeqDef
  <2>9. frame \in SrcFrame
    BY <2>8 DEF SrcFrame
  <2> HIDE DEF frame
  <2>5. /\ Len(src') = Len(src) + 1
        /\ \A g \in 1 .. Len(src) : src'[g] = src[g]
        /\ src'[Len(src) + 1] = frame
    BY <2>3, <2>4, <2>9, AppendProperties
  <2>6. CASE f = Len(src) + 1
    BY <2>3, <2>4, <2>5, <2>6
  <2>7. CASE f # Len(src) + 1
    <3>1. f \in 1 .. Len(src) /\ src'[f] = src[f]
      BY <2>4, <2>5, <2>7
    <3> QED
      BY <3>1 DEF Matched
  <2> QED
    BY <2>6, <2>7
<1>3. Encode \/ Transmit \/ Decode \/ Terminated \/ UNCHANGED vars => src' = src
  BY DEF Encode, BuildInter, BuildIntra, BuildPcm, BuildEnd, Transmit, WriteGroup,
         ParseGroup, Decode, DecodeIntra, DecodeInter, DecodePcm, DecodeUnknown,
         DecodeEnd, Terminated, vars
<1> QED
  BY <1>1, <1>2, <1>3 DEF Next

\* The mode of a missed points patch is of the type of its frame.
LEMMA LateIsFrameType ==
  ASSUME Inv, Matched, PcmModesAgree, NEW f \in 1 .. Len(src),
         Len(src[f].pcm) > 0
  PROVE  LateType(f) = FrameType(f)
<1>1. f = 1 => LateType(f) = FrameI /\ FrameType(f) = FrameI
  BY DEF LateType, FrameType
<1>2. ~InterPred => LateType(f) = FrameI /\ FrameType(f) = FrameI
  BY DEF LateType, FrameType
<1>3. PcmSet # {}
  <2>1. 1 \in 1 .. Len(src[f].pcm)
    BY FrameFacts DEF Inv
  <2> QED
    BY <2>1, FrameFacts DEF Inv
<1>4. CASE f # 1 /\ InterPred
  <2>1. Constrained /\ ~SceneCuts
    BY <1>3, <1>4 DEF PcmModesAgree
  <2>2. f > 1 /\ src[f].numMatched > 0
    BY <1>4, <2>1 DEF Matched
  <2>3. 1 \in 1 .. Count(f) /\ src[f] \in SrcFrame
    BY FrameFacts DEF Inv
  <2>4. 1 <= src[f].numMatched
    BY <2>2, <2>3 DEF SrcFrame
  <2>5. ValidFrame(src[f], PrevPatches(f))
    BY DEF Inv, SrcOK
  <2>6. src[f].match[1] \in 0 .. Len(PrevPatches(f)) - 1
    BY <2>3, <2>4, <2>5 DEF ValidFrame, Count
  <2>7. src[f].match[1] # Invalid
    BY <2>6 DEF Invalid
  <2>8. LateType(f) = FrameP /\ FrameType(f) = FrameP
    BY <1>4, <2>7 DEF LateType, FrameType
  <2> QED
    BY <2>8
<1> QED
  BY <1>1, <1>2, <1>4

\* Every unit but the end mark has the mode of a patch in its frame type.
LEMMA KindKnown ==
  ASSUME Inv, Matched, PcmModesAgree, NEW f \in 1 .. Len(src),
         NEW i \in 1 .. NumUnits(f) - 1
  PROVE  /\ Kind(FrameType(f), UnitOf(f, i).mode) \in {"intra", "inter", "pcm"}
         /\ i \in Count(f) + 1 .. NumUnits(f) - 1 =>
              Kind(FrameType(f), UnitOf(f, i).mode) = "pcm"
<1>1. /\ NumUnits(f) \in Nat /\ Count(f) \in Nat /\ NumMatched(f) \in Nat
      /\ NumMatched(f) <= Count(f) /\ Len(src[f].pcm) \in Nat
  BY FrameFacts DEF Inv
<1>2. CASE i \in 1 .. Count(f)
  <2>1. i \in 1 .. NumUnits(f) /\ ~(i \in Count(f) + 1 .. NumUnits(f) - 1)
    BY <1>1, <1>2
  <2>2. i \in 1 .. NumMatched(f) \/ i \in NumMatched(f) + 1 .. Count(f)
    BY <1>1, <1>2
  <2> QED
    BY <2>1, <2>2, UnitFacts DEF Inv
<1>3. CASE ~(i \in 1 .. Count(f))
  <2>1. ~(i <= Count(f)) /\ ~(i <= NumMatched(f)) /\ i < NumUnits(f)
    BY <1>1, <1>3
  <2>2. Len(src[f].pcm) > 0
    BY <1>1, <2>1 DEF NumUnits
  <2>3. UnitOf(f, i) = PcmUnit(PcmMode(f), src[f].pcm[i - Count(f)])
    BY <2>1 DEF UnitOf
  <2>4. UnitOf(f, i).mode = PcmMode(f)
    BY <2>3 DEF PcmUnit
  <2>5. LateType(f) = FrameType(f) /\ FrameType(f) \in Types
    BY <2>2, LateIsFrameType, FrameFacts DEF Inv
  <2>6. Kind(FrameType(f), PcmMode(f)) = "pcm"
    BY <2>5 DEF Types, PcmMode, Kind, FrameI, FrameP, I_PCM, P_PCM, I_INTRA,
                P_INTRA, P_INTER, I_END
  <2> QED
    BY <2>4, <2>6
<1> QED
  BY <1>2, <1>3

\* The branch "Error: unknow frame/patch type" of the decoder is dead if no
\* I frame after the first carries missed points.
THEOREM KnownUnitsHolds == ASSUME PcmModesAgree PROVE Spec => []KnownUnits
<1>1. Init => Matched
  BY DEF Init, Matched
<1>2. Inv /\ Matched /\ [Next]_vars => Matched'
  BY MatchedStep
<1>3. ASSUME Inv, Matched PROVE KnownUnits
  <2> SUFFICES ASSUME NEW f \in DOMAIN rcvd, NEW i \in DOMAIN rcvd[f].pids
               PROVE  Kind(rcvd[f].type, rcvd[f].pids[i].mode)
                        \in {"intra", "inter", "pcm"}
    BY DEF KnownUnits
  <2>1. /\ f \in 1 .. Len(rcvd) /\ Len(rcvd) \in Nat /\ Len(rcvd) <= NumFrames
        /\ Len(sent) = NumFrames
    BY <1>3, LenProperties DEF Inv, RcvdOK
  <2>2. f \in 1 .. Len(sent)
    BY <2>1
  <2> DEFINE group == [type |-> FrameType(f),
                       header |-> ParsedHeader(sent[f].syntax, PrevParsed(f)),
                       pids |-> [j \in 1 .. NumUnits(f) - 1 |-> sent[f].pids[j]]]
  <2>8. rcvd[f] = group
    BY <1>3, <2>1 DEF Inv, RcvdOK
  <2>3. /\ rcvd[f].type = FrameType(f)
        /\ rcvd[f].pids = [j \in 1 .. NumUnits(f) - 1 |-> sent[f].pids[j]]
    BY <2>8
  <2>4. /\ i \in 1 .. NumUnits(f) - 1 /\ rcvd[f].pids[i] = sent[f].pids[i]
    BY <2>3
  <2>5. f \in 1 .. Len(src)
    BY <1>3, <2>2, SentFacts
  <2>6. i \in 1 .. NumUnits(f)
    BY <1>3, <2>4, <2>5, FrameFacts DEF Inv
  <2>7. sent[f].pids[i].mode = UnitOf(f, i).mode
    BY <1>3, <2>2, <2>6, SentFacts
  <2> QED
    BY <1>3, <2>3, <2>4, <2>5, <2>7, KindKnown
<1> QED
  BY <1>1, <1>2, <1>3, InvHolds, PTL DEF Spec
-----------------------------------------------------------------------------
(***************************************************************************)
(* Widths.                                                                 *)
(***************************************************************************)
LEMMA DivideSmaller ==
  ASSUME NEW x \in Nat, NEW level \in Nat \ {0}
  PROVE  /\ x \div level \in Nat
         /\ level > 1 => 2 * (x \div level) <= x
         /\ level > 2 => 3 * (x \div level) <= x
         /\ x \div level <= x
<1> DEFINE q == x \div level
<1>1. q \in Nat /\ q * level <= x
  OBVIOUS
<1> HIDE DEF q
<1>2. ASSUME NEW c \in 1 .. 3, level >= c PROVE q * c <= x
  <2>1. q * level = q * c + q * (level - c) /\ q * (level - c) \in Nat
    BY <1>1, <1>2
  <2>2. q * level \in Int /\ q * c \in Int
    BY <1>1
  <2> QED
    BY <1>1, <2>1, <2>2
<1>3. level >= 1 => q <= x
  BY <1>1, <1>2, 1 \in 1 .. 3
<1>4. level > 1 => 2 * q <= x
  BY <1>1, <1>2, 2 \in 1 .. 3
<1>5. level > 2 => 3 * q <= x
  BY <1>1, <1>2, 3 \in 1 .. 3
<1> QED
  BY <1>1, <1>3, <1>4, <1>5 DEF q

\* The coded depths fit their fields.
LEMMA DepthFits ==
  ASSUME FieldsWide, NEW p \in PatchSet
  PROVE  /\ QuantD1(p.plane, p.d1) \in Nat
         /\ QuantD1(p.plane, p.d1) < Pow2[CoordBits]
         /\ QuantDD(p.sizeD) \in Nat
         /\ QuantDD(p.sizeD) < Pow2[DDBits]
<1> USE LevelAssumption, DepthAssumption
<1>1. /\ p.d1 \in Nat /\ p.sizeD \in Nat /\ p.d1 <= AxisEnd
  BY PatchFacts DEF IsSegmented
<1>2. AxisEnd \in Nat
  BY DEF AxisEnd
<1>3. /\ QuantD1(p.plane, p.d1) \in Nat
      /\ QuantD1(p.plane, p.d1) < Max3D
  <2>1. PICK x \in Nat : x <= AxisEnd /\ QuantD1(p.plane, p.d1) = x \div MinLevel
    <3>1. CASE FromNear(p.plane)
      BY <3>1, <1>1 DEF QuantD1
    <3>2. CASE ~FromNear(p.plane)
      <4>1. AxisEnd - p.d1 \in Nat /\ AxisEnd - p.d1 <= AxisEnd
        BY <1>1, <1>2
      <4> QED
        BY <3>2, <4>1 DEF QuantD1
    <3> QED
      BY <3>1, <3>2
  <2> DEFINE q == x \div MinLevel
  <2>2. /\ q \in Nat
        /\ MinLevel > 1 => 2 * q <= x
        /\ MinLevel > 2 => 3 * q <= x
    BY DivideSmaller
  <2> HIDE DEF q
  <2>3. q < Max3D
    <3>1. CASE Plane45
      BY <3>1, <2>1, <2>2 DEF AxisEnd, FieldsWide
    <3>2. CASE ~Plane45
      BY <3>2, <2>1, <2>2 DEF AxisEnd, FieldsWide
    <3> QED
      BY <3>1, <3>2
  <2> QED
    BY <2>1, <2>2, <2>3 DEF q
<1>4. QuantDD(p.sizeD) \in Nat /\ QuantDD(p.sizeD) < Max3D
  <2>1. PICK k \in 0 .. 2 * Max3D : p.sizeD = Least(k * MinLevel, MaxAllowedDepth)
    BY PatchFacts DEF IsSegmented
  <2>2. k * MinLevel \in Nat
    OBVIOUS
  <2>3. p.sizeD <= MaxAllowedDepth
    BY <2>1, <2>2 DEF Least
  <2>4. CASE p.sizeD = 0
    BY <2>4 DEF QuantDD
  <2>5. CASE p.sizeD # 0
    <3>1. p.sizeD - 1 \in Nat
      BY <2>5, <1>1
    <3>2. /\ (p.sizeD - 1) \div MinLevel \in Nat
          /\ (p.sizeD - 1) \div MinLevel <= p.sizeD - 1
      BY <3>1, DivideSmaller
    <3>3. QuantDD(p.sizeD) = (p.sizeD - 1) \div MinLevel + 1
      BY <2>5 DEF QuantDD
    <3> DEFINE q == (p.sizeD - 1) \div MinLevel
    <3> HIDE DEF q
    <3> QED
      BY <1>1, <2>3, <3>2, <3>3 DEF FieldsWide, q
  <2> QED
    BY <2>4, <2>5
<1>5. Max3D = Pow2[CoordBits] /\ CoordBits \in Nat /\ DDBits \in Nat
      /\ CoordBits <= DDBits
  BY WidthAssumption DEF DDBits
<1>6. Pow2[CoordBits] <= Pow2[DDBits] /\ Pow2[DDBits] \in Nat
  BY <1>5, Pow2Monotone, Pow2Type
<1> QED
  BY <1>3, <1>4, <1>5, <1>6

\* A field as wide as its value leaves the unit unchanged.
LEMMA UnitKept ==
  ASSUME Inv, Matched, PcmModesAgree, FieldsWide,
         NEW f \in 1 .. Len(sent), NEW i \in 1 .. NumUnits(f)
  PROVE  sent[f].pids[i] = IF i <= NumMatched(f)
                           THEN [UnitOf(f, i) EXCEPT !.lod = 0]
                           ELSE UnitOf(f, i)
<1> DEFINE u == UnitOf(f, i)
           hdr == sent[f].header
           type == FrameType(f)
           free == FreePatches(f)
           pcm == Elems(src[f].pcm)
<1>1. /\ f \in 1 .. Len(src) /\ hdr \in Header
      /\ hdr = HeaderInForce(type, NeedOf(f), PrevHeader(f))
      /\ sent[f].pids[i] = WrittenUnit(type, hdr, u)
  BY SentFacts
<1>2. /\ Count(f) \in Nat /\ NumMatched(f) \in Nat /\ NumMatched(f) <= Count(f)
      /\ NumUnits(f) \in Nat /\ Count(f) < NumUnits(f) /\ Len(src[f].pcm) \in Nat
      /\ src[f] \in SrcFrame
      /\ \A j \in 1 .. Count(f) : src[f].patches[j] \in PatchSet
      /\ \A j \in 1 .. Len(src[f].pcm) : src[f].pcm[j] \in PcmSet
  BY <1>1, FrameFacts DEF Inv
<1>3. hdr.u0 \in Nat /\ hdr.lod \in Nat /\ hdr.u0 + 1 \in Nat
  BY <1>1 DEF Header
<1>4. hdr.u0 >= NeededHeader(free, pcm).u0 /\ hdr.lod >= NeededHeader(free, pcm).lod
  <2>1. NeedOf(f) \in Widths /\ NeedOf(f) = NeededHeader(free, pcm)
    BY NeededHeaderType DEF NeedOf
  <2>2. PrevHeader(f) \in Widths
    <3>1. Len(sent) \in Nat
      BY LenProperties DEF Inv, SentOK
    <3>2. f \in 1 .. Len(sent) + 1
      BY <3>1
    <3> QED
      BY <3>2, PrevHeaderType DEF Header, Widths
  <2> QED
    BY <1>1, <2>1, <2>2, HeaderCovers
<1>5. CASE i \in 1 .. NumMatched(f)
  <2>1. Kind(type, u.mode) = "inter"
    BY <1>1, <1>5, UnitFacts DEF Inv
  <2>2. WrittenUnit(type, hdr, u) = [u EXCEPT !.lod = 0]
    BY <2>1 DEF WrittenUnit
  <2> QED
    BY <1>1, <1>5, <2>2
<1>6. CASE i \in NumMatched(f) + 1 .. Count(f)
  <2> DEFINE p == src[f].patches[i]
  <2>1. /\ Kind(type, u.mode) = "intra" /\ i \in 1 .. Count(f)
        /\ ~(i <= NumMatched(f)) /\ i <= Count(f)
    BY <1>1, <1>2, <1>6, UnitFacts DEF Inv
  <2>2. p \in PatchSet /\ p \in free
    BY <1>2, <1>6, <2>1 DEF FreePatches
  <2>3. u = IntraUnit(IntraMode(f), p, SizeAfter(f, i - 1))
    BY <2>1 DEF UnitOf
  <2>4. /\ u.u0 = p.u0 /\ u.lod = p.lod /\ u.d1 = QuantD1(p.plane, p.d1)
        /\ u.dd = QuantDD(p.sizeD)
    BY <2>3 DEF IntraUnit
  <2>5. /\ p.u0 \in Nat /\ p.u0 < Pow2[MaxBits]
        /\ p.lod \in Nat /\ p.lod < Pow2[MaxBits]
    BY <2>2, PatchFacts
  <2>6. /\ QuantD1(p.plane, p.d1) \in Nat /\ QuantD1(p.plane, p.d1) < Pow2[CoordBits]
        /\ QuantDD(p.sizeD) \in Nat /\ QuantDD(p.sizeD) < Pow2[DDBits]
        /\ CoordBits \in Nat /\ DDBits \in Nat
    BY <2>2, DepthFits, WidthAssumption DEF DDBits
  <2> HIDE DEF p, u, hdr, free, pcm
  <2>7. p.u0 < Pow2[hdr.u0 + 1]
    BY <1>3, <1>4, <2>2, <2>5, PositionFits
  <2>8. p.lod < Pow2[hdr.lod]
    BY <1>3, <1>4, <2>2, <2>5, LodFits
  <2>9. /\ Low(u.u0, hdr.u0 + 1) = u.u0 /\ Low(u.lod, hdr.lod) = u.lod
        /\ Low(u.d1, CoordBits) = u.d1 /\ Low(u.dd, DDBits) = u.dd
    BY <1>3, <2>4, <2>5, <2>6, <2>7, <2>8, LowExact
  <2>10. u \in UnitType
    BY <1>1, UnitFacts DEF Inv, u
  <2>11. WrittenUnit(type, hdr, u) =
           [[[[u EXCEPT !.u0 = u.u0] EXCEPT !.lod = u.lod] EXCEPT !.d1 = u.d1]
             EXCEPT !.dd = u.dd]
    BY <2>1, <2>9 DEF WrittenUnit
  <2>12. /\ [u EXCEPT !.u0 = u.u0] = u /\ [u EXCEPT !.lod = u.lod] = u
         /\ [u EXCEPT !.d1 = u.d1] = u /\ [u EXCEPT !.dd = u.dd] = u
    BY <2>10 DEF UnitType
  <2>13. WrittenUnit(type, hdr, u) = u
    BY <2>11, <2>12
  <2> QED
    BY <1>1, <2>1, <2>13 DEF u, hdr
<1>7. CASE i \in Count(f) + 1 .. NumUnits(f) - 1
  <2> DEFINE j == i - Count(f)
             m == src[f].pcm[j]
  <2>1. /\ j \in 1 .. Len(src[f].pcm) /\ i \in 1 .. NumUnits(f) - 1
        /\ ~(i <= NumMatched(f)) /\ ~(i <= Count(f)) /\ i < NumUnits(f)
    <3>1. NumUnits(f) = Count(f) + Len(src[f].pcm) + 1
      BY DEF NumUnits
    <3> DEFINE c == Count(f)
               n == Len(src[f].pcm)
               total == NumUnits(f)
               matched == NumMatched(f)
    <3>2. /\ c \in Nat /\ matched \in Nat /\ matched <= c /\ n \in Nat
          /\ total = c + n + 1 /\ i \in c + 1 .. total - 1
      BY <1>2, <1>7, <3>1
    <3> HIDE DEF c, n, total, matched
    <3>3. /\ i - c \in 1 .. n /\ i \in 1 .. total - 1
          /\ ~(i <= matched) /\ ~(i <= c) /\ i < total
      BY <3>2
    <3> QED
      BY <3>3 DEF c, n, total, matched
  <2>2. Kind(type, u.mode) = "pcm"
    BY <1>1, <1>7, <2>1, KindKnown
  <2>3. u = PcmUnit(PcmMode(f), m)
    BY <2>1 DEF UnitOf
  <2>4. m \in PcmSet /\ m \in pcm
    BY <1>2, <2>1, LenProperties DEF Elems, SrcFrame
  <2>5. m.u0 \in Nat /\ m.u0 < Pow2[MaxBits]
    BY <2>4, PcmFacts
  <2>6. u.u0 = m.u0
    BY <2>3 DEF PcmUnit
  <2>10. u \in UnitType
    BY <1>1, UnitFacts DEF Inv
  <2> HIDE DEF m, u, hdr, free, pcm
  <2>7. m.u0 < Pow2[hdr.u0 + 1]
    BY <1>3, <1>4, <2>4, <2>5, PositionFits
  <2>8. Low(u.u0, hdr.u0 + 1) = u.u0
    BY <1>3, <2>5, <2>6, <2>7, LowExact
  <2>11. WrittenUnit(type, hdr, u) = [u EXCEPT !.u0 = u.u0]
    BY <2>2, <2>8 DEF WrittenUnit
  <2>12. [u EXCEPT !.u0 = u.u0] = u
    BY <2>10 DEF UnitType
  <2> QED
    BY <1>1, <2>1, <2>11, <2>12 DEF u, hdr
<1>8. CASE i = NumUnits(f)
  <2>1. ~(i <= NumMatched(f)) /\ ~(i <= Count(f)) /\ ~(i < NumUnits(f))
    BY <1>2, <1>8
  <2>2. u = BlankUnit(EndMode(f))
    BY <2>1 DEF UnitOf
  <2>3. u.mode = EndMode(f) /\ EndMode(f) = I_END
    BY <2>2 DEF BlankUnit, EndMode, I_END, P_END
  <2>4. Kind(type, u.mode) = "end"
    BY <2>3 DEF Kind, FrameI, FrameP, I_PCM, P_PCM, I_INTRA, P_INTRA, P_INTER, I_END
  <2>5. WrittenUnit(type, hdr, u) = BlankUnit(u.mode)
    BY <2>4 DEF WrittenUnit
  <2> QED
    BY <1>1, <2>1, <2>2, <2>3, <2>5
<1>9. \/ i \in 1 .. NumMatched(f) \/ i \in NumMatched(f) + 1 .. Count(f)
      \/ i \in Count(f) + 1 .. NumUnits(f) - 1 \/ i = NumUnits(f)
  BY <1>2
<1> QED
  BY <1>5, <1>6, <1>7, <1>8, <1>9

\* No field is narrower than a value written to it: all that the encoder
\* built, but the level of detail of an inter patch, is in the bitstream.
THEOREM NothingCutHolds ==
  ASSUME PcmModesAgree, FieldsWide PROVE Spec => []NothingCut
<1>1. Init => Matched
  BY DEF Init, Matched
<1>2. Inv /\ Matched /\ [Next]_vars => Matched'
  BY MatchedStep
<1>3. ASSUME Inv, Matched PROVE NothingCut
  <2> SUFFICES ASSUME NEW f \in DOMAIN sent, NEW i \in DOMAIN sent[f].pids
               PROVE  sent[f].pids[i] =
                        IF Kind(pdg[f].type, pdg[f].pids[i].mode) = "inter"
                        THEN [pdg[f].pids[i] EXCEPT !.lod = 0]
                        ELSE pdg[f].pids[i]
    BY DEF NothingCut
  <2>1. f \in 1 .. Len(sent) /\ Len(sent) <= NumFrames /\ Len(pdg) = NumFrames
        /\ Len(sent) \in Nat
    BY <1>3, LenProperties DEF Inv, SentOK
  <2>2. f \in 1 .. Len(pdg)
    BY <2>1
  <2>3. pdg[f] = GroupOf(f)
    BY <1>3, <2>2 DEF Inv, PdgOK
  <2>4. /\ f \in 1 .. Len(src) /\ i \in 1 .. NumUnits(f)
    BY <1>3, <2>1, SentFacts, LenProperties
  <2>5. /\ NumUnits(f) \in Nat /\ NumMatched(f) \in Nat /\ NumMatched(f) <= Count(f)
        /\ Count(f) \in Nat
    BY <1>3, <2>4, FrameFacts DEF Inv
  <2>6. pdg[f].type = FrameType(f) /\ pdg[f].pids[i] = UnitOf(f, i)
    BY <2>3, <2>4 DEF GroupOf, UnitsOf
  <2>7. (Kind(FrameType(f), UnitOf(f, i).mode) = "inter") <=> i <= NumMatched(f)
    <3>1. CASE i \in 1 .. NumMatched(f)
      BY <1>3, <2>4, <3>1, UnitFacts DEF Inv
    <3>2. CASE i \in NumMatched(f) + 1 .. Count(f)
      <4>1. ~(i <= NumMatched(f))
        BY <2>5, <3>2
      <4> QED
        BY <1>3, <2>4, <3>2, <4>1, UnitFacts DEF Inv
    <3>3. CASE i \in Count(f) + 1 .. NumUnits(f) - 1
      <4>1. ~(i <= NumMatched(f))
        BY <2>5, <3>3
      <4> QED
        BY <1>3, <2>4, <3>3, <4>1, UnitFacts DEF Inv
    <3>4. CASE i = NumUnits(f)
      <4>1. ~(i <= NumMatched(f)) /\ UnitOf(f, i).mode = I_END
        <5>1. Count(f) < NumUnits(f)
          BY <1>3, <2>4, FrameFacts DEF Inv
        <5> QED
          BY <1>3, <2>4, <2>5, <3>4, <5>1, UnitFacts DEF Inv
      <4>2. Kind(FrameType(f), I_END) = "end"
        BY DEF Kind, FrameI, FrameP, I_PCM, P_PCM, I_INTRA, P_INTRA, P_INTER, I_END
      <4> QED
        BY <4>1, <4>2
    <3> QED
      BY <2>4, <2>5, <3>1, <3>2, <3>3, <3>4
  <2> QED
    BY <1>3, <2>1, <2>4, <2>6, <2>7, UnitKept
<1> QED
  BY <1>1, <1>2, <1>3, InvHolds, PTL DEF Spec
-----------------------------------------------------------------------------
(***************************************************************************)
(* Every unit is decoded to the patch it was built from.                   *)
(***************************************************************************)
Exact ==
  /\ UniformLod /\ PcmModesAgree /\ FieldsWide /\ AxisAgrees /\ ModesFromView
  /\ ClampsAgree

\* The depth offset of a segmented patch is a multiple of the level, its depth
\* range a multiple of the level or the clamp.
LEMMA Depths ==
  ASSUME NEW p \in PatchSet
  PROVE  /\ \E k \in Nat : p.d1 = k * MinLevel
         /\ \E k \in Nat : p.sizeD = Least(k * MinLevel, MaxAllowedDepth)
<1>1. 0 .. 2 * Max3D \subseteq Nat
  OBVIOUS
<1> QED
  BY <1>1, PatchFacts DEF IsSegmented

\* The decoder's intra branch undoes the encoder's, from the same predictor.
LEMMA IntraExact ==
  ASSUME Exact, SrcOK, NEW f \in 1 .. Len(src),
         NEW i \in NumMatched(f) + 1 .. Count(f)
  PROVE  IntraPatch(UnitOf(f, i), SizeAfter(f, i - 1)) = src[f].patches[i]
<1> DEFINE p == src[f].patches[i]
           prev == SizeAfter(f, i - 1)
           u == UnitOf(f, i)
<1>1. /\ ~(i <= NumMatched(f)) /\ i <= Count(f) /\ p \in PatchSet
      /\ i - 1 \in 0 .. Count(f)
  <2>1. /\ NumMatched(f) \in Nat /\ Count(f) \in Nat
        /\ \A j \in 1 .. Count(f) : src[f].patches[j] \in PatchSet
    BY FrameFacts
  <2>2. i \in 1 .. Count(f)
    BY <2>1
  <2> QED
    BY <2>1, <2>2
<1>2. u = IntraUnit(IntraMode(f), p, prev)
  BY <1>1 DEF UnitOf
<1>3. prev \in Int
  BY <1>1, SizeType
<1> HIDE DEF u, p, prev
<1>4. /\ u.u0 = p.u0 /\ u.size = p.sizeU0 - prev /\ u.plane = p.plane
      /\ u.d1 = QuantD1(p.plane, p.d1) /\ u.dd = QuantDD(p.sizeD) /\ u.lod = p.lod
  BY <1>2 DEF IntraUnit
<1>5. /\ p.sizeU0 \in Nat /\ p.d1 \in Nat /\ p.sizeD \in Nat
      /\ p = [u0 |-> p.u0, sizeU0 |-> p.sizeU0, d1 |-> p.d1,
              sizeD |-> p.sizeD, plane |-> p.plane, lod |-> p.lod]
  BY <1>1, PatchFacts
<1>6. prev + u.size = p.sizeU0
  BY <1>3, <1>4, <1>5
<1>7. IntraD1(u.plane, u.d1) = p.d1
  <2>1. FromNear(p.plane) \/ ~Plane45
    BY <1>1 DEF Exact, AxisAgrees
  <2> QED
    BY <1>1, <1>4, <1>5, <2>1, Depths, IntraD1Exact
<1>8. SizeDOf(u.dd) = p.sizeD
  BY <1>1, <1>4, <1>5, Depths, SizeDExact DEF Exact
<1>9. IntraPatch(u, prev) = p
  BY <1>4, <1>5, <1>6, <1>7, <1>8 DEF IntraPatch
<1> QED
  BY <1>9 DEF u, p, prev

\* The decoder's inter branch undoes the encoder's, from the same reference;
\* the level of detail, which is not sent, is the reference's.
LEMMA InterExact ==
  ASSUME Exact, SrcOK, NEW f \in 1 .. Len(src), NEW i \in 1 .. NumMatched(f)
  PROVE  InterPatch([UnitOf(f, i) EXCEPT !.lod = 0], RefOf(f, i)) = src[f].patches[i]
<1> DEFINE p == src[f].patches[i]
           ref == RefOf(f, i)
           u == [UnitOf(f, i) EXCEPT !.lod = 0]
<1>1. /\ p \in PatchSet /\ ref \in PatchSet /\ SameView(ref, p)
      /\ FrameType(f) = FrameP
  <2>1. i \in 1 .. Count(f)
    BY FrameFacts
  <2> QED
    BY <2>1, FrameFacts, RefFacts
<1>2. UnitOf(f, i) = InterUnit(p, src[f].match[i], ref, PredAfter(f, i - 1))
  BY DEF UnitOf
<1>3. ref.plane = p.plane /\ ref.lod = p.lod
  <2>1. InterPred
    BY <1>1 DEF FrameType, FrameI, FrameP
  <2> QED
    BY <1>1, <2>1 DEF SameView, Exact, ModesFromView, UniformLod
<1> HIDE DEF p, ref
<1>4. /\ u.u0 = p.u0 - ref.u0 /\ u.size = p.sizeU0 - ref.sizeU0
      /\ u.d1 = QuantD1(p.plane, p.d1) - QuantD1(p.plane, ref.d1)
      /\ u.dd = QuantDD(p.sizeD) - QuantDD(ref.sizeD)
  BY <1>2 DEF InterUnit
<1> HIDE DEF u
<1>5. /\ p.u0 \in Nat /\ p.sizeU0 \in Nat /\ p.d1 \in Nat /\ p.sizeD \in Nat
      /\ ref.u0 \in Nat /\ ref.sizeU0 \in Nat /\ ref.d1 \in Nat /\ ref.sizeD \in Nat
      /\ p = [u0 |-> p.u0, sizeU0 |-> p.sizeU0, d1 |-> p.d1,
              sizeD |-> p.sizeD, plane |-> p.plane, lod |-> p.lod]
  BY <1>1, PatchFacts
<1>6. u.u0 + ref.u0 = p.u0 /\ u.size + ref.sizeU0 = p.sizeU0
  BY <1>4, <1>5
<1>7. InterD1(ref.plane, u.d1, ref.d1) = p.d1
  BY <1>1, <1>3, <1>4, <1>5, Depths, InterD1Exact
<1>8. SizeDOf(u.dd + PrevDD(ref.sizeD)) = p.sizeD
  <2>1. /\ PrevDD(ref.sizeD) = QuantDD(ref.sizeD)
        /\ QuantDD(ref.sizeD) \in Nat /\ QuantDD(p.sizeD) \in Nat
    BY <1>5, PrevDDIsQuantDD
  <2>2. u.dd + PrevDD(ref.sizeD) = QuantDD(p.sizeD)
    BY <1>4, <2>1
  <2> QED
    BY <1>1, <1>5, <2>2, Depths, SizeDExact DEF Exact
<1>9. InterPatch(u, ref) = p
  BY <1>3, <1>5, <1>6, <1>7, <1>8 DEF InterPatch
<1> QED
  BY <1>9 DEF u, p, ref

\* A missed points patch is copied field by field both ways.
LEMMA PcmExact ==
  ASSUME NEW mode, NEW m \in PcmSet
  PROVE  PcmPatch(PcmUnit(mode, m)) = m
BY PcmFacts DEF PcmPatch, PcmUnit
-----------------------------------------------------------------------------
(***************************************************************************)
(* The frames rebuilt, and the one being rebuilt.                          *)
(***************************************************************************)
\* The first k units of frame f are decoded to what they were built from.
Rebuilt(frame, f, k) ==
  /\ Len(frame.patches) = IF k <= Count(f) THEN k ELSE Count(f)
  /\ \A i \in 1 .. Len(frame.patches) : frame.patches[i] = src[f].patches[i]
  /\ Len(frame.pcm) = IF k <= Count(f) THEN 0 ELSE k - Count(f)
  /\ \A j \in 1 .. Len(frame.pcm) : frame.pcm[j] = src[f].pcm[j]

DcdExact ==
  dcd # DecStart =>
    /\ Rebuilding
    /\ LET f == Len(dec) + 1
           k == dcd.pos - 1
       IN  /\ Rebuilt(dcd, f, k)
           /\ k <= Count(f) => dcd.prev = SizeAfter(f, k)

DecExact ==
  \A f \in 1 .. Len(dec) :
    dec[f].patches = src[f].patches /\ dec[f].pcm = src[f].pcm

AllExact == Matched /\ DecExact /\ DcdExact

\* When a unit is decoded, all units of the frame before it are rebuilt and
\* the predictor of the size is the one the encoder had.
LEMMA DcdFacts ==
  ASSUME Inv, DcdExact, Rebuilding
  PROVE  LET f == Len(dec) + 1
             k == dcd.pos - 1
         IN  /\ Rebuilt(dcd, f, k)
             /\ k <= Count(f) => dcd.prev = SizeAfter(f, k)
<1> DEFINE f == Len(dec) + 1
<1>1. CASE dcd # DecStart
  BY <1>1 DEF DcdExact
<1>2. CASE dcd = DecStart
  <2>1. Count(f) \in Nat
    BY RebuildingFacts, FrameFacts DEF Inv
  <2>2. dcd.pos - 1 = 0 /\ dcd.prev = 0 /\ dcd.patches = <<>> /\ dcd.pcm = <<>>
    BY <1>2 DEF DecStart
  <2>3. Rebuilt(dcd, f, 0)
    BY <2>1, <2>2, EmptySeq DEF Rebuilt
  <2> HIDE DEF f
  <2>4. Rebuilt(dcd, f, dcd.pos - 1) /\ dcd.prev = SizeAfter(f, dcd.pos - 1)
    BY <2>2, <2>3 DEF SizeAfter
  <2> QED
    BY <2>4 DEF f
<1> QED
  BY <1>1, <1>2

\* A unit of the tile group being rebuilt is the one that was built.
LEMMA UnitIsBuilt ==
  ASSUME Exact, Inv, Matched, NEW kind, UnitIs(kind)
  PROVE  LET f == Len(dec) + 1
             i == dcd.pos
         IN  /\ f \in 1 .. Len(src)
             /\ kind = "inter" => Unit = [UnitOf(f, i) EXCEPT !.lod = 0]
             /\ kind # "inter" => Unit = UnitOf(f, i)
             /\ kind # "none"
<1> DEFINE f == Len(dec) + 1
           i == dcd.pos
<1>1. /\ Rebuilding /\ i \in 1 .. NumUnits(f) - 1
      /\ Unit = sent[f].pids[i]
      /\ kind = "inter" => i \in 1 .. NumMatched(f)
      /\ kind = "intra" => i \in NumMatched(f) + 1 .. Count(f)
      /\ kind \in {"pcm", "none"} => i \in Count(f) + 1 .. NumUnits(f) - 1
  BY UnitIsFacts
<1>2. /\ f \in 1 .. Len(src) /\ f \in 1 .. Len(sent) /\ Group.type = FrameType(f)
  BY <1>1, RebuildingFacts
<1>3. /\ NumUnits(f) \in Nat /\ NumMatched(f) \in Nat /\ Count(f) \in Nat
      /\ NumMatched(f) <= Count(f)
  BY <1>2, FrameFacts DEF Inv
<1> HIDE DEF f, i
<1>4. i \in 1 .. NumUnits(f)
  BY <1>1, <1>3
<1>5. /\ Unit = IF i <= NumMatched(f) THEN [UnitOf(f, i) EXCEPT !.lod = 0]
                ELSE UnitOf(f, i)
      /\ Unit.mode = UnitOf(f, i).mode
  BY <1>1, <1>2, <1>4, UnitKept, SentFacts DEF Exact
<1>6. kind = Kind(FrameType(f), UnitOf(f, i).mode)
  BY <1>2, <1>5 DEF UnitIs
<1>7. kind \in {"intra", "inter", "pcm"}
  BY <1>1, <1>2, <1>6, KindKnown DEF Exact
<1>8. CASE kind = "inter"
  BY <1>1, <1>2, <1>3, <1>5, <1>8 DEF f, i
<1>9. CASE kind \in {"intra", "pcm"}
  <2>1. ~(i <= NumMatched(f))
    BY <1>1, <1>3, <1>9
  <2> QED
    BY <1>2, <1>5, <1>9, <2>1 DEF f, i
<1> QED
  BY <1>7, <1>8, <1>9

\* A step that decodes one more unit.
LEMMA ExactStep ==
  ASSUME Inv, AllExact, Rebuilding,
         UNCHANGED <<src, pdg, enc, sent, rcvd, lost, dec>>,
         dcd'.pos = dcd.pos + 1,
         LET f == Len(dec) + 1
         IN  /\ Rebuilt(dcd', f, dcd.pos)
             /\ dcd.pos <= Count(f) => dcd'.prev = SizeAfter(f, dcd.pos)
  PROVE  AllExact'
<1> DEFINE f == Len(dec) + 1
           i == dcd.pos
<1>1. dcd'.pos - 1 = i
  BY RebuildingFacts
<1>2. Matched' /\ DecExact'
  BY DEF AllExact, Matched, DecExact
<1>3. Rebuilding' /\ (Len(dec) + 1)' = f
  BY DEF Rebuilding
<1>4. /\ Rebuilt(dcd', f, i)
      /\ i <= Count(f) => dcd'.prev = SizeAfter(f, i)
  OBVIOUS
<1> HIDE DEF f, i
<1>5. DcdExact'
  BY <1>1, <1>3, <1>4, Static DEF DcdExact, Rebuilt
<1> QED
  BY <1>2, <1>5 DEF AllExact
\* Appending the next patch of the frame.
LEMMA OneMorePatch ==
  ASSUME Inv, NEW f \in 1 .. Len(src), NEW i \in 1 .. Count(f),
         Rebuilt(dcd, f, i - 1), dcd \in DcdSet,
         src[f].patches[i] \in Patch,
         dcd'.patches = Append(dcd.patches, src[f].patches[i]),
         dcd'.pcm = dcd.pcm
  PROVE  Rebuilt(dcd', f, i)
<1>1. /\ Count(f) \in Nat /\ dcd.patches \in Seq(Patch) /\ dcd.pcm \in Seq(Missed)
  BY FrameFacts DEF Inv, DcdSet
<1>2. /\ Len(dcd.patches) = i - 1 /\ Len(dcd.pcm) = 0
      /\ \A j \in 1 .. i - 1 : dcd.patches[j] = src[f].patches[j]
  BY <1>1 DEF Rebuilt
<1>3. /\ Len(dcd'.patches) = i
      /\ \A j \in 1 .. i - 1 : dcd'.patches[j] = dcd.patches[j]
      /\ dcd'.patches[i] = src[f].patches[i]
  BY <1>1, <1>2, AppendProperties
<1>4. \A j \in 1 .. i : dcd'.patches[j] = src[f].patches[j]
  BY <1>2, <1>3
<1>5. Len(dcd'.pcm) = 0
  BY <1>2
<1> QED
  BY <1>1, <1>3, <1>4, <1>5 DEF Rebuilt

\* What segmentation and packing produce has the type of what is rebuilt.
LEMMA PatchSubset == PatchSet \subseteq Patch /\ PcmSet \subseteq Missed
<1>1. ASSUME NEW p \in PatchSet PROVE p \in Patch
  BY PatchFacts DEF Patch
<1>2. ASSUME NEW m \in PcmSet PROVE m \in Missed
  BY PcmFacts DEF Missed
<1> QED
  BY <1>1, <1>2

\* Rebuilding an intra patch keeps the frame equal to the packed one.
LEMMA ExactIntra == Exact /\ Inv /\ AllExact /\ DecodeIntra => AllExact'
<1> SUFFICES ASSUME Exact, Inv, AllExact, DecodeIntra PROVE AllExact'
  OBVIOUS
<1> DEFINE f == Len(dec) + 1
           i == dcd.pos
           p == src[f].patches[i]
<1>1. UnitIs("intra")
  BY DEF DecodeIntra
<1>2. /\ Rebuilding /\ i \in NumMatched(f) + 1 .. Count(f)
      /\ f \in 1 .. Len(src) /\ Unit = UnitOf(f, i)
  BY <1>1, UnitIsFacts, UnitIsBuilt DEF AllExact
<1>3. /\ Count(f) \in Nat /\ NumMatched(f) \in Nat /\ p \in PatchSet
      /\ i \in 1 .. Count(f)
  <2>1. /\ Count(f) \in Nat /\ NumMatched(f) \in Nat
        /\ \A j \in 1 .. Count(f) : src[f].patches[j] \in PatchSet
    BY <1>2, FrameFacts DEF Inv
  <2>2. i \in 1 .. Count(f)
    BY <1>2, <2>1
  <2> QED
    BY <2>1, <2>2
<1>4. Rebuilt(dcd, f, i - 1) /\ dcd.prev = SizeAfter(f, i - 1)
  <2>1. i - 1 <= Count(f)
    BY <1>3
  <2> QED
    BY <1>2, <2>1, DcdFacts DEF AllExact
<1>5. IntraPatch(Unit, dcd.prev) = p
  BY <1>2, <1>4, IntraExact DEF Inv
<1>6. dcd \in DcdSet /\ p \in Patch /\ p.sizeU0 = SizeAfter(f, i)
  BY <1>2, <1>3, RebuildingFacts, PatchSubset DEF SizeAfter
<1> HIDE DEF p, f, i
<1>7. /\ dcd' = [dcd EXCEPT !.patches = Append(@, p), !.match = Append(@, 0),
                            !.pos = @ + 1, !.prev = p.sizeU0]
      /\ UNCHANGED <<src, pdg, enc, sent, rcvd, lost, dec>>
  BY <1>5 DEF DecodeIntra
<1>8. /\ dcd'.patches = Append(dcd.patches, p) /\ dcd'.pcm = dcd.pcm
      /\ dcd'.pos = dcd.pos + 1 /\ dcd'.prev = p.sizeU0
  BY <1>6, <1>7 DEF DcdSet
<1>9. Rebuilt(dcd', f, i)
  BY <1>2, <1>3, <1>4, <1>6, <1>8, OneMorePatch DEF p
<1> QED
  BY <1>2, <1>6, <1>7, <1>8, <1>9, ExactStep DEF f, i

\* Rebuilding an inter patch keeps the frame equal to the packed one.
LEMMA ExactInter == Exact /\ Inv /\ AllExact /\ DecodeInter => AllExact'
<1> SUFFICES ASSUME Exact, Inv, AllExact, DecodeInter PROVE AllExact'
  OBVIOUS
<1> DEFINE f == Len(dec) + 1
           i == dcd.pos
           p == src[f].patches[i]
           best == Unit.idx + dcd.pred
<1>1. UnitIs("inter")
  BY DEF DecodeInter
<1>2. /\ Rebuilding /\ i \in 1 .. NumMatched(f)
      /\ f \in 1 .. Len(src) /\ Unit = [UnitOf(f, i) EXCEPT !.lod = 0]
  BY <1>1, UnitIsFacts, UnitIsBuilt DEF AllExact
<1>3. /\ Count(f) \in Nat /\ NumMatched(f) \in Nat /\ p \in PatchSet
      /\ i \in 1 .. Count(f)
  <2>1. /\ Count(f) \in Nat /\ NumMatched(f) \in Nat /\ NumMatched(f) <= Count(f)
        /\ \A j \in 1 .. Count(f) : src[f].patches[j] \in PatchSet
    BY <1>2, FrameFacts DEF Inv
  <2>2. i \in 1 .. Count(f)
    BY <1>2, <2>1
  <2> QED
    BY <2>1, <2>2
<1>4. Rebuilt(dcd, f, i - 1)
  BY <1>2, DcdFacts DEF AllExact
<1>5. InterPatch(Unit, dec[Len(dec)].patches[best + 1]) = p
  <2>1. /\ f - 1 = Len(dec) /\ f - 1 \in 1 .. Len(dec)
        /\ best = src[f].match[i]
    BY <1>1, InterBest
  <2>2. dec[f - 1].patches = src[f - 1].patches
    BY <2>1 DEF AllExact, DecExact
  <2>3. dec[Len(dec)].patches[best + 1] = RefOf(f, i)
    BY <2>1, <2>2 DEF RefOf
  <2> QED
    BY <1>2, <2>3, InterExact DEF Inv
<1>6. dcd \in DcdSet /\ p \in Patch /\ p.sizeU0 = SizeAfter(f, i)
  BY <1>2, <1>3, RebuildingFacts, PatchSubset DEF SizeAfter
<1> HIDE DEF p, f, i
<1>7. /\ dcd' = [dcd EXCEPT !.patches = Append(@, p), !.match = Append(@, best),
                            !.pos = @ + 1, !.pred = @ + Unit.idx + 1,
                            !.prev = p.sizeU0]
      /\ UNCHANGED <<src, pdg, enc, sent, rcvd, lost, dec>>
  BY <1>5 DEF DecodeInter
<1> HIDE DEF best
<1>8. /\ dcd'.patches = Append(dcd.patches, p) /\ dcd'.pcm = dcd.pcm
      /\ dcd'.pos = dcd.pos + 1 /\ dcd'.prev = p.sizeU0
  BY <1>6, <1>7 DEF DcdSet
<1>9. Rebuilt(dcd', f, i)
  BY <1>2, <1>3, <1>4, <1>6, <1>8, OneMorePatch DEF p
<1> QED
  BY <1>2, <1>6, <1>7, <1>8, <1>9, ExactStep DEF f, i

\* Rebuilding a missed points patch keeps the frame equal to the packed one.
LEMMA ExactPcm == Exact /\ Inv /\ AllExact /\ DecodePcm => AllExact'
<1> SUFFICES ASSUME Exact, Inv, AllExact, DecodePcm PROVE AllExact'
  OBVIOUS
<1> DEFINE f == Len(dec) + 1
           i == dcd.pos
           n == Count(f)
           m == src[f].pcm[i - n]
<1>1. UnitIs("pcm")
  BY DEF DecodePcm
<1>2. /\ Rebuilding /\ i \in n + 1 .. NumUnits(f) - 1
      /\ f \in 1 .. Len(src) /\ Unit = UnitOf(f, i)
  BY <1>1, UnitIsFacts, UnitIsBuilt DEF AllExact
<1>3. /\ n \in Nat /\ NumMatched(f) \in Nat /\ NumMatched(f) <= n
      /\ NumUnits(f) \in Nat /\ Len(src[f].pcm) \in Nat
      /\ \A j \in 1 .. Len(src[f].pcm) : src[f].pcm[j] \in PcmSet
  BY <1>2, FrameFacts DEF Inv
<1>4. NumUnits(f) = n + Len(src[f].pcm) + 1
  BY DEF NumUnits
<1>5. Rebuilt(dcd, f, i - 1) /\ dcd \in DcdSet
  BY <1>2, DcdFacts, RebuildingFacts DEF AllExact
<1>6. PcmPatch(Unit) = m /\ m \in PcmSet
  <2> DEFINE count == Len(src[f].pcm)
             total == NumUnits(f)
             matched == NumMatched(f)
  <2>3. /\ n \in Nat /\ matched \in Nat /\ matched <= n /\ total = n + count + 1
        /\ count \in Nat /\ i \in n + 1 .. total - 1
    BY <1>2, <1>3, <1>4
  <2> HIDE DEF n, count, total, matched, i
  <2>1. i - n \in 1 .. count /\ ~(i <= n) /\ ~(i <= matched) /\ i < total
    BY <2>3
  <2>2. Unit = PcmUnit(PcmMode(f), m)
    BY <1>2, <2>1 DEF UnitOf, n, total, matched
  <2> QED
    BY <1>3, <2>1, <2>2, PcmExact DEF count
<1>7. m \in Missed /\ dcd.pcm \in Seq(Missed)
  BY <1>5, <1>6, PatchSubset DEF DcdSet
<1> HIDE DEF m
<1>8. /\ dcd' = [dcd EXCEPT !.pcm = Append(@, m), !.pos = @ + 1]
      /\ UNCHANGED <<src, pdg, enc, sent, rcvd, lost, dec>>
  BY <1>6 DEF DecodePcm
<1>9. /\ dcd'.patches = dcd.patches /\ dcd'.pcm = Append(dcd.pcm, m)
      /\ dcd'.pos = dcd.pos + 1
  BY <1>5, <1>8 DEF DcdSet
<1> DEFINE c == Len(dcd.pcm)
<1>10. /\ Len(dcd.patches) = n /\ c = i - 1 - n
       /\ i - 1 - n \in Nat
       /\ \A j \in 1 .. n : dcd.patches[j] = src[f].patches[j]
       /\ \A j \in 1 .. c : dcd.pcm[j] = src[f].pcm[j]
  <2> DEFINE total == NumUnits(f)
  <2>1. /\ n \in Nat /\ total \in Nat /\ i \in n + 1 .. total - 1
    BY <1>2, <1>3
  <2>2. /\ Len(dcd.patches) = IF i - 1 <= n THEN i - 1 ELSE n
        /\ \A j \in 1 .. Len(dcd.patches) : dcd.patches[j] = src[f].patches[j]
        /\ c = IF i - 1 <= n THEN 0 ELSE i - 1 - n
        /\ \A j \in 1 .. c : dcd.pcm[j] = src[f].pcm[j]
    BY <1>5 DEF Rebuilt
  <2> HIDE DEF n, total, i, c
  <2>3. /\ (IF i - 1 <= n THEN i - 1 ELSE n) = n
        /\ (IF i - 1 <= n THEN 0 ELSE i - 1 - n) = i - 1 - n
        /\ i - 1 - n \in Nat
    BY <2>1
  <2>4. Len(dcd.patches) = n /\ c = i - 1 - n
    BY <2>2, <2>3
  <2> QED
    BY <2>2, <2>3, <2>4
<1>11. /\ Len(dcd'.pcm) = c + 1
       /\ \A j \in 1 .. c : dcd'.pcm[j] = dcd.pcm[j]
       /\ dcd'.pcm[c + 1] = m
  BY <1>7, <1>9, AppendProperties
<1>12. /\ i - n = c + 1 /\ ~(i <= n) /\ c \in Nat
  <2>1. i \in Int /\ n \in Nat
    BY <1>2, <1>3
  <2> HIDE DEF i, n, c
  <2> QED
    BY <1>10, <2>1
<1>13. Rebuilt(dcd', f, i)
  <2>1. \A j \in 1 .. c + 1 : dcd'.pcm[j] = src[f].pcm[j]
    <3> SUFFICES ASSUME NEW j \in 1 .. c + 1 PROVE dcd'.pcm[j] = src[f].pcm[j]
      OBVIOUS
    <3>1. CASE j = c + 1
      BY <3>1, <1>11, <1>12 DEF m
    <3>2. CASE j # c + 1
      <4> HIDE DEF c
      <4>1. j \in 1 .. c
        BY <3>2, <1>12
      <4> QED
        BY <4>1, <1>10, <1>11
    <3> QED
      BY <3>1, <3>2
  <2>2. \A j \in 1 .. Len(dcd'.patches) : dcd'.patches[j] = src[f].patches[j]
    BY <1>9, <1>10
  <2> HIDE DEF f, i, c
  <2> QED
    BY <1>9, <1>10, <1>11, <1>12, <2>1, <2>2 DEF Rebuilt
<1> QED
  BY <1>2, <1>8, <1>9, <1>12, <1>13, ExactStep
\* Two sequences with the same elements, whatever sets they are typed by.
LEMMA SameSeq ==
  ASSUME NEW A, NEW B, NEW s \in Seq(A), NEW t \in Seq(B), Len(s) = Len(t),
         \A i \in 1 .. Len(t) : s[i] = t[i]
  PROVE  s = t
<1>1. s \in [1 .. Len(t) -> A] /\ t \in [1 .. Len(t) -> B]
  BY LenProperties
<1> QED
  BY <1>1

\* At the end of its tile group the frame is the packed one, complete.
LEMMA ExactEnd ==
  Exact /\ Inv /\ AllExact /\ DecodeEnd =>
    /\ AllExact'
    /\ dcd.patches = src[Len(dec) + 1].patches
    /\ dcd.pcm = src[Len(dec) + 1].pcm
<1> SUFFICES ASSUME Exact, Inv, AllExact, DecodeEnd
             PROVE  /\ AllExact'
                    /\ dcd.patches = src[Len(dec) + 1].patches
                    /\ dcd.pcm = src[Len(dec) + 1].pcm
  OBVIOUS
<1> DEFINE f == Len(dec) + 1
           i == dcd.pos
           n == Count(f)
           c == Len(src[f].pcm)
<1>1. /\ Rebuilding /\ i > Len(Group.pids)
      /\ dec' = Append(dec, [patches |-> dcd.patches, match |-> dcd.match,
                             pcm |-> dcd.pcm])
      /\ dcd' = DecStart /\ UNCHANGED <<src, pdg, enc, sent, rcvd, lost>>
  BY DEF DecodeEnd
<1>2. /\ f \in 1 .. Len(src) /\ i \in 1 .. NumUnits(f) /\ dcd \in DcdSet
      /\ Len(Group.pids) = NumUnits(f) - 1 /\ dec \in Seq(DecFrame)
      /\ Len(dec) \in Nat
  BY <1>1, RebuildingFacts
<1>3. /\ n \in Nat /\ c \in Nat /\ NumUnits(f) = n + c + 1 /\ src[f] \in SrcFrame
  BY <1>2, FrameFacts DEF Inv, NumUnits
<1>4. i - 1 = n + c
  <2> DEFINE total == NumUnits(f)
  <2>1. /\ n \in Nat /\ c \in Nat /\ total = n + c + 1 /\ i \in 1 .. total
        /\ i > total - 1
    BY <1>1, <1>2, <1>3
  <2> HIDE DEF i, n, c, total
  <2> QED
    BY <2>1
<1>5. Rebuilt(dcd, f, i - 1)
  BY <1>1, DcdFacts DEF AllExact
<1>6. /\ Len(dcd.patches) = n /\ Len(dcd.pcm) = c
  <2>1. /\ Len(dcd.patches) = IF n + c <= n THEN n + c ELSE n
        /\ Len(dcd.pcm) = IF n + c <= n THEN 0 ELSE n + c - n
    BY <1>4, <1>5 DEF Rebuilt
  <2> HIDE DEF n, c
  <2> QED
    BY <1>3, <2>1
<1>7. /\ \A j \in 1 .. n : dcd.patches[j] = src[f].patches[j]
      /\ \A j \in 1 .. c : dcd.pcm[j] = src[f].pcm[j]
  BY <1>5, <1>6 DEF Rebuilt
<1>8. dcd.patches = src[f].patches
  <2>1. dcd.patches \in Seq(Patch) /\ src[f].patches \in Seq(PatchSet)
    BY <1>2, <1>3 DEF DcdSet, SrcFrame
  <2>2. Len(src[f].patches) = n
    BY DEF Count
  <2> HIDE DEF n, f
  <2> QED
    BY <1>6, <1>7, <2>1, <2>2, SameSeq
<1>9. dcd.pcm = src[f].pcm
  <2>1. dcd.pcm \in Seq(Missed) /\ src[f].pcm \in Seq(PcmSet)
    BY <1>2, <1>3 DEF DcdSet, SrcFrame
  <2>2. Len(src[f].pcm) = c
    OBVIOUS
  <2> HIDE DEF c, f
  <2> QED
    BY <1>6, <1>7, <2>1, <2>2, SameSeq
<1> DEFINE frame == [patches |-> dcd.patches, match |-> dcd.match, pcm |-> dcd.pcm]
<1>10. frame \in DecFrame /\ frame.patches = src[f].patches /\ frame.pcm = src[f].pcm
  BY <1>2, <1>8, <1>9 DEF DcdSet, DecFrame
<1> HIDE DEF frame
<1>11. /\ Len(dec') = Len(dec) + 1
       /\ \A g \in 1 .. Len(dec) : dec'[g] = dec[g]
       /\ dec'[Len(dec) + 1] = frame
  <2>1. dec' = Append(dec, frame)
    BY <1>1 DEF frame
  <2> QED
    BY <2>1, <1>2, <1>10, AppendProperties
<1>12. DecExact'
  <2> SUFFICES ASSUME NEW g \in 1 .. Len(dec')
               PROVE  dec'[g].patches = src'[g].patches /\ dec'[g].pcm = src'[g].pcm
    BY DEF DecExact
  <2>1. CASE g = f
    BY <2>1, <1>1, <1>10, <1>11
  <2>2. CASE g # f
    <3>1. g \in 1 .. Len(dec) /\ dec'[g] = dec[g]
      BY <2>2, <1>2, <1>11
    <3> QED
      BY <3>1, <1>1 DEF AllExact, DecExact
  <2> QED
    BY <2>1, <2>2
<1>13. Matched' /\ DcdExact'
  BY <1>1 DEF AllExact, Matched, DcdExact
<1> QED
  BY <1>8, <1>9, <1>12, <1>13 DEF AllExact

\* Steps of the encoder and the bitstream happen before any frame is rebuilt.
LEMMA ExactBefore ==
  Inv /\ AllExact /\ (Pack \/ Encode \/ Transmit) => AllExact' /\ UNCHANGED dec
<1> SUFFICES ASSUME Inv, AllExact, Pack \/ Encode \/ Transmit
             PROVE  AllExact' /\ UNCHANGED dec
  OBVIOUS
<1>1. UNCHANGED <<dec, dcd>>
  BY DEF Pack, PackFrame, Encode, BuildInter, BuildIntra, BuildPcm, BuildEnd,
         Transmit, WriteGroup, ParseGroup
<1>2. Matched'
  BY MatchedStep DEF AllExact, Next
<1>3. ~Rebuilding \/ UNCHANGED <<src, rcvd, lost>>
  <2>1. CASE Encode \/ WriteGroup
    BY <2>1 DEF Encode, BuildInter, BuildIntra, BuildPcm, BuildEnd, WriteGroup
  <2>2. CASE ParseGroup
    <3>1. Len(rcvd) < NumFrames
      BY <2>2, Zenon DEF ParseGroup
    <3>2. NumFrames \in Nat /\ Len(rcvd) \in Nat
      BY FrameAssumption, LenProperties DEF Inv, RcvdOK
    <3>3. Len(rcvd) # NumFrames
      BY <3>1, <3>2
    <3> QED
      BY <3>3 DEF Rebuilding
  <2>3. CASE Pack
    <3>1. Len(src) < NumFrames
      BY <2>3 DEF Pack, PackFrame
    <3>2. rcvd = <<>>
      BY <3>1 DEF Inv, PackFirst
    <3> QED
      BY <3>2, FrameAssumption DEF Rebuilding
  <2>4. Pack \/ Encode \/ WriteGroup \/ ParseGroup
    BY DEF Transmit
  <2> QED
    BY <2>1, <2>2, <2>3, <2>4, Zenon
<1>4. DcdExact'
  <2> SUFFICES ASSUME dcd # DecStart PROVE DcdExact'
    BY <1>1 DEF DcdExact
  <2>1. /\ Rebuilding
        /\ Rebuilt(dcd, Len(dec) + 1, dcd.pos - 1)
        /\ dcd.pos - 1 <= Count(Len(dec) + 1) =>
             dcd.prev = SizeAfter(Len(dec) + 1, dcd.pos - 1)
    BY DEF AllExact, DcdExact
  <2>2. src' = src /\ Rebuilding'
    BY <1>1, <1>3, <2>1 DEF Rebuilding
  <2> QED
    BY <1>1, <2>1, <2>2, Static DEF DcdExact, Rebuilt
<1>5. DecExact'
  <2>1. CASE src' = src
    BY <1>1, <2>1 DEF AllExact, DecExact
  <2>2. CASE src' # src
    <3>1. Pack
      BY <2>2 DEF Encode, BuildInter, BuildIntra, BuildPcm, BuildEnd, Transmit,
                  WriteGroup, ParseGroup
    <3>2. Len(src) < NumFrames
      BY <3>1 DEF Pack, PackFrame
    <3>3. Len(dec') = 0
      BY <1>1, <3>2 DEF Inv, PackFirst
    <3> QED
      BY <3>3 DEF DecExact
  <2> QED
    BY <2>1, <2>2
<1> QED
  BY <1>1, <1>2, <1>4, <1>5 DEF AllExact

\* Every step keeps the decoder's frames equal to the packed ones.
LEMMA ExactNext == Exact /\ Inv /\ AllExact /\ [Next]_vars => AllExact'
<1> SUFFICES ASSUME Exact, Inv, AllExact, [Next]_vars PROVE AllExact'
  OBVIOUS
<1>1. CASE Pack \/ Encode \/ Transmit
  BY <1>1, ExactBefore
<1>2. CASE Decode
  <2>1. ~DecodeUnknown
    BY UnitIsBuilt DEF DecodeUnknown, AllExact
  <2> QED
    BY <1>2, <2>1, ExactIntra, ExactInter, ExactPcm, ExactEnd DEF Decode
<1>3. CASE UNCHANGED vars
  BY <1>3, Static DEF vars, AllExact, Matched, DecExact, DcdExact, Rebuilt, Rebuilding
<1> QED
  BY <1>1, <1>2, <1>3 DEF Next, Terminated

\* createPatchFrameDataStructure of encoder and decoder are inverse to each
\* other through the bitstream: every patch and missed points patch is rebuilt
\* as it was packed, however long the chain of inter frames.
THEOREM LosslessHolds == ASSUME Exact PROVE Spec => []Lossless
<1>1. Init => AllExact
  BY DEF Init, AllExact, Matched, DecExact, DcdExact
<1>2. Inv /\ AllExact /\ [Next]_vars => AllExact'
  BY ExactNext
<1>3. ASSUME Inv, AllExact PROVE Lossless
  BY <1>3, LenProperties DEF Inv, DecOK, AllExact, DecExact, Lossless
<1> QED
  BY <1>1, <1>2, <1>3, InvHolds, PTL DEF Spec

-----------------------------------------------------------------------------
(***************************************************************************)
(* The codec implements the transfer of frames: packing a frame gives it   *)
(* to the transfer, the end of its decoding delivers it, and every other   *)
(* step leaves the transfer as it is.                                      *)
(***************************************************************************)
Carry(frame) == [patches |-> frame.patches, pcm |-> frame.pcm]

\* A frame appended to a list is carried behind those carried before.
LEMMA CarriedAppend ==
  ASSUME NEW S, NEW s \in Seq(S), NEW e
  PROVE  Carried(Append(s, e)) = Append(Carried(s), Carry(e))
<1> DEFINE t == Append(s, e)
           c == [f \in 1 .. Len(s) |-> Carry(s[f])]
<1>1. /\ Len(s) \in Nat
      /\ DOMAIN s = 1 .. Len(s)
      /\ DOMAIN t = 1 .. Len(s) + 1
      /\ \A f \in 1 .. Len(s) : t[f] = s[f]
      /\ t[Len(s) + 1] = e
  <2>1. s \in Seq(S \cup {e}) /\ e \in S \cup {e}
    BY SeqMonotonic
  <2> QED
    BY <2>1, AppendProperties, LenProperties
<1> HIDE DEF t
<1>2. Carried(s) = c
  BY <1>1 DEF Carried, Carry
<1>3. Carried(t) = [f \in 1 .. Len(s) + 1 |-> Carry(t[f])]
  BY <1>1 DEF Carried, Carry
<1>4. /\ c \in Seq({Carry(s[f]) : f \in 1 .. Len(s)})
      /\ Len(c) = Len(s)
  BY <1>1
<1>5. Append(c, Carry(e)) =
        [f \in 1 .. Len(s) + 1 |-> IF f = Len(s) + 1 THEN Carry(e) ELSE c[f]]
  BY <1>1, <1>4
<1>6. \A f \in 1 .. Len(s) + 1 :
        Carry(t[f]) = IF f = Len(s) + 1 THEN Carry(e) ELSE c[f]
  BY <1>1
<1> HIDE DEF c
<1>7. Carried(t) = Append(c, Carry(e))
  BY <1>3, <1>5, <1>6
<1> QED
  BY <1>2, <1>7 DEF t

\* Packing a frame hands it to the transfer.
LEMMA PackTransfers == Inv /\ Pack => Transfer!PackOne
<1> SUFFICES ASSUME Inv, Pack PROVE Transfer!PackOne
  OBVIOUS
<1>1. PICK n \in 1 .. MaxPatches, k \in 0 .. MaxPcm :
        \E patches \in [1 .. n -> PatchSet], pcm \in [1 .. k -> PcmSet],
           match \in [1 .. n -> Invalid .. MaxPatches - 1], m \in 0 .. n :
          PackFrame(patches, match, m, pcm)
  BY DEF Pack
<1>2. PICK patches \in [1 .. n -> PatchSet], pcm \in [1 .. k -> PcmSet],
           match \in [1 .. n -> Invalid .. MaxPatches - 1], m \in 0 .. n :
             PackFrame(patches, match, m, pcm)
  BY <1>1
<1> DEFINE frame == [patches |-> patches, match |-> match,
                     numMatched |-> m, pcm |-> pcm]
<1>3. /\ Len(src) < NumFrames /\ src' = Append(src, frame) /\ UNCHANGED dec
      /\ src \in Seq(SrcFrame)
  BY <1>2 DEF PackFrame, Inv, SrcOK
<1>4. Carry(frame) = [patches |-> patches, pcm |-> pcm]
  BY DEF Carry
<1> HIDE DEF frame
<1>5. Carried(src') = Append(Carried(src), Carry(frame))
  BY <1>3, CarriedAppend
<1>6. Len(Carried(src)) = Len(src)
  BY <1>3, LenProperties DEF Carried
<1>7. Carry(frame) \in
        [patches : UNION {[1 .. j -> PatchSet] : j \in 1 .. MaxPatches},
         pcm : UNION {[1 .. j -> PcmSet] : j \in 0 .. MaxPcm}]
  <2> DEFINE A == UNION {[1 .. j -> PatchSet] : j \in 1 .. MaxPatches}
             B == UNION {[1 .. j -> PcmSet] : j \in 0 .. MaxPcm}
  <2>1. patches \in A
    OBVIOUS
  <2>2. pcm \in B
    OBVIOUS
  <2> HIDE DEF A, B
  <2>3. Carry(frame) \in [patches : A, pcm : B]
    BY <1>4, <2>1, <2>2
  <2> QED
    BY <2>3 DEF A, B
<1>8. UNCHANGED Carried(dec)
  BY <1>3 DEF Carried
<1> QED
  BY <1>3, <1>5, <1>6, <1>7, <1>8 DEF Transfer!PackOne

\* The end of a frame's decoding delivers the frame packed in its place.
LEMMA EndTransfers == Exact /\ Inv /\ AllExact /\ DecodeEnd => Transfer!DeliverOne
<1> SUFFICES ASSUME Exact, Inv, AllExact, DecodeEnd PROVE Transfer!DeliverOne
  OBVIOUS
<1> DEFINE f == Len(dec) + 1
           frame == [patches |-> dcd.patches, match |-> dcd.match,
                     pcm |-> dcd.pcm]
<1>1. /\ dcd.patches = src[f].patches
      /\ dcd.pcm = src[f].pcm
  BY ExactEnd
<1>2. /\ Rebuilding /\ UNCHANGED src
      /\ dec' = Append(dec, frame)
      /\ dec \in Seq(DecFrame)
      /\ src \in Seq(SrcFrame)
  BY DEF DecodeEnd, Inv, DecOK, SrcOK
<1>3. f \in 1 .. Len(src) /\ Len(src) = NumFrames
  BY <1>2, RebuildingFacts
<1>4. Carry(frame) = [patches |-> src[f].patches, pcm |-> src[f].pcm]
  BY <1>1 DEF Carry
<1> HIDE DEF frame
<1>5. Carried(dec') = Append(Carried(dec), Carry(frame))
  BY <1>2, CarriedAppend
<1>6. /\ Len(Carried(src)) = NumFrames
      /\ Len(Carried(dec)) = Len(dec)
      /\ Carried(src)[f] = Carry(frame)
  BY <1>2, <1>3, <1>4, LenProperties DEF Carried
<1>7. Len(dec) < NumFrames
  BY <1>2 DEF Rebuilding
<1>8. UNCHANGED Carried(src)
  BY <1>2 DEF Carried
<1> HIDE DEF f
<1>9. Carried(dec') = Append(Carried(dec), Carried(src)[f])
  BY <1>5, <1>6
<1> QED
  BY <1>6, <1>7, <1>8, <1>9 DEF Transfer!DeliverOne, f

\* All other steps work between the two ends.
LEMMA OthersTransfer ==
  [Next]_vars /\ ~Pack /\ ~DecodeEnd /\ ~DecodeUnknown => UNCHANGED <<src, dec>>
BY DEF Next, vars, Encode, BuildInter, BuildIntra, BuildPcm, BuildEnd, Transmit,
       WriteGroup, ParseGroup, Decode, DecodeIntra, DecodeInter, DecodePcm,
       Terminated

\* The codec is the transfer of the packed frames, in order, unchanged, each
\* once (the safety part of ImplementsTransfer).
THEOREM CodecTransfers == ASSUME Exact PROVE Spec => Transfer!Steps
<1>1. Init => AllExact
  BY DEF Init, AllExact, Matched, DecExact, DcdExact
<1>2. Inv /\ AllExact /\ [Next]_vars => AllExact'
  BY ExactNext
<1>3. Init => Transfer!Init
  BY DEF Init, Transfer!Init, Carried
<1>4. Inv /\ AllExact /\ [Next]_vars => [Transfer!Next]_(Transfer!vars)
  <2> SUFFICES ASSUME Inv, AllExact, [Next]_vars
               PROVE  Transfer!Next \/ UNCHANGED Transfer!vars
    OBVIOUS
  <2>1. CASE Pack
    BY <2>1, PackTransfers DEF Transfer!Next
  <2>2. CASE DecodeEnd
    BY <2>2, EndTransfers DEF Transfer!Next
  <2>3. CASE ~Pack /\ ~DecodeEnd
    <3>1. ~DecodeUnknown
      BY UnitIsBuilt DEF DecodeUnknown, AllExact
    <3>2. UNCHANGED <<src, dec>>
      BY <2>3, <3>1, OthersTransfer
    <3> QED
      BY <3>2 DEF Transfer!vars, Carried
  <2> QED
    BY <2>1, <2>2, <2>3
<1> QED
  BY <1>1, <1>2, <1>3, <1>4, InvHolds, PTL DEF Spec, Transfer!Steps
=============================================================================
