---------------------------- MODULE PackingProofs ----------------------------
(***************************************************************************)
(* Packing keeps its types, matches patches as the patch coder expects and *)
(* lays them so that encoder and decoder agree on the owner of each block, *)
(* whatever the shapes, the options and the bounds are.                    *)
(***************************************************************************)
EXTENDS Packing, DataLemmas, FunctionTheorems, FiniteSetTheorems, TLAPS

-----------------------------------------------------------------------------
(***************************************************************************)
(* The geometry of one patch.                                              *)
(***************************************************************************)
\* What the geometry needs to know of a patch, a missed points patch included.
Solid(p) ==
  /\ p.u0 \in Int /\ p.v0 \in Int
  /\ p.shape.w \in Nat \ {0} /\ p.shape.h \in Nat \ {0}
  /\ p.turn \in Turns
  /\ p.shape.occ \subseteq (0 .. p.shape.w - 1) \X (0 .. p.shape.h - 1)

LEMMA TurnFields ==
  ASSUME NEW t \in Turns
  PROVE  t.swap \in BOOLEAN /\ t.flipX \in BOOLEAN /\ t.flipY \in BOOLEAN
BY DEF Turns

\* The box of a patch has the size that its orientation gives it.
LEMMA BoxBounds ==
  ASSUME NEW p, Solid(p)
  PROVE  /\ BoxW(p) \in Nat \ {0} /\ BoxH(p) \in Nat \ {0}
         /\ Box(p) \subseteq (p.u0 .. p.u0 + BoxW(p) - 1)
                               \X (p.v0 .. p.v0 + BoxH(p) - 1)
<1>1. p.turn.swap \in BOOLEAN /\ p.turn.flipX \in BOOLEAN
        /\ p.turn.flipY \in BOOLEAN
  BY TurnFields DEF Solid
<1>2. BoxW(p) \in Nat \ {0} /\ BoxH(p) \in Nat \ {0}
  BY DEF Solid, BoxW, BoxH
<1>3. ASSUME NEW u \in 0 .. p.shape.w - 1, NEW v \in 0 .. p.shape.h - 1
      PROVE  CanvasBlock(p, u, v) \in (p.u0 .. p.u0 + BoxW(p) - 1)
                                        \X (p.v0 .. p.v0 + BoxH(p) - 1)
  <2>1. CASE p.turn.swap
    BY <2>1, <1>1 DEF CanvasBlock, Solid, BoxW, BoxH
  <2>2. CASE ~p.turn.swap
    BY <2>2, <1>1 DEF CanvasBlock, Solid, BoxW, BoxH
  <2> QED
    BY <2>1, <2>2
<1> QED
  BY <1>2, <1>3 DEF Box

\* The occupied blocks lie in the box.
LEMMA OccInBox ==
  ASSUME NEW p, Solid(p)
  PROVE  Occ(p) \subseteq Box(p)
<1>1. ASSUME NEW b \in p.shape.occ
      PROVE  CanvasBlock(p, b[1], b[2]) \in Box(p)
  <2>1. b[1] \in 0 .. p.shape.w - 1 /\ b[2] \in 0 .. p.shape.h - 1
    BY DEF Solid
  <2> QED
    BY <2>1 DEF Box
<1> QED
  BY <1>1 DEF Occ

\* The far corner of the box belongs to it.
LEMMA BoxCorner ==
  ASSUME NEW p, Solid(p)
  PROVE  <<p.u0 + BoxW(p) - 1, p.v0 + BoxH(p) - 1>> \in Box(p)
<1> DEFINE x == IF p.turn.flipX THEN 0 ELSE BoxW(p) - 1
           y == IF p.turn.flipY THEN 0 ELSE BoxH(p) - 1
           u == IF p.turn.swap THEN y ELSE x
           v == IF p.turn.swap THEN x ELSE y
<1>1. p.turn.swap \in BOOLEAN /\ p.turn.flipX \in BOOLEAN
        /\ p.turn.flipY \in BOOLEAN
  BY TurnFields DEF Solid
<1>2. x \in 0 .. BoxW(p) - 1 /\ y \in 0 .. BoxH(p) - 1
  BY BoxBounds
<1>3. u \in 0 .. p.shape.w - 1 /\ v \in 0 .. p.shape.h - 1
  BY <1>1, <1>2 DEF BoxW, BoxH
<1>4. CanvasBlock(p, u, v)
        = <<p.u0 + (IF p.turn.flipX THEN BoxW(p) - 1 - x ELSE x),
            p.v0 + (IF p.turn.flipY THEN BoxH(p) - 1 - y ELSE y)>>
  BY <1>1 DEF CanvasBlock
<1>5. /\ p.u0 + (IF p.turn.flipX THEN BoxW(p) - 1 - x ELSE x)
           = p.u0 + BoxW(p) - 1
      /\ p.v0 + (IF p.turn.flipY THEN BoxH(p) - 1 - y ELSE y)
           = p.v0 + BoxH(p) - 1
  BY <1>1, BoxBounds DEF Solid
<1> QED
  BY <1>3, <1>4, <1>5 DEF Box

\* A patch that fits lies on the canvas, with its whole box on free blocks.
LEMMA FitsOnFree ==
  ASSUME NEW p, Solid(p), NEW c, NEW guard \in Nat, Fits(p, c, guard)
  PROVE  /\ Box(p) \subseteq (0 .. c.U - 1) \X (0 .. c.V - 1)
         /\ Box(p) \cap c.occ = {}
<1>1. ASSUME NEW u \in 0 .. p.shape.w - 1, NEW v \in 0 .. p.shape.h - 1
      PROVE  /\ CanvasBlock(p, u, v) \in (0 .. c.U - 1) \X (0 .. c.V - 1)
             /\ CanvasBlock(p, u, v) \notin c.occ
  <2>1. u \in -guard .. p.shape.w - 1 + guard
          /\ v \in -guard .. p.shape.h - 1 + guard
    BY DEF Solid
  <2> QED
    BY <2>1 DEF Fits
<1> QED
  BY <1>1 DEF Box

\* So the extent of the canvas covers it.
LEMMA FitsExtent ==
  ASSUME NEW p, Solid(p), NEW c, c.U \in Int, c.V \in Int,
         NEW guard \in Nat, Fits(p, c, guard)
  PROVE  /\ p.u0 + BoxW(p) \in 1 .. c.U
         /\ p.v0 + BoxH(p) \in 1 .. c.V
<1> DEFINE a == p.u0 + BoxW(p) - 1
           b == p.v0 + BoxH(p) - 1
<1>1. <<a, b>> \in (0 .. c.U - 1) \X (0 .. c.V - 1)
  BY BoxCorner, FitsOnFree
<1>2. a \in 0 .. c.U - 1 /\ b \in 0 .. c.V - 1
  BY <1>1
<1>3. BoxW(p) \in Int /\ BoxH(p) \in Int /\ p.u0 \in Int /\ p.v0 \in Int
  BY BoxBounds DEF Solid
<1> QED
  BY <1>2, <1>3

-----------------------------------------------------------------------------
(***************************************************************************)
(* The size of the canvas.                                                 *)
(***************************************************************************)
\* A finite set of numbers that is not empty has a largest: otherwise take a
\* smallest subset without one, and a number out of it.
LEMMA FiniteHasLargest ==
  ASSUME NEW S, S \subseteq Nat, IsFiniteSet(S), S # {}
  PROVE  LargestOf(S) \in S /\ \A n \in S : n <= LargestOf(S)
<1> DEFINE HasLargest(T) == \E n \in T : \A m \in T : n >= m
           Bad == {T \in SUBSET S : T # {} /\ ~HasLargest(T)}
<1>1. Bad = {}
  <2> SUFFICES ASSUME Bad # {}
               PROVE  FALSE
    OBVIOUS
  <2>1. IsWellFoundedOn(StrictSubsetOrdering(S), SUBSET S)
    BY FS_StrictSubsetOrderingWellFounded, FS_FiniteSubsetsOfFinite
  <2>2. Bad \subseteq SUBSET S
    OBVIOUS
  <2> HIDE DEF Bad
  <2>3. PICK T \in Bad : \A U \in Bad : <<U, T>> \notin StrictSubsetOrdering(S)
    BY <2>1, <2>2, WFMin
  <2> USE DEF Bad
  <2>4. PICK x \in T : TRUE
    OBVIOUS
  <2>5. T \ {x} \notin Bad
    <3>1. <<T \ {x}, T>> \in StrictSubsetOrdering(S)
      BY <2>4 DEF StrictSubsetOrdering
    <3> QED
      BY <2>3, <3>1
  <2>6. CASE T \ {x} = {}
    BY <2>4, <2>6
  <2>7. CASE HasLargest(T \ {x})
    <3>1. PICK n \in T \ {x} : \A m \in T \ {x} : n >= m
      BY <2>7
    <3>2. n \in Nat /\ x \in Nat
      BY <2>4
    <3>3. CASE n >= x
      BY <3>1, <3>2, <3>3
    <3>4. CASE x > n
      BY <3>1, <3>2, <3>4, <2>4
    <3> QED
      BY <3>2, <3>3, <3>4
  <2> QED
    BY <2>5, <2>6, <2>7
<1>2. HasLargest(S)
  BY <1>1
<1> QED
  BY <1>2 DEF LargestOf

LEMMA PatchFields ==
  ASSUME NEW p \in PatchSet
  PROVE  /\ p.shape \in Shapes /\ p.match \in Int /\ p.turn \in Turns
         /\ p.shape.w \in Nat \ {0} /\ p.shape.h \in Nat \ {0}
         /\ p.shape.occ \subseteq (0 .. p.shape.w - 1) \X (0 .. p.shape.h - 1)
         /\ p = [shape |-> p.shape, match |-> p.match, u0 |-> p.u0,
                 v0 |-> p.v0, turn |-> p.turn]
         /\ Solid(p)
<1>1. p.shape \in [w : Nat \ {0}, h : Nat \ {0}, occ : SUBSET (Nat \X Nat),
                   view : Nat, at : Nat]
  BY PackingAssumption DEF PatchSet
<1> QED
  BY <1>1, PackingAssumption DEF PatchSet, Solid

\* The canvas a list of patches starts with is wide enough for all of them.
LEMMA StartUType ==
  ASSUME NEW ps \in Seq(PatchSet)
  PROVE  StartU(ps) \in Nat \ {0}
<1> DEFINE f == [i \in 1 .. Len(ps) |-> ps[i].shape.w + 1]
           W == {ps[i].shape.w + 1 : i \in DOMAIN ps}
<1>0. DOMAIN ps = 1 .. Len(ps)
        /\ \A i \in 1 .. Len(ps) : ps[i].shape.w + 1 \in Nat
  <2>1. \A i \in 1 .. Len(ps) : ps[i] \in PatchSet
    OBVIOUS
  <2> QED
    BY <2>1, PatchFields
<1>1. f \in [1 .. Len(ps) -> Nat] /\ Range(f) = W
  BY <1>0 DEF Range
<1>2. IsFiniteSet(W)
  <2>1. f \in Surjection(1 .. Len(ps), W)
    BY ZenonT(40), <1>1, Fun_RangeProperties
  <2>2. IsFiniteSet(1 .. Len(ps))
    BY FS_Interval
  <2> QED
    BY <2>1, <2>2, FS_Surjection
<1>3. IsFiniteSet({MinU} \cup W)
  <2>1. IsFiniteSet({MinU})
    BY FS_Singleton
  <2> HIDE DEF W
  <2> QED
    BY <1>2, <2>1, FS_Union
<1>4. {MinU} \cup W \subseteq Nat /\ MinU \in Nat \ {0}
  BY <1>0, PackingAssumption
<1>5. StartU(ps) = LargestOf({MinU} \cup W)
  BY DEF StartU
<1> HIDE DEF W
<1>6. LargestOf({MinU} \cup W) \in {MinU} \cup W
        /\ MinU <= LargestOf({MinU} \cup W)
  BY <1>3, <1>4, FiniteHasLargest
<1> QED
  BY <1>4, <1>5, <1>6

LEMMA StartVType ==
  ASSUME NEW ps \in Seq(PatchSet), ps # <<>>
  PROVE  StartV(ps) \in Nat
<1>1. ps[1] \in PatchSet
  OBVIOUS
<1> QED
  BY <1>1, PatchFields, PackingAssumption DEF StartV, MaxOf

LEMMA CeilDivType ==
  ASSUME NEW a \in Nat \ {0}, NEW b \in Nat \ {0}
  PROVE  CeilDiv(a, b) \in Nat \ {0}
<1>1. a + b - 1 \in Nat /\ a + b - 1 >= b
  OBVIOUS
<1>2. (a + b - 1) \div b \in Nat
  BY <1>1
<1>3. a + b - 1 < ((a + b - 1) \div b) * b + b
  BY <1>1
<1>4. ((a + b - 1) \div b) # 0
  BY <1>1, <1>3
<1> QED
  BY <1>2, <1>4 DEF CeilDiv

-----------------------------------------------------------------------------
(***************************************************************************)
(* The inductive invariant.                                                *)
(***************************************************************************)
\* The first n patches of ps and the first k missed points patches of ms lie in
\* an image of width U: the patches above row, the missed points below it, and
\* what one patch occupies is outside of the boxes of those placed after it.
Layout(ps, n, ms, k, U, row, height) ==
  /\ \A i \in 1 .. n : Box(ps[i]) \subseteq (0 .. U - 1) \X (0 .. row - 1)
  /\ \A i, j \in 1 .. n : i < j => Occ(ps[i]) \cap Box(ps[j]) = {}
  /\ \A i \in 1 .. k :
       /\ ms[i].w \in Nat \ {0} /\ ms[i].h \in Nat \ {0}
       /\ Box(MissedPatch(ms[i])) \subseteq (0 .. U - 1) \X (row .. height - 1)
  /\ \A i, j \in 1 .. k :
       i < j => Occ(MissedPatch(ms[i])) \cap Box(MissedPatch(ms[j])) = {}

FrameLayout(f) ==
  /\ f.laid <= Len(f.missed)
  /\ \E row \in 0 .. f.height :
       Layout(f.patches, Len(f.patches), f.missed, f.laid, f.width, row,
              f.height)
FramesLayout == \A k \in 1 .. Len(frames) : FrameLayout(frames[k])

\* The patches and missed points patches that lie on the canvas.
Lying == IF phase = "place" THEN placed ELSE Len(patches)
LyingMissed == IF phase = "missed" THEN placed ELSE 0

LayInv ==
  phase \in {"place", "missed"} =>
    /\ canvas.U > 0 /\ canvas.width = canvas.U /\ canvas.row <= canvas.height
    /\ Lying <= Len(patches) /\ LyingMissed <= Len(missed)
    /\ Layout(patches, Lying, missed, LyingMissed, canvas.U, canvas.row,
              canvas.height)
    /\ \A i \in 1 .. Lying : Occ(patches[i]) \subseteq canvas.occ
    /\ \A i \in 1 .. LyingMissed : Occ(MissedPatch(missed[i])) \subseteq canvas.occ

\* What has been matched so far: the matches rise, and everything that is not
\* in the list of matched patches has no match.
Matching ==
  /\ frames # <<>> /\ opt.constrained /\ id <= Len(Prev) /\ placed = 0
  /\ \A k \in 1 .. Len(matched) :
       /\ patches[matched[k]].match \in 0 .. id - 1
       /\ Prev[patches[matched[k]].match + 1].shape.view
            = patches[matched[k]].shape.view
  /\ \A k, l \in 1 .. Len(matched) :
       k < l => patches[matched[k]].match < patches[matched[l]].match
  /\ \A i \in 1 .. Len(patches) :
       \/ patches[i].match = Invalid
       \/ \E k \in 1 .. Len(matched) : matched[k] = i
  /\ NoneBetter(Prev, patches, id)

\* All of the frame before has been matched.
Matched ==
  /\ MatchesValid(Len(frames) + 1, patches, Len(matched))
  /\ opt.constrained /\ frames # <<>> => NoneBetter(Prev, patches, Len(Prev))

MatchInv ==
  /\ phase = "match" => Matching
  /\ phase \in {"place", "missed"} => Matched

IsRecord(c) ==
  c = [U |-> c.U, V |-> c.V, occ |-> c.occ, horizon |-> c.horizon,
       width |-> c.width, height |-> c.height, row |-> c.row]

\* A frame in progress is one of the group.
InProgress == phase # "segment" => Len(frames) < PackFrames

TypeInv == PackingTypeOK /\ IsRecord(canvas) /\ InProgress
PackInv ==
  TypeInv /\ MatchInv /\ LayInv /\ FramesLayout /\ MatchingValid /\ NoBetterLeft

\* The properties of a layout that the runs check follow from the invariant:
\* of the boxes that hold an occupied block, its own is the last in the list.
LEMMA MissedSolid ==
  ASSUME NEW m \in MissedSet, m.w \in Nat \ {0}, m.h \in Nat \ {0}
  PROVE  /\ Solid(MissedPatch(m))
         /\ MissedPatch(m).u0 = m.u0 /\ MissedPatch(m).v0 = m.v0
         /\ BoxW(MissedPatch(m)) = m.w /\ BoxH(MissedPatch(m)) = m.h
<1>1. DEFAULT \in Turns /\ ~DEFAULT.swap
  BY DEF DEFAULT, Turn, Turns
<1>2. /\ MissedPatch(m).shape = MissedShape(m) /\ MissedPatch(m).turn = DEFAULT
      /\ MissedPatch(m).u0 = m.u0 /\ MissedPatch(m).v0 = m.v0
  BY DEF MissedPatch, FreshPatch
<1>3. MissedShape(m).w = m.w /\ MissedShape(m).h = m.h
        /\ MissedShape(m).occ \subseteq (0 .. m.w - 1) \X (0 .. m.h - 1)
  BY DEF MissedShape
<1> QED
  BY <1>1, <1>2, <1>3 DEF Solid, BoxW, BoxH, MissedSet

\* When the patches of a frame are laid one after the other, and missed points
\* below them, nothing overlaps and all lie in the image; and asking for the
\* last patch whose box has a block names the one that occupies it.
LEMMA LayoutSound ==
  ASSUME NEW f, Len(f.patches) \in Nat, DOMAIN f.patches = 1 .. Len(f.patches),
         \A i \in 1 .. Len(f.patches) : Solid(f.patches[i]),
         f.laid \in Nat, f.width \in Nat, f.height \in Nat,
         \A i \in 1 .. f.laid : f.missed[i] \in MissedSet,
         NEW row \in 0 .. f.height,
         Layout(f.patches, Len(f.patches), f.missed, f.laid, f.width, row, f.height)
  PROVE  ApartIn(f) /\ InImage(f) /\ OwnersRightIn(f)
<1> DEFINE n == Len(f.patches)
           k == f.laid
           P(i) == f.patches[i]
           M(i) == MissedPatch(f.missed[i])
<1>1. Layout(f.patches, n, f.missed, k, f.width, row, f.height)
  OBVIOUS
<1>2. /\ n \in Nat /\ DOMAIN f.patches = 1 .. n /\ k \in Nat /\ f.height \in Nat
      /\ f.width \in Nat
      /\ \A i \in 1 .. n : Solid(P(i))
      /\ \A i \in 1 .. k : f.missed[i] \in MissedSet
  OBVIOUS
<1>3. \A i \in 1 .. n : Occ(P(i)) \subseteq Box(P(i))
  BY <1>2, OccInBox
<1>4. \A i \in 1 .. k : Occ(M(i)) \subseteq Box(M(i))
  BY <1>1, <1>2, MissedSolid, OccInBox DEF Layout
<1>5. /\ \A i \in 1 .. n : Box(P(i)) \subseteq (0 .. f.width - 1) \X (0 .. row - 1)
      /\ \A i, j \in 1 .. n : i < j => Occ(P(i)) \cap Box(P(j)) = {}
      /\ \A i \in 1 .. k :
           Box(M(i)) \subseteq (0 .. f.width - 1) \X (row .. f.height - 1)
      /\ \A i, j \in 1 .. k : i < j => Occ(M(i)) \cap Box(M(j)) = {}
  BY <1>1 DEF Layout
<1>6. \A i \in 1 .. n, l \in 1 .. k : Box(P(i)) \cap Box(M(l)) = {}
  <2> TAKE i \in 1 .. n, l \in 1 .. k
  <2> SUFFICES ASSUME NEW b \in Box(P(i)), b \in Box(M(l))
               PROVE  FALSE
    OBVIOUS
  <2>1. b[2] \in 0 .. row - 1 /\ b[2] \in row .. f.height - 1
    BY <1>5
  <2> QED
    BY <2>1
<1> HIDE DEF P, M, n, k
<1>7. ApartIn(f)
  <2>1. \A i, j \in 1 .. n : i < j => Occ(P(i)) \cap Occ(P(j)) = {}
    BY <1>3, <1>5
  <2>2. \A i \in 1 .. n, l \in 1 .. k : Occ(P(i)) \cap Occ(M(l)) = {}
    BY <1>3, <1>4, <1>6
  <2>3. \A i, j \in 1 .. k : i < j => Occ(M(i)) \cap Occ(M(j)) = {}
    BY <1>4, <1>5
  <2> QED
    BY <1>2, <2>1, <2>2, <2>3 DEF ApartIn, P, M, n, k
<1>8. InImage(f)
  <2> DEFINE image == (0 .. f.width - 1) \X (0 .. f.height - 1)
  <2>1. /\ (0 .. f.width - 1) \X (0 .. row - 1) \subseteq image
        /\ (0 .. f.width - 1) \X (row .. f.height - 1) \subseteq image
    <3>1. row \in Int /\ 0 <= row /\ row <= f.height
      BY <1>2
    <3>2. 0 .. row - 1 \subseteq 0 .. f.height - 1
      BY <1>2, <3>1
    <3>3. row .. f.height - 1 \subseteq 0 .. f.height - 1
      BY <1>2, <3>1
    <3> QED
      BY <3>2, <3>3
  <2> HIDE DEF image
  <2>2. /\ \A i \in 1 .. n : Box(P(i)) \subseteq image
        /\ \A i \in 1 .. k : Box(M(i)) \subseteq image
    BY <1>5, <2>1
  <2> QED
    BY <1>2, <2>2 DEF InImage, LaidMissed, P, M, n, k, image
<1>9. OwnersRightIn(f)
  <2>1. ASSUME NEW i \in 1 .. n, NEW b \in Occ(P(i))
        PROVE  OwnerByBox(f, b) = i /\ OwnerByOccupancy(f, b) = i
    <3> DEFINE claims == {j \in DOMAIN f.patches : b \in Box(f.patches[j])}
    <3>1. i \in claims /\ \A j \in claims : i >= j /\ j \in Nat
      <4>1. claims = {j \in 1 .. n : b \in Box(P(j))}
        BY <1>2 DEF P
      <4>2. b \in Box(P(i))
        BY <1>3
      <4>3. \A j \in 1 .. n : i < j => b \notin Box(P(j))
        BY <1>5
      <4> QED
        BY <1>2, <4>1, <4>2, <4>3
    <3>2. OwnerByBox(f, b) = i
      BY <3>1, <1>2 DEF OwnerByBox
    <3>3. b \in OccupiedBlocks(f)
      BY <1>2 DEF OccupiedBlocks, P
    <3> QED
      BY <3>2, <3>3 DEF OwnerByOccupancy
  <2>2. ASSUME NEW l \in 1 .. k, NEW b \in Occ(M(l))
        PROVE  OwnerByBox(f, b) = 0
    BY <1>2, <1>4, <1>6 DEF OwnerByBox, P
  <2> QED
    BY <1>2, <2>1, <2>2 DEF OwnersRightIn, LaidMissed, P, M, n, k
<1> QED
  BY <1>7, <1>8, <1>9

\* So it is with every frame that is packed.
LEMMA LayoutRight ==
  ASSUME NEW f \in FrameSet, FrameLayout(f)
  PROVE  ApartIn(f) /\ InImage(f) /\ OwnersRightIn(f)
<1>1. PICK row \in 0 .. f.height :
        Layout(f.patches, Len(f.patches), f.missed, f.laid, f.width, row, f.height)
  BY DEF FrameLayout
<1>2. /\ Len(f.patches) \in Nat /\ DOMAIN f.patches = 1 .. Len(f.patches)
      /\ f.laid \in Nat /\ f.height \in Nat /\ f.width \in Nat
      /\ \A i \in 1 .. Len(f.patches) : f.patches[i] \in PatchSet
      /\ \A i \in 1 .. f.laid : f.missed[i] \in MissedSet
  BY DEF FrameSet, FrameLayout
<1>3. \A i \in 1 .. Len(f.patches) : Solid(f.patches[i])
  BY <1>2, PatchFields
<1> QED
  BY <1>1, <1>2, <1>3, LayoutSound

-----------------------------------------------------------------------------
(***************************************************************************)
(* What the helpers of the actions return.                                 *)
(***************************************************************************)
IsTry(t) == t.u \in Int /\ t.v \in Int /\ t.turn \in Turns /\ t.guard \in Nat

LEMMA OptionsType ==
  ASSUME opt \in Options
  PROVE  /\ opt.guard \in Nat /\ opt.constrained \in BOOLEAN
         /\ opt.separate \in BOOLEAN /\ opt.strategy \in 0 .. 2
BY PackingAssumption

LEMMA OrientationsType ==
  /\ DEFAULT \in Turns
  /\ \A k \in 1 .. 8 : OrientationVertical[k] \in Turns
                         /\ OrientationHorizontal[k] \in Turns
<1>1. {DEFAULT, SWAP, ROT90, ROT180, ROT270, MIRROR, MROT90, MROT180}
        \subseteq Turns
  BY DEF Turns, Turn, DEFAULT, SWAP, ROT90, ROT180, ROT270, MIRROR, MROT90,
         MROT180
<1>2. \A k \in 1 .. 8 :
        k = 1 \/ k = 2 \/ k = 3 \/ k = 4 \/ k = 5 \/ k = 6 \/ k = 7 \/ k = 8
  OBVIOUS
<1> QED
  BY <1>1, <1>2 DEF OrientationVertical, OrientationHorizontal

LEMMA RowByRowType ==
  ASSUME opt \in Options, NEW turns, NEW lastU \in Int, NEW lastV \in Int,
         \A k \in DOMAIN turns : turns[k] \in Turns
  PROVE  \A t \in RowByRow(turns, lastU, lastV) : IsTry(t)
BY OptionsType DEF RowByRow, Try, IsTry

\* Tries after the place of another patch.
LEMMA FollowTries ==
  ASSUME opt \in Options, NEW q, Solid(q), NEW guard \in Nat,
         NEW c, c.U \in Int, c.V \in Int
  PROVE  \A t \in Follow(q, guard, c) : IsTry(t)
<1>1. q.u0 \in Int /\ q.v0 \in Int /\ q.turn \in Turns
  BY DEF Solid
<1>2. \A k \in DOMAIN <<q.turn>> : <<q.turn>>[k] \in Turns
  BY <1>1
<1>3. \A t \in RowByRow(<<q.turn>>, c.U, c.V) : IsTry(t)
  BY <1>2, RowByRowType
<1> QED
  BY <1>1, <1>3 DEF Follow, Try, IsTry

LEMMA FollowType ==
  ASSUME opt \in Options, NEW q \in PatchSet, NEW guard \in Nat,
         NEW c, c.U \in Int, c.V \in Int
  PROVE  \A t \in Follow(q, guard, c) : IsTry(t)
BY PatchFields, FollowTries

LEMMA FlexibleTurnsType ==
  ASSUME NEW p
  PROVE  \A k \in DOMAIN FlexibleTurns(p) : FlexibleTurns(p)[k] \in Turns
<1> DEFINE s == IF p.shape.w > p.shape.h THEN OrientationHorizontal
                ELSE OrientationVertical
<1>1. \A k \in 1 .. 8 : s[k] \in Turns
  BY OrientationsType
<1>2. TurnCount \in 1 .. 8
  BY DEF TurnCount
<1> HIDE DEF s
<1>3. \A k \in 1 .. TurnCount : s[k] \in Turns
  BY <1>1, <1>2
<1>4. /\ SubSeq(s, 1, TurnCount) \in Seq(Turns)
      /\ Len(SubSeq(s, 1, TurnCount)) = TurnCount
      /\ \A k \in 1 .. TurnCount : SubSeq(s, 1, TurnCount)[k] = s[k]
  BY <1>2, <1>3
<1> QED
  BY <1>3, <1>4 DEF FlexibleTurns, s

\* Every location that is tried is one, whatever the strategy.
LEMMA TriesType ==
  ASSUME opt \in Options, NEW p \in PatchSet, NEW c, c.U \in Int, c.V \in Int,
         p.match = Invalid \/ Prev[p.match + 1] \in PatchSet,
         NEW t \in Tries(p, c)
  PROVE  IsTry(t)
<1>1. t \in AnchorTries(c) => IsTry(t)
  <2>1. \A k \in DOMAIN <<DEFAULT>> : <<DEFAULT>>[k] \in Turns
    BY OrientationsType
  <2> QED
    BY <2>1, RowByRowType DEF AnchorTries
<1>2. t \in FlexibleFreeTries(p, c) => IsTry(t)
  BY FlexibleTurnsType, RowByRowType DEF FlexibleFreeTries
<1>3. p.match # Invalid /\ t \in FlexibleMatchedTries(p, c) => IsTry(t)
  BY FollowType DEF FlexibleMatchedTries
<1>4. t \in TetrisFreeTries(c) => IsTry(t)
  <2>1. \A k \in 1 .. TurnCount : OrientationVertical[k] \in Turns
    BY OrientationsType DEF TurnCount
  <2> QED
    BY <2>1, OptionsType DEF TetrisFreeTries, Try, IsTry
<1>5. p.match # Invalid /\ t \in TetrisMatchedTries(p, c) => IsTry(t)
  <2> SUFFICES ASSUME p.match # Invalid, t \in TetrisMatchedTries(p, c)
               PROVE  IsTry(t)
    OBVIOUS
  <2>1. Prev[p.match + 1].turn \in Turns
    BY DEF PatchSet
  <2>2. PICK b \in (0 .. c.U - 1) \X (0 .. c.V - 1) :
          t.u = b[1] /\ t.v = b[2] /\ t.turn = Prev[p.match + 1].turn
            /\ t.guard = opt.guard
    BY DEF TetrisMatchedTries, Try
  <2> QED
    BY <2>1, <2>2, OptionsType DEF IsTry
<1>6. opt.strategy = 0 \/ opt.strategy = 1 \/ opt.strategy = 2
  BY OptionsType
<1> QED
  BY <1>1, <1>2, <1>3, <1>4, <1>5, <1>6 DEF Tries

LEMMA LocatedType ==
  ASSUME NEW p \in PatchSet, NEW t, IsTry(t)
  PROVE  /\ Located(p, t) \in PatchSet
         /\ Located(p, t).shape = p.shape /\ Located(p, t).match = p.match
BY DEF Located, IsTry, PatchSet

LEMMA ExtendedFields ==
  ASSUME NEW c, IsRecord(c), NEW p
  PROVE  /\ IsRecord(Extended(c, p))
         /\ Extended(c, p).U = c.U /\ Extended(c, p).V = c.V
         /\ Extended(c, p).occ = c.occ \cup Occ(p)
         /\ Extended(c, p).width = MaxOf(c.width, p.u0 + BoxW(p))
         /\ Extended(c, p).height = MaxOf(c.height, p.v0 + BoxH(p))
         /\ Extended(c, p).row = MaxOf(c.row, p.v0 + BoxH(p))
<1> DEFINE occ == c.occ \cup Occ(p)
           horizon == RaisedHorizon(p, c.horizon)
           width == MaxOf(c.width, p.u0 + BoxW(p))
           height == MaxOf(c.height, p.v0 + BoxH(p))
           row == MaxOf(c.row, p.v0 + BoxH(p))
           U == c.U
           V == c.V
           old == [U |-> U, V |-> V, occ |-> c.occ, horizon |-> c.horizon,
                   width |-> c.width, height |-> c.height, row |-> c.row]
<1>1. Extended(c, p) = [c EXCEPT !.occ = occ, !.horizon = horizon,
                                 !.width = width, !.height = height,
                                 !.row = row]
  BY Zenon DEF Extended
<1>2. c = old
  BY DEF IsRecord
<1>3. Extended(c, p) = [old EXCEPT !.occ = occ, !.horizon = horizon,
                                   !.width = width, !.height = height,
                                   !.row = row]
  BY <1>1, <1>2, Zenon
<1> HIDE DEF occ, horizon, width, height, row, U, V
<1>4. Extended(c, p) = [U |-> U, V |-> V, occ |-> occ, horizon |-> horizon,
                        width |-> width, height |-> height, row |-> row]
  BY <1>3
<1> QED
  BY <1>4 DEF IsRecord, occ, width, height, row, U, V

\* A frame of which all patches and missed points patches have been laid.
LEMMA FrameAdded ==
  ASSUME NEW f, frames' = Append(frames, f), opt' = opt, f \in FrameSet,
         frames \in Seq(FrameSet), FramesLayout, MatchingValid, NoBetterLeft,
         FrameLayout(f),
         MatchesValid(Len(frames) + 1, f.patches, f.matches),
         opt.constrained /\ frames # <<>> =>
           NoneBetter(Prev, f.patches, Len(Prev))
  PROVE  (FramesLayout /\ MatchingValid /\ NoBetterLeft)'
<1> DEFINE n == Len(frames)
<1>1. /\ n \in Nat /\ Len(frames') = n + 1 /\ frames'[n + 1] = f
      /\ DOMAIN frames = 1 .. n /\ DOMAIN frames' = 1 .. n + 1
      /\ \A k \in 1 .. n : frames'[k] = frames[k]
  OBVIOUS
<1> HIDE DEF n
<1>2. FramesLayout'
  <2> SUFFICES ASSUME NEW k \in 1 .. n + 1
               PROVE  FrameLayout(frames'[k])
    BY <1>1 DEF FramesLayout
  <2>1. k = n + 1 \/ k \in 1 .. n
    BY <1>1
  <2> QED
    BY <1>1, <2>1 DEF FramesLayout, n
<1>3. MatchingValid'
  <2> SUFFICES ASSUME NEW k \in 1 .. n + 1
               PROVE  MatchesValid(k, frames[k].patches, frames[k].matches)'
    BY <1>1 DEF MatchingValid
  <2>1. CASE k \in 1 .. n
    <3> DEFINE cur == frames[k].patches
               m == frames[k].matches
    <3>1. MatchesValid(k, cur, m)
      BY <1>1, <2>1 DEF MatchingValid
    <3>2. k > 1 => frames'[k - 1] = frames[k - 1]
      BY <1>1, <2>1
    <3>3. frames'[k].patches = cur /\ frames'[k].matches = m
      BY <1>1, <2>1
    <3> HIDE DEF cur, m
    <3>4. /\ m \in 0 .. Len(cur) /\ (m > 0 => k > 1 /\ opt'.constrained)
          /\ \A i, j \in 1 .. m : i < j => cur[i].match < cur[j].match
          /\ \A i \in m + 1 .. Len(cur) : cur[i].match = Invalid
      BY <3>1 DEF MatchesValid
    <3>5. \A i \in 1 .. m :
            /\ cur[i].match + 1 \in DOMAIN frames'[k - 1].patches
            /\ frames'[k - 1].patches[cur[i].match + 1].shape.view
                 = cur[i].shape.view
      <4> TAKE i \in 1 .. m
      <4>1. k \in Nat /\ m \in Nat /\ m > 0
        BY <1>1, <3>4
      <4>2. frames'[k - 1] = frames[k - 1]
        BY <3>2, <3>4, <4>1
      <4> QED
        BY <3>1, <4>1, <4>2 DEF MatchesValid
    <3> QED
      BY <3>3, <3>4, <3>5 DEF MatchesValid
  <2>2. CASE k = n + 1
    <3> DEFINE cur == f.patches
               m == f.matches
    <3>1. MatchesValid(k, cur, m)
      BY <2>2 DEF n
    <3>2. k > 1 => frames'[k - 1] = frames[k - 1]
      BY <1>1, <2>2
    <3>3. frames'[k].patches = cur /\ frames'[k].matches = m
      BY <1>1, <2>2
    <3> HIDE DEF cur, m
    <3>4. /\ m \in 0 .. Len(cur) /\ (m > 0 => k > 1 /\ opt'.constrained)
          /\ \A i, j \in 1 .. m : i < j => cur[i].match < cur[j].match
          /\ \A i \in m + 1 .. Len(cur) : cur[i].match = Invalid
      BY <3>1 DEF MatchesValid
    <3>5. \A i \in 1 .. m :
            /\ cur[i].match + 1 \in DOMAIN frames'[k - 1].patches
            /\ frames'[k - 1].patches[cur[i].match + 1].shape.view
                 = cur[i].shape.view
      <4> TAKE i \in 1 .. m
      <4>1. k \in Nat /\ m \in Nat /\ m > 0
        BY <1>1, <3>4
      <4>2. frames'[k - 1] = frames[k - 1]
        BY <3>2, <3>4, <4>1
      <4> QED
        BY <3>1, <4>1, <4>2 DEF MatchesValid
    <3> QED
      BY <3>3, <3>4, <3>5 DEF MatchesValid
  <2> QED
    BY <1>1, <2>1, <2>2
<1>4. NoBetterLeft'
  <2> SUFFICES ASSUME opt.constrained, NEW k \in 2 .. n + 1
               PROVE  NoneBetter(frames'[k - 1].patches, frames'[k].patches,
                                 Len(frames'[k - 1].patches))
    BY <1>1 DEF NoBetterLeft
  <2>1. CASE k \in 2 .. n
    <3>1. frames'[k - 1] = frames[k - 1] /\ frames'[k] = frames[k]
      BY <1>1, <2>1
    <3> QED
      BY <2>1, <3>1 DEF NoBetterLeft, n
  <2>2. CASE k = n + 1
    <3>1. n >= 1 /\ k - 1 = n /\ k - 1 \in 1 .. n
      BY <1>1, <2>2
    <3>2. frames'[k - 1] = frames[n] /\ frames'[k] = f
      BY <1>1, <2>2, <3>1
    <3>3. frames # <<>>
      BY <3>1 DEF n
    <3> QED
      BY <3>2, <3>3 DEF Prev, n
  <2> QED
    BY <1>1, <2>1, <2>2
<1> QED
  BY <1>2, <1>3, <1>4

-----------------------------------------------------------------------------
(***************************************************************************)
(* Each action keeps the invariant.                                        *)
(***************************************************************************)
LEMMA FramesKept ==
  ASSUME frames' = frames, opt' = opt, FramesLayout, MatchingValid, NoBetterLeft
  PROVE  (FramesLayout /\ MatchingValid /\ NoBetterLeft)'
BY DEF FramesLayout, MatchingValid, NoBetterLeft, MatchesValid

LEMMA ConstantsType ==
  /\ MinU \in Nat \ {0} /\ MinV \in Nat \ {0} /\ Resolution \in Nat \ {0}
  /\ PackFrames \in Nat \ {0} /\ MaxInFrame \in Nat
  /\ MissedSizes \subseteq Seq(Nat \ {0})
BY PackingAssumption

LEMMA TypeFacts ==
  ASSUME PackInv
  PROVE  /\ opt \in Options /\ opt.constrained \in BOOLEAN
         /\ frames \in Seq(FrameSet) /\ Len(frames) \in Nat
         /\ Len(frames) <= PackFrames
         /\ phase \in Phases /\ id \in Nat /\ placed \in Nat
         /\ patches \in Seq(PatchSet) /\ matched \in Seq(DOMAIN patches)
         /\ missed \in Seq(MissedSet)
         /\ CanvasType /\ IsRecord(canvas) /\ InProgress
         /\ MatchInv /\ LayInv
         /\ FramesLayout /\ MatchingValid /\ NoBetterLeft
<1>1. opt \in Options => opt.constrained \in BOOLEAN
  BY OptionsType
<1>2. frames \in Seq(FrameSet) => Len(frames) \in Nat
  OBVIOUS
<1> QED
  BY <1>1, <1>2 DEF PackInv, TypeInv, PackingTypeOK

\* The patches of the frame before.
LEMMA PrevType ==
  ASSUME PackInv, frames # <<>>
  PROVE  Prev \in Seq(PatchSet) /\ Len(Prev) \in Nat
                /\ DOMAIN Prev = 1 .. Len(Prev)
<1>1. frames[Len(frames)] \in FrameSet
  BY TypeFacts
<1>2. Prev \in Seq(PatchSet)
  BY <1>1 DEF Prev, FrameSet
<1> QED
  BY <1>2

LEMMA CanvasKept ==
  ASSUME canvas' = canvas, CanvasType, IsRecord(canvas)
  PROVE  CanvasType' /\ IsRecord(canvas)'
BY DEF CanvasType, IsRecord

\* An empty layout is in order.
LEMMA LayoutEmpty ==
  ASSUME NEW ps, NEW ms, NEW U, NEW row, NEW height
  PROVE  Layout(ps, 0, ms, 0, U, row, height)
BY DEF Layout

LEMMA CanvasFields ==
  ASSUME NEW U \in Nat \ {0}, NEW V \in Nat, canvas' = Canvas(U, V)
  PROVE  /\ IsRecord(canvas)' /\ CanvasType'
         /\ canvas'.U = U /\ canvas'.V = V /\ canvas'.width = U
         /\ canvas'.height = V /\ canvas'.row = 0
BY DEF Canvas, IsRecord, CanvasType

LEMMA FreshType ==
  ASSUME NEW s \in Shapes
  PROVE  FreshPatch(s) \in PatchSet /\ FreshPatch(s).match = Invalid
BY OrientationsType DEF FreshPatch, PatchSet, Invalid

LEMMA SegmentKeeps ==
  ASSUME PackInv, NEW n \in 0 .. MaxInFrame, NEW sizes \in MissedSizes,
         NEW shapes \in [1 .. n -> Shapes], Segment(shapes, sizes)
  PROVE  PackInv'
<1>0. /\ opt \in Options /\ frames \in Seq(FrameSet)
      /\ Len(frames) \in Nat /\ phase = "segment"
      /\ CanvasType /\ IsRecord(canvas)
      /\ FramesLayout /\ MatchingValid /\ NoBetterLeft
  BY TypeFacts DEF Segment
<1>1. n \in Nat /\ DOMAIN shapes = 1 .. n /\ shapes \in Seq(Shapes)
  BY ConstantsType
<1>2. /\ patches' \in Seq(PatchSet) /\ Len(patches') = n
      /\ \A i \in 1 .. n : patches'[i].match = Invalid
  <2>1. patches' = [i \in 1 .. n |-> FreshPatch(shapes[i])]
    BY <1>1 DEF Segment
  <2>2. \A i \in 1 .. n : /\ FreshPatch(shapes[i]) \in PatchSet
                           /\ FreshPatch(shapes[i]).match = Invalid
    BY FreshType
  <2> QED
    BY <1>1, <2>1, <2>2
<1>3. missed' \in Seq(MissedSet)
  <2>1. sizes \in Seq(Nat \ {0})
    BY ConstantsType
  <2>2. missed' = [i \in 1 .. Len(sizes) |->
                    [size |-> sizes[i], w |-> 0, h |-> 0, u0 |-> 0, v0 |-> 0]]
    BY <2>1 DEF Segment
  <2>3. \A i \in 1 .. Len(sizes) :
          [size |-> sizes[i], w |-> 0, h |-> 0, u0 |-> 0, v0 |-> 0] \in MissedSet
    BY <2>1 DEF MissedSet
  <2> QED
    BY <2>1, <2>2, <2>3
<1>4. /\ matched' = <<>> /\ id' = 0 /\ placed' = 0 /\ opt' = opt
      /\ Len(frames) < PackFrames
  BY DEF Segment
<1>5. CASE shapes = <<>>
  <2> DEFINE f == [patches |-> <<>>, matches |-> 0, missed |-> missed',
                   laid |-> 0, width |-> 0, height |-> 0]
  <2>1. /\ frames' = Append(frames, f) /\ phase' = "segment" /\ canvas' = canvas
        /\ Len(frames) < PackFrames
    BY <1>5 DEF Segment
  <2>2. f \in FrameSet /\ f.patches = <<>> /\ f.matches = 0
    BY <1>3 DEF FrameSet
  <2>3. FrameLayout(f)
    <3>1. Layout(<<>>, 0, missed', 0, 0, 0, 0)
      BY LayoutEmpty
    <3> QED
      BY <1>3, <3>1 DEF FrameLayout
  <2>4. /\ MatchesValid(Len(frames) + 1, f.patches, f.matches)
        /\ NoneBetter(Prev, f.patches, Len(Prev))
    BY <2>2 DEF MatchesValid, NoneBetter
  <2> HIDE DEF f
  <2>5. (FramesLayout /\ MatchingValid /\ NoBetterLeft)'
    BY <1>0, <1>4, <2>1, <2>2, <2>3, <2>4, FrameAdded
  <2>6. TypeInv'
    <3>1. frames' \in Seq(FrameSet) /\ Len(frames') <= PackFrames
      BY <1>0, <2>1, <2>2, ConstantsType
    <3>2. CanvasType' /\ IsRecord(canvas)'
      BY <1>0, <2>1 DEF CanvasType, IsRecord
    <3> QED
      BY <1>0, <1>2, <1>3, <1>4, <2>1, <3>1, <3>2
         DEF Phases, TypeInv, PackingTypeOK, InProgress
  <2> QED
    BY <2>1, <2>5, <2>6 DEF MatchInv, LayInv, PackInv
<1>6. CASE shapes # <<>>
  <2>1. frames' = frames /\ n > 0 /\ patches' # <<>>
    <3>1. n > 0
      BY <1>1, <1>6
    <3> QED
      BY <1>2, <1>6, <3>1 DEF Segment
  <2>2. (FramesLayout /\ MatchingValid /\ NoBetterLeft)'
    BY <1>0, <1>4, <2>1, FramesKept
  <2>3. StartV(patches') \in Nat
    <3> DEFINE first == patches'[1].shape
    <3>1. first.w \in Nat /\ first.h \in Nat
      BY <1>2, <2>1, PatchFields
    <3> QED
      BY <3>1, ConstantsType DEF StartV, MaxOf
  <2>4. CASE Alone
    <3>1. phase' = "place" /\ canvas' = Canvas(StartU(patches'), StartV(patches'))
      BY <1>6, <2>4 DEF Segment, StartCanvas
    <3>2. StartU(patches') \in Nat \ {0}
      BY <1>2, StartUType
    <3>3. /\ IsRecord(canvas)' /\ CanvasType' /\ canvas'.U > 0
          /\ canvas'.width = canvas'.U /\ canvas'.row <= canvas'.height
      BY <2>3, <3>1, <3>2, CanvasFields
    <3>4. TypeInv'
      BY <1>0, <1>2, <1>3, <1>4, <2>1, <3>1, <3>3, TypeFacts
         DEF Phases, TypeInv, PackingTypeOK, InProgress
    <3>5. LayInv'
      BY <1>2, <1>3, <1>4, <3>1, <3>3, LayoutEmpty DEF LayInv, Lying, LyingMissed
    <3>6. MatchInv'
      <4>1. MatchesValid(Len(frames) + 1, patches, Len(matched))'
        BY <1>2, <1>4, <2>1 DEF MatchesValid
      <4>2. ~(opt'.constrained /\ frames' # <<>>)
        BY <1>4, <2>1, <2>4 DEF Alone
      <4> QED
        BY <3>1, <4>1, <4>2 DEF MatchInv, Matched
    <3> QED
      BY <2>2, <3>4, <3>5, <3>6 DEF PackInv
  <2>5. CASE ~Alone
    <3>1. /\ phase' = "match"
          /\ canvas' = [NoCanvas EXCEPT !.U = MinU, !.V = StartV(patches')]
      BY <1>6, <2>5 DEF Segment
    <3>2. IsRecord(canvas)' /\ CanvasType'
      <4>1. canvas' = [U |-> MinU, V |-> StartV(patches'), occ |-> {},
                       horizon |-> <<>>, width |-> 0, height |-> 0, row |-> 0]
        BY <3>1 DEF NoCanvas
      <4> QED
        BY <2>3, <4>1, ConstantsType DEF IsRecord, CanvasType
    <3>3. TypeInv'
      BY <1>0, <1>2, <1>3, <1>4, <2>1, <3>1, <3>2, TypeFacts
         DEF Phases, TypeInv, PackingTypeOK, InProgress
    <3>4. Matching'
      <4>1. frames # <<>> /\ opt.constrained
        BY <1>0, <2>5, OptionsType DEF Alone
      <4>2. Prev' = Prev /\ Len(Prev) \in Nat
        BY <2>1, <4>1, PrevType DEF Prev
      <4>3. NoneBetter(Prev, patches, id)'
        BY <1>4 DEF NoneBetter
      <4> QED
        BY <1>2, <1>4, <2>1, <4>1, <4>2, <4>3 DEF Matching
    <3> QED
      BY <2>2, <3>1, <3>3, <3>4 DEF MatchInv, LayInv, PackInv
  <2> QED
    BY <2>4, <2>5
<1> QED
  BY <1>5, <1>6

LEMMA OverlapType ==
  ASSUME NEW p \in PatchSet, NEW q \in PatchSet
  PROVE  Overlap(q, p) \in Nat
<1>1. p.shape \in Shapes /\ q.shape \in Shapes
  BY DEF PatchSet
<1>2. \A s, t \in Shapes : IOU[s.at, t.at] \in Nat
  BY PackingAssumption
<1> QED
  BY <1>1, <1>2 DEF Overlap

LEMMA MatchOneKeeps ==
  ASSUME PackInv, MatchOne
  PROVE  PackInv'
<1> DEFINE q == Prev[id + 1]
           n == Len(patches)
<1>0. /\ phase = "match" /\ id \in Nat /\ id < Len(Prev) /\ id' = id + 1
      /\ frames' = frames /\ opt' = opt /\ phase' = phase /\ placed' = placed
      /\ missed' = missed /\ canvas' = canvas
  BY TypeFacts DEF MatchOne
<1>1. Matching
  BY <1>0, TypeFacts DEF MatchInv
<1>2. /\ n \in Nat /\ DOMAIN patches = 1 .. n
      /\ \A i \in 1 .. n : patches[i] \in PatchSet
      /\ matched \in Seq(1 .. n) /\ Len(matched) \in Nat
      /\ \A k \in 1 .. Len(matched) : matched[k] \in 1 .. n
  BY TypeFacts
<1>3. /\ Prev' = Prev /\ Len(Prev) \in Nat /\ q \in PatchSet
      /\ \A k \in 1 .. Len(Prev) : Prev[k] \in PatchSet
  <2>1. frames # <<>>
    BY <1>1 DEF Matching
  <2>2. Prev \in Seq(PatchSet) /\ Len(Prev) \in Nat
    BY <2>1, PrevType
  <2>3. id + 1 \in 1 .. Len(Prev)
    BY <1>0, <2>2
  <2> QED
    BY <1>0, <2>2, <2>3 DEF Prev
<1>4. (FramesLayout /\ MatchingValid /\ NoBetterLeft)'
  BY <1>0, TypeFacts, FramesKept
<1> HIDE DEF q, n
\* A patch that is no candidate is the match of an earlier patch.
<1>5. \A j \in 1 .. n :
        patches[j].shape.view = q.shape.view /\ j \notin Candidates(q)
          => patches[j].match \in 0 .. id - 1
  <2> SUFFICES ASSUME NEW j \in 1 .. n, patches[j].shape.view = q.shape.view,
                      j \notin Candidates(q)
               PROVE  patches[j].match \in 0 .. id - 1
    OBVIOUS
  <2>1. patches[j].match # Invalid
    BY <1>2 DEF Candidates
  <2> QED
    BY <2>1, <1>1 DEF Matching, n
<1>6. CASE /\ \A i \in Candidates(q) : Overlap(q, patches[i]) <= Threshold
           /\ UNCHANGED <<patches, matched>>
  <2>1. NoneBetter(Prev, patches, id + 1)
    <3> SUFFICES ASSUME NEW k \in 1 .. id + 1, NEW j \in 1 .. n,
                        Prev[k].shape.view = patches[j].shape.view,
                        Overlap(Prev[k], patches[j]) > Threshold
                 PROVE  \/ patches[j].match \in 0 .. k - 1
                        \/ \E l \in 1 .. n :
                             /\ patches[l].match = k - 1
                             /\ Overlap(Prev[k], patches[l])
                                  >= Overlap(Prev[k], patches[j])
      BY <1>2 DEF NoneBetter
    <3>1. CASE k \in 1 .. id
      BY <1>1, <1>2, <3>1 DEF Matching, NoneBetter
    <3>2. CASE k = id + 1
      <4>1. j \notin Candidates(q)
        <5>1. Overlap(q, patches[j]) \in Nat /\ Threshold \in Nat
          BY <1>2, <1>3, OverlapType, PackingAssumption
        <5> QED
          BY <1>6, <3>2, <5>1 DEF q
      <4> QED
        BY <1>0, <1>5, <3>2, <4>1 DEF q
    <3> QED
      BY <1>0, <3>1, <3>2
  <2>2. Matching'
    <3>1. \A k \in 1 .. Len(matched) : patches[matched[k]].match \in 0 .. id
      BY <1>0, <1>1 DEF Matching
    <3>2. /\ frames' # <<>> /\ opt'.constrained /\ id + 1 <= Len(Prev)
          /\ placed' = 0
      BY <1>0, <1>1, <1>3 DEF Matching
    <3> QED
      BY <1>0, <1>1, <1>3, <1>6, <2>1, <3>1, <3>2 DEF Matching
  <2>3. TypeInv'
    BY SMTT(20), <1>0, <1>6, TypeFacts DEF TypeInv, PackingTypeOK, InProgress,
                                     CanvasType, IsRecord
  <2> QED
    BY <1>0, <1>4, <2>2, <2>3 DEF PackInv, MatchInv, LayInv
<1>7. ASSUME NEW i \in 1 .. n, IsBest(q, i),
             patches' = [patches EXCEPT ![i].match = id],
             matched' = Append(matched, i)
      PROVE  PackInv'
  <2> DEFINE m == Len(matched)
  <2>1. /\ DOMAIN patches' = 1 .. n /\ Len(patches') = n
        /\ patches' \in Seq(PatchSet)
        /\ patches'[i].match = id /\ patches'[i].shape = patches[i].shape
        /\ \A j \in 1 .. n : patches'[j].shape = patches[j].shape
        /\ \A j \in 1 .. n : j # i => patches'[j] = patches[j]
    <3>1. [patches[i] EXCEPT !.match = id] \in PatchSet
      BY SMTT(20), <1>0, <1>2 DEF PatchSet
    <3>2. patches' = [patches EXCEPT ![i] = [patches[i] EXCEPT !.match = id]]
      BY <1>7
    <3>3. patches \in Seq(PatchSet) /\ i \in 1 .. Len(patches)
      BY TypeFacts DEF n
    <3>4. [patches[i] EXCEPT !.match = id].match = id
            /\ [patches[i] EXCEPT !.match = id].shape = patches[i].shape
      BY <1>2 DEF PatchSet
    <3> QED
      BY <1>2, <3>1, <3>2, <3>3, <3>4 DEF n
  <2>2. /\ matched' \in Seq(1 .. n) /\ Len(matched') = m + 1 /\ m \in Nat
        /\ matched'[m + 1] = i
        /\ \A k \in 1 .. m : matched'[k] = matched[k] /\ matched[k] \in 1 .. n
    BY <1>2, <1>7
  <2>3. /\ i \in Candidates(q) /\ patches[i].match = Invalid
        /\ patches[i].shape.view = q.shape.view
        /\ Overlap(q, patches[i]) > Threshold
        /\ \A j \in Candidates(q) :
             \/ Overlap(q, patches[j]) < Overlap(q, patches[i])
             \/ Overlap(q, patches[j]) = Overlap(q, patches[i])
    BY <1>7 DEF IsBest, Candidates
  <2>4. \A k \in 1 .. m : matched[k] # i /\ patches'[matched[k]] = patches[matched[k]]
    <3>1. \A k \in 1 .. m : patches[matched[k]].match \in 0 .. id - 1
      BY <1>1 DEF Matching
    <3> QED
      BY <2>1, <2>2, <2>3, <3>1 DEF Invalid
  <2>5. \A p \in PatchSet, j \in 1 .. n :
          Overlap(p, patches'[j]) = Overlap(p, patches[j])
    BY <2>1 DEF Overlap
  <2> HIDE DEF m
  <2>6. NoneBetter(Prev, patches', id + 1)
    <3> SUFFICES ASSUME NEW k \in 1 .. id + 1, NEW j \in 1 .. n,
                        Prev[k].shape.view = patches[j].shape.view,
                        Overlap(Prev[k], patches[j]) > Threshold
                 PROVE  \/ patches'[j].match \in 0 .. k - 1
                        \/ \E l \in 1 .. n :
                             /\ patches'[l].match = k - 1
                             /\ Overlap(Prev[k], patches[l])
                                  >= Overlap(Prev[k], patches[j])
      <4>1. \A k \in 1 .. id + 1 : Prev[k] \in PatchSet
        BY <1>0, <1>3
      <4>2. \A k \in 1 .. id + 1, j \in 1 .. n :
              Overlap(Prev[k], patches'[j]) = Overlap(Prev[k], patches[j])
        BY <2>5, <4>1
      <4>3. \A j \in 1 .. n : patches'[j].shape.view = patches[j].shape.view
        BY <2>1
      <4> QED
        BY SMTT(20), <2>1, <4>2, <4>3 DEF NoneBetter
    <3>1. CASE k \in 1 .. id
      <4>1. \/ patches[j].match \in 0 .. k - 1
            \/ \E l \in 1 .. n :
                 /\ patches[l].match = k - 1
                 /\ Overlap(Prev[k], patches[l]) >= Overlap(Prev[k], patches[j])
        BY <1>1, <1>2, <3>1 DEF Matching, NoneBetter
      <4>2. \A l \in 1 .. n : patches[l].match \in Nat => patches'[l] = patches[l]
        BY <2>1, <2>3 DEF Invalid
      <4>3. \A l \in 1 .. n :
              patches[l].match \in 0 .. k - 1 => patches'[l] = patches[l]
        BY <4>2
      <4>4. k - 1 \in 0 .. k - 1
        BY <3>1
      <4> QED
        BY <4>1, <4>3, <4>4
    <3>2. CASE k = id + 1
      <4>1. CASE j \in Candidates(q)
        <5>1. Overlap(q, patches[j]) \in Nat /\ Overlap(q, patches[i]) \in Nat
          BY <1>2, <1>3, OverlapType
        <5>2. Overlap(q, patches[i]) >= Overlap(q, patches[j])
          BY <2>3, <4>1, <5>1
        <5>3. patches'[i].match = k - 1
          BY <1>0, <2>1, <3>2
        <5> QED
          BY <3>2, <5>2, <5>3 DEF q
      <4>2. CASE j \notin Candidates(q)
        <5>1. patches[j].match \in 0 .. id - 1
          BY <1>5, <3>2, <4>2 DEF q
        <5>2. j # i
          BY <2>3, <4>2
        <5> QED
          BY <1>0, <2>1, <3>2, <5>1, <5>2
      <4> QED
        BY <4>1, <4>2
    <3> QED
      BY <1>0, <3>1, <3>2
  <2>7. Matching'
    <3>1. /\ frames' # <<>> /\ opt'.constrained /\ id + 1 <= Len(Prev)
          /\ placed' = 0
      BY <1>0, <1>1, <1>3 DEF Matching
    <3>2. \A k \in 1 .. m :
            /\ patches[matched[k]].match \in 0 .. id - 1
            /\ Prev[patches[matched[k]].match + 1].shape.view
                 = patches[matched[k]].shape.view
      BY <1>1 DEF Matching, m
    <3>3. \A k, l \in 1 .. m :
            k < l => patches[matched[k]].match < patches[matched[l]].match
      BY <1>1 DEF Matching, m
    <3>4. \A k \in 1 .. m + 1 :
            /\ patches'[matched'[k]].match \in 0 .. id
            /\ Prev[patches'[matched'[k]].match + 1].shape.view
                 = patches'[matched'[k]].shape.view
      <4> TAKE k \in 1 .. m + 1
      <4>1. CASE k = m + 1
        <5>1. /\ patches'[matched'[k]].match = id
              /\ patches'[matched'[k]].shape = patches[i].shape
          BY <2>1, <2>2, <4>1
        <5>2. Prev[id + 1].shape.view = patches[i].shape.view
          BY <2>3 DEF q
        <5> QED
          BY <1>0, <5>1, <5>2
      <4>2. CASE k \in 1 .. m
        <5>1. patches'[matched'[k]] = patches[matched[k]]
          BY <2>2, <2>4, <4>2
        <5>2. /\ patches[matched[k]].match \in 0 .. id - 1
              /\ Prev[patches[matched[k]].match + 1].shape.view
                   = patches[matched[k]].shape.view
          BY <3>2, <4>2
        <5>3. patches[matched[k]].match \in 0 .. id
          BY <1>0, <5>2
        <5> QED
          BY <5>1, <5>2, <5>3
      <4> QED
        BY <2>2, <4>1, <4>2
    <3>5. \A k, l \in 1 .. m + 1 :
            k < l => patches'[matched'[k]].match < patches'[matched'[l]].match
      <4> SUFFICES ASSUME NEW k \in 1 .. m, NEW l \in 1 .. m + 1, k < l
                   PROVE  patches'[matched'[k]].match < patches'[matched'[l]].match
        BY <2>2
      <4>1. patches'[matched'[k]].match = patches[matched[k]].match
        BY <2>2, <2>4
      <4>2. CASE l = m + 1
        BY SMTT(20), <1>0, <2>1, <2>2, <3>2, <4>1, <4>2
      <4>3. CASE l \in 1 .. m
        BY <2>2, <2>4, <3>3, <4>1, <4>3
      <4> QED
        BY <2>2, <4>2, <4>3
    <3>6. \A j \in 1 .. n :
            patches'[j].match = Invalid \/ \E k \in 1 .. m + 1 : matched'[k] = j
      <4> TAKE j \in 1 .. n
      <4>1. CASE j = i
        BY <2>2, <4>1
      <4>2. CASE j # i
        <5>1. patches[j].match = Invalid \/ \E k \in 1 .. m : matched[k] = j
          BY <1>1 DEF Matching, m, n
        <5>2. \A k \in 1 .. m : k \in 1 .. m + 1
          BY <2>2
        <5> QED
          BY <2>1, <2>2, <4>2, <5>1, <5>2
      <4> QED
        BY <4>1, <4>2
    <3>7. id' - 1 = id /\ Len(matched') = m + 1 /\ Len(patches') = n
      BY <1>0, <2>1, <2>2
    <3>8. NoneBetter(Prev', patches', id')
      BY <1>0, <1>3, <2>6
    <3>9. /\ \A k \in 1 .. Len(matched') :
               /\ patches'[matched'[k]].match \in 0 .. id' - 1
               /\ Prev'[patches'[matched'[k]].match + 1].shape.view
                    = patches'[matched'[k]].shape.view
          /\ \A k, l \in 1 .. Len(matched') :
               k < l => patches'[matched'[k]].match < patches'[matched'[l]].match
          /\ \A j \in 1 .. Len(patches') :
               \/ patches'[j].match = Invalid
               \/ \E k \in 1 .. Len(matched') : matched'[k] = j
      BY <1>3, <3>4, <3>5, <3>6, <3>7
    <3>10. id' <= Len(Prev')
      BY <1>0, <1>3, <3>1
    <3> QED
      BY <3>1, <3>8, <3>9, <3>10 DEF Matching
  <2>8. TypeInv'
    <3>1. opt' \in Options /\ frames' \in Seq(FrameSet)
            /\ Len(frames') <= PackFrames /\ phase' \in Phases
            /\ missed' \in Seq(MissedSet) /\ id' \in Nat /\ placed' \in Nat
      BY <1>0, TypeFacts
    <3>2. patches' \in Seq(PatchSet) /\ matched' \in Seq(DOMAIN patches')
      BY <2>1, <2>2
    <3>3. CanvasType' /\ IsRecord(canvas)'
      BY <1>0, TypeFacts, CanvasKept
    <3>4. InProgress'
      BY <1>0, TypeFacts DEF InProgress
    <3> QED
      BY <3>1, <3>2, <3>3, <3>4 DEF TypeInv, PackingTypeOK
  <2> QED
    BY <1>0, <1>4, <2>7, <2>8 DEF PackInv, MatchInv, LayInv
<1> QED
  BY <1>2, <1>6, <1>7 DEF MatchOne, q

\* A list without repetitions is no longer than the set it takes from.
LEMMA NoRepeat ==
  ASSUME NEW n \in Nat, NEW s \in Seq(1 .. n),
         \A k, l \in 1 .. Len(s) : k < l => s[k] # s[l]
  PROVE  Len(s) <= n
<1> DEFINE m == Len(s)
<1>1. m \in Nat /\ s \in [1 .. m -> 1 .. n]
  OBVIOUS
<1>2. \A k, l \in 1 .. m : s[k] = s[l] => k = l
  <2> SUFFICES ASSUME NEW k \in 1 .. m, NEW l \in 1 .. m, s[k] = s[l], k # l
               PROVE  FALSE
    OBVIOUS
  <2>1. k < l \/ l < k
    BY <1>1
  <2> QED
    BY <2>1
<1> HIDE DEF m
<1>3. s \in Injection(1 .. m, 1 .. n)
  BY <1>1, <1>2, Fun_IsInj
<1>4. /\ IsFiniteSet(1 .. m) /\ Cardinality(1 .. m) = m
      /\ IsFiniteSet(1 .. n) /\ Cardinality(1 .. n) = n
  <2>1. /\ IsFiniteSet(1 .. m)
        /\ Cardinality(1 .. m) = IF 1 > m THEN 0 ELSE m - 1 + 1
    BY <1>1, FS_Interval
  <2>2. /\ IsFiniteSet(1 .. n)
        /\ Cardinality(1 .. n) = IF 1 > n THEN 0 ELSE n - 1 + 1
    BY FS_Interval
  <2> QED
    BY <1>1, <2>1, <2>2
<1>5. Cardinality(1 .. m) <= Cardinality(1 .. n)
  BY <1>3, <1>4, FS_Injection
<1> QED
  BY <1>4, <1>5 DEF m

\* A function of 1 .. n onto itself takes no value twice.
LEMMA OntoIsOneToOne ==
  ASSUME NEW n \in Nat, NEW f \in [1 .. n -> 1 .. n],
         {f[i] : i \in 1 .. n} = 1 .. n
  PROVE  \A i, j \in 1 .. n : f[i] = f[j] => i = j
<1>1. f \in Surjection(1 .. n, 1 .. n)
  <2>1. \A y \in 1 .. n : \E x \in 1 .. n : f[x] = y
    OBVIOUS
  <2> QED
    BY <2>1, Fun_IsSurj
<1>2. IsFiniteSet(1 .. n)
  BY FS_Interval
<1>3. f \in Injection(1 .. n, 1 .. n)
  BY <1>1, <1>2, FS_SurjSameCardinalityImpliesInj
<1> QED
  BY <1>3 DEF Injection, IsInjective

LEMMA ReorderKeeps ==
  ASSUME PackInv, Reorder
  PROVE  PackInv'
<1> DEFINE n == Len(patches)
           m == Len(matched)
<1>0. /\ phase = "match" /\ id = Len(Prev) /\ phase' = "place"
      /\ frames' = frames /\ opt' = opt /\ matched' = matched /\ id' = id
      /\ placed' = placed /\ missed' = missed
      /\ canvas' = [StartCanvas(patches') EXCEPT !.V = canvas.V,
                                                 !.height = canvas.V]
  BY DEF Reorder
<1>1. Matching
  BY <1>0, TypeFacts DEF MatchInv
<1>2. /\ n \in Nat /\ DOMAIN patches = 1 .. n
      /\ \A i \in 1 .. n : patches[i] \in PatchSet
      /\ matched \in Seq(1 .. n) /\ m \in Nat /\ DOMAIN matched = 1 .. m
      /\ \A k \in 1 .. m : matched[k] \in 1 .. n
      /\ canvas.V \in Nat
  <2>1. canvas.V \in Nat
    BY TypeFacts DEF CanvasType
  <2>2. /\ n \in Nat /\ DOMAIN patches = 1 .. n
        /\ \A i \in 1 .. n : patches[i] \in PatchSet
    BY TypeFacts
  <2>3. matched \in Seq(1 .. n)
    BY <2>2, TypeFacts
  <2>4. /\ m \in Nat /\ DOMAIN matched = 1 .. m
        /\ \A k \in 1 .. m : matched[k] \in 1 .. n
    BY <2>3
  <2> QED
    BY <2>1, <2>2, <2>3, <2>4
<1>3. /\ Prev' = Prev /\ Len(Prev) \in Nat /\ DOMAIN Prev = 1 .. Len(Prev)
      /\ \A k \in 1 .. Len(Prev) : Prev[k] \in PatchSet
      /\ frames # <<>> /\ Len(frames) \in Nat \ {0}
  <2>1. frames # <<>>
    BY <1>1 DEF Matching
  <2>2. Prev \in Seq(PatchSet) /\ Len(Prev) \in Nat /\ DOMAIN Prev = 1 .. Len(Prev)
    BY <2>1, PrevType
  <2>3. Len(frames) \in Nat \ {0}
    BY <2>1, TypeFacts
  <2> QED
    BY <1>0, <2>1, <2>2, <2>3 DEF Prev
<1>4. (FramesLayout /\ MatchingValid /\ NoBetterLeft)'
  BY <1>0, TypeFacts, FramesKept
<1> HIDE DEF n, m
<1>5. PICK order \in [1 .. n -> 1 .. n] :
        /\ IsNewOrder(order)
        /\ patches' = [i \in 1 .. n |-> patches[order[i]]]
  BY <1>2 DEF Reorder
<1>6. /\ {order[i] : i \in 1 .. n} = 1 .. n
      /\ \A i \in 1 .. m : order[i] = matched[i]
      /\ \A i, j \in 1 .. n : order[i] = order[j] => i = j
  <2>1. {order[i] : i \in 1 .. n} = 1 .. n /\ \A i \in 1 .. m : order[i] = matched[i]
    BY <1>2, <1>5 DEF IsNewOrder
  <2> QED
    BY <1>2, <2>1, OntoIsOneToOne
<1>7. m <= n
  <2>1. \A k, l \in 1 .. m :
          k < l => patches[matched[k]].match < patches[matched[l]].match
    BY <1>1 DEF Matching, m
  <2>2. \A k \in 1 .. m : patches[matched[k]].match \in 0 .. id - 1
    BY <1>1 DEF Matching, m
  <2>3. \A k, l \in 1 .. m : k < l => matched[k] # matched[l]
    BY <2>1, <2>2
  <2> QED
    BY <1>2, <2>3, NoRepeat DEF m
<1>8. /\ patches' \in Seq(PatchSet) /\ Len(patches') = n
      /\ DOMAIN patches' = 1 .. n
      /\ \A i \in 1 .. n : patches'[i] = patches[order[i]]
  <2>1. \A i \in 1 .. n : patches[order[i]] \in PatchSet
    BY <1>2, <1>5
  <2> QED
    BY <1>2, <1>5, <2>1
<1>9. MatchesValid(Len(frames) + 1, patches, Len(matched))'
  <2>1. \A i \in 1 .. m : patches'[i] = patches[matched[i]]
    BY <1>2, <1>6, <1>7, <1>8
  <2>2. \A k \in 1 .. m :
          /\ patches[matched[k]].match \in 0 .. id - 1
          /\ Prev[patches[matched[k]].match + 1].shape.view
               = patches[matched[k]].shape.view
    BY <1>1 DEF Matching, m
  <2>3. \A k, l \in 1 .. m : k < l => patches'[k].match < patches'[l].match
    BY <1>1, <2>1 DEF Matching, m
  <2>4. \A i \in m + 1 .. n : patches'[i].match = Invalid
    <3> TAKE i \in m + 1 .. n
    <3>1. i \in 1 .. n /\ i \notin 1 .. m
      BY <1>2
    <3>2. \A k \in 1 .. m : matched[k] # order[i]
      BY <1>2, <1>6, <1>7, <3>1
    <3>3. order[i] \in 1 .. n
      BY <1>5, <3>1
    <3>4. patches[order[i]].match = Invalid
      <4>1. \A j \in 1 .. n : \/ patches[j].match = Invalid
                             \/ \E k \in 1 .. m : matched[k] = j
        BY <1>1 DEF Matching, m, n
      <4> QED
        BY <3>2, <3>3, <4>1
    <3> QED
      BY <1>8, <3>1, <3>4
  <2>5. \A k \in 1 .. m :
          /\ patches'[k].match + 1 \in DOMAIN Prev'
          /\ Prev'[patches'[k].match + 1].shape.view = patches'[k].shape.view
    <3> TAKE k \in 1 .. m
    <3>1. patches'[k] = patches[matched[k]]
      BY <2>1
    <3>2. patches[matched[k]].match + 1 \in 1 .. Len(Prev)
      BY <1>0, <1>3, <2>2
    <3> QED
      BY <1>3, <2>2, <3>1, <3>2
  <2>6. frames'[Len(frames') + 1 - 1].patches = Prev'
    BY <1>0, <1>3 DEF Prev
  <2>7. opt'.constrained /\ Len(frames') + 1 > 1
    BY <1>0, <1>1, <1>3 DEF Matching
  <2>8. m \in 0 .. n /\ Len(matched') = m /\ Len(patches') = n
    BY <1>0, <1>2, <1>7, <1>8 DEF m
  <2> QED
    BY <2>3, <2>4, <2>5, <2>6, <2>7, <2>8 DEF MatchesValid
<1>10. NoneBetter(Prev, patches, Len(Prev))'
  <2>1. NoneBetter(Prev, patches, Len(Prev))
    BY <1>0, <1>1 DEF Matching
  <2> SUFFICES ASSUME NEW k \in 1 .. Len(Prev), NEW i \in 1 .. n,
                      Prev[k].shape.view = patches'[i].shape.view,
                      Overlap(Prev[k], patches'[i]) > Threshold
               PROVE  \/ patches'[i].match \in 0 .. k - 1
                      \/ \E j \in 1 .. n :
                           /\ patches'[j].match = k - 1
                           /\ Overlap(Prev[k], patches'[j])
                                >= Overlap(Prev[k], patches'[i])
    BY <1>3, <1>8 DEF NoneBetter, Overlap
  <2>2. order[i] \in 1 .. n /\ patches'[i] = patches[order[i]]
    BY <1>5, <1>8
  <2>3. CASE patches[order[i]].match \in 0 .. k - 1
    BY <2>2, <2>3
  <2>4. CASE \E j \in 1 .. n :
               /\ patches[j].match = k - 1
               /\ Overlap(Prev[k], patches[j])
                    >= Overlap(Prev[k], patches[order[i]])
    <3>1. PICK j \in 1 .. n :
               /\ patches[j].match = k - 1
               /\ Overlap(Prev[k], patches[j])
                    >= Overlap(Prev[k], patches[order[i]])
      BY <2>4
    <3>2. PICK l \in 1 .. n : order[l] = j
      BY <1>6
    <3>3. patches'[l] = patches[j]
      BY <1>8, <3>2
    <3> QED
      BY <2>2, <3>1, <3>3
  <2> QED
    BY <1>2, <2>1, <2>2, <2>3, <2>4 DEF NoneBetter
<1>11. /\ IsRecord(canvas)' /\ CanvasType' /\ canvas'.U > 0
       /\ canvas'.width = canvas'.U /\ canvas'.row <= canvas'.height
  <2> DEFINE U == StartU(patches')
             V == canvas.V
             horizon == [x \in 0 .. U - 1 |-> 0]
             start == StartV(patches')
  <2>1. U \in Nat \ {0} /\ V \in Nat
    BY <1>2, <1>8, StartUType
  <2>2. canvas' = [Canvas(U, start) EXCEPT !.V = V, !.height = V]
    BY <1>0 DEF StartCanvas
  <2> HIDE DEF U, V, start
  <2>3. Canvas(U, start) = [U |-> U, V |-> start, occ |-> {}, horizon |-> horizon,
                            width |-> U, height |-> start, row |-> 0]
    BY DEF Canvas
  <2> HIDE DEF horizon
  <2>4. canvas' = [[U |-> U, V |-> start, occ |-> {}, horizon |-> horizon,
                    width |-> U, height |-> start, row |-> 0]
                      EXCEPT !.V = V, !.height = V]
    BY <2>2, <2>3, Zenon
  <2>5. canvas' = [U |-> U, V |-> V, occ |-> {}, horizon |-> horizon,
                   width |-> U, height |-> V, row |-> 0]
    BY <2>4
  <2> QED
    BY <2>1, <2>5 DEF IsRecord, CanvasType
<1>12. TypeInv'
  <2>1. opt' \in Options /\ frames' \in Seq(FrameSet)
          /\ Len(frames') <= PackFrames /\ phase' \in Phases
          /\ missed' \in Seq(MissedSet) /\ id' \in Nat /\ placed' \in Nat
    BY <1>0, TypeFacts DEF Phases
  <2>2. patches' \in Seq(PatchSet) /\ matched' \in Seq(DOMAIN patches')
    BY <1>0, <1>2, <1>8
  <2>3. InProgress'
    BY <1>0, TypeFacts DEF InProgress
  <2> QED
    BY <1>11, <2>1, <2>2, <2>3 DEF TypeInv, PackingTypeOK
<1>13. LayInv'
  <2>1. placed' = 0
    BY <1>0, <1>1 DEF Matching
  <2>2. Len(patches') \in Nat /\ Len(missed') \in Nat
    BY <1>0, <1>2, <1>8, TypeFacts
  <2> QED
    BY <1>0, <1>11, <2>1, <2>2, LayoutEmpty DEF LayInv, Lying, LyingMissed
<1>14. MatchInv'
  BY <1>0, <1>9, <1>10 DEF MatchInv, Matched
<1> QED
  BY <1>4, <1>12, <1>13, <1>14 DEF PackInv

\* Where a patch is placed matters neither for its match nor for its overlaps.
LEMMA SameMatching ==
  ASSUME NEW ps, NEW qs, Len(qs) = Len(ps), Len(ps) \in Nat,
         DOMAIN ps = 1 .. Len(ps), DOMAIN qs = 1 .. Len(ps),
         \A i \in 1 .. Len(ps) :
           qs[i].shape = ps[i].shape /\ qs[i].match = ps[i].match
  PROVE  /\ \A f \in Nat, n \in Nat : MatchesValid(f, ps, n) => MatchesValid(f, qs, n)
         /\ \A prev, n : NoneBetter(prev, ps, n) => NoneBetter(prev, qs, n)
<1>1. ASSUME NEW f \in Nat, NEW n \in Nat, MatchesValid(f, ps, n)
      PROVE  MatchesValid(f, qs, n)
  <2>1. n \in 0 .. Len(ps) /\ (n > 0 => f > 1 /\ opt.constrained)
    BY <1>1 DEF MatchesValid
  <2>2. \A i \in 1 .. n : i \in 1 .. Len(ps)
    BY <2>1
  <2>3. \A i \in n + 1 .. Len(ps) : i \in 1 .. Len(ps)
    BY <2>1
  <2>4. \A i \in 1 .. n :
          /\ qs[i].match + 1 \in DOMAIN frames[f - 1].patches
          /\ frames[f - 1].patches[qs[i].match + 1].shape.view
               = qs[i].shape.view
    BY <1>1, <2>2 DEF MatchesValid
  <2>5. \A i, j \in 1 .. n : i < j => qs[i].match < qs[j].match
    BY <1>1, <2>2 DEF MatchesValid
  <2>6. \A i \in n + 1 .. Len(qs) : qs[i].match = Invalid
    BY <1>1, <2>3 DEF MatchesValid
  <2> QED
    BY <2>1, <2>4, <2>5, <2>6 DEF MatchesValid
<1>2. ASSUME NEW prev, NEW n, NoneBetter(prev, ps, n)
      PROVE  NoneBetter(prev, qs, n)
  <2>1. \A q, i \in 1 .. Len(ps) : Overlap(q, qs[i]) = Overlap(q, ps[i])
    BY DEF Overlap
  <2> SUFFICES ASSUME NEW k \in 1 .. n, NEW i \in 1 .. Len(ps),
                      prev[k].shape.view = qs[i].shape.view,
                      Overlap(prev[k], qs[i]) > Threshold
               PROVE  \/ qs[i].match \in 0 .. k - 1
                      \/ \E j \in 1 .. Len(ps) :
                           /\ qs[j].match = k - 1
                           /\ Overlap(prev[k], qs[j]) >= Overlap(prev[k], qs[i])
    BY DEF NoneBetter
  <2>2. \A j \in 1 .. Len(ps) : Overlap(prev[k], qs[j]) = Overlap(prev[k], ps[j])
    BY DEF Overlap
  <2>3. \/ ps[i].match \in 0 .. k - 1
        \/ \E j \in 1 .. Len(ps) :
             /\ ps[j].match = k - 1
             /\ Overlap(prev[k], ps[j]) >= Overlap(prev[k], ps[i])
    BY <1>2, <2>2 DEF NoneBetter
  <2> QED
    BY <2>2, <2>3
<1> QED
  BY <1>1, <1>2

LEMMA PlaceKeeps ==
  ASSUME PackInv, Place
  PROVE  PackInv'
<1> DEFINE n == Len(patches)
           k == placed + 1
           p == patches[k]
<1>0. /\ phase = "place" /\ placed < n /\ placed' = k
      /\ frames' = frames /\ opt' = opt /\ phase' = phase
      /\ matched' = matched /\ id' = id /\ missed' = missed
  BY DEF Place
<1>1. /\ n \in Nat /\ DOMAIN patches = 1 .. n /\ placed \in Nat
      /\ \A i \in 1 .. n : patches[i] \in PatchSet
      /\ k \in 1 .. n /\ p \in PatchSet
  <2>1. n \in Nat /\ DOMAIN patches = 1 .. n /\ placed \in Nat
    BY TypeFacts
  <2>2. \A i \in 1 .. n : patches[i] \in PatchSet
    BY TypeFacts
  <2>3. k \in 1 .. n
    BY <1>0, <2>1
  <2> QED
    BY <2>1, <2>2, <2>3
<1>2. /\ IsRecord(canvas) /\ canvas.U \in Nat /\ canvas.V \in Nat
      /\ canvas.width \in 0 .. canvas.U
      /\ canvas.height \in 0 .. canvas.V /\ canvas.row \in 0 .. canvas.V
      /\ canvas.occ \subseteq (0 .. canvas.U - 1) \X (0 .. canvas.V - 1)
  BY TypeFacts DEF CanvasType
<1>3. /\ canvas.U > 0 /\ canvas.width = canvas.U /\ canvas.row <= canvas.height
      /\ Layout(patches, placed, missed, 0, canvas.U, canvas.row, canvas.height)
      /\ \A i \in 1 .. placed : Occ(patches[i]) \subseteq canvas.occ
  BY <1>0, TypeFacts DEF LayInv, Lying, LyingMissed
<1>4. Matched
  BY <1>0, TypeFacts DEF MatchInv
<1>5. p.match = Invalid \/ Prev[p.match + 1] \in PatchSet
  <2> DEFINE l == Len(matched)
             e == Len(frames)
  <2>1. l \in Nat /\ e \in Nat /\ e + 1 - 1 = e
    BY TypeFacts
  <2>2. CASE k \in 1 .. l
    <3>1. /\ e + 1 > 1
          /\ p.match + 1 \in DOMAIN frames[e + 1 - 1].patches
      BY <1>4, <2>1, <2>2 DEF Matched, MatchesValid
    <3>2. frames # <<>>
      BY <2>1, <3>1
    <3>3. Prev \in Seq(PatchSet) /\ p.match + 1 \in DOMAIN Prev
      BY <2>1, <3>1, <3>2, PrevType DEF Prev
    <3> QED
      BY <3>3
  <2>3. CASE k \notin 1 .. l
    <3>1. k \in l + 1 .. n
      BY <1>1, <2>1, <2>3
    <3> QED
      BY <1>4, <3>1 DEF Matched, MatchesValid
  <2> QED
    BY <2>2, <2>3
<1> HIDE DEF n, k, p
<1>6. PICK t \in Fitting(p, canvas) :
        /\ patches' = [patches EXCEPT ![k] = Located(p, t)]
        /\ canvas' = Extended(canvas, Located(p, t))
  BY DEF Place, k, p
<1> DEFINE L == Located(p, t)
<1>7. /\ IsTry(t) /\ Fits(L, canvas, t.guard)
      /\ L \in PatchSet /\ L.shape = p.shape /\ L.match = p.match
  <2>1. t \in Tries(p, canvas) /\ Fits(L, canvas, t.guard)
    BY <1>6 DEF Fitting
  <2>2. IsTry(t)
    BY <1>1, <1>2, <1>5, <2>1, TriesType, TypeFacts
  <2> QED
    BY <1>1, <2>1, <2>2, LocatedType
<1> HIDE DEF L
<1>8. /\ Solid(L) /\ Occ(L) \subseteq Box(L)
      /\ Box(L) \subseteq (0 .. canvas.U - 1) \X (0 .. canvas.V - 1)
      /\ Box(L) \cap canvas.occ = {}
      /\ L.u0 + BoxW(L) \in 1 .. canvas.U /\ L.v0 + BoxH(L) \in 1 .. canvas.V
      /\ Box(L) \subseteq (L.u0 .. L.u0 + BoxW(L) - 1)
                            \X (L.v0 .. L.v0 + BoxH(L) - 1)
  <2>1. Solid(L) /\ t.guard \in Nat
    BY <1>7, PatchFields DEF IsTry
  <2> QED
    BY <1>2, <1>7, <2>1, OccInBox, FitsOnFree, FitsExtent, BoxBounds
<1>9. /\ IsRecord(canvas') /\ canvas'.U = canvas.U /\ canvas'.V = canvas.V
      /\ canvas'.occ = canvas.occ \cup Occ(L)
      /\ canvas'.width = canvas.U
      /\ canvas'.height = MaxOf(canvas.height, L.v0 + BoxH(L))
      /\ canvas'.row = MaxOf(canvas.row, L.v0 + BoxH(L))
  <2>1. MaxOf(canvas.width, L.u0 + BoxW(L)) = canvas.U
    BY <1>2, <1>3, <1>8 DEF MaxOf
  <2> QED
    BY <1>2, <1>6, <2>1, ExtendedFields DEF L
<1>10. /\ canvas'.height \in 0 .. canvas.V /\ canvas'.row \in 0 .. canvas.V
       /\ canvas'.row <= canvas'.height
       /\ canvas.row <= canvas'.row /\ L.v0 + BoxH(L) <= canvas'.row
  BY <1>2, <1>3, <1>8, <1>9 DEF MaxOf
<1>11. CanvasType'
  <2>1. canvas'.occ \subseteq (0 .. canvas.U - 1) \X (0 .. canvas.V - 1)
    BY <1>2, <1>8, <1>9
  <2> QED
    BY <1>2, <1>9, <1>10, <2>1 DEF CanvasType
<1>12. /\ patches' \in Seq(PatchSet) /\ Len(patches') = n /\ DOMAIN patches' = 1 .. n
       /\ patches'[k] = L
       /\ \A i \in 1 .. n : i # k => patches'[i] = patches[i]
       /\ \A i \in 1 .. n : /\ patches'[i].shape = patches[i].shape
                            /\ patches'[i].match = patches[i].match
  <2>1. patches \in Seq(PatchSet)
    BY TypeFacts
  <2>2. /\ patches' \in Seq(PatchSet) /\ Len(patches') = n
        /\ DOMAIN patches' = 1 .. n /\ patches'[k] = L
        /\ \A i \in 1 .. n : i # k => patches'[i] = patches[i]
    BY <1>1, <1>6, <1>7, <2>1 DEF n, L
  <2> QED
    BY <1>7, <2>2 DEF p
<1>13. LayInv'
  <2>1. /\ \A i \in 1 .. placed :
             Box(patches[i]) \subseteq (0 .. canvas.U - 1) \X (0 .. canvas.row - 1)
        /\ \A i, j \in 1 .. placed :
             i < j => Occ(patches[i]) \cap Box(patches[j]) = {}
    BY <1>3 DEF Layout
  <2>2. k = placed + 1 /\ \A i \in 1 .. placed : i \in 1 .. n /\ i # k
    BY <1>0, <1>1 DEF k
  <2>3. \A i \in 1 .. placed : patches'[i] = patches[i]
    BY <1>12, <2>2
  <2>4. \A i \in 1 .. k : i = k \/ i \in 1 .. placed
    BY <1>1, <2>2
  <2>5. \A i \in 1 .. k :
          Box(patches'[i]) \subseteq (0 .. canvas.U - 1) \X (0 .. canvas'.row - 1)
    <3> TAKE i \in 1 .. k
    <3>1. CASE i = k
      <4>1. (0 .. canvas.V - 1) \cap (L.v0 .. L.v0 + BoxH(L) - 1)
              \subseteq 0 .. canvas'.row - 1
        <5>1. /\ L.v0 \in Int /\ BoxH(L) \in Nat /\ canvas'.row \in Int
              /\ L.v0 + BoxH(L) <= canvas'.row
          BY <1>2, <1>8, <1>10, BoxBounds DEF Solid
        <5> QED
          BY <1>2, <5>1
      <4> QED
        BY <1>8, <1>12, <3>1, <4>1
    <3>2. CASE i \in 1 .. placed
      <4>1. 0 .. canvas.row - 1 \subseteq 0 .. canvas'.row - 1
        BY <1>2, <1>10
      <4> QED
        BY <2>1, <2>3, <3>2, <4>1
    <3> QED
      BY <2>4, <3>1, <3>2
  <2>6. \A i, j \in 1 .. k : i < j => Occ(patches'[i]) \cap Box(patches'[j]) = {}
    <3> SUFFICES ASSUME NEW i \in 1 .. k, NEW j \in 1 .. k, i < j
                 PROVE  Occ(patches'[i]) \cap Box(patches'[j]) = {}
      OBVIOUS
    <3>1. i \in 1 .. placed
      BY <1>1, <2>2
    <3>2. CASE j = k
      BY <1>3, <1>8, <1>12, <2>3, <3>1, <3>2
    <3>3. CASE j \in 1 .. placed
      BY <2>1, <2>3, <3>1, <3>3
    <3> QED
      BY <2>4, <3>2, <3>3
  <2>7. Layout(patches', k, missed', 0, canvas'.U, canvas'.row, canvas'.height)
    BY <1>9, <2>5, <2>6 DEF Layout
  <2>8. \A i \in 1 .. k : Occ(patches'[i]) \subseteq canvas'.occ
    BY <1>3, <1>9, <1>12, <2>3, <2>4
  <2>9. Lying' = k /\ LyingMissed' = 0
    BY <1>0, <2>2 DEF Lying, LyingMissed
  <2>10. k <= Len(patches') /\ 0 <= Len(missed')
    BY <1>0, <1>1, <1>12, TypeFacts
  <2>11. canvas'.U > 0 /\ canvas'.width = canvas'.U /\ canvas'.row <= canvas'.height
    BY <1>3, <1>9, <1>10
  <2> QED
    BY <2>7, <2>8, <2>9, <2>10, <2>11 DEF LayInv
<1>14. MatchInv'
  <2>1. Len(frames) + 1 \in Nat /\ Len(matched) \in Nat
    BY TypeFacts
  <2>2. /\ MatchesValid(Len(frames) + 1, patches', Len(matched))
        /\ opt.constrained /\ frames # <<>> =>
             NoneBetter(Prev, patches', Len(Prev))
    BY <1>1, <1>4, <1>12, <2>1, SameMatching DEF Matched, n
  <2>3. MatchesValid(Len(frames) + 1, patches, Len(matched))'
    BY <1>0, <2>2 DEF MatchesValid
  <2>4. opt'.constrained /\ frames' # <<>> => NoneBetter(Prev, patches, Len(Prev))'
    BY <1>0, <2>2 DEF Prev, NoneBetter
  <2> QED
    BY <1>0, <2>3, <2>4 DEF MatchInv, Matched
<1>15. TypeInv'
  <2>1. opt' \in Options /\ frames' \in Seq(FrameSet)
          /\ Len(frames') <= PackFrames /\ phase' \in Phases
          /\ missed' \in Seq(MissedSet) /\ id' \in Nat
    BY <1>0, TypeFacts
  <2>2. placed' \in Nat
    BY <1>0, <1>1
  <2>3. matched' \in Seq(DOMAIN patches')
    BY <1>0, <1>1, <1>12, TypeFacts
  <2>4. IsRecord(canvas)'
    BY <1>9 DEF IsRecord
  <2>5. InProgress'
    BY <1>0, TypeFacts DEF InProgress
  <2> QED
    BY <1>11, <1>12, <2>1, <2>2, <2>3, <2>4, <2>5 DEF TypeInv, PackingTypeOK
<1>16. (FramesLayout /\ MatchingValid /\ NoBetterLeft)'
  BY <1>0, TypeFacts, FramesKept
<1> QED
  BY <1>13, <1>14, <1>15, <1>16 DEF PackInv

LEMMA DoubledFields ==
  ASSUME NEW c, IsRecord(c)
  PROVE  /\ IsRecord(Doubled(c)) /\ Doubled(c).V = 2 * c.V
         /\ Doubled(c).U = c.U /\ Doubled(c).occ = c.occ
         /\ Doubled(c).width = c.width /\ Doubled(c).height = c.height
         /\ Doubled(c).row = c.row
<1> DEFINE V == 2 * c.V
           U == c.U
           occ == c.occ
           horizon == c.horizon
           width == c.width
           height == c.height
           row == c.row
           old == [U |-> U, V |-> c.V, occ |-> occ, horizon |-> horizon,
                   width |-> width, height |-> height, row |-> row]
<1>1. Doubled(c) = [c EXCEPT !.V = V] /\ c = old
  BY DEF Doubled, IsRecord
<1>2. Doubled(c) = [old EXCEPT !.V = V]
  BY <1>1, Zenon
<1> HIDE DEF V, U, occ, horizon, width, height, row
<1>3. Doubled(c) = [U |-> U, V |-> V, occ |-> occ, horizon |-> horizon,
                    width |-> width, height |-> height, row |-> row]
  BY <1>2
<1> QED
  BY <1>3 DEF IsRecord, V, U, occ, horizon, width, height, row

\* A higher canvas holds what lies on the lower one.
LEMMA DoubledKeeps ==
  ASSUME PackInv, canvas' = Doubled(canvas),
         UNCHANGED <<opt, frames, phase, patches, matched, id, placed, missed>>
  PROVE  PackInv'
<1>1. /\ IsRecord(canvas) /\ canvas.U \in Nat /\ canvas.V \in Nat
      /\ canvas.width \in 0 .. canvas.U
      /\ canvas.height \in 0 .. canvas.V /\ canvas.row \in 0 .. canvas.V
      /\ canvas.occ \subseteq (0 .. canvas.U - 1) \X (0 .. canvas.V - 1)
  BY TypeFacts DEF CanvasType
<1>2. /\ IsRecord(canvas') /\ canvas'.V = 2 * canvas.V
      /\ canvas'.U = canvas.U /\ canvas'.occ = canvas.occ
      /\ canvas'.width = canvas.width /\ canvas'.height = canvas.height
      /\ canvas'.row = canvas.row
  BY <1>1, DoubledFields
<1>3. CanvasType'
  <2>1. /\ canvas'.V \in Nat
        /\ 0 .. canvas.V \subseteq 0 .. canvas'.V
        /\ 0 .. canvas.V - 1 \subseteq 0 .. canvas'.V - 1
    BY <1>1, <1>2
  <2> QED
    BY <1>1, <1>2, <2>1 DEF CanvasType
<1>4. TypeInv'
  <2>1. IsRecord(canvas)'
    BY <1>2 DEF IsRecord
  <2> QED
    BY <1>3, <2>1, TypeFacts DEF TypeInv, PackingTypeOK, InProgress
<1>5. MatchInv'
  BY TypeFacts
     DEF MatchInv, Matching, Matched, MatchesValid, NoneBetter, Prev
<1>6. LayInv'
  BY <1>2, TypeFacts DEF LayInv, Lying, LyingMissed
<1>7. (FramesLayout /\ MatchingValid /\ NoBetterLeft)'
  BY TypeFacts, FramesKept
<1> QED
  BY <1>4, <1>5, <1>6, <1>7 DEF PackInv

\* A frame is done when everything it has lies on the canvas.
LEMMA FrameDoneKeeps ==
  ASSUME PackInv, phase \in {"place", "missed"}, Lying = Len(patches),
         opt' = opt, missed' = missed, FrameDone(LyingMissed, canvas)
  PROVE  PackInv'
<1> DEFINE n == Len(patches)
           l == LyingMissed
           f == [patches |-> patches, matches |-> Len(matched),
                 missed |-> missed, laid |-> l,
                 width |-> canvas.width, height |-> canvas.height]
<1>1. /\ frames' = Append(frames, f) /\ phase' = "segment"
      /\ patches' = <<>> /\ matched' = <<>> /\ id' = 0 /\ placed' = 0
      /\ canvas' = NoCanvas
  BY DEF FrameDone
<1>2. /\ canvas.U \in Nat /\ canvas.width \in Nat /\ canvas.height \in Nat
      /\ canvas.row \in Nat
  BY TypeFacts DEF CanvasType
<1>3. /\ canvas.width = canvas.U /\ canvas.row <= canvas.height
      /\ l <= Len(missed)
      /\ Layout(patches, n, missed, l, canvas.U, canvas.row, canvas.height)
  BY TypeFacts DEF LayInv
<1>4. l \in Nat /\ Len(matched) \in Nat
  BY TypeFacts DEF LyingMissed
<1>5. /\ f.patches = patches /\ f.matches = Len(matched) /\ f.missed = missed
      /\ f.laid = l /\ f.width = canvas.width /\ f.height = canvas.height
  OBVIOUS
<1> HIDE DEF l
<1>6. f \in FrameSet
  BY <1>2, <1>4, TypeFacts DEF FrameSet
<1> HIDE DEF f
<1>7. FrameLayout(f)
  <2>1. canvas.row \in 0 .. canvas.height
    BY <1>2, <1>3
  <2> QED
    BY <1>3, <1>5, <2>1 DEF FrameLayout, n
<1>8. Matched
  BY TypeFacts DEF MatchInv
<1>9. (FramesLayout /\ MatchingValid /\ NoBetterLeft)'
  BY <1>1, <1>5, <1>6, <1>7, <1>8, TypeFacts, FrameAdded DEF Matched
<1>10. Len(frames) + 1 <= PackFrames
  BY TypeFacts, ConstantsType DEF InProgress
<1>11. TypeInv'
  <2>1. frames' \in Seq(FrameSet) /\ Len(frames') <= PackFrames
    BY <1>1, <1>6, <1>10, TypeFacts
  <2>2. CanvasType' /\ IsRecord(canvas)'
    BY <1>1 DEF NoCanvas, CanvasType, IsRecord
  <2>3. patches' \in Seq(PatchSet) /\ matched' \in Seq(DOMAIN patches')
    BY <1>1
  <2> QED
    BY <1>1, <2>1, <2>2, <2>3, TypeFacts DEF TypeInv, PackingTypeOK, Phases, InProgress
<1> QED
  BY <1>1, <1>9, <1>11 DEF PackInv, MatchInv, LayInv

LEMMA PlacedAllKeeps ==
  ASSUME PackInv, PlacedAll
  PROVE  PackInv'
<1>1. phase = "place" /\ placed = Len(patches) /\ opt' = opt /\ missed' = missed
  BY DEF PlacedAll
<1>2. Lying = Len(patches) /\ LyingMissed = 0
  BY <1>1 DEF Lying, LyingMissed
<1>3. CASE PacksMissed
  <2>1. /\ phase' = "missed" /\ placed' = 0 /\ frames' = frames
        /\ patches' = patches /\ matched' = matched /\ id' = id
        /\ canvas' = canvas
    BY <1>3 DEF PlacedAll
  <2>2. TypeInv'
    <3>1. CanvasType' /\ IsRecord(canvas)'
      BY <2>1, TypeFacts, CanvasKept
    <3> QED
      BY <1>1, <2>1, <3>1, TypeFacts
         DEF TypeInv, PackingTypeOK, InProgress, Phases
  <2>3. LayInv'
    <3>1. Lying' = Len(patches) /\ LyingMissed' = 0
      BY <2>1 DEF Lying, LyingMissed
    <3> QED
      BY <1>1, <1>2, <2>1, <3>1, TypeFacts DEF LayInv
  <2>4. MatchInv'
    BY <1>1, <2>1, TypeFacts DEF MatchInv, Matched, MatchesValid, NoneBetter, Prev
  <2>5. (FramesLayout /\ MatchingValid /\ NoBetterLeft)'
    BY <1>1, <2>1, TypeFacts, FramesKept
  <2> QED
    BY <2>2, <2>3, <2>4, <2>5 DEF PackInv
<1>4. CASE ~PacksMissed
  <2>1. FrameDone(LyingMissed, canvas)
    BY <1>2, <1>4 DEF PlacedAll
  <2> QED
    BY <1>1, <1>2, <2>1, FrameDoneKeeps
<1> QED
  BY <1>3, <1>4

LEMMA PlacedMissedKeeps ==
  ASSUME PackInv, PlacedMissed
  PROVE  PackInv'
<1>1. /\ phase = "missed" /\ opt' = opt /\ missed' = missed
      /\ placed = Len(missed) /\ FrameDone(Len(missed), canvas)
  BY DEF PlacedMissed
<1>2. Lying = Len(patches) /\ LyingMissed = Len(missed)
  BY <1>1 DEF Lying, LyingMissed
<1> QED
  BY <1>1, <1>2, FrameDoneKeeps

\* The size of a missed points patch in blocks is that of a box.
LEMMA SizedType ==
  ASSUME NEW m \in MissedSet, NEW c, c.U \in Nat \ {0}
  PROVE  /\ Sized(m, c) \in MissedSet
         /\ Sized(m, c).w \in Nat \ {0} /\ Sized(m, c).h \in Nat \ {0}
<1>1. Resolution * Resolution \in Nat \ {0}
  BY ConstantsType
<1>2. m.size \in Nat \ {0}
  BY DEF MissedSet
<1>3. MissedBlocks(m) \in Nat \ {0}
  BY <1>1, <1>2, CeilDivType, Zenon DEF MissedBlocks
<1>4. MissedV0(m, c.U) \in Nat \ {0}
  BY <1>3, CeilDivType, Zenon DEF MissedV0
<1>5. MissedU0(m, c.U) \in Nat \ {0}
  BY <1>3, <1>4, CeilDivType, Zenon DEF MissedU0
<1> QED
  BY <1>4, <1>5 DEF Sized, MissedSet

LEMMA RecordMoved ==
  ASSUME NEW s, NEW x, NEW u, NEW v, NEW d, NEW a, NEW b, NEW r,
         r = [[shape |-> s, match |-> x, u0 |-> u, v0 |-> v, turn |-> d]
                EXCEPT !.u0 = a, !.v0 = b]
  PROVE  r = [shape |-> s, match |-> x, u0 |-> a, v0 |-> b, turn |-> d]
OBVIOUS

LEMMA RecordTurned ==
  ASSUME NEW s, NEW x, NEW u, NEW v, NEW d, NEW a, NEW b, NEW e, NEW r,
         r = [[shape |-> s, match |-> x, u0 |-> u, v0 |-> v, turn |-> d]
                EXCEPT !.u0 = a, !.v0 = b, !.turn = e]
  PROVE  r = [shape |-> s, match |-> x, u0 |-> a, v0 |-> b, turn |-> e]
OBVIOUS

\* To move the patch is to move the record it is made of.
LEMMA MovedMissed ==
  ASSUME NEW m \in MissedSet, NEW t, t.u \in Int, t.v \in Int, t.turn = DEFAULT
  PROVE  /\ [m EXCEPT !.u0 = t.u, !.v0 = t.v] \in MissedSet
         /\ [m EXCEPT !.u0 = t.u, !.v0 = t.v].w = m.w
         /\ [m EXCEPT !.u0 = t.u, !.v0 = t.v].h = m.h
         /\ [m EXCEPT !.u0 = t.u, !.v0 = t.v].u0 = t.u
         /\ [m EXCEPT !.u0 = t.u, !.v0 = t.v].v0 = t.v
         /\ MissedPatch([m EXCEPT !.u0 = t.u, !.v0 = t.v])
              = Located(MissedPatch(m), t)
<1> DEFINE n == [m EXCEPT !.u0 = t.u, !.v0 = t.v]
<1>1. /\ n \in MissedSet /\ n.w = m.w /\ n.h = m.h /\ n.size = m.size
      /\ n.u0 = t.u /\ n.v0 = t.v
  BY DEF MissedSet
<1> HIDE DEF n
<1>2. MissedShape(n) = MissedShape(m)
  BY <1>1 DEF MissedShape
<1>3. MissedPatch(n) = [shape |-> MissedShape(m), match |-> Invalid,
                        u0 |-> t.u, v0 |-> t.v, turn |-> DEFAULT]
  <2>1. MissedPatch(n) = [shape |-> MissedShape(n), match |-> Invalid,
                          u0 |-> n.u0, v0 |-> n.v0, turn |-> DEFAULT]
    <3>1. MissedPatch(n) = [[shape |-> MissedShape(n), match |-> Invalid,
                             u0 |-> 0, v0 |-> 0, turn |-> DEFAULT]
                              EXCEPT !.u0 = n.u0, !.v0 = n.v0]
      BY Zenon DEF MissedPatch, FreshPatch
    <3> QED
      BY <3>1, RecordMoved
  <2> QED
    BY <1>1, <1>2, <2>1, Zenon
<1>4. MissedPatch(m) = [shape |-> MissedShape(m), match |-> Invalid,
                        u0 |-> m.u0, v0 |-> m.v0, turn |-> DEFAULT]
  <2>1. MissedPatch(m) = [[shape |-> MissedShape(m), match |-> Invalid,
                           u0 |-> 0, v0 |-> 0, turn |-> DEFAULT]
                            EXCEPT !.u0 = m.u0, !.v0 = m.v0]
    BY Zenon DEF MissedPatch, FreshPatch
  <2> QED
    BY <2>1, RecordMoved
<1>5. Located(MissedPatch(m), t)
        = [shape |-> MissedShape(m), match |-> Invalid, u0 |-> t.u, v0 |-> t.v,
           turn |-> DEFAULT]
  <2>1. Located(MissedPatch(m), t)
          = [shape |-> MissedShape(m), match |-> Invalid, u0 |-> t.u,
             v0 |-> t.v, turn |-> t.turn]
    <3>1. Located(MissedPatch(m), t)
            = [[shape |-> MissedShape(m), match |-> Invalid, u0 |-> m.u0,
                v0 |-> m.v0, turn |-> DEFAULT]
                 EXCEPT !.u0 = t.u, !.v0 = t.v, !.turn = t.turn]
      BY <1>4, Zenon DEF Located
    <3> QED
      BY <3>1, RecordTurned
  <2> QED
    BY <2>1, Zenon
<1> QED
  BY <1>1, <1>3, <1>5 DEF n

LEMMA PlaceMissedKeeps ==
  ASSUME PackInv, PlaceMissed
  PROVE  PackInv'
<1> DEFINE k == placed + 1
           m == Sized(missed[k], canvas)
           l == Len(missed)
<1>0. /\ phase = "missed" /\ placed < l /\ placed' = k
      /\ frames' = frames /\ opt' = opt /\ phase' = phase
      /\ patches' = patches /\ matched' = matched /\ id' = id
  BY DEF PlaceMissed
<1>1. /\ l \in Nat /\ DOMAIN missed = 1 .. l /\ placed \in Nat
      /\ \A i \in 1 .. l : missed[i] \in MissedSet
      /\ k \in 1 .. l
  <2>1. l \in Nat /\ DOMAIN missed = 1 .. l /\ placed \in Nat
    BY TypeFacts
  <2>2. \A i \in 1 .. l : missed[i] \in MissedSet
    BY TypeFacts
  <2>3. k \in 1 .. l
    BY <1>0, <2>1
  <2> QED
    BY <2>1, <2>2, <2>3
<1>2. /\ IsRecord(canvas) /\ canvas.U \in Nat /\ canvas.V \in Nat
      /\ canvas.width \in 0 .. canvas.U
      /\ canvas.height \in 0 .. canvas.V /\ canvas.row \in 0 .. canvas.V
      /\ canvas.occ \subseteq (0 .. canvas.U - 1) \X (0 .. canvas.V - 1)
  BY TypeFacts DEF CanvasType
<1>3. /\ canvas.U > 0 /\ canvas.width = canvas.U /\ canvas.row <= canvas.height
      /\ Layout(patches, Len(patches), missed, placed, canvas.U, canvas.row,
                canvas.height)
      /\ \A i \in 1 .. Len(patches) : Occ(patches[i]) \subseteq canvas.occ
      /\ \A i \in 1 .. placed : Occ(MissedPatch(missed[i])) \subseteq canvas.occ
  BY <1>0, TypeFacts DEF LayInv, Lying, LyingMissed
<1>4. m \in MissedSet /\ m.w \in Nat \ {0} /\ m.h \in Nat \ {0}
  BY <1>1, <1>2, <1>3, SizedType
<1> HIDE DEF k, m, l
<1>5. PICK t \in MissedFitting(missed[k], canvas) :
        /\ missed' = [missed EXCEPT ![k] = [m EXCEPT !.u0 = t.u, !.v0 = t.v]]
        /\ canvas' = [canvas EXCEPT
             !.occ = @ \cup Occ(MissedPatch([m EXCEPT !.u0 = t.u, !.v0 = t.v])),
             !.height = MaxOf(@, [m EXCEPT !.u0 = t.u, !.v0 = t.v].v0
                                   + [m EXCEPT !.u0 = t.u, !.v0 = t.v].h)]
  BY Zenon DEF PlaceMissed, k, m
<1> DEFINE n == [m EXCEPT !.u0 = t.u, !.v0 = t.v]
           P == MissedPatch(n)
<1>6. /\ t.u \in Int /\ t.v \in Int /\ t.v >= canvas.row /\ t.turn = DEFAULT
      /\ Fits(Located(MissedPatch(m), t), canvas, 0)
  <2>1. t \in MissedTries(canvas) /\ Fits(Located(MissedPatch(m), t), canvas, 0)
    BY <1>5 DEF MissedFitting, m
  <2> QED
    BY <1>2, <2>1 DEF MissedTries, Try
<1>7. /\ n \in MissedSet /\ n.w = m.w /\ n.h = m.h /\ n.u0 = t.u /\ n.v0 = t.v
      /\ P = Located(MissedPatch(m), t)
  BY <1>4, <1>6, MovedMissed
<1>8. /\ missed' = [missed EXCEPT ![k] = n]
      /\ canvas' = [canvas EXCEPT !.occ = @ \cup Occ(P),
                                  !.height = MaxOf(@, n.v0 + n.h)]
  BY <1>5, Zenon
<1> HIDE DEF n
<1>9. Solid(P) /\ P.v0 = n.v0 /\ BoxW(P) = n.w /\ BoxH(P) = n.h
  BY <1>4, <1>7, MissedSolid
<1> HIDE DEF P
<1>10. /\ Occ(P) \subseteq Box(P)
       /\ Box(P) \subseteq (0 .. canvas.U - 1) \X (0 .. canvas.V - 1)
       /\ Box(P) \cap canvas.occ = {}
       /\ n.v0 + n.h \in 1 .. canvas.V
       /\ \A b \in Box(P) : b[2] \in n.v0 .. n.v0 + n.h - 1
  <2>1. Fits(P, canvas, 0) /\ 0 \in Nat
    BY <1>6, <1>7
  <2>2. /\ Box(P) \subseteq (P.u0 .. P.u0 + BoxW(P) - 1)
                              \X (P.v0 .. P.v0 + BoxH(P) - 1)
        /\ P.v0 + BoxH(P) \in 1 .. canvas.V
    BY <1>2, <1>9, <2>1, BoxBounds, FitsExtent
  <2>3. \A b \in Box(P) : b[2] \in n.v0 .. n.v0 + n.h - 1
    BY <1>9, <2>2
  <2> QED
    BY <1>2, <1>9, <2>1, <2>2, <2>3, OccInBox, FitsOnFree
<1>11. /\ IsRecord(canvas') /\ canvas'.U = canvas.U /\ canvas'.V = canvas.V
       /\ canvas'.occ = canvas.occ \cup Occ(P)
       /\ canvas'.width = canvas.width /\ canvas'.row = canvas.row
       /\ canvas'.height = MaxOf(canvas.height, n.v0 + n.h)
  <2> DEFINE occ == canvas.occ \cup Occ(P)
             height == MaxOf(canvas.height, n.v0 + n.h)
             U == canvas.U
             V == canvas.V
             horizon == canvas.horizon
             width == canvas.width
             row == canvas.row
             old == [U |-> U, V |-> V, occ |-> canvas.occ, horizon |-> horizon,
                     width |-> width, height |-> canvas.height, row |-> row]
  <2>1. canvas' = [canvas EXCEPT !.occ = occ, !.height = height]
    BY <1>8, Zenon
  <2>2. canvas = old
    BY <1>2 DEF IsRecord
  <2>3. canvas' = [old EXCEPT !.occ = occ, !.height = height]
    BY <2>1, <2>2, Zenon
  <2> HIDE DEF occ, height, U, V, horizon, width, row
  <2>4. canvas' = [U |-> U, V |-> V, occ |-> occ, horizon |-> horizon,
                   width |-> width, height |-> height, row |-> row]
    BY <2>3
  <2> QED
    BY <2>4 DEF IsRecord, occ, height, U, V, width, row
<1>12. /\ canvas'.height \in 0 .. canvas.V /\ canvas.row <= canvas'.height
       /\ canvas.height <= canvas'.height /\ n.v0 + n.h <= canvas'.height
       /\ n.v0 >= canvas.row /\ n.v0 \in Int /\ n.h \in Int
  <2>1. n.v0 \in Int /\ n.h \in Int
    BY <1>7 DEF MissedSet
  <2>2. n.v0 >= canvas.row
    BY <1>6, <1>7
  <2>3. n.v0 + n.h \in 1 .. canvas.V
    BY <1>10
  <2> QED
    BY <1>2, <1>3, <1>11, <2>1, <2>2, <2>3 DEF MaxOf
<1>13. CanvasType'
  <2>1. canvas'.occ \subseteq (0 .. canvas.U - 1) \X (0 .. canvas.V - 1)
    BY <1>2, <1>10, <1>11
  <2> QED
    BY <1>2, <1>11, <1>12, <2>1 DEF CanvasType
<1>14. /\ missed' \in Seq(MissedSet) /\ Len(missed') = l /\ missed'[k] = n
       /\ \A i \in 1 .. l : i # k => missed'[i] = missed[i]
  <2>1. missed \in Seq(MissedSet)
    BY TypeFacts
  <2> QED
    BY <1>1, <1>7, <1>8, <2>1 DEF l
<1>15. LayInv'
  <2>1. /\ \A i \in 1 .. Len(patches) :
             Box(patches[i]) \subseteq (0 .. canvas.U - 1) \X (0 .. canvas.row - 1)
        /\ \A i, j \in 1 .. Len(patches) :
             i < j => Occ(patches[i]) \cap Box(patches[j]) = {}
        /\ \A i \in 1 .. placed :
             /\ missed[i].w \in Nat \ {0} /\ missed[i].h \in Nat \ {0}
             /\ Box(MissedPatch(missed[i]))
                  \subseteq (0 .. canvas.U - 1) \X (canvas.row .. canvas.height - 1)
        /\ \A i, j \in 1 .. placed :
             i < j => Occ(MissedPatch(missed[i])) \cap Box(MissedPatch(missed[j]))
                        = {}
    BY <1>3 DEF Layout
  <2>2. k = placed + 1 /\ \A i \in 1 .. placed : i \in 1 .. l /\ i # k
    BY <1>0, <1>1 DEF k
  <2>3. \A i \in 1 .. placed : missed'[i] = missed[i]
    BY <1>14, <2>2
  <2>4. \A i \in 1 .. k : i = k \/ i \in 1 .. placed
    BY <1>1, <2>2
  <2>5. MissedPatch(missed'[k]) = P /\ missed'[k].w = m.w /\ missed'[k].h = m.h
    BY <1>7, <1>14 DEF P
  <2>6. \A i \in 1 .. k :
          /\ missed'[i].w \in Nat \ {0} /\ missed'[i].h \in Nat \ {0}
          /\ Box(MissedPatch(missed'[i]))
               \subseteq (0 .. canvas.U - 1) \X (canvas.row .. canvas'.height - 1)
    <3> TAKE i \in 1 .. k
    <3>1. CASE i = k
      <4>1. \A b \in Box(P) : b[2] \in canvas.row .. canvas'.height - 1
        BY <1>2, <1>10, <1>12
      <4>2. Box(P) \subseteq (0 .. canvas.U - 1) \X (canvas.row .. canvas'.height - 1)
        BY <1>10, <4>1
      <4> QED
        BY <1>4, <2>5, <3>1, <4>2
    <3>2. CASE i \in 1 .. placed
      <4>1. canvas.row .. canvas.height - 1 \subseteq canvas.row .. canvas'.height - 1
        BY <1>2, <1>12
      <4> QED
        BY <2>1, <2>3, <3>2, <4>1
    <3> QED
      BY <2>4, <3>1, <3>2
  <2>7. \A i, j \in 1 .. k :
          i < j => Occ(MissedPatch(missed'[i])) \cap Box(MissedPatch(missed'[j]))
                     = {}
    <3> SUFFICES ASSUME NEW i \in 1 .. k, NEW j \in 1 .. k, i < j
                 PROVE  Occ(MissedPatch(missed'[i]))
                          \cap Box(MissedPatch(missed'[j])) = {}
      OBVIOUS
    <3>1. i \in 1 .. placed
      BY <1>1, <2>2
    <3>2. CASE j = k
      BY <1>3, <1>10, <2>3, <2>5, <3>1, <3>2
    <3>3. CASE j \in 1 .. placed
      BY <2>1, <2>3, <3>1, <3>3
    <3> QED
      BY <2>4, <3>2, <3>3
  <2>8. Layout(patches', Len(patches'), missed', k, canvas'.U, canvas'.row,
               canvas'.height)
    BY <1>0, <1>11, <2>1, <2>6, <2>7 DEF Layout
  <2>9. /\ \A i \in 1 .. Len(patches') : Occ(patches'[i]) \subseteq canvas'.occ
        /\ \A i \in 1 .. k : Occ(MissedPatch(missed'[i])) \subseteq canvas'.occ
    BY <1>0, <1>3, <1>11, <2>3, <2>4, <2>5
  <2>10. Lying' = Len(patches') /\ LyingMissed' = k
    BY <1>0, <2>2 DEF Lying, LyingMissed
  <2>11. k <= Len(missed') /\ Len(patches') <= Len(patches')
    BY <1>0, <1>1, <1>14, TypeFacts
  <2>12. canvas'.U > 0 /\ canvas'.width = canvas'.U /\ canvas'.row <= canvas'.height
    BY <1>3, <1>11, <1>12
  <2> QED
    BY <2>8, <2>9, <2>10, <2>11, <2>12 DEF LayInv
<1>16. MatchInv'
  BY <1>0, TypeFacts DEF MatchInv, Matched, MatchesValid, NoneBetter, Prev
<1>17. TypeInv'
  <2>1. opt' \in Options /\ frames' \in Seq(FrameSet)
          /\ Len(frames') <= PackFrames /\ phase' \in Phases
          /\ patches' \in Seq(PatchSet) /\ id' \in Nat
    BY <1>0, TypeFacts
  <2>2. placed' \in Nat /\ matched' \in Seq(DOMAIN patches')
    BY <1>0, <1>1, TypeFacts
  <2>3. IsRecord(canvas)' /\ InProgress'
    BY <1>0, <1>11, TypeFacts DEF IsRecord, InProgress
  <2> QED
    BY <1>13, <1>14, <2>1, <2>2, <2>3 DEF TypeInv, PackingTypeOK
<1>18. (FramesLayout /\ MatchingValid /\ NoBetterLeft)'
  BY <1>0, TypeFacts, FramesKept
<1> QED
  BY <1>15, <1>16, <1>17, <1>18 DEF PackInv

-----------------------------------------------------------------------------
(***************************************************************************)
(* The theorems.                                                           *)
(***************************************************************************)
LEMMA InitInv == PackInit => PackInv
<1> SUFFICES ASSUME PackInit
             PROVE  PackInv
  OBVIOUS
<1>1. TypeInv
  BY ConstantsType
     DEF PackInit, TypeInv, PackingTypeOK, InProgress, Phases, NoCanvas,
         CanvasType, IsRecord
<1>2. MatchInv /\ LayInv
  BY DEF PackInit, MatchInv, LayInv
<1>3. FramesLayout /\ MatchingValid /\ NoBetterLeft
  BY DEF PackInit, FramesLayout, MatchingValid, NoBetterLeft
<1> QED
  BY <1>1, <1>2, <1>3 DEF PackInv

LEMMA NextInv == PackInv /\ [PackNext]_packVars => PackInv'
<1> SUFFICES ASSUME PackInv, [PackNext]_packVars
             PROVE  PackInv'
  OBVIOUS
<1>1. CASE SegmentSome
  BY <1>1, SegmentKeeps DEF SegmentSome
<1>2. CASE MatchOne
  BY <1>2, MatchOneKeeps
<1>3. CASE Reorder
  BY <1>3, ReorderKeeps
<1>4. CASE Place
  BY <1>4, PlaceKeeps
<1>5. CASE Grow
  BY <1>5, DoubledKeeps DEF Grow
<1>6. CASE PlacedAll
  BY <1>6, PlacedAllKeeps
<1>7. CASE PlaceMissed
  BY <1>7, PlaceMissedKeeps
<1>8. CASE GrowMissed
  BY <1>8, DoubledKeeps DEF GrowMissed
<1>9. CASE PlacedMissed
  BY <1>9, PlacedMissedKeeps
<1>10. CASE UNCHANGED packVars
  <2>1. /\ opt' = opt /\ frames' = frames /\ phase' = phase
        /\ patches' = patches /\ matched' = matched /\ id' = id
        /\ placed' = placed /\ missed' = missed /\ canvas' = canvas
    BY <1>10 DEF packVars
  <2>2. TypeInv'
    <3>1. CanvasType' /\ IsRecord(canvas)'
      BY <2>1, TypeFacts, CanvasKept
    <3> QED
      BY <2>1, <3>1, TypeFacts DEF TypeInv, PackingTypeOK, InProgress
  <2>3. MatchInv'
    BY <2>1, TypeFacts
       DEF MatchInv, Matching, Matched, MatchesValid, NoneBetter, Prev
  <2>4. LayInv'
    BY <2>1, TypeFacts DEF LayInv, Lying, LyingMissed
  <2>5. (FramesLayout /\ MatchingValid /\ NoBetterLeft)'
    BY <2>1, TypeFacts, FramesKept
  <2> QED
    BY <2>2, <2>3, <2>4, <2>5 DEF PackInv
<1> QED
  BY <1>1, <1>2, <1>3, <1>4, <1>5, <1>6, <1>7, <1>8, <1>9, <1>10
     DEF PackNext, PackEnds

LEMMA PackInvAlways == PackSpec => []PackInv
BY InitInv, NextInv, PTL DEF PackSpec

\* Every variable keeps its type, and what is occupied lies on the canvas.
THEOREM PackingTypes == PackSpec => []PackingTypeOK
<1>1. PackInv => PackingTypeOK
  BY DEF PackInv, TypeInv
<1> QED
  BY <1>1, PackInvAlways, PTL

\* The matches of a frame are what the patch metadata coder relies on: the
\* matched patches first, with rising matches of the same view.
THEOREM MatchingIsValid == PackSpec => []MatchingValid
<1>1. PackInv => MatchingValid
  BY DEF PackInv
<1> QED
  BY <1>1, PackInvAlways, PTL

\* Matching is greedy, but it leaves no pair that overlaps more.
THEOREM MatchingIsBest == PackSpec => []NoBetterLeft
<1>1. PackInv => NoBetterLeft
  BY DEF PackInv
<1> QED
  BY <1>1, PackInvAlways, PTL

\* What a packed frame promises to everything that reads it.
LEMMA FramesRight ==
  ASSUME PackInv
  PROVE  Apart /\ InsideImage /\ OwnersRight
<1>1. \A k \in DOMAIN frames : frames[k] \in FrameSet /\ FrameLayout(frames[k])
  <2>1. frames \in Seq(FrameSet)
    BY TypeFacts
  <2>2. DOMAIN frames = 1 .. Len(frames)
          /\ \A k \in 1 .. Len(frames) : frames[k] \in FrameSet
    BY <2>1
  <2> QED
    BY <2>2, TypeFacts DEF FramesLayout
<1> QED
  BY <1>1, LayoutRight DEF Apart, InsideImage, OwnersRight

\* Nothing a frame holds shares an occupied block.
THEOREM PatchesApart == PackSpec => []Apart
<1>1. PackInv => Apart
  BY FramesRight
<1> QED
  BY <1>1, PackInvAlways, PTL

\* Whatever was placed lies on the image.
THEOREM PatchesInside == PackSpec => []InsideImage
<1>1. PackInv => InsideImage
  BY FramesRight
<1> QED
  BY <1>1, PackInvAlways, PTL

\* Encoder and decoder agree on the owner of every occupied block.
THEOREM OwnersAgree == PackSpec => []OwnersRight
<1>1. PackInv => OwnersRight
  BY FramesRight
<1> QED
  BY <1>1, PackInvAlways, PTL

-----------------------------------------------------------------------------
(***************************************************************************)
(* Laying patches on a canvas, whoever asks for it.                        *)
(***************************************************************************)
\* The patches above the last row, and all that is occupied, lie in the extent
\* of the canvas.
CanvasOK(c) ==
  /\ IsRecord(c) /\ c.U \in Nat \ {0} /\ c.V \in Nat
  /\ c.width \in Nat /\ c.U <= c.width
  /\ c.height \in Nat /\ c.row \in 0 .. c.height
  /\ c.occ \subseteq (0 .. c.width - 1) \X (0 .. c.row - 1)

\* All of the box of p lies above the last row, and what it occupies is marked.
OnCanvas(p, c) ==
  /\ Box(p) \subseteq (0 .. c.width - 1) \X (0 .. c.row - 1)
  /\ Occ(p) \subseteq c.occ

\* The first n patches of ps have been laid on c, on which B lay before.
LiesOn(ps, n, B, c) ==
  /\ \A i \in 1 .. n : OnCanvas(ps[i], c)
  /\ \A i, j \in 1 .. n : i < j => Occ(ps[i]) \cap Box(ps[j]) = {}
  /\ \A p \in B : OnCanvas(p, c)
  /\ \A p \in B, j \in 1 .. n : Occ(p) \cap Box(ps[j]) = {}

\* p and q have a box of one size at one place.
SamePlace(p, q) ==
  /\ p.u0 = q.u0 /\ p.v0 = q.v0 /\ p.turn = q.turn
  /\ p.shape.w = q.shape.w /\ p.shape.h = q.shape.h

\* A patch at the place of another one has the same box, and what is occupied
\* in it alone decides what it occupies.
LEMMA SameBox ==
  ASSUME NEW p, NEW q, SamePlace(p, q)
  PROVE  /\ Box(p) = Box(q) /\ BoxW(p) = BoxW(q) /\ BoxH(p) = BoxH(q)
         /\ p.shape.occ \subseteq q.shape.occ => Occ(p) \subseteq Occ(q)
<1>1. BoxW(p) = BoxW(q) /\ BoxH(p) = BoxH(q)
  BY DEF SamePlace, BoxW, BoxH
<1>2. \A u, v : CanvasBlock(p, u, v) = CanvasBlock(q, u, v)
  BY <1>1 DEF SamePlace, CanvasBlock
<1>3. Box(p) = Box(q)
  BY <1>2 DEF Box, SamePlace
<1>4. p.shape.occ \subseteq q.shape.occ => Occ(p) \subseteq Occ(q)
  BY <1>2 DEF Occ
<1> QED
  BY <1>1, <1>3, <1>4

\* The members of a pair.
LEMMA InProduct ==
  ASSUME NEW X, NEW Y, NEW b \in X \X Y
  PROVE  b[1] \in X /\ b[2] \in Y /\ b = <<b[1], b[2]>>
OBVIOUS

\* An empty canvas.
LEMMA CanvasEmpty ==
  ASSUME NEW U \in Nat \ {0}, NEW V \in Nat
  PROVE  CanvasOK(Canvas(U, V)) /\ Canvas(U, V).U = U /\ Canvas(U, V).occ = {}
         /\ Canvas(U, V).width = U /\ Canvas(U, V).height = V /\ Canvas(U, V).row = 0
BY DEF CanvasOK, Canvas, IsRecord

\* Nothing of a list has been laid.
LEMMA LiesNone ==
  ASSUME NEW ps, NEW c
  PROVE  LiesOn(ps, 0, {}, c)
BY DEF LiesOn

\* One patch more is laid where it fits: all of its box is free of what lies
\* there already.
LEMMA LayOne ==
  ASSUME NEW ps, NEW n \in Nat, NEW B, NEW c, CanvasOK(c), LiesOn(ps, n, B, c),
         NEW q, Solid(q), NEW guard \in Nat, Fits(q, c, guard),
         NEW qs, qs[n + 1] = q, \A i \in 1 .. n : qs[i] = ps[i]
  PROVE  /\ CanvasOK(Extended(c, q)) /\ LiesOn(qs, n + 1, B, Extended(c, q))
         /\ Extended(c, q).U = c.U
<1>1. /\ IsRecord(c) /\ c.U \in Nat \ {0} /\ c.V \in Nat
      /\ c.width \in Nat /\ c.U <= c.width
      /\ c.height \in Nat /\ c.row \in 0 .. c.height
      /\ c.occ \subseteq (0 .. c.width - 1) \X (0 .. c.row - 1)
  BY DEF CanvasOK
<1>2. PICK d : d = Extended(c, q)
  OBVIOUS
<1>3. /\ IsRecord(d) /\ d.U = c.U /\ d.V = c.V /\ d.occ = c.occ \cup Occ(q)
      /\ d.width = MaxOf(c.width, q.u0 + BoxW(q))
      /\ d.height = MaxOf(c.height, q.v0 + BoxH(q))
      /\ d.row = MaxOf(c.row, q.v0 + BoxH(q))
  BY <1>1, <1>2, ExtendedFields
<1>4. /\ q.u0 + BoxW(q) \in 1 .. c.U /\ q.v0 + BoxH(q) \in 1 .. c.V
      /\ Box(q) \subseteq (0 .. c.U - 1) \X (0 .. c.V - 1)
      /\ Box(q) \cap c.occ = {} /\ Occ(q) \subseteq Box(q)
      /\ Box(q) \subseteq (q.u0 .. q.u0 + BoxW(q) - 1) \X (q.v0 .. q.v0 + BoxH(q) - 1)
  BY <1>1, FitsExtent, FitsOnFree, OccInBox, BoxBounds
<1>5. /\ d.width \in Nat /\ c.width <= d.width /\ d.height \in Nat
      /\ d.row \in 0 .. d.height /\ c.row <= d.row /\ q.v0 + BoxH(q) <= d.row
  BY <1>1, <1>3, <1>4 DEF MaxOf
<1>6. Box(q) \subseteq (0 .. d.width - 1) \X (0 .. d.row - 1)
  <2> SUFFICES ASSUME NEW b \in Box(q)
               PROVE  b \in (0 .. d.width - 1) \X (0 .. d.row - 1)
    OBVIOUS
  <2>1. /\ b \in (0 .. c.U - 1) \X (0 .. c.V - 1)
        /\ b \in (q.u0 .. q.u0 + BoxW(q) - 1) \X (q.v0 .. q.v0 + BoxH(q) - 1)
    BY <1>4
  <2>2. b[1] \in 0 .. c.U - 1 /\ b[2] \in 0 .. c.V - 1 /\ b = <<b[1], b[2]>>
        /\ b[2] \in q.v0 .. q.v0 + BoxH(q) - 1
    <3>1. PICK X, Y, Z, W : /\ X = 0 .. c.U - 1 /\ Y = 0 .. c.V - 1
                            /\ Z = q.u0 .. q.u0 + BoxW(q) - 1 /\ W = q.v0 .. q.v0 + BoxH(q) - 1
      OBVIOUS
    <3>2. b \in X \X Y /\ b \in Z \X W
      BY <2>1, <3>1
    <3>3. b[1] \in X /\ b[2] \in Y /\ b = <<b[1], b[2]>>
      BY <3>2
    <3>4. b[2] \in W
      BY <3>2
    <3> QED
      BY <3>1, <3>3, <3>4, Zenon
  <2>3. b[1] \in 0 .. d.width - 1
    <3>1. \A x \in 0 .. c.U - 1 : x \in 0 .. d.width - 1
      BY <1>1, <1>5
    <3> QED
      BY <2>2, <3>1, Zenon
  <2>4. b[2] \in 0 .. d.row - 1
    <3>1. q.v0 \in Int /\ BoxH(q) \in Nat
      BY BoxBounds DEF Solid
    <3> QED
      BY <1>5, <2>2, <3>1
  <2> QED
    BY <2>2, <2>3, <2>4
<1>7. (0 .. c.width - 1) \X (0 .. c.row - 1) \subseteq (0 .. d.width - 1) \X (0 .. d.row - 1)
  <2>1. 0 .. c.width - 1 \subseteq 0 .. d.width - 1
    BY <1>1, <1>5
  <2>2. 0 .. c.row - 1 \subseteq 0 .. d.row - 1
    BY <1>1, <1>5
  <2> QED
    BY <2>1, <2>2
<1>8. CanvasOK(d)
  <2>1. d.occ \subseteq (0 .. d.width - 1) \X (0 .. d.row - 1)
    BY <1>1, <1>3, <1>4, <1>6, <1>7
  <2> QED
    BY <1>1, <1>3, <1>5, <2>1 DEF CanvasOK
<1>9. OnCanvas(q, d) /\ \A p : OnCanvas(p, c) => OnCanvas(p, d) /\ Occ(p) \cap Box(q) = {}
  BY <1>3, <1>4, <1>6, <1>7 DEF OnCanvas
<1>10. qs[n + 1] = q /\ \A i \in 1 .. n : qs[i] = ps[i]
  OBVIOUS
<1>11. \A i \in 1 .. n + 1 : i = n + 1 \/ i \in 1 .. n
  OBVIOUS
<1>12. \A i, j \in 1 .. n + 1 : i < j => i \in 1 .. n
  OBVIOUS
<1>13. LiesOn(qs, n + 1, B, d)
  <2>1. \A i \in 1 .. n + 1 : OnCanvas(qs[i], d)
    BY <1>9, <1>10, <1>11 DEF LiesOn
  <2>2. ASSUME NEW i \in 1 .. n + 1, NEW j \in 1 .. n + 1, i < j
        PROVE  Occ(qs[i]) \cap Box(qs[j]) = {}
    <3>1. i \in 1 .. n /\ qs[i] = ps[i] /\ OnCanvas(ps[i], c)
      BY <1>10, <1>12, <2>2 DEF LiesOn
    <3>2. CASE j = n + 1
      BY <1>9, <1>10, <3>1, <3>2
    <3>3. CASE j \in 1 .. n
      BY <1>10, <2>2, <3>1, <3>3 DEF LiesOn
    <3> QED
      BY <1>11, <3>2, <3>3
  <2>3. \A p \in B : OnCanvas(p, d)
    BY <1>9 DEF LiesOn
  <2>4. ASSUME NEW p \in B, NEW j \in 1 .. n + 1
        PROVE  Occ(p) \cap Box(qs[j]) = {}
    <3>1. CASE j = n + 1
      BY <1>9, <1>10, <3>1 DEF LiesOn
    <3>2. CASE j \in 1 .. n
      BY <1>10, <3>2 DEF LiesOn
    <3> QED
      BY <1>11, <3>1, <3>2
  <2> QED
    BY <2>1, <2>2, <2>3, <2>4 DEF LiesOn
<1> QED
  BY <1>2, <1>3, <1>8, <1>13

-----------------------------------------------------------------------------
(***************************************************************************)
(* Division that rounds up.                                                *)
(***************************************************************************)
\* The quotient rounded up is the least number of parts that hold everything.
LEMMA CeilDivIs ==
  ASSUME NEW a \in Nat \ {0}, NEW b \in Nat \ {0}
  PROVE  \A q \in Nat : q = CeilDiv(a, b) <=> q * b < a + b /\ a <= q * b
<1> DEFINE d == (a + b - 1) \div b
           r == (a + b - 1) - b * d
<1>1. d \in Nat /\ r \in 0 .. b - 1 /\ a + b - 1 = b * d + r
  OBVIOUS
<1>2. CeilDiv(a, b) = d
  BY DEF CeilDiv
<1> HIDE DEF d, r
<1>3. d * b < a + b /\ a <= d * b
  <2>1. b * d = d * b /\ d * b \in Nat
    BY <1>1
  <2> QED
    BY <1>1, <2>1
<1>4. ASSUME NEW q \in Nat, q * b < a + b, a <= q * b
      PROVE  q = d
  <2>1. CASE q < d
    <3>1. q * b + b <= d * b
      <4>1. (q + 1) * b = q * b + b /\ (d - (q + 1)) * b >= 0 /\ (d - (q + 1)) * b = d * b - (q + 1) * b
        BY <1>1, <2>1
      <4> QED
        BY <1>1, <4>1
    <3> QED
      BY <1>1, <1>3, <1>4, <3>1
  <2>2. CASE d < q
    <3>1. d * b + b <= q * b
      <4>1. (d + 1) * b = d * b + b /\ (q - (d + 1)) * b >= 0 /\ (q - (d + 1)) * b = q * b - (d + 1) * b
        BY <1>1, <2>2
      <4> QED
        BY <1>1, <4>1
    <3> QED
      BY <1>1, <1>3, <1>4, <3>1
  <2> QED
    BY <1>1, <2>1, <2>2
<1> QED
  BY <1>1, <1>2, <1>3, <1>4

\* A box as wide as the canvas allows, then as narrow as its height allows,
\* comes out the same when it is sized again.
LEMMA SizedOnce ==
  ASSUME NEW n \in Nat \ {0}, NEW U \in Nat \ {0}, NEW h, h = CeilDiv(n, U),
         NEW w, w = CeilDiv(n, h)
  PROVE  /\ w \in 1 .. U /\ h \in Nat \ {0}
         /\ h = CeilDiv(w * h, U) /\ w = CeilDiv(w * h, h)
<1>1. h \in Nat \ {0}
  BY CeilDivType, Zenon
<1>2. w \in Nat \ {0}
  BY <1>1, CeilDivType, Zenon
<1>3. h * U < n + U /\ n <= h * U
  BY <1>1, CeilDivIs
<1>4. w * h < n + h /\ n <= w * h
  BY <1>1, <1>2, CeilDivIs
<1>5. w <= U
  <2> SUFFICES ASSUME U < w PROVE FALSE
    BY <1>2
  <2>1. (U + 1) * h = U * h + h /\ (w - (U + 1)) * h >= 0 /\ (w - (U + 1)) * h = w * h - (U + 1) * h
    BY <1>1, <1>2
  <2>2. U * h = h * U /\ w * h \in Nat /\ U * h \in Nat
    BY <1>1, <1>2
  <2> QED
    BY <1>1, <1>2, <1>3, <1>4, <2>1, <2>2
<1>6. PICK m : m = w * h
  OBVIOUS
<1>7. m \in Nat \ {0}
  BY <1>1, <1>2, <1>6
<1>8. m <= h * U /\ h * U \in Nat
  <2>1. (U - w) * h >= 0 /\ (U - w) * h = U * h - w * h /\ U * h = h * U
    BY <1>1, <1>2, <1>5
  <2> QED
    BY <1>1, <1>2, <1>6, <2>1
<1>9. h * U < m + U
  BY <1>1, <1>3, <1>4, <1>6, <1>7, <1>8
<1>10. h = CeilDiv(m, U)
  BY <1>1, <1>7, <1>8, <1>9, CeilDivIs
<1>11. w * h < m + h /\ m <= w * h
  BY <1>1, <1>6, <1>7
<1>12. w = CeilDiv(m, h)
  BY <1>1, <1>2, <1>7, <1>11, CeilDivIs
<1> QED
  BY <1>1, <1>2, <1>5, <1>6, <1>10, <1>12

-----------------------------------------------------------------------------
\* The largest of a number and of what a function gives for a finite set.
LEMMA LargestImage ==
  ASSUME NEW a \in Nat, NEW G, IsFiniteSet(G), NEW T, NEW f \in Surjection(G, T),
         \A y \in T : y \in Nat, NEW S, S = {a} \cup T
  PROVE  LargestOf(S) \in S /\ \A n \in S : n <= LargestOf(S)
<1>1. IsFiniteSet(T)
  BY FS_Surjection
<1>2. IsFiniteSet(S)
  BY <1>1, FS_Singleton, FS_Union
<1> QED
  BY <1>2, FiniteHasLargest

-----------------------------------------------------------------------------
(***************************************************************************)
(* Frames and tries, whatever the patches are made of.                     *)
(***************************************************************************)
\* A patch that is moved stays solid.
LEMMA LocatedSolid ==
  ASSUME NEW p, Solid(p), NEW x, NEW a, NEW b, NEW d,
         p = [shape |-> p.shape, match |-> x, u0 |-> a, v0 |-> b, turn |-> d],
         NEW t, IsTry(t), NEW r, r = Located(p, t)
  PROVE  /\ Solid(r) /\ r.shape = p.shape /\ r.match = p.match
         /\ r = [shape |-> r.shape, match |-> r.match, u0 |-> r.u0, v0 |-> r.v0, turn |-> r.turn]
         /\ r.u0 = t.u /\ r.v0 = t.v /\ r.turn = t.turn
<1>1. r = [[shape |-> p.shape, match |-> x, u0 |-> a, v0 |-> b, turn |-> d]
             EXCEPT !.u0 = t.u, !.v0 = t.v, !.turn = t.turn]
  BY Zenon DEF Located
<1>2. r = [shape |-> p.shape, match |-> x, u0 |-> t.u, v0 |-> t.v, turn |-> t.turn]
  BY <1>1, RecordTurned
<1>3. p.match = x
  <2>1. \A s : [shape |-> s, match |-> x, u0 |-> a, v0 |-> b, turn |-> d].match = x
    OBVIOUS
  <2> QED
    BY <2>1, Zenon
<1>4. r.shape = p.shape /\ r.match = x /\ r.u0 = t.u /\ r.v0 = t.v /\ r.turn = t.turn
  BY <1>2
<1> QED
  BY <1>2, <1>3, <1>4 DEF Solid, IsTry

\* The canvas for a list of patches is wider than each, and no wider than it
\* has to be.
LEMMA StartUIs ==
  ASSUME NEW ps, NEW n \in Nat, DOMAIN ps = 1 .. n,
         \A i \in 1 .. n : ps[i].shape.w \in Nat \ {0}
  PROVE  /\ StartU(ps) \in Nat \ {0}
         /\ (\A i \in 1 .. n : ps[i].shape.w < MinU) => StartU(ps) = MinU
<1> DEFINE f == [i \in 1 .. n |-> ps[i].shape.w + 1]
           T == {ps[i].shape.w + 1 : i \in DOMAIN ps}
           S == {MinU} \cup T
<1>1. f \in Surjection(1 .. n, T) /\ (\A y \in T : y \in Nat)
        /\ \A y \in T : \E i \in 1 .. n : y = ps[i].shape.w + 1
  BY DEF Surjection
<1>2. StartU(ps) = LargestOf(S)
  BY DEF StartU
<1>3. IsFiniteSet(1 .. n)
  BY FS_Interval
<1>4. MinU \in Nat \ {0}
  BY ConstantsType
<1> HIDE DEF f, T
<1>5. LargestOf(S) \in S /\ LargestOf(S) \in Nat /\ MinU <= LargestOf(S)
  <2>1. PICK G, R : G = 1 .. n /\ R = S
    OBVIOUS
  <2>2. IsFiniteSet(G) /\ f \in Surjection(G, T)
    BY <1>1, <1>3, <2>1
  <2>3. LargestOf(R) \in R /\ \A m \in R : m <= LargestOf(R)
    BY <1>1, <1>4, <2>1, <2>2, LargestImage
  <2> QED
    BY <1>1, <1>4, <2>1, <2>3
<1>6. ASSUME \A i \in 1 .. n : ps[i].shape.w < MinU
      PROVE  LargestOf(S) = MinU
  <2>1. \A x \in S : x <= MinU
    BY <1>1, <1>4, <1>6 DEF T
  <2> HIDE DEF S
  <2> QED
    BY <1>4, <1>5, <2>1
<1> HIDE DEF S
<1> QED
  BY <1>2, <1>4, <1>5, <1>6
=============================================================================
