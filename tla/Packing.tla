------------------------------- MODULE Packing -------------------------------
(***************************************************************************)
(* Packing of a group of frames: the patches of a frame are sorted,        *)
(* matched to the patches of the frame before, put in order and placed one *)
(* by one on a canvas of blocks, whose height is doubled until each fits.  *)
(* Encoder and decoder then derive from the placed patches which patch     *)
(* owns a block.  The unit of all sizes is a block of occupancyResolution  *)
(* pixels.                                                                 *)
(***************************************************************************)
EXTENDS Integers, Sequences

CONSTANTS
  Shapes,       \* the patches segmentation may produce
  IOU,          \* [at, at -> Nat]: overlap of two patches on their plane
  Threshold,    \* thresholdIOU
  MissedSizes,  \* sequences of sizes of missed points patches, in pixels
  Options,      \* the options packing reads
  MinU, MinV,   \* minimumImageWidth_, minimumImageHeight_
  Resolution,   \* occupancyResolution_
  PackFrames,   \* frames of the group
  MaxInFrame,   \* bound on the patches of a frame
  MaxV          \* bound on the height of the canvas

Invalid == -1

(***************************************************************************)
(* Orientations.  swap exchanges the axes; flipX and flipY mirror the      *)
(* result.  MROT270 equals SWAP and is never tried.                        *)
(***************************************************************************)
Turn(swap, flipX, flipY) == [swap |-> swap, flipX |-> flipX, flipY |-> flipY]
DEFAULT == Turn(FALSE, FALSE, FALSE)
SWAP == Turn(TRUE, FALSE, FALSE)
ROT90 == Turn(TRUE, TRUE, FALSE)
ROT180 == Turn(FALSE, TRUE, TRUE)
ROT270 == Turn(TRUE, FALSE, TRUE)
MIRROR == Turn(FALSE, TRUE, FALSE)
MROT90 == Turn(TRUE, TRUE, TRUE)
MROT180 == Turn(FALSE, FALSE, TRUE)
Turns == [swap : BOOLEAN, flipX : BOOLEAN, flipY : BOOLEAN]

OrientationVertical ==
  <<DEFAULT, SWAP, ROT180, MIRROR, MROT180, ROT270, MROT90, ROT90>>
OrientationHorizontal ==
  <<SWAP, DEFAULT, ROT270, MROT90, ROT90, ROT180, MIRROR, MROT180>>

ASSUME PackingAssumption ==
  /\ Shapes \subseteq [w : Nat \ {0}, h : Nat \ {0}, occ : SUBSET (Nat \X Nat),
                       view : Nat, at : Nat]
  /\ \A s \in Shapes : s.occ \subseteq (0 .. s.w - 1) \X (0 .. s.h - 1)
  /\ Threshold \in Nat
  /\ {MinU, MinV, Resolution, PackFrames, MaxV} \subseteq Nat \ {0}
  /\ MaxInFrame \in Nat
  /\ \A s, t \in Shapes : IOU[s.at, t.at] \in Nat
  /\ MissedSizes \subseteq Seq(Nat \ {0})
  /\ Options \subseteq [strategy : 0 .. 2, constrained : BOOLEAN,
                        eight : BOOLEAN, separate : BOOLEAN, guard : Nat]

VARIABLES
  opt,      \* the options
  frames,   \* the frames packed
  phase,    \* where the packing of the next frame is
  patches,  \* its patches
  matched,  \* indices of the matched ones, in the order of the frame before
  id,       \* patches of the frame before that have been matched
  placed,   \* patches on the canvas
  missed,   \* its missed points patches
  canvas    \* width, height, occupied blocks, horizon and extent

packVars ==
  <<opt, frames, phase, patches, matched, id, placed, missed, canvas>>

Phases == {"segment", "match", "place", "missed"}
NoCanvas == [U |-> 0, V |-> 0, occ |-> {}, horizon |-> <<>>,
             width |-> 0, height |-> 0, row |-> 0]

PackInit ==
  /\ opt \in Options
  /\ frames = <<>> /\ phase = "segment"
  /\ patches = <<>> /\ matched = <<>> /\ id = 0 /\ placed = 0
  /\ missed = <<>> /\ canvas = NoCanvas

-----------------------------------------------------------------------------
(***************************************************************************)
(* A patch on the canvas.                                                  *)
(***************************************************************************)
MaxOf(a, b) == IF a >= b THEN a ELSE b
CeilDiv(a, b) == (a + b - 1) \div b

\* Dimensions are switched by an orientation that exchanges the axes.
BoxW(p) == IF p.turn.swap THEN p.shape.h ELSE p.shape.w
BoxH(p) == IF p.turn.swap THEN p.shape.w ELSE p.shape.h

CanvasBlock(p, u, v) ==
  LET a == IF p.turn.swap THEN v ELSE u
      b == IF p.turn.swap THEN u ELSE v
  IN  <<p.u0 + (IF p.turn.flipX THEN BoxW(p) - 1 - a ELSE a),
        p.v0 + (IF p.turn.flipY THEN BoxH(p) - 1 - b ELSE b)>>

Box(p) ==
  {CanvasBlock(p, u, v) : u \in 0 .. p.shape.w - 1, v \in 0 .. p.shape.h - 1}
Occ(p) == {CanvasBlock(p, b[1], b[2]) : b \in p.shape.occ}

\* A mistake: only the occupied blocks of a patch have to be free.
FitsOccupied(p, c, guard) ==
  /\ \A u \in -guard .. p.shape.w - 1 + guard,
        v \in -guard .. p.shape.h - 1 + guard :
       CanvasBlock(p, u, v) \in (0 .. c.U - 1) \X (0 .. c.V - 1)
  /\ Occ(p) \cap c.occ = {}

\* checkFitPatchCanvas: the whole box, and the safeguard around it, lies on
\* the canvas and is free.
Fits(p, c, guard) ==
  \A u \in -guard .. p.shape.w - 1 + guard,
     v \in -guard .. p.shape.h - 1 + guard :
    /\ CanvasBlock(p, u, v) \in (0 .. c.U - 1) \X (0 .. c.V - 1)
    /\ CanvasBlock(p, u, v) \notin c.occ

(***************************************************************************)
(* The horizon of the tetris strategy: per column, the last row in use.    *)
(* A column of a patch without an occupied block counts from its far end.  *)
(***************************************************************************)
Columns(p) == p.u0 .. p.u0 + BoxW(p) - 1
RowsOf(p, x) == {b[2] : b \in {c \in Occ(p) : c[1] = x}}
Lowest(p, x) ==
  IF RowsOf(p, x) = {} THEN p.v0 + BoxH(p) - 1
  ELSE CHOOSE y \in RowsOf(p, x) : \A z \in RowsOf(p, x) : y <= z
Highest(p, x) ==
  IF RowsOf(p, x) = {} THEN p.v0
  ELSE CHOOSE y \in RowsOf(p, x) : \A z \in RowsOf(p, x) : y >= z

AboveHorizon(p, horizon) == \A x \in Columns(p) : Lowest(p, x) >= horizon[x]
RaisedHorizon(p, horizon) ==
  [x \in DOMAIN horizon |-> IF x \in Columns(p)
                            THEN MaxOf(horizon[x], Highest(p, x))
                            ELSE horizon[x]]

-----------------------------------------------------------------------------
(***************************************************************************)
(* Segmentation and sorting.  Ties are decided by the index, and the order *)
(* of segmentation is arbitrary: any sequence without an inversion of      *)
(* sizes is the sorted form of some input.  The anchor compares pixels,    *)
(* height first: that decides the order of different heights in blocks,    *)
(* and leaves that of equal ones open.                                     *)
(***************************************************************************)
SizeKey(s) == IF s.w > s.h THEN <<s.w, s.h>> ELSE <<s.h, s.w>>
Before(s, t) ==
  IF opt.strategy = 0 THEN s.h > t.h
  ELSE LET k == SizeKey(s)
           l == SizeKey(t)
       IN  k[1] > l[1] \/ (k[1] = l[1] /\ k[2] > l[2])

FreshPatch(s) ==
  [shape |-> s, match |-> Invalid, u0 |-> 0, v0 |-> 0, turn |-> DEFAULT]

StartV(sorted) ==
  LET s == sorted[1].shape
  IN  IF opt.strategy = 0 THEN MaxOf(MinV, s.h) ELSE MaxOf(s.w, s.h)

LargestOf(S) == CHOOSE n \in S : \A m \in S : n >= m

Canvas(U, V) ==
  [U |-> U, V |-> V, occ |-> {}, horizon |-> [x \in 0 .. U - 1 |-> 0],
   width |-> U, height |-> V, row |-> 0]

\* The canvas is wider than the widest patch.
StartU(all) == LargestOf({MinU} \cup {all[i].shape.w + 1 : i \in DOMAIN all})
StartCanvas(all) == Canvas(StartU(all), StartV(all))

\* The first frame, and every frame of a group that is not packed
\* consistently, is packed without a look at the frame before.
Alone == frames = <<>> \/ ~opt.constrained

Segment(shapes, sizes) ==
  /\ phase = "segment"
  /\ Len(frames) < PackFrames
  /\ \A i, j \in DOMAIN shapes : i < j => ~Before(shapes[j], shapes[i])
  /\ patches' = [i \in DOMAIN shapes |-> FreshPatch(shapes[i])]
  /\ missed' = [i \in DOMAIN sizes |->
                  [size |-> sizes[i], w |-> 0, h |-> 0, u0 |-> 0, v0 |-> 0]]
  /\ IF shapes = <<>>
     THEN /\ frames' = Append(frames, [patches |-> <<>>, matches |-> 0,
                                       missed |-> missed', laid |-> 0,
                                       width |-> 0, height |-> 0])
          /\ UNCHANGED <<phase, canvas>>
     ELSE /\ phase' = IF Alone THEN "place" ELSE "match"
          /\ canvas' = IF Alone THEN StartCanvas(patches')
                       ELSE [NoCanvas EXCEPT !.U = MinU,
                                             !.V = StartV(patches')]
          /\ UNCHANGED frames
  /\ matched' = <<>> /\ id' = 0 /\ placed' = 0
  /\ UNCHANGED opt

-----------------------------------------------------------------------------
(***************************************************************************)
(* Matching: each patch of the frame before takes, of the patches of its   *)
(* view that are still free, the first with the largest overlap.           *)
(***************************************************************************)
Prev == frames[Len(frames)].patches

Overlap(q, p) == IOU[q.shape.at, p.shape.at]

Candidates(q) ==
  {i \in DOMAIN patches : /\ patches[i].shape.view = q.shape.view
                          /\ patches[i].match = Invalid}

\* A mistake: the last candidate above the threshold is taken.
IsBestLast(q, i) ==
  /\ i \in Candidates(q)
  /\ Overlap(q, patches[i]) > Threshold
  /\ \A j \in Candidates(q) : Overlap(q, patches[j]) > Threshold => j <= i

IsBest(q, i) ==
  /\ i \in Candidates(q)
  /\ Overlap(q, patches[i]) > Threshold
  /\ \A j \in Candidates(q) :
       \/ Overlap(q, patches[j]) < Overlap(q, patches[i])
       \/ Overlap(q, patches[j]) = Overlap(q, patches[i]) /\ i <= j

MatchOne ==
  /\ phase = "match"
  /\ id < Len(Prev)
  /\ LET q == Prev[id + 1]
     IN  \/ \E i \in DOMAIN patches :
              /\ IsBest(q, i)
              /\ patches' = [patches EXCEPT ![i].match = id]
              /\ matched' = Append(matched, i)
         \/ /\ \A i \in Candidates(q) : Overlap(q, patches[i]) <= Threshold
            /\ UNCHANGED <<patches, matched>>
  /\ id' = id + 1
  /\ UNCHANGED <<opt, frames, phase, placed, missed, canvas>>

\* A mistake: the matched patches stay where sorting put them.
IsNewOrderSorted(order) ==
  /\ {order[i] : i \in DOMAIN order} = DOMAIN patches
  /\ \A i, j \in DOMAIN order : i < j => order[i] < order[j]

\* The matched patches as they were matched, then the others as they were.
IsNewOrder(order) ==
  /\ {order[i] : i \in DOMAIN order} = DOMAIN patches
  /\ \A i \in DOMAIN matched : order[i] = matched[i]
  /\ \A i, j \in DOMAIN order :
       i < j /\ i > Len(matched) => order[i] < order[j]

Reorder ==
  /\ phase = "match"
  /\ id = Len(Prev)
  /\ \E order \in [DOMAIN patches -> DOMAIN patches] :
       /\ IsNewOrder(order)
       /\ patches' = [i \in DOMAIN patches |-> patches[order[i]]]
  /\ canvas' = [StartCanvas(patches') EXCEPT !.V = canvas.V,
                                             !.height = canvas.V]
  /\ phase' = "place"
  /\ UNCHANGED <<opt, frames, matched, id, placed, missed>>

-----------------------------------------------------------------------------
(***************************************************************************)
(* The locations tried for a patch.  Of those that fit, one of least rank  *)
(* is taken.                                                               *)
(***************************************************************************)
Try(u, v, turn, guard, rank) ==
  [u |-> u, v |-> v, turn |-> turn, guard |-> guard, rank |-> rank]

\* Row by row, and at each place one orientation after the other.
RowByRow(turns, lastU, lastV) ==
  {Try(u, v, turns[k], opt.guard, (v * (lastU + 1) + u) * Len(turns) + k) :
     u \in 0 .. lastU, v \in 0 .. lastV, k \in DOMAIN turns}

TurnCount == IF opt.eight THEN 8 ELSE 2
FlexibleTurns(p) ==
  SubSeq(IF p.shape.w > p.shape.h THEN OrientationHorizontal
         ELSE OrientationVertical, 1, TurnCount)

AnchorTries(c) == RowByRow(<<DEFAULT>>, c.U, c.V)

FlexibleFreeTries(p, c) == RowByRow(FlexibleTurns(p), c.U - 1, c.V - 1)

\* First the place of another patch, then row by row, always in its
\* orientation.
Follow(q, guard, c) ==
  {Try(q.u0, q.v0, q.turn, guard, -1)} \cup RowByRow(<<q.turn>>, c.U, c.V)

\* The place of the patch it is matched to needs no safeguard.
FlexibleMatchedTries(p, c) == Follow(Prev[p.match + 1], 0, c)

AbsOf(x) == IF x >= 0 THEN x ELSE -x

\* The step at which a spiral around <<0, 0>>, which turns to the right and
\* goes down first, reaches <<x, y>>: ring after ring, side after side.
SpiralStep(x, y) ==
  LET n == MaxOf(AbsOf(x), AbsOf(y))
      start == (2 * n - 1) * (2 * n - 1)
  IN  CASE n = 0                     -> 0
        [] n > 0 /\ x = n /\ y < n   -> start + n - 1 - y
        [] n > 0 /\ x < n /\ y = -n  -> start + 3 * n - 1 - x
        [] x = -n /\ y > -n /\ n > 0 -> start + 5 * n - 1 + y
        [] OTHER                     -> start + 7 * n - 1 + x

\* A spiral around the place of the patch it is matched to.
TetrisMatchedTries(p, c) ==
  LET q == Prev[p.match + 1]
      side == MaxOf(c.U, c.V)
      step(u, v) == SpiralStep(u - q.u0, v - q.v0)
  IN  {Try(b[1], b[2], q.turn, opt.guard, step(b[1], b[2])) :
         b \in {b \in (0 .. c.U - 1) \X (0 .. c.V - 1) :
                  step(b[1], b[2]) < 4 * side * side}}

\* Any place above the horizon: the space a place wastes, by which the code
\* chooses among them, is left open.
TetrisFreeTries(c) ==
  {Try(u, v, OrientationVertical[k], opt.guard, 0) :
     u \in 0 .. c.U - 1, v \in 0 .. c.V - 1, k \in 1 .. TurnCount}

Located(p, t) == [p EXCEPT !.u0 = t.u, !.v0 = t.v, !.turn = t.turn]

Tries(p, c) ==
  CASE opt.strategy = 0 -> AnchorTries(c)
    [] opt.strategy = 1 /\ p.match = Invalid -> FlexibleFreeTries(p, c)
    [] opt.strategy = 1 /\ p.match # Invalid -> FlexibleMatchedTries(p, c)
    [] opt.strategy = 2 /\ p.match = Invalid -> TetrisFreeTries(c)
    [] opt.strategy = 2 /\ p.match # Invalid -> TetrisMatchedTries(p, c)

Fitting(p, c) ==
  {t \in Tries(p, c) :
     /\ Fits(Located(p, t), c, t.guard)
     /\ opt.strategy = 2 /\ p.match = Invalid =>
          AboveHorizon(Located(p, t), c.horizon)}

\* A mistake: the extent of a turned patch is that of the patch before.
ExtendedUnturned(c, p) ==
  [c EXCEPT !.occ = @ \cup Occ(p),
            !.horizon = RaisedHorizon(p, @),
            !.width = MaxOf(@, p.u0 + p.shape.w),
            !.height = MaxOf(@, p.v0 + p.shape.h),
            !.row = MaxOf(@, p.v0 + p.shape.h)]

\* A mistake: the blocks of a turned patch are marked as if it were not.
ExtendedMarkedUnturned(c, p) ==
  [c EXCEPT !.occ = @ \cup {<<p.u0 + b[1], p.v0 + b[2]>> : b \in p.shape.occ},
            !.horizon = RaisedHorizon(p, @),
            !.width = MaxOf(@, p.u0 + BoxW(p)),
            !.height = MaxOf(@, p.v0 + BoxH(p)),
            !.row = MaxOf(@, p.v0 + BoxH(p))]

\* The occupied blocks are marked, not the whole box.
Extended(c, p) ==
  [c EXCEPT !.occ = @ \cup Occ(p),
            !.horizon = RaisedHorizon(p, @),
            !.width = MaxOf(@, p.u0 + BoxW(p)),
            !.height = MaxOf(@, p.v0 + BoxH(p)),
            !.row = MaxOf(@, p.v0 + BoxH(p))]

Place ==
  /\ phase = "place"
  /\ placed < Len(patches)
  /\ LET p == patches[placed + 1]
         fitting == Fitting(p, canvas)
     IN  \E t \in fitting :
           /\ \A s \in fitting : t.rank <= s.rank
           /\ patches' = [patches EXCEPT ![placed + 1] = Located(p, t)]
           /\ canvas' = Extended(canvas, Located(p, t))
  /\ placed' = placed + 1
  /\ UNCHANGED <<opt, frames, phase, matched, id, missed>>

\* A mistake: the map is enlarged, the height searched is not.
DoubledNot(c) == c

Doubled(c) == [c EXCEPT !.V = 2 * @]

Grow ==
  /\ phase = "place"
  /\ placed < Len(patches)
  /\ Fitting(patches[placed + 1], canvas) = {}
  /\ 2 * canvas.V <= MaxV
  /\ canvas' = Doubled(canvas)
  /\ UNCHANGED <<opt, frames, phase, patches, matched, id, placed, missed>>

-----------------------------------------------------------------------------
(***************************************************************************)
(* Missed points patches go below all patches; a group with a separate     *)
(* video for them leaves them out, unless packTetris packs the frame.      *)
(***************************************************************************)
PacksMissed ==
  /\ missed # <<>>
  /\ ~opt.separate \/ (opt.strategy = 2 /\ Alone)

FrameDone(laid, c) ==
  /\ frames' = Append(frames, [patches |-> patches, matches |-> Len(matched),
                               missed |-> missed', laid |-> laid,
                               width |-> c.width, height |-> c.height])
  /\ phase' = "segment"
  /\ patches' = <<>> /\ matched' = <<>> /\ id' = 0 /\ placed' = 0
  /\ canvas' = NoCanvas

PlacedAll ==
  /\ phase = "place"
  /\ placed = Len(patches)
  /\ IF PacksMissed
     THEN /\ phase' = "missed" /\ placed' = 0
          /\ UNCHANGED <<frames, patches, matched, id, missed, canvas>>
     ELSE UNCHANGED missed /\ FrameDone(0, canvas)
  /\ UNCHANGED opt

\* Size in blocks of a missed points patch.
MissedBlocks(m) == CeilDiv(m.size, Resolution * Resolution)
MissedV0(m, U) == CeilDiv(MissedBlocks(m), U)
MissedU0(m, U) == CeilDiv(MissedBlocks(m), MissedV0(m, U))

\* Its pixels are filled in rows over the width of its box.
MissedShape(m) ==
  [w |-> m.w, h |-> m.h, view |-> 0, at |-> 0,
   occ |-> {b \in (0 .. m.w - 1) \X (0 .. m.h - 1) :
              b[2] * Resolution * m.w * Resolution + b[1] * Resolution
                < m.size}]
MissedPatch(m) ==
  [FreshPatch(MissedShape(m)) EXCEPT !.u0 = m.u0, !.v0 = m.v0]

Sized(m, c) == [m EXCEPT !.w = MissedU0(m, c.U), !.h = MissedV0(m, c.U)]

MissedTries(c) ==
  {Try(u, v, DEFAULT, 0, v * (c.U + 1) + u) :
     u \in 0 .. c.U, v \in c.row .. c.V}

MissedFitting(m, c) ==
  {t \in MissedTries(c) :
     Fits(Located(MissedPatch(Sized(m, c)), t), c, 0)}

\* The row below the patches stays where it is, so that a second missed
\* points patch may lie beside the first.
PlaceMissed ==
  /\ phase = "missed"
  /\ placed < Len(missed)
  /\ LET m == missed[placed + 1]
         fitting == MissedFitting(m, canvas)
     IN  \E t \in fitting :
           LET n == [Sized(m, canvas) EXCEPT !.u0 = t.u, !.v0 = t.v]
           IN  /\ \A s \in fitting : t.rank <= s.rank
               /\ missed' = [missed EXCEPT ![placed + 1] = n]
               /\ canvas' = [canvas EXCEPT
                    !.occ = @ \cup Occ(MissedPatch(n)),
                    !.height = MaxOf(@, n.v0 + n.h)]
  /\ placed' = placed + 1
  /\ UNCHANGED <<opt, frames, phase, patches, matched, id>>

GrowMissed ==
  /\ phase = "missed"
  /\ placed < Len(missed)
  /\ MissedFitting(missed[placed + 1], canvas) = {}
  /\ 2 * canvas.V <= MaxV
  /\ canvas' = Doubled(canvas)
  /\ UNCHANGED <<opt, frames, phase, patches, matched, id, placed, missed>>

PlacedMissed ==
  /\ phase = "missed"
  /\ placed = Len(missed)
  /\ UNCHANGED missed
  /\ FrameDone(Len(missed), canvas)
  /\ UNCHANGED opt

-----------------------------------------------------------------------------
\* No orientation in which a patch is tried leaves it and the safeguard on
\* the width of the canvas, which never grows.
TooWide ==
  /\ phase = "place" /\ placed < Len(patches)
  /\ \A t \in Tries(patches[placed + 1], canvas) :
       t.rank >= 0 =>
         BoxW(Located(patches[placed + 1], t)) + 2 * t.guard > canvas.U

PackEnds ==
  /\ \/ Len(frames) = PackFrames
     \/ TooWide /\ 2 * canvas.V > MaxV
  /\ UNCHANGED packVars

SegmentSome ==
  \E n \in 0 .. MaxInFrame, sizes \in MissedSizes :
    \E shapes \in [1 .. n -> Shapes] : Segment(shapes, sizes)

PackNext ==
  \/ SegmentSome
  \/ MatchOne \/ Reorder
  \/ Place \/ Grow \/ PlacedAll
  \/ PlaceMissed \/ GrowMissed \/ PlacedMissed
  \/ PackEnds

PackSpec == PackInit /\ [][PackNext]_packVars
FairPackSpec == PackSpec /\ WF_packVars(PackNext)

-----------------------------------------------------------------------------
(***************************************************************************)
(* Owners of the blocks, once the group is packed.  The encoder has the    *)
(* occupancy of the whole frame, the lossy decoder boxes only; both let a  *)
(* later patch of the list overrule an earlier one.  0: nobody.            *)
(***************************************************************************)
LaidMissed(f) == {MissedPatch(f.missed[i]) : i \in 1 .. f.laid}
OccupiedBlocks(f) ==
  UNION {Occ(f.patches[i]) : i \in DOMAIN f.patches}
    \cup UNION {Occ(m) : m \in LaidMissed(f)}

\* A mistake: an earlier patch of the list overrules a later one.
OwnerByBoxFirst(f, b) ==
  LET claims == {i \in DOMAIN f.patches : b \in Box(f.patches[i])}
  IN  IF claims = {} THEN 0
      ELSE CHOOSE i \in claims : \A j \in claims : i <= j

OwnerByBox(f, b) ==
  LET claims == {i \in DOMAIN f.patches : b \in Box(f.patches[i])}
  IN  IF claims = {} THEN 0
      ELSE CHOOSE i \in claims : \A j \in claims : i >= j

OwnerByOccupancy(f, b) ==
  IF b \in OccupiedBlocks(f) THEN OwnerByBox(f, b) ELSE 0

-----------------------------------------------------------------------------
(***************************************************************************)
(* Properties.                                                             *)
(***************************************************************************)
PatchSet ==
  [shape : Shapes, match : Int, u0 : Int, v0 : Int, turn : Turns]
MissedSet ==
  [size : Nat \ {0}, w : Nat, h : Nat, u0 : Int, v0 : Int]
FrameSet ==
  [patches : Seq(PatchSet), matches : Nat, missed : Seq(MissedSet),
   laid : Nat, width : Nat, height : Nat]
CanvasType ==
  /\ {canvas.U, canvas.V} \subseteq Nat
  /\ canvas.width \in 0 .. canvas.U
  /\ {canvas.height, canvas.row} \subseteq 0 .. canvas.V
  /\ canvas.occ \subseteq (0 .. canvas.U - 1) \X (0 .. canvas.V - 1)
\* Every variable has its type; what is occupied lies on the canvas.
PackingTypeOK ==
  /\ opt \in Options
  /\ frames \in Seq(FrameSet) /\ Len(frames) <= PackFrames
  /\ phase \in Phases
  /\ patches \in Seq(PatchSet)
  /\ matched \in Seq(DOMAIN patches)
  /\ {id, placed} \subseteq Nat
  /\ missed \in Seq(MissedSet)
  /\ CanvasType

\* What the patch metadata coder relies on (ValidMatching of PatchCodec): the
\* matched patches of a frame come first, each with a patch of its own in the
\* frame before, of the same view, in the order of that frame; a frame packed
\* alone has no match.
MatchesValid(f, cur, n) ==
  /\ n \in 0 .. Len(cur)
  /\ n > 0 => f > 1 /\ opt.constrained
  /\ \A i \in 1 .. n :
       /\ cur[i].match + 1 \in DOMAIN frames[f - 1].patches
       /\ frames[f - 1].patches[cur[i].match + 1].shape.view
            = cur[i].shape.view
  /\ \A i, j \in 1 .. n : i < j => cur[i].match < cur[j].match
  /\ \A i \in n + 1 .. Len(cur) : cur[i].match = Invalid
MatchingValid ==
  \A f \in DOMAIN frames : MatchesValid(f, frames[f].patches, frames[f].matches)

\* No overlap is wasted: of a pair of patches of one view that overlap enough,
\* the earlier frame's has a match that overlaps it as much, or the later
\* frame's is the match of a patch further ahead.
NoneBetter(prev, cur, n) ==
  \A k \in 1 .. n, i \in DOMAIN cur :
    /\ prev[k].shape.view = cur[i].shape.view
    /\ Overlap(prev[k], cur[i]) > Threshold
    => \/ cur[i].match \in 0 .. k - 1
       \/ \E j \in DOMAIN cur :
            /\ cur[j].match = k - 1
            /\ Overlap(prev[k], cur[j]) >= Overlap(prev[k], cur[i])
NoBetterLeft ==
  opt.constrained =>
    \A f \in 2 .. Len(frames) :
      NoneBetter(frames[f - 1].patches, frames[f].patches,
                 Len(frames[f - 1].patches))

\* No two patches of a frame, missed points patches included, occupy the same
\* block, although their boxes may overlap.
ApartIn(f) ==
  /\ \A i, j \in DOMAIN f.patches :
       i < j => Occ(f.patches[i]) \cap Occ(f.patches[j]) = {}
  /\ \A i \in DOMAIN f.patches, k \in 1 .. f.laid :
       Occ(f.patches[i]) \cap Occ(MissedPatch(f.missed[k])) = {}
  /\ \A k, l \in 1 .. f.laid :
       k < l => Occ(MissedPatch(f.missed[k])) \cap Occ(MissedPatch(f.missed[l]))
                  = {}
Apart == \A k \in DOMAIN frames : ApartIn(frames[k])

\* The image of a frame contains the box of everything that was placed.
InImage(f) ==
  LET image == (0 .. f.width - 1) \X (0 .. f.height - 1)
  IN  /\ \A i \in DOMAIN f.patches : Box(f.patches[i]) \subseteq image
      /\ \A m \in LaidMissed(f) : Box(m) \subseteq image
InsideImage == \A k \in DOMAIN frames : InImage(frames[k])

\* Encoder and decoder give every occupied block to the patch that was placed
\* there, though one asks the occupancy and the other the boxes; blocks of
\* missed points belong to no patch on either side.
OwnersRightIn(f) ==
  /\ \A i \in DOMAIN f.patches : \A b \in Occ(f.patches[i]) :
       OwnerByBox(f, b) = i /\ OwnerByOccupancy(f, b) = i
  /\ \A m \in LaidMissed(f) : \A b \in Occ(m) : OwnerByBox(f, b) = 0
OwnersRight == \A k \in DOMAIN frames : OwnersRightIn(frames[k])

\* The search loops end: every frame is packed, unless a patch is wider than
\* the canvas in every orientation that is tried for it.  Only the height
\* grows.
EveryFramePacked == <>(Len(frames) = PackFrames) \/ <>[]TooWide
==============================================================================
