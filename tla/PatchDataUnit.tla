--------------------------- MODULE PatchDataUnit ---------------------------
(***************************************************************************)
(* The syntax elements of one patch: what the encoder stores in a patch    *)
(* information data (PCCEncoder::createPatchFrameDataStructure) and what   *)
(* the decoder rebuilds from it (PCCDecoder::createPatchFrameDataStructure)*)
(*                                                                         *)
(* A patch is [u0, sizeU0, d1, sizeD, plane, lod]:                         *)
(*   u0      block column on the canvas; v0, u1 and v1 are coded the same  *)
(*           way (fixed width when intra, difference when inter)           *)
(*   sizeU0  width in blocks; sizeV0 is coded the same way                 *)
(*   d1      depth offset along the normal axis                            *)
(*   sizeD   depth range of the patch                                      *)
(*   plane   projectPlane, projectionMode * 3 + normalAxis; it stands also *)
(*           for the orientation and the 45 degree axis, which an intra    *)
(*           unit carries and an inter unit inherits in the same way       *)
(*   lod     level of detail                                               *)
(***************************************************************************)
EXTENDS Integers

CONSTANTS
  MinLevel,         \* sps.minLevel, quantisation step of depths (64)
  Max3D,            \* max3DCoordinate, 1 << geometry3dCoordinatesBitdepth
  MaxAllowedDepth,  \* encoder option maxAllowedDepth (255)
  DepthClamp,       \* the decoder's constant 255
  AbsoluteD1,       \* sps.layerAbsoluteCodingEnabledFlag[1]
  Plane45           \* pfps.projection45DegreeEnableFlag

(***************************************************************************)
(* Levels are powers of two below the coordinate range, and the depth of a *)
(* patch is clamped to the same bound on both sides.                       *)
(***************************************************************************)
ASSUME LevelAssumption ==
  /\ MinLevel \in Nat \ {0}
  /\ Max3D \in Nat \ {0}
  /\ \E k \in 1 .. Max3D : Max3D = k * MinLevel
ASSUME DepthAssumption ==
  /\ MaxAllowedDepth \in Nat \ {0}
  /\ DepthClamp \in Nat \ {0}
ASSUME FlagAssumption == AbsoluteD1 \in BOOLEAN /\ Plane45 \in BOOLEAN

Planes == 0 .. 5

\* Modes of a patch, one numbering per frame type; 1 is a PCM patch in an
\* I frame and an intra patch in a P frame.
FrameI == 0
FrameP == 1
I_INTRA == 0
I_PCM == 1
I_END == 14
P_INTRA == 1
P_INTER == 2
P_PCM == 3
P_END == 14

Kind(type, mode) ==
  CASE type = FrameI /\ mode = I_INTRA -> "intra"
    [] type = FrameP /\ mode = P_INTRA -> "intra"
    [] type = FrameP /\ mode = P_INTER -> "inter"
    [] type = FrameI /\ mode = I_PCM -> "pcm"
    [] type = FrameP /\ mode = P_PCM -> "pcm"
    [] mode = I_END -> "end"
    [] OTHER -> "none"

Least(a, b) == IF a <= b THEN a ELSE b

(***************************************************************************)
(* Depth offset.  With absolute coding, a patch projected from the far     *)
(* side is coded as its distance to the end of the axis.                   *)
(***************************************************************************)
FromNear(plane) == plane < 3 \/ ~AbsoluteD1

AxisEnd == IF Plane45 THEN 2 * Max3D ELSE Max3D

\* What segmentation leaves in a patch: depths are multiples of the level,
\* the depth range is rounded up to a level and clamped.
IsSegmented(p) ==
  /\ p.d1 <= AxisEnd
  /\ \E k \in 0 .. 2 * Max3D : p.d1 = k * MinLevel
  /\ \E k \in 0 .. 2 * Max3D : p.sizeD = Least(k * MinLevel, MaxAllowedDepth)

QuantD1(plane, d1) ==
  IF FromNear(plane) THEN d1 \div MinLevel ELSE (AxisEnd - d1) \div MinLevel

\* Intra patches: both branches of the decoder start from max3DCoordinate.
IntraD1(plane, q) ==
  IF FromNear(plane) THEN q * MinLevel ELSE Max3D - q * MinLevel

\* Inter patches: a difference of levels added to the reference's level.
InterD1(plane, delta, prevD1) ==
  IF FromNear(plane)
  THEN (delta + prevD1 \div MinLevel) * MinLevel
  ELSE AxisEnd - (delta + (AxisEnd - prevD1) \div MinLevel) * MinLevel

(***************************************************************************)
(* Depth range, rounded up by the encoder in one form and by the decoder,  *)
(* for its reference patch, in another.                                    *)
(***************************************************************************)
QuantDD(sizeD) == IF sizeD = 0 THEN 0 ELSE (sizeD - 1) \div MinLevel + 1

PrevDD(sizeD) ==
  LET q == sizeD \div MinLevel
  IN  IF q * MinLevel # sizeD THEN q + 1 ELSE q

\* A mistake: the depth range is not clamped.
SizeDOfUnclamped(q) == q * MinLevel

SizeDOf(q) == Least(q * MinLevel, DepthClamp)

(***************************************************************************)
(* Encoder side.  A unit has the fields of every kind, as the class does:  *)
(* the ones a kind does not set keep 0.                                    *)
(***************************************************************************)
BlankUnit(mode) ==
  [mode |-> mode, idx |-> 0, u0 |-> 0, size |-> 0, d1 |-> 0, dd |-> 0,
   plane |-> 0, lod |-> 0, points |-> 0]

IntraUnit(mode, p, prevSize) ==
  [mode |-> mode, idx |-> 0, u0 |-> p.u0, size |-> p.sizeU0 - prevSize,
   d1 |-> QuantD1(p.plane, p.d1), dd |-> QuantDD(p.sizeD),
   plane |-> p.plane, lod |-> p.lod, points |-> 0]

InterUnit(p, match, ref, predIndex) ==
  [mode |-> P_INTER, idx |-> match - predIndex, u0 |-> p.u0 - ref.u0,
   size |-> p.sizeU0 - ref.sizeU0,
   d1 |-> QuantD1(p.plane, p.d1) - QuantD1(p.plane, ref.d1),
   dd |-> QuantDD(p.sizeD) - QuantDD(ref.sizeD),
   plane |-> 0, lod |-> p.lod, points |-> 0]

\* A missed points patch [u0, sizeU0, points]; its size is absolute.
PcmUnit(mode, m) ==
  [mode |-> mode, idx |-> 0, u0 |-> m.u0, size |-> m.sizeU0, d1 |-> 0,
   dd |-> 0, plane |-> 0, lod |-> 0, points |-> m.points]

(***************************************************************************)
(* Decoder side.                                                           *)
(***************************************************************************)
DefaultPatch ==
  [u0 |-> 0, sizeU0 |-> 0, d1 |-> 0, sizeD |-> 0, plane |-> 0, lod |-> 0]

\* A mistake: the width is taken as absolute.
IntraPatchAbsolute(u, prevSize) ==
  [u0 |-> u.u0, sizeU0 |-> u.size, d1 |-> IntraD1(u.plane, u.d1),
   sizeD |-> SizeDOf(u.dd), plane |-> u.plane, lod |-> u.lod]

IntraPatch(u, prevSize) ==
  [u0 |-> u.u0, sizeU0 |-> prevSize + u.size, d1 |-> IntraD1(u.plane, u.d1),
   sizeD |-> SizeDOf(u.dd), plane |-> u.plane, lod |-> u.lod]

InterPatch(u, pre) ==
  [u0 |-> u.u0 + pre.u0, sizeU0 |-> u.size + pre.sizeU0,
   d1 |-> InterD1(pre.plane, u.d1, pre.d1),
   sizeD |-> SizeDOf(u.dd + PrevDD(pre.sizeD)),
   plane |-> pre.plane, lod |-> pre.lod]

PcmPatch(u) == [u0 |-> u.u0, sizeU0 |-> u.size, points |-> u.points]
=============================================================================
