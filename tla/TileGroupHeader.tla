-------------------------- MODULE TileGroupHeader --------------------------
(***************************************************************************)
(* The patch tile group header as far as it sets the widths of the         *)
(* fixed-length fields: an I frame sends them, a P frame sends only the    *)
(* ones that grow and takes the others from the previous header.           *)
(*                                                                         *)
(* A header is [u0, lod]: u0 is interPredictPatch2dShiftUBitCountMinus1    *)
(* (the V, tangent and bitangent counts are handled in the same way) and   *)
(* lod is interPredictPatchLodBitCount, which is not minus one.            *)
(***************************************************************************)
EXTENDS PatchDataUnit, FiniteSets, Bits

CONSTANTS
  MaxBits,     \* width of the integers whose bits are counted (32)
  CoordBits    \* geometry3dCoordinatesBitdepth, width of the depth fields

(***************************************************************************)
(* getFixedLengthCodeBitsCount( max + 1 ) for the largest of a set of      *)
(* values: one bit for each power of two that some value reaches.          *)
(***************************************************************************)
BitsFor(values) ==
  Cardinality({n \in 0 .. MaxBits - 1 : \E v \in values : Pow2[n] <= v})

\* PCCBitstream::write keeps the low bits of a value.
Low(v, width) == v % Pow2[width]

ASSUME WidthAssumption ==
  /\ MaxBits \in Nat
  /\ CoordBits \in Nat \ {0}
  /\ Max3D = Pow2[CoordBits]

\* Width of the depth range: one bit more with the 45 degree planes.
DDBits == IF Plane45 THEN CoordBits + 1 ELSE CoordBits

\* A mistake: no test for a count of zero.
Minus1Unguarded(bits) == bits - 1

Minus1(bits) == IF bits > 0 THEN bits - 1 ELSE 0

\* Mistakes: the count is taken for the largest value and not for the number
\* of values; the missed points patches are forgotten.
NeededHeaderOfMax(patches, pcm) ==
  [u0  |-> Minus1(BitsFor({p.u0 - 1 : p \in patches} \cup {m.u0 - 1 : m \in pcm})),
   lod |-> BitsFor({p.lod : p \in patches})]
NeededHeaderNoPcm(patches, pcm) ==
  [u0  |-> Minus1(BitsFor({p.u0 : p \in patches})),
   lod |-> BitsFor({p.lod : p \in patches})]

\* The counts the encoder derives from the patches that are coded without a
\* reference and from the missed points patches.
NeededHeader(patches, pcm) ==
  [u0  |-> Minus1(BitsFor({p.u0 : p \in patches} \cup {m.u0 : m \in pcm})),
   lod |-> BitsFor({p.lod : p \in patches})]

(***************************************************************************)
(* Writer: the header is updated in place while it is written, so that the *)
(* next frame compares with the widths in force and not with the needed.   *)
(***************************************************************************)
\* A mistake: a width that shrinks is sent too.
GrowFlagsOnChange(need, prev) ==
  [u0 |-> need.u0 # prev.u0, lod |-> need.lod # prev.lod]

GrowFlags(need, prev) == [u0 |-> need.u0 > prev.u0, lod |-> need.lod > prev.lod]

HeaderInForce(type, need, prev) ==
  IF type = FrameI THEN need
  ELSE LET grows == GrowFlags(need, prev)
       IN  [u0  |-> IF grows.u0 THEN need.u0 ELSE prev.u0,
            lod |-> IF grows.lod THEN need.lod ELSE prev.lod]

HeaderSyntax(type, need, prev) ==
  [type  |-> type,
   flags |-> IF type = FrameI THEN [u0 |-> TRUE, lod |-> TRUE]
             ELSE GrowFlags(need, prev),
   count |-> HeaderInForce(type, need, prev)]

(***************************************************************************)
(* Parser.  In a P frame it adds one to the level of detail count it reads.*)
(***************************************************************************)
\* A mistake: a width that is not sent is not inherited.
ParsedHeaderNoPrev(syntax, prev) ==
  [u0  |-> IF syntax.flags.u0 THEN syntax.count.u0 ELSE 0,
   lod |-> IF ~syntax.flags.lod THEN prev.lod
           ELSE IF syntax.type = FrameI THEN syntax.count.lod
           ELSE syntax.count.lod + 1]

ParsedHeader(syntax, prev) ==
  [u0  |-> IF syntax.flags.u0 THEN syntax.count.u0 ELSE prev.u0,
   lod |-> IF ~syntax.flags.lod THEN prev.lod
           ELSE IF syntax.type = FrameI THEN syntax.count.lod
           ELSE syntax.count.lod + 1]

(***************************************************************************)
(* The fields of a unit that reach the bitstream.  A unit whose mode has   *)
(* no syntax in this type of frame is written as its mode alone.           *)
(***************************************************************************)
WrittenUnit(type, hdr, u) ==
  LET kind == Kind(type, u.mode)
  IN  CASE kind = "intra" ->
             [u EXCEPT !.u0 = Low(@, hdr.u0 + 1), !.lod = Low(@, hdr.lod),
                       !.d1 = Low(@, CoordBits), !.dd = Low(@, DDBits)]
        [] kind = "inter" -> [u EXCEPT !.lod = 0]
        [] kind = "pcm" -> [u EXCEPT !.u0 = Low(@, hdr.u0 + 1)]
        [] OTHER -> BlankUnit(u.mode)

\* Writer and parser cut the same bits out of the stream for this unit.
Aligned(type, u, w, r) ==
  LET kind == Kind(type, u.mode)
  IN  /\ kind \in {"intra", "pcm"} => w.u0 = r.u0
      /\ kind = "intra" => w.lod = r.lod
=============================================================================
