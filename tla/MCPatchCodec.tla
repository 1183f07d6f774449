---------------------------- MODULE MCPatchCodec ----------------------------
(***************************************************************************)
(* Small instances of PatchCodec.  Levels of 4 on a 16 wide axis; sizes of *)
(* depth are clamped to 15, so that one clamped depth is not a multiple of *)
(* the level.                                                              *)
(***************************************************************************)
EXTENDS PatchCodec, TLC

P(u0, sizeU0, d1, sizeD, plane, lod) ==
  [u0 |-> u0, sizeU0 |-> sizeU0, d1 |-> d1, sizeD |-> sizeD, plane |-> plane,
   lod |-> lod]
Near0 == P(0, 1, 0, 0, 0, 1)
Near5 == P(5, 3, 8, 15, 0, 1)
Far2 == P(2, 2, 16, 8, 4, 1)
Far9 == P(9, 1, 12, 15, 4, 1)
Fine == P(1, 1, 4, 4, 0, 2)

UniformPatches == {Near0, Near5, Far2}
FarPatches == {Near5, Far2, Far9}
MixedLods == {Near0, Near5, Fine}

PcmPatches == {[u0 |-> 6, sizeU0 |-> 2, points |-> 40],
               [u0 |-> 0, sizeU0 |-> 1, points |-> 3]}
NoPcm == {}

(***************************************************************************)
(* The loop of getFixedLengthCodeBitsCount, and the bits PCCBitstream::    *)
(* write keeps, to which the operators of the model are compared.          *)
(***************************************************************************)
RECURSIVE CountFrom(_, _)
CountFrom(range, bits) ==
  IF range > 0 THEN CountFrom(range \div 2, bits + 1) ELSE bits
FixedLengthCodeBitsCount(range) == CountFrom(range - 1, 0)

ASSUME BitsAgree ==
  \A v \in 0 .. 300 :
    /\ BitsFor({v}) = FixedLengthCodeBitsCount(v + 1)
    /\ BitsFor({0, v}) = FixedLengthCodeBitsCount(v + 1)
    /\ \A width \in 1 .. 10 : Low(v, width) = v % 2^width
=============================================================================
