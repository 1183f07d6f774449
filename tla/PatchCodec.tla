----------------------------- MODULE PatchCodec -----------------------------
(***************************************************************************)
(* The patch metadata of one group of frames, from the packed patches of   *)
(* the encoder to the patches the decoder rebuilds.  The encoder packs all *)
(* frames, turns each into a patch tile group, writes the tile groups; the *)
(* decoder parses them all and rebuilds the frames one by one, an inter    *)
(* patch from its reference in the previous frame.                         *)
(***************************************************************************)
EXTENDS TileGroupHeader, Sequences

CONSTANTS
  NumFrames,    \* frames of the group
  MaxPatches,   \* bound on the patches of a frame
  PatchSet,     \* the patches segmentation may produce
  PcmSet,       \* the missed points patches; empty: none are coded
  MaxPcm,       \* bound on the missed points patches of a frame
  InterPred,    \* sps.patchInterPredictionEnabledFlag (option deltaCoding)
  Constrained,  \* option constrainedPack: frames are matched to the previous
  SceneCuts     \* a later frame may have no patch that matches

ASSUME FrameAssumption ==
  /\ NumFrames \in Nat \ {0}
  /\ MaxPatches \in Nat \ {0}
  /\ MaxPcm \in Nat
  /\ {InterPred, Constrained, SceneCuts} \subseteq BOOLEAN
ASSUME PatchAssumption ==
  \A p \in PatchSet :
    /\ p \in [u0 : Nat, sizeU0 : Nat, d1 : Nat, sizeD : Nat, plane : Planes,
              lod : Nat]
    /\ IsSegmented(p)
    /\ {p.u0, p.lod} \subseteq 0 .. Pow2[MaxBits] - 1
ASSUME PcmAssumption ==
  \A m \in PcmSet :
    /\ m \in [u0 : Nat, sizeU0 : Nat, points : Nat]
    /\ m.u0 < Pow2[MaxBits]

VARIABLES
  src,    \* frames the encoder packed
  pdg,    \* patch tile groups the encoder built
  enc,    \* the tile group under construction and the predictors
  sent,   \* the tile groups in the bitstream, with the header in force
  rcvd,   \* the tile groups the decoder parsed, with its header in force
  lost,   \* the parser has cut the stream at other bits than the writer
  dec,    \* frames the decoder rebuilt
  dcd     \* the frame being rebuilt and the predictors

vars == <<src, pdg, enc, sent, rcvd, lost, dec, dcd>>

Invalid == -1
EncStart == [pids |-> <<>>, pred |-> 0, prev |-> 0]
DecStart == [patches |-> <<>>, match |-> <<>>, pcm |-> <<>>, pos |-> 1,
             pred |-> 0, prev |-> 0]

Elems(s) == {s[i] : i \in DOMAIN s}

Init ==
  /\ src = <<>> /\ pdg = <<>> /\ enc = EncStart
  /\ sent = <<>> /\ rcvd = <<>> /\ lost = FALSE
  /\ dec = <<>> /\ dcd = DecStart

-----------------------------------------------------------------------------
(***************************************************************************)
(* Encoder: segmentation and packing of a frame.  Packing puts the patches *)
(* that match a patch of the previous frame first, in the order of that    *)
(* frame; a match was segmented for the same view.                         *)
(***************************************************************************)
\* With absolute coding the view fixes the projection mode; without it the
\* mode is chosen again for every patch of a view.
SameView(p, q) ==
  IF AbsoluteD1 THEN p.plane = q.plane ELSE p.plane % 3 = q.plane % 3

ValidMatching(patches, match, n, prev) ==
  /\ \A i \in DOMAIN patches :
       IF i <= n
       THEN /\ match[i] \in 0 .. Len(prev) - 1
            /\ SameView(prev[match[i] + 1], patches[i])
       ELSE match[i] = Invalid
  /\ \A i, j \in 1 .. n : i < j => match[i] < match[j]

PackFrame(patches, match, n, pcm) ==
  /\ Len(src) < NumFrames
  /\ IF Len(src) = 0 \/ ~Constrained
     THEN ValidMatching(patches, match, 0, <<>>) /\ n = 0
     ELSE /\ ValidMatching(patches, match, n, src[Len(src)].patches)
          /\ SceneCuts \/ n > 0
  /\ src' = Append(src, [patches |-> patches, match |-> match,
                         numMatched |-> n, pcm |-> pcm])
  /\ UNCHANGED <<pdg, enc, sent, rcvd, lost, dec, dcd>>

(***************************************************************************)
(* Encoder: createPatchFrameDataStructure, patch by patch.                 *)
(***************************************************************************)
FrameType(f) ==
  IF f = 1 \/ ~InterPred \/ src[f].match[1] = Invalid THEN FrameI ELSE FrameP

\* The count of matched patches is reset in an I frame.
NumMatched(f) == IF FrameType(f) = FrameI THEN 0 ELSE src[f].numMatched

\* Missed points patches and the end mark take the mode of an I frame only
\* from the frame index and the prediction flag.
\* A mistake: the first frame is not told apart.
LateTypeNoFirst(f) == IF ~InterPred THEN FrameI ELSE FrameP

LateType(f) == IF f = 1 \/ ~InterPred THEN FrameI ELSE FrameP

Building == Len(src) = NumFrames /\ Len(pdg) < NumFrames
BuildFrame == Len(pdg) + 1
BuildPatch == Len(enc.pids) + 1

BuildInter ==
  /\ Building
  /\ BuildPatch <= NumMatched(BuildFrame)
  /\ LET cur == src[BuildFrame]
         p == cur.patches[BuildPatch]
         best == cur.match[BuildPatch]
         unit == InterUnit(p, best, src[BuildFrame - 1].patches[best + 1],
                           enc.pred)
     IN  enc' = [pids |-> Append(enc.pids, unit),
                 pred |-> enc.pred + unit.idx + 1, prev |-> p.sizeU0]
  /\ UNCHANGED <<src, pdg, sent, rcvd, lost, dec, dcd>>

BuildIntra ==
  /\ Building
  /\ BuildPatch > NumMatched(BuildFrame)
  /\ BuildPatch <= Len(src[BuildFrame].patches)
  /\ LET p == src[BuildFrame].patches[BuildPatch]
         mode == IF FrameType(BuildFrame) = FrameI THEN I_INTRA ELSE P_INTRA
     IN  enc' = [pids |-> Append(enc.pids, IntraUnit(mode, p, enc.prev)),
                 pred |-> enc.pred, prev |-> p.sizeU0]
  /\ UNCHANGED <<src, pdg, sent, rcvd, lost, dec, dcd>>

\* A mistake: the loop over the missed points patches ends one early.
BuildPcmShort ==
  /\ Building
  /\ LET cur == src[BuildFrame]
         m == BuildPatch - Len(cur.patches)
         mode == IF LateType(BuildFrame) = FrameI THEN I_PCM ELSE P_PCM
     IN  /\ m \in 1 .. Len(cur.pcm) - 1
         /\ enc' = [enc EXCEPT !.pids = Append(@, PcmUnit(mode, cur.pcm[m]))]
  /\ UNCHANGED <<src, pdg, sent, rcvd, lost, dec, dcd>>

BuildPcm ==
  /\ Building
  /\ LET cur == src[BuildFrame]
         m == BuildPatch - Len(cur.patches)
         mode == IF LateType(BuildFrame) = FrameI THEN I_PCM ELSE P_PCM
     IN  /\ m \in 1 .. Len(cur.pcm)
         /\ enc' = [enc EXCEPT !.pids = Append(@, PcmUnit(mode, cur.pcm[m]))]
  /\ UNCHANGED <<src, pdg, sent, rcvd, lost, dec, dcd>>

BuildEnd ==
  /\ Building
  /\ LET f == BuildFrame
         cur == src[f]
         n == Len(cur.patches)
         free == {cur.patches[i] : i \in NumMatched(f) + 1 .. n}
         mode == IF LateType(f) = FrameI THEN I_END ELSE P_END
     IN  /\ BuildPatch > n + Len(cur.pcm)
         /\ pdg' = Append(pdg, [type |-> FrameType(f),
                                need |-> NeededHeader(free, Elems(cur.pcm)),
                                pids |-> Append(enc.pids, BlankUnit(mode))])
  /\ enc' = EncStart
  /\ UNCHANGED <<src, sent, rcvd, lost, dec, dcd>>

-----------------------------------------------------------------------------
(***************************************************************************)
(* Bitstream: one patch tile group written, and one parsed.                *)
(***************************************************************************)
NoHeader == [u0 |-> 0, lod |-> 0]

\* The header of the group before; the first group is never predicted.
LastHeader(groups) ==
  IF groups = <<>> THEN NoHeader ELSE groups[Len(groups)].header

WriteGroup ==
  /\ Len(pdg) = NumFrames /\ Len(sent) < NumFrames
  /\ LET g == pdg[Len(sent) + 1]
         prev == LastHeader(sent)
         header == HeaderInForce(g.type, g.need, prev)
     IN  sent' = Append(sent,
                   [syntax |-> HeaderSyntax(g.type, g.need, prev),
                    header |-> header,
                    pids |-> [i \in 1 .. Len(g.pids) |->
                                WrittenUnit(g.type, header, g.pids[i])]])
  /\ UNCHANGED <<src, pdg, enc, rcvd, lost, dec, dcd>>

\* A mistake: the end mark is kept as a unit.
UpToEndIncluded(pids) ==
  SubSeq(pids, 1, CHOOSE n \in 1 .. Len(pids) :
                    /\ pids[n].mode = I_END
                    /\ \A i \in 1 .. n - 1 : pids[i].mode # I_END)

\* Units before the first end mark.
UpToEnd(pids) ==
  SubSeq(pids, 1, CHOOSE n \in 0 .. Len(pids) - 1 :
                    /\ pids[n + 1].mode = I_END
                    /\ \A i \in 1 .. n : pids[i].mode # I_END)

ParseGroup ==
  /\ Len(sent) = NumFrames /\ Len(rcvd) < NumFrames /\ ~lost
  /\ LET g == sent[Len(rcvd) + 1]
         header == ParsedHeader(g.syntax, LastHeader(rcvd))
         units == UpToEnd(g.pids)
     IN  /\ rcvd' = Append(rcvd, [type |-> g.syntax.type, header |-> header,
                                  pids |-> units])
         /\ lost' = \E i \in DOMAIN units :
                      ~Aligned(g.syntax.type, units[i], g.header, header)
  /\ UNCHANGED <<src, pdg, enc, sent, dec, dcd>>

-----------------------------------------------------------------------------
(***************************************************************************)
(* Decoder: createPatchFrameDataStructure, patch by patch.                 *)
(***************************************************************************)
Rebuilding == Len(rcvd) = NumFrames /\ ~lost /\ Len(dec) < NumFrames
Group == rcvd[Len(dec) + 1]
Unit == Group.pids[dcd.pos]
UnitIs(kind) ==
  /\ Rebuilding
  /\ dcd.pos <= Len(Group.pids)
  /\ Kind(Group.type, Unit.mode) = kind

DecodeIntra ==
  /\ UnitIs("intra")
  /\ LET p == IntraPatch(Unit, dcd.prev)
     IN  dcd' = [dcd EXCEPT !.patches = Append(@, p), !.match = Append(@, 0),
                            !.pos = @ + 1, !.prev = p.sizeU0]
  /\ UNCHANGED <<src, pdg, enc, sent, rcvd, lost, dec>>

\* A mistake: the predictor of the index is not advanced by one.
DecodeInterNoStep ==
  /\ UnitIs("inter")
  /\ LET best == Unit.idx + dcd.pred
         p == InterPatch(Unit, dec[Len(dec)].patches[best + 1])
     IN  dcd' = [dcd EXCEPT !.patches = Append(@, p), !.match = Append(@, best),
                            !.pos = @ + 1, !.pred = @ + Unit.idx,
                            !.prev = p.sizeU0]
  /\ UNCHANGED <<src, pdg, enc, sent, rcvd, lost, dec>>

DecodeInter ==
  /\ UnitIs("inter")
  /\ LET best == Unit.idx + dcd.pred
         p == InterPatch(Unit, dec[Len(dec)].patches[best + 1])
     IN  dcd' = [dcd EXCEPT !.patches = Append(@, p), !.match = Append(@, best),
                            !.pos = @ + 1, !.pred = @ + Unit.idx + 1,
                            !.prev = p.sizeU0]
  /\ UNCHANGED <<src, pdg, enc, sent, rcvd, lost, dec>>

DecodePcm ==
  /\ UnitIs("pcm")
  /\ dcd' = [dcd EXCEPT !.pcm = Append(@, PcmPatch(Unit)), !.pos = @ + 1]
  /\ UNCHANGED <<src, pdg, enc, sent, rcvd, lost, dec>>

\* "Error: unknow frame/patch type": the patch keeps its default values.
DecodeUnknown ==
  /\ UnitIs("none")
  /\ dcd' = [dcd EXCEPT !.patches = Append(@, DefaultPatch),
                        !.match = Append(@, 0), !.pos = @ + 1]
  /\ UNCHANGED <<src, pdg, enc, sent, rcvd, lost, dec>>

\* A mistake: the missed points patches stay for the next frame.
DecodeEndKeepPcm ==
  /\ Rebuilding
  /\ dcd.pos > Len(Group.pids)
  /\ dec' = Append(dec, [patches |-> dcd.patches, match |-> dcd.match,
                         pcm |-> dcd.pcm])
  /\ dcd' = [DecStart EXCEPT !.pcm = dcd.pcm]
  /\ UNCHANGED <<src, pdg, enc, sent, rcvd, lost>>

DecodeEnd ==
  /\ Rebuilding
  /\ dcd.pos > Len(Group.pids)
  /\ dec' = Append(dec, [patches |-> dcd.patches, match |-> dcd.match,
                         pcm |-> dcd.pcm])
  /\ dcd' = DecStart
  /\ UNCHANGED <<src, pdg, enc, sent, rcvd, lost>>

\* The program has read the whole group, or lost its place in the stream.
Terminated ==
  /\ Len(dec) = NumFrames \/ lost
  /\ UNCHANGED vars

Pack ==
  \E n \in 1 .. MaxPatches, k \in 0 .. MaxPcm :
    \E patches \in [1 .. n -> PatchSet], pcm \in [1 .. k -> PcmSet],
       match \in [1 .. n -> Invalid .. MaxPatches - 1], m \in 0 .. n :
      PackFrame(patches, match, m, pcm)

Encode == BuildInter \/ BuildIntra \/ BuildPcm \/ BuildEnd
Transmit == WriteGroup \/ ParseGroup
Decode == DecodeIntra \/ DecodeInter \/ DecodePcm \/ DecodeUnknown \/ DecodeEnd

Next == Pack \/ Encode \/ Transmit \/ Decode \/ Terminated

Spec == Init /\ [][Next]_vars

\* Both programs are loops that run to their end.
FairSpec == Spec /\ WF_vars(Pack \/ Encode \/ Transmit \/ Decode)

-----------------------------------------------------------------------------
Patch == [u0 : Int, sizeU0 : Int, d1 : Int, sizeD : Int, plane : Planes,
          lod : Nat]
Missed == [u0 : Int, sizeU0 : Int, points : Nat]
UnitType ==
  [mode : 0 .. P_END, idx : Int, u0 : Int, size : Int, d1 : Int, dd : Int,
   plane : Planes, lod : Nat, points : Nat]
Header == [u0 : Nat, lod : Nat]
Types == {FrameI, FrameP}

\* The shape of the state of both programs (createPatchFrameDataStructure,
\* patchDataGroup), whatever is packed.
TypeOK ==
  /\ src \in Seq([patches : Seq(PatchSet), match : Seq(Int),
                  numMatched : Nat, pcm : Seq(PcmSet)])
  /\ pdg \in Seq([type : Types, need : Header, pids : Seq(UnitType)])
  /\ enc \in [pids : Seq(UnitType), pred : Int, prev : Int]
  /\ sent \in Seq([syntax : [type : Types, flags : [u0 : BOOLEAN, lod : BOOLEAN],
                             count : Header],
                   header : Header, pids : Seq(UnitType)])
  /\ rcvd \in Seq([type : Types, header : Header, pids : Seq(UnitType)])
  /\ lost \in BOOLEAN
  /\ dec \in Seq([patches : Seq(Patch), match : Seq(Int), pcm : Seq(Missed)])
  /\ dcd \in [patches : Seq(Patch), match : Seq(Int), pcm : Seq(Missed),
              pos : Nat \ {0}, pred : Int, prev : Int]

\* Every frame the decoder has rebuilt carries the patches and the missed
\* points patches the encoder packed: no drift along a chain of inter frames.
Lossless ==
  \A f \in DOMAIN dec :
    dec[f].patches = src[f].patches /\ dec[f].pcm = src[f].pcm

\* The decoder predicts a patch from the patch the encoder predicted it from,
\* though each side counts its own predictor of the index.
SameReference ==
  \A f \in DOMAIN dec : \A i \in 1 .. NumMatched(f) :
    dec[f].match[i] = src[f].match[i]

\* The parser never leaves the bits the writer wrote: every fixed width it
\* uses is the width that was used to write the field.
BitAligned == ~lost

\* The widths the parser holds after each tile group are the writer's, which
\* it reconstructs from the few a P frame sends.
SameHeader == \A f \in DOMAIN rcvd : rcvd[f].header = sent[f].header

\* No value is cut by the width of its field: what reaches the bitstream is
\* what the encoder built, but for the level of detail of an inter patch.
NothingCut ==
  \A f \in DOMAIN sent : \A i \in DOMAIN sent[f].pids :
    sent[f].pids[i] =
      IF Kind(pdg[f].type, pdg[f].pids[i].mode) = "inter"
      THEN [pdg[f].pids[i] EXCEPT !.lod = 0]
      ELSE pdg[f].pids[i]

\* Every unit the decoder reads has a mode its frame type knows: the branch
\* "Error: unknow frame/patch type" is dead.
KnownUnits ==
  \A f \in DOMAIN rcvd : \A i \in DOMAIN rcvd[f].pids :
    Kind(rcvd[f].type, rcvd[f].pids[i].mode) \in {"intra", "inter", "pcm"}

\* Missed points patches are the only units that can come without a mode of
\* their frame type, and only in an I frame that is not the first of its
\* group; they are the last units, so the patches before them are intact.
UnknownOnlyMissed ==
  \A f \in DOMAIN dec :
    LET n == Len(src[f].patches)
    IN  \/ Len(dec[f].patches) = n
        \/ /\ f > 1 /\ FrameType(f) = FrameI
           /\ Len(dec[f].patches) = n + Len(src[f].pcm)
           /\ \A i \in 1 .. n : dec[f].patches[i].u0 = src[f].patches[i].u0

\* When the parser does lose its place, the cause is a P frame that sends a
\* wider level of detail: all other widths are in step even then.
LostOnlyByLod ==
  /\ \A f \in DOMAIN rcvd : rcvd[f].header.u0 = sent[f].header.u0
  /\ lost => LET f == Len(rcvd)
             IN  \E g \in 2 .. f : /\ sent[g].syntax.type = FrameP
                                   /\ sent[g].syntax.flags.lod

\* Between two I frames the widths in force only grow, so that the values of
\* a frame that sends no width still fit the widths of the one before.
WidthsOnlyGrow ==
  \A f \in DOMAIN sent : f > 1 /\ sent[f].syntax.type = FrameP =>
    /\ sent[f].header.u0 >= sent[f - 1].header.u0
    /\ sent[f].header.lod >= sent[f - 1].header.lod

\* The decoder rebuilds every frame of the group.
AllDelivered == <>(Len(dec) = NumFrames)

\* The codec implements the transfer of frames.
Carried(frames) ==
  [f \in DOMAIN frames |-> [patches |-> frames[f].patches,
                            pcm |-> frames[f].pcm]]
Transfer == INSTANCE PatchTransfer WITH
  Frames <- [patches : UNION {[1 .. n -> PatchSet] : n \in 1 .. MaxPatches},
             pcm : UNION {[1 .. n -> PcmSet] : n \in 0 .. MaxPcm}],
  GroupSize <- NumFrames, packed <- Carried(src), delivered <- Carried(dec)
ImplementsTransfer == Transfer!Spec
=============================================================================
