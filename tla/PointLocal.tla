----------------------------- MODULE PointLocal -----------------------------
(***************************************************************************)
(* Point local reconstruction.  With one layer the encoder tries several   *)
(* ways to fill in the points the layer lacks and keeps the best mode of   *)
(* each patch, or of each block of a larger patch.  The modes follow each  *)
(* patch unit, and their number follows from the size of the patch, which  *)
(* the parser has to know by then: it sums up differences of sizes, of the *)
(* patch before or of a unit of the group before, with predictors of its   *)
(* own.  Other fields of a unit are left out, and so are the units of      *)
(* missed points, which come last and carry no modes.                      *)
(***************************************************************************)
EXTENDS Integers, Sequences, SequencesExt, Bits

CONSTANTS
  Modes,      \* nbPlrmMode
  ByteMod,    \* values of a uint8_t
  PatchSizes, \* values of the option patchSize
  Shapes,     \* bound: sizes of patches in blocks, and the blocks they own
  MaxPatches, \* bound: how many patches each frame of the group may have
  Outcomes    \* bound: the modes a search may find best, block by block

ASSUME PointLocalAssumption ==
  /\ Modes \in Nat \ {0} /\ ByteMod \in Nat \ {0} /\ Modes <= ByteMod
  /\ PatchSizes \subseteq Nat
  /\ \A s \in Shapes :
       /\ s.size \in (Nat \ {0}) \X (Nat \ {0})
       /\ s.owned # {} /\ s.owned \subseteq 0 .. s.size[1] * s.size[2] - 1
  /\ MaxPatches \in Seq(Nat \ {0}) /\ MaxPatches # <<>>
  /\ \A best \in Outcomes : \A s \in Shapes :
       \A b \in 0 .. s.size[1] * s.size[2] - 1 : best[b] \in 0 .. Modes - 1

VARIABLES
  options,  \* of the encoder: patchSize, and the two that decide the search
  frames,   \* patches of each frame, as they were packed
  plr,      \* encoder: level and modes of each patch of a frame
  stream,   \* units of each group: prediction, differences of size, bits
  parsed,   \* what the parser made of them
  pred,     \* parser: predPatchIndex_
  prevSize, \* parser: prevPatchSizeU_, prevPatchSizeV_
  decoded,  \* patches of each frame, as the decoder rebuilds them
  lost      \* the parser reads other bits than were written for a patch

vars == <<options, frames, plr, stream, parsed, pred, prevSize, decoded, lost>>

Frames == Len(MaxPatches)
NoMatch == 0
Count(size) == size[1] * size[2]
Plus(a, b) == <<a[1] + b[1], a[2] + b[2]>>
Minus(a, b) == <<a[1] - b[1], a[2] - b[2]>>
NoSize == <<0, 0>>

Init ==
  /\ options \in [patchSize : PatchSizes, absoluteD1 : BOOLEAN,
                  singleLayerPixelInterleaving : BOOLEAN]
  /\ frames = <<>> /\ plr = <<>> /\ stream = <<>> /\ parsed = <<>>
  /\ pred = 0 /\ prevSize = NoSize
  /\ decoded = <<>>
  /\ lost = FALSE

-----------------------------------------------------------------------------
(***************************************************************************)
(* Packing leaves the matched patches first, in the order of their         *)
(* matches; a block belongs to the patch or to another one.                *)
(***************************************************************************)
Patches(matches) ==
  {[size |-> s.size, owned |-> s.owned, match |-> m] : s \in Shapes, m \in matches}

Packed(patches, before) ==
  /\ \A j \in DOMAIN patches : patches[j].match \in 0 .. Len(before)
  /\ \A j, k \in DOMAIN patches :
       j < k /\ patches[k].match # NoMatch =>
         patches[j].match \in 1 .. patches[k].match - 1

Pack ==
  /\ Len(frames) < Frames
  /\ LET f == Len(frames) + 1
         before == IF f = 1 THEN <<>> ELSE frames[f - 1]
     IN  \E n \in 1 .. MaxPatches[f] :
           \E patches \in [1 .. n -> Patches(0 .. Len(before))] :
             /\ Packed(patches, before)
             /\ frames' = Append(frames, patches)
  /\ UNCHANGED <<options, plr, stream, parsed, pred, prevSize, decoded, lost>>

-----------------------------------------------------------------------------
(***************************************************************************)
(* The encoder looks for the best modes only with an absolute second       *)
(* layer and without interleaving, while the modes are always sent.        *)
(***************************************************************************)
Searched == options.absoluteD1 /\ ~options.singleLayerPixelInterleaving

ModeOf(p, b) == IF p.level = 1 THEN p.byPatch ELSE p.byBlock[b]

Allocated(n) ==
  [level |-> 0, byPatch |-> 0, byBlock |-> [b \in 0 .. n - 1 |-> 0]]

\* A mistake: a patch of exactly patchSize blocks is searched block by block.
WholeBelow(n) == n = 1 \/ n < options.patchSize

\* Small patches have one mode.
Whole(n) == n = 1 \/ n <= options.patchSize

Found(patch, best) ==
  LET n == Count(patch.size)
  IN  IF Whole(n)
      THEN [Allocated(n) EXCEPT !.level = 1, !.byPatch = best[0]]
      ELSE [Allocated(n) EXCEPT !.byBlock =
              [b \in DOMAIN @ |-> IF b \in patch.owned THEN best[b] ELSE 0]]

Search ==
  /\ Len(frames) = Frames
  /\ Len(plr) < Frames
  /\ LET patches == frames[Len(plr) + 1]
     IN  IF Searched
         THEN \E best \in [DOMAIN patches -> Outcomes] :
                plr' = Append(plr, [j \in DOMAIN patches |->
                                      Found(patches[j], best[j])])
         ELSE plr' = Append(plr, [j \in DOMAIN patches |->
                                    Allocated(Count(patches[j].size))])
  /\ UNCHANGED <<options, frames, stream, parsed, pred, prevSize, decoded, lost>>

-----------------------------------------------------------------------------
(***************************************************************************)
(* The bits of the modes.  Up to the threshold no level is written.        *)
(***************************************************************************)
Threshold == (options.patchSize + ByteMod - 1) % ByteMod
BitsFor(range) ==
  CHOOSE n \in 0 .. range : /\ Pow2[n] >= range
                            /\ \A m \in 0 .. n - 1 : Pow2[m] < range
ModeBits == BitsFor(Modes - 1)

ModeCode(mode) == IF mode > 0 THEN <<1>> \o Field(mode - 1, ModeBits) ELSE <<0>>

PlrBits(patch, p) ==
  LET n == Count(patch.size)
      owned(b) == IF b \in patch.owned THEN p.byBlock[b] ELSE 0
  IN  (IF n > Threshold + 1 THEN <<p.level>> ELSE <<>>)
      \o (IF p.level = 1
          THEN ModeCode(p.byPatch)
          ELSE FlattenSeq([i \in 1 .. n |-> ModeCode(owned(i - 1))]))

(***************************************************************************)
(* A group of units.  A frame whose first patch has no match predicts      *)
(* nothing; the others predict the matched patches from the frame before.  *)
(***************************************************************************)
SizeOf(f, j) == frames[f][j].size
Inter(f, j) == frames[f][1].match # NoMatch /\ frames[f][j].match # NoMatch

\* A mistake: the size of every patch is a difference to the patch before.
PredictedBefore(f, j) == IF j = 1 THEN NoSize ELSE SizeOf(f, j - 1)

\* What the size of a patch is coded as a difference to.
Predicted(f, j) ==
  IF Inter(f, j) THEN SizeOf(f - 1, frames[f][j].match)
  ELSE IF j = 1 THEN NoSize ELSE SizeOf(f, j - 1)

\* The match, as a difference to the one after the match before.
Index(f, j) ==
  CASE ~Inter(f, j) -> 0
    [] Inter(f, j) /\ j = 1 -> frames[f][j].match - 1
    [] Inter(f, j) /\ j > 1 -> frames[f][j].match - frames[f][j - 1].match - 1

Unit(f, j) ==
  [inter |-> Inter(f, j), idx |-> Index(f, j),
   delta |-> Minus(SizeOf(f, j), Predicted(f, j)),
   bits |-> PlrBits(frames[f][j], plr[f][j])]

Write ==
  /\ Len(plr) = Frames
  /\ stream = <<>>
  /\ stream' = [f \in 1 .. Frames |-> [j \in DOMAIN frames[f] |-> Unit(f, j)]]
  /\ parsed' = << <<>> >>
  /\ UNCHANGED <<options, frames, plr, pred, prevSize, decoded, lost>>

-----------------------------------------------------------------------------
(***************************************************************************)
(* The parser, unit by unit.                                               *)
(***************************************************************************)
\* Bits after at, as far as they belong to the unit.
BitsAt(bits, at, n) ==
  SubSeq(bits, at + 1, IF at + n < Len(bits) THEN at + n ELSE Len(bits))

ReadMode(bits, at) ==
  LET present == Value(BitsAt(bits, at, 1)) = 1
  IN  [at |-> at + 1 + (IF present THEN ModeBits ELSE 0),
       mode |-> IF present THEN Value(BitsAt(bits, at + 1, ModeBits)) + 1 ELSE 0]

ReadModes(bits, at, n) ==
  LET read[i \in 0 .. n] ==
        IF i = 0 THEN [at |-> at, modes |-> <<>>]
        ELSE LET before == read[i - 1]
                 r == ReadMode(bits, before.at)
             IN  [at |-> r.at, modes |-> Append(before.modes, r.mode)]
  IN  read[n]

\* The data of a patch of this size, and how many bits they took.
ReadPlr(bits, size) ==
  LET n == Count(size)
      start == IF n > Threshold + 1 THEN 1 ELSE 0
      level == IF start = 1 THEN Value(BitsAt(bits, 0, 1)) ELSE 1
      read == IF level = 1 THEN ReadModes(bits, start, 1)
              ELSE ReadModes(bits, start, n)
  IN  [at |-> read.at, map |-> size, level |-> level, modes |-> read.modes]

Current == Len(parsed)
Parsing ==
  /\ parsed # <<>> /\ ~lost
  /\ Len(parsed[Current]) < Len(stream[Current])

Parse(u, size) ==
  LET read == ReadPlr(u.bits, size)
  IN  /\ lost' = (read.at # Len(u.bits))
      /\ parsed' = [parsed EXCEPT ![Current] =
                      Append(@, [inter |-> u.inter, idx |-> u.idx,
                                 delta |-> u.delta, map |-> read.map,
                                 level |-> read.level, modes |-> read.modes])]
      /\ prevSize' = size

ParseIntra ==
  /\ Parsing
  /\ LET u == stream[Current][Len(parsed[Current]) + 1]
     IN  /\ ~u.inter
         /\ Parse(u, Plus(prevSize, u.delta))
  /\ UNCHANGED <<options, frames, plr, stream, pred, decoded>>

ParseInter ==
  /\ Parsing
  /\ LET u == stream[Current][Len(parsed[Current]) + 1]
     IN  /\ u.inter
         /\ Parse(u, Plus(parsed[Current - 1][u.idx + pred + 1].map, u.delta))
         /\ pred' = pred + u.idx + 1
  /\ UNCHANGED <<options, frames, plr, stream, decoded>>

ParseEnd ==
  /\ parsed # <<>> /\ ~lost
  /\ Len(parsed[Current]) = Len(stream[Current])
  /\ Current < Frames
  /\ parsed' = Append(parsed, <<>>)
  /\ pred' = 0 /\ prevSize' = NoSize
  /\ UNCHANGED <<options, frames, plr, stream, decoded, lost>>

-----------------------------------------------------------------------------
(***************************************************************************)
(* The decoder derives the sizes once more, of the patches it rebuilds.    *)
(***************************************************************************)
DecodedPatch(u, size) ==
  LET inMap(b) == b % size[1] < u.map[1] /\ b \div size[1] < u.map[2]
      mode(b) == u.modes[(b \div size[1]) * u.map[1] + (b % size[1]) + 1]
  IN  [size |-> size, level |-> u.level,
       byPatch |-> IF u.level = 1 THEN u.modes[1] ELSE 0,
       byBlock |-> [b \in 0 .. Count(size) - 1 |->
                      IF u.level = 0 /\ inMap(b) THEN mode(b) ELSE 0]]

AddPatch(acc, u) ==
  LET before == IF u.inter THEN decoded[Len(decoded)][u.idx + acc.pred + 1].size
                ELSE acc.prevSize
      patch == DecodedPatch(u, Plus(before, u.delta))
  IN  [patches |-> Append(acc.patches, patch),
       pred |-> IF u.inter THEN acc.pred + u.idx + 1 ELSE acc.pred,
       prevSize |-> patch.size]

DecodeFrame(units) ==
  LET upTo[j \in 0 .. Len(units)] ==
        IF j = 0 THEN [patches |-> <<>>, pred |-> 0, prevSize |-> NoSize]
        ELSE AddPatch(upTo[j - 1], units[j])
  IN  upTo[Len(units)].patches

Decode ==
  /\ ~lost
  /\ Current = Frames /\ Len(parsed[Frames]) = Len(stream[Frames])
  /\ Len(decoded) < Frames
  /\ decoded' = Append(decoded, DecodeFrame(parsed[Len(decoded) + 1]))
  /\ UNCHANGED <<options, frames, plr, stream, parsed, pred, prevSize, lost>>

\* What is read after a parser got out of step is not followed any further.
Terminated == (lost \/ Len(decoded) = Frames) /\ UNCHANGED vars

Next ==
  \/ Pack \/ Search \/ Write
  \/ ParseIntra \/ ParseInter \/ ParseEnd
  \/ Decode
  \/ Terminated

Spec == Init /\ [][Next]_vars

-----------------------------------------------------------------------------
\* A patch coded block by block that is small enough to be without a level.
Ambiguous(f, j) ==
  plr[f][j].level = 0 /\ Count(SizeOf(f, j)) \in 2 .. Threshold + 1

\* The parser gets out of step at the first patch that is coded block by block
\* although its size says it is coded as a whole, and there is such a patch
\* only where the encoder did not search, as with interleaved layers, or was
\* given no size (patchSize 0, the default, is announced as 256 blocks).
OutOfStepOnlyUnsearched ==
  /\ lost = (\E f \in DOMAIN parsed : \E j \in DOMAIN parsed[f] : Ambiguous(f, j))
  /\ lost => ~Searched \/ options.patchSize = 0

\* A decoder that stays in step fills in the points of each block with the mode
\* the encoder chose for it, and stores the modes of a patch in a map of the
\* size the patch has: the predictors of the parser and of the decoder, two
\* copies of the encoder's, agree along any chain of inter patches.
ModesArrive ==
  \A f \in DOMAIN decoded :
    /\ Len(decoded[f]) = Len(frames[f])
    /\ \A j \in DOMAIN decoded[f] :
         /\ decoded[f][j].size = SizeOf(f, j)
         /\ parsed[f][j].map = SizeOf(f, j)
         /\ \A b \in frames[f][j].owned :
              ModeOf(decoded[f][j], b) = ModeOf(plr[f][j], b)
=============================================================================
