----------------------------- MODULE VpccUnits -----------------------------
(***************************************************************************)
(* The V-PCC units of one group of frames: the parameter set the encoder   *)
(* fills from its options, the videos it creates, the five units it writes *)
(* and what the decoder makes of them.  A unit header takes 32 bits in all *)
(* its variants, so only its type and identifier are kept.  Of the         *)
(* parameter set, the elements are kept that decide what else is sent or   *)
(* how clouds are rebuilt.                                                 *)
(***************************************************************************)
EXTENDS Naturals, Sequences

CONSTANTS
  ByteMod,   \* values of a uint8_t
  IdMod,     \* values of an identifier in the bitstream, u(4)
  ModeMod    \* values of plri_number_of_modes_minus1, u(4)

ASSUME WidthAssumption ==
  ByteMod \in Nat \ {0} /\ IdMod \in Nat \ {0} /\ ModeMod \in Nat \ {0}

\* Options as the command line gives them.
Options == [losslessGeo : BOOLEAN, lossyMissedPointsPatch : BOOLEAN,
            useMissedPointsSeparateVideo : BOOLEAN, oneLayerMode : BOOLEAN,
            singleLayerPixelInterleaving : BOOLEAN, absoluteD1 : BOOLEAN,
            noAttributes : BOOLEAN, nbPlrmMode : Nat]

-----------------------------------------------------------------------------
\* PCCEncoderParameters

\* A mistake: the separate video stays although nothing is missed.
CompletePathKept(o) == o

CompletePath(o) ==
  [o EXCEPT !.useMissedPointsSeparateVideo =
     @ /\ (o.lossyMissedPointsPatch \/ o.losslessGeo)]

Check(o) ==
  LET interleaved == o.singleLayerPixelInterleaving /\ ~o.losslessGeo
  IN  [o EXCEPT !.singleLayerPixelInterleaving = interleaved,
                !.oneLayerMode = (@ /\ ~o.losslessGeo) \/ interleaved]

Params == [options : Options, useAdditionalPointsPatch : BOOLEAN]
SetParameters(o) ==
  [options |-> Check(CompletePath(o)), useAdditionalPointsPatch |-> FALSE]

SequenceParameterSets ==
  [id : Nat, pcmPatch : BOOLEAN, pcmSeparateVideo : BOOLEAN,
   multipleLayerStreams : BOOLEAN, absoluteD1 : BOOLEAN, attributes : BOOLEAN,
   pixelDeinterleaving : BOOLEAN, pointLocal : BOOLEAN, modesMinus1 : Nat,
   losslessGeo : BOOLEAN]

InitializeContext(p, index) ==
  LET o == p.options
  IN  [id |-> index % ByteMod,
       pcmPatch |-> p.useAdditionalPointsPatch,
       pcmSeparateVideo |-> o.useMissedPointsSeparateVideo,
       multipleLayerStreams |-> ~o.oneLayerMode,
       absoluteD1 |-> o.absoluteD1,
       attributes |-> ~o.noAttributes,
       pixelDeinterleaving |-> o.singleLayerPixelInterleaving,
       pointLocal |-> FALSE,
       modesMinus1 |-> 0,
       losslessGeo |-> o.losslessGeo]

-----------------------------------------------------------------------------
\* PCCEncoder::encode, in its order

\* Geometry: missed points are switched on, for the parameter set too; with
\* points that lie far from the first layer (distant) the group falls back
\* to two layers.
Fallback(p, distant) == distant /\ p.options.oneLayerMode

GenerateGeometry(p, distant) ==
  LET o == p.options
  IN  [options |->
         [o EXCEPT !.oneLayerMode = @ /\ ~Fallback(p, distant),
                   !.singleLayerPixelInterleaving = @ /\ ~Fallback(p, distant)],
       useAdditionalPointsPatch |->
         p.useAdditionalPointsPatch \/ o.losslessGeo \/ o.lossyMissedPointsPatch]

GeometrySps(p, s) ==
  [s EXCEPT !.pcmPatch =
     @ \/ p.options.losslessGeo \/ p.options.lossyMissedPointsPatch]

\* A mistake: lossless missed points get no texture of their own.
CreatedVideosLossyOnly(p, s) ==
  LET missed == s.pcmPatch /\ s.pcmSeparateVideo
  IN  {"OCCUPANCY"}
      \cup (IF p.options.absoluteD1 THEN {"GEOMETRY"}
            ELSE {"GEOMETRY_D0", "GEOMETRY_D1"})
      \cup (IF missed THEN {"GEOMETRY_MP"} ELSE {})
      \cup (IF s.attributes THEN {"TEXTURE"} ELSE {})
      \cup (IF s.attributes /\ missed /\ p.options.lossyMissedPointsPatch
            THEN {"TEXTURE_MP"} ELSE {})

\* The video bitstreams created for the group.
CreatedVideos(p, s) ==
  LET o == p.options
      missed == s.pcmPatch /\ s.pcmSeparateVideo
      missedTexture == p.useAdditionalPointsPatch /\ s.pcmSeparateVideo
  IN  {"OCCUPANCY"}
      \cup (IF o.absoluteD1 THEN {"GEOMETRY"} ELSE {"GEOMETRY_D0", "GEOMETRY_D1"})
      \cup (IF missed THEN {"GEOMETRY_MP"} ELSE {})
      \cup (IF s.attributes THEN {"TEXTURE"} ELSE {})
      \cup (IF s.attributes /\ missedTexture THEN {"TEXTURE_MP"} ELSE {})

\* Images per frame in the videos of geometry (absolute) and texture.
Layers(oneLayer) == IF oneLayer THEN 1 ELSE 2

\* How the encoder rebuilds the clouds of the group, from its parameters.
EncoderReconstruction(p, s) ==
  LET o == p.options
  IN  [oneLayer |-> o.oneLayerMode,
       interleaved |-> o.singleLayerPixelInterleaving,
       absoluteD1 |-> o.absoluteD1,
       losslessGeo |-> o.losslessGeo,
       additionalPoints |-> p.useAdditionalPointsPatch,
       separateVideo |-> o.useMissedPointsSeparateVideo,
       layers |-> Layers(o.oneLayerMode),
       videos |-> CreatedVideos(p, s)]

\* A mistake: the mode is announced as it was when the group began.
PointLocalSpsAtStart(p, s) ==
  IF ~s.multipleLayerStreams
  THEN [s EXCEPT !.pointLocal = TRUE,
          !.modesMinus1 = (p.options.nbPlrmMode + ByteMod - 1) % ByteMod]
  ELSE s

\* The one layer mode is announced last, with its modes.
PointLocalSps(p, s) ==
  IF p.options.oneLayerMode
  THEN [s EXCEPT !.pointLocal = TRUE,
          !.modesMinus1 = (p.options.nbPlrmMode + ByteMod - 1) % ByteMod]
  ELSE s

-----------------------------------------------------------------------------
\* The units of a group: writer

\* Optional elements of a parameter set with these flags.
SpsElements(s) ==
  (IF s.pcmPatch THEN {"pcm_separate_video_present_flag"} ELSE {})
  \cup (IF s.pcmSeparateVideo THEN {"pcm_geometry_codec_id"} ELSE {})
  \cup (IF s.pcmSeparateVideo /\ s.attributes
        THEN {"pcm_attribute_codec_id"} ELSE {})
  \cup (IF s.pointLocal THEN {"point_local_reconstruction"} ELSE {})

\* Videos of a unit.
UnitVideos(type, s) ==
  LET missed == s.pcmPatch /\ s.pcmSeparateVideo
  IN  CASE type = "OVD" -> {"OCCUPANCY"}
        [] type = "GVD" ->
             (IF s.absoluteD1 THEN {"GEOMETRY"} ELSE {"GEOMETRY_D0", "GEOMETRY_D1"})
             \cup (IF missed THEN {"GEOMETRY_MP"} ELSE {})
        [] type = "AVD" ->
             IF ~s.attributes THEN {}
             ELSE {"TEXTURE"} \cup (IF missed THEN {"TEXTURE_MP"} ELSE {})

AllVideos(s) == UNION {UnitVideos(type, s) : type \in {"OVD", "GVD", "AVD"}}

\* The loop over the modes counts to the byte, of which u(4) is sent.
SpsUnit(s) ==
  [type |-> "SPS", elements |-> SpsElements(s),
   modes |-> IF s.pointLocal THEN s.modesMinus1 + 1 ELSE 0,
   sps |-> [s EXCEPT !.id = @ % IdMod, !.modesMinus1 = @ % ModeMod]]

PdgUnit(index, frames) ==
  [type |-> "PDG", id |-> (index % ByteMod) % IdMod, frames |-> frames]

VideoUnit(type, index, s) ==
  [type |-> type, id |-> (index % ByteMod) % IdMod, videos |-> UnitVideos(type, s)]

EncodedUnits(s, index, frames) ==
  << SpsUnit(s), PdgUnit(index, frames), VideoUnit("OVD", index, s),
     VideoUnit("GVD", index, s), VideoUnit("AVD", index, s) >>

-----------------------------------------------------------------------------
\* The units of a group: parser.  Its context starts empty for each group.

EmptyContext ==
  [state |-> "ok", sets |-> {}, id |-> 0, frames |-> <<>>, videos |-> {}]

\* getSps: the parameter set with the identifier of the last unit header.
Found(c) == \E s \in c.sets : s.id = c.id
Sps(c) == CHOOSE s \in c.sets : s.id = c.id

\* A flag that is not sent keeps the value it is constructed with.
ParsedSps(u) ==
  [u.sps EXCEPT !.pcmSeparateVideo = @ /\ u.sps.pcmPatch,
                !.modesMinus1 = IF u.sps.pointLocal THEN @ ELSE 0]

SpsInStep(u) ==
  LET s == ParsedSps(u)
  IN  /\ SpsElements(s) = u.elements
      /\ s.pointLocal => u.modes = s.modesMinus1 + 1

ReadUnit(c, u) ==
  LET addressed == [c EXCEPT !.id = u.id]
  IN  IF c.state # "ok" THEN c
      ELSE CASE u.type = "SPS" ->
                  IF SpsInStep(u) THEN [c EXCEPT !.sets = @ \cup {ParsedSps(u)}]
                  ELSE [c EXCEPT !.state = "misread"]
             [] u.type = "PDG" ->
                  IF Found(addressed) THEN [addressed EXCEPT !.frames = u.frames]
                  ELSE [addressed EXCEPT !.state = "exit"]
             [] u.type \in {"OVD", "GVD", "AVD"} ->
                  IF ~Found(addressed) /\ u.type # "OVD"
                  THEN [addressed EXCEPT !.state = "exit"]
                  ELSE LET wanted == IF u.type = "OVD" THEN {"OCCUPANCY"}
                                     ELSE UnitVideos(u.type, Sps(addressed))
                       IN  IF wanted = u.videos
                           THEN [addressed EXCEPT !.videos = @ \cup wanted]
                           ELSE [addressed EXCEPT !.state = "misread"]

-----------------------------------------------------------------------------
\* PCCDecoder::decode

LossyMissedPoints(s) == ~s.losslessGeo /\ s.pcmPatch

\* Videos decoding asks the context for; it exits when one is missing.
DecodedVideos(s) ==
  LET missed == s.pcmPatch /\ s.pcmSeparateVideo
  IN  {"OCCUPANCY"}
      \cup (IF s.absoluteD1 THEN {"GEOMETRY"} ELSE {"GEOMETRY_D0", "GEOMETRY_D1"})
      \cup (IF missed THEN {"GEOMETRY_MP"} ELSE {})
      \cup (IF s.attributes THEN {"TEXTURE"} ELSE {})
      \cup (IF s.attributes /\ missed THEN {"TEXTURE_MP"} ELSE {})

CanDecode(c) ==
  /\ Found(c)
  /\ DecodedVideos(Sps(c)) \subseteq c.videos
  /\ Sps(c).absoluteD1 \/ ~LossyMissedPoints(Sps(c))

DecoderReconstruction(s) ==
  [oneLayer |-> s.pointLocal,
   interleaved |-> s.pixelDeinterleaving,
   absoluteD1 |-> s.absoluteD1,
   losslessGeo |-> s.losslessGeo,
   additionalPoints |-> s.pcmPatch,
   separateVideo |-> s.pcmSeparateVideo,
   layers |-> Layers(s.pointLocal),
   videos |-> DecodedVideos(s)]

\* The clouds of a group: each frame, and how it was rebuilt.
Clouds(frames, how) == [i \in DOMAIN frames |-> [frame |-> frames[i], how |-> how]]
=============================================================================
