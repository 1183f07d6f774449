-------------------------- MODULE VpccStreamProofs --------------------------
(***************************************************************************)
(* The invariant of VpccStream and what follows from it, for any number of *)
(* groups and any options whose modes can be counted in the stream.        *)
(***************************************************************************)
EXTENDS VpccStream, DataLemmas

-----------------------------------------------------------------------------
(***************************************************************************)
(* One group of frames, from the options to the rebuilt clouds.            *)
(***************************************************************************)
\* A multiple of the modulus is dropped by %, and a smaller value is kept.
LEMMA ModSmall ==
  ASSUME NEW m \in Nat \ {0}, NEW k \in 0 .. m - 1
  PROVE  k % m = k /\ (k + m) % m = k
  BY SMT

\* A remainder by a positive number lies below it.
LEMMA ModRange ==
  ASSUME NEW m \in Nat \ {0}, NEW k \in Nat
  PROVE  k % m \in 0 .. m - 1
  BY SMT


-----------------------------------------------------------------------------
\* The parameter set a group is sent with.
SentSps(p, distant, index) ==
  PointLocalSps(GenerateGeometry(p, distant),
                GeometrySps(p, InitializeContext(p, index)))

\* How the encoder rebuilds the clouds of that group.
EncodedHow(p, distant, index) ==
  EncoderReconstruction(GenerateGeometry(p, distant),
                        GeometrySps(p, InitializeContext(p, index)))

\* What completePath and check leave of the options.
Settled(o) ==
  /\ o.useMissedPointsSeparateVideo => o.lossyMissedPointsPatch \/ o.losslessGeo
  /\ o.singleLayerPixelInterleaving => o.oneLayerMode

\* The modes of the one layer mode can be counted in the stream.
ModesCounted(o) == o.oneLayerMode => o.nbPlrmMode \in 1 .. ModeMod /\ o.nbPlrmMode <= ByteMod

\* Missed points are only switched on where the options ask for them.
AsksForMissed(p) ==
  p.useAdditionalPointsPatch =>
    p.options.losslessGeo \/ p.options.lossyMissedPointsPatch

\* A parameter set that survives the stream and that the decoder supports.
SpsOK(s) ==
  /\ s \in SequenceParameterSets
  /\ s.pcmSeparateVideo => s.pcmPatch
  /\ s.modesMinus1 \in 0 .. ModeMod - 1
  /\ ~s.pointLocal => s.modesMinus1 = 0
  /\ s.absoluteD1 \/ ~LossyMissedPoints(s)

\* The parameters an encoder starts with are settled: setParameters resolves the
\* combinations of options it does not take together.
LEMMA SettledParams ==
  ASSUME NEW o \in Options
  PROVE  /\ SetParameters(o) \in Params
         /\ Settled(SetParameters(o).options)
         /\ AsksForMissed(SetParameters(o))
  BY DEF Options, Params, SetParameters, Check, CompletePath, Settled, AsksForMissed

\* The parameter set initializeContext fills is well formed.
LEMMA InitialSps ==
  ASSUME NEW p \in Params, NEW index \in Nat
  PROVE  InitializeContext(p, index) \in SequenceParameterSets
  <1>1. index % ByteMod \in Nat
    BY ModRange, WidthAssumption
  <1> QED BY <1>1 DEF InitializeContext, SequenceParameterSets, Params, Options

\* So is the one a group is sent with, unless missed points are asked for in a
\* combination the encoder refuses.
LEMMA EncodedSps ==
  ASSUME NEW p \in Params, Settled(p.options), ModesCounted(p.options), AsksForMissed(p),
         p.options.absoluteD1 \/ ~p.options.lossyMissedPointsPatch,
         NEW distant \in BOOLEAN, NEW index \in Nat
  PROVE  /\ SpsOK(SentSps(p, distant, index))
         /\ SentSps(p, distant, index).id = index % ByteMod
  <1> DEFINE s == GeometrySps(p, InitializeContext(p, index))
             g == GenerateGeometry(p, distant)
             z == SentSps(p, distant, index)
  <1> DEFINE c == InitializeContext(p, index)
  <1>0. p.options \in Options /\ p.useAdditionalPointsPatch \in BOOLEAN
    BY DEF Params
  <1>c. c \in SequenceParameterSets
    BY InitialSps
  <1>d. /\ c.id = index % ByteMod
        /\ c.pcmPatch = p.useAdditionalPointsPatch
        /\ c.pcmSeparateVideo = p.options.useMissedPointsSeparateVideo
        /\ c.absoluteD1 = p.options.absoluteD1
        /\ c.pointLocal = FALSE
        /\ c.modesMinus1 = 0
        /\ c.losslessGeo = p.options.losslessGeo
    BY DEF InitializeContext
  <1> HIDE DEF c
  <1>1. /\ s \in SequenceParameterSets
        /\ s.id = index % ByteMod
        /\ s.pcmPatch = (p.options.losslessGeo \/ p.options.lossyMissedPointsPatch)
        /\ s.pcmSeparateVideo = p.options.useMissedPointsSeparateVideo
        /\ s.absoluteD1 = p.options.absoluteD1
        /\ s.pointLocal = FALSE
        /\ s.modesMinus1 = 0
        /\ s.losslessGeo = p.options.losslessGeo
    <2>1. s = [c EXCEPT !.pcmPatch = c.pcmPatch \/ p.options.losslessGeo
                                       \/ p.options.lossyMissedPointsPatch]
      BY DEF GeometrySps, c
    <2>2. (c.pcmPatch \/ p.options.losslessGeo \/ p.options.lossyMissedPointsPatch)
            = (p.options.losslessGeo \/ p.options.lossyMissedPointsPatch)
      BY <1>0, <1>d DEF AsksForMissed, Options
    <2> QED BY <1>0, <1>c, <1>d, <2>1, <2>2 DEF SequenceParameterSets, Options
  <1>2. /\ g.options \in Options
        /\ g.options.nbPlrmMode = p.options.nbPlrmMode
        /\ g.options.oneLayerMode => p.options.oneLayerMode
    BY DEF GenerateGeometry, Params, Options, Fallback
  <1>z. z = PointLocalSps(g, s)
    BY DEF SentSps
  <1> HIDE DEF s, g, z
  <1>3. CASE g.options.oneLayerMode
    <2>1. p.options.nbPlrmMode \in 1 .. ModeMod /\ p.options.nbPlrmMode - 1 \in 0 .. ByteMod - 1
      BY <1>0, <1>2, <1>3, WidthAssumption DEF ModesCounted, Options
    <2>2. (p.options.nbPlrmMode - 1 + ByteMod) % ByteMod = p.options.nbPlrmMode - 1
      BY <2>1, ModSmall, WidthAssumption
    <2>3. p.options.nbPlrmMode + ByteMod - 1 = p.options.nbPlrmMode - 1 + ByteMod
      BY <2>1, WidthAssumption
    <2>4. z = [s EXCEPT !.pointLocal = TRUE, !.modesMinus1 = p.options.nbPlrmMode - 1]
      BY <1>z, <1>2, <1>3, <2>2, <2>3 DEF PointLocalSps
    <2>5. p.options.nbPlrmMode - 1 \in 0 .. ModeMod - 1 /\ p.options.nbPlrmMode - 1 \in Nat
      BY <2>1, WidthAssumption
    <2>6. /\ z \in SequenceParameterSets
          /\ z.id = s.id /\ z.pcmPatch = s.pcmPatch
          /\ z.pcmSeparateVideo = s.pcmSeparateVideo /\ z.absoluteD1 = s.absoluteD1
          /\ z.pointLocal = TRUE /\ z.modesMinus1 = p.options.nbPlrmMode - 1
          /\ z.losslessGeo = s.losslessGeo
      BY <1>1, <2>4, <2>5 DEF SequenceParameterSets
    <2>7. /\ z.pcmSeparateVideo => z.pcmPatch
          /\ z.absoluteD1 \/ ~LossyMissedPoints(z)
      BY <1>0, <1>1, <2>6 DEF Settled, LossyMissedPoints, Options
    <2> QED BY <1>1, <2>5, <2>6, <2>7 DEF SpsOK, z
  <1>4. CASE ~g.options.oneLayerMode
    <2>1. z = s
      BY <1>z, <1>4 DEF PointLocalSps
    <2>2. /\ s.pcmSeparateVideo => s.pcmPatch
          /\ s.absoluteD1 \/ ~LossyMissedPoints(s)
      BY <1>0, <1>1 DEF Settled, LossyMissedPoints, Options
    <2>3. 0 \in 0 .. ModeMod - 1
      BY WidthAssumption
    <2> QED BY <1>1, <2>1, <2>2, <2>3 DEF SpsOK, z
  <1> QED BY <1>3, <1>4

-----------------------------------------------------------------------------
\* What the parser keeps of a parameter set, and the five stages of its
\* context while it reads the units of one group.
KeptSps(s) == [s EXCEPT !.id = s.id % IdMod]

Context(sets, id, frames, videos) ==
  [state |-> "ok", sets |-> sets, id |-> id, frames |-> frames, videos |-> videos]

ContextAfter(n, s, index, frames) ==
  Context(IF n >= 1 THEN {KeptSps(s)} ELSE {},
          IF n >= 2 THEN (index % ByteMod) % IdMod ELSE 0,
          IF n >= 2 THEN frames ELSE <<>>,
          IF n <= 2 THEN {}
          ELSE IF n = 3 THEN {"OCCUPANCY"}
          ELSE IF n = 4 THEN {"OCCUPANCY"} \cup UnitVideos("GVD", s)
          ELSE {"OCCUPANCY"} \cup UnitVideos("GVD", s) \cup UnitVideos("AVD", s))

WithSets(c, sets) == [c EXCEPT !.sets = sets]
WithId(c, id) == [c EXCEPT !.id = id]
WithFrames(c, frames) == [c EXCEPT !.frames = frames]
WithVideos(c, videos) == [c EXCEPT !.videos = videos]

\* What each unit changes in the decoder's context.
LEMMA ContextUpdates ==
  ASSUME NEW sets, NEW id, NEW frames, NEW videos, NEW x
  PROVE  /\ WithSets(Context(sets, id, frames, videos), x) = Context(x, id, frames, videos)
         /\ WithId(Context(sets, id, frames, videos), x) = Context(sets, x, frames, videos)
         /\ WithFrames(Context(sets, id, frames, videos), x) = Context(sets, id, x, videos)
         /\ WithVideos(Context(sets, id, frames, videos), x) = Context(sets, id, frames, x)
  BY DEF Context, WithSets, WithId, WithFrames, WithVideos

\* What survives the coding of a parameter set.
LEMMA KeptFields ==
  ASSUME NEW s \in SequenceParameterSets
  PROVE  LET k == KeptSps(s)
         IN  /\ k \in SequenceParameterSets
             /\ k.id = s.id % IdMod
             /\ k.pcmPatch = s.pcmPatch
             /\ k.pcmSeparateVideo = s.pcmSeparateVideo
             /\ k.multipleLayerStreams = s.multipleLayerStreams
             /\ k.absoluteD1 = s.absoluteD1
             /\ k.attributes = s.attributes
             /\ k.pixelDeinterleaving = s.pixelDeinterleaving
             /\ k.pointLocal = s.pointLocal
             /\ k.modesMinus1 = s.modesMinus1
             /\ k.losslessGeo = s.losslessGeo
  <1>1. s.id % IdMod \in Nat
    BY ModRange, WidthAssumption DEF SequenceParameterSets
  <1> QED BY <1>1 DEF KeptSps, SequenceParameterSets

\* The unit of a well-formed parameter set carries what is kept of it.
LEMMA SpsSent ==
  ASSUME NEW s, SpsOK(s)
  PROVE  SpsUnit(s).sps = KeptSps(s)
  <1>1. s.modesMinus1 % ModeMod = s.modesMinus1
    BY ModSmall, WidthAssumption DEF SpsOK
  <1> QED BY <1>1 DEF SpsUnit, KeptSps, SequenceParameterSets, SpsOK

\* The parser reads the parameter set back, in step with the writer.
LEMMA SpsRead ==
  ASSUME NEW s, SpsOK(s)
  PROVE  ParsedSps(SpsUnit(s)) = KeptSps(s) /\ SpsInStep(SpsUnit(s))
  <1>0. s \in SequenceParameterSets
    BY DEF SpsOK
  <1>2. SpsUnit(s).sps = KeptSps(s)
    BY SpsSent
  <1>3. /\ SpsUnit(s).elements = SpsElements(s)
        /\ SpsUnit(s).modes = IF s.pointLocal THEN s.modesMinus1 + 1 ELSE 0
    BY DEF SpsUnit
  <1>4. ParsedSps(SpsUnit(s)) = KeptSps(s)
    <2> DEFINE k == KeptSps(s)
    <2>1. /\ (k.pcmSeparateVideo /\ k.pcmPatch) = k.pcmSeparateVideo
          /\ (IF k.pointLocal THEN k.modesMinus1 ELSE 0) = k.modesMinus1
      BY <1>0, KeptFields DEF SpsOK, SequenceParameterSets
    <2>2. k \in SequenceParameterSets
      BY <1>0, KeptFields
    <2> HIDE DEF k
    <2>3. [k EXCEPT !.pcmSeparateVideo = k.pcmSeparateVideo /\ k.pcmPatch,
                    !.modesMinus1 = IF k.pointLocal THEN k.modesMinus1 ELSE 0] = k
      BY <2>1, <2>2 DEF SequenceParameterSets
    <2> QED BY <1>2, <2>3 DEF ParsedSps, k
  <1>5. SpsElements(KeptSps(s)) = SpsElements(s)
    BY <1>0, KeptFields DEF SpsElements
  <1>6. KeptSps(s).pointLocal = s.pointLocal /\ KeptSps(s).modesMinus1 = s.modesMinus1
    BY <1>0, KeptFields
  <1> QED BY <1>3, <1>4, <1>5, <1>6 DEF SpsInStep

\* With one parameter set the identifier of the units finds it.
LEMMA FindsSps ==
  ASSUME NEW s, s \in SequenceParameterSets,
         NEW index \in Nat, s.id = index % ByteMod,
         NEW c, c.sets = {KeptSps(s)}, c.id = (index % ByteMod) % IdMod
  PROVE  Found(c) /\ Sps(c) = KeptSps(s)
  <1>1. KeptSps(s).id = c.id
    BY KeptFields
  <1> QED BY <1>1 DEF Found, Sps

\* What is kept of a parameter set decides the videos and how clouds are rebuilt.
LEMMA SameVideos ==
  ASSUME NEW s \in SequenceParameterSets
  PROVE  /\ \A type : UnitVideos(type, KeptSps(s)) = UnitVideos(type, s)
         /\ DecodedVideos(KeptSps(s)) = DecodedVideos(s)
         /\ DecoderReconstruction(KeptSps(s)) = DecoderReconstruction(s)
  <1>1. \A type : UnitVideos(type, KeptSps(s)) = UnitVideos(type, s)
    BY KeptFields, Zenon DEF UnitVideos
  <1>2. DecodedVideos(KeptSps(s)) = DecodedVideos(s)
    BY KeptFields, Zenon DEF DecodedVideos
  <1>3. DecoderReconstruction(KeptSps(s)) = DecoderReconstruction(s)
    BY <1>2, KeptFields, Zenon DEF DecoderReconstruction
  <1> QED BY <1>1, <1>2, <1>3

\* Each unit takes the parser's context to its next stage.
LEMMA ReadStep ==
  ASSUME NEW s, SpsOK(s),
         NEW index \in Nat, s.id = index % ByteMod,
         NEW frames,
         NEW n \in 0 .. 4
  PROVE  ReadUnit(ContextAfter(n, s, index, frames), EncodedUnits(s, index, frames)[n + 1])
           = ContextAfter(n + 1, s, index, frames)
  <1> DEFINE u == EncodedUnits(s, index, frames)[n + 1]
             id == (index % ByteMod) % IdMod
             set == {KeptSps(s)}
             occupancy == {"OCCUPANCY"}
             geometry == occupancy \cup UnitVideos("GVD", s)
  <1>0. s \in SequenceParameterSets
    BY DEF SpsOK
  <1>1. CASE n = 0
    <2>1. u = SpsUnit(s) /\ u.type = "SPS"
      BY <1>1 DEF EncodedUnits, SpsUnit
    <2> DEFINE c == Context({}, 0, <<>>, {})
    <2>2. c.state = "ok" /\ c.sets = {} /\ {} \cup set = set
      BY DEF Context
    <2> HIDE DEF u, set
    <2>3. WithSets(c, set) = Context(set, 0, <<>>, {})
      BY ContextUpdates
    <2> HIDE DEF c
    <2>4. ReadUnit(c, u) = WithSets(c, set)
      <3>1. SpsInStep(u) /\ {ParsedSps(u)} = set
        BY <2>1, SpsRead DEF set
      <3>2. ReadUnit(c, u) = WithSets(c, c.sets \cup {ParsedSps(u)})
        BY <2>1, <2>2, <3>1 DEF ReadUnit, WithSets
      <3> QED BY <2>2, <3>1, <3>2
    <2>5. /\ ContextAfter(0, s, index, frames) = Context({}, 0, <<>>, {})
          /\ ContextAfter(1, s, index, frames) = Context(set, 0, <<>>, {})
      BY DEF ContextAfter, set
    <2> QED BY <1>1, <2>3, <2>4, <2>5 DEF c, u
  <1>2. ASSUME NEW oldId, NEW oldFrames, NEW videos
        PROVE  LET a == WithId(Context(set, oldId, oldFrames, videos), id)
               IN  a = Context(set, id, oldFrames, videos) /\ Found(a) /\ Sps(a) = KeptSps(s)
    <2> DEFINE a == Context(set, id, oldFrames, videos)
    <2>1. a.sets = set /\ a.id = id
      BY DEF Context
    <2>2. Found(a) /\ Sps(a) = KeptSps(s)
      <3> HIDE DEF a
      <3> QED BY <1>0, <2>1, FindsSps
    <2> HIDE DEF id, set
    <2>3. WithId(Context(set, oldId, oldFrames, videos), id) = a
      BY ContextUpdates
    <2> HIDE DEF a
    <2> QED BY <2>2, <2>3 DEF a
  <1>3. CASE n = 1
    <2>1. u = PdgUnit(index, frames) /\ u.type = "PDG" /\ u.id = id /\ u.frames = frames
      BY <1>3 DEF EncodedUnits, PdgUnit
    <2> HIDE DEF u, id, set
    <2> DEFINE c == Context(set, 0, <<>>, {})
               a == Context(set, id, <<>>, {})
    <2>2. WithFrames(a, frames) = Context(set, id, frames, {})
      BY ContextUpdates
    <2>3. WithId(c, id) = a /\ Found(a)
      BY <1>2
    <2>s. c.state = "ok"
      BY DEF Context
    <2> HIDE DEF c, a
    <2>4. ReadUnit(c, u) = WithFrames(a, frames)
      BY <2>1, <2>3, <2>s DEF ReadUnit, WithId, WithFrames
    <2>5. /\ ContextAfter(1, s, index, frames) = Context(set, 0, <<>>, {})
          /\ ContextAfter(2, s, index, frames) = Context(set, id, frames, {})
      BY DEF ContextAfter, set, id
    <2> QED BY <1>3, <2>2, <2>4, <2>5 DEF u, c
  <1>4. ASSUME NEW type \in {"OVD", "GVD", "AVD"}, u = VideoUnit(type, index, s), NEW videos
        PROVE  ReadUnit(Context(set, id, frames, videos), u)
                 = Context(set, id, frames, videos \cup UnitVideos(type, s))
    <2> DEFINE c == Context(set, id, frames, videos)
    <2>1. u.type = type /\ u.id = id /\ u.videos = UnitVideos(type, s)
      BY <1>4 DEF VideoUnit
    <2>2. UnitVideos("OVD", s) = {"OCCUPANCY"}
      BY DEF UnitVideos
    <2>3. UnitVideos(type, KeptSps(s)) = UnitVideos(type, s)
      BY <1>0, SameVideos
    <2>4. c.state = "ok" /\ c.videos = videos
      BY DEF Context
    <2> HIDE DEF u, id, set
    <2>5. WithId(c, id) = c /\ Found(c) /\ Sps(c) = KeptSps(s)
      BY <1>2
    <2>6. WithVideos(c, videos \cup UnitVideos(type, s))
            = Context(set, id, frames, videos \cup UnitVideos(type, s))
      BY ContextUpdates
    <2> HIDE DEF c
    <2>7. ReadUnit(c, u) = WithVideos(c, videos \cup UnitVideos(type, s))
      BY <2>1, <2>2, <2>3, <2>4, <2>5 DEF ReadUnit, WithId, WithVideos
    <2> QED BY <2>6, <2>7 DEF c
  <1>5. CASE n = 2
    <2>1. u = VideoUnit("OVD", index, s)
      BY <1>5 DEF EncodedUnits
    <2>2. {} \cup UnitVideos("OVD", s) = occupancy
      BY DEF UnitVideos
    <2>3. /\ ContextAfter(2, s, index, frames) = Context(set, id, frames, {})
          /\ ContextAfter(3, s, index, frames) = Context(set, id, frames, occupancy)
      BY DEF ContextAfter
    <2> HIDE DEF id, set, occupancy
    <2> QED BY <1>4, <1>5, <2>1, <2>2, <2>3
  <1>6. CASE n = 3
    <2>1. u = VideoUnit("GVD", index, s)
      BY <1>6 DEF EncodedUnits
    <2>2. /\ ContextAfter(3, s, index, frames) = Context(set, id, frames, occupancy)
          /\ ContextAfter(4, s, index, frames) = Context(set, id, frames, geometry)
      BY DEF ContextAfter
    <2> HIDE DEF id, set, occupancy
    <2> QED BY <1>4, <1>6, <2>1, <2>2
  <1>7. CASE n = 4
    <2>1. u = VideoUnit("AVD", index, s)
      BY <1>7 DEF EncodedUnits
    <2>2. /\ ContextAfter(4, s, index, frames) = Context(set, id, frames, geometry)
          /\ ContextAfter(5, s, index, frames)
                = Context(set, id, frames, geometry \cup UnitVideos("AVD", s))
      BY DEF ContextAfter
    <2> HIDE DEF id, set, geometry
    <2> QED BY <1>4, <1>7, <2>1, <2>2
  <1> QED BY <1>1, <1>3, <1>5, <1>6, <1>7

\* After the five units the group can be decoded, from its own parameter set
\* and with every video decoding asks for.
LEMMA DecodeStep ==
  ASSUME NEW s, SpsOK(s),
         NEW index \in Nat, s.id = index % ByteMod,
         NEW frames
  PROVE  LET c == ContextAfter(5, s, index, frames)
         IN  /\ CanDecode(c)
             /\ c.frames = frames
             /\ DecoderReconstruction(Sps(c)) = DecoderReconstruction(s)
  <1> DEFINE c == ContextAfter(5, s, index, frames)
  <1>0. s \in SequenceParameterSets
    BY DEF SpsOK
  <1>1. /\ c.sets = {KeptSps(s)} /\ c.id = (index % ByteMod) % IdMod
        /\ c.frames = frames
        /\ c.videos = {"OCCUPANCY"} \cup UnitVideos("GVD", s) \cup UnitVideos("AVD", s)
    BY DEF ContextAfter, Context
  <1>2. DecodedVideos(s) \subseteq c.videos
    BY <1>1 DEF DecodedVideos, UnitVideos
  <1> HIDE DEF c
  <1>3. Found(c) /\ Sps(c) = KeptSps(s)
    BY <1>0, <1>1, FindsSps
  <1>4. /\ DecodedVideos(KeptSps(s)) = DecodedVideos(s)
        /\ DecoderReconstruction(KeptSps(s)) = DecoderReconstruction(s)
    BY <1>0, SameVideos
  <1>5. KeptSps(s).absoluteD1 \/ ~LossyMissedPoints(KeptSps(s))
    BY <1>0, KeptFields DEF SpsOK, LossyMissedPoints
  <1> QED BY <1>1, <1>2, <1>3, <1>4, <1>5 DEF CanDecode, c

-----------------------------------------------------------------------------
\* What the two sides know of a group.
LEMMA SentFields ==
  ASSUME NEW p \in Params, NEW distant \in BOOLEAN, NEW index \in Nat
  PROVE  LET g == GenerateGeometry(p, distant)
             s == GeometrySps(p, InitializeContext(p, index))
             z == SentSps(p, distant, index)
         IN  /\ z.pcmPatch = s.pcmPatch /\ s.pcmPatch = g.useAdditionalPointsPatch
             /\ z.pcmSeparateVideo = s.pcmSeparateVideo
             /\ s.pcmSeparateVideo = g.options.useMissedPointsSeparateVideo
             /\ z.absoluteD1 = g.options.absoluteD1
             /\ z.attributes = s.attributes
             /\ z.losslessGeo = g.options.losslessGeo
             /\ z.pointLocal = g.options.oneLayerMode
             /\ z.pixelDeinterleaving = p.options.singleLayerPixelInterleaving
  <1> DEFINE g == GenerateGeometry(p, distant)
             c == InitializeContext(p, index)
             s == GeometrySps(p, c)
             z == SentSps(p, distant, index)
  <1>1. p.options \in Options /\ p.useAdditionalPointsPatch \in BOOLEAN
    BY DEF Params
  <1>2. /\ c \in SequenceParameterSets
        /\ c.pcmPatch = p.useAdditionalPointsPatch
        /\ c.pcmSeparateVideo = p.options.useMissedPointsSeparateVideo
        /\ c.absoluteD1 = p.options.absoluteD1
        /\ c.pixelDeinterleaving = p.options.singleLayerPixelInterleaving
        /\ c.pointLocal = FALSE
        /\ c.losslessGeo = p.options.losslessGeo
    BY InitialSps DEF InitializeContext
  <1> HIDE DEF c
  <1>3. /\ s \in SequenceParameterSets
        /\ s.pcmPatch = (p.useAdditionalPointsPatch \/ p.options.losslessGeo
                           \/ p.options.lossyMissedPointsPatch)
        /\ s.pcmSeparateVideo = p.options.useMissedPointsSeparateVideo
        /\ s.absoluteD1 = p.options.absoluteD1
        /\ s.pixelDeinterleaving = p.options.singleLayerPixelInterleaving
        /\ s.pointLocal = FALSE
        /\ s.losslessGeo = p.options.losslessGeo
    BY <1>1, <1>2 DEF GeometrySps, SequenceParameterSets, Options
  <1>4. /\ g.useAdditionalPointsPatch = (p.useAdditionalPointsPatch \/ p.options.losslessGeo
                                            \/ p.options.lossyMissedPointsPatch)
        /\ g.options.useMissedPointsSeparateVideo = p.options.useMissedPointsSeparateVideo
        /\ g.options.absoluteD1 = p.options.absoluteD1
        /\ g.options.losslessGeo = p.options.losslessGeo
        /\ g.options.oneLayerMode \in BOOLEAN
    BY <1>1 DEF GenerateGeometry, Options, Fallback
  <1>z. z = PointLocalSps(g, s)
    BY DEF SentSps, c
  <1> HIDE DEF g, s, z
  <1>5. /\ z.pcmPatch = s.pcmPatch
        /\ z.pcmSeparateVideo = s.pcmSeparateVideo
        /\ z.absoluteD1 = s.absoluteD1
        /\ z.attributes = s.attributes
        /\ z.losslessGeo = s.losslessGeo
        /\ z.pointLocal = g.options.oneLayerMode
        /\ z.pixelDeinterleaving = s.pixelDeinterleaving
    BY <1>z, <1>3, <1>4 DEF PointLocalSps, SequenceParameterSets
  <1> QED BY <1>3, <1>4, <1>5 DEF g, s, z, c

\* The encoder has created every video its units ask for.
LEMMA VideosCreated ==
  ASSUME NEW p \in Params, NEW distant \in BOOLEAN, NEW index \in Nat
  PROVE  AllVideos(SentSps(p, distant, index))
           \subseteq CreatedVideos(GenerateGeometry(p, distant),
                                   GeometrySps(p, InitializeContext(p, index)))
  <1> DEFINE g == GenerateGeometry(p, distant)
             s == GeometrySps(p, InitializeContext(p, index))
             z == SentSps(p, distant, index)
  <1>1. /\ z.pcmPatch = s.pcmPatch /\ s.pcmPatch = g.useAdditionalPointsPatch
        /\ z.pcmSeparateVideo = s.pcmSeparateVideo
        /\ z.absoluteD1 = g.options.absoluteD1
        /\ z.attributes = s.attributes
    BY SentFields
  <1> HIDE DEF g, s, z
  <1>2. AllVideos(z) = UnitVideos("OVD", z) \cup UnitVideos("GVD", z) \cup UnitVideos("AVD", z)
    BY DEF AllVideos
  <1>3. UnitVideos("OVD", z) \subseteq CreatedVideos(g, s)
    BY DEF UnitVideos, CreatedVideos
  <1>4. UnitVideos("GVD", z) \subseteq CreatedVideos(g, s)
    BY <1>1 DEF UnitVideos, CreatedVideos
  <1>5. UnitVideos("AVD", z) \subseteq CreatedVideos(g, s)
    BY <1>1 DEF UnitVideos, CreatedVideos
  <1> QED BY <1>2, <1>3, <1>4, <1>5 DEF g, s, z

\* Both sides rebuild the clouds of a group alike, unless it fell back.
LEMMA SameHow ==
  ASSUME NEW p \in Params, NEW distant \in BOOLEAN, NEW index \in Nat
  PROVE  LET rec == EncodedHow(p, distant, index)
             dec == DecoderReconstruction(SentSps(p, distant, index))
         IN  \/ dec = rec
             \/ /\ p.options.singleLayerPixelInterleaving
                /\ ~rec.oneLayer
                /\ dec = [rec EXCEPT !.interleaved = TRUE]
  <1> DEFINE g == GenerateGeometry(p, distant)
             s == GeometrySps(p, InitializeContext(p, index))
             z == SentSps(p, distant, index)
             rec == EncoderReconstruction(g, s)
             dec == DecoderReconstruction(z)
  <1>1. /\ z.pcmPatch = s.pcmPatch /\ s.pcmPatch = g.useAdditionalPointsPatch
        /\ z.pcmSeparateVideo = s.pcmSeparateVideo
        /\ s.pcmSeparateVideo = g.options.useMissedPointsSeparateVideo
        /\ z.absoluteD1 = g.options.absoluteD1
        /\ z.attributes = s.attributes
        /\ z.losslessGeo = g.options.losslessGeo
        /\ z.pointLocal = g.options.oneLayerMode
        /\ z.pixelDeinterleaving = p.options.singleLayerPixelInterleaving
    BY SentFields
  <1>2. /\ p.options.singleLayerPixelInterleaving \in BOOLEAN
        /\ g.options.oneLayerMode = (p.options.oneLayerMode /\ ~Fallback(p, distant))
        /\ g.options.singleLayerPixelInterleaving
              = (p.options.singleLayerPixelInterleaving /\ ~Fallback(p, distant))
    BY DEF GenerateGeometry, Params, Options, Fallback
  <1> HIDE DEF g, s, z
  <1>3. CreatedVideos(g, s) = DecodedVideos(z)
    BY <1>1 DEF CreatedVideos, DecodedVideos
  <1>4. dec = [rec EXCEPT !.interleaved = p.options.singleLayerPixelInterleaving]
    BY <1>1, <1>3 DEF DecoderReconstruction, EncoderReconstruction
  <1>5. /\ rec.interleaved = g.options.singleLayerPixelInterleaving
        /\ rec.oneLayer = g.options.oneLayerMode
        /\ rec = [rec EXCEPT !.interleaved = rec.interleaved]
    BY DEF EncoderReconstruction
  <1>6. rec = EncodedHow(p, distant, index)
    BY DEF EncodedHow, g, s
  <1> HIDE DEF rec, dec
  <1>7. CASE Fallback(p, distant)
    BY <1>2, <1>4, <1>5, <1>6, <1>7 DEF dec, z
  <1>8. CASE ~Fallback(p, distant)
    <2>1. rec.interleaved = p.options.singleLayerPixelInterleaving
      BY <1>2, <1>5, <1>8
    <2> QED BY <1>4, <1>5, <1>6, <2>1 DEF dec, z
  <1> QED BY <1>7, <1>8

-----------------------------------------------------------------------------
(***************************************************************************)
(* The stream.                                                             *)
(***************************************************************************)
\* Options that the 4 bits of plri_number_of_modes_minus1 can announce.  0,
\* the default number of modes, is not one of them (PCCEncoder.cpp:4802).
ModesFit == \A o \in OptionSet : ModesCounted(SetParameters(o).options)

-----------------------------------------------------------------------------
\* The numbers and sequences the model is built from.
LEMMA GroupEndBounds ==
  ASSUME next \in Nat, next < FrameCount
  PROVE  GroupEnd \in next + 1 .. FrameCount
  <1> DEFINE M == Max({1, GroupSize})
  <1>1. FrameCount \in Nat /\ GroupSize \in Nat
    BY StreamAssumption
  <1>2. M \in {1, GroupSize} /\ M >= 1
    BY <1>1 DEF Max
  <1> HIDE DEF M
  <1>3. GroupEnd \in {next + M, FrameCount} /\ GroupEnd <= FrameCount
    BY <1>1, <1>2 DEF GroupEnd, Min, M
  <1> QED BY <1>1, <1>2, <1>3

\* A function on 1 .. n is a sequence of length n.
LEMMA FunctionSeq ==
  ASSUME NEW S, NEW n \in Nat, NEW f \in [1 .. n -> S]
  PROVE  f \in Seq(S) /\ Len(f) = n
  OBVIOUS

\* Clouds gives each frame of a group its cloud, all rebuilt the same way.
LEMMA CloudFacts ==
  ASSUME NEW frames \in Seq(Nat), NEW how
  PROVE  LET c == Clouds(frames, how)
         IN  /\ Len(c) = Len(frames) /\ DOMAIN c = 1 .. Len(frames)
             /\ \A i \in 1 .. Len(frames) : c[i].frame = frames[i] /\ c[i].how = how
             /\ c \in Seq([frame : Nat, how : {how}])
  <1>1. Clouds(frames, how) = [i \in 1 .. Len(frames) |-> [frame |-> frames[i], how |-> how]]
    BY DEF Clouds
  <1>2. Len(frames) \in Nat /\ \A i \in 1 .. Len(frames) : frames[i] \in Nat
    OBVIOUS
  <1> DEFINE c == Clouds(frames, how)
  <1>3. DOMAIN c = 1 .. Len(frames)
    BY <1>1
  <1>4. \A i \in 1 .. Len(frames) :
          c[i] = [frame |-> frames[i], how |-> how] /\ c[i] \in [frame : Nat, how : {how}]
    BY <1>1, <1>2
  <1>5. c \in [1 .. Len(frames) -> [frame : Nat, how : {how}]]
    BY <1>1, <1>3, <1>4
  <1>6. c \in Seq([frame : Nat, how : {how}]) /\ Len(c) = Len(frames)
    <2> DEFINE S == [frame : Nat, how : {how}]
    <2>1. c \in [1 .. Len(frames) -> S]
      BY <1>5
    <2> HIDE DEF c, S
    <2>2. c \in Seq(S) /\ Len(c) = Len(frames)
      BY <1>2, <2>1, FunctionSeq
    <2> QED BY <2>2 DEF S, c
  <1> QED BY <1>3, <1>4, <1>6

\* The frames from a to b - 1 are a sequence of that length.
LEMMA RangeSeq ==
  ASSUME NEW a \in Nat, NEW b \in Nat, a <= b
  PROVE  LET f == [i \in 1 .. b - a |-> a + i - 1]
         IN  f \in Seq(Nat) /\ Len(f) = b - a
  BY SMT

\* The first unit of a group carries the parameter set, the second the frames.
LEMMA UnitFacts ==
  ASSUME NEW s, NEW index, NEW frames
  PROVE  /\ EncodedUnits(s, index, frames)[1] = SpsUnit(s)
         /\ EncodedUnits(s, index, frames)[2].frames = frames
  BY DEF EncodedUnits, PdgUnit

\* The parameters an encoder object keeps: the options it was given.
LEMMA RestoredOptions ==
  ASSUME NEW p \in Params, AsksForMissed(p), NEW distant \in BOOLEAN
  PROVE  LET r == RestoredParams(GenerateGeometry(p, distant), p)
         IN  r \in Params /\ r.options = p.options /\ AsksForMissed(r)
  <1> DEFINE g == GenerateGeometry(p, distant)
             r == RestoredParams(g, p)
  <1>1. p.options \in Options /\ p.useAdditionalPointsPatch \in BOOLEAN
    BY DEF Params
  <1>2. /\ g \in Params
        /\ g.options = [p.options EXCEPT
             !.oneLayerMode = p.options.oneLayerMode /\ ~Fallback(p, distant),
             !.singleLayerPixelInterleaving =
               p.options.singleLayerPixelInterleaving /\ ~Fallback(p, distant)]
        /\ g.useAdditionalPointsPatch
             = (p.useAdditionalPointsPatch \/ p.options.losslessGeo
                  \/ p.options.lossyMissedPointsPatch)
    BY <1>1 DEF GenerateGeometry, Params, Options, Fallback
  <1> HIDE DEF g
  <1>3. r.options = p.options
    <2>1. r.options = [g.options EXCEPT !.oneLayerMode = p.options.oneLayerMode,
                         !.singleLayerPixelInterleaving =
                            p.options.singleLayerPixelInterleaving]
      BY <1>2 DEF RestoredParams, Params
    <2> QED BY <1>1, <1>2, <2>1 DEF Options
  <1>4. r.useAdditionalPointsPatch = g.useAdditionalPointsPatch
    BY <1>2 DEF RestoredParams, Params
  <1>5. r \in Params
    BY <1>1, <1>2, <1>3 DEF RestoredParams, Params, Options
  <1>6. AsksForMissed(r)
    <2> HIDE DEF r
    <2> QED BY <1>1, <1>2, <1>3, <1>4 DEF AsksForMissed
  <1> QED BY <1>3, <1>5, <1>6 DEF g

-----------------------------------------------------------------------------
\* The invariant.  A group in the stream is a function of the parameters it
\* was encoded with, and the decoder's state one of the group it reads.

Groups == {EncodedUnits(s, index, frames) :
             s \in SequenceParameterSets, index \in Nat, frames \in Seq(Nat)}
Rebuilt == {EncoderReconstruction(p, s) : p \in Params, s \in SequenceParameterSets}
           \cup {DecoderReconstruction(s) : s \in SequenceParameterSets}
CloudLists == {Clouds(frames, how) : frames \in Seq(Nat), how \in Rebuilt}

\* The frames of group g, and the first of them; after the last group, the
\* frame the encoder will go on with.
FramesOf(g) == stream[g][2].frames
FirstOf(g) == IF g <= Len(stream) THEN FramesOf(g)[1] ELSE next

Coded(g, s) ==
  /\ SpsOK(s)
  /\ s.id = (g - 1) % ByteMod
  /\ stream[g] = EncodedUnits(s, g - 1, FramesOf(g))

FramesOK(g) ==
  /\ FirstOf(g) \in Nat /\ FirstOf(g + 1) \in Nat
  /\ FirstOf(g) < FirstOf(g + 1) /\ FirstOf(g + 1) <= next
  /\ FramesOf(g) = [i \in 1 .. FirstOf(g + 1) - FirstOf(g) |-> FirstOf(g) + i - 1]

CodedOK(g) ==
  \E p \in Params, distant \in BOOLEAN :
    /\ p.options = params.options
    /\ Coded(g, SentSps(p, distant, g - 1))
    /\ recs[g] = Clouds(FramesOf(g), EncodedHow(p, distant, g - 1))

ParamsInv ==
  /\ params \in Params
  /\ Settled(params.options) /\ ModesCounted(params.options)
  /\ AsksForMissed(params)

SourcesInv ==
  /\ encState \in States
  /\ IF encState = "encode"
     THEN next < FrameCount /\ sources = [i \in 1 .. GroupEnd - next |-> next + i - 1]
     ELSE sources = <<>>
  /\ encState = "exit" => /\ ~params.options.absoluteD1
                          /\ params.options.lossyMissedPointsPatch

GroupsInv ==
  /\ next \in 0 .. FrameCount
  /\ stream \in Seq(Groups) /\ recs \in Seq(CloudLists) /\ Len(stream) = Len(recs)
  /\ FirstOf(1) = 0
  /\ \A g \in 1 .. Len(stream) : FramesOK(g) /\ CodedOK(g)

FileInv ==
  /\ file \in {<<>>, stream}
  /\ ~EncoderEnded => file = <<>> /\ decState = "off"
  /\ file # <<>> => next = FrameCount

ContextInv ==
  /\ unit \in 0 .. 5
  /\ IF unit = 0 THEN context = EmptyContext
     ELSE /\ pos < Len(file)
          /\ \E s : /\ Coded(pos + 1, s)
                    /\ context = ContextAfter(unit, s, pos, FramesOf(pos + 1))

DecoderInv ==
  /\ decState \in {"off", "read", "write", "done", "failed"}
  /\ pos \in 0 .. Len(file)
  /\ decs \in Seq(CloudLists) /\ Len(decs) = pos
  /\ decState = "off" => pos = 0 /\ unit = 0
  /\ decState = "write" => pos > 0 /\ unit = 0
  /\ \A g \in 1 .. pos :
       decs[g] = Clouds(FramesOf(g), DecoderReconstruction(stream[g][1].sps))

Inv == /\ ParamsInv /\ SourcesInv /\ GroupsInv /\ FileInv /\ ContextInv /\ DecoderInv

-----------------------------------------------------------------------------
\* Every option set whose modes can be counted starts the programs within Inv.
LEMMA InitInv ==
  ASSUME ModesFit, Init
  PROVE  Inv
  <1>1. PICK o \in OptionSet : params = SetParameters(o)
    BY DEF Init
  <1>2. o \in Options
    BY StreamAssumption
  <1>3. ParamsInv
    BY <1>1, <1>2, SettledParams DEF ModesFit, ParamsInv
  <1>4. /\ next = 0 /\ sources = <<>> /\ stream = <<>> /\ recs = <<>>
        /\ encState = "load" /\ file = <<>>
        /\ pos = 0 /\ unit = 0 /\ context = EmptyContext /\ decs = <<>> /\ decState = "off"
    BY DEF Init
  <1>5. SourcesInv
    BY <1>4 DEF SourcesInv, States
  <1>6. GroupsInv
    BY <1>4, StreamAssumption DEF GroupsInv, FirstOf
  <1>7. FileInv
    BY <1>4 DEF FileInv
  <1>8. ContextInv
    BY <1>4 DEF ContextInv
  <1>9. DecoderInv
    BY <1>4 DEF DecoderInv
  <1> QED BY <1>3, <1>5, <1>6, <1>7, <1>8, <1>9 DEF Inv

\* The frames of a coded group, and how many they are.
LEMMA FramesAreSeq ==
  ASSUME NEW g, FramesOK(g)
  PROVE  FramesOf(g) \in Seq(Nat) /\ Len(FramesOf(g)) = FirstOf(g + 1) - FirstOf(g)
  <1> DEFINE a == FirstOf(g)
             b == FirstOf(g + 1)
  <1>1. /\ a \in Nat /\ b \in Nat /\ a <= b
        /\ FramesOf(g) = [i \in 1 .. b - a |-> a + i - 1]
    BY DEF FramesOK
  <1> HIDE DEF a, b
  <1>2. FramesOf(g) \in Seq(Nat) /\ Len(FramesOf(g)) = b - a
    BY <1>1, RangeSeq
  <1> QED BY <1>2 DEF a, b

\* What is said of the groups depends on four variables only.
LEMMA GroupsUnchanged ==
  ASSUME GroupsInv, UNCHANGED <<params, next, stream, recs>>
  PROVE  GroupsInv'
  BY DEF GroupsInv, FirstOf, FramesOf, FramesOK, CodedOK, Coded

\* What a step of the decoder leaves alone.
LEMMA EncoderUnchanged ==
  ASSUME Inv, EncoderEnded, UNCHANGED encVars
  PROVE  ParamsInv' /\ SourcesInv' /\ GroupsInv' /\ FileInv'
  <1>1. ParamsInv'
    BY DEF Inv, ParamsInv, encVars
  <1>2. SourcesInv'
    BY DEF Inv, SourcesInv, encVars, EncoderEnded
  <1>3. GroupsInv'
    BY GroupsUnchanged DEF Inv, encVars
  <1>4. FileInv'
    BY DEF Inv, FileInv, encVars, EncoderEnded
  <1> QED BY <1>1, <1>2, <1>3, <1>4

\* Loading a group: the frames loaded are those up to the end of the group.
LEMMA LoadGroupInv ==
  ASSUME Inv, LoadGroup
  PROVE  Inv'
  <1>1. /\ encState = "load" /\ next < FrameCount /\ encState' \in {"failed", "encode"}
        /\ encState' = "encode" => sources' = [i \in 1 .. GroupEnd - next |-> next + i - 1]
        /\ encState' = "failed" => sources' = sources
        /\ UNCHANGED <<params, next, stream, recs, file, pos, unit, context, decs, decState>>
    BY DEF LoadGroup, MoreFrames, decVars
  <1>2. ParamsInv'
    BY <1>1 DEF Inv, ParamsInv
  <1>3. SourcesInv'
    BY <1>1 DEF Inv, SourcesInv, States, GroupEnd
  <1>4. GroupsInv'
    BY <1>1, GroupsUnchanged DEF Inv
  <1>5. FileInv'
    BY <1>1 DEF Inv, FileInv, EncoderEnded
  <1>6. ContextInv'
    BY <1>1 DEF Inv, ContextInv, Coded, FramesOf
  <1>7. DecoderInv'
    BY <1>1 DEF Inv, DecoderInv, FramesOf
  <1> QED BY <1>2, <1>3, <1>4, <1>5, <1>6, <1>7 DEF Inv

\* The encoder's exit is taken only for the options it does not support, and
\* an encoded group is added as GroupsInv says.
LEMMA EncodeGroupInv ==
  ASSUME Inv, EncodeGroup
  PROVE  Inv'
  <1>0. /\ encState = "encode" /\ sources' = <<>>
        /\ UNCHANGED <<file, pos, unit, context, decs, decState>>
    BY DEF EncodeGroup, decVars
  <1>p. /\ params \in Params /\ Settled(params.options) /\ ModesCounted(params.options)
        /\ AsksForMissed(params) /\ params.options \in Options
    BY DEF Inv, ParamsInv, Params
  <1>s. /\ next \in Nat /\ next < FrameCount
        /\ sources = [i \in 1 .. GroupEnd - next |-> next + i - 1]
        /\ GroupEnd \in next + 1 .. FrameCount
    BY <1>0, GroupEndBounds DEF Inv, SourcesInv, GroupsInv
  <1>f. sources \in Seq(Nat) /\ Len(sources) = GroupEnd - next /\ sources[1] = next
    BY <1>s, RangeSeq
  <1>g. /\ stream \in Seq(Groups) /\ recs \in Seq(CloudLists) /\ Len(stream) = Len(recs)
        /\ Len(stream) \in Nat /\ FirstOf(1) = 0
        /\ \A g \in 1 .. Len(stream) : FramesOK(g) /\ CodedOK(g)
    BY DEF Inv, GroupsInv
  <1>e. file = <<>> /\ decState = "off" /\ pos = 0 /\ unit = 0
    BY <1>0 DEF Inv, FileInv, EncoderEnded, DecoderInv
  <1>1. PICK distant \in BOOLEAN :
          LET index == Len(stream)
              p == GenerateGeometry(params, distant)
              s == GeometrySps(params, InitializeContext(params, index))
              sent == PointLocalSps(p, s)
              clouds == Clouds(sources, EncoderReconstruction(p, s))
          IN  IF \/ ~p.options.absoluteD1 /\ p.options.lossyMissedPointsPatch
                 \/ ~(AllVideos(sent) \subseteq CreatedVideos(p, s))
              THEN /\ encState' = "exit"
                   /\ UNCHANGED <<params, next, stream, recs, encNumber, encFiles>>
              ELSE /\ stream' = Append(stream, EncodedUnits(sent, index, sources))
                   /\ params' = RestoredParams(p, params)
                   /\ recs' = Append(recs, clouds)
                   /\ \E k \in FailuresAt(clouds) :
                        /\ encNumber' = IF Output THEN NumberAfter(encNumber, clouds, k)
                                        ELSE encNumber
                        /\ encFiles' = encFiles \cup FilesWritten(encNumber, clouds, k)
                   /\ next' = next + Len(sources)
                   /\ encState' = "load"
    <2>1. Distances \subseteq BOOLEAN
      BY StreamAssumption
    <2> QED BY <2>1 DEF EncodeGroup
  <1>n. PICK n \in Nat : n = Len(stream)
    BY <1>g
  <1>v. PICK sent : sent = SentSps(params, distant, n)
    OBVIOUS
  <1>w. PICK how : how = EncodedHow(params, distant, n)
    OBVIOUS
  <1> DEFINE p == GenerateGeometry(params, distant)
             c == InitializeContext(params, n)
             s == GeometrySps(params, c)
  <1>2. sent = PointLocalSps(p, s) /\ how = EncoderReconstruction(p, s)
    BY <1>v, <1>w DEF SentSps, EncodedHow
  <1>3. AllVideos(sent) \subseteq CreatedVideos(p, s)
    BY <1>p, <1>v, VideosCreated
  <1>4. /\ p.options.absoluteD1 = params.options.absoluteD1
        /\ p.options.lossyMissedPointsPatch = params.options.lossyMissedPointsPatch
        /\ p \in Params
    BY <1>p DEF GenerateGeometry, Params, Options, Fallback
  <1>5. s \in SequenceParameterSets
    <2>1. c \in SequenceParameterSets
      BY <1>p, InitialSps
    <2> HIDE DEF c
    <2> QED BY <1>p, <2>1 DEF GeometrySps, SequenceParameterSets, Options
  <1>6. RestoredParams(p, params) \in Params
        /\ RestoredParams(p, params).options = params.options
        /\ AsksForMissed(RestoredParams(p, params))
    BY <1>p, RestoredOptions
  <1> HIDE DEF p, s, c
  <1>x. \/ /\ encState' = "exit"
           /\ ~params.options.absoluteD1 /\ params.options.lossyMissedPointsPatch
           /\ UNCHANGED <<params, next, stream, recs>>
        \/ /\ params.options.absoluteD1 \/ ~params.options.lossyMissedPointsPatch
           /\ stream' = Append(stream, EncodedUnits(sent, n, sources))
           /\ params' = RestoredParams(p, params)
           /\ recs' = Append(recs, Clouds(sources, how))
           /\ next' = next + Len(sources)
           /\ encState' = "load"
    BY <1>1, <1>2, <1>3, <1>4, <1>n DEF p, s, c
  <1>7. CASE /\ encState' = "exit"
             /\ ~params.options.absoluteD1 /\ params.options.lossyMissedPointsPatch
             /\ UNCHANGED <<params, next, stream, recs>>
    <2>1. ParamsInv'
      BY <1>7, <1>p DEF ParamsInv
    <2>2. SourcesInv'
      BY <1>7, <1>0 DEF SourcesInv, States
    <2>3. GroupsInv'
      BY <1>7, GroupsUnchanged DEF Inv
    <2>4. FileInv'
      BY <1>7, <1>0, <1>e DEF FileInv, EncoderEnded
    <2>5. ContextInv'
      BY <1>7, <1>0 DEF Inv, ContextInv, Coded, FramesOf
    <2>6. DecoderInv'
      BY <1>7, <1>0 DEF Inv, DecoderInv, FramesOf
    <2> QED BY <2>1, <2>2, <2>3, <2>4, <2>5, <2>6 DEF Inv
  <1>8. CASE /\ params.options.absoluteD1 \/ ~params.options.lossyMissedPointsPatch
             /\ stream' = Append(stream, EncodedUnits(sent, n, sources))
             /\ params' = RestoredParams(p, params)
             /\ recs' = Append(recs, Clouds(sources, how))
             /\ next' = next + Len(sources)
             /\ encState' = "load"
    <2>1. ParamsInv'
      BY <1>8, <1>p, <1>6 DEF ParamsInv
    <2>2. SourcesInv'
      BY <1>8, <1>0 DEF SourcesInv, States
    <2>3. SpsOK(sent) /\ sent.id = n % ByteMod /\ sent \in SequenceParameterSets
      BY <1>8, <1>p, <1>v, EncodedSps DEF SpsOK
    <2>4. EncodedUnits(sent, n, sources) \in Groups
      BY <2>3, <1>f, <1>g DEF Groups
    <2>5. Clouds(sources, how) \in CloudLists
      BY <1>2, <1>4, <1>5, <1>f DEF CloudLists, Rebuilt
    <2>6. /\ stream' \in Seq(Groups) /\ Len(stream') = n + 1
          /\ \A g \in 1 .. n : stream'[g] = stream[g]
          /\ stream'[n + 1] = EncodedUnits(sent, n, sources)
      BY <1>8, <1>g, <1>n, <2>4, AppendProperties
    <2>7. /\ recs' \in Seq(CloudLists) /\ Len(recs') = n + 1
          /\ \A g \in 1 .. n : recs'[g] = recs[g]
          /\ recs'[n + 1] = Clouds(sources, how)
      BY <1>8, <1>g, <1>n, <2>5, AppendProperties
    <2>8. /\ \A g \in 1 .. n : FramesOf(g)' = FramesOf(g)
          /\ FramesOf(n + 1)' = sources
      BY <2>6, UnitFacts DEF FramesOf
    <2>9. next' = GroupEnd
      BY <1>8, <1>s, <1>f
    <2>10. /\ \A g \in 1 .. n + 1 : FirstOf(g)' = FirstOf(g)
           /\ FirstOf(n + 1)' = next /\ FirstOf(n + 2)' = next'
      BY <1>f, <1>n, <2>6, <2>8 DEF FirstOf
    <2>11. ASSUME NEW g \in 1 .. n + 1
           PROVE  FramesOK(g)' /\ CodedOK(g)'
      <3>1. CASE g \in 1 .. n
        <4>1. FramesOK(g) /\ CodedOK(g)
          BY <1>g, <1>n, <3>1
        <4>2. FramesOK(g)'
          <5>1. FirstOf(g)' = FirstOf(g) /\ FirstOf(g + 1)' = FirstOf(g + 1)
            BY <2>10, <3>1
          <5>2. FramesOf(g)' = FramesOf(g)
            BY <2>8, <3>1
          <5>3. FirstOf(g + 1) \in Nat /\ FirstOf(g + 1) <= next'
            BY <1>s, <2>9, <4>1 DEF FramesOK
          <5> QED BY <4>1, <5>1, <5>2, <5>3 DEF FramesOK
        <4>3. CodedOK(g)'
          <5>1. PICK q \in Params, d \in BOOLEAN :
                  /\ q.options = params.options
                  /\ Coded(g, SentSps(q, d, g - 1))
                  /\ recs[g] = Clouds(FramesOf(g), EncodedHow(q, d, g - 1))
            BY <4>1 DEF CodedOK
          <5>2. q.options = params'.options
            BY <1>6, <1>8, <5>1
          <5>3. Coded(g, SentSps(q, d, g - 1))'
            BY <2>6, <2>8, <3>1, <5>1 DEF Coded
          <5>4. recs'[g] = Clouds(FramesOf(g)', EncodedHow(q, d, g - 1))
            BY <2>7, <2>8, <3>1, <5>1
          <5> QED BY <5>2, <5>3, <5>4 DEF CodedOK
        <4> QED BY <4>2, <4>3
      <3>2. CASE g = n + 1
        <4>1. FramesOK(g)'
          <5>1. /\ FirstOf(g)' = next /\ FirstOf(g + 1)' = GroupEnd
                /\ FramesOf(g)' = sources
            BY <2>8, <2>9, <2>10, <3>2
          <5> QED BY <1>s, <2>9, <5>1 DEF FramesOK
        <4>2. g - 1 = n
          BY <3>2
        <4>3. Coded(g, sent)'
          BY <2>3, <2>6, <2>8, <3>2, <4>2 DEF Coded
        <4>4. recs'[g] = Clouds(FramesOf(g)', how) /\ params.options = params'.options
          BY <1>6, <1>8, <2>7, <2>8, <3>2
        <4>5. CodedOK(g)'
          BY <1>p, <1>v, <1>w, <4>2, <4>3, <4>4 DEF CodedOK
        <4> QED BY <4>1, <4>5
      <3> QED BY <3>1, <3>2
    <2>12. GroupsInv'
      <3>1. next' \in 0 .. FrameCount
        BY <1>s, <2>9
      <3>2. FirstOf(1)' = 0
        BY <1>g, <2>10
      <3>3. Len(stream') = Len(recs')
        BY <2>6, <2>7
      <3> QED BY <2>6, <2>7, <2>11, <3>1, <3>2, <3>3 DEF GroupsInv
    <2>13. FileInv'
      BY <1>8, <1>0, <1>e DEF FileInv, EncoderEnded
    <2>14. ContextInv'
      BY <1>0, <1>e DEF Inv, ContextInv
    <2>15. DecoderInv'
      BY <1>0, <1>e DEF Inv, DecoderInv
    <2> QED BY <2>1, <2>2, <2>12, <2>13, <2>14, <2>15 DEF Inv
  <1> QED BY <1>x, <1>7, <1>8

\* Writing the stream: all frames are coded when a file comes to be.
LEMMA WriteStreamInv ==
  ASSUME Inv, WriteStream
  PROVE  Inv'
  <1>1. /\ encState = "load" /\ next >= FrameCount
        /\ encState' \in {"done", "failed"}
        /\ file' \in {<<>>, stream}
        /\ UNCHANGED <<params, next, sources, stream, recs, pos, unit, context, decs, decState>>
    BY DEF WriteStream, decVars
  <1>2. decState = "off" /\ pos = 0 /\ unit = 0
    BY <1>1 DEF Inv, FileInv, EncoderEnded, DecoderInv
  <1>3. ParamsInv'
    BY <1>1 DEF Inv, ParamsInv
  <1>4. SourcesInv'
    BY <1>1 DEF Inv, SourcesInv, States
  <1>5. GroupsInv'
    BY <1>1, GroupsUnchanged DEF Inv
  <1>6. FileInv'
    BY <1>1, StreamAssumption DEF Inv, FileInv, EncoderEnded, GroupsInv
  <1>7. ContextInv'
    BY <1>1, <1>2 DEF Inv, ContextInv
  <1>8. DecoderInv'
    <2>1. Len(file') \in Nat
      BY <1>1 DEF Inv, GroupsInv
    <2> QED BY <1>1, <1>2, <2>1 DEF Inv, DecoderInv
  <1> QED BY <1>3, <1>4, <1>5, <1>6, <1>7, <1>8 DEF Inv

\* Opening the stream: the decoder has read and decoded nothing yet.
LEMMA OpenStreamInv ==
  ASSUME Inv, OpenStream
  PROVE  Inv'
  <1>1. /\ EncoderEnded /\ decState = "off" /\ decState' \in {"failed", "read"}
        /\ UNCHANGED <<encVars, pos, unit, context, decs>>
    BY DEF OpenStream
  <1>2. ContextInv'
    BY <1>1 DEF Inv, ContextInv, Coded, FramesOf, encVars
  <1>3. DecoderInv'
    BY <1>1 DEF Inv, DecoderInv, FramesOf, encVars
  <1> QED BY <1>1, <1>2, <1>3, EncoderUnchanged DEF Inv

\* The unit that is read is one of those EncodedUnits wrote.
LEMMA ReadNextUnitInv ==
  ASSUME Inv, ReadNextUnit
  PROVE  Inv'
  <1>1. /\ decState = "read" /\ pos < Len(file) /\ unit < 5
        /\ context' = ReadUnit(context, file[pos + 1][unit + 1])
        /\ unit' = unit + 1
        /\ decState' = IF context'.state = "ok" THEN "read" ELSE context'.state
        /\ UNCHANGED <<encVars, pos, decs>>
    BY DEF ReadNextUnit
  <1>2. EncoderEnded
    BY <1>1 DEF Inv, FileInv
  <1>3. pos \in Nat /\ pos + 1 \in 1 .. Len(stream) /\ file = stream /\ unit \in 0 .. 4
    <2>1. Len(stream) \in Nat
      BY DEF Inv, GroupsInv
    <2>2. file # <<>>
      BY <1>1 DEF Inv, DecoderInv
    <2> QED BY <1>1, <2>1, <2>2 DEF Inv, FileInv, DecoderInv, ContextInv
  <1>4. \E s : /\ Coded(pos + 1, s)
               /\ context = ContextAfter(unit, s, pos, FramesOf(pos + 1))
    <2>1. CASE unit = 0
      <3>1. \E s : Coded(pos + 1, s)
        BY <1>3 DEF Inv, GroupsInv, CodedOK
      <3>2. \A s : ContextAfter(0, s, pos, FramesOf(pos + 1)) = EmptyContext
        BY DEF ContextAfter, Context, EmptyContext
      <3> QED BY <2>1, <3>1, <3>2 DEF Inv, ContextInv
    <2>2. CASE unit # 0
      BY <2>2 DEF Inv, ContextInv
    <2> QED BY <2>1, <2>2
  <1>5. PICK s : /\ Coded(pos + 1, s)
                 /\ context = ContextAfter(unit, s, pos, FramesOf(pos + 1))
    BY <1>4
  <1>6. SpsOK(s) /\ s.id = pos % ByteMod
        /\ file[pos + 1] = EncodedUnits(s, pos, FramesOf(pos + 1))
    BY <1>3, <1>5 DEF Coded
  <1>7. context' = ContextAfter(unit + 1, s, pos, FramesOf(pos + 1))
    BY <1>1, <1>3, <1>5, <1>6, ReadStep
  <1>8. context'.state = "ok"
    BY <1>7 DEF ContextAfter, Context
  <1>9. ContextInv'
    <2>1. unit' \in 1 .. 5 /\ unit' = unit + 1 /\ pos' < Len(file')
      BY <1>1, <1>3 DEF encVars
    <2>2. stream' = stream /\ pos' = pos
      BY <1>1 DEF encVars
    <2> QED BY <1>5, <1>7, <2>1, <2>2 DEF ContextInv, Coded, FramesOf
  <1>10. DecoderInv'
    BY <1>1, <1>8 DEF Inv, DecoderInv, FramesOf, encVars
  <1> QED BY <1>1, <1>2, <1>9, <1>10, EncoderUnchanged DEF Inv

\* What is decoded is what the parameter set and the frames of the group say.
LEMMA DecodeGroupInv ==
  ASSUME Inv, DecodeGroup
  PROVE  Inv'
  <1>1. /\ decState = "read" /\ unit = 5 /\ pos' = pos + 1
        /\ unit' = 0 /\ context' = EmptyContext /\ UNCHANGED encVars
    BY DEF DecodeGroup
  <1>2. EncoderEnded
    BY <1>1 DEF Inv, FileInv
  <1>3. /\ pos \in Nat /\ pos < Len(file)
        /\ \E s : /\ Coded(pos + 1, s)
                  /\ context = ContextAfter(5, s, pos, FramesOf(pos + 1))
    <2>1. Len(stream) \in Nat /\ Len(file) \in Nat
      BY DEF Inv, GroupsInv, FileInv
    <2> QED BY <1>1, <2>1 DEF Inv, ContextInv, DecoderInv
  <1>4. pos + 1 \in 1 .. Len(stream) /\ file = stream
    <2>1. file # <<>> /\ Len(stream) \in Nat
      BY <1>3 DEF Inv, GroupsInv
    <2> QED BY <1>3, <2>1 DEF Inv, FileInv
  <1>5. PICK s : /\ Coded(pos + 1, s)
                 /\ context = ContextAfter(5, s, pos, FramesOf(pos + 1))
    BY <1>3
  <1>6. /\ SpsOK(s) /\ s \in SequenceParameterSets /\ s.id = pos % ByteMod
        /\ stream[pos + 1] = EncodedUnits(s, pos, FramesOf(pos + 1))
    BY <1>3, <1>5 DEF Coded, SpsOK
  <1>7. /\ CanDecode(context) /\ context.frames = FramesOf(pos + 1)
        /\ DecoderReconstruction(Sps(context)) = DecoderReconstruction(s)
    BY <1>3, <1>5, <1>6, DecodeStep
  <1>8. DecoderReconstruction(stream[pos + 1][1].sps) = DecoderReconstruction(s)
    <2>1. stream[pos + 1][1].sps = KeptSps(s)
      BY <1>6, UnitFacts, SpsSent
    <2> QED BY <1>6, <2>1, SameVideos
  <1>9. /\ decState' = "write"
        /\ decs' = Append(decs, Clouds(FramesOf(pos + 1), DecoderReconstruction(s)))
    BY <1>7 DEF DecodeGroup
  <1>10. ContextInv'
    BY <1>1 DEF ContextInv
  <1>11. DecoderInv'
    <2>1. FramesOf(pos + 1) \in Seq(Nat)
      BY <1>4, FramesAreSeq DEF Inv, GroupsInv
    <2>2. Clouds(FramesOf(pos + 1), DecoderReconstruction(s)) \in CloudLists
      <3>1. DecoderReconstruction(s) \in Rebuilt
        BY <1>6 DEF Rebuilt
      <3> QED BY <2>1, <3>1 DEF CloudLists
    <2>3. decs \in Seq(CloudLists) /\ Len(decs) = pos
      BY DEF Inv, DecoderInv
    <2>4. /\ decs' \in Seq(CloudLists) /\ Len(decs') = pos + 1
          /\ \A g \in 1 .. pos : decs'[g] = decs[g]
          /\ decs'[pos + 1] = Clouds(FramesOf(pos + 1), DecoderReconstruction(s))
      BY <1>9, <2>2, <2>3, AppendProperties
    <2>5. ASSUME NEW g \in 1 .. pos + 1
          PROVE  decs'[g] = Clouds(FramesOf(g)', DecoderReconstruction(stream'[g][1].sps))
      <3>1. FramesOf(g)' = FramesOf(g) /\ stream' = stream
        BY <1>1 DEF FramesOf, encVars
      <3>2. CASE g = pos + 1
        BY <1>8, <2>4, <3>1, <3>2
      <3>3. CASE g \in 1 .. pos
        BY <2>4, <3>1, <3>3 DEF Inv, DecoderInv
      <3> QED BY <1>3, <3>2, <3>3
    <2>6. pos' \in 0 .. Len(file') /\ pos' > 0
      BY <1>1, <1>3, <1>4 DEF encVars
    <2> QED BY <1>1, <1>9, <2>4, <2>5, <2>6 DEF DecoderInv
  <1> QED BY <1>1, <1>2, <1>10, <1>11, EncoderUnchanged DEF Inv

\* Writing a decoded group changes numbers and files only.
LEMMA WriteGroupInv ==
  ASSUME Inv, WriteGroup
  PROVE  Inv'
  <1>1. /\ decState = "write" /\ decState' \in {"failed", "read"}
        /\ UNCHANGED <<encVars, pos, unit, context, decs>>
    BY DEF WriteGroup
  <1>2. EncoderEnded
    BY <1>1 DEF Inv, FileInv
  <1>3. ContextInv'
    BY <1>1 DEF Inv, ContextInv, Coded, FramesOf, encVars
  <1>4. DecoderInv'
    BY <1>1 DEF Inv, DecoderInv, FramesOf, encVars
  <1> QED BY <1>1, <1>2, <1>3, <1>4, EncoderUnchanged DEF Inv

\* Comparing the checksums only ends the decoder.
LEMMA CompareChecksumsInv ==
  ASSUME Inv, CompareChecksums
  PROVE  Inv'
  <1>1. /\ decState = "read" /\ decState' \in {"failed", "done"}
        /\ UNCHANGED <<encVars, pos, unit, context, decs>>
    BY DEF CompareChecksums
  <1>2. EncoderEnded
    BY <1>1 DEF Inv, FileInv
  <1>3. ContextInv'
    BY <1>1 DEF Inv, ContextInv, Coded, FramesOf, encVars
  <1>4. DecoderInv'
    BY <1>1 DEF Inv, DecoderInv, FramesOf, encVars
  <1> QED BY <1>1, <1>2, <1>3, <1>4, EncoderUnchanged DEF Inv

\* A step that changes nothing.
LEMMA StutterInv ==
  ASSUME Inv, UNCHANGED vars
  PROVE  Inv'
  <1>1. UNCHANGED <<params, next, sources, stream, recs, encState, file,
                    pos, unit, context, decs, decState>>
    BY DEF vars
  <1>2. ParamsInv' /\ SourcesInv'
    BY <1>1 DEF Inv, ParamsInv, SourcesInv, GroupEnd
  <1>3. GroupsInv'
    BY <1>1, GroupsUnchanged DEF Inv
  <1>4. FileInv'
    BY <1>1 DEF Inv, FileInv, EncoderEnded
  <1>5. ContextInv' /\ DecoderInv'
    BY <1>1 DEF Inv, ContextInv, DecoderInv, Coded, FramesOf
  <1> QED BY <1>2, <1>3, <1>4, <1>5 DEF Inv

\* Inv is inductive.
LEMMA NextInv ==
  ASSUME Inv, [Next]_vars
  PROVE  Inv'
  BY LoadGroupInv, EncodeGroupInv, WriteStreamInv, OpenStreamInv, ReadNextUnitInv,
     DecodeGroupInv, WriteGroupInv, CompareChecksumsInv, StutterInv DEF Next

\* Whatever groups fall back and whatever fails on the way, the state is as
\* Inv describes it.
THEOREM InvHolds ==
  ASSUME ModesFit
  PROVE  Spec => []Inv
  <1>1. Init => Inv
    BY InitInv
  <1>2. Inv /\ [Next]_vars => Inv'
    BY NextInv
  <1> QED BY <1>1, <1>2, PTL DEF Spec

\* The parser of VPCCBitstreamDecoder never takes other elements or videos than
\* the writer sent, for any options whose modes can be announced.
THEOREM ParserInStepHolds ==
  ASSUME ModesFit
  PROVE  Spec => []ParserInStep
  <1>1. Inv => ParserInStep
    BY DEF Inv, DecoderInv, ParserInStep
  <1> QED BY <1>1, InvHolds, PTL

\* Neither program misses a video or a parameter set; the encoder stops only for
\* options it announces as not implemented.
THEOREM NothingMissingHolds ==
  ASSUME ModesFit
  PROVE  Spec => []NothingMissing
  <1>1. Inv => NothingMissing
    BY DEF Inv, DecoderInv, SourcesInv, NothingMissing
  <1> QED BY <1>1, InvHolds, PTL

\* A group's clouds are the encoder's, frame by frame, and rebuilt the same way
\* unless interleaved layers fell back to two.
THEOREM DifferOnlyByFallbackHolds ==
  ASSUME ModesFit
  PROVE  Spec => []DifferOnlyByFallback
  <1>1. ASSUME Inv
        PROVE  DifferOnlyByFallback
    <2> SUFFICES ASSUME NEW g \in DOMAIN decs
                 PROVE  /\ Len(decs[g]) = Len(recs[g])
                        /\ \A i \in DOMAIN decs[g] :
                             LET dec == decs[g][i]
                                 rec == recs[g][i]
                             IN  /\ dec.frame = rec.frame
                                 /\ \/ dec.how = rec.how
                                    \/ /\ params.options.singleLayerPixelInterleaving
                                       /\ ~rec.how.oneLayer
                                       /\ dec.how = [rec.how EXCEPT !.interleaved = TRUE]
      BY DEF DifferOnlyByFallback
    <2>1. g \in 1 .. pos /\ g \in 1 .. Len(stream) /\ g \in Nat
      <3>1. Len(stream) \in Nat /\ (Len(file) = 0 \/ file = stream)
        BY <1>1 DEF Inv, GroupsInv, FileInv
      <3> QED BY <1>1, <3>1 DEF Inv, DecoderInv
    <2>2. FramesOK(g) /\ CodedOK(g)
      BY <1>1, <2>1 DEF Inv, GroupsInv
    <2>3. PICK p \in Params, distant \in BOOLEAN :
            /\ p.options = params.options
            /\ Coded(g, SentSps(p, distant, g - 1))
            /\ recs[g] = Clouds(FramesOf(g), EncodedHow(p, distant, g - 1))
      BY <2>2 DEF CodedOK
    <2> DEFINE s == SentSps(p, distant, g - 1)
               rec == EncodedHow(p, distant, g - 1)
               dec == DecoderReconstruction(s)
    <2>4. decs[g] = Clouds(FramesOf(g), dec)
      <3>1. SpsOK(s) /\ s \in SequenceParameterSets
            /\ stream[g] = EncodedUnits(s, g - 1, FramesOf(g))
        BY <2>3 DEF Coded, SpsOK
      <3> HIDE DEF s
      <3>2. stream[g][1].sps = KeptSps(s)
        BY <3>1, UnitFacts, SpsSent
      <3>3. DecoderReconstruction(KeptSps(s)) = DecoderReconstruction(s)
        BY <3>1, SameVideos
      <3>4. decs[g] = Clouds(FramesOf(g), DecoderReconstruction(stream[g][1].sps))
        BY <1>1, <2>1 DEF Inv, DecoderInv
      <3> QED BY <3>2, <3>3, <3>4
    <2>5. \/ dec = rec
          \/ /\ params.options.singleLayerPixelInterleaving
             /\ ~rec.oneLayer
             /\ dec = [rec EXCEPT !.interleaved = TRUE]
      <3>1. g - 1 \in Nat
        BY <2>1
      <3>2. \/ dec = rec
            \/ /\ p.options.singleLayerPixelInterleaving
               /\ ~rec.oneLayer
               /\ dec = [rec EXCEPT !.interleaved = TRUE]
        BY <3>1, SameHow
      <3> HIDE DEF rec, dec
      <3> QED BY <2>3, <3>2
    <2>6. FramesOf(g) \in Seq(Nat)
      BY <2>2, FramesAreSeq
    <2>r. recs[g] = Clouds(FramesOf(g), rec)
      BY <2>3
    <2> HIDE DEF rec, dec
    <2>7. /\ Len(decs[g]) = Len(FramesOf(g)) /\ Len(recs[g]) = Len(FramesOf(g))
          /\ DOMAIN decs[g] = 1 .. Len(FramesOf(g))
          /\ \A i \in 1 .. Len(FramesOf(g)) :
               /\ decs[g][i].frame = FramesOf(g)[i] /\ decs[g][i].how = dec
               /\ recs[g][i].frame = FramesOf(g)[i] /\ recs[g][i].how = rec
      <3> DEFINE frames == FramesOf(g)
                 d == Clouds(frames, dec)
                 r == Clouds(frames, rec)
      <3>0. frames \in Seq(Nat)
        BY <2>6
      <3> HIDE DEF frames
      <3>1. /\ Len(d) = Len(frames) /\ DOMAIN d = 1 .. Len(frames)
            /\ \A i \in 1 .. Len(frames) : d[i].frame = frames[i] /\ d[i].how = dec
        BY <3>0, CloudFacts
      <3>2. /\ Len(r) = Len(frames)
            /\ \A i \in 1 .. Len(frames) : r[i].frame = frames[i] /\ r[i].how = rec
        BY <3>0, CloudFacts
      <3> QED BY <2>4, <2>r, <3>1, <3>2 DEF frames
    <2> QED BY <2>5, <2>7
  <1> QED BY <1>1, InvHolds, PTL

\* The options of the encoder object stay what they are.
LEMMA OptionsStay ==
  ASSUME Inv, [Next]_vars
  PROVE  params'.options = params.options
<1>1. CASE EncodeGroup
  <2>1. params \in Params /\ AsksForMissed(params)
    BY DEF Inv, ParamsInv
  <2>2. \A distant \in BOOLEAN :
          RestoredParams(GenerateGeometry(params, distant), params).options
            = params.options
    BY <2>1, RestoredOptions
  <2>3. \/ params' = params
        \/ \E distant \in Distances :
             params' = RestoredParams(GenerateGeometry(params, distant), params)
    BY <1>1 DEF EncodeGroup
  <2>4. Distances \subseteq BOOLEAN
    BY StreamAssumption
  <2> QED
    BY <2>2, <2>3, <2>4
<1>2. CASE UNCHANGED params
  BY <1>2
<1>3. CASE UNCHANGED vars
  BY <1>3 DEF vars
<1> QED
  BY <1>1, <1>2, <1>3
  DEF Next, LoadGroup, WriteStream, OpenStream, ReadNextUnit, DecodeGroup,
      WriteGroup, CompareChecksums, encVars

\* No encoded group changes the options of the next: a fallback, which clears
\* two options of the encoder object, is undone at the end of its group.
THEOREM OptionsKeptHolds ==
  ASSUME ModesFit
  PROVE  Spec => OptionsKept
  <1>1. Inv /\ [Next]_vars => [params'.options = params.options]_vars
    BY OptionsStay
  <1> QED BY <1>1, InvHolds, PTL DEF Spec, OptionsKept

-----------------------------------------------------------------------------
\* The numbers clouds are written and measured under.  They fall behind the
\* frames when a cloud cannot be written, and only then.

\* The frame the decoder's next number belongs to.
DecoderFirst == IF decState = "write" THEN FirstOf(pos) ELSE FirstOf(pos + 1)

NumbersInv ==
  /\ encNumber \in 0 .. next
  /\ decNumber \in 0 .. DecoderFirst
  /\ decState = "off" => decNumber = 0
  /\ encFiles \cup decFiles \cup measured \subseteq Numbers \X Numbers

ExactInv ==
  /\ Output => encNumber = next
  /\ decState \in {"off", "read", "write"} => decNumber = DecoderFirst
  /\ \A f \in encFiles \cup decFiles \cup measured : f[1] = f[2]

\* No file fails to be written.
SoundDisk == BadDisk = {FALSE}

NumInv == NumbersInv /\ (SoundDisk => ExactInv)

\* Where a group begins lies within the frames encoded so far.
LEMMA FirstBounds ==
  ASSUME Inv, NEW g \in 1 .. Len(stream) + 1
  PROVE  FirstOf(g) \in 0 .. next /\ next \in 0 .. FrameCount
  <1>1. Len(stream) \in Nat /\ next \in 0 .. FrameCount
    BY DEF Inv, GroupsInv
  <1>2. CASE g \in 1 .. Len(stream)
    BY <1>1, <1>2 DEF Inv, GroupsInv, FramesOK
  <1>3. CASE g = Len(stream) + 1
    BY <1>1, <1>3, StreamAssumption DEF FirstOf
  <1> QED BY <1>1, <1>2, <1>3

\* The frames from a to b - 1, and each cloud with the number it is given.
FramesFrom(a, b) == [i \in 1 .. b - a |-> a + i - 1]
Numbered(number, clouds) ==
  {<<number + i - 1, clouds[i].frame>> : i \in DOMAIN clouds}

HasFrames(clouds, a, b) ==
  /\ Len(clouds) = b - a /\ DOMAIN clouds = 1 .. b - a
  /\ \A i \in 1 .. b - a : clouds[i].frame = a + i - 1

\* The clouds of a range of frames have its frames, in order.
LEMMA RangeClouds ==
  ASSUME NEW a \in Nat, NEW b \in Nat, a <= b, NEW how
  PROVE  HasFrames(Clouds(FramesFrom(a, b), how), a, b)
  <1> DEFINE frames == [i \in 1 .. b - a |-> a + i - 1]
  <1>1. frames \in Seq(Nat) /\ Len(frames) = b - a
    BY RangeSeq
  <1>2. \A i \in 1 .. b - a : frames[i] = a + i - 1
    OBVIOUS
  <1> HIDE DEF frames
  <1> DEFINE c == Clouds(frames, how)
  <1>3. /\ Len(c) = Len(frames) /\ DOMAIN c = 1 .. Len(frames)
        /\ \A i \in 1 .. Len(frames) : c[i].frame = frames[i]
    BY <1>1, CloudFacts
  <1> HIDE DEF c
  <1>4. /\ Len(c) = b - a /\ DOMAIN c = 1 .. b - a
        /\ \A i \in 1 .. b - a : c[i].frame = a + i - 1
    BY <1>1, <1>2, <1>3
  <1> QED BY <1>4 DEF c, frames, FramesFrom, HasFrames

\* PCCGroupOfFrames::write for the frames from a to b - 1, with the number n.
LEMMA GroupWritten ==
  ASSUME NEW a \in Nat, NEW b \in Nat, a < b, b <= FrameCount,
         NEW n \in 0 .. a,
         NEW clouds, HasFrames(clouds, a, b),
         NEW k \in FailuresAt(clouds)
  PROVE  LET all == Numbered(n, clouds)
         IN  /\ NumberAfter(n, clouds, k) \in 0 .. b
             /\ FilesWritten(n, clouds, k) \subseteq all
             /\ ~Output => FilesWritten(n, clouds, k) = {}
             /\ all \subseteq Numbers \X Numbers
             /\ SoundDisk => NumberAfter(n, clouds, k) = n + (b - a)
             /\ n = a => \A f \in all : f[1] = f[2]
  <1>0. PICK L \in Nat : L = b - a
    OBVIOUS
  <1>2. /\ Len(clouds) = L /\ DOMAIN clouds = 1 .. L
        /\ \A i \in 1 .. L : clouds[i].frame = a + i - 1
    BY <1>0 DEF HasFrames
  <1>3. k \in 0 .. L /\ (SoundDisk => k = 0)
    <2>1. k = 0 \/ (TRUE \in BadDisk /\ k \in 1 .. L)
      BY <1>2 DEF FailuresAt
    <2>2. SoundDisk => ~(TRUE \in BadDisk)
      BY DEF SoundDisk
    <2>3. k \in 0 .. L
      <3>1. k = 0 \/ k \in 1 .. L
        BY <2>1, Zenon
      <3> QED BY <3>1
    <2>4. SoundDisk => k = 0
      BY <2>1, <2>2, Zenon
    <2> QED BY <2>3, <2>4
  <1>4. /\ NumberAfter(n, clouds, k) \in 0 .. b
        /\ SoundDisk => NumberAfter(n, clouds, k) = n + (b - a)
    <2>1. NumberAfter(n, clouds, k) = n + (IF k = 0 THEN L ELSE k)
      BY <1>2 DEF NumberAfter
    <2> QED BY <1>0, <1>3, <2>1
  <1> DEFINE all == Numbered(n, clouds)
             written == IF ~Output THEN 0 ELSE IF k = 0 THEN Len(clouds) ELSE k - 1
  <1>5. written \in 0 .. L
    BY <1>0, <1>2, <1>3
  <1>6. FilesWritten(n, clouds, k) = {<<n + i - 1, clouds[i].frame>> : i \in 1 .. written}
    BY DEF FilesWritten
  <1>7. FilesWritten(n, clouds, k) \subseteq all
    <2> HIDE DEF written
    <2>1. 1 .. written \subseteq DOMAIN clouds
      BY <1>0, <1>2, <1>5
    <2> QED BY <1>6, <2>1 DEF Numbered
  <1>8. ~Output => FilesWritten(n, clouds, k) = {}
    BY <1>6
  <1>9. all = {<<n + i - 1, a + i - 1>> : i \in 1 .. L}
    BY <1>2 DEF Numbered
  <1>10. all \subseteq Numbers \X Numbers
    <2>1. FrameCount \in Nat
      BY StreamAssumption
    <2>2. \A i \in 1 .. L : n + i - 1 \in Numbers /\ a + i - 1 \in Numbers
      BY <1>0, <2>1 DEF Numbers
    <2>3. \A i \in 1 .. L : <<n + i - 1, a + i - 1>> \in Numbers \X Numbers
      BY <2>2
    <2>4. ASSUME NEW f \in all
          PROVE  f \in Numbers \X Numbers
      <3>1. PICK i \in 1 .. L : f = <<n + i - 1, a + i - 1>>
        BY <1>9
      <3> QED BY <2>3, <3>1
    <2> QED BY <2>4
  <1>11. n = a => \A f \in all : f[1] = f[2]
    BY <1>9
  <1> QED BY <1>4, <1>7, <1>8, <1>10, <1>11

\* Both programs start to count at 0.
LEMMA InitNum ==
  ASSUME Init
  PROVE  NumInv
  BY StreamAssumption DEF Init, NumInv, NumbersInv, ExactInv, DecoderFirst, FirstOf

\* Steps that neither write, nor measure, nor go on to other frames.
LEMMA NumStays ==
  ASSUME NumInv,
         UNCHANGED <<next, stream, encNumber, encFiles, pos, decNumber, decFiles, measured>>,
         (decState' = "write") = (decState = "write"),
         decState' = "off" => decState = "off",
         decState' \in {"off", "read", "write"} => decState \in {"off", "read", "write"}
  PROVE  NumInv'
  <1>1. DecoderFirst' = DecoderFirst
    BY DEF DecoderFirst, FirstOf, FramesOf
  <1>2. NumbersInv'
    BY <1>1 DEF NumInv, NumbersInv
  <1>3. ExactInv => ExactInv'
    BY <1>1 DEF ExactInv
  <1> QED BY <1>2, <1>3 DEF NumInv

\* The encoder's numbers go on by a group, or by less if a file fails.
LEMMA EncodeGroupNum ==
  ASSUME Inv, Inv', NumInv, EncodeGroup
  PROVE  NumInv'
  <1>1. /\ encState = "encode" /\ next \in Nat /\ next < FrameCount
        /\ sources = [i \in 1 .. GroupEnd - next |-> next + i - 1]
        /\ GroupEnd \in next + 1 .. FrameCount
    BY GroupEndBounds DEF EncodeGroup, Inv, SourcesInv, GroupsInv
  <1>2. /\ decState = "off" /\ pos = 0
        /\ UNCHANGED <<pos, decNumber, decFiles, measured, decState>>
    BY <1>1 DEF EncodeGroup, decVars, Inv, FileInv, EncoderEnded, DecoderInv
  <1>3. CASE UNCHANGED <<params, next, stream, recs, encNumber, encFiles>>
    BY <1>2, <1>3, NumStays
  <1>4. CASE ~UNCHANGED <<params, next, stream, recs, encNumber, encFiles>>
    <2>h. PICK how : \E k \in FailuresAt(Clouds(sources, how)) :
            /\ encNumber' = IF Output THEN NumberAfter(encNumber, Clouds(sources, how), k)
                            ELSE encNumber
            /\ encFiles' = encFiles \cup FilesWritten(encNumber, Clouds(sources, how), k)
            /\ next' = next + Len(sources)
      BY <1>4 DEF EncodeGroup
    <2>1. PICK k \in FailuresAt(Clouds(sources, how)) :
            /\ encNumber' = IF Output THEN NumberAfter(encNumber, Clouds(sources, how), k)
                            ELSE encNumber
            /\ encFiles' = encFiles \cup FilesWritten(encNumber, Clouds(sources, how), k)
            /\ next' = next + Len(sources)
      BY <2>h
    <2>2. PICK clouds : clouds = Clouds(sources, how)
      OBVIOUS
    <2>3. PICK a \in Nat : a = next
      BY <1>1
    <2>4. PICK b \in Nat : b = GroupEnd /\ a < b /\ b <= FrameCount
      BY <1>1, <2>3, StreamAssumption
    <2>5. HasFrames(clouds, a, b) /\ Len(sources) = b - a
      <3>1. sources = FramesFrom(a, b)
        BY <1>1, <2>3, <2>4 DEF FramesFrom
      <3>2. Len(sources) = b - a
        BY <1>1, <2>3, <2>4, RangeSeq
      <3> QED BY <2>2, <2>4, <3>1, <3>2, RangeClouds
    <2>6. PICK n \in 0 .. a : n = encNumber
      BY <2>3 DEF NumInv, NumbersInv
    <2> DEFINE all == Numbered(n, clouds)
    <2>7. /\ NumberAfter(n, clouds, k) \in 0 .. b
          /\ FilesWritten(n, clouds, k) \subseteq all
          /\ ~Output => FilesWritten(n, clouds, k) = {}
          /\ all \subseteq Numbers \X Numbers
          /\ SoundDisk => NumberAfter(n, clouds, k) = n + (b - a)
          /\ n = a => \A f \in all : f[1] = f[2]
      <3>1. k \in FailuresAt(clouds)
        BY <2>1, <2>2
      <3>2. a < b /\ b <= FrameCount /\ HasFrames(clouds, a, b)
        BY <2>4, <2>5
      <3> QED BY <3>1, <3>2, GroupWritten
    <2> HIDE DEF all
    <2>8. /\ encNumber' = IF Output THEN NumberAfter(n, clouds, k) ELSE n
          /\ encFiles' = encFiles \cup FilesWritten(n, clouds, k)
          /\ next' = b
      BY <2>1, <2>2, <2>3, <2>4, <2>5, <2>6
    <2>9. DecoderFirst' = 0 /\ decNumber = 0 /\ DecoderFirst = 0
      BY <1>2 DEF DecoderFirst, Inv, GroupsInv, NumInv, NumbersInv
    <2>10. NumbersInv'
      <3>1. encNumber' \in 0 .. next'
        BY <2>4, <2>7, <2>8
      <3>2. encFiles' \subseteq Numbers \X Numbers
        BY <2>7, <2>8 DEF NumInv, NumbersInv
      <3> QED BY <1>2, <2>9, <3>1, <3>2 DEF NumInv, NumbersInv
    <2>11. ASSUME SoundDisk
           PROVE  ExactInv'
      <3>1. ExactInv
        BY <2>11 DEF NumInv
      <3>2. Output => encNumber' = next'
        BY <2>3, <2>4, <2>6, <2>7, <2>8, <2>11, <3>1 DEF ExactInv
      <3>3. \A f \in encFiles' : f[1] = f[2]
        <4>1. CASE Output
          BY <2>3, <2>6, <2>7, <2>8, <3>1, <4>1 DEF ExactInv
        <4>2. CASE ~Output
          BY <2>7, <2>8, <3>1, <4>2 DEF ExactInv
        <4> QED BY <4>1, <4>2
      <3> QED BY <1>2, <2>9, <3>1, <3>2, <3>3 DEF ExactInv
    <2> QED BY <2>10, <2>11 DEF NumInv
  <1> QED BY <1>3, <1>4

\* A decoded group is not counted before it is written.
LEMMA DecodeGroupNum ==
  ASSUME Inv, Inv', NumInv, DecodeGroup
  PROVE  NumInv'
  <1>1. /\ decState = "read" /\ decState' = "write" /\ pos' = pos + 1
        /\ UNCHANGED <<next, stream, encNumber, encFiles, decNumber, decFiles, measured>>
    BY DEF DecodeGroup, encVars, Inv, DecoderInv
  <1>2. DecoderFirst' = DecoderFirst
    BY <1>1 DEF DecoderFirst, FirstOf, FramesOf
  <1>3. NumbersInv'
    BY <1>1, <1>2 DEF NumInv, NumbersInv
  <1>4. ExactInv => ExactInv'
    BY <1>1, <1>2 DEF ExactInv
  <1> QED BY <1>3, <1>4 DEF NumInv

\* The decoder's numbers go on by a group, or by less if a file fails.
LEMMA WriteGroupNum ==
  ASSUME Inv, Inv', NumInv, WriteGroup
  PROVE  NumInv'
  <1>1. /\ decState = "write" /\ pos \in 1 .. Len(stream) /\ pos \in Nat
        /\ UNCHANGED <<next, stream, encNumber, encFiles, pos>>
    <2>1. Len(stream) \in Nat /\ (Len(file) = 0 \/ file = stream)
      BY DEF Inv, GroupsInv, FileInv
    <2> QED BY <2>1 DEF WriteGroup, encVars, Inv, DecoderInv
  <1>2. /\ FramesOf(pos) = [i \in 1 .. FirstOf(pos + 1) - FirstOf(pos) |-> FirstOf(pos) + i - 1]
        /\ FirstOf(pos) \in Nat /\ FirstOf(pos + 1) \in Nat /\ FirstOf(pos) < FirstOf(pos + 1)
        /\ FirstOf(pos + 1) <= FrameCount
    <2>1. FramesOK(pos) /\ next <= FrameCount /\ next \in Nat /\ FrameCount \in Nat
      BY <1>1, StreamAssumption DEF Inv, GroupsInv
    <2> QED BY <2>1 DEF FramesOK
  <1>3. PICK a \in Nat : a = FirstOf(pos)
    BY <1>2
  <1>4. PICK b \in Nat : b = FirstOf(pos + 1) /\ a < b /\ b <= FrameCount
    BY <1>2, <1>3
  <1>5. DecoderFirst = a
    BY <1>1, <1>3 DEF DecoderFirst
  <1>6. PICK n \in 0 .. a : n = decNumber
    BY <1>5 DEF NumInv, NumbersInv
  <1>7. PICK clouds : clouds = Last(decs)
    OBVIOUS
  <1>8. HasFrames(clouds, a, b)
    <2>1. PICK how : decs[pos] = Clouds(FramesOf(pos), how)
      BY <1>1 DEF Inv, DecoderInv
    <2>2. clouds = decs[pos]
      BY <1>7 DEF Last, Inv, DecoderInv
    <2>3. FramesOf(pos) = FramesFrom(a, b)
      BY <1>2, <1>3, <1>4 DEF FramesFrom
    <2> QED BY <1>4, <2>1, <2>2, <2>3, RangeClouds
  <1> DEFINE all == Numbered(n, clouds)
  <1>9. CASE decState' = "failed" /\ UNCHANGED <<decNumber, decFiles, measured>>
    <2>1. DecoderFirst' = b
      BY <1>1, <1>4, <1>9 DEF DecoderFirst, FirstOf, FramesOf
    <2>2. NumbersInv'
      BY <1>1, <1>4, <1>6, <1>9, <2>1 DEF NumInv, NumbersInv
    <2>3. ExactInv => ExactInv'
      BY <1>1, <1>9 DEF ExactInv
    <2> QED BY <2>2, <2>3 DEF NumInv
  <1>10. CASE \E k \in FailuresAt(clouds) :
                /\ decState' = "read"
                /\ decNumber' = NumberAfter(n, clouds, k)
                /\ decFiles' = decFiles \cup FilesWritten(n, clouds, k)
                /\ measured' = IF ~Metrics THEN measured ELSE measured \cup all
    <2>1. PICK k \in FailuresAt(clouds) :
                /\ decState' = "read"
                /\ decNumber' = NumberAfter(n, clouds, k)
                /\ decFiles' = decFiles \cup FilesWritten(n, clouds, k)
                /\ measured' = IF ~Metrics THEN measured ELSE measured \cup all
      BY <1>10
    <2>2. /\ NumberAfter(n, clouds, k) \in 0 .. b
          /\ FilesWritten(n, clouds, k) \subseteq all
          /\ all \subseteq Numbers \X Numbers
          /\ SoundDisk => NumberAfter(n, clouds, k) = n + (b - a)
          /\ n = a => \A f \in all : f[1] = f[2]
      <3>1. a < b /\ b <= FrameCount /\ HasFrames(clouds, a, b)
        BY <1>4, <1>8
      <3> QED BY <3>1, GroupWritten
    <2> HIDE DEF all
    <2>3. DecoderFirst' = b
      BY <1>1, <1>4, <2>1 DEF DecoderFirst, FirstOf, FramesOf
    <2>4. NumbersInv'
      <3>1. decNumber' \in 0 .. DecoderFirst'
        BY <2>1, <2>2, <2>3
      <3>2. decFiles' \cup measured' \subseteq Numbers \X Numbers
        BY <2>1, <2>2 DEF NumInv, NumbersInv
      <3>3. encNumber' \in 0 .. next' /\ encFiles' \subseteq Numbers \X Numbers
        BY <1>1 DEF NumInv, NumbersInv
      <3> QED BY <2>1, <3>1, <3>2, <3>3 DEF NumbersInv
    <2>5. ASSUME SoundDisk
          PROVE  ExactInv'
      <3>1. ExactInv
        BY <2>5 DEF NumInv
      <3>2. n = a
        BY <1>1, <1>5, <1>6, <3>1 DEF ExactInv
      <3>3. decNumber' = DecoderFirst'
        BY <1>4, <2>1, <2>2, <2>3, <2>5, <3>2
      <3>4. \A f \in encFiles' \cup decFiles' \cup measured' : f[1] = f[2]
        BY <1>1, <2>1, <2>2, <3>1, <3>2 DEF ExactInv
      <3>5. Output => encNumber' = next'
        BY <1>1, <3>1 DEF ExactInv
      <3> QED BY <3>3, <3>4, <3>5 DEF ExactInv
    <2> QED BY <2>4, <2>5 DEF NumInv
  <1> QED BY <1>6, <1>7, <1>9, <1>10 DEF WriteGroup, Numbered

\* NumInv is preserved by every step.
LEMMA NumNext ==
  ASSUME Inv, Inv', NumInv, [Next]_vars
  PROVE  NumInv'
  <1> USE DEF encVars, decVars
  <1>1. CASE LoadGroup \/ WriteStream
    BY <1>1, NumStays DEF LoadGroup, WriteStream
  <1>2. CASE OpenStream
    BY <1>2, NumStays DEF OpenStream
  <1>3. CASE ReadNextUnit
    <2>1. decState = "read" /\ decState' \in {"read", "off", "done", "failed"}
      <3>1. /\ decState = "read"
            /\ decState' = IF context'.state = "ok" THEN "read" ELSE context'.state
            /\ decState' \in {"off", "read", "write", "done", "failed"}
        BY <1>3 DEF ReadNextUnit, Inv, DecoderInv
      <3>2. unit' = unit + 1 /\ unit \in 0 .. 5
        BY <1>3 DEF ReadNextUnit, Inv, ContextInv
      <3> QED BY <3>1, <3>2 DEF Inv, DecoderInv
    <2> QED BY <1>3, <2>1, NumStays DEF ReadNextUnit, Inv, ContextInv, DecoderInv
  <1>4. CASE CompareChecksums
    BY <1>4, NumStays DEF CompareChecksums
  <1>5. CASE UNCHANGED vars
    BY <1>5, NumStays DEF vars
  <1> QED BY <1>1, <1>2, <1>3, <1>4, <1>5, EncodeGroupNum, DecodeGroupNum, WriteGroupNum
       DEF Next

\* The numbers never run ahead of the frames, and keep up with them as long as
\* every file can be written.
THEOREM NumInvHolds ==
  ASSUME ModesFit
  PROVE  Spec => [](Inv /\ NumInv)
  <1>1. Init => Inv /\ NumInv
    BY InitInv, InitNum
  <1>2. Inv /\ NumInv /\ [Next]_vars => Inv' /\ NumInv'
    BY NextInv, NumNext
  <1> QED BY <1>1, <1>2, PTL DEF Spec

\* Every variable stays within its type, for options whose modes fit: the counts
\* of the two programs agree, and no number exceeds the number of frames.
THEOREM StreamTypeOKHolds ==
  ASSUME ModesFit
  PROVE  Spec => []StreamTypeOK
  <1>1. ASSUME Inv, NumInv
        PROVE  StreamTypeOK
    <2>1. /\ params \in Params /\ next \in 0 .. FrameCount
          /\ Len(stream) = Len(recs) /\ Len(stream) \in Nat
          /\ file \in {<<>>, stream} /\ encState \in States
      BY <1>1 DEF Inv, ParamsInv, GroupsInv, FileInv, SourcesInv
    <2>2. \A i \in DOMAIN sources : sources[i] \in 0 .. FrameCount - 1
      <3>1. CASE encState = "encode"
        <4>1. /\ next \in Nat /\ next < FrameCount
              /\ sources = [i \in 1 .. GroupEnd - next |-> next + i - 1]
          BY <1>1, <3>1, <2>1 DEF Inv, SourcesInv
        <4>2. GroupEnd \in next + 1 .. FrameCount
          BY <4>1, GroupEndBounds
        <4> QED BY <4>1, <4>2, StreamAssumption
      <3>2. CASE encState # "encode"
        BY <1>1, <3>2 DEF Inv, SourcesInv
      <3> QED BY <3>1, <3>2
    <2>3. /\ decState \in {"off", "read", "write", "done", "failed"}
          /\ Len(decs) = pos /\ pos \in 0 .. Len(stream)
      <3>1. Len(file) = 0 \/ file = stream
        BY <2>1
      <3> QED BY <1>1, <2>1, <3>1 DEF Inv, DecoderInv
    <2>4. unit \in 0 .. 5 /\ context.frames \in Seq(Nat)
      <3>1. CASE unit = 0
        <4>1. context = EmptyContext
          BY <1>1, <3>1 DEF Inv, ContextInv
        <4>2. EmptyContext.frames = <<>> /\ <<>> \in Seq(Nat)
          BY DEF EmptyContext
        <4> QED BY <3>1, <4>1, <4>2
      <3>2. CASE unit # 0
        <4>1. PICK s : context = ContextAfter(unit, s, pos, FramesOf(pos + 1))
          BY <1>1, <3>2 DEF Inv, ContextInv
        <4>2. pos < Len(file) /\ pos \in Nat
          BY <1>1, <3>2 DEF Inv, ContextInv, DecoderInv
        <4>3. FramesOK(pos + 1)
          <5>1. pos + 1 \in 1 .. Len(stream)
            BY <2>1, <4>2
          <5> QED BY <1>1, <5>1 DEF Inv, GroupsInv
        <4>4. FramesOf(pos + 1) \in Seq(Nat)
          BY <4>3, FramesAreSeq
        <4>5. context.frames \in {<<>>, FramesOf(pos + 1)}
          BY <4>1 DEF ContextAfter, Context
        <4>6. context.frames \in Seq(Nat)
          <5>1. <<>> \in Seq(Nat)
            OBVIOUS
          <5> QED BY <4>4, <4>5, <5>1, Zenon
        <4>7. unit \in 0 .. 5
          BY <1>1 DEF Inv, ContextInv
        <4> QED BY <4>6, <4>7
      <3> QED BY <3>1, <3>2
    <2>5. encNumber \in Numbers /\ decNumber \in Numbers
          /\ encFiles \cup decFiles \cup measured \subseteq Numbers \X Numbers
      <3>1. /\ encNumber \in 0 .. next /\ decNumber \in 0 .. DecoderFirst
            /\ encFiles \cup decFiles \cup measured \subseteq Numbers \X Numbers
        BY <1>1 DEF NumInv, NumbersInv
      <3>2. DecoderFirst \in 0 .. next
        <4>1. decState = "write" => pos > 0
          BY <1>1 DEF Inv, DecoderInv
        <4>2. /\ decState = "write" => pos \in 1 .. Len(stream) + 1
              /\ pos + 1 \in 1 .. Len(stream) + 1
          BY <2>1, <2>3, <4>1
        <4> QED BY <1>1, <4>2, FirstBounds DEF DecoderFirst
      <3>3. FrameCount \in Nat
        BY StreamAssumption
      <3> QED BY <2>1, <3>1, <3>2, <3>3 DEF Numbers
    <2> QED BY <2>1, <2>2, <2>3, <2>4, <2>5 DEF StreamTypeOK
  <1> QED BY <1>1, NumInvHolds, PTL

\* With every file written, each cloud either program writes carries the number
\* of its frame, however the frames are cut into groups.
THEOREM NumberedByFrameHolds ==
  ASSUME ModesFit, SoundDisk
  PROVE  Spec => []NumberedByFrame
  <1>1. NumInv => NumberedByFrame
    BY DEF NumInv, ExactInv, NumberedByFrame
  <1> QED BY <1>1, NumInvHolds, PTL

\* And the decoder measures each cloud against the source it was coded from.
THEOREM MeasuredAgainstSourceHolds ==
  ASSUME ModesFit, SoundDisk
  PROVE  Spec => []MeasuredAgainstSource
  <1>1. NumInv => MeasuredAgainstSource
    BY DEF NumInv, ExactInv, MeasuredAgainstSource
  <1> QED BY <1>1, NumInvHolds, PTL

-----------------------------------------------------------------------------
\* The whole stream.  FlattenSeq is a recursive function; that it joins the
\* groups' frames is shown by the least group at which it would not.

\* Two ranges of frames that meet make one.
LEMMA FramesMeet ==
  ASSUME NEW a \in Nat, NEW b \in Nat, NEW c \in Nat, a <= b, b <= c
  PROVE  FramesFrom(a, b) \o FramesFrom(b, c) = FramesFrom(a, c)
  <1> DEFINE s == FramesFrom(a, b)
             t == FramesFrom(b, c)
             u == FramesFrom(a, c)
  <1>1. /\ s \in Seq(Nat) /\ Len(s) = b - a /\ \A i \in 1 .. b - a : s[i] = a + i - 1
        /\ t \in Seq(Nat) /\ Len(t) = c - b /\ \A i \in 1 .. c - b : t[i] = b + i - 1
        /\ u \in Seq(Nat) /\ Len(u) = c - a /\ \A i \in 1 .. c - a : u[i] = a + i - 1
    BY DEF FramesFrom
  <1> HIDE DEF s, t, u
  <1>2. s \o t \in Seq(Nat) /\ Len(s \o t) = c - a
    BY <1>1
  <1>3. ASSUME NEW i \in 1 .. c - a
        PROVE  (s \o t)[i] = u[i]
    <2>1. (s \o t)[i] = IF i <= Len(s) THEN s[i] ELSE t[i - Len(s)]
      <3>1. i \in 1 .. Len(s) + Len(t)
        BY <1>1
      <3>2. s \in Seq(Nat) /\ t \in Seq(Nat)
        BY <1>1
      <3> QED BY <3>1, <3>2, ConcatProperties
    <2>2. CASE i <= b - a
      BY <1>1, <2>1, <2>2
    <2>3. CASE ~(i <= b - a)
      <3>1. i - (b - a) \in 1 .. c - b
        BY <2>3
      <3>2. t[i - (b - a)] = b + (i - (b - a)) - 1
        BY <1>1, <3>1
      <3>3. u[i] = a + i - 1 /\ (s \o t)[i] = t[i - (b - a)]
        BY <1>1, <2>1, <2>3
      <3> QED BY <3>1, <3>2, <3>3
    <2> QED BY <2>2, <2>3
  <1>4. s \o t = u
    BY <1>1, <1>2, <1>3, SeqEqual
  <1> QED BY <1>4 DEF s, t, u

\* FlattenSeq puts consecutive ranges of frames together.
Flattened(s) ==
  CHOOSE f : f = [i \in 1 .. Len(s) |-> IF i = 1 THEN s[i] ELSE f[i - 1] \o s[i]]

\* Groups that follow each other from frame 0 on make one range of frames.
LEMMA FlattenRanges ==
  ASSUME NEW n \in Nat \ {0}, NEW s, Len(s) = n,
         NEW first \in [1 .. n + 1 -> Nat], first[1] = 0,
         \A g \in 1 .. n : /\ first[g] <= first[g + 1]
                           /\ s[g] = FramesFrom(first[g], first[g + 1])
  PROVE  FlattenSeq(s) = FramesFrom(0, first[n + 1])
  <1> DEFINE w == [i \in 1 .. n |-> FramesFrom(0, first[i + 1])]
             f == Flattened(s)
  <1>1. FlattenSeq(s) = f[n]
    BY Zenon DEF FlattenSeq, Flattened
  <1>2. \A i \in 1 .. n : w[i] = IF i = 1 THEN s[i] ELSE w[i - 1] \o s[i]
    <2> SUFFICES ASSUME NEW i \in 1 .. n
                 PROVE  w[i] = IF i = 1 THEN s[i] ELSE w[i - 1] \o s[i]
      OBVIOUS
    <2>1. CASE i = 1
      BY <2>1
    <2>2. CASE i # 1
      <3>1. /\ first[1] = 0 /\ first[i] \in Nat /\ first[i + 1] \in Nat
            /\ first[i] <= first[i + 1] /\ s[i] = FramesFrom(first[i], first[i + 1])
        OBVIOUS
      <3>2. w[i - 1] = FramesFrom(0, first[i]) /\ w[i] = FramesFrom(0, first[i + 1])
        BY <2>2
      <3> HIDE DEF w
      <3>3. FramesFrom(0, first[i]) \o FramesFrom(first[i], first[i + 1])
              = FramesFrom(0, first[i + 1])
        <4>1. PICK a \in Nat, b \in Nat : a = first[i] /\ b = first[i + 1] /\ a <= b
          BY <3>1
        <4>2. 0 \in Nat /\ 0 <= a
          BY <4>1
        <4>3. FramesFrom(0, a) \o FramesFrom(a, b) = FramesFrom(0, b)
          BY <4>1, <4>2, FramesMeet
        <4> QED BY <4>1, <4>3
      <3> QED BY <2>2, <3>1, <3>2, <3>3
    <2> QED BY <2>1, <2>2
  <1>3. w = [i \in 1 .. Len(s) |-> IF i = 1 THEN s[i] ELSE w[i - 1] \o s[i]]
    <2>1. w = [i \in 1 .. n |-> w[i]]
      OBVIOUS
    <2> HIDE DEF w
    <2> QED BY <1>2, <2>1
  <1>4. f = [i \in 1 .. Len(s) |-> IF i = 1 THEN s[i] ELSE f[i - 1] \o s[i]]
    <2> HIDE DEF w
    <2> QED BY <1>3, Zenon DEF Flattened
  <1> HIDE DEF f, w
  <1>5. \A i \in 1 .. n : f[i] = IF i = 1 THEN s[i] ELSE f[i - 1] \o s[i]
    BY <1>4
  <1>6. \A i \in 1 .. n : f[i] = w[i]
    <2> DEFINE T == {i \in 1 .. n : f[i] # w[i]}
    <2> SUFFICES ASSUME T # {} PROVE FALSE
      OBVIOUS
    <2>1. PICK i \in T : \A j \in T : i <= j
      <3>1. T \in SUBSET Nat
        OBVIOUS
      <3> HIDE DEF T
      <3> QED BY <3>1, LeastNumber
    <2>2. i \in 1 .. n /\ f[i] # w[i]
      OBVIOUS
    <2>3. i # 1
      BY <1>2, <1>5, <2>2
    <2>4. i - 1 \in 1 .. n /\ ~(i <= i - 1)
      BY <2>2, <2>3
    <2>5. i - 1 \notin T
      <3> HIDE DEF T
      <3> QED BY <2>1, <2>4
    <2>6. f[i - 1] = w[i - 1]
      BY <2>4, <2>5
    <2> QED BY <1>2, <1>5, <2>2, <2>3, <2>6
  <1> QED BY <1>1, <1>6 DEF w

\* What the file holds is every frame once and in order, or nothing: no run of
\* the encoder that fails or gives up leaves a part of a stream.
THEOREM WholeOrNothingHolds ==
  ASSUME ModesFit
  PROVE  Spec => []WholeOrNothing
  <1>1. ASSUME Inv, file # <<>>
        PROVE  FlattenSeq([g \in DOMAIN file |-> file[g][2].frames])
                 = [i \in 1 .. FrameCount |-> i - 1]
    <2>1. file = stream /\ next = FrameCount /\ FrameCount \in Nat
      BY <1>1, StreamAssumption DEF Inv, FileInv
    <2>2. stream \in Seq(Groups) /\ FirstOf(1) = 0
          /\ \A g \in 1 .. Len(stream) : FramesOK(g)
      BY <1>1 DEF Inv, GroupsInv
    <2>3. PICK n \in Nat \ {0} : n = Len(stream)
      BY <1>1, <2>1, <2>2
    <2> DEFINE s == [g \in 1 .. n |-> FramesOf(g)]
               first == [g \in 1 .. n + 1 |-> FirstOf(g)]
    <2>4. [g \in DOMAIN file |-> file[g][2].frames] = s
      BY <2>1, <2>2, <2>3 DEF FramesOf
    <2>5. Len(s) = n
      BY <2>3
    <2>6. FirstOf(n + 1) = FrameCount
      BY <2>1, <2>3 DEF FirstOf
    <2>7. first \in [1 .. n + 1 -> Nat] /\ first[1] = 0 /\ first[n + 1] = FrameCount
      <3>1. \A g \in 1 .. n : FirstOf(g) \in Nat
        BY <2>2, <2>3 DEF FramesOK
      <3>2. \A g \in 1 .. n + 1 : FirstOf(g) \in Nat
        BY <2>1, <2>6, <3>1
      <3> QED BY <2>2, <2>3, <2>6, <3>2
    <2>8. \A g \in 1 .. n : /\ first[g] <= first[g + 1]
                            /\ s[g] = FramesFrom(first[g], first[g + 1])
      <3>1. \A g \in 1 .. n :
              /\ FirstOf(g) <= FirstOf(g + 1)
              /\ FramesOf(g) = [i \in 1 .. FirstOf(g + 1) - FirstOf(g) |-> FirstOf(g) + i - 1]
        BY <2>2, <2>3 DEF FramesOK
      <3> QED BY <3>1 DEF FramesFrom
    <2> HIDE DEF s, first
    <2>9. FlattenSeq(s) = FramesFrom(0, first[n + 1])
      BY <2>5, <2>7, <2>8, FlattenRanges
    <2>10. FramesFrom(0, FrameCount) = [i \in 1 .. FrameCount |-> i - 1]
      BY <2>1 DEF FramesFrom
    <2> QED BY <2>4, <2>7, <2>9, <2>10
  <1>2. Inv => WholeOrNothing
    BY <1>1 DEF WholeOrNothing
  <1> QED BY <1>2, InvHolds, PTL

-----------------------------------------------------------------------------
(***************************************************************************)
(* The two applications implement CloudTransfer: what has been made is the *)
(* list of the encoder's groups, flattened, and what has been given out is *)
(* that of the decoder's.                                                  *)
(***************************************************************************)
\* Pixels of two layers are not to be interleaved, by no option set; a group
\* that fell back would be given out as something else than was made.
NotInterleaved ==
  \A o \in OptionSet : ~SetParameters(o).options.singleLayerPixelInterleaving

\* As many frames as a group has at most.
GroupLimit == Max({1, GroupSize})

CloudSet == [frame : Nat, how : Rebuilt]

TransferInv ==
  /\ Inv
  /\ ~params.options.singleLayerPixelInterleaving
  /\ Len(FlattenSeq(recs)) = next
  /\ \A g \in 1 .. Len(recs) : Len(recs[g]) \in 1 .. GroupLimit

\* A list of groups of clouds is one of lists of clouds.
LEMMA CloudListsFlat == Seq(CloudLists) \subseteq Seq(Seq(CloudSet))
<1>1. ASSUME NEW c \in CloudLists PROVE c \in Seq(CloudSet)
  <2>1. PICK frames \in Seq(Nat), how \in Rebuilt : c = Clouds(frames, how)
    BY DEF CloudLists
  <2>2. c = [i \in 1 .. Len(frames) |-> [frame |-> frames[i], how |-> how]]
    BY <2>1 DEF Clouds
  <2>3. Len(frames) \in Nat /\ \A i \in 1 .. Len(frames) : frames[i] \in Nat
    BY <2>1
  <2>4. c \in [1 .. Len(frames) -> CloudSet]
    BY <2>1, <2>2, <2>3 DEF CloudSet
  <2> QED
    BY <2>3, <2>4, SeqDef
<1>2. CloudLists \subseteq Seq(CloudSet)
  BY <1>1
<1> HIDE DEF CloudSet, CloudLists
<1> SUFFICES ASSUME NEW s \in Seq(CloudLists) PROVE s \in Seq(Seq(CloudSet))
  OBVIOUS
<1>3. s \in [1 .. Len(s) -> CloudLists] /\ Len(s) \in Nat
  BY LenProperties
<1>4. s \in [1 .. Len(s) -> Seq(CloudSet)]
  BY <1>2, <1>3
<1> QED
  BY <1>3, <1>4, SeqDef

\* A group that is decoded is the encoder's.
LEMMA SameClouds ==
  ASSUME TransferInv, NEW g \in 1 .. pos
  PROVE  /\ g \in 1 .. Len(recs) /\ decs[g] = recs[g]
         /\ Len(decs[g]) = Len(FramesOf(g)) /\ FramesOK(g)
<1>1. g \in 1 .. Len(stream) /\ g \in Nat /\ Len(stream) = Len(recs)
  <2>1. Len(stream) \in Nat /\ (Len(file) = 0 \/ file = stream)
    BY DEF TransferInv, Inv, GroupsInv, FileInv
  <2> QED
    BY <2>1 DEF TransferInv, Inv, DecoderInv, GroupsInv
<1>2. FramesOK(g) /\ CodedOK(g)
  BY <1>1 DEF TransferInv, Inv, GroupsInv
<1>3. PICK p \in Params, distant \in BOOLEAN :
        /\ p.options = params.options
        /\ Coded(g, SentSps(p, distant, g - 1))
        /\ recs[g] = Clouds(FramesOf(g), EncodedHow(p, distant, g - 1))
  BY <1>2 DEF CodedOK
<1>s. PICK s : s = SentSps(p, distant, g - 1)
  OBVIOUS
<1>4. SpsOK(s) /\ s \in SequenceParameterSets
      /\ stream[g] = EncodedUnits(s, g - 1, FramesOf(g))
  BY <1>3, <1>s DEF Coded, SpsOK
<1>5. stream[g][1].sps = KeptSps(s)
  BY <1>4, UnitFacts, SpsSent
<1>6. DecoderReconstruction(KeptSps(s)) = DecoderReconstruction(s)
  BY <1>4, SameVideos
<1>7. decs[g] = Clouds(FramesOf(g), DecoderReconstruction(stream[g][1].sps))
  BY DEF TransferInv, Inv, DecoderInv
<1>8. DecoderReconstruction(s) = EncodedHow(p, distant, g - 1)
  <2>1. g - 1 \in Nat
    BY <1>1
  <2>2. \/ DecoderReconstruction(SentSps(p, distant, g - 1)) = EncodedHow(p, distant, g - 1)
        \/ p.options.singleLayerPixelInterleaving
    BY <2>1, SameHow
  <2> QED
    BY <1>3, <1>s, <2>2 DEF TransferInv
<1>9. FramesOf(g) \in Seq(Nat)
  BY <1>2, FramesAreSeq
<1>10. Len(decs[g]) = Len(FramesOf(g))
  <2>1. PICK fs \in Seq(Nat) : fs = FramesOf(g)
    BY <1>9
  <2>2. PICK how : how = DecoderReconstruction(stream[g][1].sps)
    OBVIOUS
  <2>3. Len(Clouds(fs, how)) = Len(fs)
    BY CloudFacts
  <2> QED
    BY <1>7, <2>1, <2>2, <2>3
<1> QED
  BY <1>1, <1>2, <1>3, <1>5, <1>6, <1>7, <1>8, <1>10

\* The groups that are decoded are the first ones of the encoder.
DecodedFirst ==
  /\ decs = SubSeq(recs, 1, pos) /\ pos \in 0 .. Len(recs)
  /\ recs \in Seq(Seq(CloudSet)) /\ decs \in Seq(Seq(CloudSet))

LEMMA DecodedPrefix == TransferInv => DecodedFirst
<1> SUFFICES ASSUME TransferInv PROVE DecodedFirst
  OBVIOUS
<1>1. /\ recs \in Seq(CloudLists) /\ decs \in Seq(CloudLists) /\ Len(decs) = pos
      /\ Len(stream) = Len(recs)
  BY DEF TransferInv, Inv, GroupsInv, DecoderInv
<1>2. pos \in 0 .. Len(recs)
  <2>1. Len(stream) \in Nat /\ (Len(file) = 0 \/ file = stream)
    BY DEF TransferInv, Inv, GroupsInv, FileInv
  <2> QED
    BY <1>1, <2>1 DEF TransferInv, Inv, DecoderInv
<1>3. \A g \in 1 .. pos : decs[g] = recs[g]
  BY SameClouds
<1>4. /\ SubSeq(recs, 1, pos) \in Seq(CloudLists) /\ Len(SubSeq(recs, 1, pos)) = pos
      /\ \A g \in 1 .. pos : SubSeq(recs, 1, pos)[g] = recs[g]
  BY <1>1, <1>2
<1>5. decs = SubSeq(recs, 1, pos)
  BY <1>1, <1>3, <1>4, SeqEqual
<1> QED
  BY <1>1, <1>2, <1>5, CloudListsFlat DEF DecodedFirst

\* The most frames of a group are one at least.
LEMMA GroupLimitType == GroupLimit \in {1, GroupSize} /\ GroupLimit \in Nat
<1>1. GroupSize \in Nat
  BY StreamAssumption
<1> QED
  BY <1>1 DEF GroupLimit, Max

\* The smaller of two numbers.
LEMMA MinOfTwo ==
  ASSUME NEW a \in Nat, NEW b \in Nat
  PROVE  Min({a, b}) \in {a, b} /\ Min({a, b}) <= a
<1> DEFINE S == {a, b}
<1>1. \E x \in S : \A y \in S : x <= y
  <2>1. CASE a <= b
    BY <2>1
  <2>2. CASE b <= a
    BY <2>2
  <2> QED
    BY <2>1, <2>2
<1>2. a \in S
  OBVIOUS
<1> HIDE DEF S
<1>3. Min(S) \in S /\ \A y \in S : Min(S) <= y
  BY <1>1 DEF Min
<1> QED
  BY <1>2, <1>3 DEF S

\* The list of the clouds made is the encoder's, and a group that is added
\* adds one cloud at least and no more than a group has.
LEMMA GroupAdded ==
  ASSUME TransferInv, EncodeGroup, Inv', NEW clouds, recs' = Append(recs, clouds),
         Len(clouds) = Len(sources)
  PROVE  /\ FlattenSeq(recs') = FlattenSeq(recs) \o clouds
         /\ FlattenSeq(recs) \in Seq(CloudSet) /\ clouds \in Seq(CloudSet)
         /\ Len(sources) \in 1 .. GroupLimit
<1>1. recs \in Seq(CloudLists) /\ recs' \in Seq(CloudLists)
  BY DEF TransferInv, Inv, GroupsInv
<1>2. recs \in Seq(Seq(CloudSet)) /\ recs' \in Seq(Seq(CloudSet))
  BY <1>1, CloudListsFlat
<1>3. clouds \in Seq(CloudSet)
  <2>1. Len(recs) \in Nat /\ recs' \in Seq(Seq(CloudSet))
    BY <1>2
  <2>2. Len(recs') = Len(recs) + 1 /\ recs'[Len(recs) + 1] = clouds
    <3>1. IsSeq(recs)
      BY <1>2, LenProperties DEF IsSeq
    <3> QED
      BY <3>1, AppendIs
  <2>3. Len(recs) + 1 \in 1 .. Len(recs')
    BY <2>1, <2>2
  <2> QED
    BY <2>1, <2>2, <2>3, ElementOfSeq
<1>4. FlattenSeq(Append(recs, clouds)) = FlattenSeq(recs) \o clouds
  BY <1>2, <1>3, FlattenAppend
<1>5. FlattenSeq(recs) \in Seq(CloudSet)
  BY <1>2, FlattenType
<1>6. Len(sources) \in 1 .. GroupLimit
  <2>1. encState = "encode" /\ next \in Nat /\ next < FrameCount
    BY DEF EncodeGroup, TransferInv, Inv, SourcesInv, GroupsInv
  <2>2. sources = [i \in 1 .. GroupEnd - next |-> next + i - 1]
    BY <2>1 DEF TransferInv, Inv, SourcesInv
  <2>3. GroupEnd \in next + 1 .. FrameCount /\ FrameCount \in Nat
    BY <2>1, GroupEndBounds, StreamAssumption
  <2>4. Len(sources) = GroupEnd - next
    BY <2>1, <2>2, <2>3, RangeSeq
  <2>5. GroupEnd <= next + GroupLimit
    <3>1. GroupEnd = Min({next + GroupLimit, FrameCount})
      BY DEF GroupEnd, GroupLimit
    <3>2. GroupEnd \in {next + GroupLimit, FrameCount} /\ GroupEnd <= next + GroupLimit
      <4>1. PICK m \in Nat : m = next + GroupLimit
        BY <2>1, GroupLimitType
      <4>2. Min({m, FrameCount}) \in {m, FrameCount} /\ Min({m, FrameCount}) <= m
        BY <2>3, MinOfTwo
      <4> QED
        BY <3>1, <4>1, <4>2
    <3> QED
      BY <3>2
  <2> QED
    BY <2>1, <2>3, <2>4, <2>5, GroupLimitType
<1> QED
  BY <1>3, <1>4, <1>5, <1>6

\* A list that is made longer begins as it did.
LEMMA LongerBegins ==
  ASSUME NEW T, NEW s \in Seq(T), NEW t \in Seq(T)
  PROVE  /\ Len(s \o t) = Len(s) + Len(t)
         /\ SubSeq(s \o t, 1, Len(s)) = s
<1>1. s \o t \in Seq(T) /\ Len(s \o t) = Len(s) + Len(t)
      /\ \A i \in 1 .. Len(s) : (s \o t)[i] = s[i]
  <2>1. Len(s) \in Nat /\ Len(t) \in Nat
    OBVIOUS
  <2> QED
    BY <2>1, ConcatProperties
<1>2. Len(s) \in Nat /\ Len(t) \in Nat
  OBVIOUS
<1>3. PICK u \in Seq(T) : u = s \o t
  BY <1>1
<1>4. /\ SubSeq(u, 1, Len(s)) \in Seq(T) /\ Len(SubSeq(u, 1, Len(s))) = Len(s)
      /\ \A i \in 1 .. Len(s) : SubSeq(u, 1, Len(s))[i] = u[i]
  BY <1>1, <1>2, <1>3
<1>5. SubSeq(u, 1, Len(s)) = s
  BY <1>1, <1>3, <1>4, SeqEqual
<1> QED
  BY <1>1, <1>3, <1>5

\* What an encoded group does to the clouds that have been made.
LEMMA EncodeGroupMakes ==
  ASSUME TransferInv, EncodeGroup, Inv'
  PROVE  /\ Len(FlattenSeq(recs')) = next'
         /\ \A g \in 1 .. Len(recs') : Len(recs'[g]) \in 1 .. GroupLimit
         /\ Transfer!MakeGroup \/ UNCHANGED <<recs, file, decs>>
<1>1. UNCHANGED <<file, decs>> /\ encState = "encode"
  BY DEF EncodeGroup, decVars
<1>2. file = <<>>
  BY <1>1 DEF TransferInv, Inv, FileInv, EncoderEnded
<1>3. \/ UNCHANGED <<next, recs>>
      \/ next' = next + Len(sources) /\ \E how : recs' = Append(recs, Clouds(sources, how))
  BY DEF EncodeGroup
<1>4. CASE UNCHANGED <<next, recs>>
  BY <1>1, <1>4 DEF TransferInv
<1>5. CASE next' = next + Len(sources) /\ \E how : recs' = Append(recs, Clouds(sources, how))
  <2>1. PICK clouds : recs' = Append(recs, clouds) /\ Len(clouds) = Len(sources)
    <3>1. PICK how : recs' = Append(recs, Clouds(sources, how))
      BY <1>5
    <3>2. sources \in Seq(Nat)
      <4>1. encState = "encode" /\ next \in Nat /\ next < FrameCount
        BY <1>1 DEF TransferInv, Inv, SourcesInv, GroupsInv
      <4>2. sources = [i \in 1 .. GroupEnd - next |-> next + i - 1]
        BY <4>1 DEF TransferInv, Inv, SourcesInv
      <4>3. GroupEnd \in Nat /\ next <= GroupEnd
        BY <4>1, GroupEndBounds, StreamAssumption
      <4> QED
        BY <4>1, <4>2, <4>3, RangeSeq
    <3>3. Len(Clouds(sources, how)) = Len(sources)
      BY <3>2, CloudFacts
    <3> QED
      BY <3>1, <3>3
  <2>2. /\ FlattenSeq(recs') = FlattenSeq(recs) \o clouds
        /\ FlattenSeq(recs) \in Seq(CloudSet) /\ clouds \in Seq(CloudSet)
        /\ Len(sources) \in 1 .. GroupLimit
    BY <2>1, GroupAdded
  <2>3. /\ Len(FlattenSeq(recs')) = Len(FlattenSeq(recs)) + Len(clouds)
        /\ SubSeq(FlattenSeq(recs'), 1, Len(FlattenSeq(recs))) = FlattenSeq(recs)
    BY <2>2, LongerBegins
  <2>4. Len(FlattenSeq(recs)) = next /\ next \in Nat
    BY DEF TransferInv, Inv, GroupsInv
  <2>6. Len(FlattenSeq(recs')) \in
          Len(FlattenSeq(recs)) + 1 .. Len(FlattenSeq(recs)) + GroupLimit
    BY <2>1, <2>2, <2>3, <2>4, GroupLimitType
  <2>7. Transfer!MakeGroup
    BY <1>1, <1>2, <2>3, <2>6 DEF Transfer!MakeGroup, GroupLimit
  <2>8. \A g \in 1 .. Len(recs') : Len(recs'[g]) \in 1 .. GroupLimit
    <3>1. recs \in Seq(CloudLists) /\ recs' \in Seq(CloudLists)
      BY DEF TransferInv, Inv, GroupsInv
    <3>2. recs \in Seq(Seq(CloudSet)) /\ clouds \in Seq(CloudSet)
      BY <2>2, <3>1, CloudListsFlat
    <3>3. /\ Len(recs) \in Nat /\ Len(recs') = Len(recs) + 1 /\ recs'[Len(recs) + 1] = clouds
          /\ \A g \in 1 .. Len(recs) : recs'[g] = recs[g]
      BY <2>1, <3>2, AppendProperties
    <3> QED
      BY <2>1, <2>2, <3>3 DEF TransferInv
  <2> QED
    BY <1>5, <2>1, <2>3, <2>4, <2>7, <2>8
<1> QED
  BY <1>3, <1>4, <1>5

\* The stream that is written holds all clouds.
LEMMA WriteStreamStores ==
  ASSUME TransferInv, WriteStream
  PROVE  Transfer!Store \/ UNCHANGED <<recs, file, decs>>
<1>1. /\ encState = "load" /\ next >= FrameCount /\ file' \in {<<>>, stream}
      /\ UNCHANGED <<recs, decs>>
  BY DEF WriteStream, decVars
<1>2. file = <<>>
  BY <1>1 DEF TransferInv, Inv, FileInv, EncoderEnded
<1>3. next = FrameCount /\ Len(FlattenSeq(recs)) = FrameCount
  BY <1>1, StreamAssumption DEF TransferInv, Inv, GroupsInv
<1>4. CASE file' = <<>>
  BY <1>1, <1>2, <1>4
<1>5. CASE file' # <<>>
  BY <1>1, <1>2, <1>3, <1>5 DEF Transfer!Store
<1> QED
  BY <1>4, <1>5

\* A group that is decoded gives out the clouds that follow.
LEMMA DecodeGroupGives ==
  ASSUME TransferInv, DecodeGroup, TransferInv'
  PROVE  Transfer!GiveGroup
<1>1. pos' = pos + 1 /\ UNCHANGED <<file, recs, next>> /\ decState = "read" /\ unit = 5
  BY DEF DecodeGroup, encVars
<1>2. DecodedFirst /\ DecodedFirst'
  BY DecodedPrefix, PTL
<1>3. pos \in Nat /\ file # <<>>
  BY <1>1 DEF TransferInv, Inv, ContextInv, DecoderInv
<1>4. /\ decs = SubSeq(recs, 1, pos) /\ recs \in Seq(Seq(CloudSet))
      /\ decs \in Seq(Seq(CloudSet))
  BY <1>2 DEF DecodedFirst
<1>5. /\ decs' = SubSeq(recs, 1, pos + 1) /\ pos + 1 \in 0 .. Len(recs)
      /\ decs' \in Seq(Seq(CloudSet))
  BY <1>1, <1>2 DEF DecodedFirst
<1>g. PICK g : g = recs[pos + 1]
  OBVIOUS
<1>6. g \in Seq(CloudSet) /\ decs' = Append(decs, g)
  <2>1. pos + 1 \in 1 .. Len(recs)
    BY <1>3, <1>5
  <2>2. g \in Seq(CloudSet)
    BY <1>g, <1>4, <2>1, ElementOfSeq
  <2>3. /\ Len(decs') = pos + 1 /\ \A i \in 1 .. pos + 1 : decs'[i] = recs[i]
        /\ Len(decs) = pos /\ \A i \in 1 .. pos : decs[i] = recs[i]
    BY <1>3, <1>4, <1>5, <2>1
  <2>4. /\ Append(decs, g) \in Seq(Seq(CloudSet)) /\ Len(Append(decs, g)) = pos + 1
        /\ \A i \in 1 .. pos : Append(decs, g)[i] = recs[i]
        /\ Append(decs, g)[pos + 1] = recs[pos + 1]
    BY <1>g, <1>4, <2>2, <2>3, AppendProperties
  <2>5. ASSUME NEW i \in 1 .. pos + 1 PROVE decs'[i] = Append(decs, g)[i]
    <3>1. i \in 1 .. pos \/ i = pos + 1
      BY <1>3
    <3>2. decs'[i] = recs[i]
      BY <2>3
    <3> QED
      BY <2>4, <3>1, <3>2
  <2>6. decs' = Append(decs, g)
    BY <1>5, <2>3, <2>4, <2>5, SeqEqual
  <2> QED
    BY <2>2, <2>6
<1>7. FlattenSeq(decs') = FlattenSeq(decs) \o g /\ FlattenSeq(decs) \in Seq(CloudSet)
  BY <1>4, <1>6, FlattenAppend, FlattenType
<1>8. PICK rest \in Seq(CloudSet) : FlattenSeq(recs) = FlattenSeq(decs') \o rest
  BY <1>4, <1>5, FlattenPrefix
<1>9. Len(g) \in 1 .. GroupLimit
  BY <1>g, <1>3, <1>5 DEF TransferInv
<1>10. FlattenSeq(decs') \in Seq(CloudSet)
  BY <1>5, FlattenType
<1>11. /\ Len(FlattenSeq(decs')) = Len(FlattenSeq(decs)) + Len(g)
       /\ Len(FlattenSeq(recs)) = Len(FlattenSeq(decs')) + Len(rest)
       /\ SubSeq(FlattenSeq(recs), 1, Len(FlattenSeq(decs'))) = FlattenSeq(decs')
  BY <1>6, <1>7, <1>8, <1>10, LongerBegins
<1>12. /\ Len(rest) \in Nat /\ Len(FlattenSeq(decs)) \in Nat /\ Len(g) \in Nat
  BY <1>6, <1>7, <1>8
<1>13. \E n \in 1 .. GroupLimit :
         /\ Len(FlattenSeq(decs)) + n <= Len(FlattenSeq(recs))
         /\ FlattenSeq(decs') = SubSeq(FlattenSeq(recs), 1, Len(FlattenSeq(decs)) + n)
  <2> WITNESS Len(g) \in 1 .. GroupLimit
  <2> QED
    BY <1>11, <1>12
<1> QED
  BY <1>1, <1>3, <1>13 DEF Transfer!GiveGroup, GroupLimit

\* The programs start with nothing made, stored or given out.
LEMMA InitTransfers ==
  ASSUME ModesFit, NotInterleaved, Init
  PROVE  TransferInv /\ Transfer!Init
<1>1. Inv
  BY InitInv
<1>2. /\ recs = <<>> /\ decs = <<>> /\ file = <<>> /\ next = 0
      /\ \E o \in OptionSet : params = SetParameters(o)
  BY DEF Init
<1>3. FlattenSeq(recs) = <<>> /\ FlattenSeq(decs) = <<>>
  <2>1. Len(<<>>) = 0
    OBVIOUS
  <2>2. FlattenSeq(<<>>) = <<>>
    BY <2>1, FlattenIs
  <2> QED
    BY <1>2, <2>2
<1>4. ~params.options.singleLayerPixelInterleaving
  BY <1>2 DEF NotInterleaved
<1>5. TransferInv
  <2>1. Len(FlattenSeq(recs)) = next /\ Len(recs) = 0
    BY <1>2, <1>3
  <2> QED
    BY <1>1, <1>4, <2>1 DEF TransferInv
<1> QED
  BY <1>2, <1>3, <1>5 DEF Transfer!Init

\* A step of the applications is a step of CloudTransfer or none of its.
LEMMA NextTransfers ==
  ASSUME TransferInv, [Next]_vars
  PROVE  TransferInv' /\ [Transfer!Next]_(Transfer!vars)
<1>1. Inv' /\ ~params'.options.singleLayerPixelInterleaving
  <2>1. Inv
    BY DEF TransferInv
  <2> QED
    BY <2>1, NextInv, OptionsStay DEF TransferInv
<1>2. ASSUME UNCHANGED <<recs, next>> PROVE TransferInv'
  BY <1>1, <1>2 DEF TransferInv
<1>3. ASSUME UNCHANGED <<recs, file, decs>> PROVE [Transfer!Next]_(Transfer!vars)
  BY <1>3 DEF Transfer!vars
<1>4. CASE EncodeGroup
  <2>1. /\ Len(FlattenSeq(recs')) = next'
        /\ \A g \in 1 .. Len(recs') : Len(recs'[g]) \in 1 .. GroupLimit
        /\ Transfer!MakeGroup \/ UNCHANGED <<recs, file, decs>>
    BY <1>1, <1>4, EncodeGroupMakes
  <2>2. TransferInv'
    BY <1>1, <2>1 DEF TransferInv
  <2> QED
    BY <1>3, <2>1, <2>2 DEF Transfer!Next
<1>5. CASE WriteStream
  <2>1. UNCHANGED <<recs, next>>
    BY <1>5 DEF WriteStream
  <2>2. Transfer!Store \/ UNCHANGED <<recs, file, decs>>
    BY <1>5, WriteStreamStores
  <2> QED
    BY <1>2, <1>3, <2>1, <2>2 DEF Transfer!Next
<1>6. CASE DecodeGroup
  <2>1. UNCHANGED <<recs, next>>
    BY <1>6 DEF DecodeGroup, encVars
  <2>2. TransferInv'
    BY <1>2, <2>1
  <2>3. Transfer!GiveGroup
    BY <1>6, <2>2, DecodeGroupGives
  <2> QED
    BY <2>2, <2>3 DEF Transfer!Next
<1>7. CASE LoadGroup \/ OpenStream \/ ReadNextUnit \/ WriteGroup \/ CompareChecksums
           \/ UNCHANGED vars
  <2>1. UNCHANGED <<recs, next, file, decs>>
    BY <1>7 DEF LoadGroup, OpenStream, ReadNextUnit, WriteGroup, CompareChecksums,
                encVars, decVars, vars
  <2> QED
    BY <1>2, <1>3, <2>1
<1> QED
  BY <1>4, <1>5, <1>6, <1>7 DEF Next

\* The applications implement CloudTransfer, its liveness left aside: clouds are
\* made group by group, stored once, when they are all there, and what is given
\* out is at every step a longer beginning of them.
THEOREM TransferStepByStep ==
  ASSUME ModesFit, NotInterleaved
  PROVE  Spec => Transfer!Init /\ [][Transfer!Next]_(Transfer!vars)
<1>1. Init => TransferInv /\ Transfer!Init
  BY InitTransfers
<1>2. TransferInv /\ [Next]_vars => TransferInv' /\ [Transfer!Next]_(Transfer!vars)
  BY NextTransfers
<1> QED
  BY <1>1, <1>2, PTL DEF Spec
=============================================================================
