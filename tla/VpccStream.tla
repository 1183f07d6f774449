----------------------------- MODULE VpccStream -----------------------------
(***************************************************************************)
(* A sequence of clouds through the two applications.  The encoder loads   *)
(* group after group of frames, encodes each with one encoder object whose *)
(* parameters live on from group to group, and writes the bitstream when   *)
(* all are done.  The decoder reads the groups back and rebuilds them.     *)
(* Frames are their numbers; a cloud is a frame with the way it was        *)
(* rebuilt, and two clouds have equal checksums when both agree.           *)
(***************************************************************************)
EXTENDS VpccUnits, SequencesExt

CONSTANTS
  OptionSet,     \* options the encoder may be started with
  FrameCount,    \* option frameCount
  GroupSize,     \* option groupOfFramesSize
  Distances,     \* BOOLEAN where a group may lie far from its first layer
  MissingInput,  \* BOOLEAN where a frame may fail to load
  BadDisk,       \* BOOLEAN where a file may fail to be written
  Output,        \* option reconstructedDataPath is given, to both
  Metrics        \* option computeMetrics of the decoder

\* The assertion of PCCEncoder.cpp on the size of a group, and the options.
ASSUME StreamAssumption ==
  /\ OptionSet \subseteq Options
  /\ FrameCount \in Nat \ {0}
  /\ GroupSize \in 0 .. ByteMod - 1
  /\ {Distances, MissingInput, BadDisk} \subseteq SUBSET BOOLEAN
  /\ FALSE \in Distances /\ FALSE \in MissingInput /\ FALSE \in BadDisk
  /\ {Output, Metrics} \subseteq BOOLEAN

VARIABLES
  params,     \* parameters of the encoder object
  next,       \* startFrameNumber: the first frame not encoded yet
  sources,    \* frames loaded for the group in hand
  stream,     \* the groups in the encoder's bitstream, each its five units
  recs,       \* checksums of the encoder's clouds, by group
  encNumber,  \* the number the next cloud of the encoder is written under
  encFiles,   \* <<number, frame>> for each cloud the encoder wrote
  encState,   \* "load", "encode" or how the encoder ended
  file,       \* groups in the stream file; none before it is written
  pos,        \* groups the decoder has decoded
  unit,       \* units read of the next group
  context,    \* context of the decoder for that group
  decs,       \* checksums of the decoder's clouds, by group
  decNumber,  \* the number the next cloud of the decoder is written under
  decFiles,   \* <<number, frame>> for each cloud the decoder wrote
  measured,   \* <<source, frame>> for each cloud it measured
  decState    \* "off", "read", "write" or how the decoder ended

encVars == <<params, next, sources, stream, recs, encNumber, encFiles,
             encState, file>>
decVars == <<pos, unit, context, decs, decNumber, decFiles, measured, decState>>
vars == <<params, next, sources, stream, recs, encNumber, encFiles,
          encState, file, pos, unit, context, decs, decNumber, decFiles,
          measured, decState>>

EncoderEnded == encState \in {"done", "failed", "exit"}

Init ==
  /\ \E o \in OptionSet : params = SetParameters(o)
  /\ next = 0 /\ sources = <<>> /\ stream = <<>> /\ recs = <<>>
  /\ encNumber = 0 /\ encFiles = {} /\ encState = "load" /\ file = <<>>
  /\ pos = 0 /\ unit = 0 /\ context = EmptyContext /\ decs = <<>>
  /\ decNumber = 0 /\ decFiles = {} /\ measured = {} /\ decState = "off"

-----------------------------------------------------------------------------
\* compressVideo

GroupEnd == Min({next + Max({1, GroupSize}), FrameCount})

\* A mistake: the last frame is not counted.
MoreFramesButLast == next < FrameCount - 1

MoreFrames == next < FrameCount

\* A frame that cannot be opened ends the program.
LoadGroup ==
  /\ encState = "load"
  /\ MoreFrames
  /\ \E missing \in MissingInput :
       IF missing
       THEN encState' = "failed" /\ UNCHANGED sources
       ELSE /\ sources' = [i \in 1 .. GroupEnd - next |-> next + i - 1]
            /\ encState' = "encode"
  /\ UNCHANGED <<params, next, stream, recs, encNumber, encFiles, file, decVars>>

\* PCCGroupOfFrames::write: the number is counted on before a cloud is
\* written, and the first failure ends the loop.  With a failure at cloud k
\* the later ones are neither written nor counted, and no caller asks;
\* k = 0 is no failure.
FailuresAt(clouds) ==
  {0} \cup (IF Output /\ TRUE \in BadDisk THEN DOMAIN clouds ELSE {})

\* A mistake: the size of the group is added once more.
NumberAfterTwice(number, clouds, k) ==
  number + 2 * (IF k = 0 THEN Len(clouds) ELSE k)

NumberAfter(number, clouds, k) == number + (IF k = 0 THEN Len(clouds) ELSE k)

FilesWritten(number, clouds, k) ==
  {<<number + i - 1, clouds[i].frame>> :
     i \in 1 .. (IF ~Output THEN 0 ELSE IF k = 0 THEN Len(clouds) ELSE k - 1)}

\* A mistake: a group that fell back decides for the next.
RestoredParamsForgotten(p, original) == p

\* What the encoder object keeps for the next group.
RestoredParams(p, original) ==
  [p EXCEPT !.options.oneLayerMode = original.options.oneLayerMode,
            !.options.singleLayerPixelInterleaving =
              original.options.singleLayerPixelInterleaving]

\* PCCEncoder::encode, from the parameter set to the five units, and the rest
\* of the application's loop.
EncodeGroup ==
  /\ encState = "encode"
  /\ \E distant \in Distances :
       LET index == Len(stream)
           p == GenerateGeometry(params, distant)
           s == GeometrySps(params, InitializeContext(params, index))
           sent == PointLocalSps(p, s)
           clouds == Clouds(sources, EncoderReconstruction(p, s))
       IN  IF \/ ~p.options.absoluteD1 /\ p.options.lossyMissedPointsPatch
              \/ ~(AllVideos(sent) \subseteq CreatedVideos(p, s))
           THEN /\ encState' = "exit"
                /\ UNCHANGED <<params, next, stream, recs, encNumber, encFiles>>
           ELSE /\ stream' = Append(stream, EncodedUnits(sent, index, sources))
                /\ params' = RestoredParams(p, params)
                /\ recs' = Append(recs, clouds)
                /\ \E k \in FailuresAt(clouds) :
                     /\ encNumber' = IF Output THEN NumberAfter(encNumber, clouds, k)
                                     ELSE encNumber
                     /\ encFiles' = encFiles \cup FilesWritten(encNumber, clouds, k)
                /\ next' = next + Len(sources)
                /\ encState' = "load"
  /\ sources' = <<>>
  /\ UNCHANGED <<file, decVars>>

\* A mistake: the stream is written after every group.
WriteStreamEarly ==
  /\ encState = "load"
  /\ next > 0
  /\ \E bad \in BadDisk : file' = IF bad THEN <<>> ELSE stream
  /\ encState' = IF next < FrameCount THEN "load" ELSE "done"
  /\ UNCHANGED <<params, next, sources, stream, recs, encNumber, encFiles, decVars>>

\* The stream is complete.  That it cannot be written is not noticed.  A
\* lossless encoder fails when its clouds differ from the sources, but has
\* written the stream by then.
WriteStream ==
  /\ encState = "load"
  /\ next >= FrameCount
  /\ \E bad \in BadDisk : file' = IF bad THEN <<>> ELSE stream
  /\ encState' \in {"done"} \cup (IF params.options.losslessGeo THEN {"failed"} ELSE {})
  /\ UNCHANGED <<params, next, sources, stream, recs, encNumber, encFiles, decVars>>

-----------------------------------------------------------------------------
\* decompressVideo, started after the encoder has ended

OpenStream ==
  /\ EncoderEnded
  /\ decState = "off"
  /\ decState' = IF file = <<>> THEN "failed" ELSE "read"
  /\ UNCHANGED <<encVars, pos, unit, context, decs, decNumber, decFiles, measured>>

\* One of the five vpccUnit calls for a group.
ReadNextUnit ==
  /\ decState = "read"
  /\ pos < Len(file) /\ unit < 5
  /\ context' = ReadUnit(context, file[pos + 1][unit + 1])
  /\ unit' = unit + 1
  /\ decState' = IF context'.state = "ok" THEN "read" ELSE context'.state
  /\ UNCHANGED <<encVars, pos, decs, decNumber, decFiles, measured>>

\* PCCDecoder::decode, once the units are read; the next group has a context
\* of its own.
DecodeGroup ==
  /\ decState = "read"
  /\ unit = 5
  /\ IF CanDecode(context)
     THEN /\ decs' = Append(decs, Clouds(context.frames,
                                         DecoderReconstruction(Sps(context))))
          /\ decState' = "write"
     ELSE decState' = "exit" /\ UNCHANGED decs
  /\ pos' = pos + 1
  /\ unit' = 0 /\ context' = EmptyContext
  /\ UNCHANGED <<encVars, decNumber, decFiles, measured>>

\* Metrics load the sources from the number the clouds will be written under,
\* and end the program when one is missing.  Without output the number is
\* advanced by the size of the group.
WriteGroup ==
  /\ decState = "write"
  /\ \E missing \in MissingInput :
       LET clouds == Last(decs)
       IN  IF Metrics /\ missing
           THEN decState' = "failed" /\ UNCHANGED <<decNumber, decFiles, measured>>
           ELSE \E k \in FailuresAt(clouds) :
             /\ decState' = "read"
             /\ decNumber' = NumberAfter(decNumber, clouds, k)
             /\ decFiles' = decFiles \cup FilesWritten(decNumber, clouds, k)
             /\ measured' = IF ~Metrics THEN measured ELSE measured \cup
                  {<<decNumber + i - 1, clouds[i].frame>> : i \in DOMAIN clouds}
  /\ UNCHANGED <<encVars, pos, unit, context, decs>>

\* checksum.compareRecDec; a file of checksums that could not be written is
\* read as none.
CompareChecksums ==
  /\ decState = "read"
  /\ pos = Len(file)
  /\ \E bad \in BadDisk :
       decState' = IF ~bad /\ FlattenSeq(decs) = FlattenSeq(recs) THEN "done"
                   ELSE "failed"
  /\ UNCHANGED <<encVars, pos, unit, context, decs, decNumber, decFiles, measured>>

Next ==
  \/ LoadGroup \/ EncodeGroup \/ WriteStream
  \/ OpenStream \/ ReadNextUnit \/ DecodeGroup \/ WriteGroup \/ CompareChecksums

Spec == Init /\ [][Next]_vars
FairSpec == Spec /\ WF_vars(Next)

-----------------------------------------------------------------------------
\* Types of all variables.
States == {"load", "encode", "done", "failed", "exit"}
Numbers == 0 .. FrameCount
StreamTypeOK ==
  /\ params \in Params
  /\ next \in 0 .. FrameCount
  /\ \A i \in DOMAIN sources : sources[i] \in 0 .. FrameCount - 1
  /\ Len(stream) = Len(recs)
  /\ Len(decs) = IF decState = "exit" THEN pos - 1 ELSE pos
  /\ unit \in 0 .. 5 /\ context.frames \in Seq(Nat)
  /\ encNumber \in Numbers /\ decNumber \in Numbers
  /\ encState \in States
  /\ file \in {<<>>, stream}
  /\ pos \in 0 .. Len(stream)
  /\ encFiles \cup decFiles \cup measured \subseteq Numbers \X Numbers
  /\ decState \in {"off", "read", "write", "done", "failed", "exit", "misread"}

\* The parser reads the elements of a parameter set and the videos of a unit
\* that the writer sent, in every group and after any fallback.
ParserInStep == decState # "misread"

\* No video and no parameter set is missing on either side: the exits of
\* getVideoBitstream and getSps are never taken.  What ends the encoder is
\* the combination of options it announces as not implemented, and such a
\* stream never comes to the decoder.
NothingMissing ==
  /\ decState # "exit"
  /\ encState = "exit" => /\ ~params.options.absoluteD1
                          /\ params.options.lossyMissedPointsPatch

\* Every cloud the decoder rebuilds is the encoder's, rebuilt the same way.
\* Where it is not, pixels of two layers were to be interleaved and the group
\* fell back to two layers; the frames are right even then.
DifferOnlyByFallback ==
  \A g \in DOMAIN decs :
    /\ Len(decs[g]) = Len(recs[g])
    /\ \A i \in DOMAIN decs[g] :
         LET dec == decs[g][i]
             rec == recs[g][i]
         IN  /\ dec.frame = rec.frame
             /\ \/ dec.how = rec.how
                \/ /\ params.options.singleLayerPixelInterleaving
                   /\ ~rec.how.oneLayer
                   /\ dec.how = [rec.how EXCEPT !.interleaved = TRUE]

\* A stream in the file has every frame once and in order, whatever failed on
\* the way: an encoder that stops half way leaves no part of a stream.
WholeOrNothing ==
  file # <<>> =>
    FlattenSeq([g \in DOMAIN file |-> file[g][2].frames])
      = [i \in 1 .. FrameCount |-> i - 1]

\* The clouds both applications write carry the numbers of their frames.
NumberedByFrame == \A f \in encFiles \cup decFiles : f[1] = f[2]

\* The decoder measures a cloud against the source it was coded from.
MeasuredAgainstSource == \A m \in measured : m[1] = m[2]

\* A group that falls back to two layers does so for itself only: no encoded
\* group changes the options of the next.
OptionsKept == [][params'.options = params.options]_vars

\* Clouds reach the reader of the decoder unchanged, in order, and all or none.
Transfer == INSTANCE CloudTransfer WITH
  GroupSize <- Max({1, GroupSize}),
  made <- FlattenSeq(recs), stored <- file # <<>>, got <- FlattenSeq(decs)
ImplementsCloudTransfer == Transfer!Spec

\* Both programs end, and a stream that was stored is decoded to its end.
Ends == <>(EncoderEnded /\ decState \in {"done", "failed", "exit"})
=============================================================================
