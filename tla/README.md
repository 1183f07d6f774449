# A verification project for VPCC-x265

VPCC-x265 is a fork of the MPEG V-PCC test model (TMC2): an encoder that turns a
sequence of point clouds into a V-PCC bitstream, and a decoder that rebuilds them.
Geometry is cut into *patches*, which are projected to planes and packed into images;
the images go through a video codec (x265, HM), and the *patch metadata* that says
where every patch lies and belongs goes through the program's own coder.

This directory holds TLA+ modules translated from the code under `src/source/`, TLC
runs on small instances and proofs for all instances. Seven parts are modelled.

- The *patch metadata coder*: encoder and decoder keep several predictors in step over
  many frames, and an error stays invisible until a cloud is rebuilt at the wrong place.
- The *stream*: the loops of the two applications over groups of frames, the options an
  encoder object carries from group to group, the five units of a group in the
  container, and what the decoder concludes from them.
- *Packing*: the patches of a frame are matched to those of the frame before, reordered
  and placed on a canvas that grows until they fit; encoder and decoder find the owner
  of a block by different rules.
- *Global patch allocation*: a second pass that packs runs of frames anew, attempt by
  attempt, rolls back what does not fit, and reorders lists that name each other.
- *Point local reconstruction*: modes whose number is not sent but follows from sizes
  the parser sums up with predictors of its own.
- *Bit input and output*: codes, alignment, videos, growth and the size patched in last.
- The *parallel loops* of segmentation, smoothing and colouring, as threads run them.

## 1. Inventory

| Component | Code (`src/source/...`) | State | Operations | Hard about it | Correct when |
|---|---|---|---|---|---|
| Patch metadata, encoder | `lib/PccLibEncoder/source/PCCEncoder.cpp` `createPatchFrameDataStructure` (4864-5136) | tile group per frame; predictors of index and size | one unit per matched, unmatched and missed points patch; end mark; needed widths | two conditions decide one frame type; predictors cross the border of inter and intra | the decoder can undo it |
| Patch metadata, decoder | `lib/PccLibDecoder/source/PCCDecoder.cpp` `createPatchFrameDataStructure` (413-648) | rebuilt frames; the same predictors | one patch per unit, from a reference in the frame before | rounding errors would add up along inter frames | rebuilt = packed |
| Patch tile group syntax | `PCCBitstreamEncoder.cpp` 688-1091, `PCCBitstreamDecoder.cpp` 714-1150 | header in force on each side | write / parse a tile group | P frames send only the widths that grow; no count of patches is sent | both sides cut the same bits |
| V-PCC container, application loops | `PccAppEncoder.cpp` 711-797, `PccAppDecoder.cpp` 255-322, `PCCBitstreamEncoder.cpp` 53-135, `PCCBitstreamDecoder.cpp` 45- | groups of frames, parameter sets, video units in order | encode / decode a group; load frames; write and read units | a frame that cannot be loaded; units that are read in a fixed order; a reference into a vector that has grown | decoder gets every group, in order, or reports a failure |
| Packing and matching | `PCCEncoder.cpp` 618-1525, `PCCPatch.h` 264-624 | canvas occupancy, horizon, matched pairs, placements | sort; match by view and overlap; reorder; place by one of three strategies; enlarge the canvas; missed points | loops until a patch fits; copies are reordered while indices name them; boxes are searched, occupied blocks are marked | no overlap, order kept, every frame packed |
| Block ownership | `PCCCodec.cpp` 1828-1941 | block-to-patch map, occupancy map | rebuilt by the decoder from bounding boxes, by the encoder from occupancy | boxes overlap, occupancy does not | decoder's owner = encoder's |
| Global patch allocation | `PCCEncoder.cpp` 3656-4797 | subcontexts, tracks, unions, the attempt under way and the one accepted before | track, unite, pack all frames anew, accept or roll back, reorder | three copies of every placement; a frame is visited again after a roll back | frames covered once, layout sound, nothing lost |
| Point local reconstruction | `PCCEncoder.cpp` 2567-2740, 4799-4862, `PCCBitstreamEncoder.cpp` 1094-1124, `PCCBitstreamDecoder.cpp` 1055-1183, `PCCDecoder.cpp` 355-395 | mode per patch or per block | search; write / parse / store | the number of modes is derived from sizes, and those from parsed units of the frame before | parser in step, modes arrive |
| Bit input and output | `PCCBitstream.h` 150-337, `PCCBitstream.cpp` | byte buffer, position | write, read, align, grow, copy videos, patch in the size | bits are ORed in; nothing checks the end of the buffer | read returns what was written |
| Segmentation | `PCCPatchSegmenter.cpp` | partitions, patches, raw points | normals, clusters, connected components, depths | floating point, parallel loops | depths are multiples of the level; result independent of the schedule |
| Reconstruction, smoothing, colouring | `PCCCodec.cpp`, `PCCEncoder.cpp` 3389-3451 | point sets | per pixel and per point arithmetic, `tbb::parallel_for` | loops read neighbours that other threads are about to change | result independent of the schedule |
| Video coding | `PCCVideoEncoder.h`, `PCCVideoDecoder.h`, `PCCSystem.cpp` | temporary files | external processes | failures of a process | frames come back in order |
| Parameters, point set I/O, metrics, checksums | `PCCEncoderParameters.cpp`, `PCCPointSet.cpp`, `lib/PccLibMetrics` | options, points, measured values | copy, read, write, measure | - | - |
| Vendored code | `src/dependencies` | - | - | - | - |

How they interact. The encoder application loads a group of frames and calls
`PCCEncoder::encode`, which segments and packs all frames, codes the images as
videos, and last of all, when nothing can change the patches any more, builds the
patch metadata (`createPatchFrameDataStructure`, called at `PCCEncoder.cpp:88`).
`PCCBitstreamEncoder` then writes parameter sets, patch metadata and videos.
`PCCBitstreamDecoder` parses a group, and `PCCDecoder::decode` decodes its videos,
rebuilds its patches frame by frame and rebuilds the clouds. The calls are
sequential; `tbb` loops run inside normals, segmentation, smoothing and colouring.
Packing hands its placements and matches to the metadata coder (`MatchingValid` is what
`PatchCodec` assumes of it, `ValidMatching`) and its block owners to reconstruction and to
the search for modes; global patch allocation rewrites placements and matches in between.

`PROJECT.json` lists every component with its status, and every hazard at its line.

## 2. What is modelled

| Module | Models | State |
|---|---|---|
| `PatchDataUnit` | what a patch becomes as a unit of syntax and back: quantised depths from the near or far side, clamped depth range, differences to a predictor or a reference, the modes of I and P frames | none: operators |
| `TileGroupHeader` | the widths of fixed-length fields: what a frame needs, what an I or a P frame sends, what is in force on each side, what a field of that width keeps of a value | none: operators |
| `PatchCodec` | one group of frames from the packed patches to the rebuilt ones | `src`, `pdg`, `enc`, `sent`, `rcvd`, `lost`, `dec`, `dcd` |
| `PatchTransfer` | the abstract promise: every packed frame is delivered unchanged, once, in order | `packed`, `delivered` |
| `MCPatchCodec` | the instances; compares the bit count and the cut of a value with the loops of the code | - |
| `VpccUnits` | options to parameters to parameter set, what a group makes of them, its videos, the five units it is written as, the parser, and how each side rebuilds a cloud | none: operators |
| `VpccStream` | the applications: `compressVideo` over all groups, then `decompressVideo` | `params`, `next`, `sources`, `stream`, `recs`, `encNumber`, `encFiles`, `encState`; `file`; `pos`, `unit`, `context`, `decs`, `decNumber`, `decFiles`, `measured`, `decState` |
| `CloudTransfer` | the abstract promise: clouds are made group by group, stored when all are made, and given out as they were made, to the last | `made`, `stored`, `got` |
| `MCVpccStream` | the instances of `VpccStream` | - |
| `Packing` | packing of a group: sorting, matching, reordering, the three strategies, missed points, and who owns a block on each side | `opt`, `frames`, `phase`, `patches`, `matched`, `id`, `placed`, `missed`, `canvas` |
| `MCPacking` | the instances; compares the spiral search with the loop of the code | - |
| `GlobalPatch` | extends `Packing` by global patch allocation | those of `Packing`; `step`, `at`, `first`, `tracks`, `unions`, `turned`, `packed`, `pre`, `subs` |
| `MCGlobalPatch` | the instances of `GlobalPatch` | - |
| `LoopBodies` | what one point's share of each parallel pass computes | none: operators |
| `PassByPass` | the abstract promise of the loops: each pass is one step | `in`, `pass`, `round`, `partition`, `position`, `boundary`, `color` |
| `ParallelLoops` | the loops as threads run them, read by read | the same arrays; `loop`, `todo`, `task`, `tempPartition`, `scoresSmooth`, `temp` |
| `MCParallelLoops` | the instances of `ParallelLoops` | - |
| `PointLocal` | modes of point local reconstruction from the search to the decoder's patches | `options`, `frames`, `plr`, `stream`, `parsed`, `pred`, `prevSize`, `decoded`, `lost` |
| `MCPointLocal` | the instance of `PointLocal` | - |
| `BitIO` | the buffer of bits, its codes, and a group of units written and read | `data`, `size`, `at`, `sizeAt`, `unit`, `count`, `written`, `readAt`, `got` |
| `MCBitIO` | the instance of `BitIO` | - |
| `Bits` | powers of two, fixed-length fields and their values, as recursive functions; used by `BitIO` and `PointLocal` | none: operators |
| `DataLemmas` | lemmas on numbers, sequences, joined sequences, powers of two and fields | none: proofs |
| `PatchCodecProofs`, `VpccStreamProofs`, `PackingProofs`, `GlobalPatchProofs`, `ParallelLoopsProofs`, `PointLocalProofs`, `BitIOProofs` | the theorems of the module each is named after (section 4) | none: proofs |

### The patch metadata coder

State and code: `src` holds the frames as packing leaves them (patches, index of the
match, `getNumMatchedPatches`, missed points patches); `pdg` the
`PatchTileGroup`s of the encoder's context; `enc` the local variables of
`createPatchFrameDataStructure` while it runs (units so far, `predIndex`,
`prevSizeU0`); `sent` the tile groups in the bitstream with the header in force after
each, which the writer stores back into the context; `rcvd` the same at the parser;
`dec` the decoder's frames; `dcd` the local variables of the decoder's function.
`lost` records that the parser used another width than the writer: from then on it
reads arbitrary bits, and the model stops there.

Actions: `Pack` (segmentation and packing of a frame, which may leave anything that
`ValidMatching` allows), `BuildInter`, `BuildIntra`, `BuildPcm`, `BuildEnd` (the
branches and the tail of the encoder's function), `WriteGroup`, `ParseGroup` (a whole
tile group), `DecodeIntra`, `DecodeInter`, `DecodePcm`, `DecodeUnknown`, `DecodeEnd`
(the branches and the end of the decoder's function).

Abstractions. `u0` stands for the four fixed-width position fields `U0`, `V0`, `U1`,
`V1` and `sizeU0` for both sizes: the code treats them alike, with a width of their
own each. `plane` stands for projection plane, orientation and 45 degree axis, which
travel together. Missed points are a count. Values coded with exp-Golomb codes have
no width and arrive as they were. An end mark ends the parse, as in the code, which
sends no number of patches. A frame has at least one patch (the code reads
`patches[0]` without a test).

### The stream

State and code: `params` is `params_` of the one `PCCEncoder` of the program, which
lives through all groups; `next` is `startFrameNumber` of its loop; `sources` the
frames of the group in hand; `stream` the `PCCBitstream` in memory, group by group;
`recs` the encoder's checksums; `encNumber` and `encFiles` the numbers under which
`PCCGroupOfFrames::write` wrote the rebuilt clouds. `file` is the stream file. The
decoder has its position (`pos` groups, `unit` of the five units), the context of the
group it reads (parameter sets by identifier, the identifier of the last unit header,
videos), its checksums `decs`, and its own numbers and files. `measured` holds which
source each cloud was measured against.

Actions: `LoadGroup` (the loop head and `sources.load`), `EncodeGroup`
(`PCCEncoder::encode` from `initializeContext` to the units, then the rest of the loop:
checksums, writing of clouds), `WriteStream` (the end of `compressVideo`), `OpenStream`,
`ReadNextUnit` (one call of `vpccUnit`), `DecodeGroup` (`PCCDecoder::decode`),
`WriteGroup` (metrics and writing of a group), `CompareChecksums`. A missing video, a
missing parameter set and a combination of options "not implemented" end a program by
`exit`; each is an outcome of its own.

Abstractions. A frame is its number, and a cloud is a frame with the way it was
rebuilt: number of layers, interleaving, depth coding, missed points, videos used. Two
clouds have equal checksums when both agree. A unit header takes 32 bits in all its
variants. A parser that expects other elements or videos than were written reads
arbitrary bits, and the model stops it (`misread`). The first frame number is 0 and the
same for both programs. The encoder's stream is read by the decoder after the encoder
has ended; a file from an earlier run is not considered. A file that cannot be written
is absent. The contents of the modes of point local reconstruction are left out, their
number is not. The patch metadata of a group is the list of its frames: that it arrives
as it was is what `PatchCodec` is about.

### Packing

State and code: `frames` are the packed frames of the group with their image sizes;
`patches`, `missed` and `canvas` (width, height, occupied blocks, horizon, extent) are
the locals of the packing function at work, `matched` and `id` those of its matching
loop, `placed` how many patches of the list lie on the canvas; `phase` says which loop is
running. The options that choose between the functions are in `opt`.

Actions: `Segment` (what comes from segmentation, sorted by size where the strategy
sorts), `MatchOne` (one round of the loop over the patches of the frame before),
`Reorder`, `Place` (one patch), `Grow` (no place: the canvas is doubled), `PlacedAll`,
and for missed points `PlaceMissed`, `GrowMissed`, `PlacedMissed`. The strategies differ
in the places they try and their order: anchor (`pack`), flexible (`packFlexible`,
`spatialConsistencyPackFlexible`), tetris (`packTetris`, `spatialConsistencyPackTetris`).

Abstractions. Sizes and positions are in blocks, except those of missed points, which are
in pixels as in the code. Overlap and view of two patches are given. Equal size keys may
be sorted either way (`std::sort` is not stable); the anchor strategy compares pixels, which
leaves the order of patches of equal height in blocks open. Among the places above the horizon the
tetris strategy takes one of least waste; the model leaves open which.

### Global patch allocation

The variables of `Packing` are used again for laying patches; `tracks` are the candidate
lists, `unions` the union patches with their common place, `turned` whether the union that is
being laid has an orientation left from a search that failed, `packed` the data of the
attempt (`GPAPatchData` of the current subcontext), `pre` that of the attempt accepted
last (`preGPAPatchData`), `subs` what is finished. Actions: `StartSubContext`, `FirstLaid`,
`Track`, `GiveUp` (too few tracks), `Unite`, `BeginFrame`, `FrameLaid`, `Reject` (roll
back), `Accept`, with `LayPatch`, `LayMissed`, `LayGrow` for the laying itself, and
`PackStep` for packing before it. `Update` is `updatePatchInformation`, the reordering of
patches and renumbering of matches at the end of a subcontext.

Orientations of a union. With a frame before the subcontext a union takes the orientation of
its match. One without a match begins with -1 and is tried in all orientations at the first
place; the one tried last stays in `getPatchOrientation()`, and from the second place on
(`PCCEncoder.cpp:3977`), also after the canvas has grown, counts as known (`UnionFreeTries`).
Where that orientation exchanges the axes and the union is higher than the canvas is wide, the
code doubles the canvas for ever: this is `GpaTooWide`, and `AllocationEnds` promises nothing
then. With the default canvas of 1280 pixels no union of a cloud of 10 bits is that high.

Excluded by assumption: packing strategy 0, with which `packingFirstFrame` leaves sizes
of 0 behind (`PCCEncoder.cpp:4053`), more than one missed points patch, and frames
without a patch.

### Parallel loops

A loop of `tbb::parallel_for` gives every index to some thread (`Take`); the thread reads
its neighbours one by one (`CountNeighbour`, `ReadNeighbour`) and then writes at its own
index (`StartPartition`, `Choose`, `SmoothPoint`, `MovePoint`, `BlendColor`, `PaintPoint`).
`task_arena::execute` returns when all indices are done: `EndPass`, `SwapPartitions`. The
scheduler is external: which thread takes which index when, and in which order a thread
reads, is open. A cloud goes through initial segmentation, the iterations of
`refineSegmentation`, `smoothPointCloud`, the colour transfer, `presmoothPointCloudColor`
and `smoothPointCloudColor`; a decoder's cloud starts at smoothing.

Abstractions. Positions and colours have one component. The radii of neighbourhood and of
boundary detection are one. The test on entropy counts tones. Source and rebuilt cloud
have the same indices. The sequential grid variants of smoothing are not modelled.

### Point local reconstruction

`plr` holds level and modes the encoder chose for each patch (`Search`); `stream` the
units with their bits of point local reconstruction and the differences of sizes that are
written before them; `parsed`, `pred` and `prevSize` are the parser's units and members
`predPatchIndex_`, `prevPatchSizeU_`, `prevPatchSizeV_`; `decoded` the patches of the
decoder, which derives the sizes once more. `lost` says that the parser took another
number of bits for a patch than were written, after which it is not followed.

Abstractions. Other fields of a unit are left out, and so are missed points, which come
last and carry no modes. Which mode is best is open within a few patterns. The default
number of modes is the subject of `VpccUnits`. A frame has at least one patch.

### Bit input and output

`data` is the set of bits that are 1, `size` the size of the buffer, `at` and `readAt` the
positions of writer and reader, `sizeAt` where the total size belongs. The writer writes
the container header, parameter set and patch data as any fields, and videos, with
alignment where the code aligns; the reader reads the same syntax. The size is written as
64 bits of a 32 bit value; shifting that far is undefined, so the upper half is open: 0 or
the value again. No one uses the field when reading. Left out: traces, statistics, and
streams that end early (nothing checks for it).

Definitions marked "A mistake" next to a definition of the model (for instance
`DecodeInterNoStep`) are wrong variants, used only to show that the properties notice
them; nothing in the specification refers to them.

## 3. Runs

**Instances and bounds.** Those of `PatchCodec` use levels of 4 on a 16 wide axis (the
code: 64 on 1024) and a clamp of 15 (the code: 255), which, like the code's, is one less
than a multiple of the level, so that rounding a clamped range is not exact. Two or three
patches to choose from, at most two in a frame, reach: no match, one match, two matches,
a match that skips a patch, a scene cut, an intra patch after an inter patch. Three
frames reach an inter patch whose reference is an inter patch; a longer chain repeats
that step, and the proofs cover it. Prediction is on in every instance; that a frame which is
matched but coded without prediction drops its count of matched patches (`PCCEncoder.cpp:4932`)
is left to the proof, since `LosslessHolds` holds for both values of `InterPred`. `MaxBits` is
the width of the counted integers; 10 exceeds every value.

Those of `VpccStream` give a byte four values and an identifier and a count of modes
two, so that three groups wrap an identifier round in its field and the number of a group
still differs from it in the byte (the code: 256, 16 and 16). Five frames in groups of
two make three groups and a short last one. Group size 0, which the code takes for 1,
makes four groups of four frames. A fallback may happen in any group, so that each
order of groups with and without it occurs.

`Packing` takes two frames (`PackFrames`) of up to two patches (`MaxInFrame`) and a
canvas two blocks wide, doubled from two up to 32 blocks of height (`MaxV`; the code has
no bound). That reaches a patch in the hole of another one's box, a patch that must be
turned, one too wide in every orientation, a tie between matches, an earlier patch
taking the match of a later one, and missed points patches that need a larger canvas.
Two frames are all that matching ever looks at; the proofs cover the rest. Five
combinations of options reach each strategy with and without matching.

`GlobalPatch` takes three frames, so that a subcontext grows, is accepted, grows again
and is rolled back, and a frame is visited a second time. With two patches in a frame a
list can be reordered in two ways, which is enough to tell a wrong renumbering. One shape is
five blocks high on a canvas four wide: it is laid and packed while it stands upright, comes to
the end of the search as a union without a match that is left lying (`GpaTooWide`), and as a patch
matched to one that lies (`TooWide`). The square shape is laid in the orientation left over, and
such a subcontext is accepted.

`ParallelLoops` has three points and two threads: two points at work, each other's
neighbours, and one done or still to do. A third thread would only put off what two can
interleave on a third point. Two iterations of the refinement reach the exchange of the
two arrays and the reading of what was exchanged.

`PointLocal` has blocks up to two by two, sizes at and around the two thresholds, a byte of
eight values (the code: 256) with a `patchSize` of more, and three frames, since an
inter patch's size is derived from a patch whose size was derived. `BitIO` has a page of 32
bytes and a word of 16 bits (the code: 4096 and 32), videos that leave the buffer as full as
it can get, and a margin of two bytes (`Margin`, the code: 16) which the fields of one
unit nearly use up.

| Run | Instance | Shows | Distinct states |
|---|---|---|---|
| `low_delay` | 3 frames, prediction, scene cuts, near and far patches | exact patches, parser in step, widths that only grow | 194 794 |
| `missed_points` | 2 frames, prediction, missed points, no scene cut; fairness | missed points patches are rebuilt, their widths and modes fit; the codec implements `PatchTransfer`; every frame is delivered | 28 252 |
| `stress` | patches of different levels of detail, missed points, scene cuts | what holds even then: same references; the only undecoded units are missed points of later I frames; the parser loses its place only over a level of detail | 79 462 |
| `plane45` | 45 degree planes with absolute coding | violated: `Lossless` | - |
| `stream_options` | all 128 combinations of flags with 1 and 2 modes, fallbacks, frames that cannot be loaded | the parser is in step; no video or parameter set is missing; clouds differ only after a fallback of interleaved layers; each is measured against its source; no group changes the options of the next | 10 504 |
| `stream_failures` | three sets of options, failures of loading and writing at every point; fairness | the file holds every frame in order or nothing; the applications implement `CloudTransfer`; both programs end | 48 172 |
| `packing` | 2 frames, four shapes, all strategies; fairness | matches as the metadata coder needs them, none wasted; patches apart and in the image; one owner on both sides; all frames packed unless a patch is too wide | 42 355 |
| `global_patch` | 3 frames, three shapes, a missed points patch; fairness | subcontexts cover the frames; tracks follow matches; no patch and no match is lost; sound layout; the allocation ends unless a patch or union is too wide | 20 497 |
| `global_patch_alone` | the same, frames packed without matching | violated: `NothingLost` | - |
| `parallel_loops` | 3 points, 2 threads, clouds of encoder and decoder; fairness | each loop computes what one step over the cloud before it would | 47 252 |
| `point_local` | 3 frames, patches of one to four blocks | the parser finds the number of modes, or gets out of step exactly at patches coded without a search; modes arrive | 3 515 412 |
| `bit_io` | header, fields of each code, videos, patched size | nothing is written behind the buffer; all is read back | 2 323 757 |

The two violations are disagreements between the code and what it says of itself;
`PROJECT.json` quotes both sides under `findings`.

**Known limits, stated exactly.** Six more disagreements need no run of their own, since
a property says where they begin and end, or a hypothesis keeps them out:

| Disagreement | Code | Where it is bounded |
|---|---|---|
| the level of detail count is not sent minus one, but a P frame's parser adds one | `PCCBitstreamDecoder.cpp:846` | `LostOnlyByLod`; hypothesis `UniformLod` |
| missed points of a later I frame get the mode of a P frame | `PCCEncoder.cpp:5084` | `UnknownOnlyMissed`; hypothesis `PcmModesAgree` |
| with `absoluteD1` off an inter patch inherits a mode chosen per patch | `PCCPatchSegmenter.cpp:371` | hypothesis `ModesFromView` |
| a group that falls back from interleaved layers is announced as it was | `PCCEncoder.cpp:2561` | `DifferOnlyByFallback` |
| 0, the default number of modes, wraps round in a byte | `PCCEncoder.cpp:4802` | hypothesis `ModesFit` |
| a union without a match keeps the orientation tried last as if it were known (the comment: "already knonw Patch Orientation"), and one too high for it never finds a place | `PCCEncoder.cpp:3977` | `AllocationEnds`, second disjunct |

After a cloud could not be written, the number of the next one falls behind its frame:
`PCCGroupOfFrames::write` returns at the first failure and no caller asks. The
following clouds go to files of earlier numbers, and the decoder measures against
earlier sources. `MeasuredAgainstSource` is therefore checked where no writing fails
(`stream_options`), and the comparison of checksums, which does not use numbers, is
checked where it may (`stream_failures`).

**Fairness** is weak fairness of the steps of the program taken together, everywhere.
Encoder and decoder are sequential programs that never wait: while a step is possible,
the process takes one. In `ParallelLoops` no thread waits for another but at the end of a
loop, and it is enough that some thread goes on. `AllDelivered`, `Ends`,
`EveryFramePacked`, `AllocationEnds` and the liveness of the three abstract promises use
it; every other property is checked and proved without fairness.

**Deadlock** is checked where programs end in one way: `Terminated` (`PackEnds`, `GpaEnds`)
stutters when everything is done, when a parser is lost, or when a patch or a union is too
wide at the bound of the canvas, and no other state may be without a step. Both programs of
`VpccStream` really end, in several ways, so deadlock is not checked there: `Ends` says
which states may be the last.

## 4. Proofs

`DataLemmas` holds what several components need: induction on sets of naturals, sequences
that grow by one, joined sequences (`FlattenSeq`), powers of two, that the value of a
fixed-length field is the number it was made of, and lists of numbers in order (`Lists`,
`Rises`: a set has one such list, and a rising map carries it to the list of its image).

`PatchCodecProofs` begins with the lemmas on the operators of `PatchDataUnit` and
`TileGroupHeader`: the quantisers are inverse on what segmentation produces; the encoder's and the
decoder's rounding of a depth range agree; a value below the bit count's power of two
is not cut; headers keep their type. Powers of two are a recursive function whose
equation is proved from its definition by a table for every bound.

It proves the inductive invariant `Inv`. TLC's properties are far
from inductive: nothing in `SameReference`, say, tells what is in the tile groups in
flight. `Inv` therefore describes every intermediate product as a function of the
packed frames: `PdgOK` (each tile group is `GroupOf(f)`, unit by unit `UnitOf(f, i)`),
`EncOK` (so is the part under construction, and the predictors are `PredAfter`,
`SizeAfter`), `SentOK` (each group is written with the header that follows from the
one before), `RcvdOK` (the parser's units are the written ones up to the end mark; its
widths are the writer's, but for the level of detail once a P frame has sent one),
`LostOK`, `DecOK` and `DcdOK` (the decoder's predictors are the encoder's),
`PackFirst` (nothing else begins before all frames are packed). One lemma per action,
one step per part that the action can disturb. From it: `TypeCorrect`,
`SameReferenceHolds`, `LostOnlyByLodHolds`, `WidthsOnlyGrowHolds`, for every value of the
constants that the assumptions allow. `UnknownOnlyMissedHolds` needs one part more,
`InPlace`: the decoder's patches of a frame are those of the encoder up to the unit it has
reached, or up to the first missed points unit of a later I frame, which has the mode of a P
frame and ends the patches that are rebuilt.

Its last part proves when the codec is exact. Each hypothesis is a condition on
options and patches, and without each there is a run, a property or a hazard that shows
the loss:

| Hypothesis | Says | Without it |
|---|---|---|
| `UniformLod` | all patches have one level of detail | `LostOnlyByLod`: the parser is lost |
| `PcmModesAgree` | no missed points in a later I frame | `UnknownOnlyMissed`: those units are not decoded |
| `AxisAgrees` | no far plane on a doubled axis | run `plane45` |
| `ModesFromView` | a patch's side follows from its view where it is predicted | hazard at `PCCPatchSegmenter.cpp:371` |
| `FieldsWide` | level above 1 (above 2 with 45 degree planes), depths below the range | hazard at `PCCBitstreamEncoder.cpp:1001` |
| `ClampsAgree` | `maxAllowedDepth` is the decoder's 255 | hazard at `PCCDecoder.cpp:483` |

The default options satisfy all six; so do the instances of `low_delay` and
`missed_points`, so the hypotheses are not empty. `InStep` needs the
first only, `KnownUnitsHolds` the second, `NothingCutHolds` the second and fifth,
`LosslessHolds` and `CodecTransfers` all of them (`Exact`). The argument of the last
two: `AllExact` adds to `Inv` that the frame being rebuilt equals the packed one up to
the current unit and that the size predictors are equal; then each decoder branch
undoes the encoder's by the lemmas on quantisers. `CodecTransfers` is the safety half of
the refinement the run `missed_points` checks: packing maps to `PackOne`, the end of a
frame's decoding to `DeliverOne`, every other step to a stutter.

`VpccStreamProofs` begins with the lemmas on the options and units of `VpccUnits`: parameters from
`setParameters` are settled; the parameter set a group is sent with agrees with its own
flags and with the videos created; each of the five units leaves the parser with
`ContextAfter` that many units; what survives the coding of a parameter set decides the
videos and the way a cloud is rebuilt; and the encoder rebuilds the same way, or fell
back while interleaving (`SameHow`).

It proves the inductive invariant `Inv` of the stream. The properties say
nothing of the groups already written or of the units half read, so `Inv` has a part for
each: `ParamsInv` (the parameters between two groups are settled, with the original
options), `SourcesInv` (the frames in hand), `GroupsInv` (each group holds the frames
from `FirstOf(g)` up to `FirstOf(g + 1)`, and comes from some parameters with the same
options, fallen back or not), `FileInv` (a file exists only when all is encoded),
`ContextInv` (the decoder's context is `ContextAfter` of the group it reads),
`DecoderInv` (its clouds are those of the groups before). One lemma per action. From it:
`ParserInStepHolds`, `NothingMissingHolds`, `DifferOnlyByFallbackHolds`,
`OptionsKeptHolds`, `WholeOrNothingHolds`. `NumInv` adds the numbers of the clouds: never
ahead of the frames (`StreamTypeOKHolds` needs that much), and equal to them while every
file is written (`NumberedByFrameHolds`, `MeasuredAgainstSourceHolds`). Frame loading may
fail, groups may fall back, and disks may be bad, at any point and any number of times;
the number of frames and the size of a group are any the assumptions allow.

| Hypothesis | Says | Without it |
|---|---|---|
| `ModesFit` | the number of modes minus one fits its four bits | hazard at `PCCEncoder.cpp:4802` |
| `SoundDisk` | no file fails to be written (last two theorems only) | hazard at `PccAppDecoder.cpp:311` |

`TransferStepByStep` is the safety half of `ImplementsCloudTransfer`: encoding a group maps to
`MakeGroup`, writing the file to `Store`, decoding a group to `GiveGroup`, and every other step
to a stutter. It needs `FlattenAppend`, what the joined clouds of a stream do with one more
group, and two hypotheses: `ModesFit`, and `NotInterleaved`, that no option set interleaves
layers, since a group that falls back is given out otherwise than it was made.

`DifferOnlyByFallback` is as strong as it can be: a group that falls back while
interleaving is rebuilt from two layers by the encoder and from one by the decoder.

`PackingProofs` proves the inductive invariant `PackInv` of packing, from
`PackingAssumption` alone. It joins four parts, and says of the frame under way what the
properties say of the finished ones. `TypeInv` adds to the types that a frame in progress
is one of the group. `MatchInv` has one case per phase: after `id` rounds, `matched`
names the patches whose match is set, in the order of their matches, each of one view with
it, and no round so far has left a better one (`NoneBetter` up to `id`). The step that needs
an argument is `Reorder`: `matched` rises in its matches, so it repeats no patch
(`NoRepeat`), the new list is a permutation (`OntoIsOneToOne`), and no overlap changes.
`LayInv` says of the patches on the canvas that their blocks are marked in it, and
`Layout`: their boxes lie in the image, missed points below the others, and what a patch
occupies is outside of the boxes of all placed after it. `FramesLayout` says the same of
finished frames. From it: `PackingTypes`, `MatchingIsValid`, `MatchingIsBest`,
`PatchesApart`, `PatchesInside` and `OwnersAgree`. The last is the argument behind the decoder's shortcut: several boxes may
hold an occupied block, but a patch is placed only where its whole box is free, so no box
holds a block that an earlier patch occupies, and of all boxes that hold the block its
owner's is the last in the list. `MatchingIsValid` gives the assumption `ValidMatching` of
`PatchCodec` its source.

`ParallelLoopsProofs` proves the loops for any number of points and threads and any
iterations, from `LoopAssumption` and `ThreadAssumption`. `PartialResults` is inductive but
for one fact, that an iteration begun is one of those to be done (`RoundLeft`): its parts
say which indices are at work and nobody else's (`TasksOK`), what they have read, and what
those that are done have written, each in terms of the arrays as they were when the loop
began. Only three things happen to the threads, taking, reading on and ending
(`Begun`, `GoneOn`, `Ended`), and each body adds what it writes at its own index. From it
`PartialResultsHold`, and `LoopsArePasses`, the safety half of `ImplementsPasses`: a
body hides what it writes (`BodyHidden`), the barrier after the loop that computes is the
step of the pass, and the barrier after the loop that copies shows nothing new
(`CopyHidden`). So no schedule changes a cloud.

`PointLocalProofs` proves the inductive invariant `InStep` of point local reconstruction.
`Settled` and `Written` say what the encoder has decided and that the stream holds the unit
of each patch. `ParsedOK` and `PredOK` tie the parser's units and its two predictors to the
encoder's: each unit parsed has the match, the index and the size the encoder derived, and
the right modes unless the patch is `Ambiguous`: its modes are given block by block, although
it has so few blocks that the parser expects one mode for all. `LostOK` says that it is out of step exactly after such
a patch, `DecodedOK` that the decoder's third derivation gives the same sizes and modes.
The bits of a patch are a joined sequence of fields, and `PlrReadBack` takes them apart again
(mode by mode, `ReadAllModes`). From it: `OutOfStepOnlyUnsearchedHolds` and
`ModesArriveHolds`, with no hypothesis.

`BitIOProofs` proves the inductive invariant `Kept` of the buffer, with no hypothesis.
`Laying` says that there are positions, one at the border of any two items, such that each
item written *spells* its value between its two positions (`Spells`, one case per code), and
the reader stands at one of them, having read the values before it. One lemma per code says
that the writer makes an item spell its value and changes no bit before it (bits are ORed in,
so it matters that nothing stands behind the position yet), and one that the reader, wherever
an item is spelled, finds the value and the next position. Exp-Golomb codes need that the
number of leading zeros is that of the value's length, which is an argument on powers of two.
The size that is patched in last is the third item, and all others keep away from it.
`Room` says that the buffer has room for the words that may still come before it grows:
growth is decided before a field is written, by `Margin`, and videos grow it by their size.
From it: `KeptHolds`, `InBufferHolds`, `ReadBackHolds`.

`GlobalPatchProofs` proves `SubContextsCover` from the control state alone (`Control`: where the
loop is, which frames are accepted, which are being packed anew). The other theorems have the
hypothesis `MatchedBefore`, that every option set packs a frame with a look at the one before:
without it `NothingLost` is violated, which is what `global_patch_alone` shows. There are three
inductive invariants, each the one before and more.

- `FollowInv`. Until all frames are packed it is `PackInv` and what the allocation needs
  besides (`PackExtra`: a match is worth more than the threshold). Then `OpenInv`: the
  frames that are not in a finished subcontext are as packing left them, matched patches
  first and in the order of their matches, and no better pair left (`Chained`); a track has a patch of each
  frame, matched to the one before, no two tracks meet or cross, and those that go on have
  the first patches of the last frame (`TracksOK`). The step is `OpenTrack`: tracks are continued
  one after the other, each with the best patch that is left; since tracks do not cross and
  the matched patches rise with their matches, the patch matched to the end of a track is
  still there and no other is better (`BestIsMatch`, `TrackedIs`). From it: `TracksFollowMatchesHolds`.
- `AlignInv`. `ReadyFor` says of the packings a roll back would return to, and of those that
  are to be accepted, that the global patches of each frame are matched to
  those of the frame before, all of them, and lie where they lie (`Chain`), and that the last
  frame has its own first. `PackedLike` says it of the packings at hand in terms of tracks and unions.
  What finishing makes of such frames is computed once (`FinishedIs`): the new order lists the global
  patches in the order of the first frame and then the others (`IsOrder`), which
  is the order of the matches, so that the match of the patch at each place, renumbered, still names
  the same patch (`RenumberedIs`). From it: `GlobalsAlignedHolds`, and with `FinishedWay`
  `NothingLostHolds`.
- `LayoutInv`. `FinalLayout` and `FinalOwners` only speak of finished frames, but three kinds
  of things are on the way to one. A packing that is kept (`PackingIs`, for all of `pre` and `packed`
  by `PackingsOK`) is laid out in the order *global patches first* (`Prior`), which
  is not yet the order of its list; of two patches, what the first occupies is outside of the box of
  the second, and all boxes lie above a row from which the missed points patch goes down. `LayingInv`
  says it of the canvas at work, half filled: what lies there is marked, `Ground` (the global
  patches of the frame) before anything of the list. `UnionInv` says that the place of a union holds
  the shape of every patch of its track (`HoldsTrack`), up to the frame the attempt has come to,
  so that global patches, put there without a look at the canvas, keep apart in each frame because
  the unions do. Finishing (`CloseLayout`) sorts the list by the order in which it was laid, and
  `LayoutSound`, the lemma that already gives `OwnersAgree`, turns that into what is in the image, what
  overlaps and who owns a block. A roll back (`RollBackKeeps`) is why all of `pre` has to be known: it
  lays the boxes back, but a missed points patch gets back its row and not its size
  (`PCCEncoder.cpp:4238`). `MissedStays` says that the size is the old one anyway, as packing it again
  derives the same from the same number of points, while no patch widens the canvas. From it:
  `FinalLayoutHolds` and `FinalOwnersHolds`.

| Hypothesis | Says | Without it |
|---|---|---|
| `MatchedBefore` | frames are packed with a look at the frame before | run `global_patch_alone` |
| `MissedSound` (last two theorems only) | if there are missed points patches: where they have a video of their own the strategy is not the tetris one, else every patch is narrower than the canvas at first | a missed points patch keeps the size of the attempt rolled back; or it was laid by `packTetris`, whatever its video, and the allocation does not lay it again |

The last is what the default options give: the canvas is 1280 pixels wide
(`PCCEncoderParameters.cpp:69`), a patch of a cloud of 10 bits at most 1024. The instance of
`global_patch` satisfies both. With a patch five blocks wide on a canvas of four and a missed points
patch of five blocks TLC finds `FinalLayout` violated: the image of the frame is narrower than its
missed points patch. What follows is not modelled: `resizeGeometryVideo`
(`PCCEncoder.cpp:2740`) gives all frames of the group the width of the widest.

Induction. The library's induction rules take an operator as a parameter, which the
installed provers cannot instantiate. Where induction along a sequence is needed (the
parser's widths, the equations of powers of two) it is done on sets: a set of
naturals that contains 0 and is closed under successor is all of them (`SetInduction`);
for the frames of a whole stream (`FlattenRanges`), the least group at which the joined
frames would go wrong is shown not to exist.

Not proved, only model-checked: liveness (`AllDelivered`, `Ends`, the fairness halves of
`ImplementsTransfer`, `ImplementsCloudTransfer` and `ImplementsPasses`), `EveryFramePacked` and
`AllocationEnds`. Every invariant a passing run checks is a theorem.

## 5. Plan

1. Done: `PatchDataUnit`, `TileGroupHeader`, `PatchCodec`, `PatchTransfer`, with proofs.
2. Done: `VpccUnits`, `VpccStream`, `CloudTransfer`, with proofs. Open: colours of missed
   points (the frames of the first group are set up before they are switched on).
3. Done: `Packing`, with proofs. Open: the occupancy map of a frame after coding (precision,
   `refineOccupancyMap`), which may enlarge what a patch owns.
4. Done: `GlobalPatch`, with proofs.
5. Done: `PointLocal`, with proofs.
6. Done: `BitIO`, with proofs.
7. Done: `LoopBodies`, `PassByPass`, `ParallelLoops`, with proofs. Open: the pass that
   transfers colours, whose result is an input.
8. `VideoFiles`: temporary files and external processes of the video wrappers, with
   failing processes.
9. Missed points as a whole: which points a group misses, their patches, their video and
   their colours, from the encoder's first group to the decoder's clouds.

## 6. Not modelled, and why

Normals, the search for neighbours (kd-tree), the geometry of connected components and
metrics are floating point arithmetic over point sets: TLC cannot enumerate it and their
control flow is straight. What other parts rely on (`IsSegmented`, `SameView`, the overlap
of two patches) is stated as assumptions on patches. Of segmentation, smoothing and
colouring, the loops that run in parallel are modelled; the grid variants of smoothing are
sequential and keep sums per cell. The video wrappers write files, call a codec in the process or
a program outside it, and read files; their failures end the program. PLY
reading and writing and tracing keep no state others depend on. Of the options, those
that decide what is in the stream are in `VpccUnits`; the others are copied.
SEI messages, metadata units and the parameter sets of patches are copied field by field in
one order on both sides.

Code under `src/dependencies` (TBB and its examples, the HEVC parser, changes to HM,
nanoflann, libmd5, the parser of options) is third-party and makes up most of the lines of the
repository; what the program relies on of it is marked external where a module uses it.
