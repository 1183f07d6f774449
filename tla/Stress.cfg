\* Levels of detail that differ between patches, missed points in later I
\* frames: what still holds when the decoder cannot follow.
SPECIFICATION Spec
CONSTANTS
  MinLevel = 4
  Max3D = 16
  CoordBits = 4
  MaxBits = 10
  MaxAllowedDepth = 15
  DepthClamp = 15
  AbsoluteD1 = TRUE
  Plane45 = FALSE
  NumFrames = 2
  MaxPatches = 2
  PatchSet <- MixedLods
  PcmSet <- PcmPatches
  MaxPcm = 1
  InterPred = TRUE
  Constrained = TRUE
  SceneCuts = TRUE
INVARIANTS
  SameReference
  UnknownOnlyMissed
  LostOnlyByLod
