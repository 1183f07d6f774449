\* Lossy low-delay: frames matched to the previous one, inter prediction,
\* scene cuts, absolute coding of the far depths.
SPECIFICATION Spec
CONSTANTS
  MinLevel = 4
  Max3D = 16
  CoordBits = 4
  MaxBits = 10
  MaxAllowedDepth = 15
  DepthClamp = 15
  AbsoluteD1 = TRUE
  Plane45 = FALSE
  NumFrames = 3
  MaxPatches = 2
  PatchSet <- UniformPatches
  PcmSet <- NoPcm
  MaxPcm = 0
  InterPred = TRUE
  Constrained = TRUE
  SceneCuts = TRUE
INVARIANTS
  TypeOK
  Lossless
  BitAligned
  WidthsOnlyGrow
