\* 45 degree planes with absolute coding of the far depths.
SPECIFICATION Spec
CONSTANTS
  MinLevel = 4
  Max3D = 16
  CoordBits = 4
  MaxBits = 10
  MaxAllowedDepth = 15
  DepthClamp = 15
  AbsoluteD1 = TRUE
  Plane45 = TRUE
  NumFrames = 1
  MaxPatches = 2
  PatchSet <- FarPatches
  PcmSet <- NoPcm
  MaxPcm = 0
  InterPred = TRUE
  Constrained = TRUE
  SceneCuts = TRUE
INVARIANTS
  Lossless
