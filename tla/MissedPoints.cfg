\* Inter frames that carry missed points patches, without a scene cut; the
\* codec implements the abstract transfer, and ends.
SPECIFICATION FairSpec
CONSTANTS
  MinLevel = 4
  Max3D = 16
  CoordBits = 4
  MaxBits = 10
  MaxAllowedDepth = 15
  DepthClamp = 15
  AbsoluteD1 = TRUE
  Plane45 = FALSE
  NumFrames = 2
  MaxPatches = 2
  PatchSet <- UniformPatches
  PcmSet <- PcmPatches
  MaxPcm = 1
  InterPred = TRUE
  Constrained = TRUE
  SceneCuts = FALSE
INVARIANTS
  NothingCut
  KnownUnits
PROPERTIES
  ImplementsTransfer
  AllDelivered
