\* Two frames of up to two patches and two missed points patches, packed with
\* every strategy.
SPECIFICATION FairPackSpec
CONSTANTS
  Shapes <- FourShapes
  IOU <- Overlaps
  Threshold = 2
  MissedSizes <- Missed
  Options <- Ways
  MinU = 2
  MinV = 2
  Resolution = 2
  PackFrames = 2
  MaxInFrame = 2
  MaxV = 32
INVARIANTS
  PackingTypeOK
  MatchingValid
  NoBetterLeft
  Apart
  InsideImage
  OwnersRight
PROPERTIES
  EveryFramePacked
