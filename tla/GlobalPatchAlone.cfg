\* Frames that are packed without a look at the frame before them.
SPECIFICATION GpaSpec
CONSTANTS
  Shapes <- ThreeShapes
  IOU <- Overlaps
  Threshold = 2
  MissedSizes <- OneMissed
  Options <- Unconstrained
  MinU = 4
  MinV = 4
  Resolution = 2
  PackFrames = 2
  MaxInFrame = 2
  MaxV = 32
PROPERTY
  NothingLost
