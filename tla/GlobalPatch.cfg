\* Three frames of one or two patches and a missed points patch.
SPECIFICATION FairGpaSpec
CONSTANTS
  Shapes <- ThreeShapes
  IOU <- Overlaps
  Threshold = 2
  MissedSizes <- OneMissed
  Options <- RandomAccess
  MinU = 4
  MinV = 4
  Resolution = 2
  PackFrames = 3
  MaxInFrame = 2
  MaxV = 32
INVARIANTS
  SubContextsTile
  TracksFollowMatches
  MatchingValid
  GlobalsAligned
  FinalLayout
  FinalOwners
PROPERTIES
  NothingLost
  AllocationEnds
