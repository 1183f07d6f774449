\* Frames that cannot be loaded, files that cannot be written, at any point;
\* the group size 0 makes groups of one frame.
SPECIFICATION FairSpec
CONSTANTS
  ByteMod = 4
  IdMod = 2
  ModeMod = 2
  FrameCount = 4
  GroupSize = 0
  OptionSet <- Several
  Distances = {FALSE, TRUE}
  MissingInput = {FALSE, TRUE}
  BadDisk = {FALSE, TRUE}
  Output = TRUE
  Metrics = FALSE
INVARIANT
  WholeOrNothing
PROPERTIES
  ImplementsCloudTransfer
  Ends
CHECK_DEADLOCK FALSE
