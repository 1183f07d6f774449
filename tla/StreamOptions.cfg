\* Every combination of options, any group falling back to two layers.
SPECIFICATION Spec
CONSTANTS
  ByteMod = 4
  IdMod = 2
  ModeMod = 2
  FrameCount = 5
  GroupSize = 2
  OptionSet <- CodedModes
  Distances = {FALSE, TRUE}
  MissingInput = {FALSE, TRUE}
  BadDisk = {FALSE}
  Output = TRUE
  Metrics = TRUE
INVARIANTS
  ParserInStep
  NothingMissing
  DifferOnlyByFallback
  MeasuredAgainstSource
PROPERTIES
  OptionsKept
CHECK_DEADLOCK FALSE
