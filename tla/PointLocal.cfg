SPECIFICATION Spec
CONSTANTS
  Modes = 3
  ByteMod = 8
  PatchSizes = {0, 2, 10}
  Shapes <- MCShapes
  MaxPatches <- MCMaxPatches
  Outcomes <- MCOutcomes
INVARIANTS OutOfStepOnlyUnsearched ModesArrive
