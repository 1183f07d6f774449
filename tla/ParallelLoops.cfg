SPECIFICATION FairSpec
CONSTANTS
  Points <- MCPoints
  Orients <- MCOrients
  Iterations = 2
  Weight = 1
  Radius = 3
  Threshold = 1
  MaxTones = 2
  Red <- MCRed
  Inputs <- MCInputs
  Threads = {t1, t2}
  NoPoint = NoPoint
INVARIANT PartialResults
PROPERTY ImplementsPasses
