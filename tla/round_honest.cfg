CONSTANTS
  Writers = {w1, w2}
  Main = main
  WarmupCommits = 1
  SequentialCommits = 1
  MaxSequence = 2
  Faults = {}
SPECIFICATION Spec
INVARIANT HonestCatalogPasses
