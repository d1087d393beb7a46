CONSTANTS
  Writers = {w1, w2}
  Main = main
  WarmupCommits = 1
  SequentialCommits = 1
  MaxSequence = 1
  Faults = {"orphan-object", "unpersisted-ack"}
SPECIFICATION Spec
SYMMETRY WriterSymmetry
INVARIANT AcceptedIsPersisted
