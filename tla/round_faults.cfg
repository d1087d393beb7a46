CONSTANTS
  Writers = {w1, w2}
  Main = main
  WarmupCommits = 1
  SequentialCommits = 1
  MaxSequence = 1
  Faults = {"refusal", "lost-answer", "late-execution", "spurious-conflict", "writer-panic"}
SPECIFICATION Spec
SYMMETRY WriterSymmetry
INVARIANTS
  ForeignFixtureSurvives
  CleanupAfterMutation
  QuietAfterJoin
  SharedWindow
  EveryRequestAccounted
  PassMeansClean
  AcceptedIsWhatHappened
