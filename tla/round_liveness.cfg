CONSTANTS
  Writers = {w1, w2}
  Main = main
  WarmupCommits = 1
  SequentialCommits = 1
  MaxSequence = 1
  Faults = {"refusal", "lost-answer", "unpersisted-ack", "writer-panic", "store-error", "foreign-table", "zero-elapsed"}
SPECIFICATION FairSpec
INVARIANT AcceptedIsPersisted
PROPERTY RoundTerminates
