SPECIFICATION FairSpec
CONSTANTS
  Engines = {"spark", "flink"}
  Before = {"nothing", "namespace", "table"}
  Faults = {"phantom", "doubled", "rollback", "runtime", "noise", "malformed", "long", "flood", "read", "call"}
INVARIANTS RunnerHandsOver PassIsEarned CollisionIsReal
PROPERTIES ForeignKept Terminates
