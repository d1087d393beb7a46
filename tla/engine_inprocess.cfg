SPECIFICATION FairSpec
CONSTANTS
  Engines = {"trino", "duckdb"}
  Before = {"nothing", "namespace", "table"}
  Faults = {"phantom", "doubled", "rollback", "runtime", "call"}
  MaxProbes = 2
INVARIANTS PassIsEarned RunnerHandsOver
PROPERTIES Terminates
