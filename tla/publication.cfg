SPECIFICATION Spec
CONSTANTS
  p1 = p1
  p2 = p2
  Procs = {p1, p2}
  Settings <- MCSettings
INVARIANTS
  OneGeneration
  ImportIsExact
  RerunRepairs
  PagesTellTheBundles
PROPERTY PublishedStays
CHECK_DEADLOCK FALSE
