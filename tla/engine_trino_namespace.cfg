SPECIFICATION Spec
CONSTANTS
  Engines = {"trino"}
  Before = {"nothing", "namespace", "table"}
  Faults = {}
  MaxProbes = 1
PROPERTIES ForeignKept
