SPECIFICATION Spec
CONSTANTS
  Settings <- MCSettings
  MaximumPages = 3
  Faults = 2
INVARIANTS
  ForeignSurvives
  NothingIsLeft
  HonestCatalogPasses
  VerdictIsGenuine
  PaginationSound
PROPERTY ProbeTerminates
