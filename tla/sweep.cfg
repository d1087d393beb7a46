SPECIFICATION Spec
CONSTANT Settings <- MCSettings
INVARIANTS
  FairSchedule
  RankingIsFair
  FailuresDoNotSpread
  ExitTellsEvidence
