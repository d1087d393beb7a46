SPECIFICATION FairSpec
CONSTANTS
  Requests <- MCRequests
  Settings <- MCSettings
  MaxTimeouts = 1
CHECK_DEADLOCK FALSE
INVARIANTS EvidenceIsOwn RecoveryIsGenuine
PROPERTY ComesToRest
