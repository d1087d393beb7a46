\* Two programs, every failure, every kill, any number of power failures.
CONSTANTS
  Writers = {w1, w2}
  Nobody = Nobody
  Earlier = Earlier
  FreshParents <- Existing
  Faults <- Stages
SPECIFICATION Spec
INVARIANTS CompleteEvidence ReportedEvidenceStays NoTemporaryAfterSuccess
PROPERTY WrittenOnce
