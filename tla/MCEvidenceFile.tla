-------------------------- MODULE MCEvidenceFile --------------------------
(* Model checking EvidenceFile. *)
EXTENDS EvidenceFile

\* The directory is there / may have to be created.
Existing == {FALSE}
AnyParent == BOOLEAN
============================================================================
