------------------------ MODULE MCSupervisedEngine ------------------------
(* Instances of SupervisedEngine for TLC. *)
EXTENDS SupervisedEngine
=============================================================================
