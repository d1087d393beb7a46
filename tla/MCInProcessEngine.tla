------------------------- MODULE MCInProcessEngine -------------------------
(* Instances of InProcessEngine for TLC. *)
EXTENDS InProcessEngine
=============================================================================
