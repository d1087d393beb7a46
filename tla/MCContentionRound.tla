------------------------- MODULE MCContentionRound -------------------------
(* Instances of ContentionRound for TLC. *)
EXTENDS ContentionRound, TLC

WriterSymmetry == Permutations(Writers)
============================================================================
