------------------------- MODULE MCContentionSweep -------------------------
(* Instances of ContentionSweep. *)
EXTENDS ContentionSweep

TwoCatalogs == <<2, 1>>
ThreeCatalogs == <<2, 3, 1>>
Policy(measured) == [conditioning |-> 1, measured |-> measured]

Sweep(order, measured, scores, latencies, faults, runs) ==
  [order |-> order, policy |-> Policy(measured), scores |-> scores, latencies |-> latencies,
   faults |-> faults, runs |-> runs]

MCSettings ==
  { \* every fault in one start of the program; the second policy does not fit
    Sweep(TwoCatalogs, 2, {1}, {1}, FaultKinds, 1),
    Sweep(TwoCatalogs, 1, {1}, {1}, FaultKinds, 1),
    \* two starts with one fixture id and one output path
    Sweep(TwoCatalogs, 2, {1}, {1}, {"residue", "kill", "write"}, 2),
    \* measurements that vary: an odd and an even number of samples
    Sweep(ThreeCatalogs, 3, {1, 2}, {1}, {}, 1),
    Sweep(TwoCatalogs, 2, {1, 2}, {1, 2}, {}, 1) }
============================================================================
