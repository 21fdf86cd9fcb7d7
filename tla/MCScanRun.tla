------------------------------ MODULE MCScanRun ------------------------------
(* Values of the constants of ScanRun for model checking. *)
EXTENDS ScanRun, TLC

CONSTANTS w1, w2, r1, r2, nobody

OneWorker == {w1}
TwoWorkers == {w1, w2}
OneRun == {r1}
TwoRuns == {r1, r2}

AllFaults == FaultKinds
OnlyCrash == {"crash"}
OnlyStore == {"store"}
NoFaults == {}

(* Workers are interchangeable, and so are runs; used in runs without       *)
(* liveness properties.                                                     *)
Symmetry == Permutations(TwoWorkers) \cup Permutations(TwoRuns)
=============================================================================
