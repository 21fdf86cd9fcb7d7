-------------------------- MODULE MCEvidenceLedger --------------------------
(* Values of the constants of EvidenceLedger for model checking. *)
EXTENDS EvidenceLedger, TLC

CONSTANTS w1, w2, r1, r2, r3, e1, same, other, notCited, nothing

TwoWorkers == {w1, w2}
ThreeRuns == {r1, r2, r3}
OneEvent == {e1}
TwoEvidences == {same, other}

AllFaults == FaultKinds

(* Executions, runs, notes and evidence hashes are interchangeable.         *)
Symmetry == Permutations(Workers) \cup Permutations(Runs)
              \cup Permutations(Events) \cup Permutations(Evidence)
=============================================================================
