------------------------------ MODULE MCOutbox ------------------------------
(* Values of the constants of Outbox for model checking. *)
EXTENDS Outbox, TLC

CONSTANTS w1, w2, alert1, alert2, ann, bob, slack, nobody

OneWorker == {w1}
TwoWorkers == {w1, w2}
OneAlert == {alert1}
TwoAlerts == {alert1, alert2}
Ann == {ann}
AnnAndBob == {ann, bob}

AllButOff == FaultKinds \ {"off"}
AllButSlow == FaultKinds \ {"slow"}
NoFaults == {}

(* Workers, alerts and members are interchangeable; used in runs without    *)
(* liveness properties.                                                     *)
Symmetry == Permutations(TwoWorkers) \cup Permutations(TwoAlerts)
              \cup Permutations(AnnAndBob)
=============================================================================
