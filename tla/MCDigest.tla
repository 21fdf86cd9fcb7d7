------------------------------ MODULE MCDigest ------------------------------
(* Values of the constants of Digest for model checking.                    *)
EXTENDS Digest, TLC

CONSTANTS j1, j2, e1, bare, nothing

BothJobs == {j1, j2}
OneDispatcher == {j1}
OneEvent == {e1}
AllFaults == FaultKinds

(* Two digests in three undisturbed hours; a fourth hour or a disturbance   *)
(* when nothing is made for the first of them; and failed statements while  *)
(* no two jobs are scheduling, since no property but TypeOK speaks of them. *)
Bounded ==
  /\ outbox[0] /= Nothing => faults = {} /\ now < MaxHour
  /\ faults /= {} => now < MaxHour
  /\ "store" \in faults => ~overlap
=============================================================================
