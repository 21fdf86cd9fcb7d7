------------------------- MODULE MCMonitorSchedule -------------------------
(* Values of the constants of MonitorSchedule for model checking. *)
EXTENDS MonitorSchedule, TLC

CONSTANTS s1, s2, nobody

OneServer == {s1}
TwoServers == {s1, s2}
TwoMonitors == {1, 2}

AllChanges == ChangeKinds

(* MonitorOverlap looks at one monitor over three slots with a change, and  *)
(* at two over two slots: there without a change, as long as both are in    *)
(* service, and with dispatchers alone at work once the first slot is over. *)
DispatchLabels ==
  {"idle", "dispatch", "count", "push", "check", "insert", "advance"}

OneMonitorOrTwo ==
  \/ monitor[2].status = "absent"
  \/ /\ clock <= 1 /\ changes = 0
     /\ \A m \in Monitors : monitor[m].status \in {"configured", "active"}
     /\ clock = 0 \/ \A s \in Servers : pc[s] \in DispatchLabels

(* Servers are interchangeable. *)
Symmetry == Permutations(TwoServers)
=============================================================================
