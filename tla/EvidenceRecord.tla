--------------------------- MODULE EvidenceRecord ---------------------------
(***************************************************************************)
(* What the evidence ledger promises, without the statements that keep it:  *)
(* an append-only record of which scan run observed which citation note     *)
(* (docs/citation-classification.md, "every observation inserts             *)
(* citation_event_occurrences"), from which alerts are drawn.               *)
(***************************************************************************)
CONSTANTS
  Runs,      \* scan runs
  Events,    \* citation notes, one per fingerprint
  NotCited   \* what the answer of a run says of a note it does not cite

VARIABLES
  answer,    \* what the answer of each run says of each note
  observed,  \* pairs of a note and a run that have an occurrence
  missed,    \* pairs whose statement failed
  alerted,   \* notes with an alert for the new citation
  renewed,   \* pairs with an alert for a changed citation
  done       \* completed runs

vars == <<answer, observed, missed, alerted, renewed, done>>

Cites(r, e) == answer[r][e] # NotCited

Init ==
  /\ observed = {} /\ missed = {} /\ alerted = {} /\ renewed = {} /\ done = {}

Observe(e, r) ==
  /\ Cites(r, e)
  /\ observed' = observed \cup {<<e, r>>}
  /\ UNCHANGED <<answer, missed, alerted, renewed, done>>

Miss(e, r) ==
  /\ Cites(r, e)
  /\ missed' = missed \cup {<<e, r>>}
  /\ UNCHANGED <<answer, observed, alerted, renewed, done>>

(* Once per note. *)
AlertNew(e) ==
  /\ e \notin alerted
  /\ \E r \in Runs : Cites(r, e)
  /\ alerted' = alerted \cup {e}
  /\ UNCHANGED <<answer, observed, missed, renewed, done>>

(* Once per observation, and only if another run observed something else.   *)
AlertRenewed(e, r) ==
  /\ <<e, r>> \in observed \ renewed
  /\ \E earlier \in Runs :
       <<e, earlier>> \in observed /\ answer[earlier][e] # answer[r][e]
  /\ renewed' = renewed \cup {<<e, r>>}
  /\ UNCHANGED <<answer, observed, missed, alerted, done>>

Complete(r) ==
  /\ \A e \in Events : Cites(r, e) => <<e, r>> \in observed \cup missed
  /\ done' = done \cup {r}
  /\ UNCHANGED <<answer, observed, missed, alerted, renewed>>

Next ==
  \/ \E e \in Events : AlertNew(e)
  \/ \E e \in Events, r \in Runs : Observe(e, r) \/ Miss(e, r) \/ AlertRenewed(e, r)
  \/ \E r \in Runs : Complete(r)

Spec == Init /\ [][Next]_vars
=============================================================================
