------------------------------ MODULE RunLedger ------------------------------
(***************************************************************************)
(* What the monitoring engine promises about a scan run, with the leases,   *)
(* attempts, polls and workers left out: a run is open until it is settled  *)
(* once and for all; it is completed only on an answer that has been kept;  *)
(* an answer that has been kept is never dropped; and a check is billed     *)
(* once, and only for a completed run.                                      *)
(***************************************************************************)
CONSTANT Runs

VARIABLES
  outcome,   \* "open", "completed" or "failed"
  answer,    \* is the provider's answer in the evidence ledger?
  billed     \* has the completed check been counted as usage?

ledgerVars == <<outcome, answer, billed>>

Init ==
  /\ outcome = [r \in Runs |-> "open"]
  /\ answer = [r \in Runs |-> FALSE]
  /\ billed = [r \in Runs |-> FALSE]

Keep(r) ==
  /\ outcome[r] = "open" /\ ~answer[r]
  /\ answer' = [answer EXCEPT ![r] = TRUE]
  /\ UNCHANGED <<outcome, billed>>

Settle(r, verdict) ==
  /\ outcome[r] = "open"
  /\ verdict = "completed" => answer[r]
  /\ outcome' = [outcome EXCEPT ![r] = verdict]
  /\ UNCHANGED <<answer, billed>>

Bill(r) ==
  /\ outcome[r] = "completed" /\ ~billed[r]
  /\ billed' = [billed EXCEPT ![r] = TRUE]
  /\ UNCHANGED <<outcome, answer>>

Next ==
  \E r \in Runs :
    Keep(r) \/ Bill(r) \/ \E v \in {"completed", "failed"} : Settle(r, v)

Spec == Init /\ [][Next]_ledgerVars
=============================================================================
