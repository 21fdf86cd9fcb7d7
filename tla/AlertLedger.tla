----------------------------- MODULE AlertLedger -----------------------------
(***************************************************************************)
(* What the outbox promises of an alert: copies go out only while it is     *)
(* open, it is settled once, and it is settled as delivered, in whole or in *)
(* part, only if a copy did reach somebody.  It promises neither that every *)
(* recipient is reached nor that nobody is reached twice.                   *)
(***************************************************************************)
EXTENDS Naturals

CONSTANTS Messages, Targets, Settled, Copies

VARIABLES
  outcome,  \* "open", or how the alert was settled
  copies    \* copies each target got, as far as they are counted

ledgerVars == <<outcome, copies>>

Init ==
  /\ outcome = [m \in Messages |-> "open"]
  /\ copies = [m \in Messages |-> [t \in Targets |-> 0]]

Reach(m, t) ==
  /\ outcome[m] = "open"
  /\ copies[m][t] < Copies
  /\ copies' = [copies EXCEPT ![m][t] = @ + 1]
  /\ UNCHANGED outcome

Settle(m, how) ==
  /\ outcome[m] = "open"
  /\ how \in {"delivered", "partially_delivered"}
       => \E t \in Targets : copies[m][t] > 0
  /\ outcome' = [outcome EXCEPT ![m] = how]
  /\ UNCHANGED copies

Next == \E m \in Messages : \/ \E t \in Targets : Reach(m, t)
                            \/ \E how \in Settled : Settle(m, how)

Spec == Init /\ [][Next]_ledgerVars

=============================================================================
