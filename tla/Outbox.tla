------------------------------- MODULE Outbox -------------------------------
(***************************************************************************)
(* The notification outbox: how an alert is queued once, claimed under a    *)
(* lock, sent to each of its recipients with one delivery row apiece, and   *)
(* settled, retried or deferred.                                            *)
(*                                                                          *)
(* A worker is one claimed row in the hands of runNotificationDispatcher.   *)
(* The reads that open processOutboxRow (workspace, content, recipients,    *)
(* preferences) are one step, since any outcome of them is possible; every  *)
(* write and every call of a provider is a step of its own.                 *)
(***************************************************************************)
EXTENDS Integers, FiniteSets

CONSTANTS
  Workers,      \* claimed slots of the dispatchers that may run at once
  Messages,     \* alerts, one per dedupe key
  Members,      \* workspace members who may get e-mail
  Slack,        \* the workspace's Slack channel
  Nobody,       \* the message of an idle worker; the target of one not sending
  MaxAttempts,  \* NOTIFICATIONS_MAX_ATTEMPTS
  Faults,       \* what may go wrong or change, a subset of FaultKinds
  MaxFaults     \* bound on the kinds of events in faults

(* crash: a process dies between two steps.  store: a write fails and its   *)
(* error is ignored.  throw: a read or the insert of a delivery row fails   *)
(* and throws.  reply: a provider takes a message but its answer is lost.   *)
(* slow: a lock may lapse while its worker is still at work.  role: a       *)
(* member's role changes.  off: NOTIFICATIONS_ENABLED is switched off or    *)
(* on.  All but slow and off happen at most once each.                      *)
FaultKinds == {"crash", "store", "throw", "reply", "slow", "role", "off"}

ASSUME WorkersAssumption == Workers # {} /\ Nobody \notin Workers
ASSUME MessagesAssumption == Messages # {} /\ Nobody \notin Messages
ASSUME TargetsAssumption == Slack \notin Members /\ Nobody \notin Members \cup {Slack}
ASSUME LimitsAssumption == MaxAttempts \in Nat \ {0}
ASSUME FaultsAssumption == Faults \subseteq FaultKinds /\ MaxFaults \in Nat

VARIABLES
  outbox,    \* notification_outbox, one record per message
  delivery,  \* status of the notification_deliveries row per message and key
  received,  \* copies each target got of each message (history)
  role,      \* recipient type that each target's role stands for
  enabled,   \* NOTIFICATIONS_ENABLED
  pc,        \* what each worker does next
  job,       \* each worker's local data
  faults     \* kinds of faults so far

vars == <<outbox, delivery, received, role, enabled, pc, job, faults>>

-----------------------------------------------------------------------------
(* Types *)

Cap == MaxAttempts + 1     \* where the attempt count saturates
Copies == 2                \* where the number of copies saturates

Targets == Members \cup {Slack}
MemberTypes == {"workspace_admin", "workspace_member"}
RecipientTypes == MemberTypes \cup {"slack_workspace"}

(* The key of a delivery row within its message: the channel and the member *)
(* (together the target) and the recipient type.                            *)
Keys == Targets \X RecipientTypes

Settled == {"delivered", "partially_delivered", "failed", "canceled",
            "suppressed"}
Statuses == {"absent", "pending", "processing"} \cup Settled
DeliveryStatuses == {"none", "pending", "delivered", "failed", "suppressed",
                     "canceled"}
Results == {"sent", "suppressed", "retryable", "failed", "canceled"}

Row == [status: Statuses, attemptCount: 0 .. Cap,
        lock: {"none", "live", "lapsed"}, nextAttempt: {"due", "later"}]

Absent == [status |-> "absent", attemptCount |-> 0, lock |-> "none",
           nextAttempt |-> "due"]

Job == [message: Messages \cup {Nobody},
        attempt: 0 .. Cap,                 \* attempt_count of the claimed copy
        gate: {"open", "suppressed", "deferred", "canceled"},
        todo: SUBSET Keys,                 \* recipients not yet dealt with
        to: Keys \cup {Nobody},            \* the recipient being sent to
        result: Results \cup {"none"},
        success: BOOLEAN, fail: BOOLEAN, retryable: BOOLEAN]

NoJob == [message |-> Nobody, attempt |-> 0, gate |-> "open", todo |-> {},
          to |-> Nobody, result |-> "none", success |-> FALSE, fail |-> FALSE,
          retryable |-> FALSE]

TypeOK ==
  /\ outbox \in [Messages -> Row]
  /\ delivery \in [Messages -> [Keys -> DeliveryStatuses]]
  /\ received \in [Messages -> [Targets -> 0 .. Copies]]
  /\ role \in [Targets -> RecipientTypes]
  /\ enabled \in BOOLEAN
  /\ pc \in [Workers -> {"idle", "claimed", "deliver", "send", "record",
                         "close", "catch"}]
  /\ job \in [Workers -> Job]
  /\ faults \subseteq FaultKinds \ {"slow", "off"}

Init ==
  /\ outbox = [m \in Messages |-> Absent]
  /\ delivery = [m \in Messages |-> [k \in Keys |-> "none"]]
  /\ received = [m \in Messages |-> [t \in Targets |-> 0]]
  /\ role = [t \in Targets |-> IF t = Slack THEN "slack_workspace"
                               ELSE "workspace_member"]
  /\ enabled \in {TRUE, "off" \notin Faults}
  /\ pc = [w \in Workers |-> "idle"]
  /\ job = [w \in Workers |-> NoJob]
  /\ faults = {}

-----------------------------------------------------------------------------
(* Local steps, and writes that may be lost *)

Goto(w, label) == pc' = [pc EXCEPT ![w] = label]

Return(w) ==
  /\ Goto(w, "idle")
  /\ job' = [job EXCEPT ![w] = NoJob]

Fault(kind) ==
  /\ kind \in Faults \ faults
  /\ Cardinality(faults) < MaxFaults
  /\ faults' = faults \cup {kind}

WriteOutbox(m, new) ==
  \/ outbox' = [outbox EXCEPT ![m] = new] /\ UNCHANGED faults
  \/ Fault("store") /\ UNCHANGED outbox

(* On to the next recipient, or to the end of the row. *)
Continue(w, todo) == Goto(w, IF todo = {} THEN "close" ELSE "deliver")

SaturatingAdd(n, limit) == IF n < limit THEN n + 1 ELSE limit

(* Definitions marked "Wrong:" are bugs a change could introduce.  No run   *)
(* uses them as they stand: each takes the place of the definition after it *)
(* to show that the property it names would notice.                         *)

-----------------------------------------------------------------------------
(* Queueing, claiming, locks and the passing of time *)

(* Wrong: the upsert overwrites the row it finds (ImplementsAlertLedger). *)
EnqueuedAfresh(old, when) ==
  [old EXCEPT !.status = "pending", !.attemptCount = 0, !.nextAttempt = when]

(* An upsert that ignores duplicates of the dedupe key. *)
Enqueued(old, when) ==
  IF old.status = "absent"
  THEN [old EXCEPT !.status = "pending", !.nextAttempt = when] ELSE old

(* Any number of times per message: scans are retried. *)
Enqueue(m) ==
  /\ \E when \in {"due", "later"} :
       outbox' = [outbox EXCEPT ![m] = Enqueued(outbox[m], when)]
  /\ UNCHANGED <<delivery, received, role, enabled, pc, job, faults>>

Due(m) ==
  \/ outbox[m].status = "pending" /\ outbox[m].nextAttempt = "due"
  \/ outbox[m].status = "processing" /\ outbox[m].lock = "lapsed"

Claimed(old) ==
  [old EXCEPT !.status = "processing", !.lock = "live",
              !.attemptCount = SaturatingAdd(@, Cap)]

Claim(w, m) ==
  /\ pc[w] = "idle"
  /\ Due(m)
  /\ outbox' = [outbox EXCEPT ![m] = Claimed(outbox[m])]
  /\ job' = [job EXCEPT ![w] =
       [NoJob EXCEPT !.message = m,
                     !.attempt = Claimed(outbox[m]).attemptCount]]
  /\ Goto(w, "claimed")
  /\ UNCHANGED <<delivery, received, role, enabled, faults>>

Stale(m) == outbox[m].status = "processing" /\ outbox[m].lock = "lapsed"

(* release_stale_notification_outbox_locks: the first thing a dispatcher does. *)
Release ==
  /\ \E m \in Messages : Stale(m)
  /\ outbox' = [m \in Messages |->
       IF Stale(m) THEN [outbox[m] EXCEPT !.status = "pending", !.lock = "none"]
       ELSE outbox[m]]
  /\ UNCHANGED <<delivery, received, role, enabled, pc, job, faults>>

(* Without the fault "slow" the lock outlasts the work done under it. *)
LockLapses(m) ==
  /\ outbox[m].lock = "live"
  /\ "slow" \in Faults \/ \A w \in Workers : job[w].message # m
  /\ outbox' = [outbox EXCEPT ![m].lock = "lapsed"]
  /\ UNCHANGED <<delivery, received, role, enabled, pc, job, faults>>

(* next_attempt_at or available_at has come. *)
BackoffEnds(m) ==
  /\ outbox[m].nextAttempt = "later"
  /\ outbox' = [outbox EXCEPT ![m].nextAttempt = "due"]
  /\ UNCHANGED <<delivery, received, role, enabled, pc, job, faults>>

-----------------------------------------------------------------------------
(* processOutboxRow *)

CloseAt(w, gate) ==
  /\ job' = [job EXCEPT ![w].gate = gate]
  /\ Goto(w, "close")

(* Workspace inactive; notifications switched off; source gone; or the      *)
(* recipients that preferences and entitlements leave, Slack among them.    *)
Gate(w) ==
  /\ pc[w] = "claimed"
  /\ \/ CloseAt(w, "suppressed")
     \/ ~enabled /\ CloseAt(w, "deferred")
     \/ enabled /\ CloseAt(w, "canceled")
     \/ /\ enabled
        /\ \E wanted \in SUBSET Targets :
             LET todo == {<<t, role[t]>> : t \in wanted} IN
             /\ job' = [job EXCEPT ![w].todo = todo]
             /\ Continue(w, todo)
  /\ UNCHANGED <<outbox, delivery, received, role, enabled, faults>>

(* E-mail first, then Slack. *)
Turn(todo, key) ==
  key \in todo /\ (key[1] = Slack => \A other \in todo : other[1] = Slack)

(* Wrong: what was delivered is not remembered (ReceivedOnce). *)
NeedsNothingIfSuppressed(status) == status = "suppressed"

NeedsNothing(status) == status \in {"delivered", "suppressed"}

(* ensureDeliveryRow: the row of the key, inserted if there is none.  What  *)
(* it says decides whether to send; a failed row is sent to again.          *)
EnsureDeliveryRow(w, key) ==
  LET m == job[w].message
      todo == job[w].todo \ {key}
  IN
  /\ pc[w] = "deliver"
  /\ Turn(job[w].todo, key)
  /\ IF NeedsNothing(delivery[m][key])
     THEN /\ job' = [job EXCEPT
               ![w].todo = todo,
               ![w].success = @ \/ delivery[m][key] = "delivered"]
          /\ Continue(w, todo)
          /\ UNCHANGED delivery
     ELSE /\ job' = [job EXCEPT ![w].todo = todo, ![w].to = key]
          /\ Goto(w, "send")
          /\ delivery' = [delivery EXCEPT ![m][key] =
               IF @ = "none" THEN "pending" ELSE @]
  /\ UNCHANGED <<outbox, received, role, enabled, faults>>

(* Only e-mail is rendered per recipient, and may fail to be ("canceled"). *)
Send(w) ==
  LET m == job[w].message
      target == job[w].to[1]
      Reach == received' = [received EXCEPT ![m][target] =
                              SaturatingAdd(@, Copies)]
  IN
  /\ pc[w] = "send"
  /\ \E result \in Results :
       /\ result = "canceled" => target # Slack
       /\ job' = [job EXCEPT ![w].result = result]
       /\ CASE result = "sent" -> Reach /\ UNCHANGED faults
            [] result = "retryable" ->
                 \/ UNCHANGED <<received, faults>>
                 \/ Reach /\ Fault("reply")
            [] OTHER -> UNCHANGED <<received, faults>>
  /\ Goto(w, "record")
  /\ UNCHANGED <<outbox, delivery, role, enabled>>

(* Wrong: the result is stored as it is (TypeOK). *)
ResultItself(result) == result

DeliveryStatus(result) ==
  CASE result = "sent" -> "delivered"
    [] result = "retryable" -> "pending"
    [] OTHER -> result

(* Wrong: a suppressed delivery counts as a delivery                        *)
(* (DeliveredMeansReceived).                                                *)
AnythingButFailed(result) == result \in {"sent", "suppressed"}

Succeeded(result) == result = "sent"

(* updateDelivery, by id and with its error ignored, and the counters. *)
Record(w) ==
  LET m == job[w].message
      result == job[w].result
  IN
  /\ pc[w] = "record"
  /\ \/ /\ delivery' = [delivery EXCEPT ![m][job[w].to] = DeliveryStatus(result)]
        /\ UNCHANGED faults
     \/ Fault("store") /\ UNCHANGED delivery
  /\ job' = [job EXCEPT
       ![w].to = Nobody, ![w].result = "none",
       ![w].success = @ \/ Succeeded(result),
       ![w].fail = @ \/ result \in {"retryable", "failed", "canceled"},
       ![w].retryable = @ \/ result = "retryable"]
  /\ Continue(w, job[w].todo)
  /\ UNCHANGED <<outbox, received, role, enabled>>

(* Wrong: retried without regard to the attempts (EveryAlertSettles). *)
RetryWhenever(w) == job[w].retryable

Retry(w) == job[w].retryable /\ job[w].attempt < MaxAttempts

Verdict(w) ==
  CASE job[w].gate \in {"suppressed", "canceled"} -> job[w].gate
    [] job[w].gate = "deferred" -> "pending"
    [] job[w].gate = "open" /\ ~job[w].fail ->
         IF job[w].success THEN "delivered" ELSE "suppressed"
    [] job[w].gate = "open" /\ job[w].fail ->
         IF Retry(w) THEN "pending"
         ELSE IF job[w].success THEN "partially_delivered" ELSE "failed"

Closed(old, status) ==
  [old EXCEPT !.status = status, !.lock = "none",
              !.nextAttempt = IF status = "pending" THEN "later" ELSE @]

(* The last update of the row, by id: whatever the row says by now. *)
Close(w) ==
  LET m == job[w].message IN
  /\ pc[w] = "close"
  /\ WriteOutbox(m, Closed(outbox[m], Verdict(w)))
  /\ Return(w)
  /\ UNCHANGED <<delivery, received, role, enabled>>

(* An exception leaves the row to the dispatcher's catch. *)
Throw(w) ==
  /\ pc[w] \in {"claimed", "deliver", "send"}
  /\ Fault("throw")
  /\ Goto(w, "catch")
  /\ UNCHANGED <<outbox, delivery, received, role, enabled, job>>

(* Back to pending, whatever the number of attempts. *)
Catch(w) ==
  LET m == job[w].message IN
  /\ pc[w] = "catch"
  /\ WriteOutbox(m, Closed(outbox[m], "pending"))
  /\ Return(w)
  /\ UNCHANGED <<delivery, received, role, enabled>>

-----------------------------------------------------------------------------
(* The environment *)

Crash(w) ==
  /\ pc[w] # "idle"
  /\ Fault("crash")
  /\ Return(w)
  /\ UNCHANGED <<outbox, delivery, received, role, enabled>>

(* A member is made an admin, or an admin a member. *)
ChangeRole(c) ==
  /\ Fault("role")
  /\ \E type \in MemberTypes \ {role[c]} : role' = [role EXCEPT ![c] = type]
  /\ UNCHANGED <<outbox, delivery, received, enabled, pc, job>>

Reconfigure ==
  /\ "off" \in Faults
  /\ enabled' = ~enabled
  /\ UNCHANGED <<outbox, delivery, received, role, pc, job, faults>>

-----------------------------------------------------------------------------

Process(w) ==
  \/ Gate(w) \/ Send(w) \/ Record(w) \/ Close(w) \/ Catch(w)
  \/ \E key \in Keys : EnsureDeliveryRow(w, key)

Next ==
  \/ Release
  \/ \E m \in Messages : Enqueue(m) \/ LockLapses(m) \/ BackoffEnds(m)
  \/ \E w \in Workers, m \in Messages : Claim(w, m)
  \/ \E w \in Workers : Process(w) \/ Throw(w) \/ Crash(w)
  \/ \E c \in Members : ChangeRole(c)
  \/ Reconfigure

Spec == Init /\ [][Next]_vars

(* Time passes, the cron job keeps starting dispatchers, and a dispatcher   *)
(* goes on with what it claimed.  A message that is due again and again is  *)
(* claimed: the claim takes the oldest first.                               *)
Fairness ==
  /\ WF_vars(Release)
  /\ \A m \in Messages : /\ WF_vars(LockLapses(m))
                         /\ WF_vars(BackoffEnds(m))
                         /\ SF_vars(\E w \in Workers : Claim(w, m))
  /\ \A w \in Workers : WF_vars(Process(w))

FairSpec == Spec /\ Fairness

-----------------------------------------------------------------------------
(* Properties *)

NobodyTwice == \A m \in Messages, t \in Targets : received[m][t] <= 1

(* What the outbox or a delivery row reports as delivered did reach a       *)
(* recipient, whatever crashes, lost writes, lapsed locks and deferrals     *)
(* happened on the way (the counters and updates of processOutboxRow).      *)
DeliveredMeansReceived ==
  \A m \in Messages :
    /\ outbox[m].status \in {"delivered", "partially_delivered"}
         => \E t \in Targets : received[m][t] > 0
    /\ \A k \in Keys : delivery[m][k] = "delivered" => received[m][k[1]] > 0

(* While locks outlast the work, nobody gets an alert twice, however often  *)
(* its row is retried, deferred or thrown back, unless a process died, the  *)
(* record or the provider's answer was lost, or a role changed.             *)
ReceivedOnce == faults \subseteq {"throw"} => NobodyTwice

(* Every queued alert is settled in the end, if notifications stay on.      *)
EveryAlertSettles ==
  <>[]enabled =>
    \A m \in Messages :
      outbox[m].status # "absent" ~> outbox[m].status \in Settled

(* The outbox keeps the promises of AlertLedger as long as locks outlast    *)
(* the work done under them: no second enqueue, release or late worker      *)
(* reopens a settled alert or sends it again.                               *)
Alerts == INSTANCE AlertLedger WITH
  copies <- received,
  outcome <- [m \in Messages |-> IF outbox[m].status \in Settled
                                 THEN outbox[m].status ELSE "open"]

ImplementsAlertLedger == Alerts!Spec

=============================================================================
