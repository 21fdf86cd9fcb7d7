----------------------------- MODULE OutboxProofs -----------------------------
(***************************************************************************)
(* Proofs about Outbox, for any number of workers, alerts and members.     *)
(*                                                                         *)
(* The invariant of types says in addition what a worker has in hand.  The *)
(* first results hold whatever goes wrong; the later ones assume that      *)
(* locks outlast the work done under them, so that a claimed row is in the *)
(* hands of one worker.                                                    *)
(***************************************************************************)
EXTENDS Outbox, TLAPS

-----------------------------------------------------------------------------
(* What a worker has in hand                                                *)

Labels == {"idle", "claimed", "deliver", "send", "record", "close", "catch"}

JobOk(label, j) ==
  /\ label = "idle" => j = NoJob
  /\ label # "idle" => j.message \in Messages
  /\ label \in {"send", "record"} => j.to \in Keys
  /\ label = "record" => j.result \in Results

Jobs == \A w \in Workers : JobOk(pc[w], job[w])

TypeInv == TypeOK /\ Jobs

DataOk ==
  /\ outbox \in [Messages -> Row]
  /\ delivery \in [Messages -> [Keys -> DeliveryStatuses]]
  /\ received \in [Messages -> [Targets -> 0 .. Copies]]
  /\ role \in [Targets -> RecipientTypes]
  /\ enabled \in BOOLEAN
  /\ faults \subseteq FaultKinds \ {"slow", "off"}

(* Worker w goes on to label with the local data j.                         *)
Moves(w, label, j) ==
  /\ label \in Labels /\ j \in Job /\ JobOk(label, j)
  /\ pc' = [pc EXCEPT ![w] = label]
  /\ job' = [job EXCEPT ![w] = j]

LEMMA DataIsOk == TypeInv => DataOk
BY DEF TypeInv, TypeOK, DataOk

LEMMA Moving ==
  ASSUME TypeInv, NEW w \in Workers, NEW label, NEW j, Moves(w, label, j), DataOk'
  PROVE  TypeInv'
<1>1. TypeOK'
  BY DEF TypeInv, TypeOK, Moves, DataOk, Labels
<1>2. Jobs'
  BY DEF TypeInv, TypeOK, Jobs, Moves
<1>. QED
  BY <1>1, <1>2 DEF TypeInv

LEMMA Staying ==
  ASSUME TypeInv, UNCHANGED <<pc, job>>, DataOk'
  PROVE  TypeInv'
BY DEF TypeInv, TypeOK, Jobs, DataOk

LEMMA NoJobOk == NoJob \in Job /\ JobOk("idle", NoJob) /\ NoJob.message = Nobody /\ ~NoJob.success
BY LimitsAssumption DEF NoJob, Job, JobOk, Cap

LEMMA Returning ==
  ASSUME NEW w \in Workers, Return(w)
  PROVE  Moves(w, "idle", NoJob)
BY NoJobOk DEF Return, Goto, Moves, Labels

LEMMA JobOf ==
  ASSUME TypeInv, NEW w \in Workers
  PROVE  /\ pc[w] \in Labels /\ job[w] \in Job /\ JobOk(pc[w], job[w])
         /\ job \in [Workers -> Job] /\ pc \in [Workers -> Labels]
BY DEF TypeInv, TypeOK, Jobs, Labels

LEMMA AddingSaturates ==
  ASSUME NEW limit \in Nat \ {0}, NEW n \in 0 .. limit
  PROVE  SaturatingAdd(n, limit) \in 0 .. limit /\ SaturatingAdd(n, limit) > 0
BY DEF SaturatingAdd

LEMMA CapIsNat == Cap \in Nat \ {0} /\ Copies \in Nat \ {0}
BY LimitsAssumption DEF Cap, Copies

LEMMA FaultTypes ==
  ASSUME NEW kind \in {"crash", "store", "throw", "reply", "role"}, Fault(kind),
         faults \subseteq FaultKinds \ {"slow", "off"}
  PROVE  faults' \subseteq FaultKinds \ {"slow", "off"}
BY DEF Fault, FaultKinds

(* What may become of a row of the outbox.                                  *)
LEMMA RowUpdates ==
  ASSUME NEW old \in Row
  PROVE  /\ Claimed(old) \in Row
         /\ \A when \in {"due", "later"} : Enqueued(old, when) \in Row
         /\ \A status \in Settled \cup {"pending"} : Closed(old, status) \in Row
         /\ [old EXCEPT !.status = "pending", !.lock = "none"] \in Row
         /\ [old EXCEPT !.lock = "lapsed"] \in Row
         /\ [old EXCEPT !.nextAttempt = "due"] \in Row
<1>1. old.attemptCount \in 0 .. Cap
  BY DEF Row
<1>2. SaturatingAdd(old.attemptCount, Cap) \in 0 .. Cap
  BY <1>1, CapIsNat, AddingSaturates
<1>3. Claimed(old) \in Row
  BY <1>2 DEF Claimed, Row, Statuses
<1>4. \A when \in {"due", "later"} : Enqueued(old, when) \in Row
  BY DEF Enqueued, Row, Statuses
<1>5. \A status \in Settled \cup {"pending"} : Closed(old, status) \in Row
  BY DEF Closed, Row, Statuses
<1>. QED
  BY <1>3, <1>4, <1>5 DEF Row, Statuses

-----------------------------------------------------------------------------
(* Types, action by action                                                  *)

LEMMA ClaimTypes ==
  ASSUME TypeInv, NEW w \in Workers, NEW m \in Messages, Claim(w, m)
  PROVE  TypeInv'
<1>. DEFINE j == [NoJob EXCEPT !.message = m, !.attempt = Claimed(outbox[m]).attemptCount]
<1>1. outbox[m] \in Row
  BY DEF TypeInv, TypeOK
<1>2. Claimed(outbox[m]) \in Row
  BY <1>1, RowUpdates
<1>3. Claimed(outbox[m]).attemptCount \in 0 .. Cap
  BY <1>2 DEF Row
<1>4. j \in Job /\ j.message = m
  BY <1>3, NoJobOk DEF Job
<1>5. DataOk'
  BY <1>2, DataIsOk DEF Claim, DataOk
<1>6. job' = [job EXCEPT ![w] = j] /\ pc' = [pc EXCEPT ![w] = "claimed"]
  BY DEF Claim, Goto
<1>. HIDE DEF j
<1>7. Moves(w, "claimed", j)
  BY <1>4, <1>6 DEF Moves, Labels, JobOk
<1>. QED
  BY <1>5, <1>7, Moving

LEMMA GateTypes ==
  ASSUME TypeInv, NEW w \in Workers, Gate(w)
  PROVE  TypeInv'
<1>1. DataOk'
  BY DataIsOk DEF Gate, DataOk
<1>2. job[w] \in Job /\ job[w].message \in Messages /\ job \in [Workers -> Job]
  BY JobOf DEF Gate, JobOk
<1>3. ASSUME NEW gate \in {"suppressed", "deferred", "canceled"}, CloseAt(w, gate)
      PROVE  TypeInv'
  <2>. DEFINE j == [job[w] EXCEPT !.gate = gate]
  <2>1. j \in Job /\ j.message = job[w].message
    BY <1>2 DEF Job
  <2>2. job' = [job EXCEPT ![w] = j] /\ pc' = [pc EXCEPT ![w] = "close"]
    BY <1>2, <1>3 DEF CloseAt, Goto
  <2>. HIDE DEF j
  <2>3. Moves(w, "close", j)
    BY <1>2, <2>1, <2>2 DEF Moves, Labels, JobOk
  <2>. QED
    BY <1>1, <2>3, Moving
<1>4. ASSUME NEW wanted \in SUBSET Targets,
             job' = [job EXCEPT ![w].todo = {<<t, role[t]>> : t \in wanted}],
             Continue(w, {<<t, role[t]>> : t \in wanted})
      PROVE  TypeInv'
  <2>. DEFINE todo == {<<t, role[t]>> : t \in wanted}
              j == [job[w] EXCEPT !.todo = todo]
  <2>1. todo \subseteq Keys
    BY DEF Keys, TypeInv, TypeOK
  <2>2. job' = [job EXCEPT ![w] = j]
    BY <1>2, <1>4
  <2>3. Continue(w, todo)
    BY <1>4
  <2>. HIDE DEF todo
  <2>4. j \in Job /\ j.message = job[w].message
    BY <1>2, <2>1 DEF Job
  <2>. HIDE DEF j
  <2>5. Moves(w, "close", j) \/ Moves(w, "deliver", j)
    BY <1>2, <2>2, <2>3, <2>4 DEF Moves, Labels, JobOk, Continue, Goto
  <2>. QED
    BY <1>1, <2>5, Moving
<1>. QED
  BY <1>3, <1>4 DEF Gate

LEMMA EnsureTypes ==
  ASSUME TypeInv, NEW w \in Workers, NEW key \in Keys, EnsureDeliveryRow(w, key)
  PROVE  TypeInv'
<1>. DEFINE m == job[w].message
            todo == job[w].todo \ {key}
<1>1. job[w] \in Job /\ m \in Messages /\ job \in [Workers -> Job] /\ todo \subseteq Keys
  BY JobOf DEF EnsureDeliveryRow, JobOk, Job
<1>2. CASE NeedsNothing(delivery[m][key])
  <2>. DEFINE success == job[w].success \/ delivery[m][key] = "delivered"
              j == [job[w] EXCEPT !.todo = todo, !.success = success]
  <2>1. DataOk'
    BY <1>2, DataIsOk DEF EnsureDeliveryRow, DataOk
  <2>2. job' = [job EXCEPT ![w] = j] /\ Continue(w, todo)
    BY <1>1, <1>2 DEF EnsureDeliveryRow, Job
  <2>3. success \in BOOLEAN
    BY <1>1 DEF Job
  <2>. HIDE DEF todo, success
  <2>4. j \in Job /\ j.message = job[w].message
    BY <1>1, <2>3 DEF Job
  <2>. HIDE DEF j
  <2>5. Moves(w, "close", j) \/ Moves(w, "deliver", j)
    BY <1>1, <2>2, <2>4 DEF Moves, Labels, JobOk, Continue, Goto
  <2>. QED
    BY <2>1, <2>5, Moving
<1>3. CASE ~NeedsNothing(delivery[m][key])
  <2>. DEFINE j == [job[w] EXCEPT !.todo = todo, !.to = key]
  <2>1. DataOk'
    <3>1. delivery' = [delivery EXCEPT ![m] = [delivery[m] EXCEPT ![key] =
                         IF delivery[m][key] = "none" THEN "pending" ELSE delivery[m][key]]]
      BY <1>1, <1>3 DEF EnsureDeliveryRow, TypeInv, TypeOK
    <3>2. delivery' \in [Messages -> [Keys -> DeliveryStatuses]]
      BY <1>1, <3>1 DEF TypeInv, TypeOK, DeliveryStatuses
    <3>. QED
      BY <3>2, DataIsOk DEF EnsureDeliveryRow, DataOk
  <2>2. job' = [job EXCEPT ![w] = j] /\ pc' = [pc EXCEPT ![w] = "send"]
    BY <1>1, <1>3 DEF EnsureDeliveryRow, Job, Goto
  <2>. HIDE DEF todo
  <2>3. j \in Job /\ j.message = job[w].message /\ j.to = key
    BY <1>1 DEF Job
  <2>. HIDE DEF j
  <2>4. Moves(w, "send", j)
    BY <1>1, <2>2, <2>3 DEF Moves, Labels, JobOk
  <2>. QED
    BY <2>1, <2>4, Moving
<1>. QED
  BY <1>2, <1>3

(* A copy arrives.                                                          *)
LEMMA CopyArrives ==
  ASSUME TypeInv, NEW m \in Messages, NEW t \in Targets,
         received' = [received EXCEPT ![m][t] = SaturatingAdd(@, Copies)]
  PROVE  /\ received' \in [Messages -> [Targets -> 0 .. Copies]]
         /\ received'[m][t] = SaturatingAdd(received[m][t], Copies)
         /\ received'[m][t] > 0
         /\ \A n \in Messages, u \in Targets : <<n, u>> # <<m, t>> => received'[n][u] = received[n][u]
<1>1. received[m][t] \in 0 .. Copies
  BY DEF TypeInv, TypeOK
<1>2. SaturatingAdd(received[m][t], Copies) \in 0 .. Copies /\ SaturatingAdd(received[m][t], Copies) > 0
  BY <1>1, CapIsNat, AddingSaturates
<1>. QED
  BY <1>2 DEF TypeInv, TypeOK

LEMMA SendTypes ==
  ASSUME TypeInv, NEW w \in Workers, Send(w)
  PROVE  TypeInv'
<1>1. /\ job[w] \in Job /\ job[w].message \in Messages /\ job \in [Workers -> Job]
      /\ job[w].to \in Keys
  BY JobOf DEF Send, JobOk
<1>2. PICK result \in Results : job' = [job EXCEPT ![w].result = result]
  BY DEF Send
<1>. DEFINE j == [job[w] EXCEPT !.result = result]
<1>3. job' = [job EXCEPT ![w] = j] /\ pc' = [pc EXCEPT ![w] = "record"]
  BY <1>1, <1>2 DEF Send, Goto
<1>4. j \in Job /\ j.message = job[w].message /\ j.to = job[w].to /\ j.result = result
  BY <1>1 DEF Job
<1>. HIDE DEF j
<1>5. Moves(w, "record", j)
  BY <1>1, <1>3, <1>4 DEF Moves, Labels, JobOk
<1>6. job[w].to[1] \in Targets
  BY <1>1 DEF Keys
<1>7. received' \in [Messages -> [Targets -> 0 .. Copies]]
  <2>1. CASE UNCHANGED received
    BY <2>1 DEF TypeInv, TypeOK
  <2>2. CASE received' = [received EXCEPT ![job[w].message][job[w].to[1]] = SaturatingAdd(@, Copies)]
    BY <1>1, <1>6, <2>2, CopyArrives
  <2>. QED
    BY <2>1, <2>2 DEF Send
<1>8. faults' \subseteq FaultKinds \ {"slow", "off"}
  <2>1. UNCHANGED faults \/ Fault("reply")
    BY DEF Send
  <2>. QED
    BY <2>1, FaultTypes DEF TypeInv, TypeOK
<1>9. DataOk'
  BY <1>7, <1>8, DataIsOk DEF Send, DataOk
<1>. QED
  BY <1>5, <1>9, Moving

LEMMA RecordTypes ==
  ASSUME TypeInv, NEW w \in Workers, Record(w)
  PROVE  TypeInv'
<1>. DEFINE m == job[w].message
            result == job[w].result
            todo == job[w].todo
            success == job[w].success \/ Succeeded(result)
            fail == job[w].fail \/ result \in {"retryable", "failed", "canceled"}
            retryable == job[w].retryable \/ result = "retryable"
            j == [job[w] EXCEPT !.to = Nobody, !.result = "none", !.success = success,
                                !.fail = fail, !.retryable = retryable]
<1>1. /\ job[w] \in Job /\ m \in Messages /\ job \in [Workers -> Job] /\ todo \subseteq Keys
      /\ job[w].to \in Keys /\ result \in Results
      /\ job[w].success \in BOOLEAN /\ job[w].fail \in BOOLEAN /\ job[w].retryable \in BOOLEAN
  BY JobOf DEF Record, JobOk, Job
<1>2. job' = [job EXCEPT ![w] = j] /\ Continue(w, todo)
  BY <1>1 DEF Record, Job
<1>3. success \in BOOLEAN /\ fail \in BOOLEAN /\ retryable \in BOOLEAN
  BY <1>1 DEF Succeeded
<1>4. DeliveryStatus(result) \in DeliveryStatuses
  BY <1>1 DEF DeliveryStatus, DeliveryStatuses, Results
<1>5. DataOk'
  <2>1. delivery' \in [Messages -> [Keys -> DeliveryStatuses]]
    <3>. HIDE DEF m, result
    <3>1. CASE UNCHANGED delivery
      BY <3>1 DEF TypeInv, TypeOK
    <3>2. CASE delivery' = [delivery EXCEPT ![m][job[w].to] = DeliveryStatus(result)]
      BY <1>1, <1>4, <3>2 DEF TypeInv, TypeOK
    <3>. QED
      BY <3>1, <3>2 DEF Record, m, result
  <2>2. UNCHANGED faults \/ Fault("store")
    BY DEF Record
  <2>3. faults' \subseteq FaultKinds \ {"slow", "off"}
    BY <2>2, FaultTypes DEF TypeInv, TypeOK
  <2>. QED
    BY <2>1, <2>3, DataIsOk DEF Record, DataOk
<1>. HIDE DEF success, fail, retryable, todo
<1>6. j \in Job /\ j.message = job[w].message
  BY <1>1, <1>3 DEF Job
<1>. HIDE DEF j
<1>7. Moves(w, "close", j) \/ Moves(w, "deliver", j)
  BY <1>1, <1>2, <1>6 DEF Moves, Labels, JobOk, Continue, Goto
<1>. QED
  BY <1>5, <1>7, Moving

LEMMA VerdictTypes ==
  ASSUME TypeInv, NEW w \in Workers
  PROVE  Verdict(w) \in Settled \cup {"pending"}
<1>1. job[w].gate \in {"open", "suppressed", "deferred", "canceled"} /\ job[w].fail \in BOOLEAN
  BY JobOf DEF Job
<1>. QED
  BY <1>1 DEF Verdict, Settled

LEMMA WriteTypes ==
  ASSUME TypeInv, NEW m \in Messages, NEW status \in Settled \cup {"pending"},
         WriteOutbox(m, Closed(outbox[m], status)),
         UNCHANGED <<delivery, received, role, enabled>>
  PROVE  DataOk'
<1>1. Closed(outbox[m], status) \in Row
  <2>1. outbox[m] \in Row
    BY DEF TypeInv, TypeOK
  <2>. QED
    BY <2>1, RowUpdates
<1>2. outbox' \in [Messages -> Row]
  BY <1>1 DEF WriteOutbox, TypeInv, TypeOK
<1>3. UNCHANGED faults \/ Fault("store")
  BY DEF WriteOutbox
<1>4. faults' \subseteq FaultKinds \ {"slow", "off"}
  BY <1>3, FaultTypes DEF TypeInv, TypeOK
<1>. QED
  BY <1>2, <1>4, DataIsOk DEF DataOk

LEMMA EndTypes ==
  ASSUME TypeInv, NEW w \in Workers, Close(w) \/ Catch(w) \/ Crash(w)
  PROVE  TypeInv'
<1>1. pc[w] # "idle" /\ Return(w)
  BY DEF Close, Catch, Crash
<1>2. job[w].message \in Messages
  BY <1>1, JobOf DEF JobOk
<1>3. CASE Close(w)
  BY <1>1, <1>2, <1>3, Moving, Returning, WriteTypes, VerdictTypes DEF Close
<1>4. CASE Catch(w)
  BY <1>1, <1>2, <1>4, Moving, Returning, WriteTypes DEF Catch
<1>5. CASE Crash(w)
  <2>1. DataOk'
    BY <1>5, DataIsOk, FaultTypes DEF Crash, DataOk
  <2>. QED
    BY <1>1, <2>1, Moving, Returning
<1>. QED
  BY <1>3, <1>4, <1>5

LEMMA ThrowTypes ==
  ASSUME TypeInv, NEW w \in Workers, Throw(w)
  PROVE  TypeInv'
<1>1. DataOk'
  BY DataIsOk, FaultTypes DEF Throw, DataOk
<1>2. Moves(w, "catch", job[w])
  BY JobOf DEF Throw, Goto, Moves, JobOk, Labels
<1>. QED
  BY <1>1, <1>2, Moving

(* What happens around the workers.                                         *)
Around ==
  \/ Release
  \/ \E m \in Messages : Enqueue(m) \/ LockLapses(m) \/ BackoffEnds(m)
  \/ \E c \in Members : ChangeRole(c)
  \/ Reconfigure

LEMMA AroundTypes ==
  ASSUME TypeInv, Around
  PROVE  TypeInv'
<1>1. UNCHANGED <<pc, job>>
  BY DEF Around, Release, Enqueue, LockLapses, BackoffEnds, ChangeRole, Reconfigure
<1>2. CASE Release
  <2>1. outbox' \in [Messages -> Row]
    BY <1>2, RowUpdates DEF Release, TypeInv, TypeOK
  <2>. QED
    BY <1>1, <1>2, <2>1, DataIsOk, Staying DEF Release, DataOk
<1>3. ASSUME NEW m \in Messages, Enqueue(m) \/ LockLapses(m) \/ BackoffEnds(m)
      PROVE  TypeInv'
  <2>1. PICK row \in Row : outbox' = [outbox EXCEPT ![m] = row]
    <3>1. outbox[m] \in Row /\ outbox \in [Messages -> Row]
      BY DEF TypeInv, TypeOK
    <3>2. CASE Enqueue(m)
      BY <3>1, <3>2, RowUpdates DEF Enqueue
    <3>3. CASE LockLapses(m)
      <4>1. outbox' = [outbox EXCEPT ![m] = [outbox[m] EXCEPT !.lock = "lapsed"]]
        BY <3>1, <3>3 DEF LockLapses
      <4>. QED
        BY <3>1, <4>1, RowUpdates
    <3>4. CASE BackoffEnds(m)
      <4>1. outbox' = [outbox EXCEPT ![m] = [outbox[m] EXCEPT !.nextAttempt = "due"]]
        BY <3>1, <3>4 DEF BackoffEnds
      <4>. QED
        BY <3>1, <4>1, RowUpdates
    <3>. QED
      BY <1>3, <3>2, <3>3, <3>4
  <2>2. outbox' \in [Messages -> Row]
    BY <2>1 DEF TypeInv, TypeOK
  <2>. QED
    BY <1>1, <1>3, <2>2, DataIsOk, Staying DEF Enqueue, LockLapses, BackoffEnds, DataOk
<1>4. ASSUME NEW c \in Members, ChangeRole(c)
      PROVE  TypeInv'
  <2>1. role' \in [Targets -> RecipientTypes]
    BY <1>4 DEF ChangeRole, TypeInv, TypeOK, RecipientTypes
  <2>. QED
    BY <1>1, <1>4, <2>1, DataIsOk, Staying, FaultTypes DEF ChangeRole, DataOk
<1>5. CASE Reconfigure
  BY <1>1, <1>5, DataIsOk, Staying DEF Reconfigure, DataOk
<1>. QED
  BY <1>2, <1>3, <1>4, <1>5 DEF Around

LEMMA NextTypes == TypeInv /\ [Next]_vars => TypeInv'
<1>. SUFFICES ASSUME TypeInv, [Next]_vars
              PROVE  TypeInv'
  OBVIOUS
<1>1. CASE UNCHANGED vars
  BY <1>1 DEF vars, TypeInv, TypeOK, Jobs
<1>2. CASE Around
  BY <1>2, AroundTypes
<1>. QED
  BY <1>1, <1>2, ClaimTypes, GateTypes, EnsureTypes, SendTypes, RecordTypes, EndTypes, ThrowTypes
     DEF Next, Process, Around

LEMMA InitTypes == Init => TypeInv
<1>. SUFFICES ASSUME Init
              PROVE  TypeInv
  OBVIOUS
<1>1. Absent \in Row /\ NoJob \in Job
  BY NoJobOk, LimitsAssumption DEF Absent, Row, Statuses, Cap
<1>2. /\ outbox \in [Messages -> Row] /\ delivery \in [Messages -> [Keys -> DeliveryStatuses]]
      /\ received \in [Messages -> [Targets -> 0 .. Copies]]
  BY <1>1 DEF Init, DeliveryStatuses, Copies
<1>4. enabled \in BOOLEAN
  BY DEF Init
<1>5. role \in [Targets -> RecipientTypes] /\ faults = {} /\ job \in [Workers -> Job]
  BY <1>1 DEF Init, RecipientTypes, MemberTypes
<1>6. TypeOK
  BY <1>2, <1>4, <1>5 DEF TypeOK, Init
<1>3. Jobs
  BY NoJobOk DEF Init, Jobs
<1>. QED
  BY <1>3, <1>6 DEF TypeInv

LEMMA TypeInvariance == Spec => []TypeInv
BY InitTypes, NextTypes, PTL DEF Spec

(* Every variable keeps its type: in particular every result of a send is   *)
(* stored as a status that the delivery row can have.                       *)
THEOREM TypesAreKept == Spec => []TypeOK
<1>1. TypeInv => TypeOK
  BY DEF TypeInv
<1>. QED
  BY <1>1, TypeInvariance, PTL

-----------------------------------------------------------------------------
(* What a step can do to the parts of the state                             *)

(* Deliveries are undone by nothing.                                        *)
LEMMA ReceivedStep ==
  ASSUME TypeInv, [Next]_vars
  PROVE  /\ \/ UNCHANGED received
            \/ \E w \in Workers : Send(w)
         /\ \A m \in Messages, t \in Targets : received[m][t] > 0 => received'[m][t] > 0
<1>1. CASE UNCHANGED received
  BY <1>1
<1>2. ASSUME NEW w \in Workers, Send(w)
      PROVE  \A m \in Messages, t \in Targets : received[m][t] > 0 => received'[m][t] > 0
  <2>1. job[w].message \in Messages /\ job[w].to[1] \in Targets
    BY <1>2, JobOf DEF Send, JobOk, Keys
  <2>2. CASE received' = [received EXCEPT ![job[w].message][job[w].to[1]] = SaturatingAdd(@, Copies)]
    <3>1. /\ received'[job[w].message][job[w].to[1]] > 0
          /\ \A n \in Messages, u \in Targets :
               <<n, u>> # <<job[w].message, job[w].to[1]>> => received'[n][u] = received[n][u]
      BY <2>1, <2>2, CopyArrives
    <3>. QED
      BY <3>1
  <2>3. UNCHANGED received \/ received' = [received EXCEPT ![job[w].message][job[w].to[1]] = SaturatingAdd(@, Copies)]
    BY <1>2 DEF Send
  <2>. QED
    BY <1>1, <2>2, <2>3
<1>3. CASE Around
  BY <1>1, <1>3 DEF Around, Release, Enqueue, LockLapses, BackoffEnds, ChangeRole, Reconfigure
<1>4. ASSUME NEW w \in Workers,
             \/ \E m \in Messages : Claim(w, m)
             \/ Gate(w) \/ Record(w) \/ Close(w) \/ Catch(w) \/ Throw(w) \/ Crash(w)
             \/ \E key \in Keys : EnsureDeliveryRow(w, key)
      PROVE  UNCHANGED received
  BY <1>4 DEF Claim, Gate, Record, Close, Catch, Throw, Crash, EnsureDeliveryRow
<1>. QED
  BY <1>1, <1>2, <1>3, <1>4 DEF Next, Process, Around, vars

(* A row is settled by the worker that closes it.                           *)
LEMMA StatusStep ==
  ASSUME TypeInv, [Next]_vars, NEW m \in Messages, outbox'[m].status \in Settled
  PROVE  \/ outbox[m].status = outbox'[m].status
         \/ \E w \in Workers :
              Close(w) /\ job[w].message = m /\ outbox'[m].status = Verdict(w)
<1>. USE DEF Settled
<1>1. outbox \in [Messages -> Row]
  BY DEF TypeInv, TypeOK
<1>2. CASE UNCHANGED outbox
  BY <1>2
<1>3. CASE Release
  BY <1>1, <1>3 DEF Release, Row
<1>4. ASSUME NEW n \in Messages, Enqueue(n) \/ LockLapses(n) \/ BackoffEnds(n)
      PROVE  outbox[m].status = outbox'[m].status
  <2>1. outbox[m] \in Row /\ outbox[n] \in Row
    BY <1>1
  <2>2. CASE Enqueue(n)
    <3>1. PICK when \in {"due", "later"} : outbox' = [outbox EXCEPT ![n] = Enqueued(outbox[n], when)]
      BY <2>2 DEF Enqueue
    <3>2. Enqueued(outbox[n], when).status \in Settled => Enqueued(outbox[n], when).status = outbox[n].status
      BY <2>1 DEF Enqueued, Row
    <3>. QED
      BY <1>1, <3>1, <3>2
  <2>3. CASE LockLapses(n)
    BY <1>1, <2>1, <2>3 DEF LockLapses, Row
  <2>4. CASE BackoffEnds(n)
    BY <1>1, <2>1, <2>4 DEF BackoffEnds, Row
  <2>. QED
    BY <1>4, <2>2, <2>3, <2>4
<1>5. ASSUME NEW w \in Workers, NEW n \in Messages, Claim(w, n)
      PROVE  outbox[m].status = outbox'[m].status
  BY <1>1, <1>5 DEF Claim, Claimed, Row
<1>6. ASSUME NEW w \in Workers, Close(w), ~UNCHANGED outbox
      PROVE  \/ outbox[m].status = outbox'[m].status
             \/ job[w].message = m /\ outbox'[m].status = Verdict(w)
  <2>1. outbox' = [outbox EXCEPT ![job[w].message] = Closed(outbox[job[w].message], Verdict(w))]
    BY <1>6 DEF Close, WriteOutbox
  <2>2. Closed(outbox[m], Verdict(w)).status = Verdict(w)
    BY <1>1 DEF Closed, Row
  <2>. QED
    BY <1>1, <2>1, <2>2
<1>7. ASSUME NEW w \in Workers, Catch(w), ~UNCHANGED outbox
      PROVE  outbox[m].status = outbox'[m].status
  <2>1. outbox' = [outbox EXCEPT ![job[w].message] = Closed(outbox[job[w].message], "pending")]
    BY <1>7 DEF Catch, WriteOutbox
  <2>2. Closed(outbox[m], "pending").status = "pending"
    BY <1>1 DEF Closed, Row
  <2>. QED
    BY <1>1, <2>1, <2>2
<1>8. ASSUME NEW w \in Workers,
             \/ Gate(w) \/ Send(w) \/ Record(w) \/ Throw(w) \/ Crash(w)
             \/ \E key \in Keys : EnsureDeliveryRow(w, key)
      PROVE  UNCHANGED outbox
  BY <1>8 DEF Gate, Send, Record, Throw, Crash, EnsureDeliveryRow
<1>9. ASSUME (\E c \in Members : ChangeRole(c)) \/ Reconfigure
      PROVE  UNCHANGED outbox
  BY <1>9 DEF ChangeRole, Reconfigure
<1>. QED
  BY <1>2, <1>3, <1>4, <1>5, <1>6, <1>7, <1>8, <1>9 DEF Next, Process, vars

(* A delivery row changes in the hands of a worker at its key.              *)
LEMMA DeliveryStep ==
  ASSUME TypeInv, [Next]_vars, NEW m \in Messages, NEW k \in Keys,
         delivery'[m][k] # delivery[m][k]
  PROVE  \E w \in Workers :
           /\ job[w].message = m
           /\ \/ /\ EnsureDeliveryRow(w, k)
                 /\ delivery[m][k] = "none" /\ delivery'[m][k] = "pending"
              \/ /\ Record(w) /\ job[w].to = k
                 /\ delivery'[m][k] = DeliveryStatus(job[w].result)
<1>1. delivery \in [Messages -> [Keys -> DeliveryStatuses]]
  BY DEF TypeInv, TypeOK
<1>2. ~UNCHANGED delivery
  OBVIOUS
<1>3. ASSUME NEW w \in Workers, NEW key \in Keys, EnsureDeliveryRow(w, key)
      PROVE  /\ job[w].message = m
             /\ EnsureDeliveryRow(w, k)
             /\ delivery[m][k] = "none" /\ delivery'[m][k] = "pending"
  <2>1. job[w].message \in Messages
    BY <1>3, JobOf DEF EnsureDeliveryRow, JobOk
  <2>2. delivery' = [delivery EXCEPT ![job[w].message][key] = IF @ = "none" THEN "pending" ELSE @]
    BY <1>2, <1>3 DEF EnsureDeliveryRow
  <2>3. job[w].message = m /\ key = k
    BY <1>1, <2>1, <2>2
  <2>. QED
    BY <1>1, <1>3, <2>1, <2>2, <2>3
<1>4. ASSUME NEW w \in Workers, Record(w)
      PROVE  /\ job[w].message = m /\ job[w].to = k
             /\ delivery'[m][k] = DeliveryStatus(job[w].result)
  <2>1. job[w].message \in Messages /\ job[w].to \in Keys
    BY <1>4, JobOf DEF Record, JobOk
  <2>2. delivery' = [delivery EXCEPT ![job[w].message][job[w].to] = DeliveryStatus(job[w].result)]
    BY <1>2, <1>4 DEF Record
  <2>. QED
    BY <1>1, <2>1, <2>2
<1>5. ~Around /\ ~UNCHANGED vars
  BY <1>2 DEF Around, Release, Enqueue, LockLapses, BackoffEnds, ChangeRole, Reconfigure, vars
<1>6. ASSUME NEW w \in Workers
      PROVE  ~ \/ \E n \in Messages : Claim(w, n)
               \/ Gate(w) \/ Send(w) \/ Close(w) \/ Catch(w) \/ Throw(w) \/ Crash(w)
  BY <1>2 DEF Claim, Gate, Send, Close, Catch, Throw, Crash
<1>. QED
  BY <1>3, <1>4, <1>5, <1>6 DEF Next, Process, Around

(* A worker's data change by its own steps.                                 *)
LEMMA JobStep ==
  ASSUME TypeInv, [Next]_vars, NEW w \in Workers
  PROVE  \/ pc'[w] = pc[w] /\ job'[w] = job[w]
         \/ \E m \in Messages : Claim(w, m)
         \/ Gate(w) \/ Send(w) \/ Record(w) \/ Throw(w)
         \/ \E key \in Keys : EnsureDeliveryRow(w, key)
         \/ Return(w) /\ (Close(w) \/ Catch(w) \/ Crash(w))
<1>1. pc \in [Workers -> Labels] /\ job \in [Workers -> Job]
  BY DEF TypeInv, TypeOK, Labels
<1>2. CASE Around \/ UNCHANGED vars
  BY <1>2 DEF Around, Release, Enqueue, LockLapses, BackoffEnds, ChangeRole, Reconfigure, vars
<1>3. ASSUME NEW v \in Workers \ {w},
             \/ \E m \in Messages : Claim(v, m)
             \/ Gate(v) \/ Send(v) \/ Record(v) \/ Throw(v)
             \/ \E key \in Keys : EnsureDeliveryRow(v, key)
             \/ Close(v) \/ Catch(v) \/ Crash(v)
      PROVE  pc'[w] = pc[w] /\ job'[w] = job[w]
  BY <1>1, <1>3 DEF Claim, Gate, CloseAt, Send, Record, Throw, EnsureDeliveryRow, Continue, Close,
         Catch, Crash, Return, Goto
<1>4. Close(w) \/ Catch(w) \/ Crash(w) => Return(w)
  BY DEF Close, Catch, Crash
<1>. QED
  BY <1>2, <1>3, <1>4 DEF Next, Process, Around

-----------------------------------------------------------------------------
(* What is reported as delivered                                            *)

Reached(m) == \E t \in Targets : received[m][t] > 0

(* A worker knows of a success only if somebody got the alert.              *)
Told ==
  /\ DeliveredMeansReceived
  /\ \A w \in Workers : job[w].success => Reached(job[w].message)
  /\ \A w \in Workers :
       pc[w] = "record" /\ job[w].result = "sent" =>
         received[job[w].message][job[w].to[1]] > 0

(* How a success comes to be known.                                         *)
LEMMA SuccessStep ==
  ASSUME TypeInv, [Next]_vars, NEW w \in Workers, job'[w].success
  PROVE  /\ job'[w].message = job[w].message /\ job[w].message \in Messages
         /\ \/ job[w].success
            \/ \E k \in Keys : delivery[job[w].message][k] = "delivered"
            \/ pc[w] = "record" /\ job[w].to \in Keys /\ job[w].result = "sent"
<1>1. /\ pc[w] \in Labels /\ job[w] \in Job /\ JobOk(pc[w], job[w]) /\ job \in [Workers -> Job]
  BY JobOf
<1>2. CASE pc'[w] = pc[w] /\ job'[w] = job[w]
  BY <1>1, <1>2, NoJobOk DEF JobOk
<1>3. ASSUME NEW m \in Messages, Claim(w, m) PROVE FALSE
  BY <1>1, <1>3, NoJobOk DEF Claim, NoJob
<1>4. CASE Gate(w)
  <2>1. \/ \E gate : job' = [job EXCEPT ![w].gate = gate]
        \/ \E todo : job' = [job EXCEPT ![w].todo = todo]
    BY <1>4 DEF Gate, CloseAt
  <2>. QED
    BY <1>1, <1>4, <2>1 DEF Gate, JobOk, Job
<1>5. CASE Send(w)
  <2>1. PICK result : job' = [job EXCEPT ![w].result = result]
    BY <1>5 DEF Send
  <2>. QED
    BY <1>1, <1>5, <2>1 DEF Send, JobOk, Job
<1>6. CASE Record(w)
  BY <1>1, <1>6 DEF Record, JobOk, Job, Succeeded
<1>7. CASE Throw(w)
  BY <1>1, <1>7 DEF Throw, JobOk
<1>8. ASSUME NEW key \in Keys, EnsureDeliveryRow(w, key)
      PROVE  /\ job'[w].message = job[w].message /\ job[w].message \in Messages
             /\ job[w].success \/ delivery[job[w].message][key] = "delivered"
  BY <1>1, <1>8 DEF EnsureDeliveryRow, JobOk, Job
<1>9. CASE Return(w)
  BY <1>1, <1>9, NoJobOk DEF Return
<1>. QED
  BY <1>2, <1>3, <1>4, <1>5, <1>6, <1>7, <1>8, <1>9, JobStep

LEMMA ToldStep == TypeInv /\ Told /\ [Next]_vars => Told'
<1>. SUFFICES ASSUME TypeInv, Told, [Next]_vars
              PROVE  Told'
  OBVIOUS
<1>1. \A m \in Messages : Reached(m) => Reached(m)'
  BY ReceivedStep DEF Reached
<1>2. ASSUME NEW m \in Messages, outbox'[m].status \in {"delivered", "partially_delivered"}
      PROVE  Reached(m)'
  <2>1. CASE outbox[m].status = outbox'[m].status
    BY <1>1, <1>2, <2>1 DEF Told, DeliveredMeansReceived, Reached
  <2>2. ASSUME NEW w \in Workers, job[w].message = m, outbox'[m].status = Verdict(w)
        PROVE  Reached(m)
    <3>1. job[w] \in Job
      BY JobOf
    <3>2. job[w].success
      BY <1>2, <2>2, <3>1 DEF Verdict, Job
    <3>. QED
      BY <2>2, <3>2 DEF Told
  <2>. QED
    BY <1>1, <1>2, <2>1, <2>2, StatusStep DEF Settled
<1>3. ASSUME NEW m \in Messages, NEW k \in Keys, delivery'[m][k] = "delivered"
      PROVE  received'[m][k[1]] > 0
  <2>1. k[1] \in Targets
    BY DEF Keys
  <2>2. CASE delivery[m][k] = "delivered"
    BY <2>1, <2>2, ReceivedStep DEF Told, DeliveredMeansReceived
  <2>3. CASE delivery[m][k] # "delivered"
    <3>1. PICK w \in Workers : /\ job[w].message = m /\ Record(w) /\ job[w].to = k
                               /\ DeliveryStatus(job[w].result) = "delivered"
      BY <1>3, <2>3, DeliveryStep
    <3>2. pc[w] = "record" /\ job[w].result \in Results
      BY <3>1, JobOf DEF Record, JobOk
    <3>3. job[w].result = "sent"
      BY <3>1, <3>2 DEF DeliveryStatus, Results
    <3>. QED
      BY <2>1, <3>1, <3>2, <3>3, ReceivedStep DEF Told
  <2>. QED
    BY <2>2, <2>3
<1>4. ASSUME NEW w \in Workers, job'[w].success
      PROVE  Reached(job[w].message)'
  <2>1. Reached(job[w].message)
    <3>1. CASE job[w].success
      BY <3>1 DEF Told
    <3>2. ASSUME NEW k \in Keys, delivery[job[w].message][k] = "delivered", job[w].message \in Messages
          PROVE  Reached(job[w].message)
      BY <3>2 DEF Told, DeliveredMeansReceived, Reached, Keys
    <3>3. CASE pc[w] = "record" /\ job[w].to \in Keys /\ job[w].result = "sent"
      BY <3>3 DEF Told, Reached, Keys
    <3>. QED
      BY <1>4, <3>1, <3>2, <3>3, SuccessStep
  <2>2. job'[w].message = job[w].message /\ job[w].message \in Messages
    BY <1>4, SuccessStep
  <2>. QED
    BY <2>1, <2>2, ReceivedStep DEF Reached
<1>5. ASSUME NEW w \in Workers, pc'[w] = "record", job'[w].result = "sent"
      PROVE  received'[job'[w].message][job'[w].to[1]] > 0
  <2>1. /\ pc[w] \in Labels /\ job[w] \in Job /\ JobOk(pc[w], job[w]) /\ job \in [Workers -> Job]
        /\ pc \in [Workers -> Labels]
    BY JobOf
  <2>2. CASE Send(w)
    <3>1. /\ job[w].message \in Messages /\ job[w].to \in Keys /\ job[w].to[1] \in Targets
      BY <2>1, <2>2 DEF Send, JobOk, Keys
    <3>2. PICK result \in Results :
            /\ job' = [job EXCEPT ![w].result = result]
            /\ result = "sent" =>
                 received' = [received EXCEPT ![job[w].message][job[w].to[1]] = SaturatingAdd(@, Copies)]
      BY <2>2 DEF Send
    <3>3. result = "sent" /\ job'[w].message = job[w].message /\ job'[w].to = job[w].to
      BY <1>5, <2>1, <3>2 DEF Job
    <3>. QED
      BY <3>1, <3>2, <3>3, CopyArrives
  <2>3. CASE pc'[w] = pc[w] /\ job'[w] = job[w]
    <3>1. job[w].message \in Messages /\ job[w].to[1] \in Targets
      BY <1>5, <2>1, <2>3 DEF JobOk, Keys
    <3>. QED
      BY <1>5, <2>3, <3>1, ReceivedStep DEF Told
  <2>4. \/ Send(w) \/ (pc'[w] = pc[w] /\ job'[w] = job[w])
    BY <1>5, <2>1, JobStep DEF Claim, Gate, CloseAt, Record, Throw, EnsureDeliveryRow, Continue, Return, Goto
  <2>. QED
    BY <2>2, <2>3, <2>4
<1>6. DeliveredMeansReceived'
  BY <1>2, <1>3 DEF DeliveredMeansReceived, Reached
<1>. QED
  BY <1>4, <1>5, <1>6 DEF Told

LEMMA ToldInvariance == Spec => []Told
<1>1. Init => Told
  BY NoJobOk DEF Init, Told, DeliveredMeansReceived, Absent
<1>. QED
  BY <1>1, ToldStep, TypeInvariance, PTL DEF Spec

(* What the outbox or a delivery row reports as delivered has reached a     *)
(* recipient, whatever goes wrong.                                          *)
THEOREM ReportedDeliveriesHappened == Spec => []DeliveredMeansReceived
<1>1. Told => DeliveredMeansReceived
  BY DEF Told
<1>. QED
  BY <1>1, ToldInvariance, PTL

-----------------------------------------------------------------------------
(* No alert is stranded: what safety contributes to EveryAlertSettles       *)

(* A dispatcher can claim the alert, its lock is in force and will lapse,   *)
(* or its next attempt is at a time that will come.                         *)
WithinReach(m) ==
  \/ Due(m)
  \/ outbox[m].status = "pending" /\ outbox[m].nextAttempt = "later"
  \/ outbox[m].status = "processing" /\ outbox[m].lock = "live"

OpenAlertsWithinReach ==
  \A m \in Messages :
    outbox[m].status \in {"pending", "processing"} => WithinReach(m)

(* A row is shown as being processed only under a lock.                     *)
Locked(old) == old.status = "processing" => old.lock # "none"
AllLocked == \A m \in Messages : Locked(outbox[m])

LEMMA UpdatesKeepLocks ==
  ASSUME NEW old \in Row, Locked(old)
  PROVE  /\ Locked(Claimed(old))
         /\ \A when \in {"due", "later"} : Locked(Enqueued(old, when))
         /\ \A status \in Settled \cup {"pending"} : Locked(Closed(old, status))
         /\ Locked([old EXCEPT !.status = "pending", !.lock = "none"])
         /\ Locked([old EXCEPT !.lock = "lapsed"])
         /\ Locked([old EXCEPT !.nextAttempt = "due"])
BY DEF Locked, Row, Claimed, Enqueued, Closed, Settled

(* AllLocked survives every step: late workers release the lock with the    *)
(* same write that takes the row out of processing.                         *)
LEMMA LockedStep == TypeInv /\ AllLocked /\ [Next]_vars => AllLocked'
<1>. SUFFICES ASSUME TypeInv, AllLocked, [Next]_vars
              PROVE  AllLocked'
  OBVIOUS
<1>1. /\ outbox \in [Messages -> Row]
      /\ \A m \in Messages : outbox[m] \in Row /\ Locked(outbox[m])
  BY DEF TypeInv, TypeOK, AllLocked
<1>2. CASE UNCHANGED outbox
  BY <1>2 DEF AllLocked
<1>3. CASE Release
  BY <1>1, <1>3, UpdatesKeepLocks DEF Release, AllLocked
<1>4. ASSUME NEW m \in Messages, NEW new, Locked(new),
             outbox' = [outbox EXCEPT ![m] = new]
      PROVE  AllLocked'
  BY <1>1, <1>4 DEF AllLocked
<1>5. ASSUME NEW m \in Messages, Enqueue(m) \/ LockLapses(m) \/ BackoffEnds(m)
      PROVE  AllLocked'
  BY <1>1, <1>4, <1>5, UpdatesKeepLocks DEF Enqueue, LockLapses, BackoffEnds
<1>6. ASSUME NEW w \in Workers, NEW m \in Messages, Claim(w, m)
      PROVE  AllLocked'
  BY <1>1, <1>4, <1>6, UpdatesKeepLocks DEF Claim
<1>7. ASSUME NEW w \in Workers, Close(w) \/ Catch(w)
      PROVE  AllLocked'
  <2>1. PICK status \in Settled \cup {"pending"} :
          WriteOutbox(job[w].message, Closed(outbox[job[w].message], status))
    BY <1>7, VerdictTypes DEF Close, Catch
  <2>2. job[w].message \in Messages
    BY <1>7 DEF Close, Catch, TypeInv, Jobs, JobOk
  <2>3. Locked(Closed(outbox[job[w].message], status))
    BY <1>1, <2>2, UpdatesKeepLocks
  <2>. QED
    BY <1>2, <1>4, <2>1, <2>2, <2>3 DEF WriteOutbox
<1>8. ASSUME NEW w \in Workers,
             \/ Gate(w) \/ Send(w) \/ Record(w) \/ Throw(w) \/ Crash(w)
             \/ \E key \in Keys : EnsureDeliveryRow(w, key)
      PROVE  UNCHANGED outbox
  BY <1>8 DEF Gate, Send, Record, Throw, Crash, EnsureDeliveryRow
<1>9. ASSUME (\E c \in Members : ChangeRole(c)) \/ Reconfigure
      PROVE  UNCHANGED outbox
  BY <1>9 DEF ChangeRole, Reconfigure
<1>. QED
  BY <1>2, <1>3, <1>5, <1>6, <1>7, <1>8, <1>9 DEF Next, Process, vars

(* An alert that is neither absent nor settled is never stranded, whatever  *)
(* goes wrong: a dispatcher can claim it, now or when its lock or its delay *)
(* is over (claim_notification_outbox and the updates by id that follow).   *)
THEOREM OpenAlertsAreNotStranded == Spec => []OpenAlertsWithinReach
<1>1. Init => AllLocked
  BY DEF Init, AllLocked, Locked, Absent
<1>2. TypeInv /\ AllLocked => OpenAlertsWithinReach
  BY DEF TypeInv, TypeOK, Row, AllLocked, Locked, OpenAlertsWithinReach,
         WithinReach, Due
<1>. QED
  BY <1>1, <1>2, LockedStep, TypeInvariance, PTL DEF Spec

-----------------------------------------------------------------------------
(* While locks outlast the work: one worker for each alert                  *)

(* A claimed row stays locked while its worker is at work, and no other     *)
(* worker has it.                                                           *)
Held ==
  \A w \in Workers :
    pc[w] # "idle" =>
      outbox[job[w].message].status = "processing" /\ outbox[job[w].message].lock = "live"

Sole ==
  \A v, w \in Workers :
    pc[v] # "idle" /\ pc[w] # "idle" /\ job[v].message = job[w].message => v = w

(* A worker at work has just claimed its alert, or had it before.           *)
LEMMA MessageStep ==
  ASSUME TypeInv, [Next]_vars, NEW w \in Workers, pc'[w] # "idle"
  PROVE  \/ /\ pc[w] # "idle" /\ job'[w].message = job[w].message
            /\ ~Close(w) /\ ~Catch(w) /\ ~Crash(w)
         \/ \E m \in Messages : Claim(w, m) /\ job'[w].message = m
<1>1. /\ pc[w] \in Labels /\ job[w] \in Job /\ JobOk(pc[w], job[w]) /\ job \in [Workers -> Job]
      /\ pc \in [Workers -> Labels]
  BY JobOf
<1>2. ~Return(w) /\ ~Close(w) /\ ~Catch(w) /\ ~Crash(w)
  BY <1>1 DEF Return, Goto, Close, Catch, Crash
<1>3. ASSUME NEW m \in Messages, Claim(w, m) PROVE job'[w].message = m
  BY <1>1, <1>3, NoJobOk DEF Claim, Job
<1>4. CASE Gate(w)
  <2>1. \/ \E gate : job' = [job EXCEPT ![w].gate = gate]
        \/ \E todo : job' = [job EXCEPT ![w].todo = todo]
    BY <1>4 DEF Gate, CloseAt
  <2>. QED
    BY <1>1, <1>2, <1>4, <2>1 DEF Gate, Job
<1>5. CASE Send(w)
  <2>1. PICK result : job' = [job EXCEPT ![w].result = result]
    BY <1>5 DEF Send
  <2>. QED
    BY <1>1, <1>2, <1>5, <2>1 DEF Send, Job
<1>6. CASE Record(w)
  BY <1>1, <1>2, <1>6 DEF Record, Job
<1>7. CASE Throw(w)
  BY <1>1, <1>2, <1>7 DEF Throw
<1>8. ASSUME NEW key \in Keys, EnsureDeliveryRow(w, key)
      PROVE  pc[w] # "idle" /\ job'[w].message = job[w].message
  BY <1>1, <1>8 DEF EnsureDeliveryRow, Job
<1>. QED
  BY <1>2, <1>3, <1>4, <1>5, <1>6, <1>7, <1>8, JobStep

(* The row of an alert in hand is settled and unlocked by its worker only.  *)
LEMMA HeldRow ==
  ASSUME "slow" \notin Faults, TypeInv, Held, Sole, [Next]_vars,
         NEW w \in Workers, pc[w] # "idle", ~Close(w), ~Catch(w)
  PROVE  /\ outbox'[job[w].message].status = "processing"
         /\ outbox'[job[w].message].lock = "live"
         /\ \A v \in Workers : ~Claim(v, job[w].message)
<1>. DEFINE m == job[w].message
            Kept == outbox'[m].status = "processing" /\ outbox'[m].lock = "live"
<1>1. m \in Messages /\ outbox \in [Messages -> Row] /\ outbox[m] \in Row
  BY JobOf DEF JobOk, TypeInv, TypeOK
<1>2. outbox[m].status = "processing" /\ outbox[m].lock = "live"
  BY DEF Held
<1>3. ASSUME NEW v \in Workers, v # w, pc[v] # "idle" PROVE job[v].message # m
  BY <1>3 DEF Sole
<1>4. ASSUME UNCHANGED outbox PROVE Kept
  BY <1>2, <1>4
<1>5. ASSUME NEW n \in Messages, LockLapses(n) PROVE n # m
  BY <1>5 DEF LockLapses, m
<1>. HIDE DEF m
<1>6. ~Due(m)
  BY <1>2 DEF Due
<1>7. ASSUME Release PROVE Kept
  BY <1>1, <1>2, <1>7 DEF Release, Stale
<1>8. ASSUME NEW n \in Messages, Enqueue(n) PROVE Kept
  BY <1>1, <1>2, <1>8 DEF Enqueue, Enqueued
<1>9. ASSUME NEW n \in Messages, LockLapses(n) PROVE Kept
  BY <1>1, <1>2, <1>5, <1>9 DEF LockLapses
<1>10. ASSUME NEW n \in Messages, BackoffEnds(n) PROVE Kept
  BY <1>1, <1>2, <1>10 DEF BackoffEnds, Row
<1>11. ASSUME NEW v \in Workers, NEW n \in Messages, Claim(v, n) PROVE Kept
  BY <1>1, <1>2, <1>6, <1>11 DEF Claim
<1>12. ASSUME NEW v \in Workers, Close(v) \/ Catch(v) PROVE Kept
  <2>1. v # w /\ pc[v] # "idle"
    BY <1>12 DEF Close, Catch
  <2>2. job[v].message # m
    BY <1>3, <2>1
  <2>3. UNCHANGED outbox \/ \E row : outbox' = [outbox EXCEPT ![job[v].message] = row]
    BY <1>12 DEF Close, Catch, WriteOutbox
  <2>. QED
    BY <1>1, <1>2, <2>2, <2>3
<1>13. ASSUME NEW v \in Workers,
             \/ Gate(v) \/ Send(v) \/ Record(v) \/ Throw(v) \/ Crash(v)
             \/ \E key \in Keys : EnsureDeliveryRow(v, key)
       PROVE  UNCHANGED outbox
  BY <1>13 DEF Gate, Send, Record, Throw, Crash, EnsureDeliveryRow
<1>14. ASSUME (\E c \in Members : ChangeRole(c)) \/ Reconfigure
       PROVE  UNCHANGED outbox
  BY <1>14 DEF ChangeRole, Reconfigure
<1>15. Kept
  BY <1>4, <1>7, <1>8, <1>9, <1>10, <1>11, <1>12, <1>13, <1>14 DEF Next, Process, vars
<1>16. \A v \in Workers : ~Claim(v, m)
  BY <1>6 DEF Claim
<1>. QED
  BY <1>15, <1>16 DEF m

LEMMA HeldStep ==
  ASSUME "slow" \notin Faults, TypeInv, Held, Sole, [Next]_vars
  PROVE  Held' /\ Sole'
<1>1. ASSUME NEW w \in Workers, NEW m \in Messages, Claim(w, m)
      PROVE  /\ outbox'[m].status = "processing" /\ outbox'[m].lock = "live"
             /\ \A v \in Workers \ {w} : pc[v] # "idle" => job[v].message # m
             /\ \A v \in Workers \ {w} : pc'[v] = pc[v] /\ job'[v] = job[v]
  <2>1. outbox[m] \in Row /\ outbox \in [Messages -> Row]
    BY DEF TypeInv, TypeOK
  <2>2. Claimed(outbox[m]).status = "processing" /\ Claimed(outbox[m]).lock = "live"
    BY <2>1 DEF Claimed, Row
  <2>3. outbox'[m].status = "processing" /\ outbox'[m].lock = "live"
    BY <1>1, <2>1, <2>2 DEF Claim
  <2>4. \A v \in Workers : pc[v] # "idle" => job[v].message # m
    BY <1>1 DEF Claim, Due, Held
  <2>5. \A v \in Workers \ {w} : pc'[v] = pc[v] /\ job'[v] = job[v]
    BY <1>1 DEF Claim, Goto, TypeInv, TypeOK
  <2>. QED
    BY <2>3, <2>4, <2>5
<1>2. Held'
  <2>. SUFFICES ASSUME NEW w \in Workers, pc'[w] # "idle"
                PROVE  outbox'[job'[w].message].status = "processing" /\ outbox'[job'[w].message].lock = "live"
    BY DEF Held
  <2>. QED
    BY <1>1, MessageStep, HeldRow
<1>3. Sole'
  <2>. SUFFICES ASSUME NEW v \in Workers, NEW w \in Workers, pc'[v] # "idle", pc'[w] # "idle",
                       job'[v].message = job'[w].message, v # w
                PROVE  FALSE
    BY DEF Sole
  <2>1. ASSUME NEW m \in Messages, Claim(w, m), job'[w].message = m PROVE FALSE
    BY <1>1, <2>1
  <2>2. ASSUME NEW m \in Messages, Claim(v, m), job'[v].message = m PROVE FALSE
    BY <1>1, <2>2
  <2>3. pc[v] # "idle" /\ job'[v].message = job[v].message
    BY <2>2, MessageStep
  <2>4. pc[w] # "idle" /\ job'[w].message = job[w].message
    BY <2>1, MessageStep
  <2>. QED
    BY <2>3, <2>4 DEF Sole
<1>. QED
  BY <1>2, <1>3

LEMMA HeldInvariance ==
  ASSUME "slow" \notin Faults
  PROVE  Spec => [](Held /\ Sole)
<1>1. Init => Held /\ Sole
  BY DEF Init, Held, Sole
<1>2. TypeInv /\ Held /\ Sole /\ [Next]_vars => (Held /\ Sole)'
  BY HeldStep
<1>. QED
  BY <1>1, <1>2, TypeInvariance, PTL DEF Spec

-----------------------------------------------------------------------------
(* Nobody gets an alert twice                                               *)

(* The delivery row of a target, while roles do not change.                 *)
KeyOf(t) == <<t, role[t]>>

(* A copy that somebody got is in the delivery row, or about to be put      *)
(* there by the worker that sent it.                                        *)
Copied(m, t) ==
  \/ delivery[m][KeyOf(t)] = "delivered"
  \/ \E w \in Workers : /\ pc[w] = "record" /\ job[w].message = m
                        /\ job[w].to = KeyOf(t) /\ job[w].result = "sent"

Once ==
  /\ NobodyTwice
  /\ \A m \in Messages, t \in Targets : received[m][t] > 0 => Copied(m, t)
  /\ \A w \in Workers : \A k \in job[w].todo : k = KeyOf(k[1])
  /\ \A w \in Workers :
       pc[w] \in {"send", "record"} =>
         /\ job[w].to = KeyOf(job[w].to[1])
         /\ delivery[job[w].message][job[w].to] # "delivered"

Harmless == faults \subseteq {"throw"}

LEMMA HarmlessStep ==
  ASSUME [Next]_vars, Harmless'
  PROVE  /\ Harmless
         /\ UNCHANGED role
         /\ \A w \in Workers : ~Crash(w)
         /\ ~Fault("reply") /\ ~Fault("store")
<1>1. faults' = faults \/ \E kind \in FaultKinds : Fault(kind)
  BY DEF Next, Process, Release, Enqueue, LockLapses, BackoffEnds, Claim, Gate, EnsureDeliveryRow,
         Send, Record, Close, Throw, Catch, Crash, ChangeRole, Reconfigure, WriteOutbox, vars, FaultKinds
<1>2. Harmless /\ \A kind \in FaultKinds \ {"throw"} : ~Fault(kind)
  BY <1>1 DEF Harmless, Fault
<1>3. UNCHANGED role
  BY <1>2 DEF Next, Process, Release, Enqueue, LockLapses, BackoffEnds, Claim, Gate, EnsureDeliveryRow,
         Send, Record, Close, Throw, Catch, Crash, ChangeRole, Reconfigure, vars, FaultKinds
<1>. QED
  BY <1>2, <1>3 DEF Crash, FaultKinds

LEMMA TodoStep ==
  ASSUME TypeInv, [Next]_vars, NEW w \in Workers
  PROVE  \/ job'[w].todo \subseteq job[w].todo
         \/ \E wanted \in SUBSET Targets : job'[w].todo = {KeyOf(t) : t \in wanted}
<1>1. /\ pc[w] \in Labels /\ job[w] \in Job /\ job \in [Workers -> Job]
  BY JobOf
<1>2. ASSUME NEW m \in Messages, Claim(w, m) PROVE job'[w].todo = {}
  BY <1>1, <1>2 DEF Claim, NoJob
<1>3. CASE Gate(w)
  <2>1. CASE \E gate : job' = [job EXCEPT ![w].gate = gate]
    BY <1>1, <2>1 DEF Job
  <2>2. ASSUME NEW wanted \in SUBSET Targets,
               job' = [job EXCEPT ![w].todo = {<<t, role[t]>> : t \in wanted}]
        PROVE  job'[w].todo = {KeyOf(t) : t \in wanted}
    <3>. DEFINE todo == {<<t, role[t]>> : t \in wanted}
    <3>1. todo = {KeyOf(t) : t \in wanted}
      BY DEF KeyOf
    <3>2. job' = [job EXCEPT ![w].todo = todo]
      BY <2>2
    <3>. HIDE DEF todo
    <3>3. job'[w].todo = todo
      BY <1>1, <3>2 DEF Job
    <3>. QED
      BY <3>1, <3>3
  <2>. QED
    BY <1>3, <2>1, <2>2 DEF Gate, CloseAt
<1>4. CASE Send(w)
  <2>1. PICK result : job' = [job EXCEPT ![w].result = result]
    BY <1>4 DEF Send
  <2>. QED
    BY <1>1, <2>1 DEF Job
<1>5. CASE Record(w)
  BY <1>1, <1>5 DEF Record, Job
<1>6. ASSUME NEW key \in Keys, EnsureDeliveryRow(w, key)
      PROVE  job'[w].todo \subseteq job[w].todo
  BY <1>1, <1>6 DEF EnsureDeliveryRow, Job
<1>7. CASE Return(w)
  BY <1>1, <1>7 DEF Return, NoJob
<1>. QED
  BY <1>2, <1>3, <1>4, <1>5, <1>6, <1>7, JobStep DEF Throw

(* A worker that is about to send, or has sent.                             *)
LEMMA ToStep ==
  ASSUME TypeInv, [Next]_vars, NEW w \in Workers, pc'[w] \in {"send", "record"}
  PROVE  /\ job'[w].message = job[w].message /\ job[w].message \in Messages /\ pc[w] # "idle"
         /\ job'[w].to \in Keys
         /\ \/ pc[w] \in {"send", "record"} /\ job'[w].to = job[w].to /\ ~Record(w)
            \/ /\ job'[w].to \in job[w].todo
               /\ delivery[job[w].message][job'[w].to] # "delivered"
<1>1. /\ pc[w] \in Labels /\ job[w] \in Job /\ JobOk(pc[w], job[w]) /\ job \in [Workers -> Job]
      /\ pc \in [Workers -> Labels]
  BY JobOf
<1>2. CASE pc'[w] = pc[w] /\ job'[w] = job[w]
  <2>1. ~Record(w)
    BY <1>1, <1>2 DEF Record, Continue, Goto
  <2>. QED
    BY <1>1, <1>2, <2>1 DEF JobOk
<1>3. CASE Send(w)
  <2>1. PICK result : job' = [job EXCEPT ![w].result = result]
    BY <1>3 DEF Send
  <2>2. job'[w].to = job[w].to /\ job'[w].message = job[w].message
    BY <1>1, <2>1 DEF Job
  <2>. QED
    BY <1>1, <1>3, <2>2 DEF Send, JobOk, Record
<1>4. ASSUME NEW key \in Keys, EnsureDeliveryRow(w, key)
      PROVE  /\ job'[w].message = job[w].message /\ job[w].message \in Messages /\ pc[w] # "idle"
             /\ job'[w].to = key /\ key \in job[w].todo
             /\ delivery[job[w].message][key] # "delivered"
  <2>1. ~NeedsNothing(delivery[job[w].message][key])
    BY <1>1, <1>4 DEF EnsureDeliveryRow, Continue, Goto
  <2>. QED
    BY <1>1, <1>4, <2>1 DEF EnsureDeliveryRow, Turn, NeedsNothing, JobOk, Job
<1>5. ~ \E m \in Messages : Claim(w, m)
  BY <1>1 DEF Claim, Goto
<1>6. ~Gate(w) /\ ~Record(w) /\ ~Throw(w) /\ ~Return(w)
  BY <1>1 DEF Gate, CloseAt, Record, Throw, Return, Continue, Goto
<1>. QED
  BY <1>2, <1>3, <1>4, <1>5, <1>6, JobStep

LEMMA OnceStep ==
  ASSUME "slow" \notin Faults, TypeInv, Sole, Once, [Next]_vars, Harmless'
  PROVE  Once'
<1>1. /\ UNCHANGED role /\ ~Fault("reply") /\ ~Fault("store") /\ \A w \in Workers : ~Crash(w)
      /\ \A t : KeyOf(t)' = KeyOf(t)
  BY HarmlessStep DEF KeyOf
<1>2. \A t \in Targets : KeyOf(t) \in Keys
  BY DEF KeyOf, Keys, TypeInv, TypeOK
<1>3. ASSUME NEW w \in Workers, NEW k \in job'[w].todo
      PROVE  k = KeyOf(k[1])
  BY <1>3, TodoStep DEF Once, KeyOf
<1>4. ASSUME NEW w \in Workers, pc'[w] \in {"send", "record"}
      PROVE  /\ job'[w].to = KeyOf(job'[w].to[1])
             /\ delivery'[job'[w].message][job'[w].to] # "delivered"
  <2>. DEFINE m == job[w].message
              k == job'[w].to
  <2>1. m \in Messages /\ job'[w].message = m /\ k \in Keys /\ pc[w] # "idle" /\ ~Record(w)
    <3>1. ~Record(w)
      BY <1>4, JobOf DEF Record, Continue, Goto
    <3>. QED
      BY <1>4, <3>1, ToStep
  <2>2. k = KeyOf(k[1]) /\ delivery[m][k] # "delivered"
    BY <1>4, ToStep DEF Once
  <2>. HIDE DEF m, k
  <2>3. CASE delivery'[m][k] # delivery[m][k]
    <3>1. PICK v \in Workers : /\ job[v].message = m
                               /\ Record(v) \/ delivery'[m][k] = "pending"
      BY <2>1, <2>3, DeliveryStep
    <3>2. Record(v) => v = w
      BY <2>1, <3>1 DEF Record, Sole, m
    <3>. QED
      BY <2>1, <2>2, <3>1, <3>2 DEF m, k
  <2>. QED
    BY <2>1, <2>2, <2>3 DEF m, k
<1>5. ASSUME NEW m \in Messages, NEW t \in Targets, Copied(m, t)
      PROVE  Copied(m, t)'
  <2>1. CASE delivery[m][KeyOf(t)] = "delivered"
    <3>1. delivery'[m][KeyOf(t)] = "delivered"
      <4>. SUFFICES ASSUME delivery'[m][KeyOf(t)] # delivery[m][KeyOf(t)] PROVE FALSE
        BY <2>1
      <4>1. PICK v \in Workers : Record(v) /\ job[v].message = m /\ job[v].to = KeyOf(t)
        BY <1>2, <2>1, DeliveryStep
      <4>. QED
        BY <2>1, <4>1 DEF Record, Once
    <3>. QED
      BY <1>1, <3>1 DEF Copied
  <2>2. ASSUME NEW w \in Workers, pc[w] = "record", job[w].message = m, job[w].to = KeyOf(t),
               job[w].result = "sent"
        PROVE  Copied(m, t)'
    <3>1. CASE Record(w)
      <4>1. delivery' = [delivery EXCEPT ![m][KeyOf(t)] = "delivered"]
        BY <1>1, <2>2, <3>1 DEF Record, DeliveryStatus
      <4>2. delivery'[m][KeyOf(t)] = "delivered"
        BY <1>2, <4>1 DEF TypeInv, TypeOK
      <4>. QED
        BY <1>1, <4>2 DEF Copied
    <3>2. CASE ~Record(w)
      <4>1. pc'[w] = pc[w] /\ job'[w] = job[w]
        BY <1>1, <2>2, <3>2, JobStep DEF Claim, Gate, Send, Throw, EnsureDeliveryRow, Close, Catch
      <4>. QED
        BY <1>1, <2>2, <4>1 DEF Copied
    <3>. QED
      BY <3>1, <3>2
  <2>. QED
    BY <1>5, <2>1, <2>2 DEF Copied
<1>6. ASSUME NEW m \in Messages, NEW t \in Targets, received'[m][t] # received[m][t]
      PROVE  received[m][t] = 0 /\ received'[m][t] = 1 /\ Copied(m, t)'
  <2>1. PICK w \in Workers : Send(w)
    BY <1>6, ReceivedStep
  <2>2. /\ job[w].message \in Messages /\ job[w].to \in Keys /\ job[w].to[1] \in Targets
        /\ pc[w] = "send" /\ job[w] \in Job /\ job \in [Workers -> Job] /\ pc \in [Workers -> Labels]
    BY <2>1, JobOf DEF Send, JobOk, Keys
  <2>3. PICK result \in Results :
          /\ job' = [job EXCEPT ![w].result = result]
          /\ result = "sent" /\ received' = [received EXCEPT ![job[w].message][job[w].to[1]] = SaturatingAdd(@, Copies)]
    BY <1>1, <1>6, <2>1 DEF Send
  <2>4. job[w].message = m /\ job[w].to[1] = t /\ received'[m][t] = SaturatingAdd(received[m][t], Copies)
    BY <1>6, <2>2, <2>3, CopyArrives
  <2>5. job[w].to = KeyOf(t) /\ delivery[m][KeyOf(t)] # "delivered"
    BY <2>2, <2>4 DEF Once
  <2>6. ~Copied(m, t)
    <3>1. \A v \in Workers : ~(pc[v] = "record" /\ job[v].message = m)
      BY <2>2, <2>4 DEF Sole
    <3>. QED
      BY <2>5, <3>1 DEF Copied
  <2>7. received[m][t] = 0
    <3>1. received[m][t] \in 0 .. Copies
      BY DEF TypeInv, TypeOK
    <3>. QED
      BY <2>6, <3>1 DEF Once, Copies
  <2>8. received'[m][t] = 1
    BY <2>4, <2>7 DEF SaturatingAdd, Copies
  <2>9. /\ pc'[w] = "record" /\ job'[w].message = m /\ job'[w].to = KeyOf(t) /\ job'[w].result = "sent"
    BY <2>1, <2>2, <2>3, <2>4, <2>5 DEF Send, Goto, Job
  <2>10. Copied(m, t)'
    BY <1>1, <2>9 DEF Copied
  <2>. QED
    BY <2>7, <2>8, <2>10
<1>7. NobodyTwice'
  BY <1>6 DEF Once, NobodyTwice
<1>8. \A m \in Messages, t \in Targets : received'[m][t] > 0 => Copied(m, t)'
  BY <1>5, <1>6 DEF Once
<1>. QED
  BY <1>1, <1>3, <1>4, <1>7, <1>8 DEF Once, KeyOf

(* While locks outlast the work, nobody gets an alert twice unless a        *)
(* process died, a write or an answer was lost, or a role changed.          *)
THEOREM AlertsArriveOnce ==
  ASSUME "slow" \notin Faults
  PROVE  Spec => []ReceivedOnce
<1>1. Init => (Harmless => Once)
  BY NoJobOk DEF Init, Harmless, Once, NobodyTwice, NoJob
<1>2. TypeInv /\ Held /\ Sole /\ (Harmless => Once) /\ [Next]_vars => (Harmless => Once)'
  BY OnceStep, HarmlessStep
<1>3. (Harmless => Once) => ReceivedOnce
  BY DEF Harmless, Once, ReceivedOnce
<1>. QED
  BY <1>1, <1>2, <1>3, TypeInvariance, HeldInvariance, PTL DEF Spec

-----------------------------------------------------------------------------
(* The outbox keeps what AlertLedger promises                               *)

Outcome == [m \in Messages |-> IF outbox[m].status \in Settled THEN outbox[m].status ELSE "open"]

(* A row that is settled stays as it is.                                    *)
LEMMA SettledStays ==
  ASSUME TypeInv, Held, [Next]_vars, NEW m \in Messages, outbox[m].status \in Settled
  PROVE  outbox'[m].status = outbox[m].status
<1>1. outbox \in [Messages -> Row] /\ outbox[m] \in Row
  BY DEF TypeInv, TypeOK
<1>2. outbox[m].status \notin {"absent", "pending", "processing"}
  BY DEF Settled
<1>3. ASSUME UNCHANGED outbox PROVE outbox'[m].status = outbox[m].status
  BY <1>3
<1>4. ASSUME Release PROVE outbox'[m].status = outbox[m].status
  BY <1>1, <1>2, <1>4 DEF Release, Stale
<1>5. ASSUME NEW n \in Messages, Enqueue(n) PROVE outbox'[m].status = outbox[m].status
  BY <1>1, <1>2, <1>5 DEF Enqueue, Enqueued
<1>6. ASSUME NEW n \in Messages, LockLapses(n) PROVE outbox'[m].status = outbox[m].status
  BY <1>1, <1>6 DEF LockLapses, Row
<1>7. ASSUME NEW n \in Messages, BackoffEnds(n) PROVE outbox'[m].status = outbox[m].status
  BY <1>1, <1>7 DEF BackoffEnds, Row
<1>8. ASSUME NEW w \in Workers, NEW n \in Messages, Claim(w, n)
      PROVE  outbox'[m].status = outbox[m].status
  BY <1>1, <1>2, <1>8 DEF Claim, Due
<1>9. ASSUME NEW w \in Workers, Close(w) \/ Catch(w)
      PROVE  outbox'[m].status = outbox[m].status
  <2>1. job[w].message # m
    BY <1>2, <1>9 DEF Close, Catch, Held
  <2>2. UNCHANGED outbox \/ \E row : outbox' = [outbox EXCEPT ![job[w].message] = row]
    BY <1>9 DEF Close, Catch, WriteOutbox
  <2>. QED
    BY <1>1, <2>1, <2>2
<1>10. ASSUME NEW w \in Workers,
             \/ Gate(w) \/ Send(w) \/ Record(w) \/ Throw(w) \/ Crash(w)
             \/ \E key \in Keys : EnsureDeliveryRow(w, key)
       PROVE  UNCHANGED outbox
  BY <1>10 DEF Gate, Send, Record, Throw, Crash, EnsureDeliveryRow
<1>11. ASSUME (\E c \in Members : ChangeRole(c)) \/ Reconfigure
       PROVE  UNCHANGED outbox
  BY <1>11 DEF ChangeRole, Reconfigure
<1>. QED
  BY <1>3, <1>4, <1>5, <1>6, <1>7, <1>8, <1>9, <1>10, <1>11 DEF Next, Process, vars

LEMMA OtherOutcomes ==
  ASSUME TypeInv, Held, [Next]_vars, NEW m \in Messages, Outcome'[m] # Outcome[m]
  PROVE  \E w \in Workers :
           Close(w) /\ job[w].message = m /\ Outcome[m] = "open"
           /\ Outcome'[m] = Verdict(w) /\ Verdict(w) \in Settled
<1>1. outbox'[m].status # outbox[m].status
  BY DEF Outcome
<1>2. outbox[m].status \notin Settled /\ outbox'[m].status \in Settled
  BY <1>1, SettledStays DEF Outcome
<1>. QED
  BY <1>1, <1>2, StatusStep DEF Outcome

LEMMA LedgerStep ==
  ASSUME TypeInv, Held, Told, [Next]_vars
  PROVE  [Alerts!Next]_<<Outcome, received>>
<1>1. CASE ~UNCHANGED received
  <2>1. PICK w \in Workers : Send(w)
    BY <1>1, ReceivedStep
  <2>. DEFINE m == job[w].message
              t == job[w].to[1]
  <2>2. m \in Messages /\ t \in Targets /\ pc[w] = "send"
    BY <2>1, JobOf DEF Send, JobOk, Keys
  <2>3. outbox[m].status = "processing" /\ UNCHANGED outbox
    BY <2>1, <2>2 DEF Held, Send
  <2>4. received' = [received EXCEPT ![m][t] = SaturatingAdd(@, Copies)]
    BY <1>1, <2>1 DEF Send
  <2>. HIDE DEF m, t
  <2>5. Outcome[m] = "open" /\ UNCHANGED Outcome
    BY <2>2, <2>3 DEF Outcome, Settled
  <2>6. received[m][t] \in 0 .. Copies
    BY <2>2 DEF TypeInv, TypeOK
  <2>7. CASE received[m][t] < Copies
    <3>1. SaturatingAdd(received[m][t], Copies) = received[m][t] + 1
      BY <2>7 DEF SaturatingAdd
    <3>2. received' = [received EXCEPT ![m][t] = @ + 1]
      BY <2>4, <3>1
    <3>. QED
      BY <2>2, <2>5, <2>7, <3>2 DEF Alerts!Next, Alerts!Reach, Outcome
  <2>8. CASE ~(received[m][t] < Copies)
    <3>1. SaturatingAdd(received[m][t], Copies) = received[m][t]
      BY <2>6, <2>8 DEF SaturatingAdd, Copies
    <3>2. received' = received
      BY <2>2, <2>4, <3>1 DEF TypeInv, TypeOK
    <3>. QED
      BY <1>1, <3>2
  <2>. QED
    BY <2>7, <2>8
<1>2. CASE UNCHANGED received /\ ~UNCHANGED Outcome
  <2>1. PICK m \in Messages : Outcome'[m] # Outcome[m]
    BY <1>2 DEF Outcome
  <2>2. PICK w \in Workers :
          Close(w) /\ job[w].message = m /\ Outcome[m] = "open"
          /\ Outcome'[m] = Verdict(w) /\ Verdict(w) \in Settled
    BY <2>1, OtherOutcomes
  <2>3. ASSUME NEW n \in Messages \ {m} PROVE Outcome'[n] = Outcome[n]
    <3>1. UNCHANGED outbox \/ \E row : outbox' = [outbox EXCEPT ![m] = row]
      BY <2>2 DEF Close, WriteOutbox
    <3>. QED
      BY <3>1 DEF Outcome, TypeInv, TypeOK
  <2>4. Outcome' = [Outcome EXCEPT ![m] = Verdict(w)]
    BY <2>2, <2>3 DEF Outcome
  <2>5. Verdict(w) \in {"delivered", "partially_delivered"} => \E t \in Targets : received[m][t] > 0
    <3>1. job[w] \in Job
      BY JobOf
    <3>2. Verdict(w) \in {"delivered", "partially_delivered"} => job[w].success
      BY <3>1 DEF Verdict, Job
    <3>. QED
      BY <2>2, <3>2 DEF Told, Reached
  <2>. QED
    BY <1>2, <2>2, <2>4, <2>5 DEF Alerts!Next, Alerts!Settle, Outcome
<1>. QED
  BY <1>1, <1>2

(* While locks outlast the work, the outbox implements AlertLedger: copies  *)
(* go out while an alert is open, it is settled once, and as delivered only *)
(* if a copy reached somebody.                                              *)
THEOREM OutboxImplementsLedger ==
  ASSUME "slow" \notin Faults
  PROVE  Spec => ImplementsAlertLedger
<1>1. Init => Alerts!Init
  BY DEF Init, Alerts!Init, Absent, Settled
<1>2. TypeInv /\ Held /\ Told /\ [Next]_vars => [Alerts!Next]_(Alerts!ledgerVars)
  BY LedgerStep DEF Alerts!ledgerVars, Outcome
<1>. QED
  BY <1>1, <1>2, TypeInvariance, HeldInvariance, ToldInvariance, PTL
     DEF Spec, ImplementsAlertLedger, Alerts!Spec

=============================================================================
