---------------------------- MODULE ScanRunProofs ----------------------------
(***************************************************************************)
(* Proofs about ScanRun, for every number of workers, runs, attempts and    *)
(* polls.  The theorems of this module hold whatever goes wrong, except     *)
(* IntentIsFirst, for which no write may be lost; those for which no lease  *)
(* may lapse under its worker are in ScanRunLeaseProofs.                    *)
(***************************************************************************)
EXTENDS ScanRun, TLAPS

-----------------------------------------------------------------------------
(* Types                                                                    *)

(* What a worker has established by the time it reaches a step.             *)
WorkerContext ==
  \A w \in Workers :
    /\ pc[w] = "poll" => job[w].copy.pollCount < MaxPolls
    /\ pc[w] = "accept" => job[w].reply \in {"pending", "completed"}
    /\ pc[w] = "submitted" => submissions[job[w].run] > 0
    /\ pc[w] \in {"complete", "charge"} => evidence[job[w].run]

Inv == TypeOK /\ WorkerContext

(* The part of TypeOK that is not about the workers.                        *)
DataOK ==
  /\ row \in [Runs -> Row]
  /\ task \in [Runs -> TaskStatuses]
  /\ evidence \in [Runs -> BOOLEAN]
  /\ metered \in [Runs -> [Metrics -> Nat]]
  /\ submissions \in [Runs -> 0 .. Cap]
  /\ monitor \in [streak: 0 .. BlockThreshold,
                  pauseReason: {"none", "repeated_failures", "usage_limit"}]
  /\ faults \in 0 .. MaxFaults

(* Evidence and the record of a submission are never lost.                  *)
Remembered ==
  /\ \A r \in Runs : evidence[r] => evidence'[r]
  /\ \A r \in Runs : submissions[r] > 0 => submissions'[r] > 0

(* Worker w's job changes at most in the reply and the streak.              *)
JobKept(w) ==
  \/ UNCHANGED job
  \/ \E reply \in Replies : job' = [job EXCEPT ![w].reply = reply]
  \/ \E n \in 0 .. BlockThreshold : job' = [job EXCEPT ![w].streak = n]

(* The counts saturate above the limit on attempts.                         *)
LEMMA CapIsNat == Cap \in Nat /\ Cap > 0 /\ MaxAttempts < Cap
BY LimitsAssumption DEF Cap

(* A new row is a row, due or not.                                          *)
LEMMA NewRowIsRow == NewRow \in Row /\ [NewRow EXCEPT !.nextAttempt = "later"] \in Row
<1>1. NewRow \in Row
  BY CapIsNat, LimitsAssumption DEF NewRow, Row, Statuses, Phases
<1>2. [NewRow EXCEPT !.nextAttempt = "later"] \in Row
  BY <1>1 DEF Row
<1>. QED
  BY <1>1, <1>2

(* An idle worker's job is a job.                                           *)
LEMMA NoJobIsJob == NoJob \in Job
BY NewRowIsRow, LimitsAssumption DEF NoJob, Job

(* A saturating count stays within its limit.                               *)
LEMMA SaturatingAddBounded ==
  ASSUME NEW limit \in Nat, limit > 0, NEW n \in 0 .. limit
  PROVE  SaturatingAdd(n, limit) \in 1 .. limit
BY DEF SaturatingAdd

(* Every row the handlers compute from a row is a row.                      *)
LEMMA RowUpdates ==
  ASSUME NEW old \in Row
  PROVE  /\ Unclaimed(old) \in Row
         /\ \A w \in Workers : Claimed(old, w) \in Row
         /\ Released(old) \in Row
         /\ Resumed(old) \in Row
         /\ RetryScheduled(old) \in Row
         /\ FailedRow(old) \in Row
         /\ \A known \in BOOLEAN : CompletedRow(old, known) \in Row
         /\ \A w \in Workers : Waiting(old, w) \in Row
<1>1. Unclaimed(old) \in Row
  BY DEF Unclaimed, Row
<1>2. \A w \in Workers : Claimed(old, w) \in Row
  <2>. TAKE w \in Workers
  <2>1. old.attemptCount \in 0 .. Cap
    BY DEF Row
  <2>2. SaturatingAdd(old.attemptCount, Cap) \in 0 .. Cap
    BY <2>1, CapIsNat, SaturatingAddBounded
  <2>. QED
    BY <2>1, <2>2 DEF Claimed, Row, Statuses
<1>3. Released(old) \in Row
  BY DEF Released, Unclaimed, Row, Statuses
<1>4. Resumed(old) \in Row
  BY DEF Resumed, Unclaimed, Row
<1>5. RetryScheduled(old) \in Row
  BY DEF RetryScheduled, Unclaimed, Row, Statuses, Phases
<1>6. FailedRow(old) \in Row
  BY DEF FailedRow, Unclaimed, Row, Statuses, Phases
<1>7. \A known \in BOOLEAN : CompletedRow(old, known) \in Row
  BY DEF CompletedRow, Unclaimed, Row, Statuses
<1>8. \A w \in Workers : Waiting(old, w) \in Row
  BY DEF Waiting, OnPollPath, Unclaimed, Row
<1>. QED
  BY <1>1, <1>2, <1>3, <1>4, <1>5, <1>6, <1>7, <1>8

(* A write that may be lost keeps the types, given a row of the right type. *)
LEMMA WriteRowTypes ==
  ASSUME TypeOK, NEW r \in Runs, NEW new \in Row, WriteRow(r, new)
  PROVE  row' \in [Runs -> Row] /\ faults' \in 0 .. MaxFaults
BY FaultsAssumption DEF TypeOK, WriteRow, MayFault

(* The same for a write of the provider task.                               *)
LEMMA WriteTaskTypes ==
  ASSUME TypeOK, NEW r \in Runs, NEW s \in TaskStatuses, WriteTask(r, s)
  PROVE  task' \in [Runs -> TaskStatuses] /\ faults' \in 0 .. MaxFaults
BY FaultsAssumption DEF TypeOK, WriteTask, MayFault

(* The same for an update that the phase table may refuse.                  *)
LEMMA TransitionTypes ==
  ASSUME TypeOK, NEW w \in Workers, job[w].run \in Runs,
         NEW new \in Row, NEW to \in Phases, Transition(w, to, new)
  PROVE  row' \in [Runs -> Row] /\ faults' \in 0 .. MaxFaults
<1>1. [new EXCEPT !.status = "running", !.phase = to] \in Row
  BY DEF Row, Statuses
<1>. QED
  BY <1>1, WriteRowTypes DEF Transition, TypeOK

(* A worker that moves on keeps its job or returns.                         *)
LEMMA GotoTypes ==
  ASSUME TypeOK, NEW w \in Workers, job[w].run \in Runs,
         NEW label \in Executing \cup Settling, Goto(w, label),
         UNCHANGED job
  PROVE  /\ pc' \in [Workers -> {"idle"} \cup Executing \cup Settling]
         /\ job' \in [Workers -> Job]
         /\ \A v \in Workers : pc'[v] # "idle" => job'[v].run \in Runs
BY DEF TypeOK, Goto

(* A worker that returns forgets its job.                                   *)
LEMMA ReturnTypes ==
  ASSUME TypeOK, NEW w \in Workers, Return(w)
  PROVE  /\ pc' \in [Workers -> {"idle"} \cup Executing \cup Settling]
         /\ job' \in [Workers -> Job]
         /\ \A v \in Workers : pc'[v] # "idle" => job'[v].run \in Runs
BY NoJobIsJob DEF TypeOK, Return, Goto

(* The context of the other workers survives a step of worker w that only   *)
(* adds evidence and submissions; its own must hold where it arrives.       *)
LEMMA ContextPreserved ==
  ASSUME Inv, NEW w \in Workers, NEW label, Goto(w, label),
         \A v \in Workers \ {w} : job'[v] = job[v],
         \A r \in Runs : evidence[r] => evidence'[r],
         \A r \in Runs : submissions[r] > 0 => submissions'[r] > 0,
         label = "poll" => job'[w].copy.pollCount < MaxPolls,
         label = "accept" => job'[w].reply \in {"pending", "completed"},
         label = "submitted" => submissions'[job'[w].run] > 0,
         label \in {"complete", "charge"} => evidence'[job'[w].run]
  PROVE  WorkerContext'
<1>1. pc'[w] = label /\ \A v \in Workers \ {w} : pc'[v] = pc[v]
  BY DEF Inv, TypeOK, Goto
<1>2. \A v \in Workers : pc[v] # "idle" => job[v].run \in Runs
  BY DEF Inv, TypeOK
<1>3. ASSUME NEW v \in Workers \ {w}
      PROVE  /\ pc'[v] = "poll" => job'[v].copy.pollCount < MaxPolls
             /\ pc'[v] = "accept" => job'[v].reply \in {"pending", "completed"}
             /\ pc'[v] = "submitted" => submissions'[job'[v].run] > 0
             /\ pc'[v] \in {"complete", "charge"} => evidence'[job'[v].run]
  BY <1>1, <1>2, <1>3 DEF Inv, WorkerContext
<1>. QED
  BY <1>1, <1>3 DEF WorkerContext

(* A step of the environment or of the clock, which no worker takes.        *)
LEMMA ContextUnchanged ==
  ASSUME Inv, UNCHANGED <<pc, job, evidence, submissions>>
  PROVE  WorkerContext'
BY DEF Inv, WorkerContext

(* Usage rows and submissions are counted up by steps that keep their type. *)
LEMMA RecordUsageTypes ==
  ASSUME TypeOK, NEW r \in Runs, NEW m \in Metrics, RecordUsage(r, m)
  PROVE  metered' \in [Runs -> [Metrics -> Nat]]
BY DEF TypeOK, RecordUsage

(* Initially no worker has any context to keep.                             *)
LEMMA InitInv == Init => Inv
<1>. SUFFICES ASSUME Init PROVE Inv
  OBVIOUS
<1>1. row \in [Runs -> Row]
  BY NewRowIsRow DEF Init
<1>2. job \in [Workers -> Job]
  BY NoJobIsJob DEF Init
<1>3. TypeOK
  BY <1>1, <1>2, CapIsNat, LimitsAssumption, FaultsAssumption
  DEF Init, TypeOK, TaskStatuses
<1>4. WorkerContext
  BY DEF Init, WorkerContext
<1>. QED
  BY <1>3, <1>4 DEF Inv

(***************************************************************************)
(* Inv is inductive: one lemma per action, in the order of ScanRun.         *)
(***************************************************************************)

(* The claimer starts with a copy of a row.                                 *)
LEMMA ClaimInv ==
  ASSUME Inv, NEW w \in Workers, NEW r \in Runs, Claim(w, r)
  PROVE  Inv'
<1>1. row[r] \in Row
  BY DEF Inv, TypeOK
<1>2. Claimed(row[r], w) \in Row
  BY <1>1, RowUpdates
<1>3. [NoJob EXCEPT !.run = r, !.copy = Claimed(row[r], w)] \in Job
  BY <1>2, NoJobIsJob DEF Job
<1>4. WorkerContext'
  BY ContextPreserved DEF Claim, Inv, TypeOK
<1>5. TypeOK'
  BY <1>2, <1>3 DEF Inv, TypeOK, Claim, Goto, Executing
<1>. QED
  BY <1>4, <1>5 DEF Inv

(* A release changes rows only, and into rows.                              *)
LEMMA ReleaseInv == ASSUME Inv, Release PROVE Inv'
<1>1. row' \in [Runs -> Row]
  BY RowUpdates DEF Inv, TypeOK, Release
<1>. QED
  BY <1>1, ContextUnchanged DEF Inv, TypeOK, Release

(* So does the passing of time.                                             *)
LEMMA ClockInv ==
  ASSUME Inv, NEW r \in Runs,
         LeaseLapses(r) \/ BackoffEnds(r) \/ PollFallsDue(r)
  PROVE  Inv'
<1>1. row[r] \in Row
  BY DEF Inv, TypeOK
<1>2. /\ [row[r] EXCEPT !.lease = "lapsed"] \in Row
      /\ [row[r] EXCEPT !.nextAttempt = "due"] \in Row
      /\ [row[r] EXCEPT !.nextPoll = "due"] \in Row
  BY <1>1 DEF Row
<1>3. row' \in [Runs -> Row]
  BY <1>2 DEF Inv, TypeOK, LeaseLapses, BackoffEnds, PollFallsDue
<1>. QED
  BY <1>3, ContextUnchanged
  DEF Inv, TypeOK, LeaseLapses, BackoffEnds, PollFallsDue

(* Typed shared state is part of the type invariant.                        *)
LEMMA DataFromTypes == TypeOK => DataOK
BY DEF TypeOK, DataOK

(* A step of worker w that keeps the shared state well-formed and forgets    *)
(* neither evidence nor submissions: it returns, or moves on to label.      *)
LEMMA ReturnInv ==
  ASSUME Inv, NEW w \in Workers, Return(w), DataOK', Remembered
  PROVE  Inv'
<1>1. \A v \in Workers \ {w} : job'[v] = job[v]
  BY DEF Inv, TypeOK, Return
<1>2. WorkerContext'
  BY <1>1, ContextPreserved DEF Return, Remembered
<1>3. TypeOK'
  BY ReturnTypes DEF Inv, TypeOK, DataOK
<1>. QED
  BY <1>2, <1>3 DEF Inv

(* The same for a worker that moves on with its job.                        *)
LEMMA MoveInv ==
  ASSUME Inv, NEW w \in Workers, NEW label \in Executing \cup Settling,
         Goto(w, label), DataOK', Remembered, JobKept(w),
         label = "poll" => job[w].copy.pollCount < MaxPolls,
         label = "accept" => job'[w].reply \in {"pending", "completed"},
         label = "submitted" => submissions'[job[w].run] > 0,
         label \in {"complete", "charge"} => evidence'[job[w].run],
         pc[w] # "idle"
  PROVE  Inv'
<1>. DEFINE Kept == /\ \A v \in Workers \ {w} : job'[v] = job[v]
                    /\ job'[w].run = job[w].run
                    /\ job'[w].copy = job[w].copy
                    /\ job[w].run \in Runs
                    /\ job' \in [Workers -> Job]
<1>1. Kept
  <2>1. job \in [Workers -> Job] /\ job[w] \in Job /\ job[w].run \in Runs
    BY DEF Inv, TypeOK
  <2>2. CASE UNCHANGED job
    BY <2>1, <2>2
  <2>3. ASSUME NEW reply \in Replies, job' = [job EXCEPT ![w].reply = reply]
        PROVE  Kept
    <3>1. [job[w] EXCEPT !.reply = reply] \in Job
      BY <2>1 DEF Job
    <3>. QED
      BY <2>1, <2>3, <3>1 DEF Job
  <2>4. ASSUME NEW n \in 0 .. BlockThreshold,
               job' = [job EXCEPT ![w].streak = n]
        PROVE  Kept
    <3>1. [job[w] EXCEPT !.streak = n] \in Job
      BY <2>1 DEF Job
    <3>. QED
      BY <2>1, <2>4, <3>1 DEF Job
  <2>. QED
    BY <2>2, <2>3, <2>4 DEF JobKept
<1>2. WorkerContext'
  BY <1>1, ContextPreserved DEF Remembered
<1>3. TypeOK'
  BY <1>1 DEF Inv, TypeOK, DataOK, Goto
<1>. QED
  BY <1>2, <1>3 DEF Inv

(* The steps on the claimed copy; Begin lets no exhausted copy poll.        *)
LEMMA StartInv ==
  ASSUME Inv, NEW w \in Workers, Start(w) \/ Abandon(w)
  PROVE  Inv'
<1>1. CASE SkipFinished(w) \/ Abandon(w)
  BY <1>1, ReturnInv, DataFromTypes
  DEF SkipFinished, Abandon, Inv, DataOK, Remembered
<1>2. CASE Reject(w)
  <2>1. monitor' \in [streak: 0 .. BlockThreshold,
               pauseReason: {"none", "repeated_failures", "usage_limit"}]
    BY <1>2 DEF Reject, Inv, TypeOK
  <2>. QED
    BY <1>2, <2>1, MoveInv, DataFromTypes
    DEF Reject, Inv, DataOK, Remembered, JobKept, Replies, Executing
<1>3. CASE Begin(w)
  <2>1. PICK label \in {"lookup", "fail", "poll"} :
          Goto(w, label) /\ (label = "poll" => ~PollsExhausted(job[w].copy))
    BY <1>3 DEF Begin
  <2>2. JobKept(w) /\ DataOK' /\ Remembered /\ pc[w] # "idle"
    BY <1>3, DataFromTypes
    DEF Begin, JobKept, Replies, Inv, DataOK, Remembered
  <2>3. job[w].copy.pollCount \in Nat
    BY DEF Inv, TypeOK, Job, Row
  <2>4. label = "poll" => job[w].copy.pollCount < MaxPolls
    BY <2>1, <2>3, LimitsAssumption DEF PollsExhausted
  <2>. QED
    BY <2>1, <2>2, <2>4, MoveInv DEF Executing
<1>. QED
  BY <1>1, <1>2, <1>3 DEF Start

(* What a worker that is not idle works on.                                 *)
LEMMA JobTypes ==
  ASSUME Inv, NEW w \in Workers, pc[w] # "idle"
  PROVE  /\ job[w].run \in Runs
         /\ job[w].copy \in Row /\ job[w].copy.pollCount \in 0 .. MaxPolls
         /\ row[job[w].run] \in Row
         /\ job[w].reply \in Replies \cup {"none"}
BY DEF Inv, TypeOK, Job, Row

(* A poll writes a count that Begin has found to be in range.               *)
LEMMA PollInv == ASSUME Inv, NEW w \in Workers, Poll(w) PROVE Inv'
<1>. DEFINE r == job[w].run
            new == [row[r] EXCEPT !.pollCount = job[w].copy.pollCount + 1]
<1>1. pc[w] = "poll" /\ job[w].copy.pollCount < MaxPolls
  BY DEF Poll, Inv, WorkerContext
<1>2. new \in Row
  BY <1>1, JobTypes, LimitsAssumption DEF Row
<1>3. DataOK'
  BY <1>1, <1>2, JobTypes, WriteRowTypes DEF Poll, Inv, TypeOK, DataOK
<1>4. PICK reply \in Replies :
        /\ job' = [job EXCEPT ![w].reply = reply]
        /\ Goto(w, CASE reply = "pending" -> "wait"
                     [] reply = "completed" -> "store"
                     [] OTHER -> "fail")
  BY DEF Poll
<1>5. PICK label \in {"wait", "store", "fail"} : Goto(w, label)
  BY <1>4
<1>. QED
  BY <1>1, <1>3, <1>4, <1>5, MoveInv DEF Poll, JobKept, Remembered, Executing

(* The three ways on from the task row of an earlier attempt.               *)
LEMMA LookupInv ==
  ASSUME Inv, NEW w \in Workers,
         ResumePolling(w) \/ SkipAccepted(w) \/ GoOnToSubmit(w)
  PROVE  Inv'
<1>1. CASE ResumePolling(w)
  <2>1. Resumed(row[job[w].run]) \in Row
    BY <1>1, JobTypes, RowUpdates DEF ResumePolling
  <2>2. DataOK'
    BY <1>1, <2>1, JobTypes, WriteRowTypes
    DEF ResumePolling, Inv, TypeOK, DataOK
  <2>. QED
    BY <1>1, <2>2, ReturnInv DEF ResumePolling, Remembered
<1>2. CASE SkipAccepted(w)
  BY <1>2, ReturnInv, DataFromTypes DEF SkipAccepted, Inv, DataOK, Remembered
<1>3. CASE GoOnToSubmit(w)
  BY <1>3, MoveInv, DataFromTypes
  DEF GoOnToSubmit, Inv, DataOK, Remembered, JobKept, Executing
<1>. QED
  BY <1>1, <1>2, <1>3

(* From the intent to the metered submission.                               *)
LEMMA SubmissionInv ==
  ASSUME Inv, NEW w \in Workers,
         RecordIntent(w) \/ Announce(w) \/ Submit(w) \/ MeterSubmission(w)
  PROVE  Inv'
<1>1. CASE RecordIntent(w)
  <2>1. DataOK'
    BY <1>1, JobTypes, WriteTaskTypes
    DEF RecordIntent, Inv, TypeOK, DataOK, TaskStatuses
  <2>. QED
    BY <1>1, <2>1, MoveInv DEF RecordIntent, Remembered, JobKept, Executing
<1>2. CASE Announce(w)
  <2>1. DataOK'
    BY <1>2, JobTypes, TransitionTypes
    DEF Announce, Inv, TypeOK, DataOK, Phases
  <2>. QED
    BY <1>2, <2>1, MoveInv DEF Announce, Remembered, JobKept, Executing
<1>3. CASE Submit(w)
  <2>1. /\ submissions' \in [Runs -> 0 .. Cap]
        /\ \A r \in Runs : submissions[r] > 0 => submissions'[r] > 0
        /\ submissions'[job[w].run] > 0
    <3>1. SaturatingAdd(submissions[job[w].run], Cap) \in 1 .. Cap
      BY <1>3, JobTypes, CapIsNat, SaturatingAddBounded DEF Submit, Inv, TypeOK
    <3>. QED
      BY <1>3, <3>1, JobTypes, CapIsNat DEF Submit, Inv, TypeOK
  <2>2. DataOK'
    BY <1>3, <2>1 DEF Submit, Inv, TypeOK, DataOK
  <2>. QED
    BY <1>3, <2>1, <2>2, MoveInv DEF Submit, Remembered, JobKept, Executing
<1>4. CASE MeterSubmission(w)
  <2>1. PICK label \in {"accept", "fail"} :
          /\ Goto(w, label)
          /\ label = "accept" => job[w].reply \in {"pending", "completed"}
    BY <1>4 DEF MeterSubmission
  <2>2. DataOK'
    BY <1>4, JobTypes, RecordUsageTypes
    DEF MeterSubmission, SubmissionMetric, Metrics, Inv, TypeOK, DataOK
  <2>. QED
    BY <1>4, <2>1, <2>2, MoveInv
    DEF MeterSubmission, Remembered, JobKept, Executing
<1>. QED
  BY <1>1, <1>2, <1>3, <1>4

(* From the accepted request to its result or the wait for it.              *)
LEMMA AcceptInv ==
  ASSUME Inv, NEW w \in Workers, Accept(w) \/ Wait(w) \/ Process(w)
  PROVE  Inv'
<1>1. CASE Accept(w)
  <2>1. job[w].reply \in TaskStatuses
    BY <1>1 DEF Accept, Inv, WorkerContext, TaskStatuses
  <2>2. DataOK'
    BY <1>1, <2>1, JobTypes, WriteTaskTypes DEF Accept, Inv, TypeOK, DataOK
  <2>3. PICK label \in {"wait", "process"} : Goto(w, label)
    BY <1>1 DEF Accept
  <2>. QED
    BY <1>1, <2>2, <2>3, MoveInv DEF Accept, Remembered, JobKept, Executing
<1>2. CASE Wait(w)
  <2>2. Waiting(row[job[w].run], w) \in Row
    BY <1>2, JobTypes, RowUpdates DEF Wait
  <2>3. DataOK'
    BY <1>2, <2>2, JobTypes, TransitionTypes
    DEF Wait, Inv, TypeOK, DataOK, Phases
  <2>. QED
    BY <1>2, <2>3, ReturnInv DEF Wait, Remembered
<1>3. CASE Process(w)
  <2>1. DataOK'
    BY <1>3, JobTypes, TransitionTypes
    DEF Process, Inv, TypeOK, DataOK, Phases
  <2>. QED
    BY <1>3, <2>1, MoveInv DEF Process, Remembered, JobKept, Executing
<1>. QED
  BY <1>1, <1>2, <1>3

(* From the stored answer, which the later steps rely on, to the end.       *)
LEMMA ResultInv ==
  ASSUME Inv, NEW w \in Workers,
         StoreEvidence(w) \/ Complete(w) \/ ChargeCheck(w)
           \/ AdvanceSchedule(w)
  PROVE  Inv'
<1>1. CASE StoreEvidence(w)
  <2>1. /\ DataOK' /\ Remembered
        /\ pc[w] # "idle" /\ job[w].run \in Runs
    <3>1. pc[w] # "idle" /\ job[w].run \in Runs
      BY <1>1, JobTypes DEF StoreEvidence
    <3>2. faults' \in 0 .. MaxFaults
      BY <1>1, FaultsAssumption DEF StoreEvidence, MayFault, Inv, TypeOK
    <3>3. evidence' \in [Runs -> BOOLEAN] /\ Remembered
      BY <1>1, <3>1 DEF StoreEvidence, Inv, TypeOK, Remembered
    <3>. QED
      BY <1>1, <3>1, <3>2, <3>3 DEF StoreEvidence, Inv, TypeOK, DataOK
  <2>2. CASE Goto(w, "complete") /\ UNCHANGED job /\ evidence'[job[w].run]
    BY <2>1, <2>2, MoveInv DEF JobKept, Executing
  <2>3. CASE StoreFailed(w)
    BY <2>1, <2>3, ReturnInv, MoveInv
    DEF StoreFailed, JobKept, Replies, Executing
  <2>. QED
    BY <1>1, <2>1, <2>2, <2>3 DEF StoreEvidence, Inv, TypeOK
<1>2. CASE Complete(w)
  <2>. DEFINE old == row[job[w].run]
  <2>1. PICK known \in BOOLEAN : WriteRow(job[w].run, CompletedRow(old, known))
    BY <1>2 DEF Complete
  <2>2. /\ pc[w] # "idle" /\ old \in Row /\ job[w].run \in Runs
        /\ evidence[job[w].run]
    BY <1>2, JobTypes DEF Complete, Inv, WorkerContext
  <2>4. CompletedRow(old, known) \in Row
    BY <2>2, RowUpdates
  <2>5. row' \in [Runs -> Row] /\ faults' \in 0 .. MaxFaults
    BY <2>1, <2>2, <2>4, WriteRowTypes DEF Inv
  <2>6. DataOK'
    BY <1>2, <2>5 DEF Complete, Inv, TypeOK, DataOK
  <2>. QED
    BY <1>2, <2>2, <2>6, MoveInv DEF Complete, Remembered, JobKept, Settling
<1>3. CASE ChargeCheck(w)
  <2>1. DataOK'
    BY <1>3, JobTypes, RecordUsageTypes
    DEF ChargeCheck, Metrics, Inv, TypeOK, DataOK
  <2>. QED
    BY <1>3, <2>1, MoveInv DEF ChargeCheck, Remembered, JobKept, Settling
<1>4. CASE AdvanceSchedule(w)
  <2>1. DataOK'
    BY <1>4, LimitsAssumption DEF AdvanceSchedule, Inv, TypeOK, DataOK
  <2>. QED
    BY <1>4, <2>1, ReturnInv DEF AdvanceSchedule, Remembered
<1>. QED
  BY <1>1, <1>2, <1>3, <1>4

(* Failing a run and counting the failure.                                  *)
LEMMA FailureInv ==
  ASSUME Inv, NEW w \in Workers,
         MarkRunFailed(w) \/ ReadStreak(w) \/ WriteStreak(w)
  PROVE  Inv'
<1>1. CASE MarkRunFailed(w)
  <2>1. /\ RetryScheduled(row[job[w].run]) \in Row
        /\ FailedRow(row[job[w].run]) \in Row
        /\ job[w].run \in Runs
    BY <1>1, JobTypes, RowUpdates DEF MarkRunFailed
  <2>2. DataOK'
    BY <1>1, <2>1, WriteRowTypes DEF MarkRunFailed, Inv, TypeOK, DataOK
  <2>. QED
    BY <1>1, <2>2, ReturnInv, MoveInv
    DEF MarkRunFailed, Remembered, JobKept, Settling
<1>2. CASE ReadStreak(w)
  <2>1. SaturatingAdd(monitor.streak, BlockThreshold) \in 0 .. BlockThreshold
    BY LimitsAssumption, SaturatingAddBounded DEF Inv, TypeOK
  <2>. QED
    BY <1>2, <2>1, MoveInv, DataFromTypes
    DEF ReadStreak, Inv, DataOK, Remembered, JobKept, Settling
<1>3. CASE WriteStreak(w)
  <2>1. job[w].streak \in 0 .. BlockThreshold
    BY DEF Inv, TypeOK, Job
  <2>2. DataOK'
    BY <1>3, <2>1 DEF WriteStreak, Inv, TypeOK, DataOK
  <2>. QED
    BY <1>3, <2>2, ReturnInv DEF WriteStreak, Remembered
<1>. QED
  BY <1>1, <1>2, <1>3

(* A crash loses the job and nothing else.                                  *)
LEMMA CrashInv == ASSUME Inv, NEW w \in Workers, Crash(w) PROVE Inv'
<1>1. DataOK'
  BY FaultsAssumption DEF Crash, MayFault, Inv, TypeOK, DataOK
<1>. QED
  BY <1>1, ReturnInv DEF Crash, Remembered

(* Resuming touches the monitor only.                                       *)
LEMMA ResumeMonitorInv == ASSUME Inv, ResumeMonitor PROVE Inv'
BY ContextUnchanged, LimitsAssumption DEF ResumeMonitor, Inv, TypeOK

(* The step of the induction: Inv survives every action.                    *)
LEMMA NextInv == Inv /\ [Next]_vars => Inv'
<1>. SUFFICES ASSUME Inv, [Next]_vars PROVE Inv'
  OBVIOUS
<1>1. CASE Release
  BY <1>1, ReleaseInv
<1>2. ASSUME NEW r \in Runs, LeaseLapses(r) \/ BackoffEnds(r) \/ PollFallsDue(r)
      PROVE  Inv'
  BY <1>2, ClockInv
<1>3. ASSUME NEW w \in Workers, NEW r \in Runs, Claim(w, r)
      PROVE  Inv'
  BY <1>3, ClaimInv
<1>4. ASSUME NEW w \in Workers, Start(w) \/ Abandon(w)
      PROVE  Inv'
  BY <1>4, StartInv
<1>5. ASSUME NEW w \in Workers, Execute(w)
      PROVE  Inv'
  BY <1>5, PollInv, LookupInv, SubmissionInv, AcceptInv, ResultInv, FailureInv
  DEF Execute
<1>6. ASSUME NEW w \in Workers, Crash(w)
      PROVE  Inv'
  BY <1>6, CrashInv
<1>7. CASE ResumeMonitor
  BY <1>7, ResumeMonitorInv
<1>8. CASE UNCHANGED vars
  BY <1>8, ContextUnchanged DEF vars, Inv, TypeOK
<1>. QED
  BY <1>1, <1>2, <1>3, <1>4, <1>5, <1>6, <1>7, <1>8 DEF Next

(* The type invariant and the context of the workers always hold: the base  *)
(* on which every other theorem rests.                                      *)
THEOREM Invariance == Spec => []Inv
BY InitInv, NextInv, PTL DEF Spec

(* Every variable keeps its type: in particular the poll counter never      *)
(* passes MaxPolls, although each worker counts from its own copy of it.    *)
THEOREM TypeCorrect == Spec => []TypeOK
BY Invariance, PTL DEF Inv

-----------------------------------------------------------------------------
(* What holds whatever goes wrong                                           *)

(* What each update of a row does to the fields the properties are about.   *)
LEMMA UpdatedFields ==
  ASSUME NEW old \in Row
  PROVE  /\ /\ Released(old).status \in {"running", "queued"}
            /\ Released(old).lease = "none"
            /\ Released(old).nextPoll = old.nextPoll
            /\ Released(old).taskId = old.taskId
         /\ \A w \in Workers :
              /\ Claimed(old, w).status = "running"
              /\ Claimed(old, w).lease = "live"
              /\ Claimed(old, w).claimedBy = w
              /\ Claimed(old, w).nextPoll = old.nextPoll
              /\ Claimed(old, w).taskId = old.taskId
         /\ /\ Resumed(old).status = old.status
            /\ Resumed(old).lease = "none"
            /\ Resumed(old).taskId
         /\ /\ RetryScheduled(old).status = "queued"
            /\ RetryScheduled(old).lease = "none"
            /\ RetryScheduled(old).nextPoll = "none"
         /\ /\ FailedRow(old).status = "failed"
            /\ FailedRow(old).lease = "none"
            /\ FailedRow(old).nextPoll = "none"
         /\ \A known \in BOOLEAN :
              /\ CompletedRow(old, known).status = "completed"
              /\ CompletedRow(old, known).lease = "none"
              /\ CompletedRow(old, known).nextPoll = "none"
         /\ \A w \in Workers :
              /\ Waiting(old, w).lease = "none"
              /\ Waiting(old, w).taskId = (old.taskId \/ ~OnPollPath(w))
<1>1. \A w \in Workers : Waiting(old, w).taskId = (old.taskId \/ ~OnPollPath(w))
  BY DEF Row, Waiting, Unclaimed, OnPollPath
<1>. QED
  BY <1>1 DEF Row, Claimed, Released, Resumed, RetryScheduled, FailedRow,
              CompletedRow, Waiting, Unclaimed

(* A step that changes the row of run r is one of these, and this is what   *)
(* it makes of the row.                                                     *)
LEMMA RowStep ==
  ASSUME Inv, [Next]_vars, NEW r \in Runs, row'[r] # row[r]
  PROVE  \/ Releasable(r) /\ row'[r] = Released(row[r])
         \/ LeaseLapses(r) /\ row'[r] = [row[r] EXCEPT !.lease = "lapsed"]
         \/ row'[r] = [row[r] EXCEPT !.nextAttempt = "due"]
         \/ /\ row[r].nextPoll = "later"
            /\ row'[r] = [row[r] EXCEPT !.nextPoll = "due"]
         \/ \E w \in Workers : Claim(w, r) /\ row'[r] = Claimed(row[r], w)
         \/ \E w \in Workers :
              /\ pc[w] \in Executing /\ job[w].run = r
              /\ \/ /\ Poll(w)
                    /\ row'[r] = [row[r] EXCEPT
                                   !.pollCount = job[w].copy.pollCount + 1]
                 \/ ResumePolling(w) /\ row'[r] = Resumed(row[r])
                 \/ /\ Announce(w) \/ Process(w)
                    /\ row[r].status = "running"
                    /\ \E to \in Phases :
                         row'[r] = [row[r] EXCEPT !.status = "running",
                                                  !.phase = to]
                 \/ /\ Wait(w)
                    /\ row[r].status = "running"
                    /\ row'[r] = [Waiting(row[r], w) EXCEPT
                                   !.status = "running",
                                   !.phase = "provider_pending"]
                 \/ /\ Complete(w)
                    /\ \E known \in BOOLEAN :
                         row'[r] = CompletedRow(row[r], known)
                 \/ /\ MarkRunFailed(w)
                    /\ row'[r] \in {RetryScheduled(row[r]), FailedRow(row[r])}
<1>0. row \in [Runs -> Row]
  BY DEF Inv, TypeOK
<1>1. CASE Release
  BY <1>0, <1>1 DEF Release
<1>2. ASSUME NEW s \in Runs, LeaseLapses(s) \/ BackoffEnds(s) \/ PollFallsDue(s)
      PROVE  \/ LeaseLapses(r) /\ row'[r] = [row[r] EXCEPT !.lease = "lapsed"]
             \/ row'[r] = [row[r] EXCEPT !.nextAttempt = "due"]
             \/ /\ row[r].nextPoll = "later"
                /\ row'[r] = [row[r] EXCEPT !.nextPoll = "due"]
  BY <1>0, <1>2 DEF LeaseLapses, BackoffEnds, PollFallsDue
<1>3. ASSUME NEW w \in Workers, NEW s \in Runs, Claim(w, s)
      PROVE  Claim(w, r) /\ row'[r] = Claimed(row[r], w)
  BY <1>0, <1>3 DEF Claim
<1>4. ASSUME NEW w \in Workers, Poll(w)
      PROVE  /\ pc[w] \in Executing /\ job[w].run = r
             /\ row'[r] = [row[r] EXCEPT !.pollCount = job[w].copy.pollCount + 1]
  BY <1>0, <1>4 DEF Poll, WriteRow, Executing
<1>5. ASSUME NEW w \in Workers, ResumePolling(w)
      PROVE  /\ pc[w] \in Executing /\ job[w].run = r
             /\ row'[r] = Resumed(row[r])
  BY <1>0, <1>5 DEF ResumePolling, WriteRow, Executing
<1>6. ASSUME NEW w \in Workers, Announce(w) \/ Process(w)
      PROVE  /\ pc[w] \in Executing /\ job[w].run = r
             /\ row[r].status = "running"
             /\ \E to \in Phases :
                  row'[r] = [row[r] EXCEPT !.status = "running", !.phase = to]
  BY <1>0, <1>6 DEF Announce, Process, Transition, WriteRow, Executing, Phases
<1>7. ASSUME NEW w \in Workers, Wait(w)
      PROVE  /\ pc[w] \in Executing /\ job[w].run = r
             /\ row[r].status = "running"
             /\ row'[r] = [Waiting(row[r], w) EXCEPT
                            !.status = "running", !.phase = "provider_pending"]
  BY <1>0, <1>7 DEF Wait, Transition, WriteRow, Executing
<1>8. ASSUME NEW w \in Workers, Complete(w)
      PROVE  /\ pc[w] \in Executing /\ job[w].run = r
             /\ \E known \in BOOLEAN : row'[r] = CompletedRow(row[r], known)
  BY <1>0, <1>8 DEF Complete, WriteRow, Executing
<1>9. ASSUME NEW w \in Workers, MarkRunFailed(w)
      PROVE  /\ pc[w] \in Executing /\ job[w].run = r
             /\ row'[r] \in {RetryScheduled(row[r]), FailedRow(row[r])}
  BY <1>0, <1>9 DEF MarkRunFailed, WriteRow, Executing
<1>10. row' # row
  BY <1>0
<1>. QED
  BY <1>1, <1>2, <1>3, <1>4, <1>5, <1>6, <1>7, <1>8, <1>9, <1>10
  DEF Next, vars, Start, Execute, SkipFinished, Abandon, Reject, Begin,
      SkipAccepted, GoOnToSubmit, RecordIntent, Submit, MeterSubmission,
      Accept, StoreEvidence, ChargeCheck, AdvanceSchedule, ReadStreak,
      WriteStreak, ResumeMonitor, Crash

(* The same, field by field, for the fields the properties are about.       *)
LEMMA FieldStep ==
  ASSUME Inv, [Next]_vars, NEW r \in Runs, row'[r] # row[r]
  PROVE  \/ /\ row'[r].status = row[r].status
            /\ row'[r].claimedBy = row[r].claimedBy
            /\ row'[r].taskId = row[r].taskId
            /\ \/ row'[r].lease = row[r].lease
               \/ row'[r].lease = "lapsed" /\ LeaseLapses(r)
            /\ row[r].nextPoll = "none" => row'[r].nextPoll = "none"
         \/ /\ Releasable(r)
            /\ row'[r].status \in {"running", "queued"}
            /\ row'[r].lease = "none"
            /\ row'[r].nextPoll = row[r].nextPoll
            /\ row'[r].taskId = row[r].taskId
         \/ \E w \in Workers :
            /\ Claim(w, r)
            /\ row'[r].status = "running"
            /\ row'[r].lease = "live"
            /\ row'[r].claimedBy = w
            /\ row'[r].nextPoll = row[r].nextPoll
            /\ row'[r].taskId = row[r].taskId
         \/ \E w \in Workers :
            /\ pc[w] \in Executing /\ job[w].run = r
            /\ row'[r].lease = "none"
            /\ \/ /\ ResumePolling(w)
                  /\ row'[r].status = row[r].status
                  /\ row'[r].taskId
               \/ /\ Wait(w)
                  /\ row'[r].status = "running" /\ row[r].status = "running"
                  /\ row'[r].taskId = (row[r].taskId \/ ~OnPollPath(w))
               \/ /\ Complete(w)
                  /\ row'[r].status = "completed"
                  /\ row'[r].nextPoll = "none"
               \/ /\ MarkRunFailed(w)
                  /\ row'[r].status \in {"queued", "failed"}
                  /\ row'[r].nextPoll = "none"
<1>1. row[r] \in Row
  BY DEF Inv, TypeOK
<1>2. CASE Releasable(r) /\ row'[r] = Released(row[r])
  BY <1>1, <1>2, UpdatedFields
<1>3. CASE LeaseLapses(r) /\ row'[r] = [row[r] EXCEPT !.lease = "lapsed"]
  BY <1>1, <1>3 DEF Row
<1>5. CASE /\ row[r].nextPoll = "later"
           /\ row'[r] = [row[r] EXCEPT !.nextPoll = "due"]
  BY <1>1, <1>5 DEF Row
<1>6. ASSUME NEW w \in Workers, Claim(w, r), row'[r] = Claimed(row[r], w)
      PROVE  /\ row'[r].status = "running"
             /\ row'[r].lease = "live"
             /\ row'[r].claimedBy = w
             /\ row'[r].nextPoll = row[r].nextPoll
             /\ row'[r].taskId = row[r].taskId
  BY <1>1, <1>6, UpdatedFields
<1>7. ASSUME NEW n, row'[r] = [row[r] EXCEPT !.pollCount = n]
      PROVE  /\ row'[r].status = row[r].status
             /\ row'[r].claimedBy = row[r].claimedBy
             /\ row'[r].taskId = row[r].taskId
             /\ row'[r].lease = row[r].lease
             /\ row'[r].nextPoll = row[r].nextPoll
  BY <1>1, <1>7 DEF Row
<1>8. ASSUME NEW to, row[r].status = "running",
             row'[r] = [row[r] EXCEPT !.status = "running", !.phase = to]
      PROVE  /\ row'[r].status = row[r].status
             /\ row'[r].claimedBy = row[r].claimedBy
             /\ row'[r].taskId = row[r].taskId
             /\ row'[r].lease = row[r].lease
             /\ row'[r].nextPoll = row[r].nextPoll
  BY <1>1, <1>8 DEF Row
<1>9. ASSUME NEW w \in Workers,
             row'[r] = [Waiting(row[r], w) EXCEPT
                         !.status = "running", !.phase = "provider_pending"]
      PROVE  /\ row'[r].status = "running" /\ row'[r].lease = "none"
             /\ row'[r].taskId = (row[r].taskId \/ ~OnPollPath(w))
  <2>1. Waiting(row[r], w) \in Row
    BY <1>1, RowUpdates
  <2>2. /\ row'[r].status = "running"
        /\ row'[r].lease = Waiting(row[r], w).lease
        /\ row'[r].taskId = Waiting(row[r], w).taskId
    BY <1>9, <2>1 DEF Row
  <2>. QED
    BY <1>1, <2>2, UpdatedFields
<1>10. ASSUME NEW known \in BOOLEAN, row'[r] = CompletedRow(row[r], known)
       PROVE  /\ row'[r].status = "completed"
              /\ row'[r].lease = "none" /\ row'[r].nextPoll = "none"
  BY <1>1, <1>10, UpdatedFields
<1>11. row'[r] = Resumed(row[r])
         => /\ row'[r].lease = "none"
            /\ row'[r].status = row[r].status /\ row'[r].taskId
  BY <1>1, UpdatedFields
<1>12. row'[r] \in {RetryScheduled(row[r]), FailedRow(row[r])}
         => /\ row'[r].lease = "none"
            /\ row'[r].status \in {"queued", "failed"}
            /\ row'[r].nextPoll = "none"
  BY <1>1, UpdatedFields
<1>. DEFINE Aside ==
              /\ row'[r].status = row[r].status
              /\ row'[r].claimedBy = row[r].claimedBy
              /\ row'[r].taskId = row[r].taskId
              /\ \/ row'[r].lease = row[r].lease
                 \/ row'[r].lease = "lapsed" /\ LeaseLapses(r)
              /\ row[r].nextPoll = "none" => row'[r].nextPoll = "none"
            Taken(w) ==
              /\ Claim(w, r)
              /\ row'[r].status = "running"
              /\ row'[r].lease = "live"
              /\ row'[r].claimedBy = w
              /\ row'[r].nextPoll = row[r].nextPoll
              /\ row'[r].taskId = row[r].taskId
            Handed(w) ==
              /\ pc[w] \in Executing /\ job[w].run = r
              /\ row'[r].lease = "none"
              /\ \/ /\ ResumePolling(w)
                    /\ row'[r].status = row[r].status
                    /\ row'[r].taskId
                 \/ /\ Wait(w)
                    /\ row'[r].status = "running" /\ row[r].status = "running"
                    /\ row'[r].taskId = (row[r].taskId \/ ~OnPollPath(w))
                 \/ /\ Complete(w)
                    /\ row'[r].status = "completed"
                    /\ row'[r].nextPoll = "none"
                 \/ /\ MarkRunFailed(w)
                    /\ row'[r].status \in {"queued", "failed"}
                    /\ row'[r].nextPoll = "none"
<1>13. ASSUME NEW w \in Workers, pc[w] \in Executing, job[w].run = r
       PROVE  /\ Poll(w) /\ (\E n : row'[r] = [row[r] EXCEPT !.pollCount = n])
                => Aside
              /\ /\ row[r].status = "running"
                 /\ \E to \in Phases : row'[r] = [row[r] EXCEPT
                                         !.status = "running", !.phase = to]
                => Aside
              /\ ResumePolling(w) /\ row'[r] = Resumed(row[r]) => Handed(w)
              /\ /\ Wait(w) /\ row[r].status = "running"
                 /\ row'[r] = [Waiting(row[r], w) EXCEPT
                       !.status = "running", !.phase = "provider_pending"]
                => Handed(w)
              /\ /\ Complete(w)
                 /\ \E known \in BOOLEAN : row'[r] = CompletedRow(row[r], known)
                => Handed(w)
              /\ /\ MarkRunFailed(w)
                 /\ row'[r] \in {RetryScheduled(row[r]), FailedRow(row[r])}
                => Handed(w)
  BY <1>7, <1>8, <1>9, <1>10, <1>11, <1>12, <1>13
<1>14. \A w \in Workers :
         Claim(w, r) /\ row'[r] = Claimed(row[r], w) => Taken(w)
  BY <1>6
<1>15. row'[r] = [row[r] EXCEPT !.nextAttempt = "due"] => Aside
  BY <1>1 DEF Row
<1>16. \/ Aside
       \/ Releasable(r) /\ row'[r] = Released(row[r])
       \/ \E w \in Workers : Taken(w) \/ Handed(w)
  <2>. HIDE DEF Aside, Taken, Handed
  <2>1. LeaseLapses(r) /\ row'[r] = [row[r] EXCEPT !.lease = "lapsed"] => Aside
    BY <1>3 DEF Aside
  <2>2. /\ row[r].nextPoll = "later"
        /\ row'[r] = [row[r] EXCEPT !.nextPoll = "due"]
        => Aside
    BY <1>5 DEF Aside
  <2>. QED
    BY <1>13, <1>14, <1>15, <2>1, <2>2, RowStep
<1>. QED
  BY <1>2, <1>16

(* No step loses evidence or the record of a submission.                    *)
LEMMA NextRemembers == ASSUME Inv, [Next]_vars PROVE Remembered
<1>1. ASSUME NEW w \in Workers, Submit(w)
      PROVE  Remembered
  <2>1. SaturatingAdd(submissions[job[w].run], Cap) > 0
    BY <1>1, JobTypes, CapIsNat, SaturatingAddBounded DEF Submit, Inv, TypeOK
  <2>. QED
    BY <1>1, <2>1 DEF Submit, Remembered, Inv, TypeOK
<1>2. ASSUME NEW w \in Workers, StoreEvidence(w)
      PROVE  Remembered
  BY <1>2 DEF StoreEvidence, Remembered, Inv, TypeOK
<1>3. CASE UNCHANGED <<evidence, submissions>>
  BY <1>3 DEF Remembered
<1>. QED
  BY <1>1, <1>2, <1>3
  DEF Next, vars, Start, Execute, Claim, Release, LeaseLapses, BackoffEnds,
      PollFallsDue, SkipFinished, Abandon, Reject, Begin, Poll, ResumePolling,
      SkipAccepted, GoOnToSubmit, RecordIntent, Announce, MeterSubmission,
      Accept, Wait, Process, Complete, ChargeCheck, AdvanceSchedule,
      MarkRunFailed, ReadStreak, WriteStreak, ResumeMonitor, Crash

(* Only Complete makes a row completed.                                     *)
LEMMA OnlyCompleteCompletes ==
  ASSUME Inv, [Next]_vars, NEW r \in Runs,
         row[r].status # "completed", row'[r].status = "completed"
  PROVE  \E w \in Workers : Complete(w) /\ job[w].run = r
BY FieldStep

(* A run that is shown as completed has its answer in the ledger, whatever  *)
(* crashes, failed writes and lapsed leases its workers went through.       *)
THEOREM CompletedKeepsEvidence == Spec => []CompletedHasEvidence
<1>1. Init => CompletedHasEvidence
  BY NewRowIsRow DEF Init, CompletedHasEvidence, NewRow
<1>2. Inv /\ CompletedHasEvidence /\ [Next]_vars => CompletedHasEvidence'
  <2>. SUFFICES ASSUME Inv, CompletedHasEvidence, [Next]_vars,
                       NEW r \in Runs, row'[r].status = "completed"
                PROVE  evidence'[r]
    BY DEF CompletedHasEvidence
  <2>1. CASE row[r].status = "completed"
    BY <2>1, NextRemembers DEF CompletedHasEvidence, Remembered
  <2>2. CASE row[r].status # "completed"
    <3>1. PICK w \in Workers : Complete(w) /\ job[w].run = r
      BY <2>2, OnlyCompleteCompletes
    <3>2. evidence[r]
      BY <3>1 DEF Complete, Inv, WorkerContext
    <3>. QED
      BY <3>2, NextRemembers DEF Remembered
  <2>. QED
    BY <2>1, <2>2
<1>. QED
  BY <1>1, <1>2, Invariance, PTL DEF Spec

(* MeteredOnce survives every step: only two actions record usage.          *)
LEMMA MeteredStep ==
  ASSUME Inv, MeteredOnce, [Next]_vars
  PROVE  MeteredOnce'
<1>1. ASSUME NEW w \in Workers, MeterSubmission(w)
      PROVE  MeteredOnce'
  <2>1. job[w].run \in Runs /\ submissions[job[w].run] > 0
    BY <1>1, JobTypes DEF MeterSubmission, Inv, WorkerContext
  <2>2. metered' = [metered EXCEPT ![job[w].run]["provider_task_submitted"] =
                                     IF @ = 0 THEN 1 ELSE @]
    BY <1>1 DEF MeterSubmission, RecordUsage, SubmissionMetric
  <2>3. UNCHANGED <<submissions, evidence>>
    BY <1>1 DEF MeterSubmission
  <2>. QED
    BY <2>1, <2>2, <2>3 DEF MeteredOnce, Metrics, Inv, TypeOK
<1>2. ASSUME NEW w \in Workers, ChargeCheck(w)
      PROVE  MeteredOnce'
  <2>1. job[w].run \in Runs /\ evidence[job[w].run]
    BY <1>2, JobTypes DEF ChargeCheck, Inv, WorkerContext
  <2>2. metered' = [metered EXCEPT ![job[w].run]["monitor_check_completed"] =
                                     IF @ = 0 THEN 1 ELSE @]
    BY <1>2 DEF ChargeCheck, RecordUsage
  <2>3. UNCHANGED <<submissions, evidence>>
    BY <1>2 DEF ChargeCheck
  <2>. QED
    BY <2>1, <2>2, <2>3 DEF MeteredOnce, Metrics, Inv, TypeOK
<1>3. CASE UNCHANGED metered
  BY <1>3, NextRemembers DEF MeteredOnce, Remembered
<1>. QED
  BY <1>1, <1>2, <1>3
  DEF Next, vars, Start, Execute, Claim, Release, LeaseLapses, BackoffEnds,
      PollFallsDue, SkipFinished, Abandon, Reject, Begin, Poll, ResumePolling,
      SkipAccepted, GoOnToSubmit, RecordIntent, Announce, Submit, Accept, Wait,
      Process, StoreEvidence, Complete, AdvanceSchedule, MarkRunFailed,
      ReadStreak, WriteStreak, ResumeMonitor, Crash

(* Usage is counted at most once per run and metric, and never without the  *)
(* submission or the answer it counts, however often the run is executed.   *)
THEOREM UsageCountedOnce == Spec => []MeteredOnce
<1>1. Init => MeteredOnce
  BY DEF Init, MeteredOnce, Metrics
<1>. QED
  BY <1>1, MeteredStep, Invariance, PTL DEF Spec

(* Claims and releases leave a lease that is in force to its holder, even   *)
(* when leases lapse under their workers.                                   *)
THEOREM LeasesAreNotStolen == Spec => ClaimNeverSteals
<1>1. ASSUME Inv, [Next]_vars, NEW r \in Runs,
             row[r].lease = "live", row'[r].lease = "live"
      PROVE  row'[r].claimedBy = row[r].claimedBy
  <2>1. \A w \in Workers : ~Claim(w, r)
    BY <1>1 DEF Claim, Due, LeaseFree
  <2>. QED
    BY <1>1, <2>1, FieldStep
<1>2. Inv /\ [Next]_vars =>
        [\A r \in Runs : row[r].lease = "live" /\ row'[r].lease = "live"
                           => row'[r].claimedBy = row[r].claimedBy]_vars
  BY <1>1
<1>. QED
  BY <1>2, Invariance, PTL DEF Spec, ClaimNeverSteals

-----------------------------------------------------------------------------
(* How a step moves the workers, the task rows and the submissions          *)

(* How a step moves a worker from label to label.                           *)
LEMMA WorkerStep ==
  ASSUME Inv, [Next]_vars
  PROVE  \/ UNCHANGED <<pc, job>>
         \/ \E w \in Workers, r \in Runs : Claim(w, r)
         \/ \E w \in Workers : Return(w)
         \/ \E w \in Workers, label \in Executing \cup Settling :
              /\ Goto(w, label) /\ JobKept(w) /\ pc[w] # "idle"
              /\ label \in Executing => pc[w] \in Executing
              /\ label = "announce" => RecordIntent(w)
              /\ label = "submit" => Announce(w)
              /\ label = "intent" => GoOnToSubmit(w)
              /\ label = "charge" => Complete(w)
              /\ label = "tally" => MarkRunFailed(w)
              /\ label = "block" => ReadStreak(w)
<1>. DEFINE Moved(w) ==
              \E label \in Executing \cup Settling :
                /\ Goto(w, label) /\ JobKept(w) /\ pc[w] # "idle"
                /\ label \in Executing => pc[w] \in Executing
                /\ label = "announce" => RecordIntent(w)
                /\ label = "submit" => Announce(w)
                /\ label = "intent" => GoOnToSubmit(w)
                /\ label = "charge" => Complete(w)
                /\ label = "tally" => MarkRunFailed(w)
                /\ label = "block" => ReadStreak(w)
<1>1. ASSUME NEW w \in Workers, Start(w) \/ Abandon(w) \/ Crash(w)
      PROVE  Return(w) \/ Moved(w)
  BY <1>1 DEF Start, SkipFinished, Abandon, Reject, Begin, Crash, JobKept,
              Executing, Replies
<1>2. ASSUME NEW w \in Workers,
             Poll(w) \/ ResumePolling(w) \/ SkipAccepted(w)
               \/ GoOnToSubmit(w)
      PROVE  Return(w) \/ Moved(w)
  <2>1. Poll(w) => \E label \in {"wait", "store", "fail"} : Goto(w, label)
    BY DEF Poll
  <2>. QED
    BY <1>2, <2>1 DEF Poll, ResumePolling, SkipAccepted, GoOnToSubmit, JobKept,
                      Executing
<1>3. ASSUME NEW w \in Workers,
             RecordIntent(w) \/ Announce(w) \/ Submit(w)
               \/ MeterSubmission(w) \/ Accept(w) \/ Wait(w) \/ Process(w)
      PROVE  Return(w) \/ Moved(w)
  BY <1>3 DEF RecordIntent, Announce, Submit, MeterSubmission, Accept, Wait,
              Process, JobKept, Executing
<1>4. ASSUME NEW w \in Workers, StoreEvidence(w)
      PROVE  Return(w) \/ Moved(w)
  BY <1>4 DEF StoreEvidence, StoreFailed, JobKept, Executing, Replies
<1>5. ASSUME NEW w \in Workers,
             Complete(w) \/ ChargeCheck(w) \/ AdvanceSchedule(w)
               \/ MarkRunFailed(w) \/ WriteStreak(w)
      PROVE  Return(w) \/ Moved(w)
  BY <1>5 DEF Complete, ChargeCheck, AdvanceSchedule, MarkRunFailed,
              WriteStreak, JobKept, Executing, Settling
<1>6. ASSUME NEW w \in Workers, ReadStreak(w)
      PROVE  Moved(w)
  <2>1. SaturatingAdd(monitor.streak, BlockThreshold) \in 0 .. BlockThreshold
    BY LimitsAssumption, SaturatingAddBounded DEF Inv, TypeOK
  <2>2. JobKept(w) /\ pc[w] # "idle"
    BY <1>6, <2>1 DEF ReadStreak, JobKept
  <2>3. Goto(w, "block")
    BY <1>6 DEF ReadStreak
  <2>. QED
    BY <1>6, <2>2, <2>3 DEF Executing, Settling
<1>7. UNCHANGED vars \/ Release \/ ResumeMonitor
        \/ (\E r \in Runs : LeaseLapses(r) \/ BackoffEnds(r) \/ PollFallsDue(r))
      => UNCHANGED <<pc, job>>
  BY DEF vars, Release, ResumeMonitor, LeaseLapses, BackoffEnds, PollFallsDue
<1>. HIDE DEF Moved
<1>8. \/ UNCHANGED <<pc, job>>
      \/ \E w \in Workers, r \in Runs : Claim(w, r)
      \/ \E w \in Workers : Return(w) \/ Moved(w)
  BY <1>1, <1>2, <1>3, <1>4, <1>5, <1>6, <1>7 DEF Next, Execute
<1>. QED
  BY <1>8 DEF Moved

(* Task rows change only where the engine writes them.                      *)
LEMMA TaskStep ==
  ASSUME Inv, [Next]_vars
  PROVE  \/ UNCHANGED task
         \/ \E w \in Workers, s \in TaskStatuses :
              /\ task' = [task EXCEPT ![job[w].run] = s]
              /\ \/ RecordIntent(w) /\ s = "submitted"
                 \/ Accept(w) /\ s \in {"pending", "completed"}
<1>1. ASSUME NEW w \in Workers, RecordIntent(w), task' # task
      PROVE  task' = [task EXCEPT ![job[w].run] = "submitted"]
  BY <1>1 DEF RecordIntent, WriteTask
<1>2. ASSUME NEW w \in Workers, Accept(w), task' # task
      PROVE  /\ task' = [task EXCEPT ![job[w].run] = job[w].reply]
             /\ job[w].reply \in {"pending", "completed"}
  BY <1>2 DEF Accept, WriteTask, Inv, WorkerContext
<1>3. \/ UNCHANGED task
      \/ \E w \in Workers : RecordIntent(w) \/ Accept(w)
  BY DEF Next, vars, Start, Execute, Claim, Release, LeaseLapses, BackoffEnds,
      PollFallsDue, SkipFinished, Abandon, Reject, Begin, Poll, ResumePolling,
      SkipAccepted, GoOnToSubmit, Announce, Submit, MeterSubmission, Wait,
      Process, StoreEvidence, Complete, ChargeCheck, AdvanceSchedule,
      MarkRunFailed, ReadStreak, WriteStreak, ResumeMonitor, Crash
<1>. QED
  BY <1>1, <1>2, <1>3 DEF TaskStatuses

(* Only Submit counts a submission.                                         *)
LEMMA SubmissionStep ==
  ASSUME [Next]_vars
  PROVE  UNCHANGED submissions \/ \E w \in Workers : Submit(w)
BY DEF Next, vars, Start, Execute, Claim, Release, LeaseLapses, BackoffEnds,
    PollFallsDue, SkipFinished, Abandon, Reject, Begin, Poll, ResumePolling,
    SkipAccepted, GoOnToSubmit, RecordIntent, Announce, MeterSubmission,
    Accept, Wait, Process, StoreEvidence, Complete, ChargeCheck,
    AdvanceSchedule, MarkRunFailed, ReadStreak, WriteStreak, ResumeMonitor,
    Crash

-----------------------------------------------------------------------------
(* What holds when no write is lost                                         *)

(* Past the intent, the run has a task row.                                 *)
Intended ==
  \A w \in Workers :
    pc[w] \in {"announce", "submit"} => task[job[w].run] # "none"

(* A job that is kept stays on its run and its copy.                        *)
LEMMA JobKeptRun ==
  ASSUME Inv, NEW w \in Workers, JobKept(w), NEW v \in Workers
  PROVE  job'[v].run = job[v].run /\ job'[v].copy = job[v].copy
BY DEF JobKept, Inv, TypeOK, Job

(* Intended survives every step that loses no write.                        *)
LEMMA IntendedStep ==
  ASSUME "store" \notin Faults, Inv, Intended, [Next]_vars
  PROVE  Intended'
<1>. DEFINE Kept(v) == pc'[v] = pc[v] /\ job'[v].run = job[v].run
<1>1. \A r \in Runs : task[r] # "none" => task'[r] # "none"
  BY TaskStep DEF Inv, TypeOK
<1>2. \A v \in Workers : pc[v] # "idle" => job[v].run \in Runs
  BY DEF Inv, TypeOK
<1>3. \A w \in Workers :
        pc[w] = "intent" /\ RecordIntent(w) => task'[job[w].run] # "none"
  BY <1>2 DEF RecordIntent, WriteTask, MayFault, Inv, TypeOK
<1>4. ASSUME NEW w \in Workers, NEW r \in Runs, Claim(w, r)
      PROVE  Intended'
  <2>1. pc'[w] = "claimed" /\ \A v \in Workers \ {w} : Kept(v)
    BY <1>4 DEF Claim, Goto, Inv, TypeOK
  <2>. QED
    BY <1>1, <1>2, <2>1 DEF Intended
<1>5. ASSUME NEW w \in Workers, Return(w)
      PROVE  Intended'
  <2>1. pc'[w] = "idle" /\ \A v \in Workers \ {w} : Kept(v)
    BY <1>5 DEF Return, Goto, Inv, TypeOK
  <2>. QED
    BY <1>1, <1>2, <2>1 DEF Intended
<1>6. ASSUME NEW w \in Workers, NEW label \in Executing \cup Settling,
             Goto(w, label), JobKept(w), pc[w] # "idle",
             label = "announce" => RecordIntent(w),
             label = "submit" => Announce(w)
      PROVE  Intended'
  <2>1. pc'[w] = label /\ \A v \in Workers \ {w} : Kept(v)
    BY <1>6, JobKeptRun DEF Goto, Inv, TypeOK
  <2>2. label \in {"announce", "submit"} => task'[job'[w].run] # "none"
    BY <1>1, <1>2, <1>3, <1>6, JobKeptRun DEF RecordIntent, Announce, Intended
  <2>. QED
    BY <1>1, <1>2, <2>1, <2>2 DEF Intended
<1>7. CASE UNCHANGED <<pc, job>>
  BY <1>1, <1>2, <1>7 DEF Intended
<1>. QED
  BY <1>4, <1>5, <1>6, <1>7, WorkerStep

(* As long as no write is lost, the provider is never called for a run      *)
(* without a recorded intent, whatever crashes and lapses.                  *)
THEOREM IntentIsFirst ==
  ASSUME "store" \notin Faults
  PROVE  Spec => []IntentFirst
<1>1. Init => Intended /\ IntentFirst
  BY DEF Init, Intended, IntentFirst
<1>2. Inv /\ Intended /\ IntentFirst /\ [Next]_vars => Intended' /\ IntentFirst'
  <2>. SUFFICES ASSUME Inv, Intended, IntentFirst, [Next]_vars
                PROVE  Intended' /\ IntentFirst'
    OBVIOUS
  <2>1. \A r \in Runs : task[r] # "none" => task'[r] # "none"
    BY TaskStep DEF Inv, TypeOK
  <2>2. ASSUME NEW w \in Workers, Submit(w)
        PROVE  IntentFirst'
    BY <2>1, <2>2 DEF Submit, Intended, IntentFirst, Inv, TypeOK
  <2>3. ASSUME UNCHANGED submissions
        PROVE  IntentFirst'
    BY <2>1, <2>3 DEF IntentFirst
  <2>. QED
    BY <2>2, <2>3, SubmissionStep, IntendedStep
<1>. QED
  BY <1>1, <1>2, Invariance, PTL DEF Spec

=============================================================================
