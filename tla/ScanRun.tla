------------------------------- MODULE ScanRun -------------------------------
(***************************************************************************)
(* The life of a scan run: how dispatchers claim it under a lease, submit   *)
(* it to an AI provider or poll a provider task, store the answer in the    *)
(* evidence ledger, retry it or fail it, and how a lapsed lease puts it     *)
(* back in circulation.                                                     *)
(*                                                                          *)
(* A worker is one claimed row in the hands of a dispatcher; it works from  *)
(* the copy of the row it got when it claimed (the argument of              *)
(* executeScanRun), never from the row itself.  Every database statement    *)
(* and every provider call is one step; between two steps any other worker  *)
(* may act, and the worker may crash.                                       *)
(***************************************************************************)
EXTENDS Integers, FiniteSets

CONSTANTS
  Workers,         \* claimed slots of the dispatchers that may run at once
  Runs,            \* rows of scan_runs, all of one monitor
  Nobody,          \* claimed_by of an unclaimed row; the run of an idle worker
  MaxAttempts,     \* MONITORING_MAX_ATTEMPTS
  MaxPolls,        \* MONITORING_MAX_POLL_ATTEMPTS
  BlockThreshold,  \* maxConsecutiveFailuresBeforeBlock
  Faults,          \* what may go wrong, a subset of FaultKinds
  MaxFaults        \* bound on crashes and lost writes together

(* crash: a process dies between two steps.  store: a database write fails  *)
(* and the caller ignores the error.  slow: a lease may lapse while its     *)
(* worker is still executing the run.                                       *)
FaultKinds == {"crash", "store", "slow"}

ASSUME WorkersAssumption == Workers # {} /\ Nobody \notin Workers
ASSUME RunsAssumption == Runs # {} /\ Nobody \notin Runs
ASSUME LimitsAssumption ==
  /\ MaxAttempts \in Nat \ {0}
  /\ MaxPolls \in Nat \ {0}
  /\ BlockThreshold \in Nat \ {0}
ASSUME FaultsAssumption == Faults \subseteq FaultKinds /\ MaxFaults \in Nat

VARIABLES
  row,          \* scan_runs, one record per run
  task,         \* status of the provider_tasks row of the run, "none" if absent
  evidence,     \* has ai_responses a row for the run?
  metered,      \* rows of monitoring_usage_events per run and metric
  submissions,  \* external submitScan calls made for the run (history)
  monitor,      \* the monitor_configurations row of the runs
  pc,           \* what each worker does next
  job,          \* each worker's local data
  faults        \* crashes and lost writes so far

vars == <<row, task, evidence, metered, submissions, monitor, pc, job, faults>>

-----------------------------------------------------------------------------
(* Types *)

Cap == MaxAttempts + 1     \* where the attempt and submission counts saturate

Statuses == {"queued", "running", "completed", "failed"}
Terminal == {"completed", "failed"}
Phases == {"none", "submitting", "provider_pending", "processing",
           "retry_scheduled", "failed"}
TaskStatuses == {"none", "submitted", "pending", "completed"}
Metrics == {"provider_task_submitted", "monitor_check_completed"}
Replies == {"pending", "completed", "retryable", "fatal"}

Row == [status: Statuses,
        phase: Phases,
        attemptCount: 0 .. Cap,
        pollCount: 0 .. MaxPolls,
        claimedBy: Workers \cup {Nobody},
        lease: {"none", "live", "lapsed"},
        nextAttempt: {"due", "later"},
        nextPoll: {"none", "later", "due"},
        taskId: BOOLEAN,
        completedAt: BOOLEAN]

NewRow == [status |-> "queued", phase |-> "none", attemptCount |-> 0,
           pollCount |-> 0, claimedBy |-> Nobody, lease |-> "none",
           nextAttempt |-> "due", nextPoll |-> "none", taskId |-> FALSE,
           completedAt |-> FALSE]

Job == [run: Runs \cup {Nobody},
        copy: Row,
        reply: Replies \cup {"none"},
        streak: 0 .. BlockThreshold]

NoJob == [run |-> Nobody, copy |-> NewRow, reply |-> "none", streak |-> 0]

(* The steps at which a worker still owes the row its outcome, and those    *)
(* that follow the write of that outcome.                                   *)
Executing == {"claimed", "poll", "lookup", "intent", "announce", "submit",
              "submitted", "accept", "wait", "process", "store", "complete",
              "fail"}
Settling == {"charge", "advance", "tally", "block"}

TypeOK ==
  /\ row \in [Runs -> Row]
  /\ task \in [Runs -> TaskStatuses]
  /\ evidence \in [Runs -> BOOLEAN]
  /\ metered \in [Runs -> [Metrics -> Nat]]
  /\ submissions \in [Runs -> 0 .. Cap]
  /\ monitor \in [streak: 0 .. BlockThreshold,
                  pauseReason: {"none", "repeated_failures", "usage_limit"}]
  /\ pc \in [Workers -> {"idle"} \cup Executing \cup Settling]
  /\ job \in [Workers -> Job]
  /\ faults \in 0 .. MaxFaults
  /\ \A w \in Workers : pc[w] # "idle" => job[w].run \in Runs

Init ==
  /\ row \in [Runs -> {NewRow, [NewRow EXCEPT !.nextAttempt = "later"]}]
  /\ task = [r \in Runs |-> "none"]
  /\ evidence = [r \in Runs |-> FALSE]
  /\ metered = [r \in Runs |-> [m \in Metrics |-> 0]]
  /\ submissions = [r \in Runs |-> 0]
  /\ monitor = [streak |-> 0, pauseReason |-> "none"]
  /\ pc = [w \in Workers |-> "idle"]
  /\ job = [w \in Workers |-> NoJob]
  /\ faults = 0

-----------------------------------------------------------------------------
(* The phase table of state-machine.ts *)

ScanTransitions ==
  [queued |-> {"claimed", "canceled", "failed"},
   claimed |-> {"submitting", "provider_pending", "processing", "completed",
                "retry_scheduled", "failed", "canceled", "queued"},
   submitting |-> {"provider_pending", "processing", "completed",
                   "retry_scheduled", "failed", "claimed"},
   provider_pending |-> {"provider_pending", "processing", "completed",
                         "retry_scheduled", "failed", "claimed"},
   processing |-> {"completed", "retry_scheduled", "failed"},
   retry_scheduled |-> {"queued", "failed", "canceled"},
   completed |-> {},
   failed |-> {},
   canceled |-> {}]

CanTransition(from, to) == from = to \/ to \in ScanTransitions[from]

(* The phase a claimed copy stands for: its phase column, or, when that is  *)
(* null, one derived from the fields of a running row.                      *)
ScanPhase(copy) ==
  IF copy.phase # "none" THEN copy.phase
  ELSE IF copy.nextPoll # "none" /\ copy.taskId THEN "provider_pending"
  ELSE "claimed"

-----------------------------------------------------------------------------
(* Local steps, and writes that may be lost *)

Goto(w, label) == pc' = [pc EXCEPT ![w] = label]

Return(w) ==
  /\ Goto(w, "idle")
  /\ job' = [job EXCEPT ![w] = NoJob]

MayFault(kind) == kind \in Faults /\ faults < MaxFaults

(* A write whose error the caller ignores: it takes effect, or it does not  *)
(* and the handler goes on.                                                 *)
WriteRow(r, new) ==
  \/ row' = [row EXCEPT ![r] = new] /\ UNCHANGED faults
  \/ MayFault("store") /\ faults' = faults + 1 /\ UNCHANGED row

WriteTask(r, status) ==
  \/ task' = [task EXCEPT ![r] = status] /\ UNCHANGED faults
  \/ MayFault("store") /\ faults' = faults + 1 /\ UNCHANGED task

Unclaimed(new) == [new EXCEPT !.claimedBy = Nobody, !.lease = "none"]

(* transitionScanRun: an update conditional on the row still being running, *)
(* made only when the phase table allows it from the phase of the copy; a   *)
(* refusal is not reported to anyone.                                       *)
Transition(w, to, new) ==
  LET r == job[w].run IN
  IF CanTransition(ScanPhase(job[w].copy), to) /\ row[r].status = "running"
  THEN WriteRow(r, [new EXCEPT !.status = "running", !.phase = to])
  ELSE UNCHANGED <<row, faults>>

(* Definitions marked "Wrong:" are bugs a change could introduce.  No run   *)
(* uses them as they stand: each takes the place of the definition after it *)
(* to show that the property it names would notice.                         *)

(* Wrong: without the unique key on run and metric (MeteredOnce). *)
RecordUsageAlways(r, metric) ==
  metered' = [metered EXCEPT ![r][metric] = @ + 1]

(* record_monitoring_usage_event: at most one row per run and metric. *)
RecordUsage(r, metric) ==
  metered' = [metered EXCEPT ![r][metric] = IF @ = 0 THEN 1 ELSE @]

SaturatingAdd(n, limit) == IF n < limit THEN n + 1 ELSE limit

-----------------------------------------------------------------------------
(* Claiming, leases and the passing of time *)

LeaseFree(r) == row[r].lease # "live"

(* Wrong: a poll that is due is taken whatever the lease (SoleExecutor). *)
DueForPollAnyway(r) ==
  \/ row[r].status = "queued" /\ row[r].nextAttempt = "due" /\ LeaseFree(r)
  \/ row[r].status = "running" /\ row[r].nextPoll = "due"

(* The three kinds of row claim_due_scan_runs picks. *)
Due(r) ==
  \/ row[r].status = "queued" /\ row[r].nextAttempt = "due" /\ LeaseFree(r)
  \/ row[r].status = "running" /\ row[r].nextPoll = "due" /\ LeaseFree(r)
  \/ /\ row[r].status = "running" /\ row[r].nextPoll = "none"
     /\ row[r].lease = "lapsed" /\ ~row[r].completedAt

Claimed(old, w) ==
  [old EXCEPT !.status = "running", !.claimedBy = w, !.lease = "live",
              !.attemptCount = IF old.status = "queued"
                               THEN SaturatingAdd(@, Cap) ELSE @]

Claim(w, r) ==
  /\ pc[w] = "idle"
  /\ Due(r)
  /\ row' = [row EXCEPT ![r] = Claimed(row[r], w)]
  /\ job' = [job EXCEPT ![w] = [NoJob EXCEPT !.run = r,
                                             !.copy = Claimed(row[r], w)]]
  /\ Goto(w, "claimed")
  /\ UNCHANGED <<task, evidence, metered, submissions, monitor, faults>>

Releasable(r) ==
  /\ row[r].lease = "lapsed" /\ ~row[r].completedAt
  /\ row[r].status \in {"queued", "running"}

Released(old) ==
  LET polling == old.nextPoll # "none" /\ old.taskId IN
  Unclaimed([old EXCEPT
    !.status = IF polling THEN "running" ELSE "queued",
    !.nextAttempt = IF old.nextPoll = "none" /\ old.status = "running"
                    THEN "due" ELSE @])

(* release_expired_scan_run_leases: one statement over every lapsed lease, *)
(* the first thing a dispatcher does.                                       *)
Release ==
  /\ \E r \in Runs : Releasable(r)
  /\ row' = [r \in Runs |-> IF Releasable(r) THEN Released(row[r]) ELSE row[r]]
  /\ UNCHANGED <<task, evidence, metered, submissions, monitor, pc, job, faults>>

(* Without the fault "slow" the lease outlasts the work done under it. *)
LeaseLapses(r) ==
  /\ row[r].lease = "live"
  /\ "slow" \in Faults \/ \A w \in Workers : job[w].run # r
  /\ row' = [row EXCEPT ![r].lease = "lapsed"]
  /\ UNCHANGED <<task, evidence, metered, submissions, monitor, pc, job, faults>>

BackoffEnds(r) ==
  /\ row[r].nextAttempt = "later"
  /\ row' = [row EXCEPT ![r].nextAttempt = "due"]
  /\ UNCHANGED <<task, evidence, metered, submissions, monitor, pc, job, faults>>

PollFallsDue(r) ==
  /\ row[r].nextPoll = "later"
  /\ row' = [row EXCEPT ![r].nextPoll = "due"]
  /\ UNCHANGED <<task, evidence, metered, submissions, monitor, pc, job, faults>>

-----------------------------------------------------------------------------
(* executeScanRun: from the claimed copy to the provider *)

OnPollPath(w) == job[w].copy.nextPoll # "none" /\ job[w].copy.taskId

(* A copy that is already finished is left as it is, lease included. *)
SkipFinished(w) ==
  /\ pc[w] = "claimed"
  /\ job[w].copy.completedAt
  /\ Return(w)
  /\ UNCHANGED <<row, task, evidence, metered, submissions, monitor, faults>>

(* The dispatcher's time budget ran out before this row's turn. *)
Abandon(w) ==
  /\ pc[w] = "claimed"
  /\ Return(w)
  /\ UNCHANGED <<row, task, evidence, metered, submissions, monitor, faults>>

(* loadEligibility refuses: the workspace, monitor, prompt or domain does   *)
(* not qualify, or usage is over the safety limit, which also blocks the    *)
(* workspace's active monitors.                                             *)
Reject(w) ==
  /\ pc[w] = "claimed"
  /\ ~job[w].copy.completedAt
  /\ Goto(w, "fail")
  /\ job' = [job EXCEPT ![w].reply = "fatal"]
  /\ \/ UNCHANGED monitor
     \/ /\ monitor.pauseReason = "none"
        /\ monitor' = [monitor EXCEPT !.pauseReason = "usage_limit"]
  /\ UNCHANGED <<row, task, evidence, metered, submissions, faults>>

(* Wrong: one poll too many (TypeOK, which bounds pollCount). *)
PollsNearlyExhausted(copy) == copy.pollCount > MaxPolls

PollsExhausted(copy) == copy.pollCount + 1 > MaxPolls

Begin(w) ==
  /\ pc[w] = "claimed"
  /\ ~job[w].copy.completedAt
  /\ monitor.pauseReason = "none"
  /\ IF ~OnPollPath(w)
     THEN Goto(w, "lookup") /\ UNCHANGED job
     ELSE IF PollsExhausted(job[w].copy)
     THEN Goto(w, "fail") /\ job' = [job EXCEPT ![w].reply = "fatal"]
     ELSE Goto(w, "poll") /\ UNCHANGED job
  /\ UNCHANGED <<row, task, evidence, metered, submissions, monitor, faults>>

Poll(w) ==
  /\ pc[w] = "poll"
  /\ \E reply \in Replies :
       /\ job' = [job EXCEPT ![w].reply = reply]
       /\ Goto(w, CASE reply = "pending" -> "wait"
                    [] reply = "completed" -> "store"
                    [] OTHER -> "fail")
  /\ LET r == job[w].run IN
     WriteRow(r, [row[r] EXCEPT !.pollCount = job[w].copy.pollCount + 1])
  /\ UNCHANGED <<task, evidence, metered, submissions, monitor>>

(* Wrong: no poll is scheduled (EveryRunEnds). *)
ResumedWithoutPoll(old) == Unclaimed([old EXCEPT !.taskId = TRUE])

Resumed(old) == Unclaimed([old EXCEPT !.taskId = TRUE, !.nextPoll = "later"])

(* The task row of an earlier attempt decides how the submit path goes on.  *)
(* A pending task is polled later.                                          *)
ResumePolling(w) ==
  LET r == job[w].run IN
  /\ pc[w] = "lookup"
  /\ task[r] = "pending"
  /\ WriteRow(r, Resumed(row[r]))
  /\ Return(w)
  /\ UNCHANGED <<task, evidence, metered, submissions, monitor>>

(* A completed task ends the execution with nothing written. *)
SkipAccepted(w) ==
  /\ pc[w] = "lookup"
  /\ task[job[w].run] = "completed"
  /\ Return(w)
  /\ UNCHANGED <<row, task, evidence, metered, submissions, monitor, faults>>

(* Wrong: only a pending task is recognised (AcceptedOnce). *)
NotPending(r) == task[r] # "pending"

NotAccepted(r) == task[r] \notin {"pending", "completed"}

GoOnToSubmit(w) ==
  /\ pc[w] = "lookup"
  /\ NotAccepted(job[w].run)
  /\ Goto(w, "intent")
  /\ UNCHANGED <<row, task, evidence, metered, submissions, monitor, job, faults>>

RecordIntent(w) ==
  /\ pc[w] = "intent"
  /\ WriteTask(job[w].run, "submitted")
  /\ Goto(w, "announce")
  /\ UNCHANGED <<row, evidence, metered, submissions, monitor, job>>

Announce(w) ==
  /\ pc[w] = "announce"
  /\ Transition(w, "submitting", row[job[w].run])
  /\ Goto(w, "submit")
  /\ UNCHANGED <<task, evidence, metered, submissions, monitor, job>>

Submit(w) ==
  /\ pc[w] = "submit"
  /\ submissions' =
       [submissions EXCEPT ![job[w].run] = SaturatingAdd(@, Cap)]
  /\ \E reply \in Replies : job' = [job EXCEPT ![w].reply = reply]
  /\ Goto(w, "submitted")
  /\ UNCHANGED <<row, task, evidence, metered, monitor, faults>>

(* Wrong: a submission is counted as a completed check (ImplementsRunLedger). *)
CheckMetric == "monitor_check_completed"

SubmissionMetric == "provider_task_submitted"

MeterSubmission(w) ==
  /\ pc[w] = "submitted"
  /\ RecordUsage(job[w].run, SubmissionMetric)
  /\ Goto(w, IF job[w].reply \in {"pending", "completed"}
             THEN "accept" ELSE "fail")
  /\ UNCHANGED <<row, task, evidence, submissions, monitor, job, faults>>

(* The provider took the request: its task row is stored before the result. *)
Accept(w) ==
  /\ pc[w] = "accept"
  /\ WriteTask(job[w].run, job[w].reply)
  /\ Goto(w, IF job[w].reply = "pending" THEN "wait" ELSE "process")
  /\ UNCHANGED <<row, evidence, metered, submissions, monitor, job>>

Waiting(old, w) ==
  Unclaimed([old EXCEPT !.nextPoll = "later", !.taskId = @ \/ ~OnPollPath(w)])

(* Hand the run back until the next poll. *)
Wait(w) ==
  /\ pc[w] = "wait"
  /\ Transition(w, "provider_pending", Waiting(row[job[w].run], w))
  /\ Return(w)
  /\ UNCHANGED <<task, evidence, metered, submissions, monitor>>

-----------------------------------------------------------------------------
(* executeScanRun: the result, or the failure *)

Process(w) ==
  /\ pc[w] = "process"
  /\ Transition(w, "processing", row[job[w].run])
  /\ Goto(w, "store")
  /\ UNCHANGED <<task, evidence, metered, submissions, monitor, job>>

(* Wrong: a failed insert is ignored like other writes (CompletedHasEvidence). *)
StoreFailureIgnored(w) == Goto(w, "complete") /\ UNCHANGED job

(* A failed insert throws: the submit path turns that into a retryable      *)
(* failure; on the poll path only the dispatcher catches it.                *)
StoreFailed(w) ==
  IF OnPollPath(w)
  THEN Return(w)
  ELSE Goto(w, "fail") /\ job' = [job EXCEPT ![w].reply = "retryable"]

(* appendAiResponseSnapshot inserts the answer or finds the one stored by   *)
(* an earlier execution.                                                    *)
StoreEvidence(w) ==
  /\ pc[w] = "store"
  /\ \/ /\ evidence' = [evidence EXCEPT ![job[w].run] = TRUE]
        /\ Goto(w, "complete")
        /\ UNCHANGED <<job, faults>>
     \/ /\ MayFault("store") /\ faults' = faults + 1
        /\ StoreFailed(w)
        /\ UNCHANGED evidence
  /\ UNCHANGED <<row, task, metered, submissions, monitor>>

(* The result may or may not name the provider's task. *)
CompletedRow(old, known) ==
  Unclaimed([old EXCEPT !.status = "completed", !.completedAt = TRUE,
                        !.taskId = known, !.nextPoll = "none"])

(* appendScanRunComplete, by id: whatever the row says by now. *)
Complete(w) ==
  LET r == job[w].run IN
  /\ pc[w] = "complete"
  /\ \E known \in BOOLEAN : WriteRow(r, CompletedRow(row[r], known))
  /\ Goto(w, "charge")
  /\ UNCHANGED <<task, evidence, metered, submissions, monitor, job>>

ChargeCheck(w) ==
  /\ pc[w] = "charge"
  /\ RecordUsage(job[w].run, "monitor_check_completed")
  /\ Goto(w, "advance")
  /\ UNCHANGED <<row, task, evidence, submissions, monitor, job, faults>>

(* advanceMonitorSchedule; the times it sets are the schedule's business. *)
AdvanceSchedule(w) ==
  /\ pc[w] = "advance"
  /\ monitor' = [monitor EXCEPT !.streak = 0]
  /\ Return(w)
  /\ UNCHANGED <<row, task, evidence, metered, submissions, faults>>

RetryScheduled(old) ==
  Unclaimed([old EXCEPT !.status = "queued", !.phase = "retry_scheduled",
                        !.nextAttempt = "later", !.nextPoll = "none"])

FailedRow(old) ==
  Unclaimed([old EXCEPT !.status = "failed", !.phase = "failed",
                        !.completedAt = TRUE, !.nextPoll = "none"])

(* Wrong: one attempt too many (SubmissionsWithinAttempts). *)
RetryableOnceMore(w) ==
  job[w].reply = "retryable" /\ job[w].copy.attemptCount <= MaxAttempts

Retryable(w) ==
  job[w].reply = "retryable" /\ job[w].copy.attemptCount < MaxAttempts

(* markRunFailed, by id: back to the queue while the attempts of the copy   *)
(* allow it, else failed for good.                                          *)
MarkRunFailed(w) ==
  LET r == job[w].run IN
  /\ pc[w] = "fail"
  /\ IF Retryable(w)
     THEN WriteRow(r, RetryScheduled(row[r])) /\ Return(w)
     ELSE WriteRow(r, FailedRow(row[r])) /\ Goto(w, "tally") /\ UNCHANGED job
  /\ UNCHANGED <<task, evidence, metered, submissions, monitor>>

ReadStreak(w) ==
  /\ pc[w] = "tally"
  /\ job' = [job EXCEPT ![w].streak =
                          SaturatingAdd(monitor.streak, BlockThreshold)]
  /\ Goto(w, "block")
  /\ UNCHANGED <<row, task, evidence, metered, submissions, monitor, faults>>

(* Wrong: one failure too early (BlockJustified). *)
ShouldBlockEarly(streak) == streak + 1 >= BlockThreshold

ShouldBlock(streak) == streak >= BlockThreshold

WriteStreak(w) ==
  /\ pc[w] = "block"
  /\ monitor' = [streak |-> job[w].streak,
                 pauseReason |-> IF ShouldBlock(job[w].streak)
                                 THEN "repeated_failures"
                                 ELSE monitor.pauseReason]
  /\ Return(w)
  /\ UNCHANGED <<row, task, evidence, metered, submissions, faults>>

-----------------------------------------------------------------------------
(* The environment *)

(* resumeMonitorAction: a member resumes the monitor, unless usage stopped it. *)
ResumeMonitor ==
  /\ monitor.pauseReason # "usage_limit"
  /\ monitor' = [streak |-> 0, pauseReason |-> "none"]
  /\ UNCHANGED <<row, task, evidence, metered, submissions, pc, job, faults>>

Crash(w) ==
  /\ pc[w] # "idle"
  /\ MayFault("crash") /\ faults' = faults + 1
  /\ Return(w)
  /\ UNCHANGED <<row, task, evidence, metered, submissions, monitor>>

-----------------------------------------------------------------------------

Execute(w) ==
  \/ Poll(w) \/ ResumePolling(w) \/ SkipAccepted(w) \/ GoOnToSubmit(w)
  \/ RecordIntent(w) \/ Announce(w) \/ Submit(w) \/ MeterSubmission(w)
  \/ Accept(w) \/ Wait(w) \/ Process(w) \/ StoreEvidence(w) \/ Complete(w)
  \/ ChargeCheck(w) \/ AdvanceSchedule(w)
  \/ MarkRunFailed(w) \/ ReadStreak(w) \/ WriteStreak(w)

Start(w) == SkipFinished(w) \/ Reject(w) \/ Begin(w)

Next ==
  \/ Release
  \/ \E r \in Runs : LeaseLapses(r) \/ BackoffEnds(r) \/ PollFallsDue(r)
  \/ \E w \in Workers, r \in Runs : Claim(w, r)
  \/ \E w \in Workers : Start(w) \/ Abandon(w) \/ Execute(w) \/ Crash(w)
  \/ ResumeMonitor

Spec == Init /\ [][Next]_vars

(* Time passes, dispatchers keep being started and a step that can be taken *)
(* is taken.  A claimed row is started if it is claimed again and again:    *)
(* the claim takes the oldest rows first and the budget covers several.     *)
Fairness ==
  /\ WF_vars(Release)
  /\ \A r \in Runs : /\ WF_vars(LeaseLapses(r))
                     /\ WF_vars(BackoffEnds(r))
                     /\ WF_vars(PollFallsDue(r))
                     /\ SF_vars(\E w \in Workers : Claim(w, r))
                     /\ SF_vars(\E w \in Workers : job[w].run = r /\ Start(w))
  /\ \A w \in Workers : WF_vars(Execute(w))

FairSpec == Spec /\ Fairness

-----------------------------------------------------------------------------
(* Properties that hold whatever goes wrong *)

(* A lease that is in force is never taken over: while it stays in force    *)
(* its holder stays the same (the lease conditions of claim_due_scan_runs   *)
(* and release_expired_scan_run_leases).                                    *)
ClaimNeverSteals ==
  [][\A r \in Runs : row[r].lease = "live" /\ row'[r].lease = "live"
                       => row'[r].claimedBy = row[r].claimedBy]_vars

(* A run that is shown as completed has its answer in the ledger, however   *)
(* many workers executed it and wherever they crashed (persist-result.ts    *)
(* completes the run only after the snapshot is stored).                    *)
CompletedHasEvidence ==
  \A r \in Runs : row[r].status = "completed" => evidence[r]

(* Usage is counted at most once per run and metric, never without what it  *)
(* counts: a submission without a provider call, a check without an answer. *)
MeteredOnce ==
  \A r \in Runs :
    /\ \A m \in Metrics : metered[r][m] <= 1
    /\ metered[r]["provider_task_submitted"] > 0 => submissions[r] > 0
    /\ metered[r]["monitor_check_completed"] > 0 => evidence[r]

(* No provider call without a recorded intent (monitoring-engine.md, step 1 *)
(* of submission), as long as the write of the intent is not itself lost.   *)
IntentFirst ==
  \A r \in Runs : submissions[r] > 0 => task[r] # "none"

-----------------------------------------------------------------------------
(* Properties that hold while leases outlast the work done under them *)

(* At most one worker is executing a run.                                   *)
SoleExecutor ==
  \A v, w \in Workers :
    /\ pc[v] \in Executing /\ pc[w] \in Executing
    /\ job[v].run = job[w].run
    => v = w

(* Completed and failed are final: no late worker, release or claim takes a *)
(* run out of them.                                                         *)
TerminalIsFinal ==
  [][\A r \in Runs : row[r].status \in Terminal
                       => row'[r].status = row[r].status]_vars

(* What a provider has accepted is not submitted to it a second time, after *)
(* a crash or a failed write either, nor is the record of it taken back.    *)
AcceptedOnce ==
  [][\A r \in Runs : task[r] \in {"pending", "completed"}
                       => /\ submissions'[r] = submissions[r]
                          /\ task'[r] \in {"pending", "completed"}]_vars

(* A run that waits for a poll names the provider task to poll: otherwise   *)
(* the release of its lease would send it to the queue again.               *)
PollNamesTask ==
  \A r \in Runs : row[r].nextPoll # "none" => row[r].taskId

(* A monitor is blocked for repeated failures only when that many of its    *)
(* runs have failed, however their bookkeeping interleaves.                 *)
BlockJustified ==
  monitor.pauseReason = "repeated_failures"
    => Cardinality({r \in Runs : row[r].status = "failed"}) >= BlockThreshold

(* Without faults, no run is submitted more often than the attempts allow,  *)
(* although rows abandoned in a batch use up attempts too.                  *)
SubmissionsWithinAttempts ==
  \A r \in Runs : submissions[r] <= MaxAttempts

(* Every run ends: retries, polls and lapsed leases bring it to completed   *)
(* or failed, for good.                                                     *)
EveryRunEnds == \A r \in Runs : <>[](row[r].status \in Terminal)

(* The engine keeps the promises of RunLedger as long as leases outlast the  *)
(* work and no write is lost; workers may crash at any step.                *)
Ledger == INSTANCE RunLedger WITH
  outcome <- [r \in Runs |-> IF row[r].status \in Terminal
                             THEN row[r].status ELSE "open"],
  answer <- evidence,
  billed <- [r \in Runs |-> metered[r]["monitor_check_completed"] > 0]

ImplementsRunLedger == Ledger!Spec

=============================================================================
