--------------------------- MODULE MonitorSchedule ---------------------------
(***************************************************************************)
(* The monitors of one workspace: how they are activated, paused, resumed,  *)
(* blocked and restored, and how the dispatcher turns due monitors into     *)
(* scan runs.  Several server processes do this at once - the dispatcher    *)
(* of the cron job, page loads and server actions - and each reads in one   *)
(* statement what it acts upon in a later one.                              *)
(*                                                                          *)
(* Time is the number of the current slot of the schedule, so that          *)
(* calculateNextRunAt(from) is the slot after from.  What executing a run   *)
(* does in detail is in ScanRun.                                            *)
(***************************************************************************)
EXTENDS Integers, FiniteSets

CONSTANTS
  Servers,        \* processes that may be at work at once
  Monitors,       \* monitor configurations, numbered in order of created_at
  Nobody,         \* no monitor
  MaxActive,      \* maxActiveMonitorConfigurations, or what the budget allows
  MaxConcurrent,  \* maxConcurrentRunsPerWorkspace
  MaxBaselines,   \* maxBaselineChecksPerActivation
  Threshold,      \* checks at which the usage safety limit is exceeded
  MaxClock,       \* bound on the clock
  MaxMinutes,     \* bound on the minutes in which a monitor gets a baseline
  Changes,        \* what may happen around it, a subset of ChangeKinds
  MaxChanges      \* bound on the events counted in changes

(* crash: a process dies between two steps.  surface: an AI surface is      *)
(* switched off or on.  billing: the workspace loses or regains the right   *)
(* to run monitoring.  period: a new billing period begins.                 *)
ChangeKinds == {"crash", "surface", "billing", "period"}

ASSUME ServersAssumption == IsFiniteSet(Servers) /\ Servers # {}
ASSUME MonitorsAssumption ==
  Monitors \subseteq Nat /\ IsFiniteSet(Monitors) /\ Nobody \notin Monitors
ASSUME LimitsAssumption ==
  /\ MaxActive \in Nat /\ MaxConcurrent \in Nat \ {0} /\ MaxBaselines \in Nat
  /\ Threshold \in Nat /\ MaxClock \in Nat /\ MaxMinutes \in Nat
ASSUME ChangesAssumption == Changes \subseteq ChangeKinds /\ MaxChanges \in Nat

VARIABLES
  monitor,     \* monitor_configurations
  run,         \* scan_runs, by monitor, type and slot
  used,        \* monitor_check_completed events of the period, to Threshold
  supported,   \* monitors whose AI surface is enabled
  authorized,  \* canRunMonitoringForWorkspace
  clock,       \* the current slot
  pc,          \* what each server does next
  job,         \* each server's local data
  held,        \* monitors put on hold while a server was at work (history)
  changes      \* changes so far

vars == <<monitor, run, used, supported, authorized, clock, pc, job, held,
          changes>>

-----------------------------------------------------------------------------
(* Types *)

Unset == -1               \* next_run_at is null
Slots == 0 .. MaxClock + 2

(* What makes a run row unique: the slot of a recurring run, the minute of  *)
(* a baseline.                                                              *)
Recurring == Monitors \X {"recurring"} \X Slots
Baselines == Monitors \X {"baseline"} \X (1 .. MaxMinutes)
Keys == Recurring \cup Baselines

Reasons == {"none", "user_paused", "usage_safety_limit_reached",
            "repeated_failures", "max_active_monitors", "plan_limit",
            "unsupported_surface"}

Row == [status: {"absent", "configured", "active", "paused", "blocked"},
        reason: Reasons, next: Slots \cup {Unset}]

Labels == {"idle",
           "dispatch", "count", "push", "check", "insert", "advance",
           "restore", "reactivate", "trim", "needs",
           "activate", "consider", "baseline",
           "resume", "block", "fail"}

Job == [todo: SUBSET Monitors,            \* rows read and not yet dealt with
        at: Monitors \cup {Nobody},       \* the one in hand
        now: 0 .. MaxClock,               \* the time the request began
        slot: [Monitors -> Slots],        \* resolveDueScheduledFor
        activated: 0 .. MaxActive,
        budget: 0 .. MaxBaselines,
        run: Keys \cup {Nobody}]         \* the run about to be given up

NoJob == [todo |-> {}, at |-> Nobody, now |-> 0, slot |-> [m \in Monitors |-> 0],
          activated |-> 0, budget |-> 0, run |-> Nobody]

TypeOK ==
  /\ monitor \in [Monitors -> Row]
  /\ run \in [Keys -> {"absent", "open", "done"}]
  /\ used \in 0 .. Threshold
  /\ supported \subseteq Monitors
  /\ authorized \in BOOLEAN
  /\ clock \in 0 .. MaxClock
  /\ pc \in [Servers -> Labels]
  /\ job \in [Servers -> Job]
  /\ held \in [Servers -> SUBSET Monitors]
  /\ changes \in 0 .. MaxChanges

Init ==
  /\ monitor = [m \in Monitors |->
                  [status |-> "absent", reason |-> "none", next |-> Unset]]
  /\ run = [k \in Keys |-> "absent"]
  /\ used = 0
  /\ supported = Monitors
  /\ authorized = TRUE
  /\ clock = 0
  /\ pc = [s \in Servers |-> "idle"]
  /\ job = [s \in Servers |-> NoJob]
  /\ held = [s \in Servers |-> {}]
  /\ changes = 0

-----------------------------------------------------------------------------
(* Reading and writing monitors and runs *)

Having(status) == {m \in Monitors : monitor[m].status = status}

(* Reasons that activation, and enforceActiveMonitorLimits, may clear.      *)
RECOVERABLE_BLOCK_REASONS == {"max_active_monitors", "unsupported_surface"}
RESTORABLE_PAUSE_REASONS == RECOVERABLE_BLOCK_REASONS \cup {"plan_limit"}

BlockedFor(reasons) == {m \in Having("blocked") : monitor[m].reason \in reasons}

(* What only the user may end: a pause, and a stop at the usage limit or    *)
(* after repeated failures.                                                 *)
OnHold(row) ==
  \/ row.status = "paused"
  \/ /\ row.status = "blocked"
     /\ row.reason \in {"usage_safety_limit_reached", "repeated_failures"}

(* Open: queued or running. *)
Open == {k \in Keys : run[k] = "open"}
OpenOf(m) == {k \in Open : k[1] = m}

First(S) == CHOOSE m \in S : \A other \in S : m <= other
NextSlot(from) == from + 1

With(m, status, reason) ==
  [monitor EXCEPT ![m].status = status, ![m].reason = reason]

Goto(s, label) == pc' = [pc EXCEPT ![s] = label]

(* The request of s is over. *)
Return(s) ==
  /\ Goto(s, "idle")
  /\ job' = [job EXCEPT ![s] = NoJob]

(* Definitions marked "Wrong:" are bugs a change could introduce.  No run   *)
(* uses them as they stand: each takes the place of the definition after it *)
(* to show that the property it names would notice.                         *)

-----------------------------------------------------------------------------
(* createRecurringRuns *)

Due == {m \in Having("active") : monitor[m].next # Unset /\ monitor[m].next <= clock}

(* Wrong: every missed slot is caught up with (NoBackfill). *)
ResolveWithoutSkip(next, now, fresh) == next

(* A slot no older than MONITORING_STALE_RUN_MINUTES, which is less than a  *)
(* slot is long, is kept; an older one gives way to the next in the future. *)
ResolveDueScheduledFor(next, now, fresh) ==
  IF next = now /\ fresh THEN next ELSE NextSlot(now)

StartDispatch(s) ==
  /\ pc[s] = "idle"
  /\ Due # {}
  /\ \E fresh \in SUBSET Due :
       job' = [job EXCEPT ![s] = [NoJob EXCEPT
                 !.todo = Due,
                 !.now = clock,
                 !.slot = [m \in Monitors |->
                   IF m \in Due
                   THEN ResolveDueScheduledFor(monitor[m].next, clock, m \in fresh)
                   ELSE 0]]]
  /\ Goto(s, "dispatch")
  /\ UNCHANGED <<monitor, run, used, supported, authorized, clock, changes>>

(* The monitor in hand has been dealt with. *)
Dismiss(s) == job' = [job EXCEPT ![s].at = Nobody, ![s].slot[job[s].at] = 0]

(* On to the next due monitor: blocked if its surface is gone, passed over  *)
(* if its workspace may not run.                                            *)
Take(s, m) ==
  /\ pc[s] = "dispatch"
  /\ m \in job[s].todo
  /\ IF m \in supported /\ authorized
     THEN /\ job' = [job EXCEPT ![s].todo = @ \ {m}, ![s].at = m]
          /\ Goto(s, "count")
     ELSE /\ job' = [job EXCEPT ![s].todo = @ \ {m}, ![s].slot[m] = 0]
          /\ UNCHANGED pc
  /\ monitor' = IF m \in supported THEN monitor
                ELSE With(m, "blocked", "unsupported_surface")
  /\ UNCHANGED <<run, used, supported, authorized, clock, changes>>

EndDispatch(s) ==
  /\ pc[s] = "dispatch"
  /\ job[s].todo = {}
  /\ Return(s)
  /\ UNCHANGED <<monitor, run, used, supported, authorized, clock, changes>>

(* Wrong: a baseline does not count (OverlapBounded). *)
BusyWithBaseline(m) == \E k \in OpenOf(m) : k[2] = "baseline"

Busy(m) == OpenOf(m) # {}

CountOpenRuns(s) ==
  /\ pc[s] = "count"
  /\ Goto(s, IF Busy(job[s].at) THEN "push" ELSE "check")
  /\ UNCHANGED <<monitor, run, used, supported, authorized, clock, job, changes>>

(* No overlapping runs: the monitor waits for the slot after now. *)
PushForward(s) ==
  /\ pc[s] = "push"
  /\ monitor' = [monitor EXCEPT ![job[s].at].next = NextSlot(job[s].now)]
  /\ Dismiss(s)
  /\ Goto(s, "dispatch")
  /\ UNCHANGED <<run, used, supported, authorized, clock, changes>>

(* Wrong: off by one (RecurringWithinCap). *)
UpToTheCap == Cardinality(Open) <= MaxConcurrent

BelowCap == Cardinality(Open) < MaxConcurrent

(* The usage of the workspace, then its open runs. *)
CheckLimits(s) ==
  /\ pc[s] = "check"
  /\ IF used >= Threshold
     THEN Goto(s, "block") /\ Dismiss(s)
     ELSE IF BelowCap
     THEN Goto(s, "insert") /\ UNCHANGED job
     ELSE Goto(s, "dispatch") /\ Dismiss(s)
  /\ UNCHANGED <<monitor, run, used, supported, authorized, clock, changes>>

(* A row with the key of another is refused. *)
Inserted(k) == [run EXCEPT ![k] = IF @ = "absent" THEN "open" ELSE @]

(* Wrong: the next slot is set by the dispatcher that created the run of    *)
(* this one (DueIsDispatched).                                              *)
AdvanceIfCreated(s, k) ==
  IF run[k] = "absent" THEN Goto(s, "advance") /\ UNCHANGED job
  ELSE Goto(s, "dispatch") /\ Dismiss(s)

(* Created or refused as a duplicate: the monitor moves on. *)
AdvanceAnyway(s, k) == Goto(s, "advance") /\ UNCHANGED job

InsertRun(s) ==
  LET k == <<job[s].at, "recurring", job[s].slot[job[s].at]>> IN
  /\ pc[s] = "insert"
  /\ run' = Inserted(k)
  /\ AdvanceAnyway(s, k)
  /\ UNCHANGED <<monitor, used, supported, authorized, clock, changes>>

Advance(s) ==
  LET m == job[s].at IN
  /\ pc[s] = "advance"
  /\ monitor' = [monitor EXCEPT ![m].next = NextSlot(job[s].slot[m])]
  /\ Dismiss(s)
  /\ Goto(s, "dispatch")
  /\ UNCHANGED <<run, used, supported, authorized, clock, changes>>

(* blockMonitorsForUsageLimit: one statement for all that are active.  Who  *)
(* asked for it goes on: the worker with the run, the dispatcher with the   *)
(* next monitor.                                                            *)
BlockMonitorsForUsageLimit(s) ==
  LET active == Having("active") IN
  /\ pc[s] = "block"
  /\ monitor' = [m \in Monitors |->
       IF m \in active
       THEN [monitor[m] EXCEPT !.status = "blocked",
                               !.reason = "usage_safety_limit_reached"]
       ELSE monitor[m]]
  /\ IF job[s].run # Nobody THEN Goto(s, "fail") /\ UNCHANGED job
     ELSE IF job[s].todo = {} THEN Return(s)
     ELSE Goto(s, "dispatch") /\ UNCHANGED job
  /\ UNCHANGED <<run, used, supported, authorized, clock, changes>>

-----------------------------------------------------------------------------
(* The monitors page: enforceActiveMonitorLimits, then activation if needed *)

OpenPage(s) ==
  /\ pc[s] = "idle"
  /\ authorized
  /\ job' = [job EXCEPT ![s] =
       [NoJob EXCEPT !.todo = BlockedFor(RESTORABLE_PAUSE_REASONS)]]
  /\ Goto(s, "restore")
  /\ UNCHANGED <<monitor, run, used, supported, authorized, clock, changes>>

(* Wrong: off by one (PageEnforcesCap). *)
ExcessBeyondNext ==
  {m \in Having("active") :
     Cardinality({other \in Having("active") : other < m}) > MaxActive}

(* The active monitors with MaxActive or more before them. *)
Excess ==
  {m \in Having("active") :
     Cardinality({other \in Having("active") : other < m}) >= MaxActive}

(* restoreBlockedMonitor: count, then write.  After the last, the active    *)
(* monitors are read to find those in excess.                               *)
Restore(s) ==
  LET m == First(job[s].todo) IN
  /\ pc[s] = "restore"
  /\ IF job[s].todo = {}
     THEN /\ job' = [job EXCEPT ![s].todo = Excess]
          /\ Goto(s, "trim")
     ELSE IF Cardinality(Having("active")) < MaxActive /\ m \in supported
     THEN /\ job' = [job EXCEPT ![s].todo = @ \ {m}, ![s].at = m]
          /\ Goto(s, "reactivate")
     ELSE /\ job' = [job EXCEPT ![s].todo = @ \ {m}]
          /\ UNCHANGED pc
  /\ UNCHANGED <<monitor, run, used, supported, authorized, clock, changes>>

(* Neither next_run_at nor the failure streak is set. *)
Reactivate(s) ==
  /\ pc[s] = "reactivate"
  /\ monitor' = With(job[s].at, "active", "none")
  /\ job' = [job EXCEPT ![s].at = Nobody]
  /\ Goto(s, "restore")
  /\ UNCHANGED <<run, used, supported, authorized, clock, changes>>

Trim(s) ==
  /\ pc[s] = "trim"
  /\ IF job[s].todo = {}
     THEN /\ Goto(s, "needs")
          /\ UNCHANGED <<monitor, job>>
     ELSE LET m == First(job[s].todo) IN
          /\ monitor' = With(m, "blocked", "plan_limit")
          /\ job' = [job EXCEPT ![s].todo = @ \ {m}]
          /\ UNCHANGED pc
  /\ UNCHANGED <<run, used, supported, authorized, clock, changes>>

(* Wrong: a pause counts as recoverable (HoldsUntilUser). *)
CandidatesAndPaused ==
  Having("configured") \cup BlockedFor(RECOVERABLE_BLOCK_REASONS) \cup Having("paused")

Candidates == Having("configured") \cup BlockedFor(RECOVERABLE_BLOCK_REASONS)

NeedsActivation(s) ==
  /\ pc[s] = "needs"
  /\ IF Candidates # {}
     THEN Goto(s, "activate") /\ UNCHANGED job
     ELSE Return(s)
  /\ UNCHANGED <<monitor, run, used, supported, authorized, clock, changes>>

-----------------------------------------------------------------------------
(* createMonitor and activateMonitorsForWorkspace *)

(* The next monitor in order of creation; its limits are on prompts. *)
CreateMonitor(s) ==
  /\ pc[s] = "idle"
  /\ Having("absent") # {}
  /\ monitor' = With(First(Having("absent")), "configured", "none")
  /\ Goto(s, "activate")
  /\ UNCHANGED <<run, used, supported, authorized, clock, job, changes>>

(* The workspace, its usage and the candidates are read. *)
Activate(s) ==
  /\ pc[s] = "activate"
  /\ IF ~authorized THEN Return(s)
     ELSE IF used >= Threshold THEN Goto(s, "block") /\ UNCHANGED job
     ELSE /\ job' = [job EXCEPT ![s] = [NoJob EXCEPT
                      !.todo = Candidates, !.now = clock, !.budget = MaxBaselines]]
          /\ Goto(s, "consider")
  /\ UNCHANGED <<monitor, run, used, supported, authorized, clock, changes>>

Block(s, m, reason) ==
  /\ monitor' = With(m, "blocked", reason)
  /\ job' = [job EXCEPT ![s].todo = @ \ {m}]
  /\ UNCHANGED pc

(* Wrong: off by one (TypeOK: activated). *)
PastCap(s) == job[s].activated > MaxActive

AtCap(s) == job[s].activated >= MaxActive

(* The limits count what this call has activated.  The update is by id,     *)
(* whatever the row says by now.                                            *)
Consider(s) ==
  LET m == First(job[s].todo) IN
  /\ pc[s] = "consider"
  /\ job[s].todo # {}
  /\ CASE m \notin supported -> Block(s, m, "unsupported_surface")
       [] m \in supported /\ AtCap(s) ->
            Block(s, m, "max_active_monitors")
       [] OTHER ->
            /\ monitor' = [monitor EXCEPT ![m] =
                 [status |-> "active", reason |-> "none",
                  next |-> NextSlot(job[s].now)]]
            /\ job' = [job EXCEPT ![s].todo = @ \ {m}, ![s].at = m,
                                  ![s].activated = @ + 1]
            /\ IF job[s].budget > 0 THEN Goto(s, "baseline") ELSE UNCHANGED pc
  /\ UNCHANGED <<run, used, supported, authorized, clock, changes>>

EndActivation(s) ==
  /\ pc[s] = "consider"
  /\ job[s].todo = {}
  /\ Return(s)
  /\ UNCHANGED <<monitor, run, used, supported, authorized, clock, changes>>

(* The minute is one in which the monitor got a baseline before, and the    *)
(* row is refused, or the next.                                             *)
QueueBaselineRun(s) ==
  /\ pc[s] = "baseline"
  /\ \E minute \in 1 .. MaxMinutes :
       LET k == <<job[s].at, "baseline", minute>> IN
       /\ \A earlier \in 1 .. minute - 1 :
            run[<<job[s].at, "baseline", earlier>>] # "absent"
       /\ run' = Inserted(k)
       /\ job' = [job EXCEPT ![s].at = Nobody,
                             ![s].budget = IF run[k] = "absent" THEN @ - 1 ELSE @]
  /\ Goto(s, "consider")
  /\ UNCHANGED <<monitor, used, supported, authorized, clock, changes>>

-----------------------------------------------------------------------------
(* The user *)

(* pauseMonitorAction: one conditional update. *)
Pause(m) ==
  /\ monitor[m].status \in {"active", "blocked"}
  /\ monitor' = With(m, "paused", "user_paused")
  /\ UNCHANGED <<run, used, supported, authorized, clock, pc, job, changes>>

Resumable(m) ==
  m \in supported /\ monitor[m].reason # "usage_safety_limit_reached"

StartResume(s, m) ==
  /\ pc[s] = "idle"
  /\ monitor[m].status # "absent"
  /\ Resumable(m)
  /\ job' = [job EXCEPT ![s] = [NoJob EXCEPT !.at = m, !.now = clock]]
  /\ Goto(s, "resume")
  /\ UNCHANGED <<monitor, run, used, supported, authorized, clock, changes>>

(* The update is by id, whatever the row says by now. *)
Resume(s) ==
  /\ pc[s] = "resume"
  /\ monitor' = [monitor EXCEPT ![job[s].at] =
       [status |-> "active", reason |-> "none", next |-> NextSlot(job[s].now)]]
  /\ Return(s)
  /\ UNCHANGED <<run, used, supported, authorized, clock, changes>>

-----------------------------------------------------------------------------
(* Executing runs, as far as monitors and usage notice *)

Eligible(m) == authorized /\ monitor[m].status = "active" /\ m \in supported

Done(k) == run' = [run EXCEPT ![k] = "done"]

(* The run ends and its failure is counted; it may be the one that blocks   *)
(* the monitor, whatever its status.  Both updates are by id.               *)
MarkRunFailed(k) ==
  /\ Done(k)
  /\ \/ monitor' = With(k[1], "blocked", "repeated_failures")
     \/ UNCHANGED monitor

(* loadEligibility finds a reason to give the run up, or the provider       *)
(* refuses it for good.                                                     *)
FailRun(k) ==
  /\ run[k] = "open"
  /\ MarkRunFailed(k)
  /\ UNCHANGED <<used, supported, authorized, clock, pc, job, changes>>

(* The usage limit is found exceeded when the run is about to start: first  *)
(* the workspace's monitors are blocked, then the run fails.                *)
StopRun(s, k) ==
  /\ pc[s] = "idle"
  /\ run[k] = "open"
  /\ Eligible(k[1]) /\ used >= Threshold
  /\ job' = [job EXCEPT ![s] = [NoJob EXCEPT !.run = k]]
  /\ Goto(s, "block")
  /\ UNCHANGED <<monitor, run, used, supported, authorized, clock, changes>>

(* The run may have been ended by another worker in between. *)
GiveUp(s) ==
  /\ pc[s] = "fail"
  /\ MarkRunFailed(job[s].run)
  /\ Return(s)
  /\ UNCHANGED <<used, supported, authorized, clock, changes>>

(* advanceMonitorSchedule sets the next slot from the time of completion,   *)
(* whatever has become of the monitor.                                      *)
CompleteRun(k) ==
  /\ run[k] = "open"
  /\ Done(k)
  /\ used' = IF used < Threshold THEN used + 1 ELSE used
  /\ monitor' = [monitor EXCEPT ![k[1]].next = NextSlot(clock)]
  /\ UNCHANGED <<supported, authorized, clock, pc, job, changes>>

-----------------------------------------------------------------------------
(* The environment *)

Change(kind) ==
  /\ kind \in Changes
  /\ changes < MaxChanges
  /\ changes' = changes + 1

Tick ==
  /\ clock < MaxClock
  /\ clock' = clock + 1
  /\ UNCHANGED <<monitor, run, used, supported, authorized, pc, job, changes>>

NewPeriod ==
  /\ Change("period")
  /\ used' = 0
  /\ UNCHANGED <<monitor, run, supported, authorized, clock, pc, job>>

SwitchSurface(m) ==
  /\ Change("surface")
  /\ supported' = IF m \in supported THEN supported \ {m} ELSE supported \cup {m}
  /\ UNCHANGED <<monitor, run, used, authorized, clock, pc, job>>

SwitchBilling ==
  /\ Change("billing")
  /\ authorized' = ~authorized
  /\ UNCHANGED <<monitor, run, used, supported, clock, pc, job>>

Crash(s) ==
  /\ pc[s] # "idle"
  /\ Change("crash")
  /\ Return(s)
  /\ UNCHANGED <<monitor, run, used, supported, authorized, clock>>

-----------------------------------------------------------------------------

Dispatch(s) ==
  \/ StartDispatch(s) \/ EndDispatch(s) \/ \E m \in Monitors : Take(s, m)
  \/ CountOpenRuns(s) \/ PushForward(s) \/ CheckLimits(s)
  \/ InsertRun(s) \/ Advance(s) \/ BlockMonitorsForUsageLimit(s) \/ GiveUp(s)

Page(s) ==
  \/ OpenPage(s) \/ Restore(s) \/ Reactivate(s) \/ Trim(s)
  \/ NeedsActivation(s)

Activation(s) ==
  \/ Activate(s) \/ Consider(s) \/ EndActivation(s) \/ QueueBaselineRun(s)

Step ==
  \/ \E s \in Servers : \/ Dispatch(s) \/ Page(s) \/ Activation(s)
                        \/ CreateMonitor(s) \/ Resume(s) \/ Crash(s)
                        \/ \E m \in Monitors : StartResume(s, m)
                        \/ \E k \in Keys : StopRun(s, k)
  \/ \E m \in Monitors : Pause(m) \/ SwitchSurface(m)
  \/ \E k \in Keys : FailRun(k) \/ CompleteRun(k)
  \/ Tick \/ NewPeriod \/ SwitchBilling

(* History: monitors on hold that were not when the request of s began. *)
Remember ==
  held' = [s \in Servers |->
    IF pc'[s] = "idle" THEN {}
    ELSE {m \in Monitors :
            /\ OnHold(monitor'[m])
            /\ m \in held[s] \/ (pc[s] # "idle" /\ ~OnHold(monitor[m]))}]

Next == Step /\ Remember

Spec == Init /\ [][Next]_vars

(* A request goes on until it is over, the cron job's request gets its turn *)
(* among the others, and runs end (ScanRun!EveryRunEnds).                   *)
Work(s) ==
  /\ Dispatch(s) \/ Page(s) \/ Activation(s) \/ Resume(s)
  /\ Remember

Cron(s) == StartDispatch(s) /\ Remember

End(k) == (CompleteRun(k) \/ FailRun(k)) /\ Remember

FairSpec ==
  /\ Spec
  /\ \A s \in Servers : WF_vars(pc[s] # "idle" /\ Work(s)) /\ SF_vars(Cron(s))
  /\ \A k \in Keys : WF_vars(End(k))

-----------------------------------------------------------------------------
(* Properties *)

IsRecurring(k) == k[2] = "recurring"

(* However many dispatchers check the limit of concurrent runs at the same  *)
(* time, the recurring runs of the workspace exceed it by at most one per   *)
(* dispatcher beyond the first.                                             *)
RecurringWithinCap ==
  Cardinality({k \in Open : IsRecurring(k)})
    <= MaxConcurrent - 1 + Cardinality(Servers)

(* A monitor has no more recurring runs open at a time than there are       *)
(* dispatchers: never two of them if dispatchers do not overlap.            *)
OverlapBounded ==
  \A m \in Monitors :
    Cardinality({k \in OpenOf(m) : IsRecurring(k)}) <= Cardinality(Servers)

(* Downtime is not caught up with: a run is never created for a slot that   *)
(* was over when its dispatcher began.                                      *)
NoBackfill ==
  [][\A k \in Recurring :
       run[k] = "absent" /\ run'[k] # "absent"
         => \E s \in Servers : pc[s] = "insert" /\ k[3] >= job[s].now]_vars

(* Requests that do not overlap leave no more than MaxActive monitors       *)
(* active behind once the page has restored and trimmed.                    *)
PageEnforcesCap ==
  \A s \in Servers : pc[s] = "needs" => Cardinality(Having("active")) <= MaxActive

(* A due monitor is dealt with, by a run, by moving its time on or by       *)
(* taking it out of service, unless its workspace keeps losing its right to *)
(* monitoring: neither a crash nor a duplicate or failed run gets it stuck. *)
DueIsDispatched ==
  <>[]authorized => \A m \in Monitors : []<>(m \notin Due)

(* What the user paused, and what the usage limit or repeated failures      *)
(* stopped, stays so until the user resumes it, which is refused while the  *)
(* reason is the usage limit: a pause or a run that fails has to rewrite    *)
(* the reason first.  The exception is a request that was already at work   *)
(* when the monitor was put on hold.                                        *)
HoldsUntilUser ==
  [][\A m \in Monitors :
       OnHold(monitor[m]) /\ ~OnHold(monitor'[m]) =>
         \E s \in Servers :
           \/ m \in held[s]
           \/ /\ pc[s] = "resume" /\ job[s].at = m
              /\ monitor[m].reason # "usage_safety_limit_reached"]_vars

-----------------------------------------------------------------------------
(* What the documentation says and the code does not do *)

(* "Eligible monitor_configurations move from configured to active, receive *)
(* a stable next_run_at": an active monitor has a next run.                 *)
ActiveIsScheduled ==
  \A m \in Having("active") : monitor[m].next # Unset

=============================================================================
