# Cited: TLA+ models, checks and proofs

Cited watches which sources AI assistants cite. A workspace configures
*monitors* (a prompt on an AI surface); the server runs *scans* against AI
providers, stores their answers as evidence, derives events from them, tells
the members of the workspace by e-mail and Slack and sums the week up in a
digest. There is no queue server: the state lives in Postgres rows, and any
number of short-lived processes (HTTP cron jobs, page loads, server actions, or
the worker loop of a self-hosted installation) read and write them, one
statement at a time. What can go wrong lies between the statements, and that is
what the modules here describe.

Paths below are relative to the repository root; those that begin with `lib/`
are under `src/` in the map of `PROJECT.json`.

## 1. The system

### 1.1 Components

| Component | State it keeps | Operations | What makes it correct | Here |
|---|---|---|---|---|
| Scan run execution (`lib/monitoring/execute-scan-run.ts`, `claim-runs.ts`, `state-machine.ts`, `persist-result.ts`, SQL functions of the phase 5 migration) | `scan_runs`, `provider_tasks`, `ai_responses`, `monitoring_usage_events`, failure streak of the monitor | claim, release leases, submit, poll, store, retry, fail | one executor per run; a completed run has its answer; ended runs stay ended; usage counted once; accepted requests not repeated; every run ends | `ScanRun`, `RunLedger` |
| Monitor scheduling and activation (`lib/monitoring/dispatcher.ts`, `activate-monitors.ts`, `monitor-actions.ts`, `usage.ts`, `lib/entitlements/enforce.ts`) | `monitor_configurations`, the runs they create | create due runs, activate, pause, resume, block on usage, trim and restore | bounded overlap of runs; limits of workspaces; a pause or stop lasts; every due monitor is dealt with | `MonitorSchedule` |
| Evidence ledger (`lib/evidence/`, `persist-result.ts`) | events, occurrences, evidence rows | derive, insert or find, count, compare, alert | re-execution adds nothing; each occurrence once; every new event raises its alert | `EvidenceLedger`, `EvidenceRecord` |
| Notification outbox and delivery (`lib/notifications/dispatcher.ts`, `claim-outbox.ts`, `create-event-notification.ts`) | `notification_outbox`, `notification_deliveries` | enqueue, claim, release locks, deliver, record, settle, retry, defer | delivered means received; nobody is told twice; a settled alert stays settled; every alert settles | `Outbox`, `AlertLedger` |
| Digest scheduler (`lib/notifications/digest*.ts`) | `notification_digest_runs`, preferences | queue one digest per period, store its content, mark it sent | one digest per period, with its content; nothing reported twice; run rows tell the truth | `Digest` |
| Inbox member state (`lib/inbox/member-state.ts`), notebook (`lib/notebook/`) | one row per member and event; entries, revisions | read, merge, upsert; save, restore, number a revision | no acknowledgement is undone; a text is in the history | `Curation` |
| Onboarding (`lib/onboarding/`), domains (`lib/domains/`) | step of the guide; domains, brands, prompts, monitor rows, verification attempts | save, verify, rotate, replace prompts, complete | a verified domain was verified; prompts have monitors; lookups are limited; no step is skipped | `Onboarding` |
| Schedule arithmetic (`lib/monitoring/schedule.ts`) | none | next slot, jitter, backoff | pure; the rules for slots are in `MonitorSchedule` | no |
| Provider task states (`provider-task-state.ts`) | none | transition table | nobody enforces the table | status in `ScanRun` |
| Classification, AI providers, channels, rendering | external or none | match, submit, poll, send | text, or outcomes the models use | no |
| Preferences, unsubscribe, entitlements | preference rows, tokens, workspace row | resolve, decide | pure reads | any outcome; the settings of the digest in `Digest` |
| Job runner and worker loop (`lib/jobs/`) | last run per job | start due jobs, time out | a timed-out job may overlap with the next | any number of dispatchers in every model |
| Rate limiting, retention (`lib/security/`) | counters, old rows | count, delete | approximate by design | no |
| Authentication: bootstrap, invitations, members (`lib/auth/`) | users, members, invitations | bootstrap, invite, accept, remove | setup can be finished; one owner at least | no |
| Export, database adapters, web pages, supporting libraries, tooling | - | - | - | no |

`PROJECT.json` lists the same components with their files and the reason where
one is not, or only partly, modelled.

### 1.2 How the parts interact

```
 Onboarding: domains, prompts --> monitor_configurations (configured)
                                        | activation
 MonitorSchedule: dispatcher, page, pause / resume
                                        | inserts scan_runs (queued)
 ScanRun: claim, submit, poll <--> AI provider
                                        | persistNormalizedResult
 EvidenceLedger: ai_responses, events, occurrences, evidence --> Curation (inbox, notes)
                                        | a new or changed event
 Outbox: notification_outbox --> e-mail, Slack
 Digest: events of the week -----^
```

The parts talk only through rows. No transaction spans two statements, so a
process may stop, or be overtaken, between any two of them. The supabase-style
client returns `{ error }` instead of throwing and most callers of an `update`
do not look at it: a lost write is a real outcome, and a failed read often looks
like an empty table.

The modules meet at these rows, and what one assumes of another is what the
other shows: `MonitorSchedule` lets a run take one step to its end, which it
reaches by `ScanRun!EveryRunEnds`; `EvidenceLedger` executes a run again with
the same answer, as the poll path of `ScanRun` does; the alert that it enqueues
is a message of `Outbox`; the digest is delivered by one recipient's worth of
`Outbox`. Composing two of them step by step would multiply state spaces
without adding an interaction that these assumptions leave out.

### 1.3 What is hard here

`PROJECT.json` lists the hazards line by line. In short: a process goes on with
a copy or a count it read before (stale state, check then insert); leases and
locks lapse while a call is in progress; updates go by id, whatever the row says
by then; a crash, or a lost write, between an external call and the row that
remembers it; rows written one after the other that belong together; retries of
what was already done; a due time that must not be missed or used twice.

## 2. The modules

| Module | What it is |
|---|---|
| `ScanRun`, `RunLedger` | scan runs from `queued` to their end; what they promise: open, then settled once, answers kept, billed once |
| `MonitorSchedule` | monitors of a workspace between dispatchers, page loads and members |
| `EvidenceLedger`, `EvidenceRecord` | storing the answer of a run; what it promises: an append-only record and the alerts drawn from it |
| `Outbox`, `AlertLedger` | alerts from enqueue to verdict; what they promise: copies only while open, settled once, delivered only if received |
| `Digest` | the weekly digest, its three rows and its delivery |
| `Curation` | triage of events, notes and their revisions |
| `Onboarding` | the setup guide, domains and prompts |
| `MC...` | small values of the constants for TLC |
| `...Proofs` | theorems and proofs; `ScanRunLeaseProofs` holds those of `ScanRun` that suppose leases outlast the work |

Conventions. Every statement of the database and every external call is a step
of its own; `pc` or the job's label says what a process does next, and the job
holds what it has read, so that a guard the code evaluates on its argument is
evaluated on the copy. `Faults` (or `Changes`) names what may go wrong, and
`MaxFaults` how often: `crash` ends a process between two steps, `store` makes a
statement fail unnoticed, `slow` lets a lease or lock lapse under its worker.
Definitions marked `Wrong:` are bugs a change could introduce. No run uses them
as they stand; putting one in the place of the definition that follows it
violates the property it is meant for, which shows that the property looks where
the bug would be.

### 2.1 `ScanRun`

A *worker* is one claimed row in the hands of a dispatcher (a dispatcher claims
a batch and executes it row by row; two rows of one batch are two workers, and
the model allows them any order, which includes the sequential one). `job[w]`
holds the run, the `copy` of the row that `claim_due_scan_runs` returned, the
provider's reply and the failure streak it read.

| State | Code |
|---|---|
| `row[r]` | `scan_runs`: status, phase column, attempt and poll counts, `claimed_by`, `lease_expires_at`, `next_attempt_at`, `next_poll_at`, `provider_task_id`, `completed_at` |
| `task[r]` | status of the `provider_tasks` row of the run |
| `evidence[r]`, `metered[r][m]` | is there an `ai_responses` row; rows of `monitoring_usage_events` |
| `monitor` | failure streak and pause reason of the runs' monitor |
| `submissions`, `faults` | history: calls of `submitScan`; crashes and lost writes so far |

Times are abstracted to what the conditions ask: a lease is `none`, `live` or
`lapsed`, an attempt is `due` or `later`, a poll is `none`, `later` or `due`.
`LeaseLapses`, `BackoffEnds` and `PollFallsDue` let time pass.

| Actions | Code |
|---|---|
| `Claim`, `Release` | `claim_due_scan_runs`, `release_expired_scan_run_leases` |
| `SkipFinished`, `Reject`, `Abandon`, `Begin` | the opening of `executeScanRun`, `loadEligibility`, the time budget of the dispatcher |
| `Poll`, `Wait` | the poll path, `transitionScanRun` to `provider_pending` |
| `ResumePolling`, `SkipAccepted`, `GoOnToSubmit` | what an earlier attempt's task row decides |
| `RecordIntent`, `Announce`, `Submit`, `MeterSubmission`, `Accept`, `Process` | the submit path |
| `StoreEvidence`, `Complete`, `ChargeCheck`, `AdvanceSchedule` | `persistNormalizedResult` |
| `MarkRunFailed`, `ReadStreak`, `WriteStreak` | `markRunFailed` and the block on repeated failures |
| `ResumeMonitor`, `Crash` | a member's action; a process that dies |

Choices: `transitionScanRun` updates only a row that is still `running`, and
only if the phase table allows the step from the phase of the *copy*; callers do
not look at the refusal (`Transition`). Runs start with a null phase column:
`queueScanRunWithSnapshot`, which would set it, has no caller. Lost writes are
modelled for `scan_runs`, `provider_tasks` and the insert of the answer (which
does throw); lost reads and lost usage rows are not. The `fatal` reply includes a
poll of a provider that cannot poll; a call that throws ends as one of the
failing replies or, caught only by the dispatcher, like a crash. The claim
without the database function is not modelled. Attempts and submissions saturate
at `MaxAttempts + 1`, the streak at `BlockThreshold`. TLC is not asked for
deadlocks where the model stops because every run has ended.

### 2.2 `MonitorSchedule`

Servers run four kinds of request: the dispatcher's `Dispatch`, the monitors
page with its enforcement (`Page`), `Activation` and `Resume`; `Pause`, the end
of runs, the clock and changes of surfaces, billing and period happen around
them. Time is the number of the current slot, so that
`calculateNextRunAt(from)` is the slot after `from`.

| State | Code |
|---|---|
| `monitor[m]` | `monitor_configurations`: status, block reason, `next_run_at` |
| `run[k]` | `scan_runs` by monitor, type and slot, the unique key of the table |
| `used` | usage events of the billing period, up to the safety limit |
| `supported`, `authorized` | is the AI surface on, may the workspace run monitoring |
| `held` | history: monitors put on hold while a server was at work |

Choices: the stale limit of 90 minutes is shorter than a slot; the monthly
budget is merged with the cap into `MaxActive`; the reasons for which an
activation skips a monitor are folded where they have the same effect; the
restore's count and surface reads are one step; running a run is one step;
failed statements are left to the other modules.

### 2.3 `EvidenceLedger`

Workers store the answers of several runs of one monitor that may cite the same
note. `count[e]` is `citation_events.occurrence_count`, `occurrence` the rows of
`citation_event_occurrences` with their prior observation compared, `proofs` the
batches of `citation_evidence`, `alerted` and `renewed` the outbox rows. The
order of the statements is that of `persistNormalizedResult` and
`upsertCitationEvent`: find or create the event, alert a new one, compare with
the prior observation, append the occurrence, alert a change, append the
evidence; last, complete the run. A re-executed run has the same answer.

### 2.4 `Outbox`

A worker is one claimed outbox row in `runNotificationDispatcher`.

| State | Code |
|---|---|
| `outbox[m]` | `notification_outbox`, one per dedupe key: status, attempt count, lock, next attempt |
| `delivery[m][k]` | `notification_deliveries`, by its unique key: the target (channel and member) and the recipient type |
| `role[t]` | the recipient type that a member's role stands for (`recipients.ts`) |
| `enabled` | `NOTIFICATIONS_ENABLED` |
| `received[m][t]` | history: copies that reached the target, counted to 2 |

`Enqueue` is the upsert that ignores duplicates; `Claim`, `Release` and
`LockLapses` are the lock; `Gate` stands for the reads that open
`processOutboxRow` and the ways it returns early; `EnsureDeliveryRow`, `Send`
and `Record` handle one recipient, e-mail before Slack; `Close` is the verdict,
`Throw` and `Catch` the exceptions and the dispatcher's `catch`. A missing Slack
webhook is the same as Slack not being wanted. Unsubscribe tokens, the health
mark of the Slack channel and lifecycle rows are left out.

### 2.5 `Digest`

Jobs of two kinds (the digest job, and the notification dispatcher, which goes
on to deliver) evaluate the digest of one workspace. Time is counted in hours;
`PeriodEnd` and `ShouldSendNow` are `calculateDigestPeriod`. `outbox[p]`,
`run[p]` and the payload of the outbox row are the three writes that belong
together and are made one after the other. So are, in the delivery, what the
provider accepts (`mailed[p]`, the texts that went out), the recipient's delivery
row (`recorded[p]`: does it say delivered?) and the verdicts on outbox and run
row: `EnsureDelivery` reads the delivery row, `Send` calls the provider, and
`UpdateDelivery`, `Close` and `MarkSent` write. `ReadingPrefs` has the read that fails and then overwrites the preferences by
their defaults. `overlap` is history: did a job act while another was between
its statements?

### 2.6 `Curation`

`triage[e][m]` is the member's row on an event, `note` and `revisions` the
notebook. A request reads, decides and writes in separate steps. The state of
the inbox is read twice, by the setter and again for the merge, and each read
may be stale or look like no row (`MayRead`); the number of a revision is one
more than the largest read, tried twice. `crossed` and `dropped` are history:
notes with two saves in progress at a time, and with a revision refused, failed
or cut off.

### 2.7 `Onboarding`

Requests save a domain and its brand, verify the domain (count the attempts,
read the token, ask the DNS, record, write the verdict), replace the prompts
with their monitors row by row, and complete the guide. `Rotate`, `Disable` and
`Publish` are actions of one statement, or of the user's DNS. The workspace is
new, almost set up or set up at the start; the latter two are states that the
first leads to. `found`, `lookups`, `saved`, `furthest` and `overlapped` are
history. The limit check is merged with the insert that records a refused
attempt; the second write of `workspaces.onboarding_completed_at`, a second
brand name and prompts added elsewhere are left out.

## 3. What is checked

| Run | Instance | Shows |
|---|---|---|
| `ScanRunFaulty` | 2 workers, 1 run, 2 attempts, 1 poll, every fault, 1 crash or lost write | `TypeOK`, `CompletedHasEvidence`, `MeteredOnce`: what holds whatever goes wrong, late workers included |
| `ScanRunCrash` | 2 workers, 2 runs of one monitor, 2 attempts, 1 poll, 2 crashes | `ImplementsRunLedger`, `SoleExecutor`, `AcceptedOnce`; `BlockJustified`, which needs two runs failing at once |
| `ScanRunEnds` | 2 workers, 1 run, 3 attempts, 2 polls, no fault | `EveryRunEnds`, `SubmissionsWithinAttempts` |
| `MonitorOverlap` | 2 servers; 1 monitor, 3 slots, 1 crash or change; 2 monitors, 2 slots, 2 concurrent runs | `RecurringWithinCap`, which needs two dispatchers and two monitors; `OverlapBounded`, `NoBackfill`, `HoldsUntilUser` |
| `MonitorFair` | 1 server, 2 monitors for 1 place and 1 concurrent run, 2 slots, 1 crash or change | `TypeOK`, `PageEnforcesCap`, `DueIsDispatched` |
| `EvidenceFaulty` | 2 workers, 3 runs, 1 note, 2 evidence hashes, 1 fault of any kind, overlap | `TypeOK`, `QuietIsComplete`, `CountWithinFaults`, `MaterialIsDifference`, `EvidenceOnce`, `ImplementsEvidenceRecord` |
| `OutboxFaulty` | 2 workers, 1 alert, 1 member and Slack, 2 attempts, 1 fault of any kind, lapsed locks | `TypeOK`, `DeliveredMeansReceived` |
| `OutboxLedger` | 2 workers, 1 alert, 2 members and Slack, 1 fault of any kind but lapsed locks | `ImplementsAlertLedger`, `ReceivedOnce`, `EveryAlertSettles` |
| `DigestFaulty` | 2 jobs, one of them a dispatcher, 1 event, weeks of 2 hours, 3 or 4 hours, 1 fault of any kind | `TypeOK`, `ObservationReportedOnce`, `ContentFollows`, `RunTellsTheTruth`, `DigestGoesOut` |
| `CurationFaulty` | 2 requests at a time, 4 in all, 2 members, 1 event, 1 note, 2 texts, 1 fault | `TypeOK`, `CurrentIsRecorded`, `SeenStaysSeen` |
| `OnboardingFaulty` | 2 requests at a time, 3 in all, 2 hosts, 2 prompts, 1 domain allowed, 1 attempt an hour, 1 fault | `TypeOK`, `VerifiedWasFound`, `PromptsAreConfigured`, `LookupsWithinLimit`, `ProgressIsEarned` |

One more run has TLC find the code at odds with what the repository says of it:
in `MonitorUnscheduled` a monitor that was blocked before it was ever active is
restored by the monitors page without a next run, and no dispatcher picks it up
(`ActiveIsScheduled`, against `docs/monitoring-engine.md:38`).

`TypeOK` says more than types where a shape is at stake: revisions are numbered
without gaps (`Curation`), periods end at hours that have begun (`Digest`), a prompt has
one row and a monitor never outlives its prompt (`Onboarding`).

**Bounds.** Two processes are what it takes for one to overtake another; a third
would do nothing to a row that the two cannot, since a row has at most one lease
or lock and a late worker acts on the row alone. One run, alert, event or note is
enough where they do not meet, and two or three where they do: two runs for the
streak of a monitor, three for the observation before the one before, two
monitors for one place, two hosts for one domain that the plan allows. Two
attempts let a retry happen, three let a retry follow a resumed poll; two polls
let a run wait twice; three slots let one be missed between two others; three
hours of a two-hour week hold two digests with a common boundary, and a fourth
the hour after the second, in which nothing makes up for it. With one crash
or lost write (two where the state space allows) a second attempt runs into what
the first left behind. Two members and Slack give a row that succeeds, fails for
good and fails for now at once; members can change their role or the settings in
between. Three or four requests let one cross two others or come after them.
Counters are bounded by saturation and by `MaxFaults`, never by stopping the
system; `MaxHour`, `MaxClock` and `MaxRequests` end the behaviours, and the
liveness properties speak only of what lies within.

Two runs have a constraint besides. `OneMonitorOrTwo` (`MonitorOverlap`) keeps
states with one monitor, over all slots and with a change, and those with two over
two slots: without a change, both in service, and with dispatchers alone at work
after the first slot, when runs are due. Two monitors are there for the cap of
concurrent runs, which only dispatchers look at and which two of them exceed when
both have counted before either inserts. `Bounded` (`DigestFaulty`) spends its
fourth hour, its faults and a first digest on different behaviours: two digests
need three hours and no fault, a missed hour needs no first digest, and a fault
excuses the liveness property, so that only what follows it on one digest is of
interest; after a failed statement the safety properties but `TypeOK` speak only
of jobs that do not overlap. The safety properties
are theorems of section 4 without either constraint. Symmetry is used in runs
without liveness properties.

**Fairness.** Cron starts dispatchers for ever and time passes. In `ScanRun` and
`Outbox`: weak fairness of `Release`, of the lapses and of the steps of a worker
that has begun; a claim is strongly fair per row, because the claim takes the
oldest rows first, so that a row that is due again and again has its turn;
starting a claimed row is strongly fair for the same reason. In
`MonitorSchedule`: a request goes on until it is over, runs end
(`ScanRun!EveryRunEnds`), and the cron job's request gets its turn among others
(strong fairness of the start). In `Digest`: a job that runs goes on and the
dispatcher is started again and again (that locks expire is not needed, because
only a fault leaves one behind), but nothing says that a job is started within a given hour, which is why `DigestGoesOut` excepts hours in
which none was. Nothing is assumed of providers, channels or users.
`EveryAlertSettles` supposes that notifications stay on from some time on,
`DueIsDispatched` that the workspace keeps its right to monitor.

## 4. What is proved

TLAPS checks these for every value of the constants that the assumptions stated
in the modules allow (finite sets of processes where they are counted, positive
limits, a value for "nothing" that is none of the others): any number of
workers, runs, members, requests and faults.

| Module | Theorem | Property | Argument |
|---|---|---|---|
| `ScanRunProofs` | `TypeCorrect`, `CompletedKeepsEvidence`, `UsageCountedOnce` | `TypeOK`, `CompletedHasEvidence`, `MeteredOnce` | `Inv`: types and what a worker has done by the time it reaches a step (`WorkerContext`) |
| | `LeasesAreNotStolen`, `IntentIsFirst` | `ClaimNeverSteals`; `IntentFirst` without lost writes | the same |
| `ScanRunLeaseProofs` | `ExecutionIsExclusive`, `AcceptedRequestsAreNotRepeated` | `SoleExecutor`, `AcceptedOnce`, while leases outlast the work | `Held`: who executes holds the lease, and nobody else writes the row; `Unaccepted` |
| | `EndedRunsStayEnded`, `WaitingRunsNameTheirTask` | `TerminalIsFinal`, `PollNamesTask`, under the same condition | `Held`, `PollPathNamesTask` |
| | `OpenRunsAreNotStranded` | `OpenRunsWithinReach`, under the same condition | an open row is not marked completed, and handed back only to be queued or polled (`AllOpen`) |
| | `EngineImplementsLedger` | `ImplementsRunLedger`, if no write is lost either | every step is one of `RunLedger` or a stutter; who charges a check works on a completed run (`Charged`) |
| | `BlocksAreJustified` | `BlockJustified`, if no write is lost either | the streak, and each copy of it, is at most the number of failed runs that have been counted (`Tallied`) |
| | `SubmissionsAreBounded` | `SubmissionsWithinAttempts`, without faults | an open run without an accepted request has an attempt left to submit (`Budget`) |
| `MonitorScheduleProofs` | `TypesAreKept`, `MissedSlotsAreSkipped` | `TypeOK`, `NoBackfill` | what a server carries; the slots a dispatcher chose are not over |
| | `OverlapIsBounded`, `RecurringRunsWithinCap` | `OverlapBounded`, `RecurringWithinCap` | a server that has passed the check and not inserted yet counts as a run; a run that a server has yet to fail exists (`Given`, `OverlapInv`, `CapInv`) |
| | `PageLeavesTheCap` | `PageEnforcesCap`, for one server | the active monitors that the page is not about to put on hold fit the cap (`TrimInv`) |
| | `HoldsLast` | `HoldsUntilUser` | no request intends to free a monitor that was on hold when it read it (`HoldInv`, `StoppedInv`) |
| `EvidenceLedgerProofs` | `TypesAreKept` | `TypeOK` | a note dealt with has an occurrence or was missed |
| | `LedgerImplementsRecord` | `ImplementsEvidenceRecord` | every step is one of `EvidenceRecord` or a stutter |
| | `EvidenceIsStoredOnce`, `NothingIsLeftHalfDone` | `EvidenceOnce`, `QuietIsComplete` | `NotOverlapped`; what is incomplete is in some execution's hands (`WithoutFaults`) |
| | `CounterIsWithinFaults` | `CountWithinFaults` | what an execution has yet to add to count or occurrences makes up the difference (`Books`) |
| | `MaterialTellsDifference` | `MaterialIsDifference` | the rows of a note are stored in the order of their times (`History`) |
| `OutboxProofs` | `TypesAreKept`, `ReportedDeliveriesHappened` | `TypeOK`, `DeliveredMeansReceived` | a worker knows of a success only if somebody got the alert |
| | `AlertsArriveOnce`, `OutboxImplementsLedger` | `ReceivedOnce`, `ImplementsAlertLedger`, while locks outlast the work | one worker per claimed alert; a copy that arrived is in the delivery row or about to be |
| | `OpenAlertsAreNotStranded` | `OpenAlertsWithinReach` | a row is in processing only under a lock (`AllLocked`) |
| `DigestProofs` | `TypesAreKept`, `ObservationsAreReportedOnce` | `TypeOK`, `ObservationReportedOnce` | contents fit the week of their period, periods are on one day, so that weeks are disjoint (`AllFit`, `AllOnDay`) |
| | `QueuedDigestsGetTheirContent` | `ContentFollows` | a bare row has a job that is writing (`BareIsWritten`), and who claims it meanwhile notes the overlap (`BareIsOverlap`) |
| | `NothingGoesOutAfterDelivery` | `DeliveredIsFinal` | a claimed row has one holder, and who is about to send has found the delivery row open (`Unsent`) |
| | `RunsTellTheTruth` | `RunTellsTheTruth` | a claimed row has one holder (`HoldInv`); the rows of a period agree but for the one a job is about to write (`AllTrue`) |
| `CurationProofs` | `TypesAreKept`, `CurrentTextIsRecorded` | `TypeOK`, `CurrentIsRecorded` | a text is in the history, on its way there or known to be dropped (`NotebookInv`) |
| | `AcknowledgementLasts`, `TriagedEventsAreSeen` | `SeenStaysSeen`; `TriagedIsSeen` | every change begun will set the stamp `seen` (`InboxInv`) |
| `OnboardingProofs` | `TypesAreKept`, `VerifiedDomainWasFound` | `TypeOK`, `VerifiedWasFound` | what a request knows of the token (`FoundInv`) |
| | `StepsAreEarned`, `PromptsGetTheirMonitors` | `ProgressIsEarned`, `PromptsAreConfigured` | what completion asked for still holds if the request is alone (`EarnedInv`); a prompt without monitors is in a request's hands (`SavedInv`) |
| | `LookupsAreLimited` | `LookupsWithinLimit` | each lookup is counted, about to be, or lost to a fault (`LimitInv`) |

How the proofs go. The property itself is seldom inductive, because what a
process does is right only by what the same process read or did before. Each
module of proofs therefore starts from a type invariant that also says what a
process has in hand at each of its steps, proved once with a lemma per action
and one that restores it for the process that moved while the others rest. On
top of it come facts about what a step can do to each part of the state (which
actions write a row, and what they make of it), and the invariants in the table
above are shown from those facts rather than from the actions anew. Where a
property excepts faults or overlap, the exception only grows, and the invariant
is an implication whose premise is kept backwards.

Four of the arguments deserve a word.

*The counter of a note* (`Books`). Neither the counter nor the number of
occurrences changes alone for long: an execution that has touched a note owes it
an occurrence, and one that a fault ended may have left the counter one ahead,
or an occurrence without its count. The invariant says for every label of the
worker how far the two may be apart, and that the faults so far pay for the
rest; cardinalities change by one row at a time.

*Material changes* (`History`). `Compare` looks for the latest observation at the
time it runs, and the property speaks of the observation before it for ever
after. They agree because no row with an earlier time is stored later: an
execution takes its time when it begins, and the notes it has still to store have
only rows from before that time.

*The streak of failures* (`Tallied`). Two workers may read the same streak and
write it one after the other, which loses a count and never invents one: the
monitor's streak and every copy of it stay at most the number of runs that have
failed, without those that a worker has still to count, so that there is room for
each of them; no two workers count the same run. The set of failed runs is finite because it starts empty and grows by
one, so that nothing is assumed of `Runs`.

*Submissions* (`Budget`). A claim from the queue takes an attempt, so that a
claimed run without an accepted request has submitted less often than it has
attempts; a run that goes back to the queue does so while its copy says that
attempts are left, and a polled run was accepted and is not submitted again.

`ClaimNeverSteals`, `IntentFirst`, `TerminalIsFinal`, `PollNamesTask`,
`DeliveredIsFinal` and `TriagedIsSeen` are proved and not checked by a run. So are
`OpenRunsWithinReach` and `OpenAlertsWithinReach`, the part of safety in
`EveryRunEnds` and `EveryAlertSettles`: no step, and no crash or lost write,
leaves an open run or alert where neither a claim nor a release finds it and no
time that passes brings it back. They are defined beside their proofs.

Every safety property, action property and refinement of a passing run is stated
by a theorem. The hypotheses are those under which the code can keep the
property, and the runs show the property under the same ones, or with fewer
kinds of faults: section 5 tells what happens without them. `"slow"` not among
the faults means that a lease outlasts the work done under it, which the code
arranges by the length of its leases and does not check; `"store"` not among
them, that a write whose error the code ignores succeeds; one server, that
requests on the monitors do not overlap.

Liveness (`EveryRunEnds`, `EveryAlertSettles`, `DueIsDispatched`,
`DigestGoesOut`) stays with TLC: fairness and `ENABLED` are out of the prover's
reach, and so is induction over data.

## 5. Known limits of the guarantees

Met while modelling, and visible in the premises of the properties. Those marked
(doc) are at odds with a sentence of the documentation.

*Scan runs.* The provider task is marked completed before the answer is stored:
after one failed write every retry stops at the completed task and the run is
claimed and skipped for ever (`execute-scan-run.ts:644`; doc,
`docs/open-source/monitoring-engine.md:68`). A worker that outlived its lease
overwrites a terminal status (`execute-scan-run.ts:343`; doc, line 39 there). On
a second attempt the phase table refuses `retry_scheduled` to
`provider_pending`, so that the run keeps its lease and gets no poll time
(`execute-scan-run.ts:732`; doc, line 49). `SubmissionsWithinAttempts` supposes
no crash: after one between `submitScan` and the write of the task row the run
goes back to the queue past the limit that only `markRunFailed` applies.

*Monitors.* Two dispatchers, or a baseline of an activation, break "no
overlapping active scans" (doc, `docs/monitoring-engine.md:52`); `OverlapBounded`
says by how much. The caps count only what the same call activates (doc,
`docs/open-source/entitlements.md:64`). Nothing unblocks a monitor when the next
billing period begins, although the answer to a resume says so
(`monitor-actions.ts:168`). Only the oldest due monitors of all workspaces are
read, so that those passed over can keep the others out (`dispatcher.ts:45`). A
failed insert of a run still moves `next_run_at` on (`dispatcher.ts:180`). Writes
by id after stale reads undo a pause made meanwhile, and `markRunFailed` can
overwrite it; hence the `held` of `HoldsUntilUser`. The refusal to resume a
monitor that the usage limit stopped looks only at the reason it has by then. A
pause replaces that reason, and so may the failure counted for the very run that
met the limit, which comes after the block and may write `repeated_failures`
(`execute-scan-run.ts:194`, `:508`): the monitor can then be resumed at once.

*Evidence.* A crash between the insert of an event and its enqueue loses the
alert, because the next execution finds the event. A failed insert of an event or
occurrence is logged and the run completed without it (doc,
`docs/citation-classification.md:52`). Counters and material changes are right
only when executions do not overlap.

*Alerts.* A member whose role changes between two attempts gets the alert again
(doc, `docs/notifications.md:71`), and a recipient that failed for good is sent to
again when another needs a retry (doc, line 79). The channel has no idempotency
key: after a crash or a lost reply the copy goes out twice. The attempts are not
bounded by the `catch` of the dispatcher, by a deferral or by a crash. A failed
read of the workspace suppresses the alert (`notifications/dispatcher.ts:181`).

*Digests.* Overlapping jobs can send a digest without its content, or leave the
run row queued although it went out. A crash, a lost write or a lost answer
between the acceptance of the mail and the update of the delivery row
(`notifications/dispatcher.ts:350`, `:366`) sends the digest again, and if its
content was stored meanwhile, the bare text first and the full one later;
`NothingGoesOutAfterDelivery` says when that is over. A new day or hour of the digest repeats or
skips observations; one made within the hour of the digest moves to the next
week; an hour in which no job was started skips the week; a failed read of the
preferences resets them (`preferences.ts:146`).

*Inbox and notes.* Overlapping saves can leave a newest revision that is not the
text, and a second collision answers "Could not save note" although it was saved.
A deleted note can never be restored: every request on it answers "Note not
found." unless the patch sets `deleted_at`, and the one that restores it clears
it (`notebook/actions.ts:279`); `RefuseUndelete` is that step.

*Setup.* Two requests can move the step of the guide across each other, and a
step can be reached without saving, because the guard of `goToOnboardingStepAction`
compares with a maximum that includes the target. Overlapping saves of prompts
leave a mixture, and a crash in one leaves fewer prompts or none. A verification
that read the token before a rotation marks the domain verified afterwards, and
saving the domain writes back the token it read. Attempts and domains are
counted before they are inserted. A disabled domain that is added again stays
disabled, yet verifying or rotating it enables it beyond the limit.
`docs/onboarding.md` still says that completion starts no scans.

## 6. What is not modelled

Most of the code is pages, components, content, types and configuration, which
keep no state of their own between two requests. Left out for good: text (classification, rendering, export),
pure reads, the clients of external services, and counters that are approximate
by design. Date arithmetic is left to unit tests, except for the rules on slots
and periods. Parts that the table of 1.1 answers with "no" for another reason:

- Authentication. Its checks and inserts are separate statements too: a crash
  between the insert of the first user and that of the workspace leaves an
  installation that nobody can set up (`auth/bootstrap.ts:87`), and the guard
  against removing the last owner has no caller. These rows are read by nothing
  in the models, and a module of them would have hardly a step beyond the ones
  just named.
- The job runner is a timeout around one call; a job that outlives it runs
  beside the next one, which the models allow by having several dispatchers.
- Annotations are single updates after a permission check, like the flags of a
  note, which are modelled.
- The plain Postgres adapter refuses `notification_deliveries`,
  `notification_digest_runs` and `monitor_config_snapshots`, which are missing
  from `ALLOWED_DB_TABLES` (`lib/db/providers/postgres/tables.ts`); the models
  describe the other adapter, whose statements go through.

What would come next: the parts of safety in `DueIsDispatched` and
`DigestGoesOut`, and an instance of two overlapping saves of domains by different
workspaces, for the uniqueness of hostnames.
