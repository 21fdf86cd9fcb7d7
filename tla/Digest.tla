------------------------------- MODULE Digest -------------------------------
(***************************************************************************)
(* The weekly digest of one workspace (lib/notifications/digest.ts,        *)
(* digest-period.ts) and its way through the outbox (dispatcher.ts).       *)
(*                                                                         *)
(* Two cron jobs evaluate the digest, the digest job and the notification  *)
(* dispatcher, which then delivers what is queued.  A digest covers the    *)
(* week before the configured hour and is made only within that hour.  Its *)
(* outbox row, its run row and its content are written one after the       *)
(* other, so that jobs, deliveries, new observations and changes of the    *)
(* settings fall between them.                                             *)
(*                                                                         *)
(* Time is counted in hours; an hour h stands for the times in [h, h+1).   *)
(* The outbox is reduced to one recipient: claims, retries and verdicts in *)
(* full are in the module Outbox.  What the provider accepts, the delivery *)
(* row that records it and the verdict on the outbox row are written one   *)
(* after the other here as well.                                           *)
(***************************************************************************)
EXTENDS Integers, FiniteSets

CONSTANTS
  Jobs,         \* cron jobs that may run at the same time
  Dispatchers,  \* those of them that deliver as well
  Events,       \* citation events of the workspace
  Week,         \* hours in a week
  MaxHour,      \* bound on time
  Bare,         \* the payload before the content is stored
  Nothing,      \* no row, no value
  Faults,       \* kinds of disturbance that may happen
  MaxFaults     \* bound on their number

FaultKinds == {"crash", "store", "send", "switch", "reschedule"}

ASSUME ConstantsAssumption ==
  /\ Dispatchers \subseteq Jobs
  /\ Week \in Nat \ {0}
  /\ MaxHour \in Nat
  /\ Faults \subseteq FaultKinds
  /\ MaxFaults \in Nat

Hours == 0 .. MaxHour

(* What a digest reports: events with the hour of their observation.        *)
Observations == Events \X Hours
Payloads == (SUBSET Observations) \cup {Bare}
Rows == [status : {"pending", "processing", "delivered", "suppressed", "failed"},
         payload : Payloads]
RunRows == [status : {"pending", "queued", "suppressed", "sent"}, linked : BOOLEAN]

ASSUME ValuesAssumption ==
  /\ \A content \in SUBSET Observations : content /= Bare
  /\ \A value \in Rows \cup RunRows \cup Hours : value /= Nothing

VARIABLES
  now,       \* the hour
  prefs,     \* the notification preferences of the workspace
  lastSeen,  \* lastSeen[e]: the hour of the latest observation, or Nothing
  outbox,    \* outbox[p]: the outbox row of the period ending at p, or Nothing
  run,       \* run[p]: its digest run row, or Nothing
  mailed,    \* mailed[p]: the contents that went out
  recorded,  \* recorded[p]: whether its delivery row says delivered
  pc,        \* pc[j]: the next statement of job j
  job,       \* job[j]: what it has read
  unserved,  \* hours that passed without a job being started
  started,   \* whether a job was started in this hour
  overlap,   \* whether a job did anything while another one was scheduling
  faults     \* kinds of disturbance so far

vars == <<now, prefs, lastSeen, outbox, run, mailed, recorded, pc, job, unserved, started, overlap, faults>>

DefaultPrefs == [enabled |-> TRUE, sendEmpty |-> FALSE, at |-> 0]

NoJob == [now |-> 0, sendEmpty |-> FALSE, period |-> Nothing, content |-> {},
          isEmpty |-> TRUE, created |-> FALSE, payload |-> Bare, result |-> "pending"]

Init ==
  /\ now = 0
  /\ prefs = DefaultPrefs
  /\ lastSeen = [e \in Events |-> Nothing]
  /\ outbox = [p \in Hours |-> Nothing]
  /\ run = [p \in Hours |-> Nothing]
  /\ mailed = [p \in Hours |-> {}]
  /\ recorded = [p \in Hours |-> FALSE]
  /\ pc = [j \in Jobs |-> "idle"]
  /\ job = [j \in Jobs |-> NoJob]
  /\ unserved = {}
  /\ started = FALSE
  /\ overlap = FALSE
  /\ faults = {}

-----------------------------------------------------------------------------
MayFail(kind) == kind \in Faults \ faults /\ Cardinality(faults) < MaxFaults
Disturb(kind) == MayFail(kind) /\ faults' = faults \cup {kind}

GoTo(j, where) == pc' = [pc EXCEPT ![j] = where]

(* After scheduling the dispatcher goes on to deliver.                      *)
AfterScheduling(j) == IF j \in Dispatchers THEN "claim" ELSE "idle"

FinishScheduling(j) ==
  /\ GoTo(j, AfterScheduling(j))
  /\ job' = [job EXCEPT ![j] = NoJob]

Scheduling(j) == pc[j] \in {"prefs", "content", "look", "suppress", "gate", "enqueue", "record", "payload"}

(* Job j does something while another one is between its statements.        *)
MarkOverlap(j) == overlap' = (overlap \/ \E k \in Jobs \ {j} : Scheduling(k))

timeVars == <<now, lastSeen, unserved, started>>

-----------------------------------------------------------------------------
(* calculateDigestPeriod: the latest configured hour that is not later than *)
(* the time given, and whether that hour is still going on.                 *)
PeriodEnd(time, at) == time - ((time - at) % Week)

(* Wrong: however long ago the configured hour was.                         *)
AnyHourAfter(time, at) == PeriodEnd(time, at) <= time

ShouldSendNow(time, at) ==
  LET since == time - PeriodEnd(time, at) IN 0 <= since /\ since < 1

(* The events of a period are those last seen in it.                        *)
(* Wrong: the end of the period is included.                                *)
InClosedPeriod(hour, end) == end - Week <= hour /\ hour <= end

InPeriod(hour, end) == end - Week <= hour /\ hour < end

ContentOf(end) ==
  {<<e, lastSeen[e]>> : e \in {d \in Events : lastSeen[d] /= Nothing /\ InPeriod(lastSeen[d], end)}}

-----------------------------------------------------------------------------
(* runDigestScheduler.                                                      *)

StartJob(j) ==
  /\ pc[j] = "idle"
  /\ GoTo(j, "prefs")
  /\ job' = [job EXCEPT ![j].now = now]
  /\ started' = TRUE
  /\ MarkOverlap(j)
  /\ UNCHANGED <<now, prefs, lastSeen, outbox, run, mailed, recorded, unserved, faults>>

(* The preferences are read; a read that fails looks like a workspace that  *)
(* has none, and they are overwritten by the defaults.                      *)
ReadingPrefs(read) ==
  \/ read = prefs /\ UNCHANGED <<prefs, faults>>
  \/ read = DefaultPrefs /\ prefs' = read /\ Disturb("store")

IsDue(p, time) == p.enabled /\ ShouldSendNow(time, p.at)

ReadPrefs(j) ==
  /\ pc[j] = "prefs"
  /\ \E read \in {prefs, DefaultPrefs} :
       /\ ReadingPrefs(read)
       /\ IF IsDue(read, job[j].now)
          THEN /\ GoTo(j, "content")
               /\ job' = [job EXCEPT ![j].sendEmpty = read.sendEmpty,
                                     ![j].period = PeriodEnd(job[j].now, read.at)]
          ELSE FinishScheduling(j)
  /\ MarkOverlap(j)
  /\ UNCHANGED <<timeVars, outbox, run, mailed, recorded>>

(* A read of the events that fails looks like an empty week.  Alerts about   *)
(* monitors that were queued in the week are counted as well.               *)
HasContent(j, content, issues) ==
  job' = [job EXCEPT ![j].content = content, ![j].isEmpty = content = {} /\ ~issues]

BuildDigestContent(j) ==
  /\ pc[j] = "content"
  /\ \E issues \in BOOLEAN :
       \/ HasContent(j, ContentOf(job[j].period), issues) /\ UNCHANGED faults
       \/ HasContent(j, {}, issues) /\ Disturb("store")
  /\ GoTo(j, "look")
  /\ MarkOverlap(j)
  /\ UNCHANGED <<timeVars, prefs, outbox, run, mailed, recorded>>

(* Wrong: whether there is anything to report is not looked at.             *)
SuppressibleByPrefs(j) == ~job[j].sendEmpty

Suppressible(j) == job[j].isEmpty /\ ~job[j].sendEmpty

LookForRun(j) ==
  /\ pc[j] = "look"
  /\ \/ /\ run[job[j].period] /= Nothing
        /\ FinishScheduling(j)
        /\ UNCHANGED faults
     \/ /\ \/ run[job[j].period] = Nothing /\ UNCHANGED faults
           \/ run[job[j].period] /= Nothing /\ Disturb("store")
        /\ GoTo(j, IF Suppressible(j) THEN "suppress" ELSE "gate")
        /\ UNCHANGED job
  /\ MarkOverlap(j)
  /\ UNCHANGED <<timeVars, prefs, outbox, run, mailed, recorded>>

(* The unique key keeps the first run row of a period; that an insert is    *)
(* refused or fails is not looked at.                                       *)
InsertRun(p, row) ==
  \/ run' = [run EXCEPT ![p] = IF @ = Nothing THEN row ELSE @] /\ UNCHANGED faults
  \/ Disturb("store") /\ UNCHANGED run

Suppress(j) ==
  /\ pc[j] = "suppress"
  /\ InsertRun(job[j].period, [status |-> "suppressed", linked |-> FALSE])
  /\ FinishScheduling(j)
  /\ MarkOverlap(j)
  /\ UNCHANGED <<timeVars, prefs, outbox, mailed, recorded>>

(* enqueueNotificationOutbox reads the preferences once more.               *)
Gate(j) ==
  /\ pc[j] = "gate"
  /\ \E read \in {prefs, DefaultPrefs} :
       /\ ReadingPrefs(read)
       /\ GoTo(j, IF read.enabled THEN "enqueue" ELSE "record")
  /\ MarkOverlap(j)
  /\ UNCHANGED <<timeVars, outbox, run, mailed, recorded, job>>

(* The dedupe key holds the period: an upsert that finds a row returns none.*)
Enqueue(j) ==
  LET p == job[j].period IN
  /\ pc[j] = "enqueue"
  /\ \/ /\ outbox[p] = Nothing
        /\ outbox' = [outbox EXCEPT ![p] = [status |-> "pending", payload |-> Bare]]
        /\ job' = [job EXCEPT ![j].created = TRUE]
        /\ UNCHANGED faults
     \/ outbox[p] /= Nothing /\ UNCHANGED <<outbox, job, faults>>
     \/ Disturb("store") /\ UNCHANGED <<outbox, job>>
  /\ GoTo(j, "record")
  /\ MarkOverlap(j)
  /\ UNCHANGED <<timeVars, prefs, run, mailed, recorded>>

(* Wrong: the run row does not name the outbox row.                         *)
UnlinkedRow(created) ==
  [status |-> IF created THEN "queued" ELSE "pending", linked |-> FALSE]

RunRow(created) ==
  [status |-> IF created THEN "queued" ELSE "pending", linked |-> created]

(* Wrong: a run row that is refused ends the scheduling.                    *)
StoresIfRecorded(j) == job[j].created /\ run[job[j].period] = Nothing

StoresContent(j) == job[j].created

RecordRun(j) ==
  /\ pc[j] = "record"
  /\ InsertRun(job[j].period, RunRow(job[j].created))
  /\ IF StoresContent(j) THEN GoTo(j, "payload") /\ UNCHANGED job ELSE FinishScheduling(j)
  /\ MarkOverlap(j)
  /\ UNCHANGED <<timeVars, prefs, outbox, mailed, recorded>>

StorePayload(j) ==
  /\ pc[j] = "payload"
  /\ \/ outbox' = [outbox EXCEPT ![job[j].period].payload = job[j].content] /\ UNCHANGED faults
     \/ Disturb("store") /\ UNCHANGED outbox
  /\ FinishScheduling(j)
  /\ MarkOverlap(j)
  /\ UNCHANGED <<timeVars, prefs, run, mailed, recorded>>

-----------------------------------------------------------------------------
(* The delivery of a digest.                                                *)

(* The claim returns the row as it is now.                                  *)
Claim(j, p) ==
  /\ pc[j] = "claim"
  /\ outbox[p] /= Nothing
  /\ outbox[p].status = "pending"
  /\ outbox' = [outbox EXCEPT ![p].status = "processing"]
  /\ job' = [job EXCEPT ![j].period = p, ![j].payload = outbox[p].payload]
  /\ GoTo(j, "resolve")
  /\ MarkOverlap(j)
  /\ UNCHANGED <<timeVars, prefs, run, mailed, recorded, faults>>

NothingToClaim(j) ==
  /\ pc[j] = "claim"
  /\ \A p \in Hours : outbox[p] /= Nothing => outbox[p].status /= "pending"
  /\ GoTo(j, "idle")
  /\ UNCHANGED <<timeVars, prefs, outbox, run, mailed, recorded, job, overlap, faults>>

(* The recipients are resolved by the preferences of now.                   *)
Resolve(j) ==
  /\ pc[j] = "resolve"
  /\ \E read \in {prefs, DefaultPrefs} :
       /\ ReadingPrefs(read)
       /\ GoTo(j, IF read.enabled THEN "ensure" ELSE "drop")
  /\ MarkOverlap(j)
  /\ UNCHANGED <<timeVars, outbox, run, mailed, recorded, job>>

(* The verdict on the outbox row; that it is not written is not looked at.  *)
CloseRow(p, verdict) ==
  \/ outbox' = [outbox EXCEPT ![p].status = verdict] /\ UNCHANGED faults
  \/ Disturb("store") /\ UNCHANGED outbox

(* Back to the next row that can be claimed.                                *)
NextRow(j) ==
  /\ GoTo(j, "claim")
  /\ job' = [job EXCEPT ![j] = NoJob]

CloseSuppressed(j) ==
  /\ pc[j] = "drop"
  /\ CloseRow(job[j].period, "suppressed")
  /\ NextRow(j)
  /\ MarkOverlap(j)
  /\ UNCHANGED <<timeVars, prefs, run, mailed, recorded>>

(* A digest that the recipient's delivery row says delivered is not sent    *)
(* again.                                                                   *)
AlreadyOut(p) == recorded[p]

(* The delivery row is found or created.  If it cannot be, the exception is *)
(* caught and the digest goes back to the queue.                            *)
EnsureDelivery(j) ==
  LET p == job[j].period IN
  /\ pc[j] = "ensure"
  /\ \/ /\ AlreadyOut(p)
        /\ GoTo(j, "close")
        /\ job' = [job EXCEPT ![j].result = "sent"]
        /\ UNCHANGED <<outbox, faults>>
     \/ /\ ~AlreadyOut(p)
        /\ GoTo(j, "send")
        /\ UNCHANGED <<outbox, job, faults>>
     \/ /\ ~AlreadyOut(p)
        /\ Disturb("store")
        /\ outbox' = [outbox EXCEPT ![p].status = "pending"]
        /\ NextRow(j)
  /\ MarkOverlap(j)
  /\ UNCHANGED <<timeVars, prefs, run, mailed, recorded>>

(* A send that fails is to be retried or given up; the digest may have gone *)
(* out all the same.                                                        *)
Send(j) ==
  LET out == [mailed EXCEPT ![job[j].period] = @ \cup {job[j].payload}] IN
  /\ pc[j] = "send"
  /\ \/ /\ mailed' = out
        /\ job' = [job EXCEPT ![j].result = "sent"]
        /\ UNCHANGED faults
     \/ /\ Disturb("send")
        /\ mailed' \in {mailed, out}
        /\ \E result \in {"pending", "failed"} : job' = [job EXCEPT ![j].result = result]
  /\ GoTo(j, "confirm")
  /\ MarkOverlap(j)
  /\ UNCHANGED <<timeVars, prefs, outbox, run, recorded>>

(* The delivery row gets the result; that it does not is not looked at.     *)
UpdateDelivery(j) ==
  /\ pc[j] = "confirm"
  /\ \/ /\ recorded' = [recorded EXCEPT ![job[j].period] = (job[j].result = "sent")]
        /\ UNCHANGED faults
     \/ Disturb("store") /\ UNCHANGED recorded
  /\ GoTo(j, "close")
  /\ MarkOverlap(j)
  /\ UNCHANGED <<timeVars, prefs, outbox, run, mailed, job>>

Close(j) ==
  LET sent == job[j].result = "sent" IN
  /\ pc[j] = "close"
  /\ CloseRow(job[j].period, IF sent THEN "delivered" ELSE job[j].result)
  /\ IF sent THEN GoTo(j, "mark") /\ UNCHANGED job ELSE NextRow(j)
  /\ MarkOverlap(j)
  /\ UNCHANGED <<timeVars, prefs, run, mailed, recorded>>

(* The run row is found by the outbox row it names.                         *)
Linked(p) == run[p] /= Nothing /\ run[p].linked

MarkSent(j) ==
  LET p == job[j].period IN
  /\ pc[j] = "mark"
  /\ \/ /\ run' = IF Linked(p) THEN [run EXCEPT ![p].status = "sent"] ELSE run
        /\ UNCHANGED faults
     \/ Disturb("store") /\ UNCHANGED run
  /\ NextRow(j)
  /\ MarkOverlap(j)
  /\ UNCHANGED <<timeVars, prefs, outbox, mailed, recorded>>

Delivering(j) == pc[j] \in {"resolve", "drop", "ensure", "send", "confirm", "close"}

Held(p) == \E j \in Jobs : Delivering(j) /\ job[j].period = p

(* The lock of a job that died expires.                                     *)
ReleaseStale(p) ==
  /\ outbox[p] /= Nothing
  /\ outbox[p].status = "processing"
  /\ ~Held(p)
  /\ outbox' = [outbox EXCEPT ![p].status = "pending"]
  /\ UNCHANGED <<timeVars, prefs, run, mailed, recorded, pc, job, overlap, faults>>

-----------------------------------------------------------------------------
(* The surroundings.                                                        *)

Crash(j) ==
  /\ pc[j] /= "idle"
  /\ Disturb("crash")
  /\ GoTo(j, "idle")
  /\ job' = [job EXCEPT ![j] = NoJob]
  /\ UNCHANGED <<timeVars, prefs, outbox, run, mailed, recorded, overlap>>

(* An event is observed, for the first time or again.                       *)
Observe(e) ==
  /\ lastSeen' = [lastSeen EXCEPT ![e] = now]
  /\ UNCHANGED <<now, prefs, outbox, run, mailed, recorded, pc, job, unserved, started, overlap, faults>>

Switch ==
  /\ Disturb("switch")
  /\ \E on, empty \in BOOLEAN : prefs' = [prefs EXCEPT !.enabled = on, !.sendEmpty = empty]
  /\ UNCHANGED <<timeVars, outbox, run, mailed, recorded, pc, job, overlap>>

Reschedule ==
  /\ Disturb("reschedule")
  /\ \E at \in 0 .. Week - 1 : prefs' = [prefs EXCEPT !.at = at]
  /\ UNCHANGED <<timeVars, outbox, run, mailed, recorded, pc, job, overlap>>

Tick ==
  /\ now < MaxHour
  /\ now' = now + 1
  /\ started' = FALSE
  /\ unserved' = IF started THEN unserved ELSE unserved \cup {now}
  /\ UNCHANGED <<prefs, lastSeen, outbox, run, mailed, recorded, pc, job, overlap, faults>>

Continue(j) ==
  \/ ReadPrefs(j) \/ BuildDigestContent(j) \/ LookForRun(j) \/ Suppress(j) \/ Gate(j)
  \/ Enqueue(j) \/ RecordRun(j) \/ StorePayload(j)
  \/ \E p \in Hours : Claim(j, p)
  \/ NothingToClaim(j) \/ Resolve(j) \/ CloseSuppressed(j)
  \/ EnsureDelivery(j) \/ Send(j) \/ UpdateDelivery(j) \/ Close(j) \/ MarkSent(j)

Next ==
  \/ \E j \in Jobs : StartJob(j) \/ Continue(j) \/ Crash(j)
  \/ \E p \in Hours : ReleaseStale(p)
  \/ \E e \in Events : Observe(e)
  \/ Switch
  \/ Reschedule
  \/ Tick

Spec == Init /\ [][Next]_vars

(* A job that runs goes on, and the dispatcher is started again and again.  *)
(* Nothing says that a job is started within a given hour.                  *)
Fairness ==
  /\ \A j \in Jobs : WF_vars(Continue(j))
  /\ \A j \in Dispatchers : WF_vars(StartJob(j))

FairSpec == Spec /\ Fairness

-----------------------------------------------------------------------------
(* Properties.                                                              *)

(* Every variable keeps its type; in particular periods end at hours that   *)
(* have begun.                                                              *)
TypeOK ==
  /\ now \in Hours
  /\ prefs \in [enabled : BOOLEAN, sendEmpty : BOOLEAN, at : 0 .. Week - 1]
  /\ lastSeen \in [Events -> Hours \cup {Nothing}]
  /\ outbox \in [Hours -> Rows \cup {Nothing}]
  /\ run \in [Hours -> RunRows \cup {Nothing}]
  /\ \A p \in Hours : mailed[p] \subseteq Payloads
  /\ recorded \in [Hours -> BOOLEAN]
  /\ pc \in [Jobs -> {"idle", "prefs", "content", "look", "suppress", "gate", "enqueue",
                      "record", "payload", "claim", "resolve", "drop", "ensure", "send",
                      "confirm", "close", "mark"}]
  /\ \A j \in Jobs : job[j].now <= now /\ job[j].period \in 0 .. now \cup {Nothing}
  /\ unserved \subseteq 0 .. now
  /\ faults \subseteq Faults

Reported(p) == UNION {c \in mailed[p] : c /= Bare}

(* Digests do not repeat themselves: an observation is reported in at most  *)
(* one of them, as long as the day and hour of the digest are not changed.  *)
ObservationReportedOnce ==
  faults \cap {"reschedule", "store"} = {} =>
    \A p, q \in Hours : p /= q => Reported(p) \cap Reported(q) = {}

StillWriting(p) ==
  \E j \in Jobs : pc[j] \in {"record", "payload"} /\ job[j].created /\ job[j].period = p

(* The content of a digest that was queued follows, whoever else evaluates  *)
(* the same period meanwhile, unless the job dies or a write fails; and a   *)
(* digest goes out without content only if jobs ran side by side.           *)
ContentFollows ==
  faults \cap {"crash", "store"} = {} =>
    \A p \in Hours :
      /\ outbox[p] /= Nothing /\ outbox[p].payload = Bare => StillWriting(p)
      /\ Bare \in mailed[p] => overlap

Resting == \A j \in Jobs : pc[j] = "idle"

(* If jobs did not overlap and nothing else got in their way, the run rows  *)
(* tell what happened: a period has a digest in the outbox exactly if its   *)
(* run is queued or sent, and sent exactly if it was delivered.             *)
RunTellsTheTruth ==
  Resting /\ ~overlap /\ faults \subseteq {"send", "reschedule"} =>
    \A p \in Hours :
      /\ outbox[p] /= Nothing <=> run[p] /= Nothing /\ run[p].status \in {"queued", "sent"}
      /\ outbox[p] /= Nothing =>
           (outbox[p].status = "delivered" <=> run[p].status = "sent")

(* An event that is in the period when the hour of the digest begins, and   *)
(* is not observed again before, leads to a digest, unless no job is        *)
(* started within the hour or something gets in the way.                    *)
Expected(p, e) ==
  /\ now = p
  /\ prefs.enabled
  /\ p % Week = prefs.at
  /\ lastSeen[e] \in Hours \cap (p - Week .. p - 1)

DigestGoesOut ==
  \A p \in Hours, e \in Events :
    Expected(p, e) ~> (mailed[p] /= {} \/ p \in unserved \/ lastSeen[e] \in p .. MaxHour \/ faults /= {})

=============================================================================
