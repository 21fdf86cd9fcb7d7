----------------------------- MODULE DigestProofs -----------------------------
(***************************************************************************)
(* Proofs about Digest, for any number of jobs and events, any length of   *)
(* the week and any bound on time.                                         *)
(***************************************************************************)
EXTENDS Digest, FiniteSetTheorems, TLAPS

-----------------------------------------------------------------------------
(* Types                                                                    *)

Writing == {"content", "look", "suppress", "gate", "enqueue", "record", "payload"}
Sending == {"resolve", "drop", "ensure", "send", "confirm", "close"}
Dated == Writing \cup Sending \cup {"mark"}
Labels == {"idle", "prefs", "claim"} \cup Dated

Prefs == [enabled : BOOLEAN, sendEmpty : BOOLEAN, at : 0 .. Week - 1]

JobData == [now : Hours, sendEmpty : BOOLEAN, period : Hours \cup {Nothing},
            content : SUBSET Observations, isEmpty : BOOLEAN, created : BOOLEAN,
            payload : Payloads, result : {"sent", "pending", "failed"}]

(* What a job has read is of the past, the row it works on is there, and    *)
(* only the job that inserted a row thinks so.                              *)
JobOk(time, ob, label, d) ==
  /\ d.now <= time /\ d.period \in 0 .. time \cup {Nothing}
  /\ label \in Dated => d.period \in 0 .. time
  /\ label \in Sending \cup {"payload"} \/ (label = "record" /\ d.created) =>
       ob[d.period] /= Nothing
  /\ d.created => label \in {"record", "payload"}

JobsOk == \A j \in Jobs : JobOk(now, outbox, pc[j], job[j])

OutboxOk ==
  /\ outbox \in [Hours -> Rows \cup {Nothing}]
  /\ \A p \in Hours : outbox[p] /= Nothing => p <= now
RunOk == run \in [Hours -> RunRows \cup {Nothing}]
MailedOk == mailed \in [Hours -> SUBSET Payloads] /\ recorded \in [Hours -> BOOLEAN]
PrefsOk == prefs \in Prefs
FlagsOk == overlap \in BOOLEAN /\ faults \subseteq Faults
TimeOk ==
  /\ now \in Hours /\ lastSeen \in [Events -> Hours \cup {Nothing}] /\ unserved \subseteq 0 .. now

RowsOk == OutboxOk /\ RunOk /\ MailedOk /\ PrefsOk /\ FlagsOk /\ TimeOk

TypeInv ==
  /\ RowsOk /\ JobsOk
  /\ pc \in [Jobs -> Labels] /\ job \in [Jobs -> JobData]

LEMMA Constants ==
  /\ Week \in Nat /\ Week > 0 /\ MaxHour \in Nat
  /\ \A content \in SUBSET Observations : content /= Bare
  /\ \A row \in Rows : row /= Nothing
  /\ \A row \in RunRows : row /= Nothing
  /\ \A p \in Hours : p /= Nothing /\ p \in Nat /\ p \in Int
BY ConstantsAssumption, ValuesAssumption DEF Hours

(* Rows of the outbox are never deleted.                                    *)
Grows == now' >= now /\ \A p \in Hours : outbox[p] /= Nothing => outbox'[p] /= Nothing

Moves(j, label, d) ==
  /\ label \in Labels /\ d \in JobData /\ JobOk(now', outbox', label, d)
  /\ pc' = [pc EXCEPT ![j] = label]
  /\ job' = [job EXCEPT ![j] = d]

LEMMA JobOf ==
  ASSUME TypeInv, NEW j \in Jobs
  PROVE  /\ pc[j] \in Labels /\ job[j] \in JobData /\ JobOk(now, outbox, pc[j], job[j])
         /\ pc \in [Jobs -> Labels] /\ job \in [Jobs -> JobData]
BY DEF TypeInv, JobsOk

LEMMA Growing ==
  ASSUME TypeInv, RowsOk', Grows, NEW label, NEW d \in JobData, JobOk(now, outbox, label, d)
  PROVE  JobOk(now', outbox', label, d)
<1>1. now \in Nat /\ now' \in Nat /\ now' <= MaxHour /\ d.now \in Nat
  BY Constants DEF TypeInv, RowsOk, TimeOk, Hours, JobData
<1>2. \A p \in 0 .. now : p \in 0 .. now' /\ p \in Hours
  BY <1>1, Constants DEF Grows, Hours
<1>3. label \in Sending \cup {"payload"} \/ (label = "record" /\ d.created) => label \in Dated
  BY DEF Dated, Writing
<1>. QED
  BY <1>1, <1>2, <1>3 DEF JobOk, Grows

LEMMA Moving ==
  ASSUME TypeInv, NEW j \in Jobs, NEW label, NEW d, Moves(j, label, d), RowsOk', Grows
  PROVE  TypeInv'
<1>1. pc' \in [Jobs -> Labels] /\ job' \in [Jobs -> JobData]
  BY DEF Moves, TypeInv
<1>2. ASSUME NEW k \in Jobs PROVE JobOk(now', outbox', pc'[k], job'[k])
  <2>1. CASE k = j
    BY <2>1 DEF Moves, TypeInv
  <2>2. CASE k /= j
    <3>1. pc'[k] = pc[k] /\ job'[k] = job[k]
      BY <2>2 DEF Moves, TypeInv
    <3>2. JobOk(now', outbox', pc[k], job[k])
      BY JobOf, Growing
    <3>. QED
      BY <3>1, <3>2
  <2>. QED
    BY <2>1, <2>2
<1>. QED
  BY <1>1, <1>2 DEF TypeInv, JobsOk

LEMMA Staying ==
  ASSUME TypeInv, UNCHANGED <<pc, job>>, RowsOk', Grows
  PROVE  TypeInv'
<1>1. ASSUME NEW k \in Jobs PROVE JobOk(now', outbox', pc'[k], job'[k])
  BY JobOf, Growing
<1>. QED
  BY <1>1 DEF TypeInv, JobsOk

LEMMA NoJobOk ==
  /\ NoJob \in JobData
  /\ \A time \in Nat : \A ob : JobOk(time, ob, "idle", NoJob) /\ JobOk(time, ob, "claim", NoJob)
<1>1. NoJob \in JobData
  BY Constants DEF NoJob, JobData, Hours, Payloads
<1>2. NoJob.now = 0 /\ NoJob.period = Nothing /\ NoJob.created = FALSE
  BY DEF NoJob
<1>. QED
  BY <1>1, <1>2 DEF JobOk, Sending, Dated, Writing

LEMMA Resetting ==
  ASSUME TypeInv, NEW j \in Jobs, NEW label \in {"idle", "claim"}, GoTo(j, label),
         job' = [job EXCEPT ![j] = NoJob], RowsOk'
  PROVE  Moves(j, label, NoJob)
<1>1. now' \in Nat
  BY Constants DEF RowsOk, TimeOk
<1>. QED
  BY <1>1, NoJobOk DEF GoTo, Moves, Labels

LEMMA FinishTypes ==
  ASSUME TypeInv, NEW j \in Jobs, FinishScheduling(j), RowsOk', Grows
  PROVE  TypeInv'
BY Resetting, Moving DEF FinishScheduling, AfterScheduling

LEMMA GoingOn ==
  ASSUME TypeInv, NEW j \in Jobs, NEW label \in Labels, GoTo(j, label), UNCHANGED job,
         RowsOk', Grows, JobOk(now', outbox', label, job[j])
  PROVE  TypeInv'
<1>1. Moves(j, label, job[j])
  BY JobOf DEF GoTo, Moves
<1>. QED
  BY <1>1, Moving

LEMMA DisturbTypes ==
  ASSUME NEW kind, TypeInv, UNCHANGED faults \/ Disturb(kind)
  PROVE  faults' \subseteq Faults
BY DEF Disturb, MayFail, TypeInv, RowsOk, FlagsOk

LEMMA DefaultsOk == DefaultPrefs \in Prefs
BY Constants DEF DefaultPrefs, Prefs

LEMMA ReadingTypes ==
  ASSUME TypeInv, NEW read, ReadingPrefs(read)
  PROVE  /\ read \in Prefs /\ PrefsOk' /\ faults' \subseteq Faults
         /\ (UNCHANGED <<prefs, faults>> /\ read = prefs) \/ Disturb("store")
BY DefaultsOk, DisturbTypes DEF ReadingPrefs, TypeInv, RowsOk, PrefsOk

LEMMA OverlapTypes ==
  ASSUME TypeInv, NEW j, MarkOverlap(j) \/ UNCHANGED overlap
  PROVE  overlap' \in BOOLEAN
BY DEF MarkOverlap, TypeInv, RowsOk, FlagsOk

LEMMA TimeKept ==
  ASSUME TypeInv, UNCHANGED timeVars
  PROVE  TimeOk' /\ now' = now /\ now \in Nat
BY Constants DEF TypeInv, RowsOk, TimeOk, timeVars

LEMMA RowsKept ==
  ASSUME TypeInv
  PROVE  /\ UNCHANGED outbox /\ now' = now => OutboxOk' /\ Grows
         /\ UNCHANGED run => RunOk'
         /\ UNCHANGED <<mailed, recorded>> => MailedOk'
         /\ UNCHANGED prefs => PrefsOk'
<1>1. now \in Nat
  BY Constants DEF TypeInv, RowsOk, TimeOk
<1>. QED
  BY <1>1 DEF TypeInv, RowsOk, OutboxOk, RunOk, MailedOk, PrefsOk, Grows

(* A period starts where the hour is: jobs are due in that hour only.       *)
LEMMA DuePeriod ==
  ASSUME NEW p \in Prefs, NEW time \in Nat, IsDue(p, time)
  PROVE  PeriodEnd(time, p.at) = time /\ (time - p.at) % Week = 0 /\ p.enabled
<1>1. p.at \in Int
  BY Constants DEF Prefs
<1>2. (time - p.at) \in Int
  BY <1>1
<1>3. (time - p.at) % Week \in 0 .. Week - 1
  BY <1>2, Constants
<1>. DEFINE m == (time - p.at) % Week
<1>4. PeriodEnd(time, p.at) = time - m
  BY DEF PeriodEnd
<1>. HIDE DEF m
<1>5. m \in Nat /\ time - (time - m) < 1
  BY <1>3, <1>4, Constants DEF m, IsDue, ShouldSendNow
<1>6. m = 0
  BY <1>5
<1>. QED
  BY <1>4, <1>6 DEF m, IsDue

LEMMA SchedulingTypes ==
  ASSUME TypeInv, NEW j \in Jobs,
         \/ StartJob(j) \/ ReadPrefs(j) \/ BuildDigestContent(j) \/ LookForRun(j) \/ Suppress(j)
         \/ Gate(j) \/ Enqueue(j) \/ RecordRun(j) \/ StorePayload(j)
  PROVE  TypeInv'
<1>. DEFINE d == job[j]
<1>0. /\ pc[j] \in Labels /\ d \in JobData /\ JobOk(now, outbox, pc[j], d)
      /\ pc \in [Jobs -> Labels] /\ job \in [Jobs -> JobData] /\ RowsOk
      /\ now \in Nat /\ now \in Hours
  BY JobOf, Constants DEF TypeInv, RowsOk, TimeOk
<1>1. CASE StartJob(j)
  <2>1. RowsOk' /\ Grows
    BY <1>0, <1>1, RowsKept, OverlapTypes DEF StartJob, RowsOk, FlagsOk, TimeOk
  <2>. DEFINE e == [d EXCEPT !.now = now]
  <2>2. e \in JobData /\ e.now = now /\ e.period = d.period /\ e.created = d.created
    BY <1>0 DEF JobData
  <2>. HIDE DEF e
  <2>3. JobOk(now', outbox', "prefs", e)
    BY <1>0, <1>1, <2>2 DEF StartJob, JobOk, Dated, Writing, Sending, Labels
  <2>4. pc' = [pc EXCEPT ![j] = "prefs"] /\ job' = [job EXCEPT ![j] = e]
    BY <1>0, <1>1 DEF StartJob, GoTo, e
  <2>. QED
    BY <2>1, <2>2, <2>3, <2>4, Moving DEF Moves, Labels
<1>2. CASE ReadPrefs(j)
  <2>1. PICK read \in {prefs, DefaultPrefs} :
          /\ ReadingPrefs(read)
          /\ IF IsDue(read, d.now)
             THEN /\ GoTo(j, "content")
                  /\ job' = [job EXCEPT ![j].sendEmpty = read.sendEmpty,
                                        ![j].period = PeriodEnd(d.now, read.at)]
             ELSE FinishScheduling(j)
    BY <1>2 DEF ReadPrefs
  <2>2. read \in Prefs /\ RowsOk' /\ Grows /\ now' = now /\ UNCHANGED outbox
    BY <1>0, <1>2, <2>1, ReadingTypes, RowsKept, OverlapTypes, TimeKept DEF ReadPrefs, RowsOk, FlagsOk
  <2>3. CASE IsDue(read, d.now)
    <3>. DEFINE e == [d EXCEPT !.sendEmpty = read.sendEmpty, !.period = PeriodEnd(d.now, read.at)]
    <3>1. d.now \in 0 .. now /\ d.now \in Hours /\ read.sendEmpty \in BOOLEAN
      BY <1>0, <2>2 DEF JobOk, JobData, Prefs, Hours
    <3>2. PeriodEnd(d.now, read.at) = d.now
      BY <2>2, <2>3, <3>1, DuePeriod
    <3>3. e \in JobData /\ e.period = d.now /\ e.now = d.now /\ e.created = d.created
      BY <1>0, <3>1, <3>2 DEF JobData
    <3>4. pc' = [pc EXCEPT ![j] = "content"] /\ job' = [job EXCEPT ![j] = e]
      BY <1>0, <2>1, <2>3 DEF GoTo
    <3>. HIDE DEF e
    <3>5. JobOk(now', outbox', "content", e)
      BY <1>0, <1>2, <2>2, <3>1, <3>3 DEF ReadPrefs, JobOk, Sending
    <3>. QED
      BY <2>2, <3>3, <3>4, <3>5, Moving DEF Moves, Labels, Dated, Writing
  <2>4. CASE FinishScheduling(j)
    BY <2>2, <2>4, FinishTypes
  <2>. QED
    BY <2>1, <2>3, <2>4
<1>3. CASE BuildDigestContent(j)
  <2>1. RowsOk' /\ Grows /\ now' = now /\ UNCHANGED outbox
    BY <1>0, <1>3, DisturbTypes, RowsKept, OverlapTypes, TimeKept
       DEF BuildDigestContent, RowsOk, FlagsOk
  <2>2. ContentOf(d.period) \subseteq Observations
    BY <1>0 DEF ContentOf, Observations, RowsOk, TimeOk
  <2>3. PICK content \in SUBSET Observations, issues \in BOOLEAN : HasContent(j, content, issues)
    BY <1>3, <2>2 DEF BuildDigestContent
  <2>. DEFINE e == [d EXCEPT !.content = content, !.isEmpty = (content = {} /\ ~issues)]
  <2>4. e \in JobData /\ e.period = d.period /\ e.now = d.now /\ e.created = d.created
    BY <1>0 DEF JobData
  <2>5. pc' = [pc EXCEPT ![j] = "look"] /\ job' = [job EXCEPT ![j] = e] /\ pc[j] = "content"
    BY <1>0, <1>3, <2>3 DEF BuildDigestContent, HasContent, GoTo
  <2>. HIDE DEF e
  <2>6. JobOk(now', outbox', "look", e)
    BY <1>0, <2>1, <2>4, <2>5 DEF JobOk, Sending, Dated, Writing
  <2>. QED
    BY <2>1, <2>4, <2>5, <2>6, Moving DEF Moves, Labels, Dated, Writing
<1>4. CASE LookForRun(j)
  <2>1. RowsOk' /\ Grows /\ now' = now /\ UNCHANGED outbox
    BY <1>0, <1>4, DisturbTypes, RowsKept, OverlapTypes, TimeKept DEF LookForRun, RowsOk, FlagsOk
  <2>2. CASE FinishScheduling(j)
    BY <2>1, <2>2, FinishTypes
  <2>3. ASSUME NEW label \in {"suppress", "gate"}, GoTo(j, label), UNCHANGED job, pc[j] = "look"
        PROVE  TypeInv'
    <3>1. JobOk(now', outbox', label, d)
      BY <1>0, <2>1, <2>3 DEF JobOk, Sending, Dated, Writing
    <3>. QED
      BY <2>1, <2>3, <3>1, GoingOn DEF Labels, Dated, Writing
  <2>. QED
    BY <1>4, <2>2, <2>3 DEF LookForRun
<1>5. ASSUME NEW p \in Hours, NEW row \in RunRows, InsertRun(p, row)
      PROVE  RunOk' /\ faults' \subseteq Faults
  BY <1>0, <1>5, DisturbTypes DEF InsertRun, RunOk, RowsOk
<1>6. CASE Suppress(j)
  <2>1. d.period \in Hours /\ [status |-> "suppressed", linked |-> FALSE] \in RunRows
    BY <1>0, <1>6, Constants DEF Suppress, JobOk, Dated, Writing, Hours, RunRows
  <2>2. RunOk' /\ faults' \subseteq Faults
    BY <1>5, <1>6, <2>1 DEF Suppress
  <2>3. RowsOk' /\ Grows
    BY <1>0, <1>6, <2>2, RowsKept, OverlapTypes, TimeKept DEF Suppress, RowsOk, FlagsOk
  <2>. QED
    BY <1>6, <2>3, FinishTypes DEF Suppress
<1>7. CASE Gate(j)
  <2>1. RowsOk' /\ Grows /\ now' = now /\ UNCHANGED outbox
    BY <1>0, <1>7, ReadingTypes, RowsKept, OverlapTypes, TimeKept DEF Gate, RowsOk, FlagsOk
  <2>2. PICK label \in {"enqueue", "record"} : GoTo(j, label)
    BY <1>7 DEF Gate
  <2>3. JobOk(now', outbox', label, d)
    BY <1>0, <1>7, <2>1 DEF Gate, JobOk, Sending, Dated, Writing
  <2>. QED
    BY <1>7, <2>1, <2>2, <2>3, GoingOn DEF Gate, Labels, Dated, Writing
<1>8. CASE Enqueue(j)
  <2>. DEFINE p == d.period
              row == [status |-> "pending", payload |-> Bare]
  <2>1. p \in Hours /\ p \in 0 .. now /\ ~d.created
    BY <1>0, <1>8, Constants DEF Enqueue, JobOk, Dated, Writing, Hours, RowsOk, TimeOk
  <2>2. row \in Rows /\ row /= Nothing
    BY Constants DEF Rows, Payloads
  <2>. HIDE DEF row
  <2>3. UNCHANGED <<timeVars, prefs, run, mailed, recorded>> /\ faults' \subseteq Faults
        /\ GoTo(j, "record") /\ MarkOverlap(j)
    BY <1>8, DisturbTypes DEF Enqueue
  <2>4. CASE /\ outbox' = [outbox EXCEPT ![p] = row]
             /\ job' = [job EXCEPT ![j].created = TRUE]
    <3>1. OutboxOk' /\ Grows
      BY <1>0, <2>1, <2>2, <2>3, <2>4, TimeKept DEF RowsOk, OutboxOk, Grows
    <3>2. RowsOk'
      BY <1>0, <2>3, <3>1, RowsKept, OverlapTypes, TimeKept DEF RowsOk, FlagsOk
    <3>. DEFINE e == [d EXCEPT !.created = TRUE]
    <3>3. e \in JobData /\ e.period = p /\ e.now = d.now
      BY <1>0 DEF JobData
    <3>4. pc' = [pc EXCEPT ![j] = "record"] /\ job' = [job EXCEPT ![j] = e]
      BY <1>0, <2>3, <2>4 DEF GoTo
    <3>. HIDE DEF e
    <3>5. outbox'[p] /= Nothing /\ now' = now
      BY <1>0, <2>1, <2>2, <2>3, <2>4, TimeKept DEF RowsOk, OutboxOk
    <3>6. JobOk(now', outbox', "record", e)
      BY <1>0, <2>1, <3>3, <3>5 DEF JobOk
    <3>. QED
      BY <3>1, <3>2, <3>3, <3>4, <3>6, Moving DEF Moves, Labels, Dated, Writing
  <2>5. CASE UNCHANGED <<outbox, job>>
    <3>1. RowsOk' /\ Grows /\ now' = now
      BY <1>0, <2>3, <2>5, RowsKept, OverlapTypes, TimeKept DEF RowsOk, FlagsOk
    <3>2. JobOk(now', outbox', "record", d)
      BY <1>0, <2>1, <2>5, <3>1 DEF JobOk, Sending
    <3>. QED
      BY <2>3, <2>5, <3>1, <3>2, GoingOn DEF Labels, Dated, Writing
  <2>. QED
    BY <1>8, <2>4, <2>5 DEF Enqueue, row
<1>9. CASE RecordRun(j)
  <2>1. d.period \in Hours /\ d.created \in BOOLEAN
    BY <1>0, <1>9, Constants DEF RecordRun, JobOk, Dated, Writing, Hours, JobData, RowsOk, TimeOk
  <2>2. RunRow(d.created) \in RunRows
    BY <2>1 DEF RunRow, RunRows
  <2>3. RunOk' /\ faults' \subseteq Faults
    BY <1>5, <1>9, <2>1, <2>2 DEF RecordRun
  <2>4. RowsOk' /\ Grows /\ now' = now /\ UNCHANGED outbox
    BY <1>0, <1>9, <2>3, RowsKept, OverlapTypes, TimeKept DEF RecordRun, RowsOk, FlagsOk
  <2>5. CASE StoresContent(j) /\ GoTo(j, "payload") /\ UNCHANGED job
    <3>1. JobOk(now', outbox', "payload", d)
      BY <1>0, <1>9, <2>4, <2>5 DEF RecordRun, StoresContent, JobOk, Sending, Dated, Writing
    <3>. QED
      BY <2>4, <2>5, <3>1, GoingOn DEF Labels, Dated, Writing
  <2>6. CASE FinishScheduling(j)
    BY <2>4, <2>6, FinishTypes
  <2>. QED
    BY <1>9, <2>5, <2>6 DEF RecordRun
<1>10. CASE StorePayload(j)
  <2>. DEFINE p == d.period
  <2>1. p \in Hours /\ outbox[p] \in Rows
    BY <1>0, <1>10, Constants DEF StorePayload, JobOk, Dated, Writing, Hours, RowsOk, TimeOk, OutboxOk
  <2>. DEFINE row == [outbox[p] EXCEPT !.payload = d.content]
  <2>2. row \in Rows /\ row /= Nothing
    BY <1>0, <2>1, Constants DEF Rows, Payloads, JobData
  <2>3. outbox' = [outbox EXCEPT ![p] = row] \/ UNCHANGED outbox
    BY <1>10 DEF StorePayload
  <2>. HIDE DEF row
  <2>4. OutboxOk' /\ Grows
    <3>1. /\ outbox' \in [Hours -> Rows \cup {Nothing}]
          /\ \A q \in Hours : outbox'[q] /= Nothing <=> outbox[q] /= Nothing
      BY <1>0, <2>1, <2>2, <2>3, Constants DEF RowsOk, OutboxOk
    <3>. QED
      BY <1>0, <1>10, <3>1, TimeKept DEF StorePayload, RowsOk, OutboxOk, Grows
  <2>5. RowsOk'
    BY <1>0, <1>10, <2>4, DisturbTypes, RowsKept, OverlapTypes, TimeKept
       DEF StorePayload, RowsOk, FlagsOk
  <2>. QED
    BY <1>10, <2>4, <2>5, FinishTypes DEF StorePayload
<1>. QED
  BY <1>1, <1>2, <1>3, <1>4, <1>6, <1>7, <1>8, <1>9, <1>10

(* A job that delivers changes the verdict on the row it holds.             *)
LEMMA Judging ==
  ASSUME TypeInv, NEW p \in Hours, outbox[p] /= Nothing, UNCHANGED timeVars,
         NEW verdict \in {"pending", "processing", "delivered", "suppressed", "failed"},
         outbox' = [outbox EXCEPT ![p].status = verdict]
  PROVE  /\ OutboxOk' /\ Grows
         /\ \A q \in Hours \ {p} : outbox'[q] = outbox[q]
         /\ outbox'[p].status = verdict /\ outbox'[p].payload = outbox[p].payload
         /\ outbox'[p] /= Nothing
<1>. DEFINE row == [outbox[p] EXCEPT !.status = verdict]
<1>1. outbox \in [Hours -> Rows \cup {Nothing}] /\ outbox[p] \in Rows
  BY DEF TypeInv, RowsOk, OutboxOk
<1>2. row \in Rows /\ row.status = verdict /\ row.payload = outbox[p].payload
  BY <1>1 DEF Rows
<1>3. row /= Nothing
  BY <1>2, Constants
<1>4. outbox' = [outbox EXCEPT ![p] = row]
  BY <1>1
<1>. HIDE DEF row
<1>5. /\ outbox' \in [Hours -> Rows \cup {Nothing}] /\ outbox'[p] = row
      /\ \A q \in Hours \ {p} : outbox'[q] = outbox[q]
  BY <1>1, <1>2, <1>4
<1>6. \A q \in Hours : outbox'[q] /= Nothing <=> outbox[q] /= Nothing
  BY <1>3, <1>5
<1>7. \A q \in Hours : outbox[q] /= Nothing => q <= now
  BY DEF TypeInv, RowsOk, OutboxOk
<1>. QED
  BY <1>2, <1>3, <1>5, <1>6, <1>7, TimeKept DEF OutboxOk, Grows

Verdicts == {"pending", "processing", "delivered", "suppressed", "failed"}

(* A verdict is written, or lost.                                           *)
LEMMA Closing ==
  ASSUME TypeInv, NEW p \in Hours, outbox[p] /= Nothing, UNCHANGED timeVars,
         NEW verdict \in Verdicts, CloseRow(p, verdict)
  PROVE  /\ OutboxOk' /\ Grows /\ faults' \subseteq Faults
         /\ \A q \in Hours :
              \/ outbox'[q] = outbox[q]
              \/ q = p /\ outbox'[q] /= Nothing /\ outbox'[q].status = verdict
<1>1. faults' \subseteq Faults
  BY DisturbTypes DEF CloseRow
<1>2. CASE outbox' = [outbox EXCEPT ![p].status = verdict]
  BY <1>1, <1>2, Judging DEF Verdicts
<1>3. CASE UNCHANGED outbox
  BY <1>1, <1>3, RowsKept, TimeKept
<1>. QED
  BY <1>2, <1>3 DEF CloseRow

LEMMA SendIs ==
  ASSUME TypeInv, NEW p \in Hours, NEW c \in Payloads,
         mailed' \in {mailed, [mailed EXCEPT ![p] = @ \cup {c}]}
  PROVE  /\ mailed' \in [Hours -> SUBSET Payloads]
         /\ \A q \in Hours : mailed'[q] = mailed[q] \/ (q = p /\ mailed'[q] = mailed[q] \cup {c})
<1>1. mailed \in [Hours -> SUBSET Payloads]
  BY DEF TypeInv, RowsOk, MailedOk
<1>2. CASE mailed' = [mailed EXCEPT ![p] = mailed[p] \cup {c}]
  BY <1>1, <1>2
<1>. QED
  BY <1>1, <1>2

LEMMA DeliveryTypes ==
  ASSUME TypeInv, NEW j \in Jobs,
         \/ \E p \in Hours : Claim(j, p)
         \/ NothingToClaim(j) \/ Resolve(j) \/ CloseSuppressed(j) \/ EnsureDelivery(j) \/ Send(j)
         \/ UpdateDelivery(j) \/ Close(j) \/ MarkSent(j) \/ Crash(j)
  PROVE  TypeInv'
<1>. DEFINE d == job[j]
<1>0. /\ pc[j] \in Labels /\ d \in JobData /\ JobOk(now, outbox, pc[j], d)
      /\ pc \in [Jobs -> Labels] /\ job \in [Jobs -> JobData] /\ RowsOk
      /\ now \in Nat /\ now \in Hours /\ outbox \in [Hours -> Rows \cup {Nothing}]
  BY JobOf, Constants DEF TypeInv, RowsOk, TimeOk, OutboxOk
<1>1. ASSUME NEW p \in Hours, Claim(j, p) PROVE TypeInv'
  <2>1. outbox[p] /= Nothing /\ p \in 0 .. now /\ outbox[p].payload \in Payloads /\ ~d.created
    <3>1. outbox[p] /= Nothing /\ outbox[p] \in Rows /\ pc[j] = "claim"
      BY <1>0, <1>1 DEF Claim
    <3>2. p \in Nat /\ p <= now
      BY <1>0, <3>1, Constants DEF RowsOk, OutboxOk
    <3>. QED
      BY <1>0, <3>1, <3>2 DEF Rows, JobOk
  <2>2. /\ OutboxOk' /\ Grows /\ outbox'[p] /= Nothing
    BY <1>1, <2>1, Judging DEF Claim
  <2>3. RowsOk' /\ now' = now
    BY <1>0, <1>1, <2>2, RowsKept, OverlapTypes, TimeKept DEF Claim, RowsOk, FlagsOk
  <2>. DEFINE e == [d EXCEPT !.period = p, !.payload = outbox[p].payload]
  <2>4. e \in JobData /\ e.period = p /\ e.now = d.now /\ e.created = d.created
    BY <1>0, <2>1 DEF JobData
  <2>5. pc' = [pc EXCEPT ![j] = "resolve"] /\ job' = [job EXCEPT ![j] = e]
    BY <1>0, <1>1 DEF Claim, GoTo
  <2>. HIDE DEF e
  <2>6. JobOk(now', outbox', "resolve", e)
    BY <1>0, <2>1, <2>2, <2>3, <2>4 DEF JobOk
  <2>. QED
    BY <2>2, <2>3, <2>4, <2>5, <2>6, Moving DEF Moves, Labels, Dated, Sending
<1>2. CASE NothingToClaim(j)
  <2>1. RowsOk' /\ Grows /\ now' = now /\ UNCHANGED outbox
    BY <1>0, <1>2, RowsKept, TimeKept DEF NothingToClaim, RowsOk, FlagsOk
  <2>2. JobOk(now', outbox', "idle", d)
    BY <1>0, <1>2, <2>1 DEF NothingToClaim, JobOk, Sending, Dated, Writing
  <2>. QED
    BY <1>2, <2>1, <2>2, GoingOn DEF NothingToClaim, Labels
<1>3. CASE Resolve(j)
  <2>1. RowsOk' /\ Grows /\ now' = now /\ UNCHANGED outbox
    BY <1>0, <1>3, ReadingTypes, RowsKept, OverlapTypes, TimeKept DEF Resolve, RowsOk, FlagsOk
  <2>2. PICK label \in {"ensure", "drop"} : GoTo(j, label)
    BY <1>3 DEF Resolve
  <2>3. JobOk(now', outbox', label, d)
    BY <1>0, <1>3, <2>1 DEF Resolve, JobOk, Sending, Dated, Writing
  <2>. QED
    BY <1>3, <2>1, <2>2, <2>3, GoingOn DEF Resolve, Labels, Dated, Sending
<1>4. pc[j] \in Sending => d.period \in Hours /\ outbox[d.period] /= Nothing
  BY <1>0, Constants DEF JobOk, Dated, Hours
<1>5. CASE CloseSuppressed(j)
  <2>1. OutboxOk' /\ Grows /\ faults' \subseteq Faults
    BY <1>4, <1>5, Closing DEF CloseSuppressed, Sending, Verdicts
  <2>2. RowsOk'
    BY <1>0, <1>5, <2>1, RowsKept, OverlapTypes, TimeKept DEF CloseSuppressed, RowsOk, FlagsOk
  <2>. QED
    BY <1>5, <2>1, <2>2, Resetting, Moving DEF CloseSuppressed, NextRow
<1>6. ASSUME pc[j] \in Sending, NEW label \in Sending, NEW result \in {"sent", "pending", "failed"},
             GoTo(j, label), job' = [job EXCEPT ![j].result = result],
             RowsOk', Grows, now' = now, UNCHANGED outbox
      PROVE  TypeInv'
  <2>. DEFINE e == [d EXCEPT !.result = result]
  <2>1. e \in JobData /\ e.period = d.period /\ e.now = d.now /\ e.created = d.created
    BY <1>0 DEF JobData
  <2>2. pc' = [pc EXCEPT ![j] = label] /\ job' = [job EXCEPT ![j] = e]
    BY <1>0, <1>6 DEF GoTo
  <2>. HIDE DEF e
  <2>3. JobOk(now', outbox', label, e)
    BY <1>0, <1>6, <2>1 DEF JobOk, Sending, Dated, Writing
  <2>. QED
    BY <1>6, <2>1, <2>2, <2>3, Moving DEF Moves, Labels, Dated
<1>7. CASE EnsureDelivery(j)
  <2>0. pc[j] = "ensure" /\ d.period \in Hours /\ outbox[d.period] /= Nothing /\ UNCHANGED timeVars
    BY <1>4, <1>7 DEF EnsureDelivery, Sending
  <2>1. CASE UNCHANGED <<outbox, faults>>
    <3>1. RowsOk' /\ Grows /\ now' = now
      BY <1>0, <1>7, <2>1, RowsKept, OverlapTypes, TimeKept DEF EnsureDelivery, RowsOk, FlagsOk
    <3>2. CASE GoTo(j, "close") /\ job' = [job EXCEPT ![j].result = "sent"]
      BY <1>6, <2>0, <2>1, <3>1, <3>2 DEF Sending
    <3>3. CASE GoTo(j, "send") /\ UNCHANGED job
      <4>1. JobOk(now', outbox', "send", d)
        BY <1>0, <2>0, <2>1, <3>1 DEF JobOk, Sending, Dated, Writing
      <4>. QED
        BY <3>1, <3>3, <4>1, GoingOn DEF Labels, Dated, Sending
    <3>4. CASE /\ Disturb("store") /\ outbox' = [outbox EXCEPT ![d.period].status = "pending"]
               /\ NextRow(j)
      BY <3>1, <3>4, Resetting, Moving DEF NextRow
    <3>. QED
      BY <1>7, <3>2, <3>3, <3>4 DEF EnsureDelivery
  <2>2. CASE /\ Disturb("store") /\ outbox' = [outbox EXCEPT ![d.period].status = "pending"]
             /\ NextRow(j)
    <3>1. OutboxOk' /\ Grows
      BY <2>0, <2>2, Judging
    <3>2. RowsOk'
      BY <1>0, <1>7, <2>2, <3>1, DisturbTypes, RowsKept, OverlapTypes, TimeKept
         DEF EnsureDelivery, RowsOk, FlagsOk
    <3>. QED
      BY <2>2, <3>1, <3>2, Resetting, Moving DEF NextRow
  <2>. QED
    BY <1>7, <2>1, <2>2 DEF EnsureDelivery
<1>10. CASE Send(j)
  <2>0. d.payload \in Payloads /\ d.period \in Hours /\ pc[j] \in Sending
    BY <1>0, <1>4, <1>10 DEF Send, JobData, Sending
  <2>1. mailed' \in [Hours -> SUBSET Payloads] /\ faults' \subseteq Faults
    BY <1>10, <2>0, SendIs, DisturbTypes DEF Send
  <2>2. RowsOk' /\ Grows /\ now' = now /\ UNCHANGED outbox
    BY <1>0, <1>10, <2>1, RowsKept, OverlapTypes, TimeKept DEF Send, RowsOk, FlagsOk, MailedOk
  <2>3. PICK result \in {"sent", "pending", "failed"} : job' = [job EXCEPT ![j].result = result]
    BY <1>10 DEF Send
  <2>. QED
    BY <1>6, <1>10, <2>0, <2>2, <2>3 DEF Send, Sending
<1>11. CASE UpdateDelivery(j)
  <2>0. d.period \in Hours /\ pc[j] = "confirm"
    BY <1>4, <1>11 DEF UpdateDelivery, Sending
  <2>1. recorded' \in [Hours -> BOOLEAN] /\ faults' \subseteq Faults
    BY <1>0, <1>11, <2>0, DisturbTypes DEF UpdateDelivery, RowsOk, MailedOk
  <2>2. RowsOk' /\ Grows /\ now' = now /\ UNCHANGED outbox
    BY <1>0, <1>11, <2>1, RowsKept, OverlapTypes, TimeKept DEF UpdateDelivery, RowsOk, FlagsOk, MailedOk
  <2>3. JobOk(now', outbox', "close", d)
    BY <1>0, <2>0, <2>2 DEF JobOk, Sending, Dated, Writing
  <2>. QED
    BY <1>11, <2>2, <2>3, GoingOn DEF UpdateDelivery, Labels, Dated, Sending
<1>12. CASE Close(j)
  <2>0. d.period \in Hours /\ outbox[d.period] /= Nothing /\ pc[j] = "close" /\ UNCHANGED timeVars
    BY <1>4, <1>12 DEF Close, Sending
  <2>1. OutboxOk' /\ Grows /\ faults' \subseteq Faults
    <3>1. (IF d.result = "sent" THEN "delivered" ELSE d.result) \in Verdicts
      BY <1>0 DEF JobData, Verdicts
    <3>. QED
      BY <1>12, <2>0, <3>1, Closing DEF Close
  <2>2. RowsOk' /\ now' = now
    BY <1>0, <1>12, <2>1, RowsKept, OverlapTypes, TimeKept DEF Close, RowsOk, FlagsOk
  <2>3. CASE GoTo(j, "mark") /\ UNCHANGED job
    <3>1. JobOk(now', outbox', "mark", d)
      BY <1>0, <2>0, <2>2 DEF JobOk, Sending, Dated, Writing
    <3>. QED
      BY <2>1, <2>2, <2>3, <3>1, GoingOn DEF Labels, Dated
  <2>4. CASE NextRow(j)
    BY <2>1, <2>2, <2>4, Resetting, Moving DEF NextRow
  <2>. QED
    BY <1>12, <2>3, <2>4 DEF Close
<1>8. CASE MarkSent(j)
  <2>1. d.period \in Hours /\ run \in [Hours -> RunRows \cup {Nothing}]
    BY <1>0, <1>8, Constants DEF MarkSent, JobOk, Dated, Hours, RowsOk, RunOk
  <2>2. RunOk'
    <3>1. CASE run' = [run EXCEPT ![d.period].status = "sent"] /\ Linked(d.period)
      <4>1. run[d.period] \in RunRows
        BY <2>1, <3>1 DEF Linked
      <4>2. [run[d.period] EXCEPT !.status = "sent"] \in RunRows
        BY <4>1 DEF RunRows
      <4>. QED
        BY <2>1, <3>1, <4>2 DEF RunOk
    <3>2. CASE UNCHANGED run
      BY <2>1, <3>2 DEF RunOk
    <3>. QED
      BY <1>8, <3>1, <3>2 DEF MarkSent
  <2>3. RowsOk' /\ Grows
    BY <1>0, <1>8, <2>2, DisturbTypes, RowsKept, OverlapTypes, TimeKept DEF MarkSent, RowsOk, FlagsOk
  <2>. QED
    BY <1>8, <2>3, Resetting, Moving DEF MarkSent, NextRow
<1>9. CASE Crash(j)
  <2>1. RowsOk' /\ Grows
    BY <1>0, <1>9, DisturbTypes, RowsKept, TimeKept DEF Crash, RowsOk, FlagsOk
  <2>. QED
    BY <1>9, <2>1, Resetting, Moving DEF Crash
<1>. QED
  BY <1>1, <1>2, <1>3, <1>5, <1>7, <1>8, <1>9, <1>10, <1>11, <1>12

LEMMA SurroundingTypes ==
  ASSUME TypeInv,
         \/ \E p \in Hours : ReleaseStale(p)
         \/ \E e \in Events : Observe(e)
         \/ Switch \/ Reschedule \/ Tick
  PROVE  TypeInv'
<1>0. RowsOk /\ now \in Nat /\ now \in Hours
  BY Constants DEF TypeInv, RowsOk, TimeOk
<1>1. ASSUME NEW p \in Hours, ReleaseStale(p) PROVE TypeInv'
  <2>1. OutboxOk' /\ Grows
    BY <1>1, Judging DEF ReleaseStale
  <2>2. RowsOk'
    BY <1>0, <1>1, <2>1, RowsKept, TimeKept DEF ReleaseStale, RowsOk, FlagsOk
  <2>. QED
    BY <1>1, <2>1, <2>2, Staying DEF ReleaseStale
<1>2. ASSUME NEW e \in Events, Observe(e) PROVE TypeInv'
  <2>1. RowsOk' /\ Grows
    BY <1>0, <1>2, RowsKept DEF Observe, RowsOk, FlagsOk, TimeOk
  <2>. QED
    BY <1>2, <2>1, Staying DEF Observe
<1>3. CASE Switch \/ Reschedule
  <2>1. PrefsOk'
    BY <1>0, <1>3 DEF Switch, Reschedule, RowsOk, PrefsOk, Prefs
  <2>2. RowsOk' /\ Grows
    BY <1>0, <1>3, <2>1, DisturbTypes, RowsKept, TimeKept DEF Switch, Reschedule, RowsOk, FlagsOk
  <2>. QED
    BY <1>3, <2>2, Staying DEF Switch, Reschedule
<1>4. CASE Tick
  <2>1. now' \in Hours /\ now' = now + 1 /\ unserved' \subseteq 0 .. now'
    BY <1>0, <1>4, Constants DEF Tick, Hours, RowsOk, TimeOk
  <2>2. OutboxOk' /\ Grows
    BY <1>0, <1>4, <2>1, Constants DEF Tick, RowsOk, OutboxOk, Grows
  <2>3. RowsOk'
    BY <1>0, <1>4, <2>1, <2>2, RowsKept DEF Tick, RowsOk, FlagsOk, TimeOk
  <2>. QED
    BY <1>4, <2>2, <2>3, Staying DEF Tick
<1>. QED
  BY <1>1, <1>2, <1>3, <1>4

LEMMA TypeStep ==
  ASSUME TypeInv, [Next]_vars
  PROVE  TypeInv'
<1>1. ASSUME NEW j \in Jobs, StartJob(j) \/ Continue(j) \/ Crash(j) PROVE TypeInv'
  BY <1>1, SchedulingTypes, DeliveryTypes DEF Continue
<1>2. CASE UNCHANGED vars
  <2>1. RowsOk' /\ Grows
    BY <1>2, RowsKept DEF vars, TypeInv, RowsOk, FlagsOk, TimeOk
  <2>. QED
    BY <1>2, <2>1, Staying DEF vars
<1>. QED
  BY <1>1, <1>2, SurroundingTypes DEF Next

LEMMA TypeInit == Init => TypeInv
<1>. SUFFICES ASSUME Init PROVE TypeInv
  OBVIOUS
<1>1. now = 0 /\ 0 \in Hours
  BY Constants DEF Init, Hours
<1>2. RowsOk
  <2>1. OutboxOk /\ RunOk
    BY DEF Init, OutboxOk, RunOk
  <2>2. MailedOk
    BY DEF Init, MailedOk
  <2>3. PrefsOk
    BY DefaultsOk DEF Init, PrefsOk
  <2>4. FlagsOk /\ TimeOk
    BY <1>1 DEF Init, FlagsOk, TimeOk
  <2>. QED
    BY <2>1, <2>2, <2>3, <2>4 DEF RowsOk
<1>3. pc \in [Jobs -> Labels] /\ job \in [Jobs -> JobData]
  BY NoJobOk DEF Init, Labels
<1>4. \A j \in Jobs : JobOk(now, outbox, pc[j], job[j])
  BY <1>1, NoJobOk DEF Init
<1>. QED
  BY <1>2, <1>3, <1>4 DEF TypeInv, JobsOk

(* Every variable keeps its type; in particular periods end at hours that   *)
(* have begun.                                                              *)
THEOREM TypesAreKept == Spec => []TypeOK
<1>1. ASSUME TypeInv PROVE TypeOK
  <2>1. ASSUME NEW p \in Hours PROVE mailed[p] \subseteq Payloads
    BY <1>1 DEF TypeInv, RowsOk, MailedOk
  <2>2. ASSUME NEW j \in Jobs PROVE job[j].now <= now /\ job[j].period \in 0 .. now \cup {Nothing}
    BY <1>1, JobOf DEF JobOk
  <2>. QED
    BY <1>1, <2>1, <2>2 DEF TypeOK, TypeInv, RowsOk, OutboxOk, RunOk, MailedOk, PrefsOk, Prefs, FlagsOk,
       TimeOk, Labels, Dated, Writing, Sending
<1>. QED
  BY <1>1, TypeInit, TypeStep, PTL DEF Spec

-----------------------------------------------------------------------------
(* A step of one job                                                        *)

Steps(j) == StartJob(j) \/ Continue(j) \/ Crash(j)

Surroundings ==
  \/ \E p \in Hours : ReleaseStale(p)
  \/ \E e \in Events : Observe(e)
  \/ Switch \/ Reschedule \/ Tick

LEMMA NextIs == Next <=> (\E j \in Jobs : Steps(j)) \/ Surroundings
BY DEF Next, Steps, Surroundings

Rest(j) == \A k \in Jobs \ {j} : pc'[k] = pc[k] /\ job'[k] = job[k]

LEMMA OthersRest ==
  ASSUME TypeInv, NEW j \in Jobs, Steps(j)
  PROVE  Rest(j)
<1>. USE JobOf DEF Rest, GoTo, NextRow
<1>1. CASE StartJob(j) \/ Crash(j)
  BY <1>1 DEF StartJob, Crash
<1>2. ASSUME FinishScheduling(j) PROVE Rest(j)
  BY <1>2 DEF FinishScheduling
<1>3. CASE ReadPrefs(j) \/ BuildDigestContent(j) \/ LookForRun(j)
  BY <1>2, <1>3 DEF ReadPrefs, BuildDigestContent, HasContent, LookForRun
<1>4. CASE Suppress(j) \/ Gate(j) \/ Enqueue(j)
  BY <1>2, <1>4 DEF Suppress, Gate, Enqueue
<1>5. CASE RecordRun(j) \/ StorePayload(j)
  BY <1>2, <1>5 DEF RecordRun, StorePayload
<1>6. ASSUME NEW p \in Hours, Claim(j, p) PROVE Rest(j)
  BY <1>6 DEF Claim
<1>7. CASE NothingToClaim(j) \/ Resolve(j) \/ CloseSuppressed(j) \/ EnsureDelivery(j)
  BY <1>7 DEF NothingToClaim, Resolve, CloseSuppressed, EnsureDelivery
<1>8. CASE Send(j) \/ UpdateDelivery(j) \/ Close(j) \/ MarkSent(j)
  BY <1>8 DEF Send, UpdateDelivery, Close, MarkSent
<1>. QED
  BY <1>1, <1>3, <1>4, <1>5, <1>6, <1>7, <1>8 DEF Steps, Continue

(* What went wrong is not forgotten.                                        *)
LEMMA FaultsStay ==
  ASSUME [Next]_vars
  PROVE  faults \subseteq faults'
<1>1. ASSUME NEW kind, Disturb(kind) PROVE faults \subseteq faults'
  BY <1>1 DEF Disturb
<1>2. ASSUME NEW read, ReadingPrefs(read) PROVE faults \subseteq faults'
  BY <1>1, <1>2 DEF ReadingPrefs
<1>3. ASSUME NEW p, NEW row, InsertRun(p, row) PROVE faults \subseteq faults'
  BY <1>1, <1>3 DEF InsertRun
<1>4. ASSUME NEW j \in Jobs, Steps(j) PROVE faults \subseteq faults'
  <2>1. CASE StartJob(j) \/ Crash(j) \/ ReadPrefs(j) \/ Gate(j) \/ Resolve(j)
    BY <1>1, <1>2, <2>1 DEF StartJob, Crash, ReadPrefs, Gate, Resolve
  <2>2. CASE Suppress(j) \/ RecordRun(j)
    BY <1>3, <2>2 DEF Suppress, RecordRun
  <2>3. CASE BuildDigestContent(j) \/ LookForRun(j) \/ Enqueue(j) \/ StorePayload(j)
    BY <1>1, <2>3 DEF BuildDigestContent, LookForRun, Enqueue, StorePayload
  <2>4. CASE (\E p \in Hours : Claim(j, p)) \/ NothingToClaim(j) \/ CloseSuppressed(j) \/ Close(j)
    BY <1>1, <2>4 DEF Claim, NothingToClaim, CloseSuppressed, Close, CloseRow
  <2>5. CASE EnsureDelivery(j) \/ Send(j) \/ UpdateDelivery(j) \/ MarkSent(j)
    BY <1>1, <2>5 DEF EnsureDelivery, Send, UpdateDelivery, MarkSent
  <2>. QED
    BY <1>4, <2>1, <2>2, <2>3, <2>4, <2>5 DEF Steps, Continue
<1>5. CASE Surroundings
  BY <1>1, <1>5 DEF Surroundings, ReleaseStale, Observe, Switch, Reschedule, Tick
<1>6. CASE UNCHANGED vars
  BY <1>6 DEF vars
<1>. QED
  BY <1>4, <1>5, <1>6, NextIs

-----------------------------------------------------------------------------
(* Observations are reported once                                           *)

(* The observations of the week that ends at p.                             *)
WeekOf(p) == {<<e, h>> : e \in Events, h \in {x \in Hours : InPeriod(x, p)}}

Fits(c, p) == c = Bare \/ c \subseteq WeekOf(p)

Regular == faults \cap {"reschedule", "store"} = {}

OnDay(p) == p % Week = 0

FitsJob(label, d) ==
  /\ label \in {"look", "suppress", "gate", "enqueue", "record", "payload"} =>
       d.content \subseteq WeekOf(d.period)
  /\ label \in Sending => Fits(d.payload, d.period)

AllFit ==
  /\ \A j \in Jobs : FitsJob(pc[j], job[j])
  /\ \A p \in Hours : outbox[p] /= Nothing => Fits(outbox[p].payload, p)
  /\ \A p \in Hours : \A c \in mailed[p] : Fits(c, p)

(* As long as the settings stay what they were digests are made on one day  *)
(* of the week.                                                             *)
AllOnDay ==
  /\ prefs.at = 0
  /\ \A j \in Jobs : pc[j] \in Dated => OnDay(job[j].period)
  /\ \A p \in Hours : outbox[p] /= Nothing \/ mailed[p] /= {} => OnDay(p)

OnceInv == TypeInv /\ AllFit /\ (Regular => AllOnDay)

LEMMA WeeksApart ==
  ASSUME NEW w \in Nat, w > 0, NEW p \in Int, NEW q \in Int, p % w = 0, q % w = 0, p < q
  PROVE  q - p >= w
<1>. DEFINE a == p \div w
            b == q \div w
<1>1. p = w * a /\ q = w * b /\ a \in Int /\ b \in Int
  OBVIOUS
<1>. HIDE DEF a, b
<1>2. b - a >= 1
  <2>1. CASE b <= a
    <3>1. w * b <= w * a
      BY <1>1, <2>1
    <3>. QED
      BY <1>1, <3>1
  <2>. QED
    BY <1>1, <2>1
<1>3. w * (b - a) >= w
  BY <1>1, <1>2
<1>4. w * (b - a) = q - p
  BY <1>1
<1>. QED
  BY <1>3, <1>4

LEMMA WeeksDisjoint ==
  ASSUME NEW p \in Hours, NEW q \in Hours, OnDay(p), OnDay(q), p /= q
  PROVE  WeekOf(p) \cap WeekOf(q) = {}
<1>1. p \in Int /\ q \in Int /\ Week \in Nat /\ Week > 0
  BY Constants
<1>2. q - p >= Week \/ p - q >= Week
  <2>1. CASE p < q
    BY <1>1, <2>1, WeeksApart DEF OnDay
  <2>2. CASE q < p
    BY <1>1, <2>2, WeeksApart DEF OnDay
  <2>. QED
    BY <1>1, <2>1, <2>2
<1>3. ASSUME NEW h \in Hours, InPeriod(h, p), InPeriod(h, q) PROVE FALSE
  BY <1>1, <1>2, <1>3, Constants DEF InPeriod
<1>. QED
  BY <1>3 DEF WeekOf

LEMMA ContentFits ==
  ASSUME TypeInv, NEW p
  PROVE  ContentOf(p) \subseteq WeekOf(p)
<1>1. \A e \in Events : lastSeen[e] /= Nothing => lastSeen[e] \in Hours
  BY DEF TypeInv, RowsOk, TimeOk
<1>. QED
  BY <1>1 DEF ContentOf, WeekOf

(* Where a step leads, with what.                                           *)
LEMMA Landing ==
  ASSUME TypeInv, NEW j \in Jobs, Steps(j)
  PROVE  \/ pc'[j] \in {"idle", "claim", "prefs"}
         \/ ReadPrefs(j) /\ pc'[j] = "content"
         \/ BuildDigestContent(j) /\ pc[j] = "content" /\ pc'[j] = "look"
            /\ job'[j].period = job[j].period
            /\ (job'[j].content = ContentOf(job[j].period) \/ job'[j].content = {})
         \/ (\E p \in Hours : Claim(j, p)) /\ pc'[j] = "resolve"
         \/ Enqueue(j) /\ pc[j] = "enqueue" /\ pc'[j] = "record"
            /\ job'[j].period = job[j].period /\ job'[j].content = job[j].content
         \/ job'[j] = job[j] /\ pc[j] = "look" /\ pc'[j] \in {"suppress", "gate"}
         \/ job'[j] = job[j] /\ pc[j] = "gate" /\ pc'[j] \in {"enqueue", "record"}
         \/ job'[j] = job[j] /\ pc[j] = "record" /\ pc'[j] = "payload" /\ StoresContent(j)
         \/ /\ job'[j].period = job[j].period /\ job'[j].payload = job[j].payload
            /\ \/ pc[j] = "resolve" /\ pc'[j] \in {"ensure", "drop"}
               \/ pc[j] = "ensure" /\ pc'[j] \in {"send", "close"}
               \/ pc[j] = "send" /\ pc'[j] = "confirm"
               \/ pc[j] = "confirm" /\ pc'[j] = "close"
               \/ pc[j] = "close" /\ pc'[j] = "mark"
<1>0. job[j] \in JobData /\ pc \in [Jobs -> Labels] /\ job \in [Jobs -> JobData]
  BY JobOf
<1>. USE DEF GoTo
<1>1. ASSUME FinishScheduling(j) PROVE pc'[j] \in {"idle", "claim", "prefs"}
  BY <1>0, <1>1 DEF FinishScheduling, AfterScheduling
<1>2. CASE StartJob(j) \/ Suppress(j) \/ StorePayload(j) \/ Crash(j)
  BY <1>0, <1>1, <1>2 DEF StartJob, Suppress, StorePayload, Crash
<1>3. CASE ReadPrefs(j)
  BY <1>0, <1>1, <1>3 DEF ReadPrefs
<1>4. CASE BuildDigestContent(j)
  <2>1. PICK content \in {ContentOf(job[j].period), {}}, issues \in BOOLEAN : HasContent(j, content, issues)
    BY <1>4 DEF BuildDigestContent
  <2>2. job' = [job EXCEPT ![j] = [job[j] EXCEPT !.content = content,
                                                 !.isEmpty = (content = {} /\ ~issues)]]
    BY <1>0, <2>1 DEF HasContent
  <2>3. job'[j].period = job[j].period /\ job'[j].content = content
    BY <1>0, <2>2 DEF JobData
  <2>. QED
    BY <1>0, <1>4, <2>1, <2>3 DEF BuildDigestContent
<1>5. CASE LookForRun(j)
  BY <1>0, <1>1, <1>5 DEF LookForRun
<1>6. CASE Gate(j) \/ RecordRun(j)
  BY <1>0, <1>1, <1>6 DEF Gate, RecordRun
<1>7. CASE Enqueue(j)
  <2>1. job' = [job EXCEPT ![j].created = TRUE] \/ job' = job
    BY <1>7 DEF Enqueue
  <2>2. job'[j].period = job[j].period /\ job'[j].content = job[j].content
    BY <1>0, <2>1 DEF JobData
  <2>. QED
    BY <1>0, <1>7, <2>2 DEF Enqueue
<1>8. ASSUME NEW p \in Hours, Claim(j, p) PROVE pc'[j] = "resolve"
  BY <1>0, <1>8 DEF Claim
<1>9. CASE NothingToClaim(j) \/ Resolve(j) \/ CloseSuppressed(j) \/ MarkSent(j)
  BY <1>0, <1>9 DEF NothingToClaim, Resolve, CloseSuppressed, NextRow, MarkSent
<1>10. ASSUME UNCHANGED job \/ \E result : job' = [job EXCEPT ![j].result = result]
       PROVE  job'[j].period = job[j].period /\ job'[j].payload = job[j].payload
  BY <1>0, <1>10 DEF JobData
<1>11. CASE EnsureDelivery(j)
  BY <1>0, <1>10, <1>11 DEF EnsureDelivery, NextRow
<1>12. CASE Send(j)
  <2>1. \E result : job' = [job EXCEPT ![j].result = result]
    BY <1>12 DEF Send
  <2>. QED
    BY <1>0, <1>10, <1>12, <2>1 DEF Send
<1>13. CASE UpdateDelivery(j) \/ Close(j)
  BY <1>0, <1>10, <1>13 DEF UpdateDelivery, Close, NextRow
<1>. QED
  BY <1>2, <1>3, <1>4, <1>5, <1>6, <1>7, <1>8, <1>9, <1>11, <1>12, <1>13 DEF Steps, Continue

(* What a step does to the rows of the outbox and to the mail.              *)
LEMMA RowsOf ==
  ASSUME TypeInv, NEW j \in Jobs, Steps(j)
  PROVE  LET d == job[j] IN
         \/ UNCHANGED <<outbox, mailed>>
         \/ /\ Enqueue(j) /\ pc[j] = "enqueue" /\ UNCHANGED mailed
            /\ d.period \in Hours /\ outbox[d.period] = Nothing
            /\ outbox' = [outbox EXCEPT ![d.period] = [status |-> "pending", payload |-> Bare]]
            /\ job' = [job EXCEPT ![j].created = TRUE]
         \/ /\ StorePayload(j) /\ pc[j] = "payload" /\ UNCHANGED mailed
            /\ d.period \in Hours /\ outbox[d.period] /= Nothing
            /\ outbox' = [outbox EXCEPT ![d.period].payload = d.content]
         \/ /\ UNCHANGED mailed
            /\ \E p \in Hours, verdict \in {"pending", "processing", "delivered", "suppressed", "failed"} :
                 /\ outbox[p] /= Nothing
                 /\ outbox' = [outbox EXCEPT ![p].status = verdict]
                 /\ UNCHANGED timeVars
         \/ /\ Send(j) /\ pc[j] = "send" /\ UNCHANGED outbox
            /\ d.period \in Hours /\ d.payload \in Payloads
            /\ mailed' \in {mailed, [mailed EXCEPT ![d.period] = @ \cup {d.payload}]}
<1>0. job[j] \in JobData /\ JobOk(now, outbox, pc[j], job[j])
  BY JobOf
<1>1. pc[j] \in Dated => job[j].period \in Hours
  BY <1>0, Constants DEF JobOk, JobData, TypeInv, RowsOk, TimeOk, Hours
<1>2. CASE StartJob(j) \/ ReadPrefs(j) \/ BuildDigestContent(j) \/ LookForRun(j) \/ Suppress(j)
           \/ Gate(j) \/ RecordRun(j) \/ NothingToClaim(j) \/ Resolve(j) \/ UpdateDelivery(j)
           \/ MarkSent(j) \/ Crash(j)
  BY <1>2 DEF StartJob, ReadPrefs, BuildDigestContent, LookForRun, Suppress, Gate, RecordRun,
     NothingToClaim, Resolve, UpdateDelivery, MarkSent, Crash
<1>3. CASE Enqueue(j)
  BY <1>1, <1>3 DEF Enqueue, Dated, Writing
<1>4. CASE StorePayload(j)
  BY <1>0, <1>1, <1>4 DEF StorePayload, JobOk, Dated, Writing
<1>5. ASSUME NEW p \in Hours, outbox[p] /= Nothing, UNCHANGED <<timeVars, mailed>>,
             NEW verdict \in {"pending", "processing", "delivered", "suppressed", "failed"},
             outbox' = [outbox EXCEPT ![p].status = verdict]
      PROVE  /\ UNCHANGED mailed
             /\ \E q \in Hours, v \in {"pending", "processing", "delivered", "suppressed", "failed"} :
                  /\ outbox[q] /= Nothing
                  /\ outbox' = [outbox EXCEPT ![q].status = v]
                  /\ UNCHANGED timeVars
  BY <1>5
<1>6. pc[j] \in Sending => job[j].period \in Hours /\ outbox[job[j].period] /= Nothing
  BY <1>0, <1>1 DEF JobOk, Dated
<1>7. ASSUME NEW p \in Hours, Claim(j, p)
      PROVE outbox[p] /= Nothing /\ UNCHANGED <<timeVars, mailed>>
            /\ outbox' = [outbox EXCEPT ![p].status = "processing"]
  BY <1>7 DEF Claim
<1>8. CASE CloseSuppressed(j) \/ EnsureDelivery(j) \/ Close(j)
  <2>1. pc[j] \in Sending /\ UNCHANGED <<timeVars, mailed>>
    BY <1>8 DEF CloseSuppressed, EnsureDelivery, Close, Sending
  <2>2. \/ UNCHANGED outbox
        \/ \E verdict \in {"pending", "processing", "delivered", "suppressed", "failed"} :
             outbox' = [outbox EXCEPT ![job[j].period].status = verdict]
    BY <1>0, <1>8 DEF CloseSuppressed, EnsureDelivery, Close, CloseRow, JobData
  <2>. QED
    BY <1>5, <1>6, <2>1, <2>2
<1>9. CASE Send(j)
  BY <1>0, <1>6, <1>9 DEF Send, Sending, JobData
<1>. QED
  BY <1>2, <1>3, <1>4, <1>5, <1>7, <1>8, <1>9 DEF Steps, Continue

LEMMA PayloadOf ==
  ASSUME TypeInv, NEW j \in Jobs, Steps(j), NEW p \in Hours, outbox'[p] /= Nothing
  PROVE  \/ outbox[p] /= Nothing /\ outbox'[p].payload = outbox[p].payload
         \/ /\ pc[j] = "enqueue" /\ pc'[j] = "record" /\ job'[j].created
            /\ job[j].period = p /\ job'[j].period = p /\ outbox'[p].payload = Bare
         \/ /\ pc[j] = "payload" /\ job[j].period = p /\ outbox[p] /= Nothing
            /\ outbox'[p].payload = job[j].content
<1>. DEFINE d == job[j]
<1>0. /\ outbox \in [Hours -> Rows \cup {Nothing}] /\ job \in [Jobs -> JobData] /\ d \in JobData
      /\ pc \in [Jobs -> Labels]
  BY JobOf DEF TypeInv, RowsOk, OutboxOk
<1>1. CASE UNCHANGED <<outbox, mailed>>
  BY <1>1
<1>2. CASE /\ Enqueue(j) /\ pc[j] = "enqueue" /\ d.period \in Hours
           /\ outbox' = [outbox EXCEPT ![d.period] = [status |-> "pending", payload |-> Bare]]
           /\ job' = [job EXCEPT ![j].created = TRUE]
  <2>1. pc'[j] = "record" /\ job'[j].created /\ job'[j].period = d.period
    BY <1>0, <1>2 DEF Enqueue, GoTo, JobData
  <2>2. CASE p = d.period
    <3>1. outbox'[p] = [status |-> "pending", payload |-> Bare]
      BY <1>0, <1>2, <2>2
    <3>2. outbox'[p].payload = Bare
      BY <3>1
    <3>. QED
      BY <1>2, <2>1, <2>2, <3>2
  <2>3. CASE p /= d.period
    BY <1>0, <1>2, <2>3
  <2>. QED
    BY <2>2, <2>3
<1>3. CASE /\ pc[j] = "payload" /\ d.period \in Hours /\ outbox[d.period] /= Nothing
           /\ outbox' = [outbox EXCEPT ![d.period].payload = d.content]
  <2>1. CASE p = d.period
    <3>1. outbox[p] \in Rows /\ outbox'[p] = [outbox[p] EXCEPT !.payload = d.content]
      BY <1>0, <1>3, <2>1
    <3>2. outbox'[p].payload = d.content
      BY <3>1 DEF Rows
    <3>. QED
      BY <1>3, <2>1, <3>2
  <2>2. CASE p /= d.period
    BY <1>0, <1>3, <2>2
  <2>. QED
    BY <2>1, <2>2
<1>4. ASSUME NEW q \in Hours,
             NEW verdict \in {"pending", "processing", "delivered", "suppressed", "failed"},
             outbox[q] /= Nothing, outbox' = [outbox EXCEPT ![q].status = verdict], UNCHANGED timeVars
      PROVE  outbox[p] /= Nothing /\ outbox'[p].payload = outbox[p].payload
  BY <1>4, Judging
<1>. QED
  BY <1>1, <1>2, <1>3, <1>4, RowsOf

LEMMA MailOf ==
  ASSUME TypeInv, NEW j \in Jobs, Steps(j), NEW p \in Hours
  PROVE  \/ mailed'[p] = mailed[p]
         \/ pc[j] = "send" /\ job[j].period = p /\ mailed'[p] = mailed[p] \cup {job[j].payload}
<1>1. CASE /\ pc[j] = "send" /\ job[j].period \in Hours /\ job[j].payload \in Payloads
           /\ mailed' \in {mailed, [mailed EXCEPT ![job[j].period] = @ \cup {job[j].payload}]}
  BY <1>1, SendIs
<1>. QED
  BY <1>1, RowsOf

(* Surroundings leave jobs, payloads and mail alone.                        *)
LEMMA SurroundingsKeep ==
  ASSUME TypeInv, Surroundings
  PROVE  /\ UNCHANGED <<pc, job, run, mailed, recorded, overlap>>
         /\ \A p \in Hours : /\ outbox'[p] /= Nothing <=> outbox[p] /= Nothing
                             /\ outbox[p] /= Nothing => outbox'[p].payload = outbox[p].payload
<1>1. CASE \E q \in Hours : ReleaseStale(q)
  <2>1. PICK q \in Hours : ReleaseStale(q)
    BY <1>1
  <2>2. UNCHANGED <<pc, job, run, mailed, recorded, overlap>>
    BY <2>1 DEF ReleaseStale
  <2>3. ASSUME NEW p \in Hours
        PROVE  /\ outbox'[p] /= Nothing <=> outbox[p] /= Nothing
               /\ outbox[p] /= Nothing => outbox'[p].payload = outbox[p].payload
    BY <2>1, Judging DEF ReleaseStale
  <2>. QED
    BY <2>2, <2>3
<1>2. CASE (\E e \in Events : Observe(e)) \/ Switch \/ Reschedule \/ Tick
  BY <1>2 DEF Observe, Switch, Reschedule, Tick
<1>. QED
  BY <1>1, <1>2 DEF Surroundings

LEMMA FitStep ==
  ASSUME TypeInv, AllFit, [Next]_vars
  PROVE  AllFit'
<1>1. ASSUME NEW j \in Jobs, Steps(j) PROVE AllFit'
  <2>1. FitsJob(pc[j], job[j])
    BY DEF AllFit
  <2>2. FitsJob(pc'[j], job'[j])
    <3>1. CASE pc'[j] \in {"idle", "claim", "prefs", "content"}
      BY <3>1 DEF FitsJob, Sending
    <3>2. CASE /\ pc'[j] = "look" /\ job'[j].period = job[j].period
               /\ (job'[j].content = ContentOf(job[j].period) \/ job'[j].content = {})
      BY <3>2, ContentFits DEF FitsJob, Sending
    <3>3. ASSUME NEW p \in Hours, Claim(j, p), pc'[j] = "resolve" PROVE FitsJob(pc'[j], job'[j])
      <4>1. job'[j].period = p /\ job'[j].payload = outbox[p].payload /\ outbox[p] /= Nothing
        BY <3>3, JobOf DEF Claim, JobData
      <4>. QED
        BY <3>3, <4>1 DEF AllFit, FitsJob
    <3>4. CASE /\ pc[j] = "enqueue" /\ pc'[j] = "record"
               /\ job'[j].period = job[j].period /\ job'[j].content = job[j].content
      BY <2>1, <3>4 DEF FitsJob, Sending
    <3>5. CASE /\ job'[j] = job[j]
               /\ \/ pc[j] = "look" /\ pc'[j] \in {"suppress", "gate"}
                  \/ pc[j] = "gate" /\ pc'[j] \in {"enqueue", "record"}
                  \/ pc[j] = "record" /\ pc'[j] = "payload"
      BY <2>1, <3>5 DEF FitsJob, Sending
    <3>6. CASE /\ job'[j].period = job[j].period /\ job'[j].payload = job[j].payload
               /\ pc[j] \in Sending /\ pc'[j] \in Sending
      BY <2>1, <3>6 DEF FitsJob, Sending
    <3>7. CASE pc'[j] = "mark"
      BY <3>7 DEF FitsJob, Sending
    <3>. QED
      BY <1>1, <3>1, <3>2, <3>3, <3>4, <3>5, <3>6, <3>7, Landing DEF Sending
  <2>3. ASSUME NEW k \in Jobs PROVE FitsJob(pc'[k], job'[k])
    BY <1>1, <2>2, OthersRest DEF AllFit, Rest
  <2>4. ASSUME NEW p \in Hours, outbox'[p] /= Nothing PROVE Fits(outbox'[p].payload, p)
    BY <1>1, <2>1, <2>4, PayloadOf DEF AllFit, Fits, FitsJob
  <2>5. ASSUME NEW p \in Hours, NEW c \in mailed'[p] PROVE Fits(c, p)
    BY <1>1, <2>1, <2>5, MailOf DEF AllFit, FitsJob, Sending
  <2>. QED
    BY <2>3, <2>4, <2>5 DEF AllFit
<1>2. CASE Surroundings
  BY <1>2, SurroundingsKeep DEF AllFit
<1>3. CASE UNCHANGED vars
  BY <1>3 DEF vars, AllFit
<1>. QED
  BY <1>1, <1>2, <1>3, NextIs

LEMMA DayStep ==
  ASSUME TypeInv, AllOnDay, [Next]_vars, Regular'
  PROVE  AllOnDay'
<1>0. "store" \notin faults' /\ "reschedule" \notin faults'
  BY DEF Regular
<1>1. ~Disturb("store") /\ ~Disturb("reschedule")
  BY <1>0 DEF Disturb
<1>2. ASSUME NEW j \in Jobs, Steps(j) PROVE AllOnDay'
  <2>1. UNCHANGED prefs
    <3>1. ASSUME NEW read, ReadingPrefs(read) PROVE UNCHANGED prefs /\ read = prefs
      BY <1>1, <3>1 DEF ReadingPrefs
    <3>2. CASE ReadPrefs(j) \/ Gate(j) \/ Resolve(j)
      BY <3>1, <3>2 DEF ReadPrefs, Gate, Resolve
    <3>3. CASE StartJob(j) \/ BuildDigestContent(j) \/ LookForRun(j) \/ Suppress(j) \/ Enqueue(j)
               \/ RecordRun(j) \/ StorePayload(j)
      BY <3>3 DEF StartJob, BuildDigestContent, LookForRun, Suppress, Enqueue, RecordRun, StorePayload
    <3>4. CASE (\E p \in Hours : Claim(j, p)) \/ NothingToClaim(j) \/ CloseSuppressed(j) \/ Send(j)
               \/ EnsureDelivery(j) \/ UpdateDelivery(j) \/ Close(j) \/ MarkSent(j) \/ Crash(j)
      BY <3>4 DEF Claim, NothingToClaim, CloseSuppressed, Send, EnsureDelivery, UpdateDelivery, Close,
         MarkSent, Crash
    <3>. QED
      BY <1>2, <3>2, <3>3, <3>4 DEF Steps, Continue
  <2>2. ASSUME ReadPrefs(j), pc'[j] = "content" PROVE OnDay(job'[j].period)
    <3>1. PICK read \in {prefs, DefaultPrefs} :
            /\ ReadingPrefs(read)
            /\ IF IsDue(read, job[j].now)
               THEN /\ GoTo(j, "content")
                    /\ job' = [job EXCEPT ![j].sendEmpty = read.sendEmpty,
                                          ![j].period = PeriodEnd(job[j].now, read.at)]
               ELSE FinishScheduling(j)
      BY <2>2 DEF ReadPrefs
    <3>2. IsDue(read, job[j].now)
      BY <2>2, <3>1, JobOf DEF FinishScheduling, AfterScheduling, GoTo
    <3>3. read = prefs /\ read.at = 0 /\ read \in Prefs
      BY <1>1, <3>1 DEF ReadingPrefs, AllOnDay, TypeInv, RowsOk, PrefsOk
    <3>4. job[j].now \in Nat /\ job[j] \in JobData /\ job \in [Jobs -> JobData]
      BY JobOf, Constants DEF JobData
    <3>5. job'[j].period = PeriodEnd(job[j].now, 0)
      BY <3>1, <3>2, <3>3, <3>4 DEF JobData
    <3>6. PeriodEnd(job[j].now, 0) = job[j].now /\ (job[j].now - 0) % Week = 0
      BY <3>2, <3>3, <3>4, DuePeriod
    <3>7. job[j].now - 0 = job[j].now
      BY <3>4
    <3>. QED
      BY <3>5, <3>6, <3>7 DEF OnDay
  <2>3. ASSUME NEW p \in Hours, Claim(j, p) PROVE OnDay(job'[j].period)
    <3>1. job'[j].period = p /\ outbox[p] /= Nothing
      BY <2>3, JobOf DEF Claim, JobData
    <3>. QED
      BY <3>1 DEF AllOnDay
  <2>4. ASSUME pc[j] \in Dated, job'[j].period = job[j].period PROVE OnDay(job'[j].period)
    BY <2>4 DEF AllOnDay
  <2>5. pc'[j] \in Dated => OnDay(job'[j].period)
    BY <1>2, <2>2, <2>3, <2>4, Landing DEF Dated, Writing, Sending
  <2>6. ASSUME NEW k \in Jobs, pc'[k] \in Dated PROVE OnDay(job'[k].period)
    BY <1>2, <2>5, <2>6, OthersRest DEF AllOnDay, Rest
  <2>7. ASSUME NEW p \in Hours, outbox'[p] /= Nothing PROVE OnDay(p)
    BY <1>2, <2>7, PayloadOf DEF AllOnDay, Dated, Writing
  <2>8. ASSUME NEW p \in Hours, mailed'[p] /= {} PROVE OnDay(p)
    BY <1>2, <2>8, MailOf DEF AllOnDay, Dated, Sending
  <2>. QED
    BY <2>1, <2>6, <2>7, <2>8 DEF AllOnDay
<1>3. CASE Surroundings
  <2>1. prefs'.at = prefs.at
    BY <1>1, <1>3 DEF Surroundings, ReleaseStale, Observe, Switch, Reschedule, Tick, TypeInv, RowsOk,
       PrefsOk, Prefs
  <2>. QED
    BY <1>3, <2>1, SurroundingsKeep DEF AllOnDay
<1>4. CASE UNCHANGED vars
  BY <1>4 DEF vars, AllOnDay
<1>. QED
  BY <1>2, <1>3, <1>4, NextIs

LEMMA OnceStep ==
  ASSUME OnceInv, [Next]_vars
  PROVE  OnceInv'
<1>1. Regular' => Regular
  BY FaultsStay DEF Regular
<1>. QED
  BY <1>1, TypeStep, FitStep, DayStep DEF OnceInv

LEMMA OnceInit == Init => OnceInv
<1>. SUFFICES ASSUME Init PROVE OnceInv
  OBVIOUS
<1>1. AllFit
  BY DEF Init, AllFit, FitsJob, Sending
<1>2. AllOnDay
  BY DEF Init, AllOnDay, Dated, Writing, Sending, DefaultPrefs
<1>. QED
  BY <1>1, <1>2, TypeInit DEF OnceInv

(* Digests do not repeat themselves: an observation is reported in at most  *)
(* one of them, as long as the day and hour of the digest are not changed.  *)
THEOREM ObservationsAreReportedOnce == Spec => []ObservationReportedOnce
<1>1. ASSUME OnceInv PROVE ObservationReportedOnce
  <2>. SUFFICES ASSUME Regular, NEW p \in Hours, NEW q \in Hours, p /= q
                PROVE  Reported(p) \cap Reported(q) = {}
    BY DEF ObservationReportedOnce, Regular
  <2>1. \A h \in Hours : Reported(h) \subseteq WeekOf(h)
    BY <1>1 DEF Reported, OnceInv, AllFit, Fits
  <2>2. \A h \in Hours : ~OnDay(h) => Reported(h) = {}
    BY <1>1 DEF Reported, OnceInv, AllOnDay
  <2>. QED
    BY <2>1, <2>2, WeeksDisjoint
<1>. QED
  BY <1>1, OnceInit, OnceStep, PTL DEF Spec

-----------------------------------------------------------------------------
(* The content follows                                                      *)

Unhurt == faults \cap {"crash", "store"} = {}

Writes(j, p) == pc[j] \in {"record", "payload"} /\ job[j].created /\ job[j].period = p

BareIsWritten == \A p \in Hours :
  outbox[p] /= Nothing /\ outbox[p].payload = Bare => \E j \in Jobs : Writes(j, p)
BareIsOverlap ==
  /\ \A j \in Jobs : pc[j] \in Sending /\ job[j].payload = Bare => overlap
  /\ \A p \in Hours : Bare \in mailed[p] => overlap

FollowInv == TypeInv /\ (Unhurt => BareIsWritten /\ BareIsOverlap)

(* What a job at the statement that stores the run row or the content does  *)
(* next.                                                                    *)
LEMMA AtTheEnd ==
  ASSUME NEW j \in Jobs, Steps(j), pc[j] \in {"record", "payload"}
  PROVE  \/ pc[j] = "record" /\ RecordRun(j)
         \/ pc[j] = "payload" /\ StorePayload(j)
         \/ Crash(j)
<1>1. ~StartJob(j) /\ ~ReadPrefs(j) /\ ~BuildDigestContent(j) /\ ~LookForRun(j) /\ ~Suppress(j)
  BY DEF StartJob, ReadPrefs, BuildDigestContent, LookForRun, Suppress
<1>2. ~Gate(j) /\ ~Enqueue(j) /\ ~NothingToClaim(j) /\ ~Resolve(j) /\ ~CloseSuppressed(j)
  BY DEF Gate, Enqueue, NothingToClaim, Resolve, CloseSuppressed
<1>3. ~EnsureDelivery(j) /\ ~Send(j) /\ ~UpdateDelivery(j) /\ ~Close(j) /\ ~MarkSent(j)
      /\ (\A p \in Hours : ~Claim(j, p))
  BY DEF EnsureDelivery, Send, UpdateDelivery, Close, MarkSent, Claim
<1>4. (RecordRun(j) => pc[j] = "record") /\ (StorePayload(j) => pc[j] = "payload")
  BY DEF RecordRun, StorePayload
<1>. QED
  BY <1>1, <1>2, <1>3, <1>4 DEF Steps, Continue

(* Overlap is not forgotten, and noted by who claims a row.                 *)
LEMMA OverlapStays ==
  ASSUME TypeInv, [Next]_vars
  PROVE  overlap => overlap'
<1>0. ASSUME NEW j, MarkOverlap(j) PROVE overlap => overlap'
  BY <1>0 DEF MarkOverlap
<1>1. ASSUME NEW j \in Jobs, Steps(j) PROVE overlap => overlap'
  <2>1. CASE StartJob(j) \/ ReadPrefs(j) \/ BuildDigestContent(j) \/ LookForRun(j) \/ Suppress(j)
    BY <1>0, <2>1 DEF StartJob, ReadPrefs, BuildDigestContent, LookForRun, Suppress
  <2>2. CASE Gate(j) \/ Enqueue(j) \/ RecordRun(j) \/ StorePayload(j) \/ Resolve(j)
    BY <1>0, <2>2 DEF Gate, Enqueue, RecordRun, StorePayload, Resolve
  <2>3. CASE (\E p \in Hours : Claim(j, p)) \/ CloseSuppressed(j) \/ EnsureDelivery(j) \/ Send(j)
             \/ UpdateDelivery(j) \/ Close(j) \/ MarkSent(j)
    BY <1>0, <2>3 DEF Claim, CloseSuppressed, EnsureDelivery, Send, UpdateDelivery, Close, MarkSent
  <2>4. CASE NothingToClaim(j) \/ Crash(j)
    BY <2>4 DEF NothingToClaim, Crash
  <2>. QED
    BY <1>1, <2>1, <2>2, <2>3, <2>4 DEF Steps, Continue
<1>2. CASE Surroundings
  BY <1>2, SurroundingsKeep
<1>3. CASE UNCHANGED vars
  BY <1>3 DEF vars
<1>. QED
  BY <1>1, <1>2, <1>3, NextIs

LEMMA WritingGoesOn ==
  ASSUME TypeInv, NEW j \in Jobs, Steps(j), Unhurt', NEW p \in Hours, Writes(j, p),
         outbox[p] /= Nothing
  PROVE  \/ pc'[j] \in {"record", "payload"} /\ job'[j].created /\ job'[j].period = p
         \/ outbox'[p].payload /= Bare
<1>1. ~Disturb("crash") /\ ~Disturb("store")
  BY DEF Unhurt, Disturb
<1>2. ~Crash(j)
  BY <1>1 DEF Crash
<1>3. CASE RecordRun(j)
  BY <1>3, JobOf DEF RecordRun, StoresContent, GoTo, Writes
<1>4. CASE StorePayload(j)
  <2>1. outbox' = [outbox EXCEPT ![p].payload = job[j].content]
    BY <1>1, <1>4 DEF StorePayload, Writes
  <2>2. outbox \in [Hours -> Rows \cup {Nothing}] /\ outbox[p] \in Rows
    BY DEF TypeInv, RowsOk, OutboxOk
  <2>3. outbox'[p].payload = job[j].content
    BY <2>1, <2>2 DEF Rows
  <2>4. job[j].content \in SUBSET Observations
    BY JobOf DEF JobData
  <2>. QED
    BY <2>3, <2>4, Constants
<1>. QED
  BY <1>2, <1>3, <1>4, AtTheEnd DEF Writes

LEMMA FollowStep ==
  ASSUME FollowInv, [Next]_vars
  PROVE  FollowInv'
<1>0. TypeInv'
  BY TypeStep DEF FollowInv
<1>. SUFFICES ASSUME TypeInv, BareIsWritten, BareIsOverlap, Unhurt'
              PROVE  BareIsWritten' /\ BareIsOverlap'
  BY <1>0, FaultsStay DEF FollowInv, Unhurt
<1>1. ASSUME NEW j \in Jobs, Steps(j) PROVE BareIsWritten' /\ BareIsOverlap'
  <2>1. overlap => overlap'
    BY OverlapStays
  <2>2. ASSUME NEW p \in Hours, outbox'[p] /= Nothing, outbox'[p].payload = Bare
        PROVE  \E k \in Jobs : /\ pc'[k] \in {"record", "payload"}
                               /\ job'[k].created /\ job'[k].period = p
    <3>1. CASE outbox[p] /= Nothing /\ outbox'[p].payload = outbox[p].payload
      <4>1. PICK k \in Jobs : Writes(k, p)
        BY <2>2, <3>1 DEF BareIsWritten
      <4>2. CASE k = j
        BY <1>1, <2>2, <3>1, <4>1, <4>2, WritingGoesOn
      <4>3. CASE k /= j
        BY <1>1, <4>1, <4>3, OthersRest DEF Rest, Writes
      <4>. QED
        BY <4>2, <4>3
    <3>2. CASE pc'[j] = "record" /\ job'[j].created /\ job'[j].period = p
      BY <3>2
    <3>3. CASE outbox'[p].payload = job[j].content
      <4>1. job[j].content \in SUBSET Observations
        BY JobOf DEF JobData
      <4>. QED
        BY <2>2, <3>3, <4>1, Constants
    <3>. QED
      BY <1>1, <2>2, <3>1, <3>2, <3>3, PayloadOf
  <2>3. ASSUME NEW p \in Hours, Claim(j, p), job'[j].payload = Bare PROVE overlap'
    <3>1. outbox[p] /= Nothing /\ outbox[p].payload = Bare /\ pc[j] = "claim"
      BY <2>3, JobOf DEF Claim, JobData
    <3>2. PICK k \in Jobs : Writes(k, p)
      BY <3>1 DEF BareIsWritten
    <3>3. k /= j /\ Scheduling(k)
      BY <3>1, <3>2 DEF Writes, Scheduling
    <3>. QED
      BY <2>3, <3>3 DEF Claim, MarkOverlap
  <2>4. pc'[j] \in Sending /\ job'[j].payload = Bare => overlap'
    BY <1>1, <2>1, <2>3, Landing DEF Sending, BareIsOverlap
  <2>5. ASSUME NEW k \in Jobs, pc'[k] \in Sending, job'[k].payload = Bare PROVE overlap'
    BY <1>1, <2>1, <2>4, <2>5, OthersRest DEF Rest, BareIsOverlap
  <2>6. ASSUME NEW p \in Hours, Bare \in mailed'[p] PROVE overlap'
    BY <1>1, <2>1, <2>6, MailOf DEF BareIsOverlap, Sending
  <2>. QED
    BY <2>2, <2>5, <2>6 DEF BareIsWritten, BareIsOverlap, Writes
<1>2. CASE Surroundings
  BY <1>2, SurroundingsKeep DEF BareIsWritten, BareIsOverlap, Writes
<1>3. CASE UNCHANGED vars
  BY <1>3 DEF vars, BareIsWritten, BareIsOverlap, Writes
<1>. QED
  BY <1>1, <1>2, <1>3, NextIs

(* The content of a digest that was queued follows, whoever else evaluates  *)
(* the same period meanwhile, unless the job dies or a write fails; and a   *)
(* digest goes out without content only if jobs ran side by side.           *)
THEOREM QueuedDigestsGetTheirContent == Spec => []ContentFollows
<1>1. Init => FollowInv
  BY TypeInit DEF Init, FollowInv, BareIsWritten, BareIsOverlap, Sending
<1>2. FollowInv => ContentFollows
  BY DEF FollowInv, BareIsWritten, BareIsOverlap, Writes, Unhurt, ContentFollows, StillWriting
<1>. QED
  BY <1>1, <1>2, FollowStep, PTL DEF Spec

-----------------------------------------------------------------------------
(* Who holds a row                                                          *)

(* A claimed row has one holder, and the status that says so.               *)
HoldInv ==
  /\ \A j \in Jobs : pc[j] \in Sending => outbox[job[j].period].status = "processing"
  /\ \A j, k \in Jobs : /\ pc[j] \in Sending /\ pc[k] \in Sending
                        /\ job[j].period = job[k].period
                        => j = k

LEMMA StatusOf ==
  ASSUME TypeInv, NEW j \in Jobs, Steps(j), NEW p \in Hours
  PROVE  \/ outbox[p] = Nothing /\ outbox'[p] = Nothing
         \/ outbox[p] /= Nothing /\ outbox'[p] /= Nothing /\ outbox'[p].status = outbox[p].status
         \/ /\ Enqueue(j) /\ pc[j] = "enqueue" /\ pc'[j] = "record" /\ job'[j].period = p
            /\ job[j].period = p /\ outbox[p] = Nothing /\ outbox'[p] /= Nothing
            /\ outbox'[p].status = "pending"
         \/ /\ pc[j] = "claim" /\ pc'[j] = "resolve" /\ job'[j].period = p
            /\ outbox[p] /= Nothing /\ outbox[p].status = "pending"
            /\ outbox'[p] /= Nothing /\ outbox'[p].status = "processing"
         \/ /\ pc[j] \in {"drop", "ensure", "close"} /\ pc'[j] = "claim" /\ job[j].period = p
            /\ outbox[p] /= Nothing /\ outbox'[p] /= Nothing
            /\ outbox'[p].status \in {"suppressed", "pending", "failed"}
         \/ /\ Close(j) /\ pc[j] = "close" /\ pc'[j] = "mark"
            /\ job[j].period = p /\ job'[j].period = p
            /\ outbox[p] /= Nothing /\ outbox'[p] /= Nothing /\ outbox'[p].status = "delivered"
<1>. DEFINE d == job[j]
<1>0. /\ outbox \in [Hours -> Rows \cup {Nothing}] /\ job \in [Jobs -> JobData] /\ d \in JobData
      /\ pc \in [Jobs -> Labels] /\ JobOk(now, outbox, pc[j], d)
  BY JobOf DEF TypeInv, RowsOk, OutboxOk
<1>1. pc[j] \in Dated => d.period \in Hours
  BY <1>0, Constants DEF JobOk, JobData, TypeInv, RowsOk, TimeOk, Hours
<1>2. CASE UNCHANGED outbox
  BY <1>2
<1>3. CASE Enqueue(j) /\ ~UNCHANGED outbox
  <2>1. /\ outbox' = [outbox EXCEPT ![d.period] = [status |-> "pending", payload |-> Bare]]
        /\ outbox[d.period] = Nothing /\ job' = [job EXCEPT ![j].created = TRUE]
    BY <1>3 DEF Enqueue
  <2>2. pc'[j] = "record" /\ pc[j] = "enqueue" /\ job'[j].period = d.period /\ d.period \in Hours
    BY <1>0, <1>1, <1>3, <2>1 DEF Enqueue, GoTo, JobData, Dated, Writing
  <2>3. CASE p = d.period
    <3>. DEFINE row == [status |-> "pending", payload |-> Bare]
    <3>1. outbox'[p] = row
      BY <1>0, <2>1, <2>3
    <3>2. row \in Rows /\ row.status = "pending"
      BY DEF Rows, Payloads
    <3>3. row /= Nothing
      BY <3>2, Constants
    <3>. HIDE DEF row
    <3>. QED
      BY <1>3, <2>1, <2>2, <2>3, <3>1, <3>2, <3>3
  <2>4. CASE p /= d.period
    BY <1>0, <2>1, <2>4
  <2>. QED
    BY <2>3, <2>4
<1>4. CASE StorePayload(j) /\ ~UNCHANGED outbox
  <2>1. outbox' = [outbox EXCEPT ![d.period].payload = d.content] /\ pc[j] = "payload"
    BY <1>4 DEF StorePayload
  <2>2. d.period \in Hours /\ outbox[d.period] /= Nothing /\ outbox[d.period] \in Rows
    BY <1>0, <1>1, <2>1 DEF JobOk, Dated, Writing
  <2>3. CASE p = d.period
    <3>. DEFINE row == [outbox[p] EXCEPT !.payload = d.content]
    <3>1. outbox'[p] = row
      BY <1>0, <2>1, <2>3
    <3>2. row \in Rows /\ row.status = outbox[p].status
      BY <1>0, <2>2, <2>3 DEF Rows, JobData, Payloads
    <3>3. row /= Nothing
      BY <3>2, Constants
    <3>. HIDE DEF row
    <3>. QED
      BY <2>2, <2>3, <3>1, <3>2, <3>3
  <2>4. CASE p /= d.period
    BY <1>0, <2>1, <2>4
  <2>. QED
    BY <2>3, <2>4
<1>5. ASSUME NEW q \in Hours, Claim(j, q)
      PROVE  \/ outbox'[p] = outbox[p]
             \/ /\ pc[j] = "claim" /\ pc'[j] = "resolve" /\ job'[j].period = p
                /\ outbox[p] /= Nothing /\ outbox[p].status = "pending"
                /\ outbox'[p] /= Nothing /\ outbox'[p].status = "processing"
  <2>1. pc[j] = "claim" /\ pc'[j] = "resolve" /\ job'[j].period = q
        /\ outbox[q] /= Nothing /\ outbox[q].status = "pending"
    BY <1>0, <1>5 DEF Claim, GoTo, JobData
  <2>2. /\ \A h \in Hours \ {q} : outbox'[h] = outbox[h]
        /\ outbox'[q].status = "processing" /\ outbox'[q] /= Nothing
    BY <1>5, Judging DEF Claim
  <2>. QED
    BY <2>1, <2>2
<1>6. pc[j] \in Sending => d.period \in Hours /\ outbox[d.period] /= Nothing
  BY <1>0, <1>1 DEF JobOk, Dated
<1>7. ASSUME pc[j] \in Sending, UNCHANGED timeVars, NEW verdict \in Verdicts,
             CloseRow(d.period, verdict) \/ outbox' = [outbox EXCEPT ![d.period].status = verdict]
      PROVE  \/ outbox'[p] = outbox[p]
             \/ p = d.period /\ outbox[p] /= Nothing /\ outbox'[p] /= Nothing
                /\ outbox'[p].status = verdict
  <2>1. CASE CloseRow(d.period, verdict)
    BY <1>6, <1>7, <2>1, Closing
  <2>2. CASE outbox' = [outbox EXCEPT ![d.period].status = verdict]
    BY <1>6, <1>7, <2>2, Judging DEF Verdicts
  <2>. QED
    BY <1>7, <2>1, <2>2
<1>8. CASE CloseSuppressed(j)
  <2>1. pc[j] = "drop" /\ pc'[j] = "claim" /\ UNCHANGED timeVars
    BY <1>0, <1>8 DEF CloseSuppressed, NextRow, GoTo
  <2>2. CloseRow(d.period, "suppressed")
    BY <1>8 DEF CloseSuppressed
  <2>3. \/ outbox'[p] = outbox[p]
        \/ p = d.period /\ outbox[p] /= Nothing /\ outbox'[p] /= Nothing
           /\ outbox'[p].status = "suppressed"
    BY <1>7, <2>1, <2>2 DEF Sending, Verdicts
  <2>. QED
    BY <2>1, <2>3
<1>9. CASE Close(j)
  <2>1. pc[j] = "close" /\ UNCHANGED timeVars
    BY <1>9 DEF Close
  <2>2. CASE d.result = "sent"
    <3>1. CloseRow(d.period, "delivered") /\ pc'[j] = "mark" /\ job'[j] = d
      BY <1>0, <1>9, <2>2 DEF Close, GoTo
    <3>2. \/ outbox'[p] = outbox[p]
          \/ p = d.period /\ outbox[p] /= Nothing /\ outbox'[p] /= Nothing
             /\ outbox'[p].status = "delivered"
      BY <1>7, <2>1, <3>1 DEF Sending, Verdicts
    <3>. QED
      BY <1>9, <2>1, <3>1, <3>2
  <2>3. CASE d.result /= "sent"
    <3>1. d.result \in {"pending", "failed"} /\ CloseRow(d.period, d.result) /\ pc'[j] = "claim"
      BY <1>0, <1>9, <2>3 DEF Close, NextRow, GoTo, JobData
    <3>2. \/ outbox'[p] = outbox[p]
          \/ p = d.period /\ outbox[p] /= Nothing /\ outbox'[p] /= Nothing
             /\ outbox'[p].status = d.result
      BY <1>7, <2>1, <3>1 DEF Sending, Verdicts
    <3>. QED
      BY <2>1, <3>1, <3>2
  <2>. QED
    BY <2>2, <2>3
<1>10. CASE EnsureDelivery(j) /\ ~UNCHANGED outbox
  <2>1. pc[j] = "ensure" /\ pc'[j] = "claim" /\ UNCHANGED timeVars
    BY <1>0, <1>10 DEF EnsureDelivery, NextRow, GoTo
  <2>2. outbox' = [outbox EXCEPT ![d.period].status = "pending"]
    BY <1>10 DEF EnsureDelivery
  <2>3. \/ outbox'[p] = outbox[p]
        \/ p = d.period /\ outbox[p] /= Nothing /\ outbox'[p] /= Nothing
           /\ outbox'[p].status = "pending"
    BY <1>7, <2>1, <2>2 DEF Sending, Verdicts
  <2>. QED
    BY <2>1, <2>3
<1>11. CASE StartJob(j) \/ ReadPrefs(j) \/ BuildDigestContent(j) \/ LookForRun(j) \/ Suppress(j)
            \/ Gate(j) \/ RecordRun(j) \/ NothingToClaim(j) \/ Resolve(j) \/ Send(j)
            \/ UpdateDelivery(j) \/ MarkSent(j) \/ Crash(j)
  BY <1>2, <1>11 DEF StartJob, ReadPrefs, BuildDigestContent, LookForRun, Suppress, Gate, RecordRun,
     NothingToClaim, Resolve, Send, UpdateDelivery, MarkSent, Crash
<1>. QED
  BY <1>2, <1>3, <1>4, <1>5, <1>8, <1>9, <1>10, <1>11 DEF Steps, Continue

LEMMA RunOf ==
  ASSUME TypeInv, NEW j \in Jobs, Steps(j), NEW p \in Hours
  PROVE  \/ run'[p] = run[p]
         \/ /\ Suppress(j) /\ pc[j] = "suppress" /\ job[j].period = p /\ run[p] = Nothing
            /\ run'[p] /= Nothing /\ run'[p].status = "suppressed" /\ ~run'[p].linked
         \/ /\ RecordRun(j) /\ pc[j] = "record" /\ job[j].period = p /\ run[p] = Nothing
            /\ run'[p] = RunRow(job[j].created) /\ run'[p] /= Nothing
         \/ /\ MarkSent(j) /\ pc[j] = "mark" /\ job[j].period = p /\ run[p] /= Nothing
            /\ run'[p] /= Nothing /\ run'[p].status = "sent" /\ run[p].linked /\ run'[p].linked
<1>. DEFINE d == job[j]
<1>0. run \in [Hours -> RunRows \cup {Nothing}] /\ d \in JobData /\ JobOk(now, outbox, pc[j], d)
  BY JobOf DEF TypeInv, RowsOk, RunOk
<1>1. pc[j] \in Dated => d.period \in Hours
  BY <1>0, Constants DEF JobOk, JobData, TypeInv, RowsOk, TimeOk, Hours
<1>2. ASSUME NEW row \in RunRows, InsertRun(d.period, row), d.period \in Hours
      PROVE  run'[p] = run[p] \/ (p = d.period /\ run[p] = Nothing /\ run'[p] = row)
  BY <1>0, <1>2 DEF InsertRun
<1>3. CASE Suppress(j)
  <2>. DEFINE row == [status |-> "suppressed", linked |-> FALSE]
  <2>1. row \in RunRows /\ row.status = "suppressed" /\ row.linked = FALSE
    BY DEF RunRows
  <2>2. row /= Nothing
    BY <2>1, Constants
  <2>3. InsertRun(d.period, row) /\ pc[j] = "suppress"
    BY <1>3 DEF Suppress
  <2>. HIDE DEF row
  <2>4. run'[p] = run[p] \/ (p = d.period /\ run[p] = Nothing /\ run'[p] = row)
    BY <1>1, <1>2, <2>1, <2>3 DEF Dated, Writing
  <2>. QED
    BY <1>3, <2>1, <2>2, <2>3, <2>4
<1>4. CASE RecordRun(j)
  <2>1. RunRow(d.created) \in RunRows
    BY <1>0 DEF RunRow, RunRows, JobData
  <2>2. RunRow(d.created) /= Nothing
    BY <2>1, Constants
  <2>3. InsertRun(d.period, RunRow(d.created)) /\ pc[j] = "record"
    BY <1>4 DEF RecordRun
  <2>4. run'[p] = run[p] \/ (p = d.period /\ run[p] = Nothing /\ run'[p] = RunRow(d.created))
    BY <1>1, <1>2, <2>1, <2>3 DEF Dated, Writing
  <2>. QED
    BY <1>4, <2>2, <2>3, <2>4
<1>5. CASE MarkSent(j)
  <2>1. pc[j] = "mark" /\ d.period \in Hours
    BY <1>1, <1>5 DEF MarkSent, Dated
  <2>2. CASE UNCHANGED run
    BY <2>2
  <2>3. CASE Linked(d.period) /\ run' = [run EXCEPT ![d.period].status = "sent"]
    <3>. DEFINE row == [run[d.period] EXCEPT !.status = "sent"]
    <3>1. run[d.period] \in RunRows /\ run[d.period] /= Nothing /\ run[d.period].linked
      BY <1>0, <2>1, <2>3 DEF Linked
    <3>2. row \in RunRows /\ row.status = "sent" /\ row.linked = run[d.period].linked
      BY <3>1 DEF RunRows
    <3>3. row /= Nothing
      BY <3>2, Constants
    <3>4. run' = [run EXCEPT ![d.period] = row]
      BY <2>3
    <3>. HIDE DEF row
    <3>5. run'[p] = run[p] \/ (p = d.period /\ run'[p] = row)
      BY <1>0, <2>1, <3>4
    <3>. QED
      BY <1>5, <2>1, <3>1, <3>2, <3>3, <3>5
  <2>. QED
    BY <1>5, <2>2, <2>3 DEF MarkSent
<1>6. CASE StartJob(j) \/ ReadPrefs(j) \/ BuildDigestContent(j) \/ LookForRun(j) \/ Gate(j)
           \/ Enqueue(j) \/ StorePayload(j) \/ NothingToClaim(j) \/ Resolve(j) \/ Crash(j)
  BY <1>6 DEF StartJob, ReadPrefs, BuildDigestContent, LookForRun, Gate, Enqueue, StorePayload,
     NothingToClaim, Resolve, Crash
<1>7. CASE (\E q \in Hours : Claim(j, q)) \/ CloseSuppressed(j) \/ EnsureDelivery(j) \/ Send(j)
           \/ UpdateDelivery(j) \/ Close(j)
  BY <1>7 DEF Claim, CloseSuppressed, EnsureDelivery, Send, UpdateDelivery, Close
<1>. QED
  BY <1>3, <1>4, <1>5, <1>6, <1>7 DEF Steps, Continue

(* What the surroundings do to the rows of the outbox.                      *)
LEMMA SurroundingStatus ==
  ASSUME TypeInv, Surroundings, NEW p \in Hours
  PROVE  \/ outbox'[p] = outbox[p]
         \/ /\ ~Held(p) /\ outbox[p] /= Nothing /\ outbox[p].status = "processing"
            /\ outbox'[p] /= Nothing /\ outbox'[p].status = "pending"
<1>1. CASE \E q \in Hours : ReleaseStale(q)
  <2>1. PICK q \in Hours : ReleaseStale(q)
    BY <1>1
  <2>2. /\ \A h \in Hours \ {q} : outbox'[h] = outbox[h]
        /\ outbox'[q].status = "pending" /\ outbox'[q] /= Nothing
    BY <2>1, Judging DEF ReleaseStale
  <2>. QED
    BY <2>1, <2>2 DEF ReleaseStale
<1>2. CASE (\E e \in Events : Observe(e)) \/ Switch \/ Reschedule \/ Tick
  BY <1>2 DEF Observe, Switch, Reschedule, Tick
<1>. QED
  BY <1>1, <1>2 DEF Surroundings

LEMMA HoldStep ==
  ASSUME TypeInv, HoldInv, [Next]_vars
  PROVE  HoldInv'
<1>0. ASSUME NEW k \in Jobs, pc[k] \in Sending
      PROVE  job[k].period \in Hours /\ outbox[job[k].period] /= Nothing
  BY <1>0, JobOf, Constants DEF JobOk, JobData, TypeInv, RowsOk, TimeOk, Hours, Dated
<1>1. ASSUME NEW j \in Jobs, Steps(j) PROVE HoldInv'
  <2>1. ASSUME NEW k \in Jobs \ {j}, pc[k] \in Sending
        PROVE  outbox'[job[k].period].status = "processing"
    <3>. DEFINE p == job[k].period
    <3>1. p \in Hours /\ outbox[p] /= Nothing /\ outbox[p].status = "processing"
      BY <1>0, <2>1 DEF HoldInv
    <3>2. pc[j] \in Sending => job[j].period /= p
      BY <2>1 DEF HoldInv
    <3>. HIDE DEF p
    <3>3. outbox'[p].status = "processing"
      BY <1>1, <3>1, <3>2, StatusOf DEF Sending
    <3>. QED
      BY <3>3 DEF p
  <2>2. pc'[j] \in Sending /\ pc[j] \in Sending =>
          job'[j].period = job[j].period /\ outbox'[job[j].period].status = "processing"
    <3>. DEFINE p == job[j].period
    <3>. SUFFICES ASSUME pc'[j] \in Sending, pc[j] \in Sending
                  PROVE job'[j].period = p /\ outbox'[p].status = "processing"
      OBVIOUS
    <3>1. p \in Hours /\ outbox[p] /= Nothing /\ outbox[p].status = "processing"
      BY <1>0 DEF HoldInv
    <3>2. job'[j].period = p
      <4>1. \A q \in Hours : ~Claim(j, q)
        BY DEF Claim, Sending
      <4>. QED
        BY <1>1, <4>1, Landing DEF Sending
    <3>. HIDE DEF p
    <3>3. outbox'[p].status = "processing"
      BY <1>1, <3>1, StatusOf DEF Sending
    <3>. QED
      BY <3>2, <3>3
  <2>3. ASSUME NEW p \in Hours, Claim(j, p)
        PROVE  /\ job'[j].period = p /\ outbox'[p].status = "processing"
               /\ \A k \in Jobs : pc[k] \in Sending => job[k].period /= p
    <3>1. job'[j].period = p /\ outbox[p] /= Nothing /\ outbox[p].status = "pending"
      BY <2>3, JobOf DEF Claim, JobData
    <3>2. outbox'[p].status = "processing"
      BY <2>3, <3>1, Judging DEF Claim
    <3>. QED
      BY <3>1, <3>2 DEF HoldInv
  <2>4. pc'[j] \in Sending /\ pc[j] \notin Sending => \E p \in Hours : Claim(j, p)
    BY <1>1, Landing DEF Sending
  <2>5. pc'[j] \in Sending =>
          /\ outbox'[job'[j].period].status = "processing"
          /\ \A k \in Jobs \ {j} : pc[k] \in Sending => job[k].period /= job'[j].period
    BY <2>2, <2>3, <2>4 DEF HoldInv
  <2>6. \A k \in Jobs \ {j} : pc'[k] = pc[k] /\ job'[k] = job[k]
    BY <1>1, OthersRest DEF Rest
  <2>7. \A k \in Jobs : pc'[k] \in Sending => outbox'[job'[k].period].status = "processing"
    BY <2>1, <2>5, <2>6
  <2>8. \A i, k \in Jobs : pc'[i] \in Sending /\ pc'[k] \in Sending
                           /\ job'[i].period = job'[k].period => i = k
    BY <2>5, <2>6 DEF HoldInv
  <2>. QED
    BY <2>7, <2>8 DEF HoldInv
<1>2. CASE Surroundings
  <2>1. UNCHANGED <<pc, job>>
    BY <1>2, SurroundingsKeep
  <2>2. ASSUME NEW k \in Jobs, pc[k] \in Sending PROVE outbox'[job[k].period] = outbox[job[k].period]
    <3>1. Held(job[k].period)
      BY <2>2 DEF Held, Delivering, Sending
    <3>. QED
      BY <1>0, <1>2, <2>2, <3>1, SurroundingStatus
  <2>. QED
    BY <2>1, <2>2 DEF HoldInv
<1>3. CASE UNCHANGED vars
  BY <1>3 DEF vars, HoldInv
<1>. QED
  BY <1>1, <1>2, <1>3, NextIs

LEMMA HoldInit == Init => HoldInv
BY DEF Init, HoldInv, Sending

-----------------------------------------------------------------------------
(* What is recorded as delivered                                            *)

(* Who is about to send or to record has not found the digest delivered.    *)
Unsent == \A j \in Jobs : pc[j] \in {"send", "confirm"} => ~recorded[job[j].period]

UnsentInv == TypeInv /\ HoldInv /\ Unsent

LEMMA RecordOf ==
  ASSUME TypeInv, NEW j \in Jobs, Steps(j), NEW p \in Hours
  PROVE  \/ recorded'[p] = recorded[p]
         \/ pc[j] = "confirm" /\ pc'[j] = "close" /\ job[j].period = p
<1>1. CASE StartJob(j) \/ ReadPrefs(j) \/ BuildDigestContent(j) \/ LookForRun(j) \/ Suppress(j)
           \/ Gate(j) \/ Enqueue(j) \/ RecordRun(j) \/ StorePayload(j)
  BY <1>1 DEF StartJob, ReadPrefs, BuildDigestContent, LookForRun, Suppress, Gate, Enqueue,
     RecordRun, StorePayload
<1>2. CASE (\E q \in Hours : Claim(j, q)) \/ NothingToClaim(j) \/ Resolve(j) \/ CloseSuppressed(j)
           \/ EnsureDelivery(j) \/ Send(j) \/ Close(j) \/ MarkSent(j) \/ Crash(j)
  BY <1>2 DEF Claim, NothingToClaim, Resolve, CloseSuppressed, EnsureDelivery, Send, Close, MarkSent,
     Crash
<1>3. CASE UpdateDelivery(j)
  <2>1. pc[j] = "confirm" /\ pc'[j] = "close" /\ recorded \in [Hours -> BOOLEAN]
    BY <1>3, JobOf DEF UpdateDelivery, GoTo, TypeInv, RowsOk, MailedOk
  <2>. QED
    BY <1>3, <2>1 DEF UpdateDelivery
<1>. QED
  BY <1>1, <1>2, <1>3 DEF Steps, Continue

LEMMA UnsentStep ==
  ASSUME UnsentInv, [Next]_vars
  PROVE  UnsentInv'
<1>0. TypeInv /\ HoldInv /\ TypeInv' /\ HoldInv'
  BY TypeStep, HoldStep DEF UnsentInv
<1>1. ASSUME NEW k \in Jobs, pc[k] \in Sending PROVE job[k].period \in Hours
  BY <1>0, <1>1, JobOf, Constants DEF JobOk, JobData, TypeInv, RowsOk, TimeOk, Hours, Dated
<1>2. ASSUME NEW j \in Jobs, Steps(j) PROVE Unsent'
  <2>1. ASSUME NEW k \in Jobs \ {j}, pc[k] \in {"send", "confirm"} PROVE ~recorded'[job[k].period]
    <3>1. job[k].period \in Hours /\ ~recorded[job[k].period]
      BY <1>1, <2>1 DEF UnsentInv, Unsent, Sending
    <3>2. ~(pc[j] = "confirm" /\ job[j].period = job[k].period)
      BY <1>0, <2>1 DEF HoldInv, Sending
    <3>. QED
      BY <1>0, <1>2, <3>1, <3>2, RecordOf
  <2>2. ASSUME pc'[j] \in {"send", "confirm"} PROVE ~recorded'[job'[j].period]
    <3>1. CASE pc[j] = "ensure" /\ pc'[j] = "send"
      <4>1. EnsureDelivery(j)
        <5>1. EnsureDelivery(j) \/ Crash(j)
          BY <1>2, <3>1 DEF Steps, Continue, StartJob, ReadPrefs, BuildDigestContent, LookForRun, Suppress,
             Gate, Enqueue, RecordRun, StorePayload, Claim, NothingToClaim, Resolve, CloseSuppressed,
             Send, UpdateDelivery, Close, MarkSent
        <5>2. ~Crash(j)
          BY <1>0, <3>1, JobOf DEF Crash, GoTo
        <5>. QED
          BY <5>1, <5>2
      <4>2. ~recorded[job[j].period] /\ UNCHANGED recorded /\ job'[j] = job[j]
        BY <1>0, <3>1, <4>1, JobOf DEF EnsureDelivery, AlreadyOut, NextRow, GoTo
      <4>. QED
        BY <4>2
    <3>2. CASE pc[j] = "send" /\ pc'[j] = "confirm" /\ job'[j].period = job[j].period
      <4>1. job[j].period \in Hours /\ ~recorded[job[j].period]
        BY <1>1, <3>2 DEF UnsentInv, Unsent, Sending
      <4>. QED
        BY <1>0, <1>2, <3>2, <4>1, RecordOf
    <3>. QED
      BY <1>0, <1>2, <2>2, <3>1, <3>2, Landing
  <2>. QED
    BY <1>0, <1>2, <2>1, <2>2, OthersRest DEF Unsent, Rest
<1>3. CASE Surroundings
  BY <1>0, <1>3, SurroundingsKeep DEF UnsentInv, Unsent
<1>4. CASE UNCHANGED vars
  BY <1>0, <1>4 DEF vars, UnsentInv, Unsent
<1>. QED
  BY <1>0, <1>2, <1>3, <1>4, NextIs DEF UnsentInv

(* A delivery row that says delivered says so for good, and nothing more is *)
(* sent for the period.                                                     *)
DeliveredIsFinal ==
  [][\A p \in Hours : recorded[p] => recorded'[p] /\ mailed'[p] = mailed[p]]_vars

(* Once the delivery row of a digest says delivered no other text of it     *)
(* goes out, whatever crashes, gets lost or is claimed again.  Before the   *)
(* row says so a digest may go out twice.                                   *)
THEOREM NothingGoesOutAfterDelivery == Spec => DeliveredIsFinal
<1>1. Init => UnsentInv
  BY TypeInit, HoldInit DEF Init, UnsentInv, Unsent
<1>2. ASSUME UnsentInv, [Next]_vars
      PROVE  [\A p \in Hours : recorded[p] => recorded'[p] /\ mailed'[p] = mailed[p]]_vars
  <2>0. TypeInv
    BY <1>2 DEF UnsentInv
  <2>1. ASSUME NEW p \in Hours, recorded[p], NEW j \in Jobs, Steps(j)
        PROVE  recorded'[p] /\ mailed'[p] = mailed[p]
    <3>1. ~(pc[j] \in {"send", "confirm"} /\ job[j].period = p)
      BY <1>2, <2>1 DEF UnsentInv, Unsent
    <3>. QED
      BY <2>0, <2>1, <3>1, RecordOf, MailOf
  <2>2. CASE Surroundings
    BY <2>0, <2>2, SurroundingsKeep
  <2>. QED
    BY <1>2, <2>1, <2>2, NextIs
<1>. QED
  BY <1>1, <1>2, UnsentStep, PTL DEF Spec, DeliveredIsFinal

-----------------------------------------------------------------------------
(* The run rows tell the truth                                              *)

(* Jobs do not overlap, and nothing but a failed send or a new day or hour  *)
(* of the digest gets in their way.                                         *)
Quiet == ~overlap /\ faults \subseteq {"send", "reschedule"}

Single == \A j, k \in Jobs : Scheduling(j) /\ Scheduling(k) => j = k

(* What a job knows about the period it works on.                           *)
JobTrue(j) ==
  LET p == job[j].period IN
  /\ pc[j] \in {"suppress", "gate", "enqueue"} => outbox[p] = Nothing /\ run[p] = Nothing
  /\ pc[j] = "record" => job[j].created /\ run[p] = Nothing
  /\ pc[j] = "mark" => outbox[p] /= Nothing /\ outbox[p].status = "delivered"

IsSent(p) == run[p] /= Nothing /\ run[p].status = "sent"

(* What the rows of a period say of each other, unless a job is about to    *)
(* write the one that is missing.                                           *)
Told(p) == outbox[p] /= Nothing /\ run[p] = Nothing =>
             \E j \in Jobs : pc[j] = "record" /\ job[j].period = p
Agreed(p) == run[p] /= Nothing =>
               IF run[p].linked
               THEN outbox[p] /= Nothing /\ run[p].status \in {"queued", "sent"}
               ELSE outbox[p] = Nothing /\ run[p].status = "suppressed"
SentIsOut(p) == IsSent(p) => outbox[p].status = "delivered"
OutIsSent(p) == outbox[p] /= Nothing /\ outbox[p].status = "delivered" =>
                  IsSent(p) \/ \E j \in Jobs : pc[j] = "mark" /\ job[j].period = p

RowTrue(p) == Told(p) /\ Agreed(p) /\ SentIsOut(p) /\ OutIsSent(p)

AllTrue ==
  /\ prefs.enabled /\ Single
  /\ \A j \in Jobs : JobTrue(j)
  /\ \A p \in Hours : RowTrue(p)

TruthInv == TypeInv /\ HoldInv /\ (Quiet => AllTrue)

(* Nobody acts while another job is scheduling, or overlap is noted.        *)
LEMMA Quietly ==
  ASSUME TypeInv, NEW j \in Jobs, Steps(j), Quiet'
  PROVE  /\ ~Disturb("store") /\ ~Crash(j)
         /\ \/ NothingToClaim(j)
            \/ ~NothingToClaim(j) /\ \A k \in Jobs \ {j} : ~Scheduling(k)
<1>1. ~Disturb("store") /\ ~Disturb("crash")
  BY DEF Quiet, Disturb
<1>2. ~Crash(j)
  BY <1>1 DEF Crash
<1>3. ASSUME MarkOverlap(j) PROVE \A k \in Jobs \ {j} : ~Scheduling(k)
  BY <1>3 DEF MarkOverlap, Quiet
<1>4. CASE StartJob(j) \/ ReadPrefs(j) \/ BuildDigestContent(j) \/ LookForRun(j) \/ Suppress(j)
  BY <1>1, <1>2, <1>3, <1>4 DEF StartJob, ReadPrefs, BuildDigestContent, LookForRun, Suppress
<1>5. CASE Gate(j) \/ Enqueue(j) \/ RecordRun(j) \/ StorePayload(j) \/ Resolve(j)
  BY <1>1, <1>2, <1>3, <1>5 DEF Gate, Enqueue, RecordRun, StorePayload, Resolve
<1>6. CASE (\E p \in Hours : Claim(j, p)) \/ CloseSuppressed(j) \/ EnsureDelivery(j) \/ Send(j)
           \/ UpdateDelivery(j) \/ Close(j) \/ MarkSent(j)
  BY <1>1, <1>2, <1>3, <1>6 DEF Claim, CloseSuppressed, EnsureDelivery, Send, UpdateDelivery, Close,
     MarkSent
<1>. QED
  BY <1>1, <1>2, <1>4, <1>5, <1>6 DEF Steps, Continue

LEMMA PrefsStay ==
  ASSUME TypeInv, prefs.enabled, [Next]_vars, Quiet'
  PROVE  prefs'.enabled
<1>1. ~Disturb("store") /\ ~Disturb("switch")
  BY DEF Quiet, Disturb
<1>2. ASSUME NEW read, ReadingPrefs(read) PROVE UNCHANGED prefs
  BY <1>1, <1>2 DEF ReadingPrefs
<1>3. ASSUME NEW j \in Jobs, Steps(j) PROVE UNCHANGED prefs
  <2>1. CASE ReadPrefs(j) \/ Gate(j) \/ Resolve(j)
    BY <1>2, <2>1 DEF ReadPrefs, Gate, Resolve
  <2>2. CASE StartJob(j) \/ BuildDigestContent(j) \/ LookForRun(j) \/ Suppress(j) \/ Enqueue(j)
             \/ RecordRun(j) \/ StorePayload(j)
    BY <2>2 DEF StartJob, BuildDigestContent, LookForRun, Suppress, Enqueue, RecordRun, StorePayload
  <2>3. CASE (\E p \in Hours : Claim(j, p)) \/ NothingToClaim(j) \/ CloseSuppressed(j) \/ Send(j)
             \/ EnsureDelivery(j) \/ UpdateDelivery(j) \/ Close(j) \/ MarkSent(j) \/ Crash(j)
    BY <2>3 DEF Claim, NothingToClaim, CloseSuppressed, Send, EnsureDelivery, UpdateDelivery, Close,
       MarkSent, Crash
  <2>. QED
    BY <1>3, <2>1, <2>2, <2>3 DEF Steps, Continue
<1>4. CASE Reschedule
  BY <1>4 DEF Reschedule, TypeInv, RowsOk, PrefsOk, Prefs
<1>5. CASE (\E p \in Hours : ReleaseStale(p)) \/ (\E e \in Events : Observe(e)) \/ Tick \/ Switch
  BY <1>1, <1>5 DEF ReleaseStale, Observe, Tick, Switch
<1>6. CASE UNCHANGED vars
  BY <1>6 DEF vars
<1>. QED
  BY <1>3, <1>4, <1>5, <1>6, NextIs DEF Surroundings

LEMMA SingleStep ==
  ASSUME TypeInv, Single, NEW j \in Jobs, Steps(j), Quiet'
  PROVE  Single'
<1>1. \A k \in Jobs \ {j} : pc'[k] = pc[k]
  BY OthersRest DEF Rest
<1>2. CASE NothingToClaim(j)
  <2>1. pc'[j] = "idle"
    BY <1>2, JobOf DEF NothingToClaim, GoTo
  <2>. QED
    BY <1>1, <2>1 DEF Single, Scheduling
<1>3. CASE \A k \in Jobs \ {j} : ~Scheduling(k)
  BY <1>1, <1>3 DEF Single, Scheduling
<1>. QED
  BY <1>2, <1>3, Quietly

LEMMA JobTrueOfOther ==
  ASSUME TypeInv, HoldInv, NEW j \in Jobs, Steps(j), Quiet', NEW k \in Jobs \ {j}, JobTrue(k)
  PROVE  JobTrue(k)'
<1>. DEFINE p == job[k].period
<1>1. pc'[k] = pc[k] /\ job'[k] = job[k]
  BY OthersRest DEF Rest
<1>2. CASE NothingToClaim(j)
  BY <1>1, <1>2 DEF NothingToClaim, JobTrue
<1>3. CASE ~Scheduling(k) /\ pc[k] = "mark"
  <2>1. p \in Hours
    BY <1>3, JobOf, Constants DEF JobOk, JobData, TypeInv, RowsOk, TimeOk, Hours, Dated
  <2>2. outbox[p] /= Nothing /\ outbox[p].status = "delivered"
    BY <1>3 DEF JobTrue
  <2>. HIDE DEF p
  <2>3. pc[j] \in Sending => outbox[job[j].period].status = "processing"
    BY DEF HoldInv
  <2>4. outbox'[p] /= Nothing /\ outbox'[p].status = "delivered"
    BY <2>1, <2>2, <2>3, StatusOf DEF Sending
  <2>. QED
    BY <1>1, <1>3, <2>4 DEF JobTrue, p
<1>4. CASE ~Scheduling(k) /\ pc[k] /= "mark"
  BY <1>1, <1>4 DEF JobTrue, Scheduling
<1>. QED
  BY <1>2, <1>3, <1>4, Quietly

LEMMA JobTrueOfSelf ==
  ASSUME TypeInv, HoldInv, AllTrue, NEW j \in Jobs, Steps(j), Quiet'
  PROVE  JobTrue(j)'
<1>. DEFINE p == job[j].period
<1>0. ~Disturb("store") /\ (pc[j] \in Dated => p \in Hours)
  BY Quietly, JobOf, Constants DEF JobOk, JobData, TypeInv, RowsOk, TimeOk, Hours
<1>1. CASE LookForRun(j) /\ job'[j] = job[j] /\ pc'[j] \in {"suppress", "gate"}
  <2>1. run[p] = Nothing
    BY <1>0, <1>1, JobOf DEF LookForRun, FinishScheduling, AfterScheduling, GoTo
  <2>2. pc[j] = "look" /\ p \in Hours
    BY <1>0, <1>1 DEF LookForRun, Dated, Writing
  <2>3. outbox[p] = Nothing
    <3>1. SUFFICES ASSUME outbox[p] /= Nothing PROVE FALSE
      OBVIOUS
    <3>2. PICK k \in Jobs : pc[k] = "record" /\ job[k].period = p
      BY <2>1, <2>2, <3>1 DEF AllTrue, RowTrue, Told
    <3>. QED
      BY <2>2, <3>2 DEF AllTrue, Single, Scheduling
  <2>. QED
    BY <1>1, <2>1, <2>3 DEF LookForRun, JobTrue
<1>2. CASE Gate(j)
  <2>1. pc[j] = "gate" /\ pc'[j] = "enqueue" /\ job'[j] = job[j] /\ UNCHANGED <<outbox, run>>
    BY <1>0, <1>2, JobOf DEF Gate, ReadingPrefs, AllTrue, GoTo
  <2>. QED
    BY <2>1 DEF JobTrue, AllTrue
<1>3. CASE Enqueue(j)
  <2>1. pc[j] = "enqueue" /\ pc'[j] = "record" /\ UNCHANGED run
    BY <1>3, JobOf DEF Enqueue, GoTo
  <2>2. outbox[p] = Nothing /\ run[p] = Nothing
    BY <2>1 DEF AllTrue, JobTrue
  <2>3. job' = [job EXCEPT ![j].created = TRUE]
    BY <1>0, <1>3, <2>2 DEF Enqueue
  <2>4. job'[j].created /\ job'[j].period = p
    BY <2>3, JobOf DEF JobData
  <2>. QED
    BY <2>1, <2>2, <2>4 DEF JobTrue
<1>4. CASE Close(j) /\ pc'[j] = "mark"
  <2>1. pc[j] = "close" /\ job[j].result = "sent" /\ UNCHANGED timeVars
    BY <1>4, JobOf DEF Close, NextRow, GoTo
  <2>2. job'[j] = job[j] /\ outbox' = [outbox EXCEPT ![p].status = "delivered"]
    BY <1>0, <1>4, <2>1 DEF Close, CloseRow
  <2>3. p \in Hours /\ outbox[p] /= Nothing
    BY <1>0, <2>1, JobOf DEF JobOk, Dated, Sending
  <2>4. outbox'[p] /= Nothing /\ outbox'[p].status = "delivered"
    BY <2>1, <2>2, <2>3, Judging
  <2>. QED
    BY <1>4, <2>2, <2>4 DEF JobTrue
<1>5. CASE pc'[j] \notin {"suppress", "gate", "enqueue", "record", "mark"}
  BY <1>5 DEF JobTrue
<1>6. pc[j] = "look" /\ pc'[j] \in {"suppress", "gate"} => LookForRun(j)
  BY DEF Steps, Continue, StartJob, Crash, ReadPrefs, BuildDigestContent, Suppress, Gate, Enqueue,
     RecordRun, StorePayload, Claim, NothingToClaim, Resolve, CloseSuppressed, EnsureDelivery, Send,
     UpdateDelivery, Close, MarkSent, GoTo, Quiet, Disturb
<1>7. pc[j] = "gate" => Gate(j)
  <2>1. ~Crash(j)
    BY Quietly
  <2>. QED
    BY <2>1 DEF Steps, Continue, StartJob, ReadPrefs, BuildDigestContent, LookForRun, Suppress, Enqueue,
       RecordRun, StorePayload, Claim, NothingToClaim, Resolve, CloseSuppressed, EnsureDelivery, Send,
       UpdateDelivery, Close, MarkSent
<1>8. pc[j] = "close" => Close(j)
  <2>1. ~Crash(j)
    BY Quietly
  <2>. QED
    BY <2>1 DEF Steps, Continue, StartJob, ReadPrefs, BuildDigestContent, LookForRun, Suppress, Gate,
       Enqueue, RecordRun, StorePayload, Claim, NothingToClaim, Resolve, CloseSuppressed,
       EnsureDelivery, Send, UpdateDelivery, MarkSent
<1>. QED
  BY <1>1, <1>2, <1>3, <1>4, <1>5, <1>6, <1>7, <1>8, Landing

LEMMA AtMark ==
  ASSUME TypeInv, NEW j \in Jobs, Steps(j), pc[j] = "mark", ~Crash(j)
  PROVE  MarkSent(j)
BY DEF Steps, Continue, StartJob, ReadPrefs, BuildDigestContent, LookForRun, Suppress, Gate,
   Enqueue, RecordRun, StorePayload, Claim, NothingToClaim, Resolve, CloseSuppressed, EnsureDelivery,
   Send, UpdateDelivery, Close

LEMMA ToldStep ==
  ASSUME TypeInv, AllTrue, NEW j \in Jobs, Steps(j), Quiet', NEW p \in Hours
  PROVE  Told(p)'
<1>. SUFFICES ASSUME outbox'[p] /= Nothing, run'[p] = Nothing
              PROVE  \E k \in Jobs : pc'[k] = "record" /\ job'[k].period = p
  BY DEF Told
<1>0. run[p] = Nothing
  BY RunOf
<1>1. CASE outbox[p] /= Nothing
  <2>1. PICK k \in Jobs : pc[k] = "record" /\ job[k].period = p
    BY <1>0, <1>1 DEF AllTrue, RowTrue, Told
  <2>2. CASE k = j
    <3>1. RecordRun(j) /\ ~Disturb("store")
      BY <2>1, <2>2, AtTheEnd, Quietly
    <3>2. run' = [run EXCEPT ![p] = RunRow(job[j].created)]
      BY <1>0, <2>1, <2>2, <3>1 DEF RecordRun, InsertRun
    <3>3. run'[p] = RunRow(job[j].created) /\ RunRow(job[j].created) \in RunRows
      BY <3>2, JobOf DEF TypeInv, RowsOk, RunOk, RunRow, RunRows, JobData
    <3>. QED
      BY <3>3, Constants
  <2>3. CASE k /= j
    BY <2>1, <2>3, OthersRest DEF Rest
  <2>. QED
    BY <2>2, <2>3
<1>2. CASE outbox[p] = Nothing
  BY <1>2, StatusOf
<1>. QED
  BY <1>1, <1>2

LEMMA AgreedStep ==
  ASSUME TypeInv, HoldInv, AllTrue, NEW j \in Jobs, Steps(j), Quiet', NEW p \in Hours
  PROVE  Agreed(p)' /\ SentIsOut(p)'
<1>0. Agreed(p) /\ SentIsOut(p) /\ JobTrue(j)
  BY DEF AllTrue, RowTrue
<1>1. pc[j] \in Sending => outbox[job[j].period].status = "processing"
  BY DEF HoldInv
<1>2. CASE run'[p] = run[p]
  <2>1. CASE pc[j] = "enqueue" /\ job[j].period = p
    BY <1>0, <1>2, <2>1 DEF JobTrue, Agreed, SentIsOut, IsSent
  <2>2. CASE ~(pc[j] = "enqueue" /\ job[j].period = p)
    <3>1. outbox'[p] /= Nothing <=> outbox[p] /= Nothing
      BY <2>2, StatusOf
    <3>2. outbox[p] /= Nothing /\ outbox[p].status = "delivered" => outbox'[p].status = "delivered"
      BY <1>1, StatusOf DEF Sending
    <3>3. Agreed(p)'
      BY <1>0, <1>2, <3>1 DEF Agreed
    <3>4. IsSent(p) => outbox[p] /= Nothing /\ outbox[p].status = "delivered"
      BY <1>0 DEF Agreed, SentIsOut, IsSent
    <3>. QED
      BY <1>2, <3>2, <3>3, <3>4 DEF SentIsOut, IsSent
  <2>. QED
    BY <2>1, <2>2
<1>3. CASE /\ pc[j] = "suppress" /\ job[j].period = p
           /\ run'[p] /= Nothing /\ run'[p].status = "suppressed" /\ ~run'[p].linked
  <2>1. outbox[p] = Nothing
    BY <1>0, <1>3 DEF JobTrue
  <2>2. outbox'[p] = Nothing
    BY <1>3, <2>1, StatusOf
  <2>. QED
    BY <1>3, <2>2 DEF Agreed, SentIsOut, IsSent
<1>4. CASE /\ pc[j] = "record" /\ job[j].period = p
           /\ run'[p] = RunRow(job[j].created) /\ run'[p] /= Nothing
  <2>1. job[j].created /\ outbox[p] /= Nothing
    BY <1>0, <1>4, JobOf DEF JobTrue, JobOk
  <2>2. outbox'[p] /= Nothing
    BY <2>1, StatusOf
  <2>3. run'[p].linked /\ run'[p].status = "queued"
    BY <1>4, <2>1 DEF RunRow
  <2>. QED
    BY <1>4, <2>2, <2>3 DEF Agreed, SentIsOut, IsSent
<1>5. CASE /\ pc[j] = "mark" /\ job[j].period = p
           /\ run'[p] /= Nothing /\ run'[p].status = "sent" /\ run'[p].linked
  <2>1. outbox[p] /= Nothing /\ outbox[p].status = "delivered"
    BY <1>0, <1>5 DEF JobTrue
  <2>2. outbox'[p] /= Nothing /\ outbox'[p].status = "delivered"
    BY <1>5, <2>1, StatusOf
  <2>. QED
    BY <1>5, <2>2 DEF Agreed, SentIsOut, IsSent
<1>. QED
  BY <1>2, <1>3, <1>4, <1>5, RunOf

LEMMA OutIsSentStep ==
  ASSUME TypeInv, HoldInv, AllTrue, NEW j \in Jobs, Steps(j), Quiet', NEW p \in Hours
  PROVE  OutIsSent(p)'
<1>. SUFFICES ASSUME outbox'[p] /= Nothing, outbox'[p].status = "delivered"
              PROVE  \/ run'[p] /= Nothing /\ run'[p].status = "sent"
                     \/ \E k \in Jobs : pc'[k] = "mark" /\ job'[k].period = p
  BY DEF OutIsSent, IsSent
<1>1. CASE pc[j] = "close" /\ pc'[j] = "mark" /\ job'[j].period = p
  BY <1>1
<1>2. CASE outbox[p] /= Nothing /\ outbox[p].status = "delivered"
  <2>1. CASE IsSent(p)
    BY <2>1, RunOf DEF IsSent
  <2>2. ASSUME NEW k \in Jobs, pc[k] = "mark", job[k].period = p, ~IsSent(p)
        PROVE  \/ run'[p] /= Nothing /\ run'[p].status = "sent"
               \/ \E i \in Jobs : pc'[i] = "mark" /\ job'[i].period = p
    <3>1. CASE k /= j
      BY <2>2, <3>1, OthersRest DEF Rest
    <3>2. CASE k = j
      <4>1. MarkSent(j) /\ ~Disturb("store")
        BY <2>2, <3>2, AtMark, Quietly
      <4>2. run[p] /= Nothing
        <5>1. SUFFICES ASSUME run[p] = Nothing PROVE FALSE
          OBVIOUS
        <5>2. PICK i \in Jobs : pc[i] = "record" /\ job[i].period = p
          BY <1>2, <5>1 DEF AllTrue, RowTrue, Told
        <5>3. i /= j /\ Scheduling(i) /\ ~NothingToClaim(j)
          BY <2>2, <3>2, <5>2 DEF Scheduling, NothingToClaim
        <5>. QED
          BY <5>3, Quietly
      <4>3. Linked(p)
        BY <1>2, <4>2 DEF AllTrue, RowTrue, Agreed, Linked
      <4>4. run' = [run EXCEPT ![p].status = "sent"]
        BY <2>2, <3>2, <4>1, <4>3 DEF MarkSent
      <4>5. run[p] \in RunRows /\ run \in [Hours -> RunRows \cup {Nothing}]
        BY <4>2 DEF TypeInv, RowsOk, RunOk
      <4>6. run'[p].status = "sent"
        BY <4>4, <4>5 DEF RunRows
      <4>7. run'[p] /= Nothing
        BY <4>2, RunOf
      <4>. QED
        BY <4>6, <4>7
    <3>. QED
      BY <3>1, <3>2
  <2>. QED
    BY <1>2, <2>1, <2>2 DEF AllTrue, RowTrue, OutIsSent
<1>. QED
  BY <1>1, <1>2, StatusOf

LEMMA QuietSurroundings ==
  ASSUME TypeInv, AllTrue, Surroundings
  PROVE  Single' /\ (\A j \in Jobs : JobTrue(j)') /\ (\A p \in Hours : RowTrue(p)')
<1>1. UNCHANGED <<pc, job, run>>
  BY SurroundingsKeep
<1>2. ASSUME NEW p \in Hours
      PROVE  /\ outbox'[p] /= Nothing <=> outbox[p] /= Nothing
             /\ outbox[p] /= Nothing =>
                  (outbox'[p].status = "delivered" <=> outbox[p].status = "delivered")
  BY SurroundingStatus
<1>3. ASSUME NEW j \in Jobs PROVE JobTrue(j)'
  <2>1. pc[j] \in {"suppress", "gate", "enqueue", "mark"} => job[j].period \in Hours
    BY JobOf, Constants DEF JobOk, JobData, TypeInv, RowsOk, TimeOk, Hours, Dated, Writing
  <2>. QED
    BY <1>1, <1>2, <2>1 DEF JobTrue, AllTrue
<1>4. ASSUME NEW p \in Hours PROVE RowTrue(p)'
  <2>1. RowTrue(p) /\ (IsSent(p) => outbox[p] /= Nothing)
    BY DEF AllTrue, RowTrue, Agreed, IsSent
  <2>. QED
    BY <1>1, <1>2, <2>1 DEF RowTrue, Told, Agreed, SentIsOut, OutIsSent, IsSent
<1>. QED
  BY <1>1, <1>3, <1>4 DEF Single, Scheduling, AllTrue

LEMMA TruthStep ==
  ASSUME TruthInv, [Next]_vars
  PROVE  TruthInv'
<1>1. TypeInv' /\ HoldInv'
  BY TypeStep, HoldStep DEF TruthInv
<1>2. Quiet' => Quiet
  BY FaultsStay, OverlapStays DEF Quiet, TruthInv
<1>. SUFFICES ASSUME TypeInv, HoldInv, AllTrue, Quiet' PROVE AllTrue'
  BY <1>1, <1>2 DEF TruthInv
<1>3. prefs'.enabled
  BY PrefsStay DEF AllTrue
<1>4. ASSUME NEW j \in Jobs, Steps(j) PROVE AllTrue'
  <2>1. Single'
    BY <1>4, SingleStep DEF AllTrue
  <2>2. \A k \in Jobs : JobTrue(k)'
    BY <1>4, JobTrueOfSelf, JobTrueOfOther DEF AllTrue
  <2>3. \A p \in Hours : RowTrue(p)'
    BY <1>4, ToldStep, AgreedStep, OutIsSentStep DEF RowTrue
  <2>. QED
    BY <1>3, <2>1, <2>2, <2>3 DEF AllTrue
<1>5. CASE Surroundings
  BY <1>3, <1>5, QuietSurroundings DEF AllTrue
<1>6. CASE UNCHANGED vars
  BY <1>6 DEF vars, AllTrue, Single, Scheduling, JobTrue, RowTrue, Told, Agreed, SentIsOut, OutIsSent,
     IsSent
<1>. QED
  BY <1>4, <1>5, <1>6, NextIs

LEMMA TruthInit == Init => TruthInv
<1>. SUFFICES ASSUME Init PROVE TruthInv
  OBVIOUS
<1>1. prefs.enabled
  BY DEF Init, DefaultPrefs
<1>2. Single /\ HoldInv /\ \A j \in Jobs : JobTrue(j)
  BY DEF Init, Single, Scheduling, HoldInv, Sending, JobTrue
<1>3. \A p \in Hours : RowTrue(p)
  BY DEF Init, RowTrue, Told, Agreed, SentIsOut, OutIsSent, IsSent
<1>. QED
  BY <1>1, <1>2, <1>3, TypeInit DEF TruthInv, AllTrue

(* If jobs did not overlap and nothing else got in their way, the run rows  *)
(* tell what happened: a period has a digest in the outbox exactly if its   *)
(* run is queued or sent, and sent exactly if it was delivered.             *)
THEOREM RunsTellTheTruth == Spec => []RunTellsTheTruth
<1>1. ASSUME TruthInv PROVE RunTellsTheTruth
  <2>. SUFFICES ASSUME Resting, Quiet, NEW p \in Hours
                PROVE  /\ outbox[p] /= Nothing <=> run[p] /= Nothing /\ run[p].status \in {"queued", "sent"}
                       /\ outbox[p] /= Nothing =>
                            (outbox[p].status = "delivered" <=> run[p].status = "sent")
    BY DEF RunTellsTheTruth, Quiet
  <2>1. RowTrue(p)
    BY <1>1 DEF TruthInv, AllTrue
  <2>2. outbox[p] /= Nothing => run[p] /= Nothing
    BY <2>1 DEF RowTrue, Told, Resting
  <2>3. outbox[p] /= Nothing /\ outbox[p].status = "delivered" => IsSent(p)
    BY <2>1 DEF RowTrue, OutIsSent, Resting
  <2>. QED
    BY <2>1, <2>2, <2>3 DEF RowTrue, Agreed, SentIsOut, IsSent
<1>. QED
  BY <1>1, TruthInit, TruthStep, PTL DEF Spec
=============================================================================
