------------------------ MODULE MonitorScheduleProofs ------------------------
(***************************************************************************)
(* Proofs about MonitorSchedule, for any number of servers and monitors,   *)
(* any limits and any bound of time.                                       *)
(*                                                                         *)
(* The invariant of types says in addition what each server carries from   *)
(* one statement to the next: which monitor it has in hand, and that the   *)
(* slots a dispatcher chose are not over.  The bounds on open runs follow  *)
(* from counting the servers that have passed a check and not yet inserted *)
(* their run as if they had.                                               *)
(* The page of the monitors holds the cap because the excess it read is    *)
(* the excess there is, as long as one server works at a time.             *)
(***************************************************************************)
EXTENDS MonitorSchedule, FiniteSetTheorems, TLAPS

-----------------------------------------------------------------------------
(* What a server carries                                                    *)

InHand == {"count", "push", "check", "insert", "advance", "reactivate", "baseline", "resume"}
Dispatching == {"dispatch", "count", "push", "check", "insert", "advance", "block"}
Chosen == {"count", "push", "check", "insert", "advance"}

JobOk(label, j) ==
  /\ j.slot \in [Monitors -> 0 .. MaxClock + 1]
  /\ label \in InHand => j.at \in Monitors /\ j.at \notin j.todo
  /\ label = "baseline" => j.budget > 0
  /\ label = "idle" => j = NoJob
  /\ label = "fail" => j.run \in Keys /\ j.run # Nobody
  /\ label \in {"needs", "activate"} => j.todo = {}
  /\ label \in Dispatching => \A m \in j.todo : j.slot[m] >= j.now
  /\ label \in Chosen => j.slot[j.at] >= j.now

Jobs == \A s \in Servers : JobOk(pc[s], job[s])

TypeInv == TypeOK /\ Jobs

(* What a step of server s must keep.                                       *)
DataOk ==
  /\ monitor \in [Monitors -> Row]
  /\ run \in [Keys -> {"absent", "open", "done"}]
  /\ used \in 0 .. Threshold
  /\ supported \subseteq Monitors
  /\ authorized \in BOOLEAN
  /\ clock \in 0 .. MaxClock
  /\ changes \in 0 .. MaxChanges

Moves(s, label, j) ==
  /\ label \in Labels /\ j \in Job /\ JobOk(label, j)
  /\ pc' = [pc EXCEPT ![s] = label]
  /\ job' = [job EXCEPT ![s] = j]

LEMMA Moving ==
  ASSUME TypeInv, NEW s \in Servers, NEW label, NEW j, Moves(s, label, j), DataOk', Remember
  PROVE  TypeInv'
<1>1. held' \in [Servers -> SUBSET Monitors]
  BY DEF Remember
<1>2. TypeOK'
  BY <1>1 DEF TypeInv, TypeOK, Moves, DataOk
<1>3. Jobs'
  BY DEF TypeInv, TypeOK, Jobs, Moves
<1>. QED
  BY <1>2, <1>3 DEF TypeInv

LEMMA Staying ==
  ASSUME TypeInv, UNCHANGED <<pc, job>>, DataOk', Remember
  PROVE  TypeInv'
<1>1. held' \in [Servers -> SUBSET Monitors]
  BY DEF Remember
<1>. QED
  BY <1>1 DEF TypeInv, TypeOK, Jobs, DataOk

LEMMA NoJobOk ==
  /\ NoJob \in Job
  /\ \A label \in Labels \ (InHand \cup {"fail"}) : JobOk(label, NoJob)
BY LimitsAssumption DEF NoJob, Job, JobOk, Slots, InHand, Chosen

(* The request of s is over.                                                *)
LEMMA Returning ==
  ASSUME NEW s \in Servers, Return(s)
  PROVE  Moves(s, "idle", NoJob)
BY NoJobOk DEF Return, Goto, Moves, Labels, InHand

(* Writes of one row of the monitors.                                       *)
LEMMA WithIsRow ==
  ASSUME TypeInv, NEW m \in Monitors, NEW status \in {"absent", "configured", "active", "paused", "blocked"},
         NEW reason \in Reasons
  PROVE  With(m, status, reason) \in [Monitors -> Row]
BY DEF With, TypeInv, TypeOK, Row

LEMMA NextIsSlot ==
  ASSUME NEW slot \in 0 .. MaxClock + 1
  PROVE  NextSlot(slot) \in Slots
BY LimitsAssumption DEF NextSlot, Slots

LEMMA NextIsRow ==
  ASSUME TypeInv, NEW m \in Monitors, NEW next \in Slots
  PROVE  [monitor EXCEPT ![m].next = next] \in [Monitors -> Row]
BY DEF TypeInv, TypeOK, Row

(* A set of monitors that is not empty has a first.                         *)
LEMMA FirstIsMember ==
  ASSUME NEW S \in SUBSET Monitors, S # {}
  PROVE  First(S) \in S
<1>. DEFINE Before(x) == {y \in S : y <= x}
            D == {Before(x) : x \in S}
            R == StrictSubsetOrdering(S)
<1>1. IsFiniteSet(S) /\ S \subseteq Nat
  BY FS_Subset, MonitorsAssumption
<1>2. D \subseteq FiniteSubsetsOf(S) /\ D # {}
  <2>1. FiniteSubsetsOf(S) = SUBSET S
    BY <1>1, FS_FiniteSubsetsOfFinite
  <2>2. \A x \in S : Before(x) \in SUBSET S
    OBVIOUS
  <2>3. D \subseteq SUBSET S
    BY <2>2
  <2>4. D # {}
    OBVIOUS
  <2>. QED
    BY <2>1, <2>3, <2>4
<1>3. IsWellFoundedOn(R, FiniteSubsetsOf(S))
  BY FS_StrictSubsetOrderingWellFounded
<1>. HIDE DEF D, R
<1>4. PICK d \in D : \A e \in D : ~(<<e, d>> \in R)
  BY <1>2, <1>3, WFMin
<1>. USE DEF D, R
<1>5. PICK x \in S : d = Before(x)
  OBVIOUS
<1>6. \A y \in S : x <= y
  <2>. SUFFICES ASSUME NEW y \in S, ~(x <= y) PROVE FALSE
    OBVIOUS
  <2>1. x \in Nat /\ y \in Nat /\ y < x
    BY <1>1
  <2>2. Before(y) \subseteq Before(x)
    <3>1. \A z \in S : z <= y => z <= x
      BY <1>1, <2>1
    <3>. QED
      BY <3>1
  <2>3. x \in Before(x) /\ x \notin Before(y)
    <3>1. x \in S /\ x <= x
      BY <2>1
    <3>. QED
      BY <3>1
  <2>4. /\ Before(x) \in SUBSET S /\ Before(y) \in SUBSET S
        /\ Before(y) # Before(x) /\ Before(y) \in D
    <3>1. Before(x) \in SUBSET S /\ Before(y) \in SUBSET S
      OBVIOUS
    <3>. HIDE DEF Before
    <3>. QED
      BY <2>3, <3>1
  <2>. HIDE DEF Before
  <2>5. <<Before(y), Before(x)>> \in R
    BY <2>2, <2>4 DEF StrictSubsetOrdering
  <2>. QED
    BY <1>4, <1>5, <2>4, <2>5
<1>. QED
  BY <1>6 DEF First

-----------------------------------------------------------------------------
(* Types, action by action                                                  *)

LEMMA JobOf ==
  ASSUME TypeInv, NEW s \in Servers
  PROVE  /\ pc[s] \in Labels /\ job[s] \in Job /\ JobOk(pc[s], job[s])
         /\ job \in [Servers -> Job]
         /\ job[s].todo \in SUBSET Monitors
BY DEF TypeInv, TypeOK, Jobs, Job

LEMMA ChosenAreSlots ==
  ASSUME NEW slot \in [Monitors -> 0 .. MaxClock + 1]
  PROVE  slot \in [Monitors -> Slots]
<1>1. 0 .. MaxClock + 1 \subseteq Slots
  BY LimitsAssumption DEF Slots
<1>. QED
  BY <1>1

(* A step that only goes elsewhere.                                         *)
LEMMA GoingTo ==
  ASSUME TypeInv, NEW s \in Servers, NEW label \in Labels, JobOk(label, job[s]),
         Goto(s, label), UNCHANGED job
  PROVE  Moves(s, label, job[s])
BY JobOf DEF Goto, Moves, TypeInv, TypeOK

LEMMA DismissingTypes ==
  ASSUME TypeInv, NEW s \in Servers, pc[s] \in Chosen, NEW label \in {"dispatch", "block"},
         Goto(s, label), Dismiss(s)
  PROVE  \E j : Moves(s, label, j)
<1>. DEFINE j == [job[s] EXCEPT !.at = Nobody, !.slot = [job[s].slot EXCEPT ![job[s].at] = 0]]
<1>1. /\ job[s] \in Job /\ JobOk(pc[s], job[s]) /\ job \in [Servers -> Job]
      /\ job[s].at \in Monitors /\ job[s].at \notin job[s].todo
      /\ \A m \in job[s].todo : m \in Monitors /\ job[s].slot[m] >= job[s].now
      /\ job[s].slot \in [Monitors -> 0 .. MaxClock + 1]
  BY JobOf DEF JobOk, InHand, Chosen, Dispatching
<1>2. job' = [job EXCEPT ![s] = j]
  BY <1>1 DEF Dismiss, Job
<1>3. [job[s].slot EXCEPT ![job[s].at] = 0] \in [Monitors -> 0 .. MaxClock + 1]
  BY <1>1, LimitsAssumption
<1>4. /\ j \in Job /\ j.todo = job[s].todo /\ j.now = job[s].now
      /\ j.slot = [job[s].slot EXCEPT ![job[s].at] = 0]
  <2>1. [job[s].slot EXCEPT ![job[s].at] = 0] \in [Monitors -> Slots]
    BY <1>3, ChosenAreSlots
  <2>. QED
    BY <1>1, <2>1 DEF Job
<1>5. \A m \in j.todo : j.slot[m] >= j.now
  BY <1>1, <1>4
<1>6. JobOk(label, j)
  BY <1>3, <1>4, <1>5 DEF JobOk, InHand, Chosen
<1>. QED
  BY <1>2, <1>4, <1>6 DEF Moves, Goto, Labels

LEMMA StartDispatchTypes ==
  ASSUME TypeInv, NEW s \in Servers, StartDispatch(s), Remember
  PROVE  TypeInv'
<1>1. PICK fresh \in SUBSET Due :
        job' = [job EXCEPT ![s] = [NoJob EXCEPT !.todo = Due, !.now = clock,
                  !.slot = [m \in Monitors |->
                     IF m \in Due THEN ResolveDueScheduledFor(monitor[m].next, clock, m \in fresh)
                     ELSE 0]]]
  BY DEF StartDispatch
<1>. DEFINE slot == [m \in Monitors |->
                IF m \in Due THEN ResolveDueScheduledFor(monitor[m].next, clock, m \in fresh) ELSE 0]
            j == [NoJob EXCEPT !.todo = Due, !.now = clock, !.slot = slot]
<1>2. clock \in 0 .. MaxClock /\ Due \subseteq Monitors
  BY DEF TypeInv, TypeOK, Due, Having
<1>3. \A m \in Due : ResolveDueScheduledFor(monitor[m].next, clock, m \in fresh) \in clock .. clock + 1
  BY <1>2 DEF ResolveDueScheduledFor, NextSlot
<1>4. slot \in [Monitors -> 0 .. MaxClock + 1] /\ \A m \in Due : slot[m] >= clock
  BY <1>2, <1>3, LimitsAssumption
<1>. HIDE DEF slot
<1>5. /\ j \in Job /\ j.todo = Due /\ j.now = clock /\ j.slot = slot
  <2>1. slot \in [Monitors -> Slots]
    BY <1>4, ChosenAreSlots
  <2>. QED
    BY <1>2, <2>1, LimitsAssumption, NoJobOk DEF Job, NoJob
<1>6. JobOk("dispatch", j)
  BY <1>4, <1>5 DEF JobOk, InHand, Chosen
<1>7. job' = [job EXCEPT ![s] = j]
  BY <1>1 DEF slot
<1>8. Moves(s, "dispatch", j)
  BY <1>5, <1>6, <1>7 DEF Moves, StartDispatch, Goto, Labels
<1>9. DataOk'
  BY DEF StartDispatch, DataOk, TypeInv, TypeOK
<1>. QED
  BY <1>8, <1>9, Moving

LEMMA TakeTypes ==
  ASSUME TypeInv, NEW s \in Servers, NEW m \in Monitors, Take(s, m), Remember
  PROVE  TypeInv'
<1>1. /\ pc[s] = "dispatch" /\ m \in job[s].todo /\ job[s] \in Job /\ job \in [Servers -> Job]
      /\ \A k \in job[s].todo : job[s].slot[k] >= job[s].now
      /\ job[s].slot \in [Monitors -> 0 .. MaxClock + 1]
  BY JobOf DEF Take, JobOk, Dispatching
<1>2. DataOk'
  BY WithIsRow DEF Take, DataOk, TypeInv, TypeOK, Reasons
<1>3. CASE m \in supported /\ authorized
  <2>. DEFINE j == [job[s] EXCEPT !.todo = @ \ {m}, !.at = m]
  <2>1. /\ j \in Job /\ j.todo = job[s].todo \ {m} /\ j.at = m
        /\ j.slot = job[s].slot /\ j.now = job[s].now
    BY <1>1 DEF Job
  <2>2. job' = [job EXCEPT ![s] = j]
    BY <1>1, <1>3 DEF Take, Job
  <2>. HIDE DEF j
  <2>3. JobOk("count", j)
    BY <1>1, <2>1 DEF JobOk
  <2>4. Moves(s, "count", j)
    BY <1>3, <2>1, <2>2, <2>3 DEF Moves, Take, Goto, Labels
  <2>. QED
    BY <1>2, <2>4, Moving
<1>4. CASE ~(m \in supported /\ authorized)
  <2>. DEFINE slot == [job[s].slot EXCEPT ![m] = 0]
              j == [job[s] EXCEPT !.todo = @ \ {m}, !.slot = slot]
  <2>1. slot \in [Monitors -> 0 .. MaxClock + 1] /\ \A k \in Monitors \ {m} : slot[k] = job[s].slot[k]
    BY <1>1, LimitsAssumption
  <2>2. job' = [job EXCEPT ![s] = j]
    BY <1>1, <1>4 DEF Take, Job
  <2>. HIDE DEF slot
  <2>3. /\ j \in Job /\ j.todo = job[s].todo \ {m} /\ j.slot = slot /\ j.now = job[s].now
    <3>1. slot \in [Monitors -> Slots]
      BY <2>1, ChosenAreSlots
    <3>. QED
      BY <1>1, <3>1 DEF Job
  <2>. HIDE DEF j
  <2>4. \A k \in j.todo : j.slot[k] >= j.now
    BY <1>1, <2>1, <2>3 DEF Job
  <2>5. JobOk("dispatch", j)
    BY <2>1, <2>3, <2>4 DEF JobOk, InHand, Chosen
  <2>6. pc' = [pc EXCEPT ![s] = "dispatch"]
    BY <1>1, <1>4 DEF Take, TypeInv, TypeOK
  <2>7. Moves(s, "dispatch", j)
    BY <2>2, <2>3, <2>5, <2>6 DEF Moves, Labels
  <2>. QED
    BY <1>2, <2>7, Moving
<1>. QED
  BY <1>3, <1>4

LEMMA EndDispatchTypes ==
  ASSUME TypeInv, NEW s \in Servers, EndDispatch(s), Remember
  PROVE  TypeInv'
<1>1. DataOk'
  BY DEF EndDispatch, DataOk, TypeInv, TypeOK
<1>. QED
  BY <1>1, Returning, Moving DEF EndDispatch

LEMMA CountTypes ==
  ASSUME TypeInv, NEW s \in Servers, CountOpenRuns(s), Remember
  PROVE  TypeInv'
<1>1. DataOk'
  BY DEF CountOpenRuns, DataOk, TypeInv, TypeOK
<1>2. JobOk("push", job[s]) /\ JobOk("check", job[s])
  BY JobOf DEF CountOpenRuns, JobOk, InHand, Chosen, Dispatching
<1>3. \E label \in {"push", "check"} : Goto(s, label) /\ UNCHANGED job
  BY DEF CountOpenRuns
<1>4. \E label : Moves(s, label, job[s])
  BY <1>2, <1>3, GoingTo DEF Labels
<1>. QED
  BY <1>1, <1>4, Moving

LEMMA PushTypes ==
  ASSUME TypeInv, NEW s \in Servers, PushForward(s), Remember
  PROVE  TypeInv'
<1>1. job[s].at \in Monitors /\ job[s].now \in 0 .. MaxClock
  BY JobOf DEF PushForward, JobOk, InHand, Job
<1>2. NextSlot(job[s].now) \in Slots
  BY <1>1, NextIsSlot, LimitsAssumption
<1>3. DataOk'
  BY <1>1, <1>2, NextIsRow DEF PushForward, DataOk, TypeInv, TypeOK
<1>4. \E j : Moves(s, "dispatch", j)
  BY DismissingTypes DEF PushForward, Chosen
<1>. QED
  BY <1>3, <1>4, Moving

LEMMA CheckTypes ==
  ASSUME TypeInv, NEW s \in Servers, CheckLimits(s), Remember
  PROVE  TypeInv'
<1>1. DataOk'
  BY DEF CheckLimits, DataOk, TypeInv, TypeOK
<1>2. CASE Dismiss(s)
  <2>1. \E label \in {"dispatch", "block"} : Goto(s, label)
    <3>1. CASE used >= Threshold
      BY <3>1 DEF CheckLimits
    <3>2. CASE ~(used >= Threshold) /\ ~BelowCap
      BY <3>2 DEF CheckLimits
    <3>3. CASE ~(used >= Threshold) /\ BelowCap
      <4>1. job[s].at \in Monitors /\ UNCHANGED job /\ job \in [Servers -> Job]
        BY <3>3, JobOf DEF CheckLimits, JobOk, InHand
      <4>2. job'[s].at = Nobody
        BY <1>2, <4>1 DEF Dismiss, Job
      <4>. QED
        BY <4>1, <4>2, MonitorsAssumption
    <3>. QED
      BY <3>1, <3>2, <3>3
  <2>. QED
    BY <1>1, <1>2, <2>1, DismissingTypes, Moving DEF CheckLimits, Chosen
<1>3. CASE Goto(s, "insert") /\ UNCHANGED job
  <2>1. JobOk("insert", job[s])
    BY JobOf DEF CheckLimits, JobOk, InHand, Chosen, Dispatching
  <2>2. Moves(s, "insert", job[s])
    BY <1>3, <2>1, GoingTo DEF Labels
  <2>. QED
    BY <1>1, <2>2, Moving
<1>. QED
  BY <1>2, <1>3 DEF CheckLimits

LEMMA InsertedIsRun ==
  ASSUME TypeInv, NEW k
  PROVE  Inserted(k) \in [Keys -> {"absent", "open", "done"}]
BY DEF Inserted, TypeInv, TypeOK

LEMMA InsertTypes ==
  ASSUME TypeInv, NEW s \in Servers, InsertRun(s), Remember
  PROVE  TypeInv'
<1>1. DataOk'
  BY InsertedIsRun DEF InsertRun, DataOk, TypeInv, TypeOK
<1>2. JobOk("advance", job[s])
  BY JobOf DEF InsertRun, JobOk, InHand, Chosen, Dispatching
<1>3. Moves(s, "advance", job[s])
  BY <1>2, GoingTo DEF InsertRun, AdvanceAnyway, Labels
<1>. QED
  BY <1>1, <1>3, Moving

LEMMA AdvanceTypes ==
  ASSUME TypeInv, NEW s \in Servers, Advance(s), Remember
  PROVE  TypeInv'
<1>1. job[s].at \in Monitors /\ job[s].slot[job[s].at] \in 0 .. MaxClock + 1
  BY JobOf DEF Advance, JobOk, InHand
<1>2. NextSlot(job[s].slot[job[s].at]) \in Slots
  BY <1>1, NextIsSlot
<1>3. DataOk'
  BY <1>1, <1>2, NextIsRow DEF Advance, DataOk, TypeInv, TypeOK
<1>4. \E j : Moves(s, "dispatch", j)
  BY DismissingTypes DEF Advance, Chosen
<1>. QED
  BY <1>3, <1>4, Moving

LEMMA BlockTypes ==
  ASSUME TypeInv, NEW s \in Servers, BlockMonitorsForUsageLimit(s), Remember
  PROVE  TypeInv'
<1>1. DataOk'
  BY DEF BlockMonitorsForUsageLimit, DataOk, TypeInv, TypeOK, Row, Reasons
<1>2. CASE Return(s)
  BY <1>1, <1>2, Returning, Moving
<1>3. CASE Goto(s, "dispatch") /\ UNCHANGED job
  <2>1. JobOk("dispatch", job[s])
    BY JobOf DEF BlockMonitorsForUsageLimit, JobOk, InHand, Chosen, Dispatching
  <2>2. Moves(s, "dispatch", job[s])
    BY <1>3, <2>1, GoingTo DEF Labels
  <2>. QED
    BY <1>1, <2>2, Moving
<1>4. CASE job[s].run # Nobody /\ Goto(s, "fail") /\ UNCHANGED job
  <2>1. JobOk("fail", job[s])
    BY <1>4, JobOf DEF BlockMonitorsForUsageLimit, Job, JobOk, InHand, Chosen, Dispatching
  <2>2. Moves(s, "fail", job[s])
    BY <1>4, <2>1, GoingTo DEF Labels
  <2>. QED
    BY <1>1, <2>2, Moving
<1>. QED
  BY <1>2, <1>3, <1>4 DEF BlockMonitorsForUsageLimit

LEMMA HavingAreMonitors == \A status : Having(status) \subseteq Monitors
BY DEF Having

LEMMA OpenPageTypes ==
  ASSUME TypeInv, NEW s \in Servers, OpenPage(s), Remember
  PROVE  TypeInv'
<1>. DEFINE todo == BlockedFor(RESTORABLE_PAUSE_REASONS)
            j == [NoJob EXCEPT !.todo = todo]
<1>1. todo \in SUBSET Monitors
  BY DEF BlockedFor, Having
<1>2. job' = [job EXCEPT ![s] = j] /\ pc' = [pc EXCEPT ![s] = "restore"]
  BY DEF OpenPage, Goto
<1>. HIDE DEF todo
<1>3. j \in Job /\ j.slot = NoJob.slot
  BY <1>1, NoJobOk DEF Job, NoJob
<1>4. NoJob.slot \in [Monitors -> 0 .. MaxClock + 1]
  BY LimitsAssumption DEF NoJob
<1>5. JobOk("restore", j)
  BY <1>3, <1>4 DEF JobOk, InHand, Dispatching, Chosen
<1>6. Moves(s, "restore", j)
  BY <1>2, <1>3, <1>5 DEF Moves, Labels
<1>7. DataOk'
  BY DEF OpenPage, DataOk, TypeInv, TypeOK
<1>. QED
  BY <1>6, <1>7, Moving

LEMMA RestoreTypes ==
  ASSUME TypeInv, NEW s \in Servers, Restore(s), Remember
  PROVE  TypeInv'
<1>. DEFINE m == First(job[s].todo)
<1>1. DataOk'
  BY DEF Restore, DataOk, TypeInv, TypeOK
<1>2. /\ pc[s] = "restore" /\ job[s] \in Job /\ job \in [Servers -> Job]
      /\ job[s].todo \in SUBSET Monitors
      /\ job[s].slot \in [Monitors -> 0 .. MaxClock + 1]
  BY JobOf DEF Restore, JobOk
<1>3. CASE job[s].todo = {}
  <2>. DEFINE j == [job[s] EXCEPT !.todo = Excess]
  <2>1. Excess \in SUBSET Monitors
    BY HavingAreMonitors DEF Excess
  <2>2. job' = [job EXCEPT ![s] = j] /\ pc' = [pc EXCEPT ![s] = "trim"]
    BY <1>2, <1>3 DEF Restore, Goto, Job
  <2>3. j \in Job /\ j.slot = job[s].slot
    BY <1>2, <2>1 DEF Job
  <2>4. JobOk("trim", j)
    BY <1>2, <2>3 DEF JobOk, InHand, Dispatching, Chosen
  <2>5. Moves(s, "trim", j)
    BY <2>2, <2>3, <2>4 DEF Moves, Labels
  <2>. QED
    BY <1>1, <2>5, Moving
<1>4. CASE job[s].todo # {} /\ Cardinality(Having("active")) < MaxActive /\ m \in supported
  <2>. DEFINE j == [job[s] EXCEPT !.todo = @ \ {m}, !.at = m]
  <2>1. m \in Monitors
    BY <1>2, <1>4, FirstIsMember
  <2>2. job' = [job EXCEPT ![s] = j] /\ pc' = [pc EXCEPT ![s] = "reactivate"]
    BY <1>2, <1>4 DEF Restore, Goto, Job
  <2>. HIDE DEF m
  <2>3. j \in Job /\ j.slot = job[s].slot /\ j.at = m /\ j.todo = job[s].todo \ {m}
    BY <1>2, <2>1 DEF Job
  <2>. HIDE DEF j
  <2>4. JobOk("reactivate", j)
    BY <1>2, <2>1, <2>3 DEF JobOk, InHand, Dispatching, Chosen
  <2>5. Moves(s, "reactivate", j)
    BY <2>2, <2>3, <2>4 DEF Moves, Labels
  <2>. QED
    BY <1>1, <2>5, Moving
<1>5. CASE job[s].todo # {} /\ ~(Cardinality(Having("active")) < MaxActive /\ m \in supported)
  <2>. DEFINE j == [job[s] EXCEPT !.todo = @ \ {m}]
  <2>1. job' = [job EXCEPT ![s] = j] /\ pc' = [pc EXCEPT ![s] = "restore"]
    BY <1>2, <1>5 DEF Restore, Job, TypeInv, TypeOK
  <2>. HIDE DEF m
  <2>2. j \in Job /\ j.slot = job[s].slot
    BY <1>2 DEF Job
  <2>. HIDE DEF j
  <2>3. JobOk("restore", j)
    BY <1>2, <2>2 DEF JobOk, InHand, Dispatching, Chosen
  <2>4. Moves(s, "restore", j)
    BY <2>1, <2>2, <2>3 DEF Moves, Labels
  <2>. QED
    BY <1>1, <2>4, Moving
<1>. QED
  BY <1>3, <1>4, <1>5

LEMMA ReactivateTypes ==
  ASSUME TypeInv, NEW s \in Servers, Reactivate(s), Remember
  PROVE  TypeInv'
<1>. DEFINE j == [job[s] EXCEPT !.at = Nobody]
<1>1. /\ job[s] \in Job /\ job \in [Servers -> Job] /\ job[s].at \in Monitors
      /\ job[s].slot \in [Monitors -> 0 .. MaxClock + 1]
  BY JobOf DEF Reactivate, JobOk, InHand
<1>2. DataOk'
  BY <1>1, WithIsRow DEF Reactivate, DataOk, TypeInv, TypeOK, Reasons
<1>3. job' = [job EXCEPT ![s] = j] /\ pc' = [pc EXCEPT ![s] = "restore"]
  BY <1>1 DEF Reactivate, Goto, Job
<1>4. j \in Job /\ j.slot = job[s].slot
  BY <1>1 DEF Job
<1>. HIDE DEF j
<1>5. Moves(s, "restore", j)
  BY <1>1, <1>3, <1>4 DEF Moves, Labels, JobOk, InHand, Dispatching, Chosen
<1>. QED
  BY <1>2, <1>5, Moving

LEMMA TrimTypes ==
  ASSUME TypeInv, NEW s \in Servers, Trim(s), Remember
  PROVE  TypeInv'
<1>. DEFINE m == First(job[s].todo)
<1>1. /\ pc[s] = "trim" /\ job[s] \in Job /\ job \in [Servers -> Job]
      /\ job[s].todo \in SUBSET Monitors
      /\ job[s].slot \in [Monitors -> 0 .. MaxClock + 1]
  BY JobOf DEF Trim, JobOk
<1>2. CASE job[s].todo = {}
  <2>1. DataOk' /\ Goto(s, "needs") /\ UNCHANGED job
    BY <1>2 DEF Trim, DataOk, TypeInv, TypeOK
  <2>2. JobOk("needs", job[s])
    BY <1>1, <1>2 DEF JobOk, InHand, Dispatching, Chosen
  <2>3. Moves(s, "needs", job[s])
    BY <2>1, <2>2, GoingTo DEF Labels
  <2>. QED
    BY <2>1, <2>3, Moving
<1>3. CASE job[s].todo # {}
  <2>. DEFINE j == [job[s] EXCEPT !.todo = @ \ {m}]
  <2>1. m \in Monitors
    BY <1>1, <1>3, FirstIsMember
  <2>2. DataOk'
    BY <1>3, <2>1, WithIsRow DEF Trim, DataOk, TypeInv, TypeOK, Reasons
  <2>3. job' = [job EXCEPT ![s] = j] /\ pc' = [pc EXCEPT ![s] = "trim"]
    BY <1>1, <1>3 DEF Trim, Job, TypeInv, TypeOK
  <2>. HIDE DEF m
  <2>4. j \in Job /\ j.slot = job[s].slot
    BY <1>1 DEF Job
  <2>. HIDE DEF j
  <2>5. Moves(s, "trim", j)
    BY <1>1, <2>3, <2>4 DEF Moves, Labels, JobOk, InHand, Dispatching, Chosen
  <2>. QED
    BY <2>2, <2>5, Moving
<1>. QED
  BY <1>2, <1>3

LEMMA NeedsTypes ==
  ASSUME TypeInv, NEW s \in Servers, NeedsActivation(s), Remember
  PROVE  TypeInv'
<1>1. DataOk'
  BY DEF NeedsActivation, DataOk, TypeInv, TypeOK
<1>2. CASE Return(s)
  BY <1>1, <1>2, Returning, Moving
<1>3. CASE Goto(s, "activate") /\ UNCHANGED job
  <2>1. JobOk("activate", job[s])
    BY JobOf DEF NeedsActivation, JobOk, InHand, Dispatching, Chosen
  <2>2. Moves(s, "activate", job[s])
    BY <1>3, <2>1, GoingTo DEF Labels
  <2>. QED
    BY <1>1, <2>2, Moving
<1>. QED
  BY <1>2, <1>3 DEF NeedsActivation

LEMMA CreateTypes ==
  ASSUME TypeInv, NEW s \in Servers, CreateMonitor(s), Remember
  PROVE  TypeInv'
<1>1. First(Having("absent")) \in Monitors
  BY FirstIsMember, HavingAreMonitors DEF CreateMonitor
<1>2. DataOk'
  BY <1>1, WithIsRow DEF CreateMonitor, DataOk, TypeInv, TypeOK, Reasons
<1>3. JobOk("activate", job[s])
  BY JobOf, NoJobOk DEF CreateMonitor, JobOk, Labels, InHand
<1>4. Moves(s, "activate", job[s])
  BY <1>3, GoingTo DEF CreateMonitor, Labels
<1>. QED
  BY <1>2, <1>4, Moving

LEMMA ActivateTypes ==
  ASSUME TypeInv, NEW s \in Servers, Activate(s), Remember
  PROVE  TypeInv'
<1>1. DataOk'
  BY DEF Activate, DataOk, TypeInv, TypeOK
<1>2. CASE Return(s)
  BY <1>1, <1>2, Returning, Moving
<1>3. CASE Goto(s, "block") /\ UNCHANGED job
  <2>1. JobOk("block", job[s])
    BY JobOf DEF Activate, JobOk, InHand, Dispatching, Chosen
  <2>2. Moves(s, "block", job[s])
    BY <1>3, <2>1, GoingTo DEF Labels
  <2>. QED
    BY <1>1, <2>2, Moving
<1>4. CASE authorized /\ used < Threshold
  <2>. DEFINE j == [NoJob EXCEPT !.todo = Candidates, !.now = clock, !.budget = MaxBaselines]
  <2>1. job' = [job EXCEPT ![s] = j] /\ pc' = [pc EXCEPT ![s] = "consider"]
    BY <1>4, LimitsAssumption DEF Activate, Goto, TypeInv, TypeOK
  <2>2. Candidates \in SUBSET Monitors /\ clock \in 0 .. MaxClock
    BY DEF Candidates, Having, BlockedFor, TypeInv, TypeOK
  <2>3. j \in Job /\ j.slot = NoJob.slot
    <3>1. MaxBaselines \in 0 .. MaxBaselines
      BY LimitsAssumption
    <3>. QED
      BY <2>2, <3>1, NoJobOk DEF Job, NoJob
  <2>4. NoJob.slot \in [Monitors -> 0 .. MaxClock + 1]
    BY LimitsAssumption DEF NoJob
  <2>. HIDE DEF j
  <2>5. Moves(s, "consider", j)
    BY <2>1, <2>3, <2>4 DEF Moves, Labels, JobOk, InHand, Dispatching, Chosen
  <2>. QED
    BY <1>1, <2>5, Moving
<1>5. authorized \in BOOLEAN /\ used \in 0 .. Threshold /\ Threshold \in Nat
  BY LimitsAssumption DEF TypeInv, TypeOK
<1>. QED
  BY <1>2, <1>3, <1>4, <1>5 DEF Activate

LEMMA ConsiderTypes ==
  ASSUME TypeInv, NEW s \in Servers, Consider(s), Remember
  PROVE  TypeInv'
<1>. DEFINE m == First(job[s].todo)
<1>1. /\ pc[s] = "consider" /\ job[s] \in Job /\ job \in [Servers -> Job]
      /\ job[s].todo \in SUBSET Monitors /\ m \in Monitors
      /\ job[s].slot \in [Monitors -> 0 .. MaxClock + 1]
      /\ job[s].now \in 0 .. MaxClock /\ job[s].activated \in 0 .. MaxActive
      /\ job[s].budget \in 0 .. MaxBaselines
  BY JobOf, FirstIsMember DEF Consider, JobOk, Job
<1>2. CASE \E reason \in {"unsupported_surface", "max_active_monitors"} : Block(s, m, reason)
  <2>. DEFINE j == [job[s] EXCEPT !.todo = @ \ {m}]
  <2>1. DataOk'
    BY <1>1, <1>2, WithIsRow DEF Consider, Block, DataOk, TypeInv, TypeOK, Reasons
  <2>2. job' = [job EXCEPT ![s] = j] /\ pc' = [pc EXCEPT ![s] = "consider"]
    BY <1>1, <1>2 DEF Block, Job, TypeInv, TypeOK
  <2>. HIDE DEF m
  <2>3. j \in Job /\ j.slot = job[s].slot
    BY <1>1 DEF Job
  <2>. HIDE DEF j
  <2>4. Moves(s, "consider", j)
    BY <1>1, <2>2, <2>3 DEF Moves, Labels, JobOk, InHand, Dispatching, Chosen
  <2>. QED
    BY <2>1, <2>4, Moving
<1>3. CASE m \in supported /\ ~AtCap(s)
  <2>. DEFINE j == [job[s] EXCEPT !.todo = @ \ {m}, !.at = m, !.activated = @ + 1]
              row == [status |-> "active", reason |-> "none", next |-> NextSlot(job[s].now)]
  <2>1. NextSlot(job[s].now) \in Slots
    BY <1>1, NextIsSlot, LimitsAssumption
  <2>2. row \in Row
    BY <2>1 DEF Row, Reasons
  <2>3. /\ monitor' = [monitor EXCEPT ![m] = row]
        /\ job' = [job EXCEPT ![s] = j]
        /\ \/ job[s].budget > 0 /\ Goto(s, "baseline")
           \/ UNCHANGED pc
        /\ UNCHANGED <<run, used, supported, authorized, clock, changes>>
    BY <1>1, <1>3 DEF Consider, Job
  <2>. HIDE DEF m, row
  <2>4. DataOk'
    BY <2>2, <2>3 DEF DataOk, TypeInv, TypeOK
  <2>5. job[s].activated + 1 \in 0 .. MaxActive
    BY <1>1, <1>3, LimitsAssumption DEF AtCap
  <2>6. /\ j \in Job /\ j.slot = job[s].slot /\ j.at = m /\ j.todo = job[s].todo \ {m}
        /\ j.budget = job[s].budget
    BY <1>1, <2>5 DEF Job
  <2>. HIDE DEF j
  <2>7. JobOk("consider", j) /\ (job[s].budget > 0 => JobOk("baseline", j))
    BY <1>1, <2>6 DEF JobOk, InHand, Dispatching, Chosen
  <2>8. \/ pc' = [pc EXCEPT ![s] = "baseline"] /\ job[s].budget > 0
        \/ pc' = [pc EXCEPT ![s] = "consider"]
    BY <1>1, <2>3 DEF Goto, TypeInv, TypeOK
  <2>9. \E label : Moves(s, label, j)
    BY <2>3, <2>6, <2>7, <2>8 DEF Moves, Labels
  <2>. QED
    BY <2>4, <2>9, Moving
<1>. QED
  BY <1>2, <1>3 DEF Consider

LEMMA EndActivationTypes ==
  ASSUME TypeInv, NEW s \in Servers, EndActivation(s), Remember
  PROVE  TypeInv'
<1>1. DataOk'
  BY DEF EndActivation, DataOk, TypeInv, TypeOK
<1>. QED
  BY <1>1, Returning, Moving DEF EndActivation

LEMMA BaselineTypes ==
  ASSUME TypeInv, NEW s \in Servers, QueueBaselineRun(s), Remember
  PROVE  TypeInv'
<1>1. PICK minute \in 1 .. MaxMinutes :
        LET k == <<job[s].at, "baseline", minute>> IN
        /\ run' = Inserted(k)
        /\ job' = [job EXCEPT ![s].at = Nobody,
                              ![s].budget = IF run[k] = "absent" THEN @ - 1 ELSE @]
  BY DEF QueueBaselineRun
<1>2. /\ job[s] \in Job /\ job \in [Servers -> Job]
      /\ job[s].slot \in [Monitors -> 0 .. MaxClock + 1]
      /\ job[s].budget \in 1 .. MaxBaselines
  BY JobOf DEF QueueBaselineRun, JobOk, Job
<1>3. DataOk'
  BY <1>1, InsertedIsRun DEF QueueBaselineRun, DataOk, TypeInv, TypeOK
<1>4. PICK budget \in 0 .. MaxBaselines :
        job' = [job EXCEPT ![s].at = Nobody, ![s].budget = budget]
  <2>. DEFINE absent == run[<<job[s].at, "baseline", minute>>] = "absent"
              budget == IF absent THEN job[s].budget - 1 ELSE job[s].budget
  <2>1. job' = [job EXCEPT ![s].at = Nobody,
                           ![s].budget = IF absent THEN job[s].budget - 1 ELSE job[s].budget]
    BY <1>1, <1>2 DEF Job
  <2>2. budget \in 0 .. MaxBaselines
    BY <1>2, LimitsAssumption
  <2>. QED
    BY <2>1, <2>2
<1>. DEFINE j == [job[s] EXCEPT !.at = Nobody, !.budget = budget]
<1>5. job' = [job EXCEPT ![s] = j] /\ pc' = [pc EXCEPT ![s] = "consider"]
  BY <1>2, <1>4 DEF QueueBaselineRun, Goto, Job
<1>6. j \in Job /\ j.slot = job[s].slot
  BY <1>2 DEF Job
<1>. HIDE DEF j
<1>7. Moves(s, "consider", j)
  BY <1>2, <1>5, <1>6 DEF Moves, Labels, JobOk, InHand, Dispatching, Chosen
<1>. QED
  BY <1>3, <1>7, Moving

LEMMA StartResumeTypes ==
  ASSUME TypeInv, NEW s \in Servers, NEW m \in Monitors, StartResume(s, m), Remember
  PROVE  TypeInv'
<1>. DEFINE j == [NoJob EXCEPT !.at = m, !.now = clock]
<1>1. DataOk' /\ clock \in 0 .. MaxClock
  BY DEF StartResume, DataOk, TypeInv, TypeOK
<1>2. job' = [job EXCEPT ![s] = j] /\ pc' = [pc EXCEPT ![s] = "resume"]
  BY DEF StartResume, Goto
<1>3. j \in Job /\ j.slot = NoJob.slot /\ j.at = m /\ j.todo = {}
  BY <1>1, NoJobOk DEF Job, NoJob
<1>4. NoJob.slot \in [Monitors -> 0 .. MaxClock + 1]
  BY LimitsAssumption DEF NoJob
<1>. HIDE DEF j
<1>5. Moves(s, "resume", j)
  BY <1>2, <1>3, <1>4 DEF Moves, Labels, JobOk, InHand, Dispatching, Chosen
<1>. QED
  BY <1>1, <1>5, Moving

LEMMA ResumeTypes ==
  ASSUME TypeInv, NEW s \in Servers, Resume(s), Remember
  PROVE  TypeInv'
<1>1. job[s].at \in Monitors /\ job[s].now \in 0 .. MaxClock
  BY JobOf DEF Resume, JobOk, InHand, Job
<1>2. NextSlot(job[s].now) \in Slots
  BY <1>1, NextIsSlot, LimitsAssumption
<1>3. DataOk'
  BY <1>1, <1>2 DEF Resume, DataOk, TypeInv, TypeOK, Row, Reasons
<1>. QED
  BY <1>3, Returning, Moving DEF Resume

LEMMA StopTypes ==
  ASSUME TypeInv, NEW s \in Servers, NEW k \in Keys, StopRun(s, k), Remember
  PROVE  TypeInv'
<1>. DEFINE j == [NoJob EXCEPT !.run = k]
<1>1. DataOk'
  BY DEF StopRun, DataOk, TypeInv, TypeOK
<1>2. job' = [job EXCEPT ![s] = j] /\ pc' = [pc EXCEPT ![s] = "block"]
  BY DEF StopRun, Goto
<1>3. j \in Job /\ j.slot = NoJob.slot /\ j.todo = {}
  BY NoJobOk DEF Job, NoJob
<1>4. NoJob.slot \in [Monitors -> 0 .. MaxClock + 1]
  BY LimitsAssumption DEF NoJob
<1>. HIDE DEF j
<1>5. Moves(s, "block", j)
  BY <1>2, <1>3, <1>4 DEF Moves, Labels, JobOk, InHand, Dispatching, Chosen
<1>. QED
  BY <1>1, <1>5, Moving

LEMMA MonitorOfKey ==
  ASSUME NEW k \in Keys
  PROVE  k[1] \in Monitors
BY DEF Keys, Recurring, Baselines

LEMMA MarkTypes ==
  ASSUME TypeInv, NEW k \in Keys, MarkRunFailed(k)
  PROVE  /\ monitor' \in [Monitors -> Row]
         /\ run' \in [Keys -> {"absent", "open", "done"}]
<1>1. run' \in [Keys -> {"absent", "open", "done"}]
  BY DEF MarkRunFailed, Done, TypeInv, TypeOK
<1>2. monitor' \in [Monitors -> Row]
  BY WithIsRow, MonitorOfKey DEF MarkRunFailed, Reasons, TypeInv, TypeOK
<1>. QED
  BY <1>1, <1>2

LEMMA GiveUpTypes ==
  ASSUME TypeInv, NEW s \in Servers, GiveUp(s), Remember
  PROVE  TypeInv'
<1>1. job[s].run \in Keys
  BY JobOf DEF GiveUp, JobOk
<1>2. DataOk'
  BY <1>1, MarkTypes DEF GiveUp, DataOk, TypeInv, TypeOK
<1>. QED
  BY <1>2, Returning, Moving DEF GiveUp

LEMMA CrashTypes ==
  ASSUME TypeInv, NEW s \in Servers, Crash(s), Remember
  PROVE  TypeInv'
<1>1. DataOk'
  BY ChangesAssumption DEF Crash, Change, DataOk, TypeInv, TypeOK
<1>. QED
  BY <1>1, Returning, Moving DEF Crash

(* What happens around the servers.                                         *)
Around ==
  \/ \E m \in Monitors : Pause(m) \/ SwitchSurface(m)
  \/ \E k \in Keys : FailRun(k) \/ CompleteRun(k)
  \/ Tick \/ NewPeriod \/ SwitchBilling

LEMMA AroundTypes ==
  ASSUME TypeInv, Around, Remember
  PROVE  TypeInv'
<1>1. UNCHANGED <<pc, job>>
  BY DEF Around, Pause, SwitchSurface, FailRun, CompleteRun, Tick, NewPeriod, SwitchBilling
<1>2. DataOk'
  <2>. USE DEF DataOk, TypeInv, TypeOK
  <2>1. CASE \E m \in Monitors : Pause(m)
    BY <2>1, WithIsRow DEF Pause, Reasons
  <2>2. CASE \E m \in Monitors : SwitchSurface(m)
    BY <2>2, ChangesAssumption DEF SwitchSurface, Change
  <2>3. CASE \E k \in Keys : FailRun(k)
    BY <2>3, MarkTypes DEF FailRun
  <2>4. CASE \E k \in Keys : CompleteRun(k)
    <3>1. PICK k \in Keys : CompleteRun(k)
      BY <2>4
    <3>2. k[1] \in Monitors /\ NextSlot(clock) \in Slots
      BY MonitorOfKey, NextIsSlot, LimitsAssumption
    <3>3. monitor' \in [Monitors -> Row]
      BY <3>1, <3>2, NextIsRow DEF CompleteRun
    <3>. QED
      BY <3>1, <3>3, LimitsAssumption DEF CompleteRun, Done
  <2>5. CASE Tick
    BY <2>5, LimitsAssumption DEF Tick
  <2>6. CASE NewPeriod \/ SwitchBilling
    <3>1. changes' \in 0 .. MaxChanges
      BY <2>6, ChangesAssumption DEF NewPeriod, SwitchBilling, Change
    <3>2. used' \in 0 .. Threshold
      BY <2>6, LimitsAssumption DEF NewPeriod, SwitchBilling
    <3>3. authorized' \in BOOLEAN
      BY <2>6 DEF NewPeriod, SwitchBilling
    <3>. QED
      BY <2>6, <3>1, <3>2, <3>3 DEF NewPeriod, SwitchBilling
  <2>. QED
    BY <2>1, <2>2, <2>3, <2>4, <2>5, <2>6 DEF Around
<1>. QED
  BY <1>1, <1>2, Staying

LEMMA NextTypes == TypeInv /\ [Next]_vars => TypeInv'
<1>. SUFFICES ASSUME TypeInv, [Next]_vars
              PROVE  TypeInv'
  OBVIOUS
<1>1. CASE UNCHANGED vars
  BY <1>1 DEF vars, TypeInv, TypeOK, Jobs
<1>2. CASE Next
  <2>1. Step /\ Remember
    BY <1>2 DEF Next
  <2>2. CASE Around
    BY <2>1, <2>2, AroundTypes
  <2>3. CASE \E s \in Servers : Dispatch(s)
    BY <2>1, <2>3, StartDispatchTypes, TakeTypes, EndDispatchTypes, CountTypes, PushTypes, CheckTypes,
       InsertTypes, AdvanceTypes, BlockTypes, GiveUpTypes DEF Dispatch
  <2>4. CASE \E s \in Servers : Page(s)
    BY <2>1, <2>4, OpenPageTypes, RestoreTypes, ReactivateTypes, TrimTypes, NeedsTypes DEF Page
  <2>5. CASE \E s \in Servers : Activation(s)
    BY <2>1, <2>5, ActivateTypes, ConsiderTypes, EndActivationTypes, BaselineTypes DEF Activation
  <2>6. CASE \E s \in Servers : CreateMonitor(s) \/ Resume(s) \/ Crash(s)
    BY <2>1, <2>6, CreateTypes, ResumeTypes, CrashTypes
  <2>7. CASE \E s \in Servers : \/ \E m \in Monitors : StartResume(s, m)
                                \/ \E k \in Keys : StopRun(s, k)
    BY <2>1, <2>7, StartResumeTypes, StopTypes
  <2>. QED
    BY <2>1, <2>2, <2>3, <2>4, <2>5, <2>6, <2>7 DEF Step, Around
<1>. QED
  BY <1>1, <1>2

LEMMA InitTypes == Init => TypeInv
<1>. SUFFICES ASSUME Init PROVE TypeInv
  OBVIOUS
<1>1. TypeOK
  BY NoJobOk, LimitsAssumption, ChangesAssumption DEF Init, TypeOK, Row, Reasons, Labels
<1>2. Jobs
  BY NoJobOk DEF Init, Jobs, Labels, InHand
<1>. QED
  BY <1>1, <1>2 DEF TypeInv

LEMMA TypeInvariance == Spec => []TypeInv
BY InitTypes, NextTypes, PTL DEF Spec

(* Every variable keeps its type: in particular one activation activates no *)
(* more monitors than the limit, and slots stay within two of the clock's   *)
(* bound.                                                                   *)
THEOREM TypesAreKept == Spec => []TypeOK
<1>1. TypeInv => TypeOK
  BY DEF TypeInv
<1>. QED
  BY <1>1, TypeInvariance, PTL

-----------------------------------------------------------------------------
(* Open runs                                                                *)

Checked == {"check", "insert"}

(* A step that opens no recurring run and lets no server pass a check.      *)
Quiet ==
  /\ \A k \in Recurring : run'[k] # run[k] => run'[k] = "done" /\ run[k] = "open"
  /\ \A s \in Servers : pc'[s] \in Checked => pc[s] = pc'[s] /\ job[s].at = job'[s].at

LEMMA KindsOfKeys ==
  /\ \A k \in Recurring : k[1] \in Monitors /\ k[2] = "recurring" /\ k \in Keys
  /\ \A k \in Baselines : k[1] \in Monitors /\ k[2] = "baseline" /\ k \in Keys
  /\ \A m \in Monitors, slot \in Slots : <<m, "recurring", slot>> \in Recurring
BY DEF Recurring, Baselines, Keys

LEMMA DoneIsQuiet ==
  ASSUME TypeInv, NEW k \in Keys, run[k] = "open", Done(k), NEW q \in Recurring, run'[q] # run[q]
  PROVE  run'[q] = "done" /\ run[q] = "open"
BY KindsOfKeys DEF Done, TypeInv, TypeOK

(* The run that a worker is about to give up has been created.              *)
Given == \A s \in Servers : job[s].run # Nobody => run[job[s].run] # "absent"

LEMMA RunsStay ==
  ASSUME TypeInv, Step, NEW k \in Keys, run[k] # "absent"
  PROVE  run'[k] # "absent"
<1>1. UNCHANGED run \/ \E q : run' = Inserted(q) \/ Done(q)
  <2>1. CASE \E s \in Servers : Dispatch(s)
    BY <2>1 DEF Dispatch, StartDispatch, EndDispatch, Take, CountOpenRuns, PushForward, CheckLimits,
           InsertRun, Advance, BlockMonitorsForUsageLimit, GiveUp, MarkRunFailed
  <2>2. CASE \E s \in Servers : Page(s)
    BY <2>2 DEF Page, OpenPage, Restore, Reactivate, Trim, NeedsActivation
  <2>3. CASE \E s \in Servers : Activation(s)
    BY <2>3 DEF Activation, Activate, Consider, EndActivation, QueueBaselineRun
  <2>4. CASE \E s \in Servers : \/ CreateMonitor(s) \/ Resume(s) \/ Crash(s)
                                \/ \E m \in Monitors : StartResume(s, m)
                                \/ \E q \in Keys : StopRun(s, q)
    BY <2>4 DEF CreateMonitor, Resume, Crash, StartResume, StopRun
  <2>5. CASE Around
    BY <2>5 DEF Around, Pause, SwitchSurface, FailRun, MarkRunFailed, CompleteRun, Tick, NewPeriod,
           SwitchBilling
  <2>. QED
    BY <2>1, <2>2, <2>3, <2>4, <2>5 DEF Step, Around
<1>. QED
  BY <1>1 DEF Inserted, Done, TypeInv, TypeOK

(* What the job of a server says of a run, only StopRun sets.               *)
Carried(s) == job'[s].run \in {job[s].run, Nobody}

LEMMA DispatchCarries ==
  ASSUME TypeInv, NEW s \in Servers, Dispatch(s)
  PROVE  Carried(s)
<1>1. job[s] \in Job /\ job \in [Servers -> Job] /\ NoJob.run = Nobody
  BY DEF TypeInv, TypeOK, NoJob
<1>2. CASE UNCHANGED job
  BY <1>2 DEF Carried
<1>3. CASE Return(s)
  BY <1>1, <1>3 DEF Return, Carried
<1>4. CASE Dismiss(s)
  BY <1>1, <1>4 DEF Dismiss, Carried, Job
<1>5. CASE StartDispatch(s)
  <2>1. \E todo, now, slot :
          job' = [job EXCEPT ![s] = [NoJob EXCEPT !.todo = todo, !.now = now, !.slot = slot]]
    BY <1>5 DEF StartDispatch
  <2>. QED
    BY <1>1, <2>1 DEF Carried, NoJob
<1>6. CASE \E m \in Monitors : Take(s, m)
  <2>1. PICK m \in Monitors : Take(s, m)
    BY <1>6
  <2>2. \/ job' = [job EXCEPT ![s].todo = @ \ {m}, ![s].at = m]
        \/ job' = [job EXCEPT ![s].todo = @ \ {m}, ![s].slot[m] = 0]
    BY <2>1 DEF Take
  <2>. QED
    BY <1>1, <2>2 DEF Carried, Job
<1>. QED
  BY <1>2, <1>3, <1>4, <1>5, <1>6
     DEF Dispatch, EndDispatch, CountOpenRuns, PushForward, CheckLimits, InsertRun, AdvanceAnyway,
         Advance, BlockMonitorsForUsageLimit, GiveUp

LEMMA PageCarries ==
  ASSUME TypeInv, NEW s \in Servers, Page(s)
  PROVE  Carried(s)
<1>1. job[s] \in Job /\ job \in [Servers -> Job] /\ NoJob.run = Nobody
  BY DEF TypeInv, TypeOK, NoJob
<1>2. CASE OpenPage(s)
  <2>1. \E todo : job' = [job EXCEPT ![s] = [NoJob EXCEPT !.todo = todo]]
    BY <1>2 DEF OpenPage
  <2>. QED
    BY <1>1, <2>1 DEF Carried, NoJob
<1>3. CASE Restore(s) \/ Reactivate(s) \/ Trim(s)
  <2>1. \/ UNCHANGED job
        \/ \E todo : job' = [job EXCEPT ![s].todo = todo]
        \/ \E m : job' = [job EXCEPT ![s].todo = @ \ {m}]
        \/ \E m : job' = [job EXCEPT ![s].todo = @ \ {m}, ![s].at = m]
        \/ job' = [job EXCEPT ![s].at = Nobody]
    BY <1>3 DEF Restore, Reactivate, Trim
  <2>2. ASSUME NEW todo, job' = [job EXCEPT ![s].todo = todo] PROVE Carried(s)
    BY <1>1, <2>2 DEF Carried, Job
  <2>3. ASSUME NEW m, job' = [job EXCEPT ![s].todo = @ \ {m}] PROVE Carried(s)
    BY <1>1, <2>3 DEF Carried, Job
  <2>4. ASSUME NEW m, job' = [job EXCEPT ![s].todo = @ \ {m}, ![s].at = m] PROVE Carried(s)
    BY <1>1, <2>4 DEF Carried, Job
  <2>5. job' = [job EXCEPT ![s].at = Nobody] \/ UNCHANGED job => Carried(s)
    BY <1>1 DEF Carried, Job
  <2>. QED
    BY <2>1, <2>2, <2>3, <2>4, <2>5
<1>4. CASE NeedsActivation(s)
  BY <1>1, <1>4 DEF NeedsActivation, Return, Carried
<1>. QED
  BY <1>2, <1>3, <1>4 DEF Page

LEMMA ActivationCarries ==
  ASSUME TypeInv, NEW s \in Servers, Activation(s)
  PROVE  Carried(s)
<1>1. job[s] \in Job /\ job \in [Servers -> Job] /\ NoJob.run = Nobody
  BY DEF TypeInv, TypeOK, NoJob
<1>2. CASE Activate(s)
  <2>1. \/ UNCHANGED job
        \/ job' = [job EXCEPT ![s] = NoJob]
        \/ \E todo, now, budget :
             job' = [job EXCEPT ![s] =
                       [NoJob EXCEPT !.todo = todo, !.now = now, !.budget = budget]]
    BY <1>2 DEF Activate, Return
  <2>. QED
    BY <1>1, <2>1 DEF Carried, NoJob
<1>3. CASE Consider(s)
  <2>1. \E m : \/ job' = [job EXCEPT ![s].todo = @ \ {m}]
               \/ job' = [job EXCEPT ![s].todo = @ \ {m}, ![s].at = m, ![s].activated = @ + 1]
    BY <1>3 DEF Consider, Block
  <2>. QED
    BY <1>1, <2>1 DEF Carried, Job
<1>4. CASE EndActivation(s)
  BY <1>1, <1>4 DEF EndActivation, Return, Carried
<1>5. CASE QueueBaselineRun(s)
  <2>1. \E k : \/ job' = [job EXCEPT ![s].at = Nobody, ![s].budget = @ - 1]
               \/ job' = [job EXCEPT ![s].at = Nobody, ![s].budget = @]
    <3>1. PICK k : job' = [job EXCEPT ![s].at = Nobody,
                              ![s].budget = IF run[k] = "absent" THEN @ - 1 ELSE @]
      BY <1>5 DEF QueueBaselineRun
    <3>2. CASE run[k] = "absent"
      BY <3>1, <3>2
    <3>3. CASE run[k] # "absent"
      BY <3>1, <3>3
    <3>. QED
      BY <3>2, <3>3
  <2>. QED
    BY <1>1, <2>1 DEF Carried, Job
<1>. QED
  BY <1>2, <1>3, <1>4, <1>5 DEF Activation

LEMMA OthersCarry ==
  ASSUME TypeInv, NEW s \in Servers,
         \/ CreateMonitor(s) \/ Resume(s) \/ Crash(s)
         \/ \E m \in Monitors : StartResume(s, m)
  PROVE  Carried(s)
<1>1. job \in [Servers -> Job] /\ NoJob.run = Nobody
  BY DEF TypeInv, TypeOK, NoJob
<1>2. \/ UNCHANGED job
      \/ job' = [job EXCEPT ![s] = NoJob]
      \/ \E m, now : job' = [job EXCEPT ![s] = [NoJob EXCEPT !.at = m, !.now = now]]
  BY DEF CreateMonitor, Resume, Crash, StartResume, Return
<1>. QED
  BY <1>1, <1>2 DEF Carried, NoJob

LEMMA GivenStep ==
  ASSUME TypeInv, Given, Step
  PROVE  Given'
<1>1. SUFFICES ASSUME NEW s \in Servers
               PROVE  job'[s].run # Nobody => run'[job'[s].run] # "absent"
  BY DEF Given
<1>2. /\ job[s] \in Job /\ job \in [Servers -> Job] /\ NoJob \in Job
  BY NoJobOk DEF TypeInv, TypeOK
<1>3. CASE Carried(s)
  <2>1. job[s].run \in Keys \cup {Nobody}
    BY <1>2 DEF Job
  <2>. QED
    BY <1>3, <2>1, RunsStay DEF Carried, Given
<1>4. CASE job'[s] = job[s]
  BY <1>3, <1>4 DEF Carried
<1>5. ASSUME NEW t \in Servers,
             \/ Dispatch(t) \/ Page(t) \/ Activation(t)
             \/ CreateMonitor(t) \/ Resume(t) \/ Crash(t)
             \/ \E m \in Monitors : StartResume(t, m)
      PROVE  job'[s].run # Nobody => run'[job'[s].run] # "absent"
  <2>1. CASE t = s
    BY <1>3, <1>5, <2>1, DispatchCarries, PageCarries, ActivationCarries, OthersCarry
  <2>2. CASE t # s
    <3>1. job'[s] = job[s]
      <4>1. Dispatch(t) => job'[s] = job[s]
        BY <1>2, <2>2 DEF Dispatch, StartDispatch, EndDispatch, Take, CountOpenRuns, PushForward,
             CheckLimits, Dismiss, InsertRun, AdvanceAnyway, Advance, BlockMonitorsForUsageLimit,
             GiveUp, Return
      <4>2. Page(t) => job'[s] = job[s]
        BY <1>2, <2>2 DEF Page, OpenPage, Restore, Reactivate, Trim, NeedsActivation, Return
      <4>3. Activation(t) => job'[s] = job[s]
        BY <1>2, <2>2 DEF Activation, Activate, Consider, Block, EndActivation, QueueBaselineRun,
             Return
      <4>4. \/ CreateMonitor(t) \/ Resume(t) \/ Crash(t)
            \/ \E m \in Monitors : StartResume(t, m)
            => job'[s] = job[s]
        BY <1>2, <2>2 DEF CreateMonitor, Resume, Crash, StartResume, Return
      <4>. QED
        BY <1>5, <4>1, <4>2, <4>3, <4>4
    <3>. QED
      BY <1>4, <3>1
  <2>. QED
    BY <2>1, <2>2
<1>6. ASSUME NEW t \in Servers, NEW k \in Keys, StopRun(t, k)
      PROVE  job'[s].run # Nobody => run'[job'[s].run] # "absent"
  <2>1. CASE t = s
    <3>1. job'[s].run = k /\ run'[k] = "open"
      BY <1>2, <1>6, <2>1 DEF StopRun, NoJob
    <3>. QED
      BY <3>1
  <2>2. CASE t # s
    BY <1>2, <1>4, <1>6, <2>2 DEF StopRun
  <2>. QED
    BY <2>1, <2>2
<1>7. CASE Around
  BY <1>4, <1>7 DEF Around, Pause, SwitchSurface, FailRun, CompleteRun, Tick, NewPeriod, SwitchBilling
<1>. QED
  BY <1>5, <1>6, <1>7 DEF Step, Around

LEMMA GivenIsCreated ==
  ASSUME TypeInv, Given, NEW s \in Servers, pc[s] = "fail"
  PROVE  run[job[s].run] # "absent"
<1>1. job[s].run # Nobody
  BY JobOf DEF JobOk
<1>. QED
  BY <1>1 DEF Given

LEMMA GivenInvariance == Spec => [](TypeInv /\ Given)
<1>1. Init => Given
  BY DEF Init, Given, NoJob
<1>2. TypeInv /\ Given /\ [Next]_vars => Given'
  BY GivenStep DEF Next, vars, Given
<1>. QED
  BY <1>1, <1>2, TypeInvariance, PTL DEF Spec

LEMMA ElsewhereIsQuiet ==
  ASSUME TypeInv, NEW s \in Servers, NEW label \in Labels \ Checked,
         pc' = [pc EXCEPT ![s] = label],
         \A t \in Servers \ {s} : job'[t] = job[t],
         \A k \in Recurring : run'[k] # run[k] => run'[k] = "done" /\ run[k] = "open"
  PROVE  Quiet
BY DEF Quiet, TypeInv, TypeOK

LEMMA StepKinds ==
  ASSUME TypeInv, Given, Step
  PROVE  Quiet \/ \E s \in Servers : CountOpenRuns(s) \/ CheckLimits(s) \/ InsertRun(s)
<1>. USE DEF Goto, Return, TypeInv, TypeOK
<1>1. CASE Around
  <2>1. UNCHANGED <<pc, job>>
    BY <1>1 DEF Around, Pause, SwitchSurface, FailRun, CompleteRun, Tick, NewPeriod, SwitchBilling
  <2>2. UNCHANGED run \/ \E k \in Keys : run[k] = "open" /\ Done(k)
    BY <1>1 DEF Around, Pause, SwitchSurface, FailRun, MarkRunFailed, CompleteRun, Tick, NewPeriod,
           SwitchBilling
  <2>. QED
    BY <2>1, <2>2, DoneIsQuiet DEF Quiet
<1>2. ASSUME NEW s \in Servers, Dispatch(s), ~CountOpenRuns(s), ~CheckLimits(s), ~InsertRun(s),
             ~GiveUp(s)
      PROVE  Quiet
  <2>1. UNCHANGED run /\ \A t \in Servers \ {s} : job'[t] = job[t]
    BY <1>2 DEF Dispatch, StartDispatch, EndDispatch, Take, PushForward, Advance,
           BlockMonitorsForUsageLimit, Dismiss
  <2>2. \E label \in Labels \ Checked : pc' = [pc EXCEPT ![s] = label]
    <3>1. \E label \in {"dispatch", "count", "idle", "fail"} : pc' = [pc EXCEPT ![s] = label]
      <4>1. CASE \E m \in Monitors : Take(s, m)
        BY <4>1 DEF Take
      <4>2. CASE ~ \E m \in Monitors : Take(s, m)
        BY <1>2, <4>2 DEF Dispatch, StartDispatch, EndDispatch, PushForward, Advance,
               BlockMonitorsForUsageLimit
      <4>. QED
        BY <4>1, <4>2
    <3>. QED
      BY <3>1 DEF Labels, Checked
  <2>. QED
    BY <2>1, <2>2, ElsewhereIsQuiet
<1>3. ASSUME NEW s \in Servers, Page(s)
      PROVE  Quiet
  <2>1. UNCHANGED run /\ \A t \in Servers \ {s} : job'[t] = job[t]
    BY <1>3 DEF Page, OpenPage, Restore, Reactivate, Trim, NeedsActivation
  <2>2. \E label \in Labels \ Checked : pc' = [pc EXCEPT ![s] = label]
    BY <1>3 DEF Page, OpenPage, Restore, Reactivate, Trim, NeedsActivation, Labels, Checked
  <2>. QED
    BY <2>1, <2>2, ElsewhereIsQuiet
<1>4. ASSUME NEW s \in Servers, Activation(s)
      PROVE  Quiet
  <2>1. \A t \in Servers \ {s} : job'[t] = job[t]
    BY <1>4 DEF Activation, Activate, Consider, EndActivation, QueueBaselineRun, Block
  <2>2. \E label \in Labels \ Checked : pc' = [pc EXCEPT ![s] = label]
    BY <1>4 DEF Activation, Activate, Consider, EndActivation, QueueBaselineRun, Block, Labels, Checked
  <2>3. \A k \in Recurring : run'[k] = run[k]
    <3>1. CASE QueueBaselineRun(s)
      BY <3>1, KindsOfKeys DEF QueueBaselineRun, Inserted
    <3>2. CASE ~QueueBaselineRun(s)
      BY <1>4, <3>2 DEF Activation, Activate, Consider, EndActivation, Block
    <3>. QED
      BY <3>1, <3>2
  <2>. QED
    BY <2>1, <2>2, <2>3, ElsewhereIsQuiet
<1>5. ASSUME NEW s \in Servers,
             \/ CreateMonitor(s) \/ Resume(s) \/ Crash(s)
             \/ \E m \in Monitors : StartResume(s, m)
      PROVE  Quiet
  <2>1. UNCHANGED run /\ \A t \in Servers \ {s} : job'[t] = job[t]
    BY <1>5 DEF CreateMonitor, Resume, Crash, StartResume
  <2>2. \E label \in Labels \ Checked : pc' = [pc EXCEPT ![s] = label]
    BY <1>5 DEF CreateMonitor, Resume, Crash, StartResume, Labels, Checked
  <2>. QED
    BY <2>1, <2>2, ElsewhereIsQuiet
<1>6. ASSUME NEW s \in Servers, NEW k \in Keys, StopRun(s, k)
      PROVE  Quiet
  <2>1. /\ pc' = [pc EXCEPT ![s] = "block"] /\ "block" \in Labels \ Checked
        /\ UNCHANGED run /\ \A t \in Servers \ {s} : job'[t] = job[t]
    BY <1>6 DEF StopRun, Labels, Checked
  <2>. QED
    BY <2>1, ElsewhereIsQuiet
<1>7. ASSUME NEW s \in Servers, GiveUp(s)
      PROVE  Quiet
  <2>1. job[s].run \in Keys /\ run[job[s].run] # "absent"
    BY <1>7, JobOf, GivenIsCreated DEF GiveUp, JobOk
  <2>2. /\ pc' = [pc EXCEPT ![s] = "idle"] /\ "idle" \in Labels \ Checked
        /\ Done(job[s].run) /\ \A t \in Servers \ {s} : job'[t] = job[t]
    BY <1>7 DEF GiveUp, MarkRunFailed, Labels, Checked
  <2>3. \A q \in Recurring : run'[q] # run[q] => run'[q] = "done" /\ run[q] = "open"
    BY <2>1, <2>2, KindsOfKeys DEF Done
  <2>. QED
    BY <2>2, <2>3, ElsewhereIsQuiet
<1>. QED
  BY <1>1, <1>2, <1>3, <1>4, <1>5, <1>6, <1>7 DEF Step, Around

(* The run that a dispatcher inserts.                                       *)
LEMMA InsertedRun ==
  ASSUME TypeInv, NEW s \in Servers, InsertRun(s)
  PROVE  \E k \in Recurring :
           /\ k[1] = job[s].at /\ k[3] >= job[s].now
           /\ \A q \in Keys \ {k} : run'[q] = run[q]
           /\ run'[k] = run[k] \/ (run[k] = "absent" /\ run'[k] = "open")
<1>. DEFINE k == <<job[s].at, "recurring", job[s].slot[job[s].at]>>
<1>1. /\ job[s].at \in Monitors /\ job[s].slot[job[s].at] \in Slots
      /\ job[s].slot[job[s].at] >= job[s].now
  BY JobOf DEF InsertRun, JobOk, InHand, Chosen, Job
<1>2. k \in Recurring /\ k \in Keys /\ k[1] = job[s].at /\ k[3] >= job[s].now
  BY <1>1, KindsOfKeys
<1>3. run' = Inserted(k)
  BY DEF InsertRun
<1>. HIDE DEF k
<1>4. /\ \A q \in Keys \ {k} : run'[q] = run[q]
      /\ run'[k] = run[k] \/ (run[k] = "absent" /\ run'[k] = "open")
  BY <1>2, <1>3 DEF Inserted, TypeInv, TypeOK
<1>. QED
  BY <1>2, <1>4

(* No run is created for a slot that was over when its dispatcher began,    *)
(* however long ago the monitor was due.                                    *)
THEOREM MissedSlotsAreSkipped == Spec => NoBackfill
<1>1. TypeInv /\ Given /\ [Next]_vars =>
        [\A k \in Recurring : run[k] = "absent" /\ run'[k] # "absent"
           => \E s \in Servers : pc[s] = "insert" /\ k[3] >= job[s].now]_vars
  <2>. SUFFICES ASSUME TypeInv, Given, Next, NEW k \in Recurring, run[k] = "absent", run'[k] # "absent"
                PROVE  \E s \in Servers : pc[s] = "insert" /\ k[3] >= job[s].now
    OBVIOUS
  <2>1. ~Quiet
    BY DEF Quiet
  <2>2. PICK s \in Servers : CountOpenRuns(s) \/ CheckLimits(s) \/ InsertRun(s)
    BY <2>1, StepKinds DEF Next
  <2>3. InsertRun(s)
    BY <2>2 DEF CountOpenRuns, CheckLimits
  <2>. QED
    BY <2>3, InsertedRun, KindsOfKeys DEF InsertRun
<1>. QED
  BY <1>1, GivenInvariance, PTL DEF Spec, NoBackfill

(* There are finitely many keys.                                            *)
LEMMA TriplesAreFinite ==
  ASSUME NEW A, NEW t, NEW B, IsFiniteSet(A), IsFiniteSet(B)
  PROVE  IsFiniteSet(A \X {t} \X B)
<1>. DEFINE f == [p \in A \X B |-> <<p[1], t, p[2]>>]
<1>1. f \in Surjection(A \X B, A \X {t} \X B)
  <2>1. f \in [A \X B -> A \X {t} \X B]
    OBVIOUS
  <2>2. ASSUME NEW q \in A \X {t} \X B
        PROVE  \E p \in A \X B : f[p] = q
    <3>1. PICK a \in A, b \in B : q = <<a, t, b>>
      OBVIOUS
    <3>2. <<a, b>> \in A \X B /\ f[<<a, b>>] = <<a, t, b>>
      OBVIOUS
    <3>. QED
      BY <3>1, <3>2
  <2>. QED
    BY <2>1, <2>2 DEF Surjection
<1>2. IsFiniteSet(A \X B)
  BY FS_Product
<1>. QED
  BY <1>1, <1>2, FS_Surjection

LEMMA KeysAreFinite == IsFiniteSet(Keys)
<1>1. IsFiniteSet(Slots) /\ IsFiniteSet(1 .. MaxMinutes)
  BY FS_Interval, LimitsAssumption DEF Slots
<1>2. IsFiniteSet(Recurring) /\ IsFiniteSet(Baselines)
  BY <1>1, TriplesAreFinite, MonitorsAssumption DEF Recurring, Baselines
<1>. QED
  BY <1>2, FS_Union DEF Keys

(* Two finite sets of which one loses what the other may gain.              *)
LEMMA Exchange ==
  ASSUME NEW A, NEW B, NEW A1, NEW B1, NEW x, NEW y,
         IsFiniteSet(A), IsFiniteSet(B), A1 \subseteq A \cup {x}, B1 \subseteq B \ {y}, y \in B
  PROVE  Cardinality(A1) + Cardinality(B1) <= Cardinality(A) + Cardinality(B)
<1>1. /\ IsFiniteSet(A \cup {x}) /\ Cardinality(A \cup {x}) <= Cardinality(A) + 1
      /\ IsFiniteSet(B \ {y}) /\ Cardinality(B \ {y}) = Cardinality(B) - 1
      /\ Cardinality(A) \in Nat /\ Cardinality(B) \in Nat
  BY FS_AddElement, FS_RemoveElement, FS_CardinalityType
<1>2. /\ IsFiniteSet(A1) /\ Cardinality(A1) <= Cardinality(A \cup {x})
      /\ IsFiniteSet(B1) /\ Cardinality(B1) <= Cardinality(B \ {y})
  BY <1>1, FS_Subset
<1>3. /\ Cardinality(A1) \in Nat /\ Cardinality(B1) \in Nat
      /\ Cardinality(A \cup {x}) \in Nat /\ Cardinality(B \ {y}) \in Nat
  BY <1>1, <1>2, FS_CardinalityType
<1>. QED
  BY <1>1, <1>2, <1>3

LEMMA Shrinking ==
  ASSUME NEW A, NEW B, NEW A1, NEW B1,
         IsFiniteSet(A), IsFiniteSet(B), A1 \subseteq A, B1 \subseteq B
  PROVE  Cardinality(A1) + Cardinality(B1) <= Cardinality(A) + Cardinality(B)
<1>1. Cardinality(A1) <= Cardinality(A) /\ Cardinality(B1) <= Cardinality(B)
  BY FS_Subset
<1>2. /\ IsFiniteSet(A1) /\ IsFiniteSet(B1)
  BY FS_Subset
<1>3. /\ Cardinality(A) \in Nat /\ Cardinality(B) \in Nat
      /\ Cardinality(A1) \in Nat /\ Cardinality(B1) \in Nat
  BY <1>2, FS_CardinalityType
<1>. QED
  BY <1>1, <1>3

(* A dispatcher that has found no open run of m counts as one.              *)
OpenRecurringOf(m) == {k \in OpenOf(m) : IsRecurring(k)}
Passed(m) == {s \in Servers : pc[s] \in Checked /\ job[s].at = m}

OverlapInv ==
  \A m \in Monitors :
    Cardinality(OpenRecurringOf(m)) + Cardinality(Passed(m)) <= Cardinality(Servers)

LEMMA FiniteCounts ==
  ASSUME NEW m
  PROVE  /\ IsFiniteSet(OpenRecurringOf(m)) /\ IsFiniteSet(Passed(m))
         /\ Cardinality(OpenRecurringOf(m)) \in Nat /\ Cardinality(Passed(m)) \in Nat
         /\ Cardinality(Passed(m)) <= Cardinality(Servers)
<1>1. OpenRecurringOf(m) \subseteq Keys /\ Passed(m) \subseteq Servers
  BY DEF OpenRecurringOf, OpenOf, Open, Passed
<1>2. /\ IsFiniteSet(OpenRecurringOf(m)) /\ IsFiniteSet(Passed(m))
      /\ Cardinality(Passed(m)) <= Cardinality(Servers)
  BY <1>1, KeysAreFinite, ServersAssumption, FS_Subset
<1>3. \A S : IsFiniteSet(S) => Cardinality(S) \in Nat
  BY FS_CardinalityType
<1>. QED
  BY <1>2, <1>3

LEMMA RecurringKeys ==
  \A k \in Keys : IsRecurring(k) <=> k \in Recurring
BY KindsOfKeys DEF IsRecurring, Keys

LEMMA OverlapStep ==
  ASSUME TypeInv, Given, OverlapInv, Step
  PROVE  OverlapInv'
<1>. SUFFICES ASSUME NEW m \in Monitors
              PROVE  Cardinality(OpenRecurringOf(m)') + Cardinality(Passed(m)') <= Cardinality(Servers)
  BY DEF OverlapInv
<1>. DEFINE A == OpenRecurringOf(m)
            B == Passed(m)
            A1 == OpenRecurringOf(m)'
            B1 == Passed(m)'
<1>1. /\ IsFiniteSet(A) /\ IsFiniteSet(B) /\ Cardinality(A) \in Nat /\ Cardinality(B) \in Nat
      /\ Cardinality(A) + Cardinality(B) <= Cardinality(Servers)
      /\ Cardinality(Servers) \in Nat
  BY FiniteCounts, ServersAssumption, FS_CardinalityType DEF OverlapInv
<1>2. /\ A = {k \in Recurring : run[k] = "open" /\ k[1] = m}
      /\ A1 = {k \in Recurring : run'[k] = "open" /\ k[1] = m}
  BY RecurringKeys, KindsOfKeys DEF OpenRecurringOf, OpenOf, Open, IsRecurring
<1>3. /\ B = {s \in Servers : pc[s] \in Checked /\ job[s].at = m}
      /\ B1 = {s \in Servers : pc'[s] \in Checked /\ job'[s].at = m}
  BY DEF Passed
<1>4. IsFiniteSet(A1) /\ IsFiniteSet(B1) /\ Cardinality(A1) \in Nat /\ Cardinality(B1) \in Nat
  <2>1. A1 \subseteq Keys /\ B1 \subseteq Servers
    BY <1>2, <1>3, KindsOfKeys
  <2>2. IsFiniteSet(A1) /\ IsFiniteSet(B1)
    BY <2>1, KeysAreFinite, ServersAssumption, FS_Subset
  <2>. QED
    BY <2>2, FS_CardinalityType
<1>. HIDE DEF A, B, A1, B1
<1>5. CASE A1 \subseteq A /\ B1 \subseteq B
  <2>1. Cardinality(A1) + Cardinality(B1) <= Cardinality(A) + Cardinality(B)
    BY <1>1, <1>5, Shrinking
  <2>. QED
    BY <1>1, <1>4, <2>1 DEF A1, B1
<1>6. CASE Quiet
  BY <1>2, <1>3, <1>5, <1>6 DEF Quiet, Checked
<1>7. ASSUME NEW s \in Servers, CountOpenRuns(s)
      PROVE  Cardinality(A1) + Cardinality(B1) <= Cardinality(Servers)
  <2>1. UNCHANGED <<run, job>> /\ \A t \in Servers \ {s} : pc'[t] = pc[t]
    BY <1>7 DEF CountOpenRuns, Goto, TypeInv, TypeOK
  <2>2. CASE job[s].at = m /\ pc'[s] \in Checked
    <3>1. OpenOf(m) = {}
      BY <1>7, <2>2 DEF CountOpenRuns, Goto, Busy, Checked, TypeInv, TypeOK
    <3>2. A1 = {}
      BY <1>2, <2>1, <3>1, KindsOfKeys DEF OpenOf, Open
    <3>3. Cardinality(A1) = 0
      BY <3>2, FS_EmptySet
    <3>4. Cardinality(B1) <= Cardinality(Servers)
      BY <1>3, ServersAssumption, FS_Subset
    <3>. QED
      BY <1>1, <1>4, <3>3, <3>4
  <2>3. CASE ~(job[s].at = m /\ pc'[s] \in Checked)
    <3>1. A1 \subseteq A /\ B1 \subseteq B
      BY <1>2, <1>3, <2>1, <2>3
    <3>. QED
      BY <1>5, <3>1 DEF A1, B1
  <2>. QED
    BY <2>2, <2>3
<1>8. ASSUME NEW s \in Servers, CheckLimits(s)
      PROVE  Cardinality(A1) + Cardinality(B1) <= Cardinality(Servers)
  <2>1. /\ UNCHANGED run /\ \A t \in Servers \ {s} : pc'[t] = pc[t] /\ job'[t] = job[t]
        /\ pc'[s] \in Checked => job'[s] = job[s]
        /\ pc[s] \in Checked
    BY <1>8 DEF CheckLimits, Goto, Dismiss, Checked, TypeInv, TypeOK
  <2>2. A1 \subseteq A /\ B1 \subseteq B
    BY <1>2, <1>3, <2>1
  <2>. QED
    BY <1>5, <2>2 DEF A1, B1
<1>9. ASSUME NEW s \in Servers, InsertRun(s)
      PROVE  Cardinality(A1) + Cardinality(B1) <= Cardinality(Servers)
  <2>1. PICK k \in Recurring :
          /\ k[1] = job[s].at
          /\ \A q \in Keys \ {k} : run'[q] = run[q]
    BY <1>9, InsertedRun
  <2>2. /\ UNCHANGED job /\ \A t \in Servers \ {s} : pc'[t] = pc[t]
        /\ pc'[s] \notin Checked /\ pc[s] \in Checked
    BY <1>9 DEF InsertRun, AdvanceAnyway, Goto, Checked, TypeInv, TypeOK
  <2>3. CASE job[s].at = m
    <3>1. A1 \subseteq A \cup {k} /\ B1 \subseteq B \ {s} /\ s \in B
      BY <1>2, <1>3, <2>1, <2>2, <2>3, KindsOfKeys
    <3>2. Cardinality(A1) + Cardinality(B1) <= Cardinality(A) + Cardinality(B)
      BY <1>1, <3>1, Exchange
    <3>. QED
      BY <1>1, <1>4, <3>2
  <2>4. CASE job[s].at # m
    <3>1. A1 \subseteq A /\ B1 \subseteq B
      BY <1>2, <1>3, <2>1, <2>2, <2>4, KindsOfKeys
    <3>. QED
      BY <1>5, <3>1 DEF A1, B1
  <2>. QED
    BY <2>3, <2>4
<1>. QED
  BY <1>6, <1>7, <1>8, <1>9, StepKinds DEF A1, B1

LEMMA OverlapInvariance == Spec => []OverlapInv
<1>1. Init => OverlapInv
  <2>. SUFFICES ASSUME Init, NEW m \in Monitors
                PROVE  Cardinality(OpenRecurringOf(m)) + Cardinality(Passed(m)) <= Cardinality(Servers)
    BY DEF OverlapInv
  <2>1. OpenRecurringOf(m) = {}
    BY DEF Init, OpenRecurringOf, OpenOf, Open
  <2>2. Cardinality(OpenRecurringOf(m)) = 0 /\ Cardinality(Servers) \in Nat
    BY <2>1, FS_EmptySet, FS_CardinalityType, ServersAssumption
  <2>. QED
    BY <2>2, FiniteCounts
<1>2. TypeInv /\ Given /\ OverlapInv /\ [Next]_vars => OverlapInv'
  <2>. SUFFICES ASSUME TypeInv, Given, OverlapInv, [Next]_vars
                PROVE  OverlapInv'
    OBVIOUS
  <2>1. CASE UNCHANGED vars
    BY <2>1 DEF vars, OverlapInv, OpenRecurringOf, OpenOf, Open, Passed
  <2>2. CASE Next
    BY <2>2, OverlapStep DEF Next
  <2>. QED
    BY <2>1, <2>2
<1>. QED
  BY <1>1, <1>2, GivenInvariance, PTL DEF Spec

(* A monitor never has more recurring runs open than there are dispatchers. *)
THEOREM OverlapIsBounded == Spec => []OverlapBounded
<1>1. OverlapInv => OverlapBounded
  <2>. SUFFICES ASSUME OverlapInv, NEW m \in Monitors
                PROVE  Cardinality(OpenRecurringOf(m)) <= Cardinality(Servers)
    BY DEF OverlapBounded, OpenRecurringOf
  <2>1. Cardinality(Servers) \in Nat
    BY FS_CardinalityType, ServersAssumption
  <2>. QED
    BY <2>1, FiniteCounts DEF OverlapInv
<1>. QED
  BY <1>1, OverlapInvariance, PTL

(* A dispatcher that has found the workspace below its limit counts as one. *)
OpenRecurring == {k \in Open : IsRecurring(k)}
Inserting == {s \in Servers : pc[s] = "insert"}

CapInv ==
  Cardinality(OpenRecurring) + Cardinality(Inserting) <= MaxConcurrent - 1 + Cardinality(Servers)

LEMMA FiniteCapCounts ==
  /\ IsFiniteSet(OpenRecurring) /\ IsFiniteSet(Inserting) /\ IsFiniteSet(Open)
  /\ Cardinality(OpenRecurring) \in Nat /\ Cardinality(Inserting) \in Nat
  /\ Cardinality(Open) \in Nat /\ Cardinality(Servers) \in Nat
  /\ Cardinality(OpenRecurring) <= Cardinality(Open)
  /\ Cardinality(Inserting) <= Cardinality(Servers)
<1>1. OpenRecurring \subseteq Open /\ Open \subseteq Keys /\ Inserting \subseteq Servers
  BY DEF OpenRecurring, Open, Inserting
<1>2. IsFiniteSet(Open)
  BY <1>1, KeysAreFinite, FS_Subset
<1>3. /\ IsFiniteSet(OpenRecurring) /\ IsFiniteSet(Inserting)
      /\ Cardinality(OpenRecurring) <= Cardinality(Open)
      /\ Cardinality(Inserting) <= Cardinality(Servers)
  BY <1>1, <1>2, ServersAssumption, FS_Subset
<1>4. \A S : IsFiniteSet(S) => Cardinality(S) \in Nat
  BY FS_CardinalityType
<1>. QED
  BY <1>2, <1>3, <1>4, ServersAssumption

LEMMA CapStep ==
  ASSUME TypeInv, Given, CapInv, Step
  PROVE  CapInv'
<1>. DEFINE A == OpenRecurring
            B == Inserting
            A1 == OpenRecurring'
            B1 == Inserting'
<1>1. /\ IsFiniteSet(A) /\ IsFiniteSet(B) /\ Cardinality(A) \in Nat /\ Cardinality(B) \in Nat
      /\ Cardinality(A) + Cardinality(B) <= MaxConcurrent - 1 + Cardinality(Servers)
      /\ Cardinality(Servers) \in Nat /\ MaxConcurrent \in Nat
  BY FiniteCapCounts, LimitsAssumption DEF CapInv
<1>2. /\ A = {k \in Recurring : run[k] = "open"}
      /\ A1 = {k \in Recurring : run'[k] = "open"}
  BY RecurringKeys, KindsOfKeys DEF OpenRecurring, Open, IsRecurring
<1>3. /\ B = {s \in Servers : pc[s] = "insert"}
      /\ B1 = {s \in Servers : pc'[s] = "insert"}
  BY DEF Inserting
<1>9. Cardinality(A1) \in Nat /\ Cardinality(B1) \in Nat
  <2>1. A1 \subseteq Keys /\ B1 \subseteq Servers
    BY <1>2, <1>3, KindsOfKeys
  <2>2. IsFiniteSet(A1) /\ IsFiniteSet(B1)
    BY <2>1, KeysAreFinite, ServersAssumption, FS_Subset
  <2>. QED
    BY <2>2, FS_CardinalityType
<1>. HIDE DEF A, B, A1, B1
<1>. SUFFICES Cardinality(A1) + Cardinality(B1) <= MaxConcurrent - 1 + Cardinality(Servers)
  BY DEF CapInv, A1, B1
<1>4. CASE A1 \subseteq A /\ B1 \subseteq B
  <2>1. Cardinality(A1) + Cardinality(B1) <= Cardinality(A) + Cardinality(B)
    BY <1>1, <1>4, Shrinking
  <2>. QED
    BY <1>1, <1>9, <2>1
<1>5. CASE Quiet
  BY <1>2, <1>3, <1>4, <1>5 DEF Quiet, Checked
<1>6. ASSUME NEW s \in Servers, CountOpenRuns(s)
      PROVE  A1 \subseteq A /\ B1 \subseteq B
  BY <1>2, <1>3, <1>6 DEF CountOpenRuns, Goto, TypeInv, TypeOK
<1>7. ASSUME NEW s \in Servers, CheckLimits(s)
      PROVE  Cardinality(A1) + Cardinality(B1) <= MaxConcurrent - 1 + Cardinality(Servers)
  <2>1. UNCHANGED run /\ \A t \in Servers \ {s} : pc'[t] = pc[t]
    BY <1>7 DEF CheckLimits, Goto, TypeInv, TypeOK
  <2>2. CASE pc'[s] # "insert"
    BY <1>2, <1>3, <1>4, <2>1, <2>2
  <2>3. CASE pc'[s] = "insert"
    <3>1. BelowCap
      BY <1>7, <2>3 DEF CheckLimits, Goto, TypeInv, TypeOK
    <3>2. A1 = A
      BY <1>2, <2>1
    <3>3. Cardinality(A) <= MaxConcurrent - 1
      BY <1>1, <3>1, FiniteCapCounts DEF BelowCap, A
    <3>4. Cardinality(B1) <= Cardinality(Servers)
      BY <1>3, ServersAssumption, FS_Subset
    <3>. QED
      BY <1>1, <1>9, <3>2, <3>3, <3>4
  <2>. QED
    BY <2>2, <2>3
<1>8. ASSUME NEW s \in Servers, InsertRun(s)
      PROVE  Cardinality(A1) + Cardinality(B1) <= MaxConcurrent - 1 + Cardinality(Servers)
  <2>1. PICK k \in Recurring : \A q \in Keys \ {k} : run'[q] = run[q]
    BY <1>8, InsertedRun
  <2>2. /\ \A t \in Servers \ {s} : pc'[t] = pc[t]
        /\ pc'[s] = "advance" /\ pc[s] = "insert"
    BY <1>8 DEF InsertRun, AdvanceAnyway, Goto, TypeInv, TypeOK
  <2>3. A1 \subseteq A \cup {k} /\ B1 \subseteq B \ {s} /\ s \in B
    BY <1>2, <1>3, <2>1, <2>2, KindsOfKeys
  <2>4. Cardinality(A1) + Cardinality(B1) <= Cardinality(A) + Cardinality(B)
    BY <1>1, <2>3, Exchange
  <2>. QED
    BY <1>1, <1>9, <2>4
<1>. QED
  BY <1>4, <1>5, <1>6, <1>7, <1>8, StepKinds

LEMMA CapInvariance == Spec => []CapInv
<1>1. Init => CapInv
  <2>. SUFFICES ASSUME Init PROVE CapInv
    OBVIOUS
  <2>1. OpenRecurring = {} /\ Inserting = {}
    BY DEF Init, OpenRecurring, Open, Inserting
  <2>2. Cardinality(OpenRecurring) = 0 /\ Cardinality(Inserting) = 0
    BY <2>1, FS_EmptySet
  <2>. QED
    BY <2>2, FiniteCapCounts, LimitsAssumption DEF CapInv
<1>2. TypeInv /\ Given /\ CapInv /\ [Next]_vars => CapInv'
  <2>. SUFFICES ASSUME TypeInv, Given, CapInv, [Next]_vars
                PROVE  CapInv'
    OBVIOUS
  <2>1. CASE UNCHANGED vars
    BY <2>1 DEF vars, CapInv, OpenRecurring, Open, Inserting
  <2>2. CASE Next
    BY <2>2, CapStep DEF Next
  <2>. QED
    BY <2>1, <2>2
<1>. QED
  BY <1>1, <1>2, GivenInvariance, PTL DEF Spec

(* The recurring runs of the workspace exceed the limit by at most one for  *)
(* each dispatcher beyond the first.                                        *)
THEOREM RecurringRunsWithinCap == Spec => []RecurringWithinCap
<1>1. CapInv => RecurringWithinCap
  BY FiniteCapCounts, LimitsAssumption DEF CapInv, RecurringWithinCap, OpenRecurring
<1>. QED
  BY <1>1, CapInvariance, PTL

-----------------------------------------------------------------------------
(* Monitors on hold                                                         *)

(* The monitors that a request is going to write a status to.               *)
Listing == Dispatching \cup {"restore", "reactivate", "trim", "consider", "baseline"}
Intended(m, label, j) ==
  \/ label \in Listing /\ m \in j.todo
  \/ label = "reactivate" /\ m = j.at

(* None of them was on hold when the request read it, and none that is to   *)
(* be resumed had been stopped at the usage limit.                          *)
HoldInv ==
  \A s \in Servers, m \in Monitors :
    /\ Intended(m, pc[s], job[s]) => ~OnHold(monitor[m]) \/ m \in held[s]
    /\ pc[s] = "resume" /\ job[s].at = m =>
         monitor[m].reason # "usage_safety_limit_reached" \/ m \in held[s]

(* A monitor stopped at the usage limit is on hold.                         *)
StoppedInv ==
  \A m \in Monitors :
    monitor[m].reason = "usage_safety_limit_reached" => OnHold(monitor[m])

(* What a step may add to the intentions of a server.                       *)
Fresh(m) == UNCHANGED monitor /\ ~OnHold(monitor[m])
Intentions ==
  \A s \in Servers, m \in Monitors :
    /\ Intended(m, pc'[s], job'[s]) => Intended(m, pc[s], job[s]) \/ Fresh(m)
    /\ pc'[s] = "resume" /\ job'[s].at = m =>
         \/ pc[s] = "resume" /\ job[s].at = m
         \/ UNCHANGED monitor /\ monitor[m].reason # "usage_safety_limit_reached"

LEMMA MoverIntends ==
  ASSUME NEW s \in Servers,
         \A t \in Servers \ {s} : pc'[t] = pc[t] /\ job'[t] = job[t],
         \A m \in Monitors : Intended(m, pc'[s], job'[s]) => Intended(m, pc[s], job[s]) \/ Fresh(m),
         \A m \in Monitors : pc'[s] = "resume" /\ job'[s].at = m =>
           UNCHANGED monitor /\ monitor[m].reason # "usage_safety_limit_reached"
  PROVE  Intentions
BY DEF Intentions

LEMMA ActiveIsNotHeld == \A m : monitor[m].status \in {"absent", "configured", "active"} => ~OnHold(monitor[m])
BY DEF OnHold

LEMMA CandidatesAreNotHeld ==
  /\ \A m \in Due : ~OnHold(monitor[m])
  /\ \A m \in Excess : ~OnHold(monitor[m])
  /\ \A m \in BlockedFor(RESTORABLE_PAUSE_REASONS) : ~OnHold(monitor[m])
  /\ \A m \in Candidates : ~OnHold(monitor[m])
BY DEF Due, Excess, BlockedFor, Candidates, Having, OnHold, RESTORABLE_PAUSE_REASONS,
       RECOVERABLE_BLOCK_REASONS

LEMMA ReturnIntends ==
  ASSUME TypeInv, NEW s \in Servers, Return(s)
  PROVE  Intentions
<1>1. pc'[s] = "idle" /\ \A t \in Servers \ {s} : pc'[t] = pc[t] /\ job'[t] = job[t]
  BY DEF Return, Goto, TypeInv, TypeOK
<1>2. \A m \in Monitors : ~Intended(m, pc'[s], job'[s])
  BY <1>1 DEF Intended, Listing, Dispatching
<1>. QED
  BY <1>1, <1>2, MoverIntends

(* A server that goes through its list, without picking one to reactivate.  *)
LEMMA LesserIntends ==
  ASSUME NEW s \in Servers,
         \A t \in Servers \ {s} : pc'[t] = pc[t] /\ job'[t] = job[t],
         pc[s] \in Listing, job'[s].todo \subseteq job[s].todo,
         pc'[s] \notin {"reactivate", "resume"}
  PROVE  Intentions
<1>1. \A m \in Monitors : Intended(m, pc'[s], job'[s]) => Intended(m, pc[s], job[s])
  BY DEF Intended
<1>. QED
  BY <1>1, MoverIntends

LEMMA DispatchIntends ==
  ASSUME TypeInv, NEW s \in Servers, Dispatch(s)
  PROVE  Intentions
<1>. USE DEF Goto
<1>1. /\ job[s] \in Job /\ job \in [Servers -> Job] /\ pc \in [Servers -> Labels]
  BY JobOf DEF TypeInv, TypeOK
<1>3. CASE StartDispatch(s)
  <2>1. /\ pc'[s] = "dispatch" /\ job'[s].todo = Due /\ UNCHANGED monitor
        /\ \A t \in Servers \ {s} : pc'[t] = pc[t] /\ job'[t] = job[t]
    BY <1>1, <1>3 DEF StartDispatch, NoJob
  <2>2. \A m \in Monitors : Intended(m, pc'[s], job'[s]) => Fresh(m)
    BY <2>1, CandidatesAreNotHeld DEF Intended, Fresh
  <2>. QED
    BY <2>1, <2>2, MoverIntends
<1>4. CASE Return(s)
  BY <1>4, ReturnIntends
<1>5. ASSUME NEW m \in Monitors, Take(s, m)
      PROVE  Intentions
  <2>1. pc[s] = "dispatch" /\ pc'[s] \in {"dispatch", "count"}
    BY <1>1, <1>5 DEF Take
  <2>2. \A t \in Servers \ {s} : pc'[t] = pc[t] /\ job'[t] = job[t]
    BY <1>1, <1>5 DEF Take
  <2>3. CASE m \in supported /\ authorized
    <3>1. job'[s].todo = job[s].todo \ {m}
      BY <1>1, <1>5, <2>3 DEF Take, Job
    <3>. QED
      BY <2>1, <2>2, <3>1, LesserIntends DEF Listing, Dispatching
  <2>4. CASE ~(m \in supported /\ authorized)
    <3>1. job'[s].todo = job[s].todo \ {m}
      BY <1>1, <1>5, <2>4 DEF Take, Job
    <3>. QED
      BY <2>1, <2>2, <3>1, LesserIntends DEF Listing, Dispatching
  <2>. QED
    BY <2>3, <2>4
<1>6. CASE \/ CountOpenRuns(s) \/ InsertRun(s)
           \/ CheckLimits(s) /\ UNCHANGED job
           \/ BlockMonitorsForUsageLimit(s) /\ ~Return(s) /\ job[s].run = Nobody
  <2>1. UNCHANGED job
    BY <1>6 DEF CountOpenRuns, InsertRun, AdvanceAnyway, BlockMonitorsForUsageLimit
  <2>2. pc[s] \in Dispatching /\ pc'[s] \in Dispatching
    BY <1>1, <1>6 DEF CountOpenRuns, InsertRun, AdvanceAnyway, BlockMonitorsForUsageLimit,
         CheckLimits, Dispatching
  <2>3. \A t \in Servers \ {s} : pc'[t] = pc[t]
    BY <1>1, <1>6 DEF CountOpenRuns, InsertRun, AdvanceAnyway, BlockMonitorsForUsageLimit,
         CheckLimits
  <2>. QED
    BY <2>1, <2>2, <2>3, LesserIntends DEF Listing, Dispatching
<1>7. CASE Dismiss(s) /\ (PushForward(s) \/ CheckLimits(s) \/ Advance(s))
  <2>1. pc[s] \in Dispatching /\ pc'[s] \in Dispatching
    BY <1>1, <1>7 DEF PushForward, CheckLimits, Advance, Dispatching
  <2>2. \A t \in Servers \ {s} : pc'[t] = pc[t]
    BY <1>1, <1>7 DEF PushForward, CheckLimits, Advance
  <2>3. job'[s].todo = job[s].todo /\ \A t \in Servers \ {s} : job'[t] = job[t]
    BY <1>1, <1>7 DEF Dismiss, Job
  <2>. QED
    BY <2>1, <2>2, <2>3, LesserIntends DEF Listing, Dispatching
<1>8. CheckLimits(s) => UNCHANGED job \/ Dismiss(s)
  BY DEF CheckLimits
<1>9. PushForward(s) \/ Advance(s) => Dismiss(s)
  BY DEF PushForward, Advance
<1>10. EndDispatch(s) \/ GiveUp(s) => Return(s)
  BY DEF EndDispatch, GiveUp
<1>11. CASE BlockMonitorsForUsageLimit(s) /\ job[s].run # Nobody
  <2>1. /\ pc'[s] = "fail"
        /\ \A t \in Servers \ {s} : pc'[t] = pc[t] /\ job'[t] = job[t]
    BY <1>1, <1>11 DEF BlockMonitorsForUsageLimit
  <2>2. \A m \in Monitors : ~Intended(m, pc'[s], job'[s])
    BY <2>1 DEF Intended, Listing, Dispatching
  <2>. QED
    BY <2>1, <2>2, MoverIntends
<1>. QED
  BY <1>3, <1>4, <1>5, <1>6, <1>7, <1>8, <1>9, <1>10, <1>11 DEF Dispatch

LEMMA PageIntends ==
  ASSUME TypeInv, NEW s \in Servers, Page(s)
  PROVE  Intentions
<1>. USE DEF Goto
<1>1. /\ job[s] \in Job /\ job \in [Servers -> Job] /\ pc \in [Servers -> Labels]
      /\ job[s].todo \in SUBSET Monitors
  BY JobOf DEF TypeInv, TypeOK
<1>2. \A t \in Servers \ {s} : pc'[t] = pc[t] /\ job'[t] = job[t]
  BY <1>1 DEF Page, OpenPage, Restore, Reactivate, Trim, NeedsActivation, Return
<1>3. CASE OpenPage(s)
  <2>1. /\ pc'[s] = "restore" /\ UNCHANGED monitor
        /\ job'[s].todo = BlockedFor(RESTORABLE_PAUSE_REASONS)
    BY <1>1, <1>3 DEF OpenPage, NoJob
  <2>2. \A m \in Monitors : Intended(m, pc'[s], job'[s]) => Fresh(m)
    BY <2>1, CandidatesAreNotHeld DEF Intended, Fresh
  <2>. QED
    BY <1>2, <2>1, <2>2, MoverIntends
<1>4. CASE Restore(s)
  <2>1. UNCHANGED monitor /\ pc[s] = "restore"
    BY <1>4 DEF Restore
  <2>2. CASE job[s].todo = {}
    <3>1. pc'[s] = "trim" /\ job'[s].todo = Excess
      BY <1>1, <1>4, <2>2 DEF Restore, Job
    <3>2. \A m \in Monitors : Intended(m, pc'[s], job'[s]) => Fresh(m)
      BY <2>1, <3>1, CandidatesAreNotHeld DEF Intended, Fresh
    <3>. QED
      BY <1>2, <3>1, <3>2, MoverIntends
  <2>3. CASE job[s].todo # {}
    <3>1. First(job[s].todo) \in job[s].todo
      BY <1>1, <2>3, FirstIsMember
    <3>2. /\ job'[s].todo \subseteq job[s].todo
          /\ \/ pc'[s] = "reactivate" /\ job'[s].at \in job[s].todo
             \/ pc'[s] = "restore"
      BY <1>1, <1>4, <2>1, <2>3, <3>1 DEF Restore, Job
    <3>3. \A m \in Monitors : Intended(m, pc'[s], job'[s]) => Intended(m, pc[s], job[s])
      BY <1>1, <2>1, <3>2 DEF Intended, Listing
    <3>. QED
      BY <1>2, <3>2, <3>3, MoverIntends
  <2>. QED
    BY <2>2, <2>3
<1>5. CASE Reactivate(s)
  <2>1. pc'[s] = "restore" /\ job'[s].todo = job[s].todo /\ pc[s] = "reactivate"
    BY <1>1, <1>5 DEF Reactivate, Job
  <2>. QED
    BY <1>2, <2>1, LesserIntends DEF Listing
<1>6. CASE Trim(s)
  <2>1. /\ pc[s] = "trim" /\ job'[s].todo \subseteq job[s].todo
        /\ pc'[s] \in {"needs", "trim"}
    BY <1>1, <1>6 DEF Trim, Job
  <2>. QED
    BY <1>2, <2>1, LesserIntends DEF Listing
<1>7. CASE NeedsActivation(s) /\ ~Return(s)
  <2>1. pc'[s] = "activate"
    BY <1>1, <1>7 DEF NeedsActivation
  <2>2. \A m \in Monitors : ~Intended(m, pc'[s], job'[s])
    BY <2>1 DEF Intended, Listing, Dispatching
  <2>. QED
    BY <1>2, <2>1, <2>2, MoverIntends
<1>. QED
  BY <1>3, <1>4, <1>5, <1>6, <1>7, ReturnIntends DEF Page

LEMMA ActivationIntends ==
  ASSUME TypeInv, NEW s \in Servers, Activation(s)
  PROVE  Intentions
<1>. USE DEF Goto
<1>1. /\ job[s] \in Job /\ job \in [Servers -> Job] /\ pc \in [Servers -> Labels]
      /\ JobOk(pc[s], job[s])
  BY JobOf DEF TypeInv, TypeOK
<1>2. \A t \in Servers \ {s} : pc'[t] = pc[t] /\ job'[t] = job[t]
  BY <1>1 DEF Activation, Activate, Consider, Block, EndActivation, QueueBaselineRun, Return
<1>3. CASE Activate(s) /\ ~Return(s)
  <2>1. /\ UNCHANGED monitor /\ pc[s] = "activate"
        /\ \/ pc'[s] = "block" /\ job'[s].todo = {}
           \/ pc'[s] = "consider" /\ job'[s].todo = Candidates
    BY <1>1, <1>3 DEF Activate, NoJob, JobOk
  <2>2. \A m \in Monitors : Intended(m, pc'[s], job'[s]) => Fresh(m)
    BY <2>1, CandidatesAreNotHeld DEF Intended, Fresh
  <2>. QED
    BY <1>2, <2>1, <2>2, MoverIntends
<1>4. CASE Consider(s)
  <2>1. pc[s] = "consider" /\ pc'[s] \in {"consider", "baseline"}
    BY <1>1, <1>4 DEF Consider, Block
  <2>2. \E m : job'[s].todo = job[s].todo \ {m}
    <3>. DEFINE m == First(job[s].todo)
    <3>1. CASE job' = [job EXCEPT ![s].todo = @ \ {m}]
      <4>. HIDE DEF m
      <4>. QED
        BY <1>1, <3>1 DEF Job
    <3>2. CASE job' = [job EXCEPT ![s].todo = @ \ {m}, ![s].at = m, ![s].activated = @ + 1]
      <4>. HIDE DEF m
      <4>. QED
        BY <1>1, <3>2 DEF Job
    <3>. QED
      BY <1>4, <3>1, <3>2 DEF Consider, Block
  <2>. QED
    BY <1>2, <2>1, <2>2, LesserIntends DEF Listing
<1>5. CASE QueueBaselineRun(s)
  <2>1. pc[s] = "baseline" /\ pc'[s] = "consider"
    BY <1>1, <1>5 DEF QueueBaselineRun
  <2>2. job'[s].todo = job[s].todo
    <3>1. PICK k : job' = [job EXCEPT ![s].at = Nobody,
                             ![s].budget = IF run[k] = "absent" THEN @ - 1 ELSE @]
      BY <1>5 DEF QueueBaselineRun
    <3>. QED
      BY <1>1, <3>1 DEF Job
  <2>. QED
    BY <1>2, <2>1, <2>2, LesserIntends DEF Listing
<1>. QED
  BY <1>3, <1>4, <1>5, ReturnIntends DEF Activation, EndActivation

LEMMA OthersIntend ==
  ASSUME TypeInv, NEW s \in Servers,
         \/ CreateMonitor(s) \/ Resume(s) \/ Crash(s)
         \/ \E m \in Monitors : StartResume(s, m)
         \/ \E k \in Keys : StopRun(s, k)
  PROVE  Intentions
<1>. USE DEF Goto
<1>1. /\ job[s] \in Job /\ job \in [Servers -> Job] /\ pc \in [Servers -> Labels]
      /\ JobOk(pc[s], job[s])
  BY JobOf DEF TypeInv, TypeOK
<1>2. CASE CreateMonitor(s)
  <2>1. /\ pc'[s] = "activate"
        /\ \A t \in Servers \ {s} : pc'[t] = pc[t] /\ job'[t] = job[t]
    BY <1>1, <1>2 DEF CreateMonitor
  <2>2. \A m \in Monitors : ~Intended(m, pc'[s], job'[s])
    BY <2>1 DEF Intended, Listing, Dispatching
  <2>. QED
    BY <2>1, <2>2, MoverIntends
<1>3. CASE \E m \in Monitors : StartResume(s, m)
  <2>1. PICK m \in Monitors : StartResume(s, m)
    BY <1>3
  <2>2. /\ pc'[s] = "resume" /\ job'[s].at = m /\ UNCHANGED monitor
        /\ monitor[m].reason # "usage_safety_limit_reached"
        /\ \A t \in Servers \ {s} : pc'[t] = pc[t] /\ job'[t] = job[t]
    BY <1>1, <2>1 DEF StartResume, Resumable, NoJob
  <2>3. \A k \in Monitors : ~Intended(k, pc'[s], job'[s])
    BY <2>2 DEF Intended, Listing, Dispatching
  <2>. QED
    BY <2>2, <2>3, MoverIntends
<1>4. CASE \E k \in Keys : StopRun(s, k)
  <2>1. /\ pc'[s] = "block" /\ job'[s].todo = {}
        /\ \A t \in Servers \ {s} : pc'[t] = pc[t] /\ job'[t] = job[t]
    BY <1>1, <1>4 DEF StopRun, NoJob
  <2>2. \A m \in Monitors : ~Intended(m, pc'[s], job'[s])
    BY <2>1 DEF Intended
  <2>. QED
    BY <2>1, <2>2, MoverIntends
<1>. QED
  BY <1>2, <1>3, <1>4, ReturnIntends DEF Resume, Crash

LEMMA StepIntends ==
  ASSUME TypeInv, Step
  PROVE  Intentions
<1>1. CASE Around
  <2>1. UNCHANGED <<pc, job>>
    BY <1>1 DEF Around, Pause, SwitchSurface, FailRun, CompleteRun, Tick, NewPeriod, SwitchBilling
  <2>. QED
    BY <2>1 DEF Intentions
<1>. QED
  BY <1>1, DispatchIntends, PageIntends, ActivationIntends, OthersIntend DEF Step, Around

(* How a step writes monitors: one that it takes off hold was intended or   *)
(* is being resumed, and only an active one is stopped at the usage limit.  *)
Writes ==
  \A m \in Monitors :
    /\ OnHold(monitor[m]) /\ ~OnHold(monitor'[m]) =>
         \E s \in Servers : Intended(m, pc[s], job[s]) \/ (pc[s] = "resume" /\ job[s].at = m)
    /\ monitor'[m].reason = "usage_safety_limit_reached" =>
         \/ /\ monitor[m].reason = "usage_safety_limit_reached"
            /\ monitor'[m].status = monitor[m].status
         \/ ~OnHold(monitor[m]) /\ OnHold(monitor'[m])

LEMMA SameWrites ==
  ASSUME \A m \in Monitors :
           /\ monitor'[m].status = monitor[m].status
           /\ monitor'[m].reason = monitor[m].reason
  PROVE  Writes
BY DEF Writes, OnHold

(* One monitor is written.                                                  *)
LEMMA OneWrite ==
  ASSUME TypeInv, NEW m \in Monitors, NEW row,
         monitor' = [monitor EXCEPT ![m] = row],
         row.reason # "usage_safety_limit_reached",
         \/ OnHold(row)
         \/ ~OnHold(monitor[m])
         \/ \E s \in Servers : Intended(m, pc[s], job[s]) \/ (pc[s] = "resume" /\ job[s].at = m)
  PROVE  Writes
BY DEF Writes, TypeInv, TypeOK

LEMMA WithWrites ==
  ASSUME TypeInv, NEW m \in Monitors, NEW status, NEW reason, monitor' = With(m, status, reason),
         reason # "usage_safety_limit_reached",
         \/ status = "paused"
         \/ status = "blocked" /\ reason = "repeated_failures"
         \/ ~OnHold(monitor[m])
         \/ \E s \in Servers : Intended(m, pc[s], job[s]) \/ (pc[s] = "resume" /\ job[s].at = m)
  PROVE  Writes
<1>. DEFINE row == [monitor[m] EXCEPT !.status = status, !.reason = reason]
<1>1. monitor' = [monitor EXCEPT ![m] = row]
  BY DEF With, TypeInv, TypeOK
<1>2. row.status = status /\ row.reason = reason
  BY DEF TypeInv, TypeOK, Row
<1>. HIDE DEF row
<1>. QED
  BY <1>1, <1>2, OneWrite DEF OnHold

LEMMA NextWrites ==
  ASSUME TypeInv, NEW m, NEW next, monitor' = [monitor EXCEPT ![m].next = next]
  PROVE  Writes
<1>1. \A k \in Monitors : monitor'[k].status = monitor[k].status /\ monitor'[k].reason = monitor[k].reason
  BY DEF TypeInv, TypeOK, Row
<1>. QED
  BY <1>1, SameWrites

LEMMA MarkWrites ==
  ASSUME TypeInv, NEW k \in Keys, MarkRunFailed(k)
  PROVE  Writes
BY SameWrites, MonitorOfKey, WithWrites DEF MarkRunFailed

LEMMA StepWrites ==
  ASSUME TypeInv, Step
  PROVE  Writes
<1>1. CASE UNCHANGED monitor
  BY <1>1, SameWrites
<1>2. ASSUME NEW s \in Servers, Dispatch(s)
      PROVE  Writes
  <2>1. CASE \E m \in Monitors : Take(s, m)
    <3>1. PICK m \in Monitors : Take(s, m)
      BY <2>1
    <3>2. Intended(m, pc[s], job[s])
      BY <3>1 DEF Take, Intended, Listing, Dispatching
    <3>. QED
      BY <1>1, <3>1, <3>2, WithWrites DEF Take
  <2>2. CASE PushForward(s) \/ Advance(s)
    BY <2>2, NextWrites DEF PushForward, Advance
  <2>3. CASE BlockMonitorsForUsageLimit(s)
    BY <2>3 DEF BlockMonitorsForUsageLimit, Writes, Having, OnHold, TypeInv, TypeOK, Row
  <2>4. CASE GiveUp(s)
    <3>1. job[s].run \in Keys /\ MarkRunFailed(job[s].run)
      BY <2>4, JobOf DEF GiveUp, JobOk
    <3>. QED
      BY <3>1, MarkWrites
  <2>. QED
    BY <1>1, <1>2, <2>1, <2>2, <2>3, <2>4
       DEF Dispatch, StartDispatch, EndDispatch, CountOpenRuns, CheckLimits, InsertRun
<1>3. ASSUME NEW s \in Servers, Page(s)
      PROVE  Writes
  <2>1. CASE Reactivate(s)
    <3>1. job[s].at \in Monitors /\ Intended(job[s].at, pc[s], job[s])
      BY <2>1, JobOf DEF Reactivate, JobOk, InHand, Intended
    <3>. QED
      BY <2>1, <3>1, WithWrites DEF Reactivate
  <2>2. CASE Trim(s)
    <3>1. CASE job[s].todo # {}
      <4>1. First(job[s].todo) \in Monitors /\ First(job[s].todo) \in job[s].todo
        BY <3>1, JobOf, FirstIsMember
      <4>2. Intended(First(job[s].todo), pc[s], job[s])
        BY <2>2, <4>1 DEF Trim, Intended, Listing
      <4>. QED
        BY <2>2, <3>1, <4>1, <4>2, WithWrites DEF Trim
    <3>. QED
      BY <1>1, <2>2, <3>1 DEF Trim
  <2>. QED
    BY <1>1, <1>3, <2>1, <2>2 DEF Page, OpenPage, Restore, NeedsActivation
<1>4. ASSUME NEW s \in Servers, Activation(s)
      PROVE  Writes
  <2>1. CASE Consider(s)
    <3>. DEFINE m == First(job[s].todo)
    <3>1. m \in Monitors /\ m \in job[s].todo
      BY <2>1, JobOf, FirstIsMember DEF Consider
    <3>2. Intended(m, pc[s], job[s])
      BY <2>1, <3>1 DEF Consider, Intended, Listing
    <3>. DEFINE row == [status |-> "active", reason |-> "none", next |-> NextSlot(job[s].now)]
    <3>3. \/ monitor' = With(m, "blocked", "unsupported_surface")
          \/ monitor' = With(m, "blocked", "max_active_monitors")
          \/ monitor' = [monitor EXCEPT ![m] = row]
      BY <2>1 DEF Consider, Block
    <3>4. row.reason = "none"
      OBVIOUS
    <3>. HIDE DEF m, row
    <3>5. CASE monitor' = [monitor EXCEPT ![m] = row]
      BY <3>1, <3>2, <3>4, <3>5, OneWrite
    <3>6. CASE monitor' = With(m, "blocked", "unsupported_surface")
      BY <3>1, <3>2, <3>6, WithWrites
    <3>7. CASE monitor' = With(m, "blocked", "max_active_monitors")
      BY <3>1, <3>2, <3>7, WithWrites
    <3>. QED
      BY <3>3, <3>5, <3>6, <3>7
  <2>. QED
    BY <1>1, <1>4, <2>1 DEF Activation, Activate, EndActivation, QueueBaselineRun
<1>5. ASSUME NEW s \in Servers, CreateMonitor(s)
      PROVE  Writes
  <2>1. First(Having("absent")) \in Monitors /\ First(Having("absent")) \in Having("absent")
    BY <1>5, FirstIsMember, HavingAreMonitors DEF CreateMonitor
  <2>2. ~OnHold(monitor[First(Having("absent"))])
    BY <2>1, ActiveIsNotHeld DEF Having
  <2>. QED
    BY <1>5, <2>1, <2>2, WithWrites DEF CreateMonitor
<1>6. ASSUME NEW s \in Servers, Resume(s)
      PROVE  Writes
  <2>1. job[s].at \in Monitors /\ pc[s] = "resume"
    BY <1>6, JobOf DEF Resume, JobOk, InHand
  <2>. DEFINE row == [status |-> "active", reason |-> "none", next |-> NextSlot(job[s].now)]
  <2>2. monitor' = [monitor EXCEPT ![job[s].at] = row] /\ row.reason # "usage_safety_limit_reached"
    BY <1>6 DEF Resume
  <2>. HIDE DEF row
  <2>. QED
    BY <2>1, <2>2, OneWrite
<1>7. CASE Around
  <2>1. CASE \E m \in Monitors : Pause(m)
    BY <2>1, WithWrites DEF Pause
  <2>2. CASE \E k \in Keys : FailRun(k)
    BY <2>2, MarkWrites DEF FailRun
  <2>3. CASE \E k \in Keys : CompleteRun(k)
    BY <2>3, NextWrites DEF CompleteRun
  <2>. QED
    BY <1>1, <1>7, <2>1, <2>2, <2>3 DEF Around, SwitchSurface, Tick, NewPeriod, SwitchBilling
<1>8. ASSUME NEW s \in Servers,
             Crash(s) \/ (\E m \in Monitors : StartResume(s, m)) \/ (\E k \in Keys : StopRun(s, k))
      PROVE  Writes
  BY <1>1, <1>8 DEF Crash, StartResume, StopRun
<1>. QED
  BY <1>2, <1>3, <1>4, <1>5, <1>6, <1>7, <1>8 DEF Step, Around

LEMMA StoppedStep ==
  ASSUME TypeInv, StoppedInv, Step
  PROVE  StoppedInv'
<1>. SUFFICES ASSUME NEW m \in Monitors, monitor'[m].reason = "usage_safety_limit_reached"
              PROVE  OnHold(monitor'[m])
  BY DEF StoppedInv, OnHold
<1>1. CASE monitor[m].reason = "usage_safety_limit_reached" /\ monitor'[m].status = monitor[m].status
  BY <1>1 DEF StoppedInv, OnHold
<1>. QED
  BY <1>1, StepWrites DEF Writes

LEMMA HoldStep ==
  ASSUME TypeInv, HoldInv, StoppedInv, Step, Remember
  PROVE  HoldInv'
<1>1. Intentions /\ Writes
  BY StepIntends, StepWrites
<1>. SUFFICES ASSUME NEW s \in Servers, NEW m \in Monitors
              PROVE  /\ Intended(m, pc'[s], job'[s]) => ~OnHold(monitor'[m]) \/ m \in held'[s]
                     /\ pc'[s] = "resume" /\ job'[s].at = m =>
                          monitor'[m].reason # "usage_safety_limit_reached" \/ m \in held'[s]
  BY DEF HoldInv, Intended, OnHold
<1>2. m \in held'[s] <=>
        /\ pc'[s] # "idle"
        /\ OnHold(monitor'[m])
        /\ m \in held[s] \/ (pc[s] # "idle" /\ ~OnHold(monitor[m]))
  BY DEF Remember
<1>3. ASSUME Intended(m, pc'[s], job'[s]) PROVE ~OnHold(monitor'[m]) \/ m \in held'[s]
  <2>1. pc'[s] # "idle"
    BY <1>3 DEF Intended, Listing, Dispatching
  <2>2. CASE Intended(m, pc[s], job[s])
    <3>1. pc[s] # "idle" /\ (~OnHold(monitor[m]) \/ m \in held[s])
      BY <2>2 DEF Intended, Listing, Dispatching, HoldInv
    <3>. QED
      BY <1>2, <2>1, <3>1
  <2>3. CASE Fresh(m)
    BY <2>3 DEF Fresh
  <2>. QED
    BY <1>1, <1>3, <2>2, <2>3 DEF Intentions
<1>4. ASSUME pc'[s] = "resume", job'[s].at = m, monitor'[m].reason = "usage_safety_limit_reached"
      PROVE  m \in held'[s]
  <2>1. pc[s] = "resume" /\ job[s].at = m
    BY <1>1, <1>4 DEF Intentions
  <2>2. CASE monitor[m].reason = "usage_safety_limit_reached"
    <3>1. m \in held[s]
      BY <2>1, <2>2 DEF HoldInv
    <3>2. OnHold(monitor'[m])
      BY <1>4, StoppedStep DEF StoppedInv
    <3>. QED
      BY <1>2, <1>4, <3>1, <3>2
  <2>3. CASE ~OnHold(monitor[m]) /\ OnHold(monitor'[m])
    BY <1>2, <1>4, <2>1, <2>3
  <2>. QED
    BY <1>1, <1>4, <2>2, <2>3 DEF Writes
<1>. QED
  BY <1>3, <1>4

LEMMA HoldInvariance == Spec => [](HoldInv /\ StoppedInv)
<1>1. Init => HoldInv /\ StoppedInv
  BY DEF Init, HoldInv, StoppedInv, Intended, Listing, Dispatching
<1>2. TypeInv /\ HoldInv /\ StoppedInv /\ [Next]_vars => (HoldInv /\ StoppedInv)'
  <2>. SUFFICES ASSUME TypeInv, HoldInv, StoppedInv, [Next]_vars
                PROVE  HoldInv' /\ StoppedInv'
    OBVIOUS
  <2>1. CASE UNCHANGED vars
    BY <2>1 DEF vars, HoldInv, StoppedInv, Intended, OnHold
  <2>2. CASE Next
    BY <2>2, HoldStep, StoppedStep DEF Next
  <2>. QED
    BY <2>1, <2>2
<1>. QED
  BY <1>1, <1>2, TypeInvariance, PTL DEF Spec

(* A monitor on hold is taken off hold only by the user's resume, which is  *)
(* refused while its reason is the usage limit, or by a request that had    *)
(* read it before it was put on hold.                                       *)
THEOREM HoldsLast == Spec => HoldsUntilUser
<1>1. TypeInv /\ HoldInv /\ [Next]_vars
        => [\A m \in Monitors :
              OnHold(monitor[m]) /\ ~OnHold(monitor'[m]) =>
                \E s \in Servers :
                  \/ m \in held[s]
                  \/ /\ pc[s] = "resume" /\ job[s].at = m
                     /\ monitor[m].reason # "usage_safety_limit_reached"]_vars
  <2>. SUFFICES ASSUME TypeInv, HoldInv, [Next]_vars, NEW m \in Monitors,
                       OnHold(monitor[m]), ~OnHold(monitor'[m])
                PROVE  \E s \in Servers :
                         \/ m \in held[s]
                         \/ /\ pc[s] = "resume" /\ job[s].at = m
                            /\ monitor[m].reason # "usage_safety_limit_reached"
    OBVIOUS
  <2>1. CASE UNCHANGED vars
    BY <2>1 DEF vars, OnHold
  <2>2. CASE Next
    <3>1. PICK s \in Servers : Intended(m, pc[s], job[s]) \/ (pc[s] = "resume" /\ job[s].at = m)
      BY <2>2, StepWrites DEF Next, Writes
    <3>. QED
      BY <3>1 DEF HoldInv
  <2>. QED
    BY <2>1, <2>2
<1>. QED
  BY <1>1, TypeInvariance, HoldInvariance, PTL DEF Spec, HoldsUntilUser

-----------------------------------------------------------------------------
(* The monitors page and the cap on active monitors                         *)

Active == Having("active")
Earlier(m) == {other \in Active : other < m}

(* A set of monitors that is not empty has a last.                          *)
LEMMA LastExists ==
  ASSUME NEW S \in SUBSET Monitors, S # {}
  PROVE  \E last \in S : \A m \in S : m <= last
<1>. DEFINE After(x) == {y \in S : y >= x}
            D == {After(x) : x \in S}
            R == StrictSubsetOrdering(S)
<1>1. IsFiniteSet(S) /\ S \subseteq Nat
  BY FS_Subset, MonitorsAssumption
<1>2. D \subseteq FiniteSubsetsOf(S) /\ D # {}
  <2>1. FiniteSubsetsOf(S) = SUBSET S
    BY <1>1, FS_FiniteSubsetsOfFinite
  <2>2. \A x \in S : After(x) \in SUBSET S
    OBVIOUS
  <2>3. D \subseteq SUBSET S /\ D # {}
    BY <2>2
  <2>. QED
    BY <2>1, <2>3
<1>3. IsWellFoundedOn(R, FiniteSubsetsOf(S))
  BY FS_StrictSubsetOrderingWellFounded
<1>. HIDE DEF D, R
<1>4. PICK d \in D : \A e \in D : ~(<<e, d>> \in R)
  BY <1>2, <1>3, WFMin
<1>. USE DEF D, R
<1>5. PICK x \in S : d = After(x)
  OBVIOUS
<1>6. \A y \in S : y <= x
  <2>. SUFFICES ASSUME NEW y \in S, ~(y <= x) PROVE FALSE
    OBVIOUS
  <2>1. x \in Nat /\ y \in Nat /\ x < y
    BY <1>1
  <2>2. After(y) \subseteq After(x)
    <3>1. \A z \in S : z >= y => z >= x
      BY <1>1, <2>1
    <3>. QED
      BY <3>1
  <2>3. x \in After(x) /\ x \notin After(y)
    BY <2>1
  <2>4. /\ After(x) \in SUBSET S /\ After(y) \in SUBSET S
        /\ After(y) # After(x) /\ After(y) \in D
    <3>1. After(x) \in SUBSET S /\ After(y) \in SUBSET S
      OBVIOUS
    <3>. HIDE DEF After
    <3>. QED
      BY <2>3, <3>1
  <2>. HIDE DEF After
  <2>5. <<After(y), After(x)>> \in R
    BY <2>2, <2>4 DEF StrictSubsetOrdering
  <2>. QED
    BY <1>4, <1>5, <2>4, <2>5
<1>. QED
  BY <1>6

(* What is not in excess fits under the cap: the last of it has fewer than  *)
(* MaxActive active monitors before it.                                     *)
LEMMA ExcessLeavesTheCap == Cardinality(Active \ Excess) <= MaxActive
<1>. DEFINE kept == Active \ Excess
<1>1. /\ kept \subseteq Monitors /\ kept \subseteq Active /\ Active \subseteq Monitors
      /\ IsFiniteSet(kept) /\ IsFiniteSet(Active)
  BY HavingAreMonitors, MonitorsAssumption, FS_Subset DEF Active
<1>2. MaxActive \in Nat
  BY LimitsAssumption
<1>3. CASE kept = {}
  BY <1>2, <1>3, FS_EmptySet
<1>4. CASE kept # {}
  <2>1. PICK last \in kept : \A m \in kept : m <= last
    BY <1>1, <1>4, LastExists
  <2>2. Cardinality(kept \ {last}) = Cardinality(kept) - 1
    BY <1>1, <2>1, FS_RemoveElement
  <2>3. kept \ {last} \subseteq Earlier(last)
    <3>1. \A m \in kept : m \in Nat /\ m \in Active
      BY <1>1, MonitorsAssumption
    <3>. QED
      BY <2>1, <3>1 DEF Earlier
  <2>4. IsFiniteSet(Earlier(last))
    BY <1>1, FS_Subset DEF Earlier
  <2>5. Cardinality(kept \ {last}) <= Cardinality(Earlier(last))
    BY <2>3, <2>4, FS_Subset
  <2>6. ~(Cardinality(Earlier(last)) >= MaxActive)
    BY <2>1 DEF Excess, Earlier, Active
  <2>7. Cardinality(Earlier(last)) \in Nat /\ Cardinality(kept) \in Nat
    BY <1>1, <2>4, FS_CardinalityType
  <2>. QED
    BY <1>2, <2>2, <2>5, <2>6, <2>7
<1>. QED
  BY <1>3, <1>4

(* While the page trims, what it has not listed fits under the cap, and it  *)
(* is done when nothing is left of its list.                                *)
TrimInv ==
  \A s \in Servers :
    /\ pc[s] = "trim" => Cardinality(Active \ job[s].todo) <= MaxActive
    /\ pc[s] = "needs" => Cardinality(Active) <= MaxActive

(* Fewer monitors are within the cap, too.                                  *)
LEMMA FewerAreWithinCap ==
  ASSUME NEW S \in SUBSET Monitors, NEW T \in SUBSET S, Cardinality(S) <= MaxActive
  PROVE  Cardinality(T) <= MaxActive
<1>1. IsFiniteSet(S) /\ IsFiniteSet(T)
  BY MonitorsAssumption, FS_Subset
<1>2. Cardinality(T) <= Cardinality(S) /\ Cardinality(T) \in Nat /\ Cardinality(S) \in Nat
  BY <1>1, FS_Subset, FS_CardinalityType
<1>. QED
  BY <1>2, LimitsAssumption

(* Nothing that happens around the servers makes a monitor active.          *)
LEMMA AroundActivatesNothing ==
  ASSUME TypeInv, Around
  PROVE  Active' \subseteq Active
<1>1. CASE UNCHANGED monitor
  BY <1>1 DEF Active, Having
<1>2. ASSUME NEW m \in Monitors, NEW status \in {"paused", "blocked"}, NEW reason,
             monitor' = With(m, status, reason)
      PROVE  Active' \subseteq Active
  BY <1>2 DEF With, Active, Having, TypeInv, TypeOK, Row
<1>3. ASSUME NEW m, NEW next, monitor' = [monitor EXCEPT ![m].next = next]
      PROVE  Active' \subseteq Active
  BY <1>3 DEF Active, Having, TypeInv, TypeOK, Row
<1>. QED
  BY <1>1, <1>2, <1>3, MonitorOfKey
     DEF Around, Pause, FailRun, MarkRunFailed, CompleteRun, SwitchSurface, Tick, NewPeriod,
         SwitchBilling

(* While one request is at work at a time, TrimInv survives every step.     *)
LEMMA TrimStep ==
  ASSUME TypeInv, TrimInv, Step, NEW s \in Servers, Servers = {s}
  PROVE  TrimInv'
<1>. SUFFICES /\ pc'[s] = "trim" => Cardinality(Active' \ job'[s].todo) <= MaxActive
              /\ pc'[s] = "needs" => Cardinality(Active') <= MaxActive
  BY DEF TrimInv
<1>. USE DEF Goto
<1>1. /\ pc \in [Servers -> Labels] /\ job \in [Servers -> Job] /\ job[s] \in Job
      /\ job[s].todo \in SUBSET Monitors
      /\ Active \in SUBSET Monitors /\ Active \ job[s].todo \in SUBSET Monitors
  BY JobOf, HavingAreMonitors DEF TypeInv, TypeOK, Active
<1>2. CASE pc'[s] \notin {"trim", "needs"}
  BY <1>2
<1>3. CASE Restore(s)
  <2>1. CASE job[s].todo = {}
    <3>1. pc'[s] = "trim" /\ job'[s].todo = Excess /\ UNCHANGED monitor
      BY <1>1, <1>3, <2>1 DEF Restore, Job
    <3>2. Active' = Active
      BY <3>1 DEF Active, Having
    <3>. QED
      BY <3>1, <3>2, ExcessLeavesTheCap
  <2>2. CASE job[s].todo # {}
    <3>1. pc'[s] \in {"restore", "reactivate"}
      BY <1>1, <1>3, <2>2 DEF Restore
    <3>. QED
      BY <3>1
  <2>. QED
    BY <2>1, <2>2
<1>4. CASE Trim(s) /\ job[s].todo = {}
  <2>1. pc[s] = "trim" /\ pc'[s] = "needs" /\ Active' = Active
    BY <1>1, <1>4 DEF Trim, Active, Having
  <2>2. Active \ job[s].todo = Active
    BY <1>4
  <2>. QED
    BY <2>1, <2>2 DEF TrimInv
<1>5. CASE Trim(s) /\ job[s].todo # {}
  <2>1. PICK m \in job[s].todo : m = First(job[s].todo)
    BY <1>1, <1>5, FirstIsMember
  <2>2. /\ pc[s] = "trim" /\ pc'[s] = "trim" /\ m \in Monitors
        /\ monitor' = With(m, "blocked", "plan_limit")
        /\ job' = [job EXCEPT ![s].todo = @ \ {m}]
    BY <1>1, <1>5, <2>1 DEF Trim
  <2>3. job'[s].todo = job[s].todo \ {m}
    BY <1>1, <2>2 DEF Job
  <2>4. Active' = Active \ {m}
    BY <2>2 DEF With, Active, Having, TypeInv, TypeOK, Row
  <2>5. Active' \ job'[s].todo \subseteq Active \ job[s].todo
    BY <2>3, <2>4
  <2>. QED
    BY <1>1, <2>2, <2>5, FewerAreWithinCap DEF TrimInv
<1>6. CASE Around
  <2>1. UNCHANGED <<pc, job>>
    BY <1>6 DEF Around, Pause, SwitchSurface, FailRun, CompleteRun, Tick, NewPeriod, SwitchBilling
  <2>2. Active' \subseteq Active
    BY <1>6, AroundActivatesNothing
  <2>3. /\ Active' \ job[s].todo \in SUBSET (Active \ job[s].todo)
        /\ Active' \in SUBSET Active
    BY <2>2
  <2>. QED
    BY <1>1, <2>1, <2>3, FewerAreWithinCap DEF TrimInv
<1>7. Dispatch(s) => pc'[s] \notin {"trim", "needs"}
  BY <1>1 DEF Dispatch, StartDispatch, EndDispatch, Take, CountOpenRuns, PushForward, CheckLimits,
              InsertRun, AdvanceAnyway, Advance, BlockMonitorsForUsageLimit, GiveUp, Return
<1>8. OpenPage(s) \/ Reactivate(s) \/ NeedsActivation(s) => pc'[s] \notin {"trim", "needs"}
  BY <1>1 DEF OpenPage, Reactivate, NeedsActivation, Return
<1>9. Activation(s) => pc'[s] \notin {"trim", "needs"}
  BY <1>1 DEF Activation, Activate, Consider, Block, EndActivation, QueueBaselineRun, Return
<1>10. \/ CreateMonitor(s) \/ Resume(s) \/ Crash(s)
       \/ \E m \in Monitors : StartResume(s, m)
       \/ \E k \in Keys : StopRun(s, k)
       => pc'[s] \notin {"trim", "needs"}
  BY <1>1 DEF CreateMonitor, Resume, Crash, StartResume, StopRun, Return
<1>. QED
  BY <1>2, <1>3, <1>4, <1>5, <1>6, <1>7, <1>8, <1>9, <1>10 DEF Step, Page, Around

(* As long as requests do not overlap, no more than MaxActive monitors are  *)
(* active once the monitors page has restored and trimmed, whatever users   *)
(* and failing runs do to the monitors meanwhile and however many monitors  *)
(* the activations before it have left active.                              *)
THEOREM PageLeavesTheCap ==
  ASSUME Cardinality(Servers) = 1
  PROVE  Spec => []PageEnforcesCap
<1>1. PICK s : Servers = {s}
  BY ServersAssumption, FS_Singleton
<1>2. Init => TrimInv
  BY DEF Init, TrimInv
<1>3. TypeInv /\ TrimInv /\ [Next]_vars => TrimInv'
  <2>1. UNCHANGED vars /\ TrimInv => TrimInv'
    BY DEF vars, TrimInv, Active, Having
  <2>. QED
    BY <1>1, <2>1, TrimStep DEF Next
<1>4. TrimInv => PageEnforcesCap
  BY DEF TrimInv, PageEnforcesCap, Active
<1>. QED
  BY <1>2, <1>3, <1>4, TypeInvariance, PTL DEF Spec

=============================================================================
