------------------------- MODULE ScanRunLeaseProofs -------------------------
(***************************************************************************)
(* Proofs about ScanRun when leases outlast the work done under them, that  *)
(* is, when "slow" is not among the faults: crashes and lost writes may     *)
(* happen at any step.  The refinement of RunLedger and the streak of       *)
(* failures suppose in addition that no write is lost, and the number of    *)
(* submissions that nothing goes wrong.                                     *)
(***************************************************************************)
EXTENDS ScanRunProofs, FiniteSetTheorems

(* A worker that executes a run holds the run's lease.                      *)
Held ==
  \A w \in Workers :
    pc[w] \in Executing =>
      LET old == row[job[w].run] IN
      old.lease = "live" /\ old.claimedBy = w /\ old.status = "running"

(* Two workers that hold one lease are the same.                            *)
LEMMA HeldIsSole == Held => SoleExecutor
BY DEF Held, SoleExecutor

(* The row of a run in the hands of an executing worker is written by no    *)
(* other worker, and by no claim, release or lapse.                         *)
LEMMA HeldRow ==
  ASSUME "slow" \notin Faults, Inv, Held, [Next]_vars,
         NEW v \in Workers, pc[v] \in Executing,
         row'[job[v].run].lease # "live"
           \/ row'[job[v].run].claimedBy # v
           \/ row'[job[v].run].status # "running"
  PROVE  ResumePolling(v) \/ Wait(v) \/ Complete(v) \/ MarkRunFailed(v)
<1>. DEFINE r == job[v].run
<1>1. r \in Runs
  BY JobTypes DEF Executing
<1>2. row[r].lease = "live" /\ row[r].claimedBy = v /\ row[r].status = "running"
  BY DEF Held
<1>3. row'[r] # row[r]
  BY <1>2
<1>4. ~LeaseLapses(r) /\ ~Releasable(r) /\ \A w \in Workers : ~Claim(w, r)
  BY <1>2 DEF LeaseLapses, Releasable, Claim, Due, LeaseFree
<1>5. \A w \in Workers : pc[w] \in Executing /\ job[w].run = r => w = v
  BY <1>2 DEF Held
<1>. QED
  BY <1>1, <1>2, <1>3, <1>4, <1>5, FieldStep

(* A worker that executes after a step has just claimed the run, or executed *)
(* it before from the same copy and did not hand it back.                   *)
LEMMA StillExecuting ==
  ASSUME Inv, [Next]_vars, NEW v \in Workers, pc'[v] \in Executing
  PROVE  \/ \E r \in Runs : Claim(v, r)
         \/ /\ pc[v] \in Executing
            /\ job'[v].run = job[v].run /\ job'[v].copy = job[v].copy
            /\ ~(ResumePolling(v) \/ Wait(v) \/ Complete(v) \/ MarkRunFailed(v))
            /\ \/ pc'[v] = pc[v]
               \/ /\ pc'[v] = "announce" => RecordIntent(v)
                  /\ pc'[v] = "submit" => Announce(v)
                  /\ pc'[v] = "intent" => GoOnToSubmit(v)
<1>1. ~(ResumePolling(v) \/ Wait(v) \/ Complete(v) \/ MarkRunFailed(v))
  BY DEF ResumePolling, Wait, Complete, MarkRunFailed, Return, Goto,
         Executing, Settling, Inv, TypeOK
<1>2. ASSUME NEW w \in Workers, NEW r \in Runs, Claim(w, r), w # v
      PROVE  pc'[v] = pc[v] /\ job'[v] = job[v]
  BY <1>2 DEF Claim, Goto, Inv, TypeOK
<1>3. ASSUME NEW w \in Workers, Return(w)
      PROVE  pc'[v] = pc[v] /\ job'[v] = job[v]
  BY <1>3 DEF Return, Goto, Inv, TypeOK, Executing
<1>4. ASSUME NEW w \in Workers, NEW label \in Executing \cup Settling,
             Goto(w, label), JobKept(w)
      PROVE  /\ job'[v].run = job[v].run /\ job'[v].copy = job[v].copy
             /\ IF w = v THEN pc'[v] = label ELSE pc'[v] = pc[v]
  BY <1>4, JobKeptRun DEF Goto, Inv, TypeOK
<1>. QED
  BY <1>1, <1>2, <1>3, <1>4, WorkerStep

(* Held survives every step while leases outlast the work.                  *)
LEMMA HeldStep ==
  ASSUME "slow" \notin Faults, Inv, Held, [Next]_vars
  PROVE  Held'
<1>. SUFFICES ASSUME NEW v \in Workers, pc'[v] \in Executing
              PROVE  /\ row'[job'[v].run].lease = "live"
                     /\ row'[job'[v].run].claimedBy = v
                     /\ row'[job'[v].run].status = "running"
  BY DEF Held
<1>1. ASSUME NEW r \in Runs, Claim(v, r)
      PROVE  /\ row'[job'[v].run].lease = "live"
             /\ row'[job'[v].run].claimedBy = v
             /\ row'[job'[v].run].status = "running"
  <2>1. row[r] \in Row
    BY DEF Inv, TypeOK
  <2>2. job'[v].run = r /\ row'[r] = Claimed(row[r], v)
    BY <1>1 DEF Claim, Inv, TypeOK, NoJob
  <2>. QED
    BY <2>1, <2>2, UpdatedFields
<1>2. CASE /\ pc[v] \in Executing /\ job'[v].run = job[v].run
           /\ ~(ResumePolling(v) \/ Wait(v) \/ Complete(v) \/ MarkRunFailed(v))
  BY <1>2, HeldRow
<1>. QED
  BY <1>1, <1>2, StillExecuting

(* Hence it always holds.                                                   *)
LEMMA HeldInvariance == ASSUME "slow" \notin Faults PROVE Spec => [](Inv /\ Held)
<1>1. Init => Held
  BY DEF Init, Held, Executing
<1>2. Inv /\ Held /\ [Next]_vars => Held'
  BY HeldStep
<1>. QED
  BY <1>1, <1>2, Invariance, PTL DEF Spec

(* While leases outlast the work, at most one worker executes a run.        *)
THEOREM ExecutionIsExclusive ==
  ASSUME "slow" \notin Faults
  PROVE  Spec => []SoleExecutor
BY HeldInvariance, HeldIsSole, PTL

(* A run that has ended keeps its outcome: nobody holds its lease.          *)
LEMMA EndedStep ==
  ASSUME Inv, Held, [Next]_vars, NEW r \in Runs, row[r].status \in Terminal
  PROVE  row'[r].status = row[r].status
<1>1. \A w \in Workers : ~(pc[w] \in Executing /\ job[w].run = r)
  BY DEF Held, Terminal
<1>2. ~Releasable(r) /\ \A w \in Workers : ~Claim(w, r)
  BY DEF Releasable, Claim, Due, Terminal
<1>. QED
  BY <1>1, <1>2, FieldStep

(* While leases outlast the work, completed and failed are final: nothing   *)
(* claims, releases or reschedules a run that has ended.                    *)
THEOREM EndedRunsStayEnded ==
  ASSUME "slow" \notin Faults
  PROVE  Spec => TerminalIsFinal
<1>1. Inv /\ Held /\ [Next]_vars =>
        [\A r \in Runs : row[r].status \in Terminal
                           => row'[r].status = row[r].status]_vars
  BY EndedStep
<1>. QED
  BY <1>1, HeldInvariance, PTL DEF Spec, TerminalIsFinal

(* Between the lookup and the submission, the task stays unaccepted.        *)
Unaccepted ==
  \A w \in Workers :
    pc[w] \in {"intent", "announce", "submit"} => NotAccepted(job[w].run)

(* Unaccepted survives every step of a holder and of the others.            *)
LEMMA UnacceptedStep ==
  ASSUME Inv, Held, Unaccepted, [Next]_vars
  PROVE  Unaccepted'
<1>. SUFFICES ASSUME NEW v \in Workers,
                     pc'[v] \in {"intent", "announce", "submit"}
              PROVE  task'[job'[v].run] \notin {"pending", "completed"}
  BY DEF Unaccepted, NotAccepted
<1>1. pc'[v] \in Executing /\ \A r \in Runs : ~Claim(v, r)
  BY DEF Executing, Claim, Goto, Inv, TypeOK
<1>2. job'[v].run = job[v].run /\ pc[v] \in Executing /\ job[v].run \in Runs
  BY <1>1, StillExecuting, JobTypes DEF Executing
<1>3. task[job[v].run] \notin {"pending", "completed"}
  BY <1>1, StillExecuting
  DEF Unaccepted, NotAccepted, RecordIntent, Announce, GoOnToSubmit
<1>4. CASE task'[job[v].run] = task[job[v].run]
  BY <1>2, <1>3, <1>4
<1>5. CASE task'[job[v].run] # task[job[v].run]
  <2>1. PICK w \in Workers, s \in TaskStatuses :
          /\ task' = [task EXCEPT ![job[w].run] = s]
          /\ \/ RecordIntent(w) /\ s = "submitted"
             \/ Accept(w) /\ s \in {"pending", "completed"}
    BY <1>5, TaskStep
  <2>2. pc[w] \in Executing /\ job[w].run = job[v].run
    BY <1>2, <1>5, <2>1 DEF RecordIntent, Accept, Executing, Inv, TypeOK
  <2>3. w = v
    BY <1>2, <2>2 DEF Held
  <2>4. ~Accept(w)
    BY <2>3 DEF Accept, Goto, Inv, TypeOK
  <2>. QED
    BY <1>2, <2>1, <2>3, <2>4 DEF Inv, TypeOK
<1>. QED
  BY <1>4, <1>5

(* A task that is accepted stays so, and its run is not submitted again.    *)
LEMMA AcceptedStep ==
  ASSUME Inv, Unaccepted, [Next]_vars, NEW r \in Runs,
         task[r] \in {"pending", "completed"}
  PROVE  /\ submissions'[r] = submissions[r]
         /\ task'[r] \in {"pending", "completed"}
<1>1. ASSUME NEW w \in Workers, Submit(w)
      PROVE  submissions'[r] = submissions[r]
  BY <1>1 DEF Submit, Unaccepted, NotAccepted, Inv, TypeOK
<1>2. ASSUME NEW w \in Workers, RecordIntent(w), job[w].run = r
      PROVE  FALSE
  BY <1>2 DEF RecordIntent, Unaccepted, NotAccepted
<1>3. CASE task'[r] # task[r]
  <2>1. PICK w \in Workers, s \in TaskStatuses :
          /\ task' = [task EXCEPT ![job[w].run] = s]
          /\ \/ RecordIntent(w) /\ s = "submitted"
             \/ Accept(w) /\ s \in {"pending", "completed"}
    BY <1>3, TaskStep
  <2>2. job[w].run = r
    BY <1>3, <2>1 DEF Inv, TypeOK
  <2>3. s \in {"pending", "completed"}
    BY <1>2, <2>1, <2>2
  <2>. QED
    BY <1>1, <2>1, <2>2, <2>3, SubmissionStep DEF Inv, TypeOK
<1>4. CASE task'[r] = task[r]
  BY <1>1, <1>4, SubmissionStep
<1>. QED
  BY <1>3, <1>4

(* While leases outlast the work, unaccepted requests are all that a worker *)
(* submits.                                                                 *)
LEMMA UnacceptedInvariance ==
  ASSUME "slow" \notin Faults
  PROVE  Spec => [](Inv /\ Held /\ Unaccepted)
<1>1. Init => Unaccepted
  BY DEF Init, Unaccepted
<1>2. Inv /\ Held /\ Unaccepted /\ [Next]_vars => Unaccepted'
  BY UnacceptedStep
<1>. QED
  BY <1>1, <1>2, HeldInvariance, PTL DEF Spec

(* While leases outlast the work, a request the provider has accepted is    *)
(* not submitted again, whatever crashes and whatever write is lost.        *)
THEOREM AcceptedRequestsAreNotRepeated ==
  ASSUME "slow" \notin Faults
  PROVE  Spec => AcceptedOnce
<1>1. Inv /\ Unaccepted /\ [Next]_vars =>
        [\A r \in Runs : task[r] \in {"pending", "completed"}
                           => /\ submissions'[r] = submissions[r]
                              /\ task'[r] \in {"pending", "completed"}]_vars
  BY AcceptedStep
<1>. QED
  BY <1>1, UnacceptedInvariance, PTL DEF Spec, AcceptedOnce

(* On the poll path, the row still names the task the copy names.           *)
PollPathNamesTask ==
  \A w \in Workers :
    pc[w] \in Executing /\ OnPollPath(w) => row[job[w].run].taskId

(* PollPathNamesTask, with PollNamesTask itself, survives every step.       *)
LEMMA PollNamesStep ==
  ASSUME Inv, Held, PollNamesTask, PollPathNamesTask, [Next]_vars,
         "slow" \notin Faults
  PROVE  PollNamesTask' /\ PollPathNamesTask'
<1>1. PollNamesTask'
  <2>. SUFFICES ASSUME NEW r \in Runs, row'[r].nextPoll # "none"
                PROVE  row'[r].taskId
    BY DEF PollNamesTask
  <2>1. ASSUME NEW w \in Workers, pc[w] \in Executing, job[w].run = r,
               row'[r].taskId = (row[r].taskId \/ ~OnPollPath(w))
        PROVE  row'[r].taskId
    BY <2>1 DEF PollPathNamesTask
  <2>2. CASE row'[r] = row[r]
    BY <2>2 DEF PollNamesTask
  <2>3. CASE row'[r] # row[r]
    BY <2>1, <2>3, FieldStep DEF PollNamesTask
  <2>. QED
    BY <2>2, <2>3
<1>2. PollPathNamesTask'
  <2>. SUFFICES ASSUME NEW v \in Workers, pc'[v] \in Executing,
                       job'[v].copy.nextPoll # "none", job'[v].copy.taskId
                PROVE  row'[job'[v].run].taskId
    BY DEF PollPathNamesTask, OnPollPath
  <2>1. ASSUME NEW r \in Runs, Claim(v, r)
        PROVE  row'[job'[v].run].taskId
    BY <2>1 DEF Claim, Inv, TypeOK, NoJob
  <2>2. CASE /\ pc[v] \in Executing
             /\ job'[v].run = job[v].run /\ job'[v].copy = job[v].copy
             /\ ~(ResumePolling(v) \/ Wait(v) \/ Complete(v) \/ MarkRunFailed(v))
    <3>1. row[job[v].run].taskId /\ job[v].run \in Runs
      BY <2>2, JobTypes DEF PollPathNamesTask, OnPollPath, Executing
    <3>2. \A w \in Workers : pc[w] \in Executing /\ job[w].run = job[v].run
                            => w = v
      BY <2>2 DEF Held
    <3>3. \A w \in Workers : ~Claim(w, job[v].run)
      BY <2>2 DEF Held, Claim, Due, LeaseFree
    <3>. QED
      BY <2>2, <3>1, <3>2, <3>3, FieldStep
  <2>. QED
    BY <2>1, <2>2, StillExecuting
<1>. QED
  BY <1>1, <1>2

(* While leases outlast the work, a run that waits for a poll names the     *)
(* provider task to poll: an expired lease returns it to the poll queue.    *)
THEOREM WaitingRunsNameTheirTask ==
  ASSUME "slow" \notin Faults
  PROVE  Spec => []PollNamesTask
<1>1. Init => PollNamesTask /\ PollPathNamesTask
  BY DEF Init, PollNamesTask, PollPathNamesTask, NewRow, Executing
<1>. QED
  BY <1>1, PollNamesStep, HeldInvariance, PTL DEF Spec

-----------------------------------------------------------------------------
(* No open run is stranded: what safety contributes to EveryRunEnds         *)

(* A dispatcher can take the run, its lease is in force and will lapse, or  *)
(* it waits for a time that will come.                                      *)
WithinReach(r) ==
  \/ Due(r) \/ Releasable(r)
  \/ row[r].status = "queued" /\ row[r].nextAttempt = "later"
  \/ row[r].status = "running" /\ row[r].lease = "live"
  \/ row[r].status = "running" /\ row[r].nextPoll = "later"

OpenRunsWithinReach ==
  \A r \in Runs : row[r].status \notin Terminal => WithinReach(r)

(* A row of an open run is not marked completed, is queued without a lease  *)
(* and handed back only to be queued or polled.                             *)
Open(old) ==
  /\ ~old.completedAt
  /\ old.status = "queued" => old.lease = "none"
  /\ old.status = "running" => old.lease # "none" \/ old.nextPoll # "none"

AllOpen == \A r \in Runs : row[r].status \notin Terminal => Open(row[r])

(* Each update keeps an open row open, those of a claim and of an execution *)
(* under a live lease included.                                             *)
LEMMA UpdatesKeepOpen ==
  ASSUME NEW old \in Row, old.status \notin Terminal, Open(old)
  PROVE  /\ Open([old EXCEPT !.nextAttempt = "due"])
         /\ Open([old EXCEPT !.nextPoll = "due"])
         /\ old.lease = "live" => Open([old EXCEPT !.lease = "lapsed"])
         /\ Open(Released(old))
         /\ \A w \in Workers : Open(Claimed(old, w))
         /\ \A n \in Nat : Open([old EXCEPT !.pollCount = n])
         /\ old.status = "running" => Open(Resumed(old))
         /\ Open(RetryScheduled(old))
         /\ old.lease = "live" =>
              \A to \in Phases :
                Open([old EXCEPT !.status = "running", !.phase = to])
         /\ \A w \in Workers :
              Open([Waiting(old, w) EXCEPT !.status = "running",
                                           !.phase = "provider_pending"])
<1>. USE DEF Open, Row, Terminal, Statuses
<1>1. Open(Released(old))
  BY DEF Released, Unclaimed
<1>2. \A w \in Workers : Open(Claimed(old, w))
  BY DEF Claimed
<1>3. old.status = "running" => Open(Resumed(old))
  BY DEF Resumed, Unclaimed
<1>4. Open(RetryScheduled(old))
  BY DEF RetryScheduled, Unclaimed
<1>5. \A w \in Workers :
        Open([Waiting(old, w) EXCEPT !.status = "running",
                                     !.phase = "provider_pending"])
  BY DEF Waiting, Unclaimed
<1>6. old.lease = "live" =>
        \A to \in Phases : Open([old EXCEPT !.status = "running", !.phase = to])
  OBVIOUS
<1>. QED
  BY <1>1, <1>2, <1>3, <1>4, <1>5, <1>6

(* AllOpen survives every step while leases outlast the work.               *)
LEMMA OpenStep ==
  ASSUME Inv, Held, AllOpen, [Next]_vars
  PROVE  AllOpen'
<1>. SUFFICES ASSUME NEW r \in Runs, row'[r].status \notin Terminal
              PROVE  Open(row'[r])
  BY DEF AllOpen
<1>1. row[r] \in Row /\ \A w \in Workers : job[w].copy.pollCount + 1 \in Nat
  BY LimitsAssumption DEF Inv, TypeOK, Job, Row
<1>2. row[r].status \notin Terminal /\ Open(row[r])
  BY EndedStep DEF AllOpen
<1>3. CASE row'[r] = row[r]
  BY <1>2, <1>3
<1>4. CASE row'[r] # row[r]
  <2>1. ASSUME NEW w \in Workers, pc[w] \in Executing, job[w].run = r
        PROVE  row[r].lease = "live" /\ row[r].status = "running"
    BY <2>1 DEF Held
  <2>2. \A known \in BOOLEAN : row'[r] # CompletedRow(row[r], known)
    BY <1>1, UpdatedFields DEF Terminal
  <2>3. row'[r] # FailedRow(row[r])
    BY <1>1, UpdatedFields DEF Terminal
  <2>4. ASSUME NEW w \in Workers, pc[w] \in Executing, job[w].run = r,
               \/ row'[r] = [row[r] EXCEPT !.pollCount = job[w].copy.pollCount + 1]
               \/ row'[r] = Resumed(row[r])
               \/ \E to \in Phases :
                    row'[r] = [row[r] EXCEPT !.status = "running", !.phase = to]
               \/ row'[r] = [Waiting(row[r], w) EXCEPT
                              !.status = "running", !.phase = "provider_pending"]
               \/ row'[r] = RetryScheduled(row[r])
        PROVE  Open(row'[r])
    <3>1. CASE row'[r] = [row[r] EXCEPT !.pollCount = job[w].copy.pollCount + 1]
      BY <1>1, <1>2, <3>1, UpdatesKeepOpen
    <3>2. CASE row'[r] = Resumed(row[r])
      BY <1>1, <1>2, <2>1, <2>4, <3>2, UpdatesKeepOpen
    <3>3. CASE \E to \in Phases :
                 row'[r] = [row[r] EXCEPT !.status = "running", !.phase = to]
      <4>1. PICK to \in Phases :
              row'[r] = [row[r] EXCEPT !.status = "running", !.phase = to]
        BY <3>3
      <4>. QED
        BY <1>1, <1>2, <2>1, <2>4, <4>1 DEF Open, Row
    <3>4. CASE row'[r] = [Waiting(row[r], w) EXCEPT
                           !.status = "running", !.phase = "provider_pending"]
      BY <1>1, <1>2, <3>4, UpdatesKeepOpen
    <3>5. CASE row'[r] = RetryScheduled(row[r])
      BY <1>1, <1>2, <3>5, UpdatesKeepOpen
    <3>. QED
      BY <2>4, <3>1, <3>2, <3>3, <3>4, <3>5
  <2>5. ASSUME NEW w \in Workers, row'[r] = Claimed(row[r], w)
        PROVE  Open(row'[r])
    BY <1>1, <1>2, <2>5, UpdatesKeepOpen
  <2>6. ASSUME \/ row'[r] = Released(row[r])
               \/ LeaseLapses(r) /\ row'[r] = [row[r] EXCEPT !.lease = "lapsed"]
               \/ row'[r] = [row[r] EXCEPT !.nextAttempt = "due"]
               \/ row'[r] = [row[r] EXCEPT !.nextPoll = "due"]
        PROVE  Open(row'[r])
    BY <1>1, <1>2, <2>6, UpdatesKeepOpen DEF LeaseLapses
  <2>. QED
    BY <1>4, <2>2, <2>3, <2>4, <2>5, <2>6, RowStep
<1>. QED
  BY <1>3, <1>4

(* While leases outlast the work, an open run is never stranded, whatever   *)
(* crashes and whatever write is lost: a dispatcher can claim or release    *)
(* it, now or when a lease, a retry delay or a poll interval is over.       *)
THEOREM OpenRunsAreNotStranded ==
  ASSUME "slow" \notin Faults
  PROVE  Spec => []OpenRunsWithinReach
<1>1. Init => AllOpen
  BY DEF Init, AllOpen, Open, NewRow
<1>2. Inv /\ AllOpen => OpenRunsWithinReach
  BY DEF Inv, TypeOK, Row, AllOpen, Open, OpenRunsWithinReach, WithinReach,
         Due, Releasable, LeaseFree, Statuses, Terminal
<1>. QED
  BY <1>1, <1>2, OpenStep, HeldInvariance, PTL DEF Spec

-----------------------------------------------------------------------------
(* The engine implements RunLedger when no write is lost either             *)

(* The state of RunLedger that a state of the engine stands for.            *)
Outcome == [r \in Runs |-> IF row[r].status \in Terminal
                           THEN row[r].status ELSE "open"]
Billed == [r \in Runs |-> metered[r]["monitor_check_completed"] > 0]

(* A worker that charges a check works on a completed run: without it, a    *)
(* lost completion would be billed all the same.                            *)
Charged ==
  \A w \in Workers : pc[w] = "charge" => row[job[w].run].status = "completed"

(* A worker that is past the outcome of its run wrote that outcome itself,  *)
(* in this step, or was there before with the same job.                     *)
LEMMA StillSettling ==
  ASSUME Inv, [Next]_vars, NEW v \in Workers,
         pc'[v] \in {"charge", "tally", "block"}
  PROVE  \/ /\ job'[v].run = job[v].run
            /\ pc'[v] = "charge" => Complete(v)
            /\ pc'[v] = "tally" => MarkRunFailed(v)
            /\ pc'[v] = "block" => ReadStreak(v)
         \/ pc'[v] = pc[v] /\ job'[v] = job[v]
<1>1. ASSUME NEW w \in Workers, NEW r \in Runs, Claim(w, r)
      PROVE  pc'[v] = pc[v] /\ job'[v] = job[v]
  BY <1>1 DEF Claim, Goto, Inv, TypeOK
<1>2. ASSUME NEW w \in Workers, Return(w)
      PROVE  pc'[v] = pc[v] /\ job'[v] = job[v]
  BY <1>2 DEF Return, Goto, Inv, TypeOK
<1>3. ASSUME NEW w \in Workers, NEW label \in Executing \cup Settling,
             Goto(w, label), JobKept(w), w = v,
             label = "charge" => Complete(w),
             label = "tally" => MarkRunFailed(w),
             label = "block" => ReadStreak(w)
      PROVE  /\ job'[v].run = job[v].run
             /\ pc'[v] = "charge" => Complete(v)
             /\ pc'[v] = "tally" => MarkRunFailed(v)
             /\ pc'[v] = "block" => ReadStreak(v)
  <2>1. pc'[v] = label
    BY <1>3 DEF Goto, Inv, TypeOK
  <2>. QED
    BY <1>3, <2>1, JobKeptRun
<1>4. ASSUME NEW w \in Workers, NEW label \in Executing \cup Settling,
             Goto(w, label), JobKept(w), w # v
      PROVE  pc'[v] = pc[v] /\ job'[v] = job[v]
  BY <1>4 DEF Goto, JobKept, Inv, TypeOK
<1>. QED
  BY <1>1, <1>2, <1>3, <1>4, WorkerStep

(* What a worker writes when it completes a run and no write is lost.       *)
LEMMA Completes ==
  ASSUME "store" \notin Faults, Inv, NEW w \in Workers, Complete(w)
  PROVE  /\ \E known \in BOOLEAN :
              row' = [row EXCEPT ![job[w].run] =
                                   CompletedRow(row[job[w].run], known)]
         /\ row'[job[w].run].status = "completed"
<1>1. job[w].run \in Runs /\ row[job[w].run] \in Row
  BY JobTypes DEF Complete
<1>2. PICK known \in BOOLEAN :
        row' = [row EXCEPT ![job[w].run] =
                             CompletedRow(row[job[w].run], known)]
  BY DEF Complete, WriteRow, MayFault
<1>3. row'[job[w].run] = CompletedRow(row[job[w].run], known)
  BY <1>1, <1>2 DEF Inv, TypeOK
<1>4. row'[job[w].run].status = "completed"
  BY <1>1, <1>3, UpdatedFields
<1>. QED
  BY <1>2, <1>4

(* Charged survives every step.                                             *)
LEMMA ChargedStep ==
  ASSUME "store" \notin Faults, Inv, Held, Charged, [Next]_vars
  PROVE  Charged'
<1>. SUFFICES ASSUME NEW v \in Workers, pc'[v] = "charge"
              PROVE  row'[job'[v].run].status = "completed"
  BY DEF Charged
<1>1. CASE Complete(v) /\ job'[v].run = job[v].run
  BY <1>1, Completes
<1>2. CASE pc'[v] = pc[v] /\ job'[v] = job[v]
  <2>1. job[v].run \in Runs /\ row[job[v].run].status = "completed"
    BY <1>2, JobTypes DEF Charged
  <2>. QED
    BY <1>2, <2>1, EndedStep DEF Terminal
<1>. QED
  BY <1>1, <1>2, StillSettling

(* Only StoreEvidence adds evidence.                                        *)
LEMMA EvidenceStep ==
  ASSUME [Next]_vars
  PROVE  UNCHANGED evidence \/ \E w \in Workers : StoreEvidence(w)
BY DEF Next, vars, Start, Execute, Claim, Release, LeaseLapses, BackoffEnds,
    PollFallsDue, SkipFinished, Abandon, Reject, Begin, Poll, ResumePolling,
    SkipAccepted, GoOnToSubmit, RecordIntent, Announce, Submit,
    MeterSubmission, Accept, Wait, Process, Complete, ChargeCheck,
    AdvanceSchedule, MarkRunFailed, ReadStreak, WriteStreak, ResumeMonitor,
    Crash

(* Only a submission or a completed check is counted as usage.              *)
LEMMA UsageStep ==
  ASSUME [Next]_vars
  PROVE  \/ UNCHANGED metered
         \/ \E w \in Workers : MeterSubmission(w) \/ ChargeCheck(w)
BY DEF Next, vars, Start, Execute, Claim, Release, LeaseLapses, BackoffEnds,
    PollFallsDue, SkipFinished, Abandon, Reject, Begin, Poll, ResumePolling,
    SkipAccepted, GoOnToSubmit, RecordIntent, Announce, Submit, Accept, Wait,
    Process, StoreEvidence, Complete, AdvanceSchedule, MarkRunFailed,
    ReadStreak, WriteStreak, ResumeMonitor, Crash

(* The steps of RunLedger, one by one.                                      *)
LEMMA LedgerSteps ==
  \A r \in Runs :
    /\ Ledger!Keep(r) => Ledger!Next
    /\ Ledger!Bill(r) => Ledger!Next
    /\ \A v \in {"completed", "failed"} : Ledger!Settle(r, v) => Ledger!Next
BY DEF Ledger!Next

(* Storing evidence keeps the answer of an open run, or finds it kept.      *)
LEMMA StoreRefines ==
  ASSUME Inv, Held, NEW w \in Workers, StoreEvidence(w)
  PROVE  [Ledger!Next]_(Ledger!ledgerVars)
<1>. DEFINE r == job[w].run
<1>1. r \in Runs /\ row[r].status = "running"
  BY JobTypes DEF StoreEvidence, Held, Executing
<1>2. Outcome' = Outcome /\ Billed' = Billed
  BY DEF StoreEvidence, Outcome, Billed
<1>3. CASE evidence' = evidence
  BY <1>2, <1>3 DEF Ledger!ledgerVars, Outcome, Billed
<1>4. CASE evidence' # evidence
  <2>1. evidence' = [evidence EXCEPT ![r] = TRUE]
    BY <1>4 DEF StoreEvidence
  <2>2. ~evidence[r]
    BY <1>1, <1>4, <2>1 DEF Inv, TypeOK
  <2>3. Outcome[r] = "open"
    BY <1>1 DEF Outcome, Terminal
  <2>4. Ledger!Keep(r)
    BY <1>2, <2>1, <2>2, <2>3 DEF Ledger!Keep, Outcome, Billed
  <2>. QED
    BY <1>1, <2>4, LedgerSteps
<1>. QED
  BY <1>3, <1>4

(* Charging a check bills a completed run, or finds it billed.              *)
LEMMA ChargeRefines ==
  ASSUME Inv, Charged, NEW w \in Workers, ChargeCheck(w)
  PROVE  [Ledger!Next]_(Ledger!ledgerVars)
<1>1. PICK r \in Runs : r = job[w].run /\ row[r].status = "completed"
  BY JobTypes DEF ChargeCheck, Charged
<1>2. Outcome' = Outcome /\ evidence' = evidence
  BY DEF ChargeCheck, Outcome
<1>3. metered' = [metered EXCEPT ![r]["monitor_check_completed"] =
                                   IF @ = 0 THEN 1 ELSE @]
  BY <1>1 DEF ChargeCheck, RecordUsage
<1>4. metered \in [Runs -> [Metrics -> Nat]]
  BY DEF Inv, TypeOK
<1>5. Billed' = [Billed EXCEPT ![r] = TRUE]
  <2>1. \A s \in Runs : s # r => metered'[s] = metered[s]
    BY <1>1, <1>3, <1>4
  <2>2. metered'[r]["monitor_check_completed"] > 0
    BY <1>1, <1>3, <1>4 DEF Metrics
  <2>. QED
    BY <1>1, <2>1, <2>2 DEF Billed
<1>6. CASE Billed[r]
  <2>1. Billed' = Billed
    BY <1>5, <1>6 DEF Billed
  <2>. QED
    BY <1>2, <2>1 DEF Ledger!ledgerVars, Outcome, Billed
<1>7. CASE ~Billed[r]
  <2>1. Outcome[r] = "completed"
    BY <1>1 DEF Outcome, Terminal
  <2>2. Ledger!Bill(r)
    BY <1>2, <1>5, <1>7, <2>1 DEF Ledger!Bill, Outcome, Billed
  <2>. QED
    BY <2>2, LedgerSteps
<1>. QED
  BY <1>6, <1>7

(* A run that comes to its outcome is settled by the worker that holds it.  *)
LEMMA OutcomeRefines ==
  ASSUME Inv, Held, [Next]_vars, Outcome' # Outcome
  PROVE  Ledger!Next
<1>1. PICK r \in Runs : Outcome'[r] # Outcome[r]
  BY DEF Outcome
<1>2. row'[r] # row[r] /\ row[r].status \notin Terminal
      /\ row'[r].status \in Terminal /\ row'[r].status # row[r].status
  BY <1>1, EndedStep DEF Outcome
<1>3. PICK w \in Workers :
        /\ pc[w] \in Executing /\ job[w].run = r
        /\ \/ Complete(w) /\ row'[r].status = "completed"
           \/ MarkRunFailed(w) /\ row'[r].status \in {"queued", "failed"}
  BY <1>2, FieldStep DEF Terminal
<1>4. \A s \in Runs : s # r => row'[s] = row[s]
  BY <1>3 DEF Complete, MarkRunFailed, WriteRow, Inv, TypeOK
<1>5. row'[r].status \in {"completed", "failed"}
  BY <1>2 DEF Terminal
<1>6. Outcome' = [Outcome EXCEPT ![r] = row'[r].status]
  BY <1>2, <1>4 DEF Outcome
<1>7. evidence' = evidence /\ Billed' = Billed
  BY <1>3 DEF Complete, MarkRunFailed, Billed
<1>8. Outcome[r] = "open"
  BY <1>2 DEF Outcome
<1>9. row'[r].status = "completed" => evidence[r]
  BY <1>3 DEF Complete, Inv, WorkerContext
<1>10. PICK v \in {"completed", "failed"} : v = row'[r].status
  BY <1>5
<1>11. Ledger!Settle(r, v)
  BY <1>6, <1>7, <1>8, <1>9, <1>10 DEF Ledger!Settle, Outcome, Billed
<1>. QED
  BY <1>11, LedgerSteps

(* Every step of the engine is a step of RunLedger or leaves it as it is.   *)
LEMMA StepRefines ==
  Inv /\ Held /\ Charged /\ [Next]_vars => [Ledger!Next]_(Ledger!ledgerVars)
<1>. SUFFICES ASSUME Inv, Held, Charged, [Next]_vars
              PROVE  [Ledger!Next]_(Ledger!ledgerVars)
  OBVIOUS
<1>1. CASE Outcome' # Outcome
  BY <1>1, OutcomeRefines
<1>2. CASE \E w \in Workers : StoreEvidence(w) \/ ChargeCheck(w)
  BY <1>2, StoreRefines, ChargeRefines
<1>3. CASE /\ Outcome' = Outcome /\ evidence' = evidence
           /\ \/ UNCHANGED metered
              \/ \E w \in Workers : MeterSubmission(w)
  <2>1. \A r \in Runs : metered'[r]["monitor_check_completed"] =
                            metered[r]["monitor_check_completed"]
    <3>1. ASSUME NEW w \in Workers, MeterSubmission(w), NEW r \in Runs
          PROVE  metered'[r]["monitor_check_completed"] =
                 metered[r]["monitor_check_completed"]
      BY <3>1 DEF MeterSubmission, RecordUsage, SubmissionMetric, Metrics,
                  Inv, TypeOK
    <3>. QED
      BY <1>3, <3>1
  <2>2. Billed' = Billed
    BY <2>1 DEF Billed
  <2>. QED
    BY <1>3, <2>2 DEF Ledger!ledgerVars, Outcome, Billed
<1>. QED
  BY <1>1, <1>2, <1>3, EvidenceStep, UsageStep

(* As long as leases outlast the work and no write is lost, the engine with *)
(* its claims, leases, polls, retries and crashes implements RunLedger: a   *)
(* run is settled once and for good, completed only on a kept answer, and   *)
(* billed once and only when completed.                                     *)
THEOREM EngineImplementsLedger ==
  ASSUME "slow" \notin Faults, "store" \notin Faults
  PROVE  Spec => ImplementsRunLedger
<1>1. Init => Ledger!Init
  <2>. SUFFICES ASSUME Init PROVE Ledger!Init
    OBVIOUS
  <2>1. \A r \in Runs : row[r].status \notin Terminal
    BY NewRowIsRow DEF Init, NewRow, Terminal
  <2>2. metered = [r \in Runs |-> [m \in Metrics |-> 0]]
    BY DEF Init
  <2>3. \A r \in Runs : (metered[r]["monitor_check_completed"] > 0) = FALSE
    BY <2>2 DEF Metrics
  <2>4. [r \in Runs |-> metered[r]["monitor_check_completed"] > 0] =
        [r \in Runs |-> FALSE]
    BY <2>3
  <2>5. [r \in Runs |-> IF row[r].status \in Terminal
                        THEN row[r].status ELSE "open"] =
        [r \in Runs |-> "open"]
    BY <2>1
  <2>. QED
    BY <2>4, <2>5 DEF Init, Ledger!Init
<1>2. Init => Charged
  BY DEF Init, Charged
<1>3. Inv /\ Held /\ Charged /\ [Next]_vars => Charged'
  BY ChargedStep
<1>. QED
  BY <1>1, <1>2, <1>3, StepRefines, HeldInvariance, PTL
  DEF Spec, ImplementsRunLedger, Ledger!Spec

-----------------------------------------------------------------------------
(* A monitor is blocked for failures that did happen                        *)

Failed == {r \in Runs : row[r].status = "failed"}

(* The failed runs whose worker has not counted them yet, and the others.   *)
Uncounted ==
  {r \in Runs : \E w \in Workers : pc[w] = "tally" /\ job[w].run = r}
Counted == Failed \ Uncounted

(* Each failed run is counted by at most one worker, so the streak, and any *)
(* streak a worker has read and counted up, is covered by as many runs.     *)
Tallied ==
  /\ IsFiniteSet(Failed)
  /\ \A w \in Workers : pc[w] = "tally" => job[w].run \in Failed
  /\ \A v, w \in Workers :
       pc[v] = "tally" /\ pc[w] = "tally" /\ job[v].run = job[w].run => v = w
  /\ monitor.streak <= Cardinality(Counted)
  /\ \A w \in Workers : pc[w] = "block" => job[w].streak <= Cardinality(Counted)

(* What a worker writes when it fails a run and no write is lost.           *)
LEMMA Fails ==
  ASSUME "store" \notin Faults, Inv, NEW w \in Workers, MarkRunFailed(w),
         pc'[w] = "tally"
  PROVE  row'[job[w].run].status = "failed"
<1>1. job[w].run \in Runs /\ row[job[w].run] \in Row
  BY JobTypes DEF MarkRunFailed
<1>2. ~Return(w)
  BY DEF Return, Goto, Inv, TypeOK
<1>3. row' = [row EXCEPT ![job[w].run] = FailedRow(row[job[w].run])]
  BY <1>2 DEF MarkRunFailed, WriteRow, MayFault
<1>4. row'[job[w].run] = FailedRow(row[job[w].run])
  BY <1>1, <1>3 DEF Inv, TypeOK
<1>. QED
  BY <1>1, <1>4, UpdatedFields

(* A step fails at most one run, and no failed run recovers.                *)
LEMMA FailedStep ==
  ASSUME Inv, Held, [Next]_vars
  PROVE  Failed' = Failed \/ \E r \in Runs : Failed' = Failed \cup {r}
<1>1. Failed \subseteq Failed'
  BY EndedStep DEF Failed, Terminal
<1>2. ASSUME NEW r \in Runs, r \in Failed', r \notin Failed
      PROVE  Failed' = Failed \cup {r}
  <2>1. row'[r] # row[r] /\ row'[r].status = "failed"
    BY <1>2 DEF Failed
  <2>2. row[r].status \notin Terminal
    BY <1>2, <2>1, EndedStep DEF Failed, Terminal
  <2>3. PICK w \in Workers : MarkRunFailed(w) /\ job[w].run = r
    BY <2>1, <2>2, FieldStep DEF Terminal, Claim, Releasable
  <2>4. \A s \in Runs : s # r => row'[s] = row[s]
    BY <2>3 DEF MarkRunFailed, WriteRow, Inv, TypeOK
  <2>. QED
    BY <1>1, <1>2, <2>4 DEF Failed
<1>3. Failed' \subseteq Runs
  BY DEF Failed
<1>. QED
  BY <1>1, <1>2, <1>3

(* What has been counted stays counted: no worker counts a failed run that  *)
(* another has failed.                                                      *)
LEMMA CountedGrows ==
  ASSUME Inv, Held, [Next]_vars
  PROVE  Counted \subseteq Counted'
<1>. SUFFICES ASSUME NEW r \in Counted
              PROVE  r \in Failed' /\ r \notin Uncounted'
  BY DEF Counted
<1>1. r \in Runs /\ row[r].status = "failed" /\ r \notin Uncounted
  BY DEF Counted, Failed
<1>2. r \in Failed'
  BY <1>1, EndedStep DEF Failed, Terminal
<1>3. ASSUME NEW v \in Workers, pc'[v] = "tally", job'[v].run = r
      PROVE  FALSE
  <2>1. CASE MarkRunFailed(v) /\ job'[v].run = job[v].run
    BY <1>1, <1>3, <2>1 DEF MarkRunFailed, Held, Executing
  <2>2. CASE pc'[v] = pc[v] /\ job'[v] = job[v]
    BY <1>1, <1>3, <2>2 DEF Uncounted
  <2>. QED
    BY <1>3, <2>1, <2>2, StillSettling
<1>. QED
  BY <1>2, <1>3 DEF Uncounted

(* A worker that reads the streak counts its run, and it alone does.        *)
LEMMA ReadCounts ==
  ASSUME Inv, Held, Tallied, [Next]_vars, NEW w \in Workers, ReadStreak(w)
  PROVE  job[w].run \in Counted' /\ job[w].run \notin Counted
<1>1. /\ pc[w] = "tally" /\ pc'[w] = "block"
      /\ job[w].run \in Runs /\ row[job[w].run].status = "failed"
  BY DEF ReadStreak, Goto, Inv, TypeOK, Tallied, Failed
<1>2. job[w].run \in Failed'
  BY <1>1, EndedStep DEF Failed, Terminal
<1>3. ASSUME NEW v \in Workers, pc'[v] = "tally", job'[v].run = job[w].run
      PROVE  FALSE
  <2>1. CASE MarkRunFailed(v) /\ job'[v].run = job[v].run
    BY <1>1, <1>3, <2>1 DEF MarkRunFailed, Held, Executing
  <2>2. CASE pc'[v] = pc[v] /\ job'[v] = job[v]
    BY <1>1, <1>3, <2>2 DEF Tallied
  <2>. QED
    BY <1>3, <2>1, <2>2, StillSettling
<1>. QED
  BY <1>1, <1>2, <1>3 DEF Counted, Uncounted

(* What a step makes of the monitor.                                        *)
LEMMA MonitorStep ==
  ASSUME Inv, [Next]_vars
  PROVE  \/ /\ monitor'.streak \in {monitor.streak, 0}
            /\ \/ monitor'.pauseReason = monitor.pauseReason
               \/ monitor'.pauseReason # "repeated_failures"
         \/ \E w \in Workers : WriteStreak(w)
<1>1. CASE UNCHANGED monitor
  BY <1>1
<1>2. ASSUME NEW w \in Workers, Reject(w) \/ AdvanceSchedule(w)
      PROVE  /\ monitor'.streak \in {monitor.streak, 0}
             /\ \/ monitor'.pauseReason = monitor.pauseReason
                \/ monitor'.pauseReason # "repeated_failures"
  BY <1>2 DEF Reject, AdvanceSchedule, Inv, TypeOK
<1>3. CASE ResumeMonitor
  BY <1>3 DEF ResumeMonitor
<1>. QED
  BY <1>1, <1>2, <1>3
  DEF Next, vars, Start, Execute, Claim, Release, LeaseLapses, BackoffEnds,
      PollFallsDue, SkipFinished, Abandon, Begin, Poll, ResumePolling,
      SkipAccepted, GoOnToSubmit, RecordIntent, Announce, Submit,
      MeterSubmission, Accept, Wait, Process, StoreEvidence, Complete,
      ChargeCheck, MarkRunFailed, ReadStreak, Crash

(* Tallied and BlockJustified survive every step.                           *)
LEMMA TalliedStep ==
  ASSUME "store" \notin Faults, Inv, Held, Tallied, BlockJustified, [Next]_vars
  PROVE  Tallied' /\ BlockJustified'
<1>. DEFINE before == Cardinality(Counted)
            after == Cardinality(Counted')
<1>1. IsFiniteSet(Failed) /\ IsFiniteSet(Failed')
  BY FailedStep, FS_AddElement DEF Tallied
<1>2. /\ IsFiniteSet(Counted) /\ IsFiniteSet(Counted')
      /\ before \in Nat /\ after \in Nat /\ before <= after
      /\ before <= Cardinality(Failed)
      /\ Cardinality(Failed) \in Nat /\ Cardinality(Failed') \in Nat
      /\ Cardinality(Failed) <= Cardinality(Failed')
  <2>1. /\ Counted \subseteq Failed /\ Counted' \subseteq Failed'
        /\ Counted \subseteq Counted' /\ Failed \subseteq Failed'
    BY CountedGrows, FailedStep DEF Counted
  <2>2. IsFiniteSet(Counted) /\ IsFiniteSet(Counted')
    BY <1>1, <2>1, FS_Subset
  <2>. QED
    BY <1>1, <2>1, <2>2, FS_Subset, FS_CardinalityType
<1>3. ASSUME NEW w \in Workers, ReadStreak(w)
      PROVE  before + 1 <= after
  <2>1. Counted \cup {job[w].run} \subseteq Counted'
    BY <1>3, CountedGrows, ReadCounts
  <2>2. Cardinality(Counted \cup {job[w].run}) = before + 1
    BY <1>2, <1>3, ReadCounts, FS_AddElement
  <2>. QED
    BY <1>2, <2>1, <2>2, FS_Subset
<1>4. /\ monitor.streak \in 0 .. BlockThreshold /\ monitor.streak <= before
      /\ \A w \in Workers : /\ job[w].streak \in 0 .. BlockThreshold
                            /\ pc[w] = "block" => job[w].streak <= before
  BY DEF Inv, TypeOK, Job, Tallied
<1>. HIDE DEF before, after
<1>5. ASSUME NEW v \in Workers, pc'[v] = "tally"
      PROVE  job'[v].run \in Failed'
  <2>1. CASE MarkRunFailed(v) /\ job'[v].run = job[v].run
    <3>1. job[v].run \in Runs
      BY <2>1, JobTypes DEF MarkRunFailed
    <3>. QED
      BY <1>5, <2>1, <3>1, Fails DEF Failed
  <2>2. CASE pc'[v] = pc[v] /\ job'[v] = job[v]
    BY <1>5, <2>2, FailedStep DEF Tallied
  <2>. QED
    BY <1>5, <2>1, <2>2, StillSettling
<1>6. ASSUME NEW v \in Workers, NEW w \in Workers,
             pc'[v] = "tally", pc'[w] = "tally", job'[v].run = job'[w].run
      PROVE  v = w
  <2>1. \A u \in Workers : MarkRunFailed(u) =>
          /\ row[job[u].run].status = "running" /\ job[u].run \in Runs
          /\ \A t \in Workers :
               MarkRunFailed(t) /\ job[t].run = job[u].run => t = u
    BY JobTypes DEF MarkRunFailed, Held, Executing
  <2>2. \A u \in Workers :
          pc'[u] = "tally" =>
            \/ MarkRunFailed(u) /\ job'[u].run = job[u].run
            \/ pc[u] = "tally" /\ job'[u].run = job[u].run
                 /\ row[job[u].run].status = "failed"
    BY StillSettling DEF Tallied, Failed
  <2>. QED
    BY <1>6, <2>1, <2>2 DEF Tallied
<1>7. monitor'.streak <= after
  <2>1. CASE monitor'.streak \in {monitor.streak, 0}
    BY <1>2, <1>4, <2>1
  <2>2. ASSUME NEW w \in Workers, WriteStreak(w)
        PROVE  monitor'.streak <= after
    BY <1>2, <1>4, <2>2 DEF WriteStreak
  <2>. QED
    BY <2>1, <2>2, MonitorStep
<1>8. ASSUME NEW v \in Workers, pc'[v] = "block"
      PROVE  job'[v].streak <= after
  <2>1. CASE ReadStreak(v)
    <3>1. job'[v].streak = SaturatingAdd(monitor.streak, BlockThreshold)
      BY <2>1 DEF ReadStreak, Inv, TypeOK, Job
    <3>2. SaturatingAdd(monitor.streak, BlockThreshold) <= monitor.streak + 1
      BY <1>4, LimitsAssumption DEF SaturatingAdd
    <3>3. SaturatingAdd(monitor.streak, BlockThreshold) \in Nat
      BY <1>4, LimitsAssumption DEF SaturatingAdd
    <3>. QED
      BY <1>2, <1>3, <1>4, <2>1, <3>1, <3>2, <3>3
  <2>2. CASE pc'[v] = pc[v] /\ job'[v] = job[v]
    BY <1>2, <1>4, <1>8, <2>2
  <2>. QED
    BY <1>8, <2>1, <2>2, StillSettling
<1>9. BlockJustified'
  <2>. SUFFICES ASSUME monitor'.pauseReason = "repeated_failures"
                PROVE  Cardinality(Failed') >= BlockThreshold
    BY DEF BlockJustified, Failed
  <2>1. CASE monitor'.pauseReason = monitor.pauseReason
    BY <1>2, <2>1, LimitsAssumption DEF BlockJustified, Failed
  <2>2. ASSUME NEW w \in Workers, WriteStreak(w),
               monitor'.pauseReason # monitor.pauseReason
        PROVE  Cardinality(Failed') >= BlockThreshold
    <3>1. job[w].streak >= BlockThreshold /\ pc[w] = "block"
      BY <2>2 DEF WriteStreak, ShouldBlock
    <3>. QED
      BY <1>2, <1>4, <3>1, LimitsAssumption
  <2>. QED
    BY <2>1, <2>2, MonitorStep
<1>. QED
  BY <1>1, <1>5, <1>6, <1>7, <1>8, <1>9 DEF Tallied, after

(* While leases outlast the work and no write is lost, a monitor is blocked *)
(* for repeated failures only when that many of its runs have failed: no    *)
(* failure is counted twice, although several workers read and write the    *)
(* streak at once and may crash in between.                                 *)
THEOREM BlocksAreJustified ==
  ASSUME "slow" \notin Faults, "store" \notin Faults
  PROVE  Spec => []BlockJustified
<1>1. Init => Tallied /\ BlockJustified
  <2>. SUFFICES ASSUME Init PROVE Tallied /\ BlockJustified
    OBVIOUS
  <2>1. Failed = {} /\ Counted = {}
    BY NewRowIsRow DEF Init, NewRow, Failed, Counted
  <2>2. Cardinality(Counted) = 0 /\ IsFiniteSet(Failed)
    BY <2>1, FS_EmptySet
  <2>. QED
    BY <2>1, <2>2 DEF Init, Tallied, BlockJustified
<1>2. Inv /\ Held /\ Tallied /\ BlockJustified /\ [Next]_vars
        => Tallied' /\ BlockJustified'
  BY TalliedStep
<1>. QED
  BY <1>1, <1>2, HeldInvariance, PTL DEF Spec

-----------------------------------------------------------------------------
(* Without faults, attempts bound the submissions                           *)

(* The labels at which the submission made under the claim is not settled.  *)
Late == {"submitted", "accept", "fail"}

(* The labels that only a worker whose request was accepted reaches.        *)
Answered == {"poll", "wait", "process", "store", "complete"}

(* While a worker executes a run nobody counts an attempt of it.            *)
Copied ==
  \A w \in Workers :
    pc[w] \in Executing => row[job[w].run].attemptCount = job[w].copy.attemptCount

(* Only an accepted request is polled or answered.                          *)
Polled ==
  /\ \A r \in Runs : row[r].nextPoll # "none" => ~NotAccepted(r)
  /\ \A w \in Workers :
       pc[w] \in Executing /\ (OnPollPath(w) \/ pc[w] \in Answered)
         => ~NotAccepted(job[w].run)

(* An open run without an accepted request has room for a submission, and a *)
(* claimed one has not used the attempt it was claimed for.                 *)
RoomFor(r) ==
  /\ submissions[r] < MaxAttempts
  /\ submissions[r] <= row[r].attemptCount
  /\ row[r].status = "running" => submissions[r] < row[r].attemptCount
Pending(r) ==
  /\ row[r].status \notin Terminal
  /\ NotAccepted(r)
  /\ \A w \in Workers : pc[w] \in Late => job[w].run # r
Room == \A r \in Runs : Pending(r) => RoomFor(r)

(* A worker that may yet put its run back in the queue has submitted it at  *)
(* most once per attempt counted.                                           *)
Within ==
  \A w \in Workers :
    pc[w] \in Late /\ NotAccepted(job[w].run) /\ job[w].reply # "fatal"
      => submissions[job[w].run] <= job[w].copy.attemptCount

Budget == Copied /\ Polled /\ Room /\ Within /\ SubmissionsWithinAttempts

(* A worker is where it was, with the job it had, unless the step is its own. *)
LEMMA OwnStep ==
  ASSUME Inv, [Next]_vars, NEW v \in Workers
  PROVE  \/ pc'[v] = pc[v] /\ job'[v] = job[v]
         \/ \E r \in Runs : Claim(v, r)
         \/ Start(v) \/ Abandon(v) \/ Execute(v) \/ Crash(v)
<1>. DEFINE Same == pc'[v] = pc[v] /\ job'[v] = job[v]
<1>1. ASSUME NEW w \in Workers, NEW r \in Runs, Claim(w, r), w # v
      PROVE  Same
  BY <1>1 DEF Claim, Goto, Inv, TypeOK
<1>2. ASSUME NEW w \in Workers, Start(w) \/ Abandon(w) \/ Crash(w), w # v
      PROVE  Same
  BY <1>2 DEF Start, Abandon, Crash, SkipFinished, Reject, Begin, Return, Goto,
              Inv, TypeOK
<1>3. ASSUME NEW w \in Workers,
             Poll(w) \/ ResumePolling(w) \/ SkipAccepted(w) \/ GoOnToSubmit(w)
               \/ RecordIntent(w) \/ Announce(w) \/ Submit(w)
               \/ MeterSubmission(w) \/ Accept(w) \/ Wait(w),
             w # v
      PROVE  Same
  BY <1>3 DEF Poll, ResumePolling, SkipAccepted, GoOnToSubmit, RecordIntent,
              Announce, Submit, MeterSubmission, Accept, Wait, Return, Goto,
              Inv, TypeOK
<1>4. ASSUME NEW w \in Workers,
             Process(w) \/ StoreEvidence(w) \/ Complete(w) \/ ChargeCheck(w)
               \/ AdvanceSchedule(w) \/ MarkRunFailed(w) \/ ReadStreak(w)
               \/ WriteStreak(w),
             w # v
      PROVE  Same
  BY <1>4 DEF Process, StoreEvidence, StoreFailed, Complete, ChargeCheck,
              AdvanceSchedule, MarkRunFailed, ReadStreak, WriteStreak, Return,
              Goto, Inv, TypeOK
<1>5. ASSUME NEW w \in Workers, Execute(w), w # v
      PROVE  Same
  BY <1>3, <1>4, <1>5 DEF Execute
<1>6. UNCHANGED vars \/ Release \/ ResumeMonitor
        \/ (\E r \in Runs : LeaseLapses(r) \/ BackoffEnds(r) \/ PollFallsDue(r))
      => Same
  BY DEF vars, Release, ResumeMonitor, LeaseLapses, BackoffEnds, PollFallsDue
<1>. QED
  BY <1>1, <1>2, <1>5, <1>6 DEF Next

(* What a step makes of the attempts of a run, and how it comes to be       *)
(* running or to wait for a poll.                                           *)
LEMMA AttemptStep ==
  ASSUME Inv, [Next]_vars, NEW r \in Runs
  PROVE  /\ row'[r].nextPoll # "none" =>
              \/ row[r].nextPoll # "none"
              \/ \E w \in Workers :
                   job[w].run = r /\ (ResumePolling(w) \/ Wait(w))
         /\ \/ /\ row'[r].attemptCount = row[r].attemptCount
               /\ row'[r].status = "running" =>
                    row[r].status = "running" \/ row[r].nextPoll # "none"
            \/ /\ \E w \in Workers : Claim(w, r)
               /\ row'[r].attemptCount =
                    IF row[r].status = "queued"
                    THEN SaturatingAdd(row[r].attemptCount, Cap)
                    ELSE row[r].attemptCount
<1>. DEFINE new == row'[r]
            Polls == new.nextPoll # "none" => row[r].nextPoll # "none"
            Counts == /\ new.attemptCount = row[r].attemptCount
                      /\ new.status = "running" =>
                           row[r].status = "running" \/ row[r].nextPoll # "none"
<1>1. row[r] \in Row
  BY DEF Inv, TypeOK
<1>2. new = Released(row[r]) => Polls /\ Counts
  BY <1>1 DEF Released, Unclaimed, Row
<1>3. /\ new = [row[r] EXCEPT !.lease = "lapsed"] => Polls /\ Counts
      /\ new = [row[r] EXCEPT !.nextAttempt = "due"] => Polls /\ Counts
      /\ row[r].nextPoll = "later" /\ new = [row[r] EXCEPT !.nextPoll = "due"]
           => Polls /\ Counts
      /\ \A n : new = [row[r] EXCEPT !.pollCount = n] => Polls /\ Counts
      /\ \A to : row[r].status = "running"
                 /\ new = [row[r] EXCEPT !.status = "running", !.phase = to]
           => Polls /\ Counts
  BY <1>1 DEF Row
<1>4. new = Resumed(row[r]) => Counts
  BY <1>1 DEF Resumed, Unclaimed, Row
<1>5. ASSUME NEW w \in Workers, row[r].status = "running",
             new = [Waiting(row[r], w) EXCEPT !.status = "running",
                                              !.phase = "provider_pending"]
      PROVE  Counts
  BY <1>1, <1>5 DEF Waiting, Unclaimed, Row
<1>6. ASSUME NEW known \in BOOLEAN, new = CompletedRow(row[r], known)
      PROVE  Polls /\ Counts
  BY <1>1, <1>6 DEF CompletedRow, Unclaimed, Row
<1>7. new \in {RetryScheduled(row[r]), FailedRow(row[r])} => Polls /\ Counts
  BY <1>1 DEF RetryScheduled, FailedRow, Unclaimed, Row
<1>8. ASSUME NEW w \in Workers, new = Claimed(row[r], w)
      PROVE  /\ Polls
             /\ new.attemptCount = IF row[r].status = "queued"
                                   THEN SaturatingAdd(row[r].attemptCount, Cap)
                                   ELSE row[r].attemptCount
  BY <1>1, <1>8 DEF Claimed, Row
<1>9. new = row[r] => Polls /\ Counts
  OBVIOUS
<1>. HIDE DEF new, Polls, Counts
<1>10. \/ Polls /\ Counts
       \/ \E w \in Workers : Claim(w, r) /\ new = Claimed(row[r], w)
       \/ \E w \in Workers :
            Counts /\ job[w].run = r /\ (ResumePolling(w) \/ Wait(w))
  <2>. DEFINE Aside == Polls /\ Counts
              Handed == \E w \in Workers :
                          Counts /\ job[w].run = r
                            /\ (ResumePolling(w) \/ Wait(w))
  <2>1. ASSUME NEW w \in Workers, job[w].run = r
        PROVE  /\ ResumePolling(w) /\ new = Resumed(row[r]) => Handed
               /\ /\ Wait(w) /\ row[r].status = "running"
                  /\ new = [Waiting(row[r], w) EXCEPT
                              !.status = "running", !.phase = "provider_pending"]
                 => Handed
               /\ (\E n : new = [row[r] EXCEPT !.pollCount = n]) => Aside
               /\ /\ row[r].status = "running"
                  /\ \E to \in Phases :
                       new = [row[r] EXCEPT !.status = "running", !.phase = to]
                 => Aside
               /\ (\E known \in BOOLEAN : new = CompletedRow(row[r], known))
                    => Aside
               /\ new \in {RetryScheduled(row[r]), FailedRow(row[r])} => Aside
    BY <1>3, <1>4, <1>5, <1>6, <1>7, <2>1
  <2>2. /\ new = Released(row[r]) => Aside
        /\ new = [row[r] EXCEPT !.lease = "lapsed"] => Aside
        /\ new = [row[r] EXCEPT !.nextAttempt = "due"] => Aside
        /\ row[r].nextPoll = "later" /\ new = [row[r] EXCEPT !.nextPoll = "due"]
             => Aside
        /\ new = row[r] => Aside
    BY <1>2, <1>3, <1>9
  <2>. HIDE DEF Aside, Handed
  <2>3. \/ Aside \/ Handed
        \/ \E w \in Workers : Claim(w, r) /\ new = Claimed(row[r], w)
    BY <2>1, <2>2, RowStep DEF new
  <2>. QED
    BY <2>3 DEF Aside, Handed
<1>. QED
  BY <1>8, <1>10 DEF new, Polls, Counts

(* Copied survives every step: the holder's claim counted the attempt.      *)
LEMMA CopiedStep ==
  ASSUME "slow" \notin Faults, Inv, Held, Copied, [Next]_vars
  PROVE  Copied'
<1>. SUFFICES ASSUME NEW v \in Workers, pc'[v] \in Executing
              PROVE  row'[job'[v].run].attemptCount = job'[v].copy.attemptCount
  BY DEF Copied
<1>1. ASSUME NEW r \in Runs, Claim(v, r)
      PROVE  row'[job'[v].run].attemptCount = job'[v].copy.attemptCount
  BY <1>1 DEF Claim, Inv, TypeOK, NoJob
<1>2. CASE /\ pc[v] \in Executing
           /\ job'[v].run = job[v].run /\ job'[v].copy = job[v].copy
  <2>1. job[v].run \in Runs
    BY <1>2, JobTypes DEF Executing
  <2>2. \A w \in Workers : ~Claim(w, job[v].run)
    BY <1>2 DEF Held, Claim, Due, LeaseFree
  <2>3. row'[job[v].run].attemptCount = row[job[v].run].attemptCount
    BY <2>1, <2>2, AttemptStep
  <2>. QED
    BY <1>2, <2>3 DEF Copied
<1>. QED
  BY <1>1, <1>2, StillExecuting

(* Polled survives every step that loses no write.                          *)
LEMMA PolledStep ==
  ASSUME "store" \notin Faults, Inv, Held, Unaccepted, Polled, [Next]_vars
  PROVE  Polled'
<1>1. \A r \in Runs : ~NotAccepted(r) => task'[r] \in {"pending", "completed"}
  BY AcceptedStep DEF NotAccepted
<1>2. ASSUME NEW r \in Runs, row'[r].nextPoll # "none"
      PROVE  task'[r] \in {"pending", "completed"}
  <2>1. CASE row[r].nextPoll # "none"
    BY <1>1, <2>1 DEF Polled
  <2>2. ASSUME NEW w \in Workers, job[w].run = r, ResumePolling(w) \/ Wait(w)
        PROVE  ~NotAccepted(r)
    BY <2>2 DEF ResumePolling, Wait, NotAccepted, Polled, Answered, Executing
  <2>. QED
    BY <1>1, <1>2, <2>1, <2>2, AttemptStep
<1>3. ASSUME NEW v \in Workers, pc'[v] \in Executing,
             OnPollPath(v)' \/ pc'[v] \in Answered
      PROVE  task'[job'[v].run] \in {"pending", "completed"}
  <2>1. ASSUME NEW r \in Runs, Claim(v, r)
        PROVE  task'[job'[v].run] \in {"pending", "completed"}
    <3>1. /\ job'[v].run = r /\ job'[v].copy = Claimed(row[r], v)
          /\ pc'[v] = "claimed"
      BY <2>1 DEF Claim, Goto, Inv, TypeOK, NoJob
    <3>2. row[r].nextPoll # "none"
      BY <1>3, <3>1, UpdatedFields DEF OnPollPath, Answered, Inv, TypeOK
    <3>. QED
      BY <1>1, <3>1, <3>2 DEF Polled
  <2>2. CASE /\ pc[v] \in Executing
             /\ job'[v].run = job[v].run /\ job'[v].copy = job[v].copy
    <3>1. job[v].run \in Runs /\ row[job[v].run] \in Row
      BY <2>2, JobTypes DEF Executing
    <3>2. CASE OnPollPath(v)
      BY <1>1, <2>2, <3>1, <3>2 DEF Polled
    <3>3. CASE pc[v] \in Answered
      BY <1>1, <2>2, <3>1, <3>3 DEF Polled
    <3>4. CASE ~OnPollPath(v) /\ pc[v] \notin Answered
      <4>1. pc'[v] \in Answered /\ pc'[v] # pc[v]
        BY <1>3, <2>2, <3>4 DEF OnPollPath
      <4>2. Accept(v)
        <5>1. \A r \in Runs : ~Claim(v, r)
          BY <4>1 DEF Claim, Goto, Answered, Inv, TypeOK
        <5>2. ~Crash(v) /\ ~Abandon(v) /\ ~SkipFinished(v) /\ ~Reject(v)
          BY <4>1 DEF Crash, Abandon, SkipFinished, Reject, Return, Goto,
                      Answered, Inv, TypeOK
        <5>3. ~Begin(v)
          BY <3>4, <4>1 DEF Begin, Goto, Answered, Inv, TypeOK
        <5>4. ~Poll(v) /\ ~Process(v) /\ ~StoreEvidence(v) /\ ~Complete(v)
              /\ ~Wait(v)
          BY <3>4 DEF Poll, Process, StoreEvidence, Complete, Wait, Answered
        <5>5. /\ ~ResumePolling(v) /\ ~SkipAccepted(v) /\ ~GoOnToSubmit(v)
              /\ ~RecordIntent(v) /\ ~Announce(v) /\ ~Submit(v)
              /\ ~MeterSubmission(v)
          BY <4>1 DEF ResumePolling, SkipAccepted, GoOnToSubmit, RecordIntent,
                      Announce, Submit, MeterSubmission, Return, Goto,
                      Answered, Inv, TypeOK
        <5>6. /\ ~ChargeCheck(v) /\ ~AdvanceSchedule(v) /\ ~MarkRunFailed(v)
              /\ ~ReadStreak(v) /\ ~WriteStreak(v)
          BY <4>1 DEF ChargeCheck, AdvanceSchedule, MarkRunFailed, ReadStreak,
                      WriteStreak, Return, Goto, Answered, Inv, TypeOK
        <5>. QED
          BY <4>1, <5>1, <5>2, <5>3, <5>4, <5>5, <5>6, OwnStep
          DEF Start, Execute
      <4>3. task' = [task EXCEPT ![job[v].run] = job[v].reply]
            /\ job[v].reply \in {"pending", "completed"}
        BY <4>2 DEF Accept, WriteTask, MayFault, Inv, WorkerContext
      <4>. QED
        BY <2>2, <3>1, <4>3 DEF Inv, TypeOK
    <3>. QED
      BY <3>2, <3>3, <3>4
  <2>. QED
    BY <1>3, <2>1, <2>2, StillExecuting
<1>. QED
  BY <1>2, <1>3 DEF Polled, NotAccepted

(* Only Submit adds a submission, and without faults it has room for it.    *)
LEMMA SubmitHasRoom ==
  ASSUME Inv, Held, Unaccepted, Budget, NEW w \in Workers, Submit(w)
  PROVE  /\ submissions[job[w].run] < MaxAttempts
         /\ submissions[job[w].run] < job[w].copy.attemptCount
         /\ submissions' = [submissions EXCEPT ![job[w].run] = @ + 1]
<1>1. pc[w] = "submit" /\ pc[w] \in Executing /\ job[w].run \in Runs
  BY JobTypes DEF Submit, Executing
<1>2. NotAccepted(job[w].run) /\ row[job[w].run].status = "running"
  BY <1>1 DEF Unaccepted, Held
<1>3. \A v \in Workers : pc[v] \in Late => job[v].run # job[w].run
  BY <1>1 DEF Held, Late, Executing
<1>4. RoomFor(job[w].run)
  <2>1. Pending(job[w].run)
    BY <1>2, <1>3 DEF Pending, Terminal
  <2>. QED
    BY <1>1, <2>1 DEF Budget, Room
<1>5. /\ submissions[job[w].run] < MaxAttempts
      /\ submissions[job[w].run] < job[w].copy.attemptCount
  BY <1>1, <1>2, <1>4 DEF RoomFor, Budget, Copied
<1>6. SaturatingAdd(submissions[job[w].run], Cap) = submissions[job[w].run] + 1
  BY <1>1, <1>5, CapIsNat, LimitsAssumption DEF SaturatingAdd, Inv, TypeOK
<1>. QED
  BY <1>5, <1>6 DEF Submit

(* A worker that was late with its run settles it, keeps it, or, with       *)
(* attempts left, puts it back in the queue.                                *)
LEMMA LateStep ==
  ASSUME Faults = {}, Inv, Held, Budget, [Next]_vars,
         NEW v \in Workers, pc[v] \in Late
  PROVE  \/ pc'[v] \in Late /\ job'[v] = job[v]
         \/ row'[job[v].run].status \in Terminal
         \/ task'[job[v].run] \in {"pending", "completed"}
         \/ /\ MarkRunFailed(v) /\ Retryable(v)
            /\ row'[job[v].run].status = "queued"
<1>1. /\ pc[v] \in {"submitted", "accept", "fail"}
      /\ job[v].run \in Runs /\ row[job[v].run] \in Row
  BY JobTypes DEF Late
<1>2. CASE MeterSubmission(v)
  BY <1>2 DEF MeterSubmission, Goto, Late, Inv, TypeOK
<1>3. CASE Accept(v)
  <2>1. task' = [task EXCEPT ![job[v].run] = job[v].reply]
        /\ job[v].reply \in {"pending", "completed"}
    BY <1>3 DEF Accept, WriteTask, MayFault, Inv, WorkerContext
  <2>. QED
    BY <1>1, <2>1 DEF Inv, TypeOK
<1>4. CASE MarkRunFailed(v)
  <2>1. CASE Retryable(v)
    <3>1. row' = [row EXCEPT ![job[v].run] = RetryScheduled(row[job[v].run])]
      BY <1>4, <2>1 DEF MarkRunFailed, WriteRow, MayFault
    <3>2. row'[job[v].run] = RetryScheduled(row[job[v].run])
      BY <1>1, <3>1 DEF Inv, TypeOK
    <3>. QED
      BY <1>1, <1>4, <2>1, <3>2, UpdatedFields
  <2>2. CASE ~Retryable(v)
    <3>1. pc'[v] = "tally"
      BY <1>4, <2>2 DEF MarkRunFailed, Goto, Inv, TypeOK
    <3>. QED
      BY <1>4, <3>1, Fails DEF Terminal
  <2>. QED
    BY <2>1, <2>2
<1>5. CASE pc'[v] = pc[v] /\ job'[v] = job[v]
  BY <1>5
<1>6. ~Crash(v) /\ ~Abandon(v) /\ ~Start(v) /\ \A r \in Runs : ~Claim(v, r)
  BY <1>1 DEF Crash, MayFault, Abandon, Start, SkipFinished, Reject, Begin,
              Claim
<1>7. Execute(v) => MeterSubmission(v) \/ Accept(v) \/ MarkRunFailed(v)
  BY <1>1 DEF Execute, Poll, ResumePolling, SkipAccepted, GoOnToSubmit,
              RecordIntent, Announce, Submit, Wait, Process, StoreEvidence,
              Complete, ChargeCheck, AdvanceSchedule, ReadStreak, WriteStreak
<1>. QED
  BY <1>2, <1>3, <1>4, <1>5, <1>6, <1>7, OwnStep

(* A worker becomes late by its submission, or fails the run without one:   *)
(* for good, or after its request was accepted.                             *)
LEMMA LateArrival ==
  ASSUME Faults = {}, Inv, [Next]_vars,
         NEW v \in Workers, pc'[v] \in Late, pc[v] \notin Late
  PROVE  /\ job'[v].run = job[v].run /\ job'[v].copy = job[v].copy
         /\ \/ Submit(v)
            \/ job'[v].reply = "fatal"
            \/ pc[v] = "poll"
<1>1. /\ pc'[v] \in {"submitted", "accept", "fail"} /\ pc'[v] # pc[v]
      /\ pc[v] \notin {"submitted", "accept", "fail"}
  BY DEF Late
<1>2. \A r \in Runs : ~Claim(v, r)
  BY <1>1 DEF Claim, Goto, Inv, TypeOK
<1>3. job'[v].run = job[v].run /\ job'[v].copy = job[v].copy
  BY <1>1, <1>2, StillExecuting DEF Executing
<1>4. ~Crash(v) /\ ~Abandon(v) /\ ~SkipFinished(v)
  BY <1>1 DEF Crash, Abandon, SkipFinished, Return, Goto, Inv, TypeOK
<1>5. Reject(v) \/ Begin(v) => job'[v].reply = "fatal"
  BY <1>1 DEF Reject, Begin, Goto, Inv, TypeOK, Job
<1>6. Execute(v) => Submit(v) \/ pc[v] = "poll"
  <2>1. /\ ~ResumePolling(v) /\ ~SkipAccepted(v) /\ ~GoOnToSubmit(v)
        /\ ~RecordIntent(v) /\ ~Announce(v) /\ ~Wait(v) /\ ~Process(v)
    BY <1>1 DEF ResumePolling, SkipAccepted, GoOnToSubmit, RecordIntent,
                Announce, Wait, Process, Return, Goto, Inv, TypeOK
  <2>2. ~StoreEvidence(v)
    BY <1>1 DEF StoreEvidence, MayFault, Goto, Inv, TypeOK
  <2>3. /\ ~Complete(v) /\ ~ChargeCheck(v) /\ ~AdvanceSchedule(v)
        /\ ~ReadStreak(v) /\ ~WriteStreak(v)
    BY <1>1 DEF Complete, ChargeCheck, AdvanceSchedule, ReadStreak,
                WriteStreak, Return, Goto, Inv, TypeOK
  <2>4. ~MeterSubmission(v) /\ ~Accept(v) /\ ~MarkRunFailed(v)
    BY <1>1 DEF MeterSubmission, Accept, MarkRunFailed
  <2>. QED
    BY <2>1, <2>2, <2>3, <2>4 DEF Execute, Poll
<1>. QED
  BY <1>1, <1>2, <1>3, <1>4, <1>5, <1>6, OwnStep DEF Start

(* Room survives every step.                                                *)
LEMMA RoomStep ==
  ASSUME Faults = {}, Inv, Held, Unaccepted, Budget, [Next]_vars
  PROVE  Room'
<1>. SUFFICES ASSUME NEW r \in Runs,
                     row'[r].status \notin Terminal,
                     task'[r] \notin {"pending", "completed"},
                     \A w \in Workers : pc'[w] \in Late => job'[w].run # r
              PROVE  /\ submissions'[r] < MaxAttempts
                     /\ submissions'[r] <= row'[r].attemptCount
                     /\ row'[r].status = "running" =>
                          submissions'[r] < row'[r].attemptCount
  BY DEF Room, Pending, RoomFor, NotAccepted
<1>1. row[r].status \notin Terminal /\ NotAccepted(r)
  <2>1. row[r].status \notin Terminal
    BY EndedStep
  <2>. QED
    BY <2>1, AcceptedStep DEF NotAccepted
<1>2. submissions'[r] = submissions[r]
  <2>1. ASSUME NEW w \in Workers, Submit(w)
        PROVE  job[w].run # r
    <3>1. pc'[w] \in Late /\ job'[w].run = job[w].run
      BY <2>1 DEF Submit, Goto, Late, Inv, TypeOK, Job
    <3>. QED
      BY <3>1
  <2>. QED
    BY <2>1, SubmissionStep DEF Submit, Inv, TypeOK
<1>3. /\ submissions[r] \in 0 .. Cap /\ row[r].attemptCount \in 0 .. Cap
      /\ Cap \in Nat /\ MaxAttempts < Cap /\ MaxAttempts \in Nat
  BY CapIsNat, LimitsAssumption DEF Inv, TypeOK, Row
<1>4. CASE \E v \in Workers : pc[v] \in Late /\ job[v].run = r
  <2>1. PICK v \in Workers : pc[v] \in Late /\ job[v].run = r
    BY <1>4
  <2>2. /\ MarkRunFailed(v) /\ Retryable(v) /\ row'[r].status = "queued"
    BY <2>1, LateStep
  <2>3. /\ job[v].copy.attemptCount < MaxAttempts
        /\ submissions[r] <= job[v].copy.attemptCount
        /\ row[r].attemptCount = job[v].copy.attemptCount
    BY <1>1, <2>1, <2>2 DEF Retryable, Budget, Within, Copied, Late, Executing
  <2>4. row'[r].attemptCount = row[r].attemptCount
    <3>1. \A w \in Workers : ~Claim(w, r)
      BY <2>1 DEF Held, Late, Executing, Claim, Due, LeaseFree
    <3>. QED
      BY <3>1, AttemptStep
  <2>. QED
    BY <1>2, <1>3, <2>2, <2>3, <2>4
<1>5. CASE ~ \E v \in Workers : pc[v] \in Late /\ job[v].run = r
  <2>1. /\ submissions[r] < MaxAttempts
        /\ submissions[r] <= row[r].attemptCount
        /\ row[r].status = "running" => submissions[r] < row[r].attemptCount
    BY <1>1, <1>5 DEF Budget, Room, Pending, RoomFor
  <2>2. row[r].nextPoll = "none"
    BY <1>1 DEF Budget, Polled
  <2>3. CASE /\ row'[r].attemptCount = row[r].attemptCount
             /\ row'[r].status = "running" => row[r].status = "running"
    BY <1>2, <2>1, <2>3
  <2>4. CASE /\ \E w \in Workers : Claim(w, r)
             /\ row'[r].attemptCount =
                  IF row[r].status = "queued"
                  THEN SaturatingAdd(row[r].attemptCount, Cap)
                  ELSE row[r].attemptCount
    <3>1. row[r].status \in {"queued", "running"}
      BY <2>4 DEF Claim, Due
    <3>2. submissions[r] < row'[r].attemptCount /\ row'[r].attemptCount \in Nat
      BY <1>3, <2>1, <2>4, <3>1 DEF SaturatingAdd
    <3>. QED
      BY <1>2, <1>3, <2>1, <3>2
  <2>. QED
    BY <2>2, <2>3, <2>4, AttemptStep
<1>. QED
  BY <1>4, <1>5

(* So does Within.                                                          *)
LEMMA WithinStep ==
  ASSUME Faults = {}, Inv, Held, Unaccepted, Budget, [Next]_vars
  PROVE  Within'
<1>. SUFFICES ASSUME NEW v \in Workers, pc'[v] \in Late,
                     task'[job'[v].run] \notin {"pending", "completed"},
                     job'[v].reply # "fatal"
              PROVE  submissions'[job'[v].run] <= job'[v].copy.attemptCount
  BY DEF Within, NotAccepted
<1>1. CASE pc[v] \in Late
  <2>1. job[v].run \in Runs /\ pc[v] \in Executing
    BY <1>1, JobTypes DEF Late, Executing
  <2>2. job'[v] = job[v]
    <3>1. CASE pc'[v] = pc[v] /\ job'[v] = job[v]
      BY <3>1
    <3>2. \A r \in Runs : ~Claim(v, r)
      BY <1>1 DEF Claim, Late
    <3>3. MeterSubmission(v) => job'[v] = job[v]
      BY DEF MeterSubmission
    <3>4. ~Accept(v) /\ ~MarkRunFailed(v)
      BY DEF Accept, MarkRunFailed, Return, Goto, Late, Inv, TypeOK
    <3>5. ~Crash(v) /\ ~Abandon(v) /\ ~Start(v)
      BY <1>1 DEF Crash, MayFault, Abandon, Start, SkipFinished, Reject, Begin,
                  Late
    <3>6. Execute(v) => MeterSubmission(v) \/ Accept(v) \/ MarkRunFailed(v)
      BY <1>1 DEF Late, Execute, Poll, ResumePolling, SkipAccepted,
                  GoOnToSubmit, RecordIntent, Announce, Submit, Wait, Process,
                  StoreEvidence, Complete, ChargeCheck, AdvanceSchedule,
                  ReadStreak, WriteStreak
    <3>. QED
      BY <3>1, <3>2, <3>3, <3>4, <3>5, <3>6, OwnStep
  <2>3. NotAccepted(job[v].run)
    BY <2>1, <2>2, AcceptedStep DEF NotAccepted
  <2>4. submissions'[job[v].run] = submissions[job[v].run]
    <3>1. ASSUME NEW w \in Workers, Submit(w)
          PROVE  job[w].run # job[v].run
      BY <1>1, <2>1, <3>1 DEF Submit, Held, Executing, Late
    <3>. QED
      BY <2>1, <3>1, SubmissionStep DEF Submit, Inv, TypeOK
  <2>. QED
    BY <1>1, <2>2, <2>3, <2>4 DEF Budget, Within
<1>2. CASE pc[v] \notin Late
  <2>1. job'[v].run = job[v].run /\ job'[v].copy = job[v].copy
    BY <1>2, LateArrival
  <2>2. pc[v] # "poll"
    <3>1. ASSUME pc[v] = "poll" PROVE FALSE
      <4>1. job[v].run \in Runs /\ ~NotAccepted(job[v].run)
        BY <3>1, JobTypes DEF Budget, Polled, Answered, Executing
      <4>. QED
        BY <2>1, <4>1, AcceptedStep DEF NotAccepted
    <3>. QED
      BY <3>1
  <2>3. Submit(v)
    BY <1>2, <2>2, LateArrival
  <2>4. /\ submissions[job[v].run] < job[v].copy.attemptCount
        /\ submissions'[job[v].run] = submissions[job[v].run] + 1
        /\ submissions[job[v].run] \in Nat
        /\ job[v].copy.attemptCount \in Nat
    <3>1. job[v].run \in Runs /\ job[v].copy \in Row
      BY <2>3, JobTypes DEF Submit
    <3>. QED
      BY <2>3, <3>1, SubmitHasRoom, CapIsNat DEF Inv, TypeOK, Row
  <2>. QED
    BY <2>1, <2>4
<1>. QED
  BY <1>1, <1>2

(* Without faults, no run is submitted more often than MaxAttempts says,    *)
(* although a claimed row that is abandoned uses up an attempt as well and  *)
(* the copy's count, not the row's, decides on the retry.                   *)
THEOREM SubmissionsAreBounded ==
  ASSUME Faults = {}
  PROVE  Spec => []SubmissionsWithinAttempts
<1>1. Init => Budget
  <2>. SUFFICES ASSUME Init PROVE Budget
    OBVIOUS
  <2>1. \A r \in Runs : row[r].nextPoll = "none" /\ row[r].status = "queued"
                        /\ row[r].attemptCount = 0
    BY NewRowIsRow DEF Init, NewRow
  <2>2. MaxAttempts \in Nat /\ MaxAttempts > 0
    BY LimitsAssumption
  <2>3. \A r \in Runs : submissions[r] = 0
    BY DEF Init
  <2>. QED
    BY <2>1, <2>2, <2>3
    DEF Init, Budget, Copied, Polled, Room, RoomFor, Within,
        SubmissionsWithinAttempts, Executing, Late
<1>2. Inv /\ Held /\ Unaccepted /\ Budget /\ [Next]_vars => Budget'
  <2>. SUFFICES ASSUME Inv, Held, Unaccepted, Budget, [Next]_vars
                PROVE  Budget'
    OBVIOUS
  <2>1. Copied' /\ Polled'
    BY CopiedStep, PolledStep DEF Budget
  <2>2. SubmissionsWithinAttempts'
    <3>1. ASSUME NEW w \in Workers, Submit(w)
          PROVE  SubmissionsWithinAttempts'
      <4>1. job[w].run \in Runs
        BY <3>1, JobTypes DEF Submit
      <4>2. \A r \in Runs : submissions[r] \in Nat
        BY CapIsNat DEF Inv, TypeOK
      <4>. QED
        BY <3>1, <4>1, <4>2, SubmitHasRoom, LimitsAssumption
        DEF SubmissionsWithinAttempts, Budget, Inv, TypeOK
    <3>2. CASE UNCHANGED submissions
      BY <3>2 DEF SubmissionsWithinAttempts, Budget
    <3>. QED
      BY <3>1, <3>2, SubmissionStep
  <2>. QED
    BY <2>1, <2>2, RoomStep, WithinStep DEF Budget
<1>3. Budget => SubmissionsWithinAttempts
  BY DEF Budget
<1>4. Spec => [](Inv /\ Held /\ Unaccepted)
  BY UnacceptedInvariance
<1>. QED
  BY <1>1, <1>2, <1>3, <1>4, PTL DEF Spec

=============================================================================
