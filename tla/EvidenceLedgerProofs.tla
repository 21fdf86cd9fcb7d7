------------------------- MODULE EvidenceLedgerProofs -------------------------
(***************************************************************************)
(* Proofs about EvidenceLedger, for any number of executions, runs, notes  *)
(* and evidence hashes and any bound on the faults.                        *)
(*                                                                         *)
(* The invariant of types says in addition what an execution knows of the  *)
(* notes it has dealt with: each has an occurrence, or was missed when a   *)
(* statement failed.  The counters follow from what each execution has yet *)
(* to add to the count of the note it is at (Books), and material changes  *)
(* from the order in which runs were classified and stored (History).      *)
(***************************************************************************)
EXTENDS EvidenceLedger, FiniteSetTheorems, TLAPS

-----------------------------------------------------------------------------
(* What an execution has in hand                                            *)

Busy == {"find", "touch", "create", "alert", "compare", "occur", "renew", "prove"}
Labels == Busy \cup {"idle", "snapshot", "next"}

(* Note e of run r has an occurrence in occ or is in miss.                  *)
Stands(occ, e, r) == \E o \in occ : o.event = e /\ o.run = r
Seen(occ, miss, e, r) == <<e, r>> \in miss \/ Stands(occ, e, r)

JobOk(ans, occ, miss, label, j) ==
  /\ label = "idle" => j = NoJob
  /\ label # "idle" => j.run \in Runs /\ \A e \in j.todo : ans[j.run][e] # NotCited
  /\ label \in {"idle", "snapshot", "next"} => j.event = Nothing
  /\ label \in Busy => j.event \in Events /\ ans[j.run][j.event] # NotCited
  /\ label \in Busy \cup {"next"} =>
       \A e \in Events : ans[j.run][e] # NotCited =>
         e \in j.todo \/ e = j.event \/ Seen(occ, miss, e, j.run)
  /\ j.created => label \in {"alert", "compare", "occur", "renew", "prove"}
  /\ j.material =>
       /\ label \in {"occur", "renew", "prove"}
       /\ \E o \in occ : o.event = j.event /\ ans[o.run][j.event] # ans[j.run][j.event]
  /\ label = "renew" => j.material /\ Stands(occ, j.event, j.run)
  /\ label = "prove" => Seen(occ, miss, j.event, j.run)

Jobs == \A w \in Workers : JobOk(answer, occurrence, missed, pc[w], job[w])

TypeInv == TypeOK /\ Jobs

(* Any one run has one occurrence of a note.                                *)
Keyed(occ) == \A o, p \in occ : o.event = p.event /\ o.run = p.run => o = p

DataOk ==
  /\ answer \in [Runs -> [Events -> Evidence \cup {NotCited}]]
  /\ response \subseteq Runs
  /\ count \in [Events -> Nat]
  /\ occurrence \subseteq Occurrence /\ Keyed(occurrence)
  /\ proofs \in [Pairs -> Nat]
  /\ alerted \subseteq Events /\ renewed \subseteq Pairs
  /\ missed \subseteq Pairs /\ completed \subseteq Runs
  /\ clock \in Nat
  /\ faults \in 0 .. MaxFaults
  /\ overlapped \in BOOLEAN

Grows == UNCHANGED answer /\ occurrence \subseteq occurrence' /\ missed \subseteq missed'

(* Worker w goes on to label with the local data j.                         *)
Moves(w, label, j) ==
  /\ label \in Labels /\ j \in Job /\ JobOk(answer, occurrence', missed', label, j)
  /\ pc' = [pc EXCEPT ![w] = label]
  /\ job' = [job EXCEPT ![w] = j]

LEMMA DataIsOk == TypeInv => DataOk
BY DEF TypeInv, TypeOK, DataOk, Keyed

LEMMA Growing ==
  ASSUME NEW ans, NEW occ, NEW miss, NEW occ2, NEW miss2, NEW label, NEW j,
         occ \subseteq occ2, miss \subseteq miss2, JobOk(ans, occ, miss, label, j)
  PROVE  JobOk(ans, occ2, miss2, label, j)
BY DEF JobOk, Seen, Stands

LEMMA Moving ==
  ASSUME TypeInv, NEW w \in Workers, NEW label, NEW j, Moves(w, label, j), DataOk', Grows
  PROVE  TypeInv'
<1>1. pc' \in [Workers -> Labels] /\ job' \in [Workers -> Job]
  BY DEF TypeInv, TypeOK, Moves, Labels, Busy
<1>2. TypeOK'
  BY <1>1 DEF TypeOK, DataOk, Labels, Busy, Keyed
<1>3. ASSUME NEW v \in Workers PROVE JobOk(answer', occurrence', missed', pc'[v], job'[v])
  <2>1. CASE v = w
    BY <2>1 DEF Moves, Grows, TypeInv, TypeOK
  <2>2. CASE v # w
    <3>1. JobOk(answer, occurrence, missed, pc[v], job[v])
      BY DEF TypeInv, Jobs
    <3>2. JobOk(answer, occurrence', missed', pc[v], job[v])
      BY <3>1, Growing DEF Grows
    <3>3. pc'[v] = pc[v] /\ job'[v] = job[v] /\ answer' = answer
      BY <2>2 DEF Moves, Grows, TypeInv, TypeOK
    <3>. QED
      BY <3>2, <3>3
  <2>. QED
    BY <2>1, <2>2
<1>. QED
  BY <1>2, <1>3 DEF TypeInv, Jobs

LEMMA JobOf ==
  ASSUME TypeInv, NEW w \in Workers
  PROVE  /\ pc[w] \in Labels /\ job[w] \in Job
         /\ JobOk(answer, occurrence, missed, pc[w], job[w])
         /\ job \in [Workers -> Job] /\ pc \in [Workers -> Labels]
BY DEF TypeInv, TypeOK, Jobs, Labels, Busy

LEMMA NoJobIsJob == NoJob \in Job
BY DEF NoJob, Job

LEMMA NoJobOk ==
  ASSUME NEW occ, NEW miss
  PROVE  JobOk(answer, occ, miss, "idle", NoJob)
BY DEF JobOk, NoJob, Busy

LEMMA Returning ==
  ASSUME NEW w \in Workers, Return(w)
  PROVE  Moves(w, "idle", NoJob)
BY NoJobIsJob, NoJobOk DEF Return, Goto, Moves, Labels

LEMMA Staying ==
  ASSUME UNCHANGED <<answer, occurrence, missed>>
  PROVE  Grows
BY DEF Grows

LEMMA FaultTypes ==
  ASSUME NEW kind, TypeInv, UNCHANGED faults \/ Fault(kind)
  PROVE  faults' \in 0 .. MaxFaults
BY FaultsAssumption DEF Fault, TypeInv, TypeOK

(* An execution goes on with the note it has in hand.                       *)
LEMMA Proceeding ==
  ASSUME TypeInv, NEW w \in Workers, pc[w] \in Busy, NEW label \in Busy \ {"renew", "prove"},
         Goto(w, label), UNCHANGED job, Grows,
         job[w].material => label \in {"occur", "renew", "prove"},
         job[w].created => label \in {"alert", "compare", "occur"}
  PROVE  Moves(w, label, job[w])
<1>1. JobOk(answer, occurrence', missed', pc[w], job[w])
  BY JobOf, Growing DEF Grows
<1>2. JobOk(answer, occurrence', missed', label, job[w])
  BY <1>1 DEF JobOk, Busy
<1>. QED
  BY <1>2, JobOf DEF Moves, Goto, Labels

(* The note in hand is done with: it has been seen.                         *)
LEMMA Dismissing ==
  ASSUME TypeInv, NEW w \in Workers, pc[w] \in Busy, Dismiss(w), Grows,
         Seen(occurrence', missed', job[w].event, job[w].run)
  PROVE  \E j : Moves(w, "next", j)
<1>. DEFINE j == [job[w] EXCEPT !.event = Nothing, !.read = 0, !.created = FALSE, !.material = FALSE]
<1>1. job[w] \in Job /\ job \in [Workers -> Job] /\ JobOk(answer, occurrence', missed', pc[w], job[w])
  BY JobOf, Growing DEF Grows
<1>2. job' = [job EXCEPT ![w] = j]
  BY <1>1 DEF Dismiss
<1>3. /\ j \in Job /\ j.run = job[w].run /\ j.todo = job[w].todo /\ j.event = Nothing
      /\ ~j.created /\ ~j.material
  BY <1>1 DEF Job
<1>. HIDE DEF j
<1>4. JobOk(answer, occurrence', missed', "next", j)
  BY <1>1, <1>3 DEF JobOk, Busy
<1>. QED
  BY <1>2, <1>3, <1>4 DEF Moves, Dismiss, Goto, Labels

-----------------------------------------------------------------------------
(* Types, action by action                                                  *)

LEMMA StartTypes ==
  ASSUME TypeInv, NEW w \in Workers, NEW r \in Runs, Start(w, r)
  PROVE  TypeInv' /\ Grows
<1>. DEFINE j == [NoJob EXCEPT !.run = r]
<1>0. NoJob \in Job /\ NoJob.todo = {} /\ NoJob.event = Nothing /\ ~NoJob.created /\ ~NoJob.material
  BY NoJobIsJob DEF NoJob
<1>1. /\ j \in Job /\ j.run = r /\ j.todo = {} /\ j.event = Nothing
      /\ ~j.created /\ ~j.material
  BY <1>0 DEF Job
<1>. HIDE DEF j
<1>2. JobOk(answer, occurrence', missed', "snapshot", j)
  BY <1>1 DEF JobOk, Busy
<1>3. DataOk' /\ Grows
  BY DataIsOk DEF Start, DataOk, Grows, rows
<1>4. Moves(w, "snapshot", j)
  BY <1>1, <1>2 DEF Moves, Start, Goto, Labels, j
<1>. QED
  BY <1>3, <1>4, Moving

LEMMA SnapshotTypes ==
  ASSUME TypeInv, NEW w \in Workers, Snapshot(w)
  PROVE  TypeInv' /\ Grows
<1>. DEFINE r == job[w].run
            j == [job[w] EXCEPT !.todo = Cited(r), !.now = clock + 1]
<1>1. /\ job[w] \in Job /\ job \in [Workers -> Job] /\ r \in Runs
      /\ JobOk(answer, occurrence, missed, "snapshot", job[w])
  BY JobOf DEF Snapshot, JobOk
<1>2. Grows /\ UNCHANGED <<occurrence, missed>>
  BY DEF Snapshot, Grows
<1>3. DataOk'
  <2>1. response' \subseteq Runs /\ clock' \in Nat /\ faults' \in 0 .. MaxFaults
    BY <1>1, FaultTypes DEF Snapshot, TypeInv, TypeOK
  <2>. QED
    BY <2>1, DataIsOk DEF Snapshot, DataOk
<1>4. CASE Return(w)
  BY <1>2, <1>3, <1>4, Moving, Returning
<1>5. CASE /\ clock' = clock + 1 /\ Goto(w, "next")
           /\ job' = [job EXCEPT ![w].todo = Cited(r), ![w].now = clock']
  <2>1. Cited(r) \subseteq Events /\ clock + 1 \in Nat /\ \A e \in Events : e \in Cited(r) <=> answer[r][e] # NotCited
    BY DEF Cited, TypeInv, TypeOK
  <2>2. job' = [job EXCEPT ![w] = j]
    BY <1>1, <1>5
  <2>3. /\ j \in Job /\ j.run = r /\ j.todo = Cited(r) /\ j.event = job[w].event
        /\ j.created = job[w].created /\ j.material = job[w].material
    BY <1>1, <2>1 DEF Job
  <2>. HIDE DEF j, r
  <2>4. JobOk(answer, occurrence', missed', "next", j)
    BY <1>1, <1>2, <2>1, <2>3 DEF JobOk, Busy, r
  <2>5. Moves(w, "next", j)
    BY <1>5, <2>2, <2>3, <2>4 DEF Moves, Goto, Labels
  <2>. QED
    BY <1>2, <1>3, <2>5, Moving
<1>. QED
  BY <1>4, <1>5 DEF Snapshot

LEMMA TakeTypes ==
  ASSUME TypeInv, NEW w \in Workers, NEW e \in Events, Take(w, e)
  PROVE  TypeInv' /\ Grows
<1>. DEFINE j == [job[w] EXCEPT !.todo = @ \ {e}, !.event = e]
<1>1. /\ job[w] \in Job /\ job \in [Workers -> Job] /\ e \in job[w].todo
      /\ JobOk(answer, occurrence, missed, "next", job[w])
  BY JobOf DEF Take
<1>2. Grows /\ DataOk' /\ UNCHANGED <<occurrence, missed>>
  BY DataIsOk DEF Take, DataOk, Grows, rows
<1>3. job' = [job EXCEPT ![w] = j]
  BY <1>1 DEF Take
<1>4. /\ j \in Job /\ j.run = job[w].run /\ j.todo = job[w].todo \ {e} /\ j.event = e
      /\ j.created = job[w].created /\ j.material = job[w].material
  BY <1>1 DEF Job
<1>. HIDE DEF j
<1>5. JobOk(answer, occurrence', missed', "find", j)
  BY <1>1, <1>2, <1>4, NamesAssumption DEF JobOk, Busy
<1>6. Moves(w, "find", j)
  BY <1>3, <1>4, <1>5 DEF Moves, Take, Goto, Labels, Busy
<1>. QED
  BY <1>2, <1>6, Moving

LEMMA CompleteTypes ==
  ASSUME TypeInv, NEW w \in Workers, Complete(w)
  PROVE  TypeInv' /\ Grows
<1>1. job[w].run \in Runs
  BY JobOf DEF Complete, JobOk
<1>2. completed' \subseteq Runs /\ faults' \in 0 .. MaxFaults
  BY <1>1, FaultTypes DEF Complete, TypeInv, TypeOK
<1>3. DataOk' /\ Grows
  BY <1>2, DataIsOk DEF Complete, DataOk, Grows
<1>. QED
  BY <1>3, Moving, Returning DEF Complete

LEMMA FindTypes ==
  ASSUME TypeInv, NEW w \in Workers, Find(w)
  PROVE  TypeInv' /\ Grows
<1>. DEFINE n == count[job[w].event]
            j == [job[w] EXCEPT !.read = n]
<1>1. /\ job[w] \in Job /\ job \in [Workers -> Job] /\ job[w].event \in Events
      /\ JobOk(answer, occurrence, missed, "find", job[w])
  BY JobOf DEF Find, JobOk, Busy
<1>2. Grows /\ DataOk' /\ UNCHANGED <<occurrence, missed>>
  BY DataIsOk DEF Find, DataOk, Grows, rows
<1>3. n \in Nat
  BY <1>1 DEF TypeInv, TypeOK
<1>4. job' = [job EXCEPT ![w] = j] /\ (Goto(w, "touch") \/ Goto(w, "create"))
  BY <1>1 DEF Find
<1>5. /\ j \in Job /\ j.run = job[w].run /\ j.todo = job[w].todo /\ j.event = job[w].event
      /\ j.created = job[w].created /\ j.material = job[w].material
  BY <1>1, <1>3 DEF Job
<1>. HIDE DEF j
<1>6. \A label \in {"touch", "create"} : JobOk(answer, occurrence', missed', label, j)
  BY <1>1, <1>2, <1>5 DEF JobOk, Busy
<1>7. Moves(w, "touch", j) \/ Moves(w, "create", j)
  BY <1>4, <1>5, <1>6 DEF Moves, Goto, Labels, Busy
<1>. QED
  BY <1>2, <1>7, Moving

LEMMA TouchTypes ==
  ASSUME TypeInv, NEW w \in Workers, Touch(w)
  PROVE  TypeInv' /\ Grows
<1>1. job[w].event \in Events /\ job[w].read \in Nat /\ ~job[w].material
  BY JobOf DEF Touch, JobOk, Busy, Job
<1>2. count' \in [Events -> Nat] /\ faults' \in 0 .. MaxFaults
  BY <1>1, FaultTypes DEF Touch, Counted, TypeInv, TypeOK
<1>3. DataOk' /\ Grows
  BY <1>2, DataIsOk DEF Touch, DataOk, Grows
<1>4. Moves(w, "compare", job[w])
  BY <1>1, <1>3, Proceeding DEF Touch, Busy
<1>. QED
  BY <1>3, <1>4, Moving

LEMMA CreateTypes ==
  ASSUME TypeInv, NEW w \in Workers, Create(w)
  PROVE  TypeInv' /\ Grows
<1>. DEFINE e == job[w].event
<1>1. /\ job[w] \in Job /\ job \in [Workers -> Job] /\ e \in Events /\ job[w].run \in Runs
      /\ JobOk(answer, occurrence, missed, "create", job[w]) /\ ~job[w].material /\ pc[w] \in Busy
  BY JobOf DEF Create, JobOk, Busy
<1>2. Grows /\ UNCHANGED occurrence
  BY DEF Create, Grows
<1>3. DataOk'
  <2>1. faults' \in 0 .. MaxFaults
    BY FaultTypes DEF Create
  <2>2. missed' \subseteq Pairs
    BY <1>1 DEF Create, InHand, Pairs, TypeInv, TypeOK
  <2>3. count' \in [Events -> Nat]
    BY <1>1 DEF Create, TypeInv, TypeOK
  <2>. QED
    BY <2>1, <2>2, <2>3, DataIsOk DEF Create, DataOk
<1>4. CASE job' = [job EXCEPT ![w].created = TRUE] /\ Goto(w, "alert") /\ UNCHANGED missed
  <2>. DEFINE j == [job[w] EXCEPT !.created = TRUE]
  <2>1. job' = [job EXCEPT ![w] = j]
    BY <1>1, <1>4
  <2>2. /\ j \in Job /\ j.run = job[w].run /\ j.todo = job[w].todo /\ j.event = job[w].event
        /\ j.material = job[w].material
    BY <1>1 DEF Job
  <2>. HIDE DEF j, e
  <2>3. JobOk(answer, occurrence', missed', "alert", j)
    BY <1>1, <1>2, <1>4, <2>2 DEF JobOk, Busy
  <2>4. Moves(w, "alert", j)
    BY <1>4, <2>1, <2>2, <2>3 DEF Moves, Goto, Labels, Busy
  <2>. QED
    BY <1>2, <1>3, <2>4, Moving
<1>5. CASE RefusedIsFound(w)
  <2>1. Moves(w, "compare", job[w])
    BY <1>1, <1>2, <1>5, Proceeding DEF RefusedIsFound, Busy
  <2>. QED
    BY <1>2, <1>3, <2>1, Moving
<1>6. CASE missed' = missed \cup {InHand(w)} /\ Dismiss(w)
  <2>1. Seen(occurrence', missed', job[w].event, job[w].run)
    BY <1>6 DEF Seen, InHand
  <2>. QED
    BY <1>1, <1>2, <1>3, <1>6, <2>1, Dismissing, Moving
<1>. QED
  BY <1>4, <1>5, <1>6 DEF Create

LEMMA AlertNewTypes ==
  ASSUME TypeInv, NEW w \in Workers, AlertNew(w)
  PROVE  TypeInv' /\ Grows
<1>1. job[w].event \in Events /\ ~job[w].material
  BY JobOf DEF AlertNew, JobOk, Busy
<1>2. alerted' \subseteq Events /\ faults' \in 0 .. MaxFaults
  BY <1>1, FaultTypes DEF AlertNew, TypeInv, TypeOK
<1>3. DataOk' /\ Grows
  BY <1>2, DataIsOk DEF AlertNew, DataOk, Grows
<1>4. Moves(w, "compare", job[w])
  BY <1>1, <1>3, Proceeding DEF AlertNew, Busy
<1>. QED
  BY <1>3, <1>4, Moving

LEMMA CompareTypes ==
  ASSUME TypeInv, NEW w \in Workers, Compare(w)
  PROVE  TypeInv' /\ Grows
<1>. DEFINE material == IsMaterialChange(job[w].event, job[w].run)
            j == [job[w] EXCEPT !.material = material]
<1>1. /\ job[w] \in Job /\ job \in [Workers -> Job]
      /\ JobOk(answer, occurrence, missed, "compare", job[w])
  BY JobOf DEF Compare
<1>2. Grows /\ DataOk' /\ UNCHANGED <<occurrence, missed>>
  BY DataIsOk DEF Compare, DataOk, Grows, rows
<1>3. /\ material \in BOOLEAN
      /\ material => \E o \in occurrence :
           o.event = job[w].event /\ answer[o.run][job[w].event] # answer[job[w].run][job[w].event]
  BY DEF IsMaterialChange, IsPrior, OccurrencesOf
<1>. HIDE DEF material
<1>4. job' = [job EXCEPT ![w] = j]
  BY <1>1 DEF Compare, material
<1>5. /\ j \in Job /\ j.run = job[w].run /\ j.todo = job[w].todo /\ j.event = job[w].event
      /\ j.created = job[w].created /\ j.material = material
  BY <1>1, <1>3 DEF Job
<1>. HIDE DEF j
<1>6. JobOk(answer, occurrence', missed', "occur", j)
  BY <1>1, <1>2, <1>3, <1>5 DEF JobOk, Busy
<1>7. Moves(w, "occur", j)
  BY <1>4, <1>5, <1>6 DEF Moves, Compare, Goto, Labels, Busy
<1>. QED
  BY <1>2, <1>7, Moving

(* The pair in hand has an occurrence exactly if the insert is refused.     *)
LEMMA StoredStands ==
  ASSUME TypeInv, NEW w \in Workers
  PROVE  Stored(w) <=> Stands(occurrence, job[w].event, job[w].run)
BY DEF Stored, InHand, Observed, Stands

LEMMA OccurrenceTypes ==
  ASSUME TypeInv, NEW w \in Workers, AppendOccurrence(w)
  PROVE  TypeInv' /\ Grows
<1>. DEFINE row == [event |-> job[w].event, run |-> job[w].run, at |-> job[w].now,
                    material |-> job[w].material]
<1>1. /\ job[w] \in Job /\ job \in [Workers -> Job] /\ job[w].event \in Events /\ job[w].run \in Runs
      /\ JobOk(answer, occurrence, missed, "occur", job[w]) /\ pc[w] \in Busy
  BY JobOf DEF AppendOccurrence, JobOk, Busy
<1>2. row \in Occurrence
  BY <1>1 DEF Occurrence, Job
<1>3. Grows
  BY DEF AppendOccurrence, Grows
<1>4. DataOk'
  <2>1. faults' \in 0 .. MaxFaults
    BY FaultTypes DEF AppendOccurrence
  <2>2. missed' \subseteq Pairs
    BY <1>1 DEF AppendOccurrence, InHand, Pairs, TypeInv, TypeOK
  <2>3. occurrence' \subseteq Occurrence /\ Keyed(occurrence')
    <3>1. CASE UNCHANGED occurrence
      BY <3>1 DEF TypeInv, TypeOK, Keyed
    <3>2. CASE ~Stored(w) /\ occurrence' = occurrence \cup {row}
      <4>1. \A o \in occurrence : ~(o.event = row.event /\ o.run = row.run)
        BY <3>2, StoredStands DEF Stands
      <4>. HIDE DEF row
      <4>. QED
        BY <1>2, <3>2, <4>1 DEF TypeInv, TypeOK, Keyed
    <3>. QED
      BY <3>1, <3>2 DEF AppendOccurrence
  <2>. QED
    BY <2>1, <2>2, <2>3, DataIsOk DEF AppendOccurrence, DataOk
<1>5. JobOk(answer, occurrence', missed', "occur", job[w])
  BY <1>1, <1>3, Growing DEF Grows
<1>6. CASE /\ occurrence' = occurrence \cup {row} /\ UNCHANGED job
           /\ Goto(w, IF row.material /\ ~job[w].created THEN "renew" ELSE "prove")
  <2>2. row.material = job[w].material /\ row.event = job[w].event /\ row.run = job[w].run
    OBVIOUS
  <2>0. row \in occurrence'
    BY <1>6
  <2>. HIDE DEF row
  <2>1. Stands(occurrence', job[w].event, job[w].run)
    BY <2>0, <2>2 DEF Stands
  <2>3. JobOk(answer, occurrence', missed', "prove", job[w])
    BY <1>5, <2>1 DEF JobOk, Busy, Seen
  <2>4. job[w].material => JobOk(answer, occurrence', missed', "renew", job[w])
    BY <1>5, <2>1 DEF JobOk, Busy
  <2>5. job' = [job EXCEPT ![w] = job[w]]
    BY <1>1, <1>6
  <2>6. Moves(w, "renew", job[w]) \/ Moves(w, "prove", job[w])
    BY <1>1, <1>6, <2>2, <2>3, <2>4, <2>5 DEF Moves, Goto, Labels, Busy
  <2>. QED
    BY <1>3, <1>4, <2>6, Moving
<1>7. CASE /\ Stored(w) \/ missed' = missed \cup {InHand(w)}
           /\ IF ProveIfRefused(w) THEN Goto(w, "prove") /\ UNCHANGED job ELSE Dismiss(w)
  <2>1. Seen(occurrence', missed', job[w].event, job[w].run)
    BY <1>3, <1>7, StoredStands DEF Seen, Stands, InHand, Grows
  <2>2. CASE Dismiss(w)
    BY <1>1, <1>3, <1>4, <2>1, <2>2, Dismissing, Moving
  <2>3. CASE Goto(w, "prove") /\ UNCHANGED job
    <3>1. JobOk(answer, occurrence', missed', "prove", job[w])
      BY <1>5, <2>1 DEF JobOk, Busy
    <3>2. job' = [job EXCEPT ![w] = job[w]]
      BY <1>1, <2>3
    <3>3. Moves(w, "prove", job[w])
      BY <1>1, <2>3, <3>1, <3>2 DEF Moves, Goto, Labels, Busy
    <3>. QED
      BY <1>3, <1>4, <3>3, Moving
  <2>4. Dismiss(w) \/ (Goto(w, "prove") /\ UNCHANGED job)
    BY <1>7
  <2>. QED
    BY <2>2, <2>3, <2>4
<1>. QED
  BY <1>6, <1>7 DEF AppendOccurrence

LEMMA RenewedTypes ==
  ASSUME TypeInv, NEW w \in Workers, AlertRenewed(w)
  PROVE  TypeInv' /\ Grows
<1>1. /\ job[w] \in Job /\ job[w].event \in Events /\ job[w].run \in Runs
      /\ JobOk(answer, occurrence, missed, "renew", job[w])
      /\ job \in [Workers -> Job]
  BY JobOf DEF AlertRenewed, JobOk, Busy
<1>2. renewed' \subseteq Pairs /\ faults' \in 0 .. MaxFaults
  BY <1>1, FaultTypes DEF AlertRenewed, InHand, Pairs, TypeInv, TypeOK
<1>3. DataOk' /\ Grows /\ UNCHANGED <<occurrence, missed>>
  BY <1>2, DataIsOk DEF AlertRenewed, DataOk, Grows
<1>4. JobOk(answer, occurrence', missed', "prove", job[w])
  BY <1>1, <1>3 DEF JobOk, Busy, Seen
<1>5. Moves(w, "prove", job[w])
  BY <1>1, <1>4 DEF AlertRenewed, Moves, Goto, Labels, Busy
<1>. QED
  BY <1>3, <1>5, Moving

LEMMA EvidenceTypes ==
  ASSUME TypeInv, NEW w \in Workers, AppendEvidence(w)
  PROVE  TypeInv' /\ Grows
<1>1. /\ job[w].event \in Events /\ job[w].run \in Runs /\ pc[w] \in Busy
      /\ Seen(occurrence, missed, job[w].event, job[w].run)
  BY JobOf DEF AppendEvidence, JobOk, Busy
<1>2. proofs' \in [Pairs -> Nat] /\ faults' \in 0 .. MaxFaults
  <2>1. InHand(w) \in Pairs /\ proofs \in [Pairs -> Nat]
    BY <1>1 DEF InHand, Pairs, TypeInv, TypeOK
  <2>2. faults' \in 0 .. MaxFaults
    BY FaultTypes DEF AppendEvidence
  <2>. QED
    BY <2>1, <2>2 DEF AppendEvidence
<1>3. DataOk' /\ Grows /\ UNCHANGED <<occurrence, missed>>
  BY <1>2, DataIsOk DEF AppendEvidence, DataOk, Grows
<1>. QED
  BY <1>1, <1>3, Dismissing, Moving DEF AppendEvidence

LEMMA CrashTypes ==
  ASSUME TypeInv, NEW w \in Workers, Crash(w)
  PROVE  TypeInv' /\ Grows
<1>1. DataOk' /\ Grows
  BY DataIsOk, FaultTypes DEF Crash, DataOk, Grows, rows
<1>. QED
  BY <1>1, Moving, Returning DEF Crash

LEMMA NextTypes == TypeInv /\ [Next]_vars => TypeInv' /\ Grows
<1>. SUFFICES ASSUME TypeInv, [Next]_vars
              PROVE  TypeInv' /\ Grows
  OBVIOUS
<1>1. CASE UNCHANGED vars
  BY <1>1 DEF vars, rows, TypeInv, TypeOK, Jobs, Grows
<1>. QED
  BY <1>1, StartTypes, SnapshotTypes, TakeTypes, CompleteTypes, FindTypes, TouchTypes, CreateTypes,
     AlertNewTypes, CompareTypes, OccurrenceTypes, RenewedTypes, EvidenceTypes, CrashTypes DEF Next

LEMMA InitTypes == Init => TypeInv
<1>. SUFFICES ASSUME Init
              PROVE  TypeInv
  OBVIOUS
<1>1. TypeOK
  <2>1. job \in [Workers -> Job] /\ proofs \in [Pairs -> Nat] /\ faults \in 0 .. MaxFaults
    BY NoJobIsJob, FaultsAssumption DEF Init
  <2>. QED
    BY <2>1 DEF Init, TypeOK
<1>2. Jobs
  BY NoJobOk DEF Init, Jobs
<1>. QED
  BY <1>1, <1>2 DEF TypeInv

LEMMA TypeInvariance == Spec => []TypeInv
BY InitTypes, NextTypes, PTL DEF Spec

(* Every variable keeps its type: in particular a run has one occurrence of *)
(* a note at most, however executions overlap.                              *)
THEOREM TypesAreKept == Spec => []TypeOK
<1>1. TypeInv => TypeOK
  BY DEF TypeInv
<1>. QED
  BY <1>1, TypeInvariance, PTL


-----------------------------------------------------------------------------
(* Every step is a step of EvidenceRecord or leaves its variables alone     *)

LEMMA RecordStays ==
  ASSUME UNCHANGED <<answer, occurrence, missed, alerted, renewed, completed>>
  PROVE  UNCHANGED Record!vars
BY DEF Record!vars, Observed

LEMMA SeenIsRecorded ==
  ASSUME NEW e, NEW r, Seen(occurrence, missed, e, r)
  PROVE  <<e, r>> \in Observed \cup missed
BY DEF Seen, Stands, Observed

LEMMA CompleteRefines ==
  ASSUME TypeInv, NEW w \in Workers, Complete(w)
  PROVE  [Record!Next]_Record!vars
<1>. DEFINE r == job[w].run
<1>1. /\ r \in Runs /\ job[w].todo = {} /\ job[w].event = Nothing
      /\ JobOk(answer, occurrence, missed, "next", job[w])
  BY JobOf DEF Complete, JobOk
<1>2. \A e \in Events : answer[r][e] # NotCited => <<e, r>> \in Observed \cup missed
  BY <1>1, SeenIsRecorded, NamesAssumption DEF JobOk
<1>3. UNCHANGED <<answer, Observed, missed, alerted, renewed>>
  BY DEF Complete, Observed
<1>4. CASE completed' = completed \cup {r}
  BY <1>1, <1>2, <1>3, <1>4 DEF Record!Next, Record!Complete, Record!Cites
<1>5. CASE UNCHANGED completed
  BY <1>3, <1>5 DEF Record!vars
<1>. QED
  BY <1>4, <1>5 DEF Complete

LEMMA CreateRefines ==
  ASSUME TypeInv, NEW w \in Workers, Create(w)
  PROVE  [Record!Next]_Record!vars
<1>. DEFINE e == job[w].event
            r == job[w].run
<1>1. e \in Events /\ r \in Runs /\ answer[r][e] # NotCited
  BY JobOf DEF Create, JobOk, Busy
<1>2. UNCHANGED <<answer, Observed, alerted, renewed, completed>>
  BY DEF Create, Observed
<1>3. CASE UNCHANGED missed
  BY <1>2, <1>3 DEF Record!vars
<1>4. CASE missed' = missed \cup {<<e, r>>}
  BY <1>1, <1>2, <1>4 DEF Record!Next, Record!Miss, Record!Cites
<1>. QED
  BY <1>3, <1>4 DEF Create, InHand

LEMMA AlertNewRefines ==
  ASSUME TypeInv, NEW w \in Workers, AlertNew(w)
  PROVE  [Record!Next]_Record!vars
<1>. DEFINE e == job[w].event
            r == job[w].run
<1>1. e \in Events /\ r \in Runs /\ answer[r][e] # NotCited
  BY JobOf DEF AlertNew, JobOk, Busy
<1>2. UNCHANGED <<answer, Observed, missed, renewed, completed>>
  BY DEF AlertNew, Observed
<1>3. CASE alerted' = alerted
  BY <1>2, <1>3 DEF Record!vars
<1>4. CASE e \notin alerted /\ alerted' = alerted \cup {e}
  BY <1>1, <1>2, <1>4 DEF Record!Next, Record!AlertNew, Record!Cites
<1>. QED
  BY <1>3, <1>4 DEF AlertNew

LEMMA OccurrenceRefines ==
  ASSUME TypeInv, NEW w \in Workers, AppendOccurrence(w)
  PROVE  [Record!Next]_Record!vars
<1>. DEFINE e == job[w].event
            r == job[w].run
            row == [event |-> e, run |-> r, at |-> job[w].now, material |-> job[w].material]
<1>1. e \in Events /\ r \in Runs /\ answer[r][e] # NotCited
  BY JobOf DEF AppendOccurrence, JobOk, Busy
<1>2. UNCHANGED <<answer, alerted, renewed, completed>>
  BY DEF AppendOccurrence
<1>3. ASSUME occurrence' = occurrence \cup {row}, UNCHANGED missed
      PROVE  [Record!Next]_Record!vars
  <2>1. row.event = e /\ row.run = r
    OBVIOUS
  <2>. HIDE DEF row
  <2>2. Observed' = Observed \cup {<<e, r>>}
    BY <1>3, <2>1 DEF Observed
  <2>. QED
    BY <1>1, <1>2, <1>3, <2>2 DEF Record!Next, Record!Observe, Record!Cites
<1>4. ASSUME UNCHANGED occurrence, missed' = missed \cup {<<e, r>>}
      PROVE  [Record!Next]_Record!vars
  <2>1. Observed' = Observed
    BY <1>4 DEF Observed
  <2>. QED
    BY <1>1, <1>2, <1>4, <2>1 DEF Record!Next, Record!Miss, Record!Cites
<1>5. ASSUME UNCHANGED <<occurrence, missed>>
      PROVE  [Record!Next]_Record!vars
  BY <1>2, <1>5, RecordStays
<1>. QED
  BY <1>3, <1>4, <1>5 DEF AppendOccurrence, InHand

(* The alert is drawn from the row just inserted, which differs from an     *)
(* earlier observation of the same note.                                    *)
LEMMA RenewedRefines ==
  ASSUME TypeInv, NEW w \in Workers, AlertRenewed(w)
  PROVE  [Record!Next]_Record!vars
<1>. DEFINE e == job[w].event
            r == job[w].run
<1>1. /\ e \in Events /\ r \in Runs
      /\ Stands(occurrence, e, r)
      /\ \E o \in occurrence : o.event = e /\ answer[o.run][e] # answer[r][e]
  BY JobOf DEF AlertRenewed, JobOk, Busy
<1>2. <<e, r>> \in Observed
  BY <1>1 DEF Stands, Observed
<1>3. PICK o \in occurrence : o.event = e /\ answer[o.run][e] # answer[r][e]
  BY <1>1
<1>4. o.run \in Runs /\ <<e, o.run>> \in Observed
  BY <1>3 DEF TypeInv, TypeOK, Occurrence, Observed
<1>5. UNCHANGED <<answer, Observed, missed, alerted, completed>>
  BY DEF AlertRenewed, Observed
<1>6. CASE renewed' = renewed
  BY <1>5, <1>6 DEF Record!vars
<1>7. CASE <<e, r>> \notin renewed /\ renewed' = renewed \cup {<<e, r>>}
  BY <1>1, <1>2, <1>3, <1>4, <1>5, <1>7 DEF Record!Next, Record!AlertRenewed
<1>. QED
  BY <1>6, <1>7 DEF AlertRenewed, InHand

LEMMA StepRefines == TypeInv /\ [Next]_vars => [Record!Next]_Record!vars
<1>. SUFFICES ASSUME TypeInv, [Next]_vars
              PROVE  [Record!Next]_Record!vars
  OBVIOUS
<1>1. ASSUME UNCHANGED <<answer, occurrence, missed, alerted, renewed, completed>>
      PROVE  [Record!Next]_Record!vars
  BY <1>1, RecordStays
<1>2. CASE UNCHANGED vars
  BY <1>1, <1>2 DEF vars, rows
<1>3. ASSUME NEW w \in Workers, NEW r \in Runs, Start(w, r)
      PROVE  [Record!Next]_Record!vars
  BY <1>1, <1>3 DEF Start, rows
<1>4. ASSUME NEW w \in Workers, Snapshot(w)
      PROVE  [Record!Next]_Record!vars
  BY <1>1, <1>4 DEF Snapshot
<1>5. ASSUME NEW w \in Workers, NEW e \in Events, Take(w, e)
      PROVE  [Record!Next]_Record!vars
  BY <1>1, <1>5 DEF Take, rows
<1>6. ASSUME NEW w \in Workers, Find(w) \/ Touch(w) \/ Compare(w) \/ AppendEvidence(w) \/ Crash(w)
      PROVE  [Record!Next]_Record!vars
  BY <1>1, <1>6 DEF Find, Touch, Compare, AppendEvidence, Crash, rows
<1>. QED
  BY <1>2, <1>3, <1>4, <1>5, <1>6, CompleteRefines, CreateRefines, AlertNewRefines,
     OccurrenceRefines, RenewedRefines DEF Next

(* The ledger implements EvidenceRecord: nothing is recorded that no answer *)
(* says, an alert is drawn once and only from what was observed, and a run  *)
(* completes only when each note it cites was observed or has failed.       *)
THEOREM LedgerImplementsRecord == Spec => ImplementsEvidenceRecord
<1>1. Init => Record!Init
  BY DEF Init, Record!Init, Observed
<1>. QED
  BY <1>1, StepRefines, TypeInvariance, PTL DEF Spec, ImplementsEvidenceRecord, Record!Spec


-----------------------------------------------------------------------------
(* One step of execution w                                                  *)

Steps(w) ==
  \/ \E r \in Runs : Start(w, r)
  \/ Snapshot(w) \/ Complete(w) \/ \E e \in Events : Take(w, e)
  \/ Find(w) \/ Touch(w) \/ Create(w) \/ AlertNew(w)
  \/ Compare(w) \/ AppendOccurrence(w) \/ AlertRenewed(w)
  \/ AppendEvidence(w) \/ Crash(w)

LEMMA OthersStay ==
  ASSUME TypeInv, NEW w \in Workers, Steps(w), NEW v \in Workers, v # w
  PROVE  pc'[v] = pc[v] /\ job'[v] = job[v]
<1>. USE DEF Goto, Return, Dismiss
<1>1. pc \in [Workers -> Labels] /\ job \in [Workers -> Job]
  BY JobOf
<1>2. ASSUME NEW r \in Runs, Start(w, r) PROVE pc'[v] = pc[v] /\ job'[v] = job[v]
  BY <1>1, <1>2 DEF Start
<1>3. ASSUME NEW e \in Events, Take(w, e) PROVE pc'[v] = pc[v] /\ job'[v] = job[v]
  BY <1>1, <1>3 DEF Take
<1>4. CASE Snapshot(w) \/ Complete(w) \/ Find(w) \/ Touch(w)
  BY <1>1, <1>4 DEF Snapshot, Complete, Find, Touch
<1>5. CASE Create(w) \/ AlertNew(w) \/ Compare(w)
  BY <1>1, <1>5 DEF Create, RefusedIsFound, AlertNew, Compare
<1>6. CASE AppendOccurrence(w) \/ AlertRenewed(w) \/ AppendEvidence(w) \/ Crash(w)
  BY <1>1, <1>6 DEF AppendOccurrence, AlertRenewed, AppendEvidence, Crash
<1>. QED
  BY <1>2, <1>3, <1>4, <1>5, <1>6 DEF Steps

(* Which note w has in hand after its step, and where it is.                *)
LEMMA Progress ==
  ASSUME TypeInv, NEW w \in Workers, Steps(w)
  PROVE  /\ pc'[w] = "touch" => Find(w) /\ count[job[w].event] > 0
         /\ pc'[w] = "alert" => Create(w) /\ count[job[w].event] = 0 /\ job'[w].created
                                /\ count' = [count EXCEPT ![job[w].event] = 1]
         /\ pc'[w] = "compare" => Touch(w) \/ AlertNew(w) \/ (Create(w) /\ count[job[w].event] > 0)
         /\ pc'[w] = "occur" => Compare(w)
         /\ pc'[w] = "renew" => AppendOccurrence(w) /\ ~Stored(w) /\ InHand(w) \in Observed'
         /\ pc'[w] = "prove" => AppendOccurrence(w) \/ AlertRenewed(w)
         /\ pc'[w] \in {"touch", "alert", "compare", "occur", "renew", "prove"} =>
              job'[w].event = job[w].event /\ job'[w].run = job[w].run
         /\ pc'[w] \in {"compare", "occur"} => job'[w].created = job[w].created
<1>. USE DEF Goto, Return, Dismiss
<1>. DEFINE Goal ==
         /\ pc'[w] = "touch" => Find(w) /\ count[job[w].event] > 0
         /\ pc'[w] = "alert" => Create(w) /\ count[job[w].event] = 0 /\ job'[w].created
                                /\ count' = [count EXCEPT ![job[w].event] = 1]
         /\ pc'[w] = "compare" => Touch(w) \/ AlertNew(w) \/ (Create(w) /\ count[job[w].event] > 0)
         /\ pc'[w] = "occur" => Compare(w)
         /\ pc'[w] = "renew" => AppendOccurrence(w) /\ ~Stored(w) /\ InHand(w) \in Observed'
         /\ pc'[w] = "prove" => AppendOccurrence(w) \/ AlertRenewed(w)
         /\ pc'[w] \in {"touch", "alert", "compare", "occur", "renew", "prove"} =>
              job'[w].event = job[w].event /\ job'[w].run = job[w].run
         /\ pc'[w] \in {"compare", "occur"} => job'[w].created = job[w].created
<1>1. pc \in [Workers -> Labels] /\ job \in [Workers -> Job] /\ job[w] \in Job
  BY JobOf
<1>2. ASSUME pc'[w] \in {"idle", "snapshot", "next", "find", "create"} PROVE Goal
  BY <1>2
<1>. HIDE DEF Goal
<1>3. ASSUME NEW r \in Runs, Start(w, r) PROVE Goal
  BY <1>1, <1>2, <1>3 DEF Start
<1>4. ASSUME NEW e \in Events, Take(w, e) PROVE Goal
  BY <1>1, <1>2, <1>4 DEF Take
<1>5. CASE Snapshot(w) \/ Complete(w) \/ AppendEvidence(w) \/ Crash(w)
  BY <1>1, <1>2, <1>5 DEF Snapshot, Complete, AppendEvidence, Crash
<1>6. CASE Find(w)
  <2>1. job'[w].event = job[w].event /\ job'[w].run = job[w].run /\ pc'[w] = IF count[job[w].event] > 0 THEN "touch" ELSE "create"
    BY <1>1, <1>6 DEF Find, Job
  <2>. QED
    BY <1>6, <2>1 DEF Goal
<1>7. CASE Touch(w) \/ AlertNew(w)
  <2>1. pc'[w] = "compare" /\ job' = job
    BY <1>1, <1>7 DEF Touch, AlertNew
  <2>. QED
    BY <1>7, <2>1 DEF Goal
<1>8. CASE Create(w)
  <2>1. CASE Goto(w, "alert") /\ count[job[w].event] = 0 /\ job' = [job EXCEPT ![w].created = TRUE]
             /\ count' = [count EXCEPT ![job[w].event] = 1]
    <3>1. pc'[w] = "alert" /\ job'[w].created /\ job'[w].event = job[w].event /\ job'[w].run = job[w].run
      BY <1>1, <2>1 DEF Job
    <3>. QED
      BY <1>8, <2>1, <3>1 DEF Goal
  <2>2. CASE count[job[w].event] > 0 /\ Goto(w, "compare") /\ job' = job
    <3>1. pc'[w] = "compare"
      BY <1>1, <2>2
    <3>. QED
      BY <1>8, <2>2, <3>1 DEF Goal
  <2>3. CASE pc' = [pc EXCEPT ![w] = "next"]
    BY <1>1, <1>2, <2>3
  <2>. QED
    BY <1>8, <2>1, <2>2, <2>3 DEF Create, RefusedIsFound
<1>9. CASE Compare(w)
  <2>1. pc'[w] = "occur" /\ job'[w].event = job[w].event /\ job'[w].run = job[w].run
        /\ job'[w].created = job[w].created
    BY <1>1, <1>9 DEF Compare, Job
  <2>. QED
    BY <1>9, <2>1 DEF Goal
<1>10. CASE AppendOccurrence(w)
  <2>. DEFINE row == [event |-> job[w].event, run |-> job[w].run, at |-> job[w].now,
                      material |-> job[w].material]
  <2>1. CASE ~Stored(w) /\ occurrence' = occurrence \cup {row} /\ job' = job
             /\ (Goto(w, "renew") \/ Goto(w, "prove"))
    <3>1. row \in occurrence' /\ row.event = job[w].event /\ row.run = job[w].run
      BY <2>1
    <3>. HIDE DEF row
    <3>2. InHand(w) \in Observed'
      BY <3>1 DEF InHand, Observed
    <3>3. pc'[w] = "renew" \/ pc'[w] = "prove"
      BY <1>1, <2>1
    <3>. QED
      BY <1>10, <2>1, <3>2, <3>3 DEF Goal
  <2>2. CASE pc' = [pc EXCEPT ![w] = "next"]
    BY <1>1, <1>2, <2>2
  <2>3. CASE Goto(w, "prove") /\ job' = job
    <3>1. pc'[w] = "prove"
      BY <1>1, <2>3
    <3>. QED
      BY <1>10, <2>3, <3>1 DEF Goal
  <2>. QED
    BY <1>10, <2>1, <2>2, <2>3 DEF AppendOccurrence
<1>11. CASE AlertRenewed(w)
  <2>1. pc'[w] = "prove" /\ job' = job
    BY <1>1, <1>11 DEF AlertRenewed
  <2>. QED
    BY <1>11, <2>1 DEF Goal
<1>12. CASE \/ \E r \in Runs : Start(w, r)
            \/ \E e \in Events : Take(w, e)
  BY <1>3, <1>4, <1>12 DEF Goal
<1>. QED
  BY <1>5, <1>6, <1>7, <1>8, <1>9, <1>10, <1>11, <1>12 DEF Steps

(* An event that is read, alerted or observed has a row.                    *)
HasCount ==
  /\ \A w \in Workers : pc[w] \in {"touch", "alert", "compare", "occur"} => count[job[w].event] > 0
  /\ \A o \in occurrence : count[o.event] > 0

LEMMA CountStaysPositive ==
  ASSUME TypeInv, NEW w \in Workers, Steps(w), NEW e \in Events, count[e] > 0
  PROVE  count'[e] > 0
<1>1. count \in [Events -> Nat] /\ job[w].read \in Nat
  BY JobOf DEF TypeInv, TypeOK, Job
<1>2. CASE Touch(w)
  BY <1>1, <1>2 DEF Touch, Counted
<1>3. CASE Create(w)
  BY <1>1, <1>3 DEF Create
<1>4. CASE UNCHANGED count
  BY <1>4
<1>. QED
  BY <1>2, <1>3, <1>4 DEF Steps, Start, Snapshot, Complete, Take, Find, AlertNew, Compare,
     AppendOccurrence, AlertRenewed, AppendEvidence, Crash, rows

LEMMA OccurrencesGrow ==
  ASSUME TypeInv, NEW w \in Workers, Steps(w), NEW o \in occurrence', o \notin occurrence
  PROVE  AppendOccurrence(w) /\ ~Stored(w) /\ o.event = job[w].event /\ o.run = job[w].run
<1>1. occurrence' # occurrence
  OBVIOUS
<1>2. AppendOccurrence(w)
  BY <1>1 DEF Steps, Start, Snapshot, Complete, Take, Find, Touch, Create, AlertNew, Compare,
     AlertRenewed, AppendEvidence, Crash, rows
<1>. QED
  BY <1>2 DEF AppendOccurrence

LEMMA HasCountStep ==
  ASSUME TypeInv, TypeInv', HasCount, NEW w \in Workers, Steps(w)
  PROVE  HasCount'
<1>1. ASSUME NEW v \in Workers, pc'[v] \in {"touch", "alert", "compare", "occur"}
      PROVE  count'[job'[v].event] > 0
  <2>1. job'[v].event \in Events
    <3>1. JobOk(answer', occurrence', missed', pc'[v], job'[v])
      BY DEF TypeInv, Jobs
    <3>. QED
      BY <1>1, <3>1 DEF JobOk, Busy
  <2>2. CASE v # w
    <3>1. count[job'[v].event] > 0
      BY <1>1, <2>2, OthersStay DEF HasCount
    <3>. QED
      BY <2>1, <3>1, CountStaysPositive
  <2>3. CASE v = w
    <3>0. job'[w].event = job[w].event
      BY <1>1, <2>3, Progress
    <3>1. CASE pc'[w] = "alert"
      BY <2>1, <2>3, <3>0, <3>1, Progress DEF TypeInv, TypeOK
    <3>2. CASE pc'[w] # "alert"
      <4>1. count[job[w].event] > 0
        BY <1>1, <2>3, <3>2, Progress DEF HasCount, Touch, AlertNew, Compare
      <4>. QED
        BY <2>1, <2>3, <3>0, <4>1, CountStaysPositive
    <3>. QED
      BY <3>1, <3>2
  <2>. QED
    BY <2>2, <2>3
<1>2. ASSUME NEW o \in occurrence'
      PROVE  count'[o.event] > 0
  <2>1. o.event \in Events
    BY DEF TypeInv, TypeOK, Occurrence
  <2>2. count[o.event] > 0
    BY OccurrencesGrow DEF HasCount, AppendOccurrence
  <2>. QED
    BY <2>1, <2>2, CountStaysPositive
<1>. QED
  BY <1>1, <1>2 DEF HasCount

-----------------------------------------------------------------------------
(* Executions that do not overlap                                           *)

(* Who is about to store evidence has stored none yet.  Who created the     *)
(* event has no earlier occurrence of it to be refused by.                  *)
Alone ==
  /\ \A v, w \in Workers : pc[v] # "idle" /\ pc[w] # "idle" => v = w
  /\ \A w \in Workers : job[w].created /\ pc[w] \in {"alert", "compare", "occur"} =>
       \A o \in occurrence : o.event # job[w].event
  /\ \A w \in Workers : pc[w] \in {"renew", "prove"} =>
       InHand(w) \in missed \/ proofs[InHand(w)] = 0
  /\ \A p \in Pairs \ missed : proofs[p] > 0 => p \in Observed
  /\ \A p \in Pairs \ missed : proofs[p] <= 1

NotOverlapped == ~overlapped => Alone

LEMMA OverlapStays ==
  ASSUME NEW w \in Workers, Steps(w), ~overlapped', TypeInv
  PROVE  ~overlapped /\ (\A r \in Runs : Start(w, r) => \A v \in Workers : pc[v] = "idle")
<1>1. ASSUME NEW r \in Runs, Start(w, r) PROVE ~overlapped /\ \A v \in Workers : pc[v] = "idle"
  BY <1>1 DEF Start
<1>2. CASE UNCHANGED overlapped
  BY <1>1, <1>2
<1>. QED
  BY <1>1, <1>2 DEF Steps, Snapshot, Complete, Take, Find, Touch, Create, AlertNew, Compare,
     AppendOccurrence, AlertRenewed, AppendEvidence, Crash

LEMMA ProofsStored ==
  ASSUME TypeInv, NEW w \in Workers, Steps(w)
  PROVE  \/ UNCHANGED proofs
         \/ /\ pc[w] = "prove" /\ InHand(w) \in Pairs /\ UNCHANGED <<missed, occurrence>>
            /\ proofs' = [proofs EXCEPT ![InHand(w)] = @ + 1]
            /\ pc'[w] = "next"
<1>1. CASE AppendEvidence(w)
  <2>1. InHand(w) \in Pairs
    BY <1>1, JobOf DEF AppendEvidence, InHand, Pairs, JobOk, Busy
  <2>. QED
    BY <1>1, <2>1, JobOf DEF AppendEvidence, Dismiss, Goto
<1>. QED
  BY <1>1 DEF Steps, Start, Snapshot, Complete, Take, Find, Touch, Create, AlertNew, Compare,
     AppendOccurrence, AlertRenewed, Crash, rows

LEMMA AloneStep ==
  ASSUME TypeInv, TypeInv', HasCount, Alone, NEW w \in Workers, Steps(w), Grows,
         \A r \in Runs : Start(w, r) => \A v \in Workers : pc[v] = "idle"
  PROVE  Alone'
<1>1. pc[w] # "idle" \/ \A v \in Workers : pc[v] = "idle"
  BY DEF Steps, Snapshot, Complete, Take, Find, Touch, Create, AlertNew, Compare,
     AppendOccurrence, AlertRenewed, AppendEvidence, Crash
<1>2. \A v \in Workers : v # w => pc'[v] = "idle"
  BY <1>1, OthersStay DEF Alone
<1>3. \A v, u \in Workers : pc'[v] # "idle" /\ pc'[u] # "idle" => v = u
  BY <1>2
<1>4. ASSUME NEW v \in Workers, job'[v].created, pc'[v] \in {"alert", "compare", "occur"},
             NEW o \in occurrence'
      PROVE  o.event # job'[v].event
  <2>1. v = w /\ job'[w].event = job[w].event
    BY <1>2, <1>4, Progress
  <2>2. o \in occurrence
    <3>1. ~AppendOccurrence(w)
      BY <1>4, <2>1, Progress DEF Create, Touch, AlertNew, Compare, AppendOccurrence
    <3>. QED
      BY <3>1, OccurrencesGrow
  <2>3. CASE pc'[w] = "alert"
    BY <2>1, <2>2, <2>3, Progress DEF HasCount
  <2>4. CASE pc'[w] \in {"compare", "occur"}
    <3>1. job[w].created
      BY <1>4, <2>1, <2>4, Progress
    <3>2. pc[w] \in {"touch", "create", "alert", "compare"}
      BY <2>4, Progress DEF Touch, AlertNew, Create, Compare
    <3>3. pc[w] \in {"alert", "compare"}
      BY <3>1, <3>2, JobOf DEF JobOk
    <3>. QED
      BY <2>1, <2>2, <3>1, <3>3 DEF Alone
  <2>. QED
    BY <1>4, <2>1, <2>3, <2>4
<1>5. ASSUME NEW v \in Workers, pc'[v] \in {"renew", "prove"}, InHand(v)' \notin missed'
      PROVE  proofs'[InHand(v)'] = 0
  <2>1. v = w /\ InHand(w)' = InHand(w) /\ InHand(w) \notin missed
    BY <1>2, <1>5, Progress DEF InHand, Grows
  <2>2. AppendOccurrence(w) \/ AlertRenewed(w)
    BY <1>5, <2>1, Progress
  <2>3. UNCHANGED proofs
    BY <2>2 DEF AppendOccurrence, AlertRenewed
  <2>4. CASE AlertRenewed(w)
    BY <2>1, <2>3, <2>4 DEF Alone, AlertRenewed
  <2>5. CASE AppendOccurrence(w)
    <3>1. InHand(w) \in Pairs
      BY <2>5, JobOf DEF AppendOccurrence, InHand, Pairs, JobOk, Busy
    <3>2. ~Stored(w)
      <4>1. ASSUME Stored(w) PROVE FALSE
        <5>1. job[w].created
          <6>1. job[w].created \/ pc'[w] = "next"
            BY <2>5, <4>1, JobOf DEF AppendOccurrence, ProveIfRefused, Dismiss, Goto
          <6>. QED
            BY <1>5, <2>1, <6>1
        <5>2. \A o \in occurrence : o.event # job[w].event
          BY <2>5, <5>1 DEF Alone, AppendOccurrence
        <5>. QED
          BY <4>1, <5>2, StoredStands DEF Stands
      <4>. QED
        BY <4>1
    <3>3. ~(proofs[InHand(w)] > 0)
      BY <2>1, <3>1, <3>2 DEF Alone, Stored
    <3>. QED
      BY <2>1, <2>3, <3>1, <3>3 DEF TypeInv, TypeOK
  <2>. QED
    BY <2>2, <2>4, <2>5
<1>6. ASSUME NEW p \in Pairs, p \notin missed'
      PROVE  (proofs'[p] > 0 => p \in Observed') /\ proofs'[p] <= 1
  <2>1. p \notin missed /\ Observed \subseteq Observed'
    BY <1>6 DEF Grows, Observed
  <2>2. CASE UNCHANGED proofs
    BY <2>1, <2>2 DEF Alone
  <2>3. CASE /\ pc[w] = "prove" /\ InHand(w) \in Pairs
             /\ proofs' = [proofs EXCEPT ![InHand(w)] = @ + 1]
    <3>1. CASE p # InHand(w)
      BY <2>1, <2>3, <3>1 DEF Alone, TypeInv, TypeOK
    <3>2. CASE p = InHand(w)
      <4>1. proofs[p] = 0
        BY <2>1, <2>3, <3>2 DEF Alone
      <4>2. p \in Observed
        BY <2>1, <2>3, <3>2, JobOf, SeenIsRecorded DEF JobOk, InHand
      <4>. QED
        BY <2>1, <2>3, <3>2, <4>1, <4>2 DEF TypeInv, TypeOK
    <3>. QED
      BY <3>1, <3>2
  <2>. QED
    BY <2>2, <2>3, ProofsStored
<1>. QED
  BY <1>3, <1>4, <1>5, <1>6 DEF Alone

LEMMA AloneInvariance == Spec => [](TypeInv /\ HasCount /\ NotOverlapped)
<1>. DEFINE Inv == TypeInv /\ HasCount /\ NotOverlapped
<1>1. Init => Inv
  <2>. SUFFICES ASSUME Init PROVE HasCount /\ Alone
    BY InitTypes DEF NotOverlapped
  <2>. QED
    BY DEF Init, HasCount, Alone, NoJob
<1>2. Inv /\ [Next]_vars => Inv'
  <2>. SUFFICES ASSUME Inv, [Next]_vars PROVE Inv'
    OBVIOUS
  <2>1. TypeInv' /\ Grows
    BY NextTypes
  <2>2. CASE UNCHANGED vars
    BY <2>1, <2>2 DEF vars, rows, HasCount, NotOverlapped, Alone, InHand, Observed
  <2>3. ASSUME NEW w \in Workers, Steps(w) PROVE Inv'
    <3>1. HasCount'
      BY <2>1, <2>3, HasCountStep
    <3>2. NotOverlapped'
      BY <2>1, <2>3, OverlapStays, AloneStep DEF NotOverlapped
    <3>. QED
      BY <2>1, <3>1, <3>2
  <2>. QED
    BY <2>2, <2>3 DEF Next, Steps
<1>. QED
  BY <1>1, <1>2, PTL DEF Spec

(* As long as executions have not overlapped, the evidence of an            *)
(* observation is stored at most once, whatever crashes in between, unless  *)
(* the occurrence failed to be stored.                                      *)
THEOREM EvidenceIsStoredOnce == Spec => []EvidenceOnce
<1>1. NotOverlapped => EvidenceOnce
  BY DEF NotOverlapped, Alone, EvidenceOnce
<1>. QED
  BY <1>1, AloneInvariance, PTL

-----------------------------------------------------------------------------
(* The counter and the rows it counts                                       *)

(* Occurrences of e whose run has completed: it is never executed again.    *)
Closed(e) == {o \in OccurrencesOf(e) : o.run \in completed}

(* The execution has yet to count note e; it has counted it and has yet to  *)
(* store the occurrence.                                                    *)
Behind(label, j, e) ==
  \/ label \in {"idle", "snapshot"}
  \/ e \in j.todo
  \/ label \in {"find", "touch", "create"} /\ j.event = e
Ahead(label, j, e) == label \in {"alert", "compare", "occur"} /\ j.event = e

(* How far the counter n of a note may be off the number of its             *)
(* occurrences, and of those of completed runs, after f faults.  One more   *)
(* for the run being executed: its occurrence becomes one of a completed    *)
(* run only when it ends well.                                              *)
Balance(label, j, e, seen, n, all, closed, f) ==
  /\ all <= n + f
  /\ n <= closed + f + 1
  /\ Ahead(label, j, e) /\ ~seen => all + 1 <= n + f
  /\ Behind(label, j, e) => n <= closed + f
  /\ ~Ahead(label, j, e) /\ ~seen => n <= closed + f

(* Note e as the execution of w has left it.                                *)
Balanced(w, e) ==
  Balance(pc[w], job[w], e, <<e, job[w].run>> \in Observed, count[e],
          Cardinality(OccurrencesOf(e)), Cardinality(Closed(e)), faults)

(* What w has read of the note in hand is still so, and it has the note in  *)
(* hand only once.                                                          *)
Knows(w) ==
  /\ pc[w] = "touch" => job[w].read = count[job[w].event]
  /\ pc[w] = "create" => count[job[w].event] = 0
  /\ job[w].event \notin job[w].todo
  /\ pc[w] # "idle" => job[w].run \notin completed

Idle(v) == pc[v] = "idle"

Books ==
  /\ IsFiniteSet(occurrence)
  /\ ~overlapped =>
       /\ Quiet => \A e \in Events :
            /\ Cardinality(OccurrencesOf(e)) <= count[e] + faults
            /\ count[e] <= Cardinality(Closed(e)) + faults
       /\ \A w \in Workers : ~Idle(w) => Knows(w) /\ \A e \in Events : Balanced(w, e)


LEMMA Numbers ==
  ASSUME IsFiniteSet(occurrence), NEW e
  PROVE  /\ IsFiniteSet(OccurrencesOf(e)) /\ Cardinality(OccurrencesOf(e)) \in Nat
         /\ IsFiniteSet(Closed(e)) /\ Cardinality(Closed(e)) \in Nat
         /\ Cardinality(Closed(e)) <= Cardinality(OccurrencesOf(e))
<1>1. OccurrencesOf(e) \in SUBSET occurrence /\ Closed(e) \in SUBSET OccurrencesOf(e)
  BY DEF OccurrencesOf, Closed
<1>2. IsFiniteSet(OccurrencesOf(e))
  BY <1>1, FS_Subset
<1>3. IsFiniteSet(Closed(e)) /\ Cardinality(Closed(e)) <= Cardinality(OccurrencesOf(e))
  BY <1>1, <1>2, FS_Subset
<1>. QED
  BY <1>2, <1>3, FS_CardinalityType

(* A new occurrence of a run that has not completed.                        *)
LEMMA OneMore ==
  ASSUME IsFiniteSet(occurrence), NEW row, row \notin occurrence, row.run \notin completed,
         occurrence' = occurrence \cup {row}, UNCHANGED completed
  PROVE  /\ IsFiniteSet(occurrence')
         /\ Cardinality(OccurrencesOf(row.event)') = Cardinality(OccurrencesOf(row.event)) + 1
         /\ \A e : e # row.event => OccurrencesOf(e)' = OccurrencesOf(e)
         /\ \A e : Closed(e)' = Closed(e)
<1>1. IsFiniteSet(occurrence')
  BY FS_AddElement
<1>2. OccurrencesOf(row.event)' = OccurrencesOf(row.event) \cup {row} /\ row \notin OccurrencesOf(row.event)
  BY DEF OccurrencesOf
<1>3. Cardinality(OccurrencesOf(row.event)') = Cardinality(OccurrencesOf(row.event)) + 1
  BY <1>2, Numbers, FS_AddElement
<1>4. \A e : e # row.event => OccurrencesOf(e)' = OccurrencesOf(e)
  BY DEF OccurrencesOf
<1>5. \A e : Closed(e)' = Closed(e)
  BY DEF Closed, OccurrencesOf
<1>. QED
  BY <1>1, <1>3, <1>4, <1>5

(* A run completes: its occurrences are closed.                             *)
LEMMA RunCloses ==
  ASSUME IsFiniteSet(occurrence), NEW r, r \notin completed,
         completed' = completed \cup {r}, UNCHANGED occurrence, NEW e
  PROVE  /\ Cardinality(OccurrencesOf(e)') = Cardinality(OccurrencesOf(e))
         /\ Cardinality(Closed(e)) <= Cardinality(Closed(e)')
         /\ <<e, r>> \in Observed => Cardinality(Closed(e)) + 1 <= Cardinality(Closed(e)')
<1>1. OccurrencesOf(e)' = OccurrencesOf(e)
  BY DEF OccurrencesOf
<1>2. Closed(e) \in SUBSET (Closed(e)')
  BY DEF Closed, OccurrencesOf
<1>3. IsFiniteSet(Closed(e)') /\ IsFiniteSet(Closed(e))
  <2>1. IsFiniteSet(occurrence')
    OBVIOUS
  <2>2. Closed(e)' \in SUBSET occurrence
    BY DEF Closed, OccurrencesOf
  <2>. QED
    BY <2>2, Numbers, FS_Subset
<1>4. Cardinality(Closed(e)) <= Cardinality(Closed(e)')
  BY <1>2, <1>3, FS_Subset
<1>5. ASSUME <<e, r>> \in Observed PROVE Cardinality(Closed(e)) + 1 <= Cardinality(Closed(e)')
  <2>1. PICK o \in occurrence : o.event = e /\ o.run = r
    BY <1>5 DEF Observed
  <2>2. o \notin Closed(e) /\ Closed(e) \cup {o} \in SUBSET (Closed(e)')
    BY <2>1, <1>2 DEF Closed, OccurrencesOf
  <2>3. Cardinality(Closed(e) \cup {o}) = Cardinality(Closed(e)) + 1
    BY <1>3, <2>2, FS_AddElement
  <2>. QED
    BY <1>3, <2>2, <2>3, FS_Subset
<1>. QED
  BY <1>1, <1>4, <1>5

LEMMA NumberTypes ==
  ASSUME TypeInv, NEW e \in Events
  PROVE  count[e] \in Nat /\ faults \in Nat
BY FaultsAssumption DEF TypeInv, TypeOK

(* A step that only moves w on: it is behind only where it was, and ahead   *)
(* where it was.                                                            *)
LEMMA Unmoved ==
  ASSUME TypeInv, NEW w \in Workers, NEW e \in Events, Balanced(w, e),
         UNCHANGED <<occurrence, completed, faults>>, count'[e] = count[e],
         job'[w].run = job[w].run,
         Behind(pc'[w], job'[w], e) => Behind(pc[w], job[w], e),
         Ahead(pc'[w], job'[w], e) <=> Ahead(pc[w], job[w], e)
  PROVE  Balanced(w, e)'
<1>1. OccurrencesOf(e)' = OccurrencesOf(e) /\ Closed(e)' = Closed(e) /\ Observed' = Observed
  BY DEF OccurrencesOf, Closed, Observed
<1>. QED
  BY <1>1 DEF Balanced, Balance

(* A fault allows the counter to be off by one more.                        *)
LEMMA Forgiven ==
  ASSUME TypeInv, IsFiniteSet(occurrence), NEW w \in Workers, NEW e \in Events, Balanced(w, e),
         UNCHANGED <<count, occurrence, completed>>, faults' = faults + 1
  PROVE  /\ Balanced(w, e)'
         /\ Cardinality(OccurrencesOf(e)') <= count'[e] + faults'
         /\ count'[e] <= Cardinality(Closed(e)') + faults'
<1>1. OccurrencesOf(e)' = OccurrencesOf(e) /\ Closed(e)' = Closed(e) /\ Observed' = Observed
  BY DEF OccurrencesOf, Closed, Observed
<1>2. /\ Cardinality(OccurrencesOf(e)) <= count[e] + faults
      /\ count[e] <= Cardinality(Closed(e)) + faults + 1
  BY DEF Balanced, Balance
<1>. DEFINE all == Cardinality(OccurrencesOf(e))
            closed == Cardinality(Closed(e))
            n == count[e]
<1>3. all \in Nat /\ closed \in Nat /\ n \in Nat /\ faults \in Nat
  BY Numbers, NumberTypes
<1>. HIDE DEF all, closed, n
<1>4. all + 1 <= n + (faults + 1) /\ all <= n + (faults + 1) /\ n <= closed + (faults + 1)
      /\ n <= closed + (faults + 1) + 1
  BY <1>2, <1>3 DEF all, closed, n
<1>. QED
  BY <1>1, <1>4 DEF Balanced, Balance, all, closed, n

(* The ways a step of w, alone at work, can go on.                          *)
LEMMA LocalSteps ==
  ASSUME TypeInv, NEW w \in Workers, Steps(w)
  PROVE  /\ job'[w].run = job[w].run \/ pc'[w] = "idle" \/ \E r \in Runs : Start(w, r)
         /\ \A e \in job'[w].todo : e \in job[w].todo \/ Snapshot(w)
         /\ \A e \in Events : pc'[w] = "find" /\ job'[w].event = e =>
              e \in job[w].todo /\ e \notin job'[w].todo
         /\ pc'[w] \notin {"snapshot", "next", "find"} => job'[w].todo = job[w].todo \/ job'[w].todo = {}
         /\ pc'[w] = "create" => Find(w) /\ count[job[w].event] = 0 /\ job'[w].event = job[w].event
         /\ pc'[w] = "touch" => job'[w].read = count[job[w].event]
         /\ pc'[w] \in {"idle", "snapshot", "next"} => job'[w].event = Nothing
<1>. USE DEF Goto, Return, Dismiss
<1>. DEFINE Goal ==
         /\ job'[w].run = job[w].run \/ pc'[w] = "idle" \/ \E r \in Runs : Start(w, r)
         /\ \A e \in job'[w].todo : e \in job[w].todo \/ Snapshot(w)
         /\ \A e \in Events : pc'[w] = "find" /\ job'[w].event = e =>
              e \in job[w].todo /\ e \notin job'[w].todo
         /\ pc'[w] \notin {"snapshot", "next", "find"} => job'[w].todo = job[w].todo \/ job'[w].todo = {}
         /\ pc'[w] = "create" => Find(w) /\ count[job[w].event] = 0 /\ job'[w].event = job[w].event
         /\ pc'[w] = "touch" => job'[w].read = count[job[w].event]
         /\ pc'[w] \in {"idle", "snapshot", "next"} => job'[w].event = Nothing
<1>1. /\ pc \in [Workers -> Labels] /\ job \in [Workers -> Job] /\ job[w] \in Job
      /\ count \in [Events -> Nat] /\ JobOk(answer, occurrence, missed, pc[w], job[w])
  BY JobOf DEF TypeInv, TypeOK
<1>2. ASSUME Return(w) PROVE Goal
  <2>1. pc'[w] = "idle" /\ job'[w].todo = {} /\ job'[w].event = Nothing
    BY <1>1, <1>2 DEF NoJob
  <2>. QED
    BY <2>1
<1>3. ASSUME Dismiss(w) PROVE Goal
  <2>1. pc'[w] = "next" /\ job'[w].todo = job[w].todo /\ job'[w].event = Nothing /\ job'[w].run = job[w].run
    BY <1>1, <1>3 DEF Job
  <2>. QED
    BY <2>1
<1>4. ASSUME NEW label \in {"alert", "compare", "occur", "renew", "prove"}, Goto(w, label),
             job'[w].todo = job[w].todo, job'[w].run = job[w].run
      PROVE  Goal
  <2>1. pc'[w] = label
    BY <1>1, <1>4
  <2>. QED
    BY <1>4, <2>1
<1>5. ASSUME NEW r \in Runs, Start(w, r) PROVE Goal
  <2>1. pc'[w] = "snapshot" /\ job'[w].todo = {} /\ job'[w].event = Nothing
    BY <1>1, <1>5 DEF Start, NoJob
  <2>. QED
    BY <1>5, <2>1
<1>6. ASSUME NEW e \in Events, Take(w, e) PROVE Goal
  <2>1. /\ pc'[w] = "find" /\ job'[w].todo = job[w].todo \ {e} /\ job'[w].event = e
        /\ job'[w].run = job[w].run /\ e \in job[w].todo
    BY <1>1, <1>6 DEF Take, Job
  <2>. QED
    BY <2>1
<1>7. CASE Snapshot(w)
  <2>1. CASE Return(w)
    BY <1>2, <2>1
  <2>2. CASE Goto(w, "next") /\ job' = [job EXCEPT ![w].todo = Cited(job[w].run), ![w].now = clock']
    <3>1. pc'[w] = "next" /\ job'[w].run = job[w].run /\ job'[w].event = job[w].event
      BY <1>1, <2>2 DEF Job
    <3>2. job[w].event = Nothing
      BY <1>1, <1>7 DEF Snapshot, JobOk
    <3>. QED
      BY <1>7, <3>1, <3>2
  <2>. QED
    BY <1>7, <2>1, <2>2 DEF Snapshot
<1>8. CASE Complete(w) \/ Crash(w) \/ AppendEvidence(w)
  BY <1>2, <1>3, <1>8 DEF Complete, Crash, AppendEvidence
<1>9. CASE Find(w)
  <2>1. /\ pc'[w] = IF count[job[w].event] > 0 THEN "touch" ELSE "create"
        /\ job'[w].todo = job[w].todo /\ job'[w].event = job[w].event /\ job'[w].run = job[w].run
        /\ job'[w].read = count[job[w].event]
    BY <1>1, <1>9 DEF Find, Job
  <2>2. count[job[w].event] \in Nat
    BY <1>1, <1>9 DEF Find, JobOk, Busy
  <2>. QED
    BY <1>9, <2>1, <2>2
<1>10. CASE Touch(w) \/ AlertNew(w) \/ AlertRenewed(w)
  BY <1>4, <1>10 DEF Touch, AlertNew, AlertRenewed
<1>11. CASE Create(w)
  <2>1. job' = [job EXCEPT ![w].created = TRUE] => job'[w].todo = job[w].todo /\ job'[w].run = job[w].run
    BY <1>1 DEF Job
  <2>. QED
    BY <1>3, <1>4, <1>11, <2>1 DEF Create, RefusedIsFound
<1>12. CASE Compare(w)
  <2>1. job'[w].todo = job[w].todo /\ job'[w].run = job[w].run
    BY <1>1, <1>12 DEF Compare, Job
  <2>. QED
    BY <1>4, <1>12, <2>1 DEF Compare
<1>13. CASE AppendOccurrence(w)
  BY <1>3, <1>4, <1>13 DEF AppendOccurrence
<1>. QED
  BY <1>5, <1>6, <1>7, <1>8, <1>9, <1>10, <1>11, <1>12, <1>13 DEF Steps

LEMMA KnowsStep ==
  ASSUME TypeInv, TypeInv', NEW w \in Workers, Steps(w), Knows(w), ~Idle(w)'
  PROVE  Knows(w)'
<1>1. pc'[w] # "idle" /\ pc \in [Workers -> Labels] /\ job' \in [Workers -> Job] /\ job \in [Workers -> Job]
  BY JobOf DEF Idle, TypeInv, TypeOK
<1>2. pc'[w] \in {"touch", "create"} => Find(w)
  BY LocalSteps, Progress
<1>3. ASSUME pc'[w] \in {"touch", "create"}
      PROVE  count' = count /\ job'[w].event = job[w].event
  BY <1>2, <1>3, LocalSteps, Progress DEF Find, rows
<1>4. job'[w].run \notin completed'
  <2>1. ~Complete(w)
    BY <1>1 DEF Complete, Return, Goto
  <2>2. completed' = completed
    BY <2>1 DEF Steps, Start, Snapshot, Take, Find, Touch, Create, AlertNew, Compare,
       AppendOccurrence, AlertRenewed, AppendEvidence, Crash, rows
  <2>3. ASSUME NEW r \in Runs, Start(w, r) PROVE job'[w].run = r /\ r \notin completed
    BY <1>1, <2>3 DEF Start, NoJob
  <2>4. CASE \E r \in Runs : Start(w, r)
    BY <2>2, <2>3, <2>4
  <2>5. CASE ~\E r \in Runs : Start(w, r)
    <3>1. pc[w] # "idle"
      BY <2>5 DEF Steps, Snapshot, Complete, Take, Find, Touch, Create, AlertNew, Compare,
         AppendOccurrence, AlertRenewed, AppendEvidence, Crash
    <3>. QED
      BY <1>1, <2>2, <2>5, <3>1, LocalSteps DEF Knows
  <2>. QED
    BY <2>4, <2>5
<1>5. job'[w].event \notin job'[w].todo
  <2>1. job'[w].todo \subseteq Events /\ job'[w].event \in Events \cup {Nothing}
    BY <1>1 DEF Job
  <2>2. CASE job'[w].event = Nothing
    BY <2>1, <2>2, NamesAssumption
  <2>3. CASE job'[w].event # Nothing
    <3>1. pc'[w] \notin {"idle", "snapshot", "next"}
      BY <2>3, LocalSteps
    <3>2. CASE pc'[w] = "find"
      BY <2>1, <2>3, <3>2, LocalSteps
    <3>3. CASE pc'[w] # "find"
      <4>1. job'[w].event = job[w].event
        <5>1. pc'[w] \in Labels
          BY DEF TypeInv, TypeOK, Labels, Busy
        <5>. QED
          BY <3>1, <3>3, <5>1, LocalSteps, Progress DEF Labels, Busy
      <4>2. job'[w].todo = job[w].todo \/ job'[w].todo = {}
        BY <3>1, <3>3, LocalSteps
      <4>. QED
        BY <4>1, <4>2 DEF Knows
    <3>. QED
      BY <3>2, <3>3
  <2>. QED
    BY <2>2, <2>3
<1>. QED
  BY <1>2, <1>3, <1>4, <1>5, LocalSteps DEF Knows

(* Both bounds, with nothing under way.                                     *)
Settled(e) ==
  /\ Cardinality(OccurrencesOf(e)) <= count[e] + faults
  /\ count[e] <= Cardinality(Closed(e)) + faults

(* A note that is not being counted is within the bounds.                   *)
LEMMA SettledBalances ==
  ASSUME TypeInv, IsFiniteSet(occurrence), NEW w \in Workers, NEW e \in Events, Settled(e),
         ~Ahead(pc[w], job[w], e)
  PROVE  Balanced(w, e)
<1>. DEFINE all == Cardinality(OccurrencesOf(e))
            closed == Cardinality(Closed(e))
            n == count[e]
<1>1. all \in Nat /\ closed \in Nat /\ n \in Nat /\ faults \in Nat
  BY Numbers, NumberTypes
<1>2. all <= n + faults /\ n <= closed + faults
  BY DEF Settled
<1>. HIDE DEF all, closed, n
<1>3. n <= closed + faults + 1
  BY <1>1, <1>2
<1>. QED
  BY <1>2, <1>3 DEF Balanced, Balance, all, closed, n

LEMMA CountedNow ==
  ASSUME TypeInv, TypeInv', IsFiniteSet(occurrence), NEW w \in Workers, NEW e \in Events, Balanced(w, e),
         Behind(pc[w], job[w], e), UNCHANGED <<occurrence, completed, faults>>,
         count'[e] = count[e] + 1, job'[w].run = job[w].run,
         pc'[w] \in {"alert", "compare"}, job'[w].event = e, e \notin job'[w].todo
  PROVE  Balanced(w, e)'
<1>1. OccurrencesOf(e)' = OccurrencesOf(e) /\ Closed(e)' = Closed(e) /\ Observed' = Observed
  BY DEF OccurrencesOf, Closed, Observed
<1>. DEFINE all == Cardinality(OccurrencesOf(e))
            closed == Cardinality(Closed(e))
            n == count[e]
<1>2. all \in Nat /\ closed \in Nat /\ n \in Nat /\ faults \in Nat
  BY Numbers, NumberTypes
<1>3. all <= n + faults /\ n <= closed + faults
  BY DEF Balanced, Balance
<1>. HIDE DEF all, closed, n
<1>4. all <= (n + 1) + faults /\ all + 1 <= (n + 1) + faults /\ n + 1 <= closed + faults + 1
  BY <1>2, <1>3
<1>5. Ahead(pc'[w], job'[w], e) /\ ~Behind(pc'[w], job'[w], e)
  BY DEF Ahead, Behind
<1>. QED
  BY <1>1, <1>4, <1>5 DEF Balanced, Balance, all, closed, n

LEMMA AtRestIsSettled ==
  ASSUME NEW w \in Workers, NEW e \in Events, Balanced(w, e), pc[w] \in {"idle", "snapshot"}
  PROVE  Settled(e)
BY DEF Balanced, Balance, Behind, Settled

LEMMA SettledStays ==
  ASSUME TypeInv', IsFiniteSet(occurrence'), NEW w \in Workers, NEW e \in Events, Settled(e)',
         ~Ahead(pc'[w], job'[w], e)
  PROVE  Balanced(w, e)'
<1>. DEFINE all == Cardinality(OccurrencesOf(e)')
            closed == Cardinality(Closed(e)')
            n == count'[e]
            f == faults'
<1>1. n \in Nat /\ f \in Nat
  BY FaultsAssumption DEF TypeInv, TypeOK
<1>2. closed \in Nat
  <2>1. Closed(e)' \in SUBSET occurrence'
    BY DEF Closed, OccurrencesOf
  <2>. QED
    BY <2>1, FS_Subset, FS_CardinalityType
<1>3. all <= n + f /\ n <= closed + f
  BY DEF Settled
<1>. HIDE DEF all, closed, n, f
<1>4. n <= closed + f + 1
  BY <1>1, <1>2, <1>3
<1>. QED
  BY <1>3, <1>4 DEF Balanced, Balance, all, closed, n, f

(* The step of an execution at work keeps its notes balanced.               *)
LEMMA BalanceStep ==
  ASSUME TypeInv, TypeInv', IsFiniteSet(occurrence), NEW w \in Workers, Steps(w),
         ~Idle(w), Knows(w), \A e \in Events : Balanced(w, e)
  PROVE  IsFiniteSet(occurrence') /\ \A e \in Events : Balanced(w, e)'
<1>. USE DEF Goto, Return, Dismiss
<1>. DEFINE Goal == IsFiniteSet(occurrence') /\ \A e \in Events : Balanced(w, e)'
            d == job[w].event
<1>1. /\ pc \in [Workers -> Labels] /\ job \in [Workers -> Job] /\ job[w] \in Job
      /\ count \in [Events -> Nat] /\ faults \in Nat /\ JobOk(answer, occurrence, missed, pc[w], job[w])
      /\ job' \in [Workers -> Job] /\ pc[w] # "idle"
  BY JobOf, FaultsAssumption DEF TypeInv, TypeOK, Idle
<1>2. ASSUME UNCHANGED <<count, occurrence, completed>>, faults' = faults + 1 PROVE Goal
  BY <1>2, Forgiven
<1>3. ASSUME UNCHANGED <<count, occurrence, completed, faults>>, job'[w].run = job[w].run,
             \A e \in Events : /\ Behind(pc'[w], job'[w], e) => Behind(pc[w], job[w], e)
                               /\ Ahead(pc'[w], job'[w], e) <=> Ahead(pc[w], job[w], e)
      PROVE  Goal
  BY <1>3, Unmoved
<1>4. ASSUME UNCHANGED <<occurrence, completed, faults>>, pc[w] \in {"touch", "create"}, d \in Events,
             count' = [count EXCEPT ![d] = count[d] + 1], pc'[w] \in {"alert", "compare"},
             job'[w].run = job[w].run, job'[w].event = d, job'[w].todo = job[w].todo
      PROVE  Goal
  <2>1. ASSUME NEW e \in Events PROVE Balanced(w, e)'
    <3>1. CASE e = d
      <4>1. count'[e] = count[e] + 1 /\ Behind(pc[w], job[w], e) /\ e \notin job'[w].todo
        BY <1>1, <1>4, <3>1 DEF Behind, Knows
      <4>. QED
        BY <1>4, <3>1, <4>1, CountedNow
    <3>2. CASE e # d
      <4>1. count'[e] = count[e]
        BY <1>1, <1>4, <3>2
      <4>2. Behind(pc'[w], job'[w], e) => Behind(pc[w], job[w], e)
        BY <1>4, <3>2 DEF Behind
      <4>3. Ahead(pc'[w], job'[w], e) <=> Ahead(pc[w], job[w], e)
        BY <1>4, <3>2 DEF Ahead
      <4>. QED
        BY <1>4, <4>1, <4>2, <4>3, Unmoved
    <3>. QED
      BY <3>1, <3>2
  <2>. QED
    BY <1>4, <2>1
<1>. SUFFICES Goal
  OBVIOUS
<1>. HIDE DEF Goal
<1>5. ASSUME NEW r \in Runs, Start(w, r) PROVE Goal
  BY <1>1, <1>5 DEF Start
<1>6. CASE Snapshot(w)
  <2>1. CASE Fault("store")
    <3>1. UNCHANGED <<count, occurrence, completed>> /\ faults' = faults + 1
      BY <1>6, <2>1 DEF Snapshot, Fault
    <3>. QED
      BY <1>2, <3>1
  <2>2. CASE Goto(w, "next") /\ UNCHANGED faults
    <3>1. pc'[w] = "next" /\ pc[w] = "snapshot" /\ UNCHANGED <<count, occurrence, completed, faults>>
      BY <1>1, <1>6, <2>2 DEF Snapshot
    <3>2. ASSUME NEW e \in Events PROVE Balanced(w, e)'
      <4>1. Settled(e)'
        BY <3>1, AtRestIsSettled DEF Settled, OccurrencesOf, Closed
      <4>. QED
        BY <3>1, <4>1, SettledStays DEF Ahead
    <3>. QED
      BY <3>1, <3>2 DEF Goal
  <2>. QED
    BY <1>6, <2>1, <2>2 DEF Snapshot
<1>7. CASE Complete(w)
  <2>1. CASE Fault("store") /\ UNCHANGED completed
    <3>1. UNCHANGED <<count, occurrence, completed>> /\ faults' = faults + 1
      BY <1>7, <2>1 DEF Complete, Fault
    <3>. QED
      BY <1>2, <3>1
  <2>2. CASE completed' = completed \cup {job[w].run} /\ UNCHANGED faults
    <3>1. /\ pc'[w] = "idle" /\ pc[w] = "next" /\ job[w].todo = {} /\ job[w].run \notin completed
          /\ UNCHANGED <<count, occurrence, faults>>
      BY <1>1, <1>7, <2>2 DEF Complete, Knows
    <3>2. ASSUME NEW e \in Events PROVE Balanced(w, e)'
      <4>. DEFINE all == Cardinality(OccurrencesOf(e))
                  closed == Cardinality(Closed(e))
                  closed2 == Cardinality(Closed(e)')
                  n == count[e]
      <4>1. closed \in Nat /\ closed2 \in Nat /\ n \in Nat
        <5>1. Closed(e)' \in SUBSET occurrence
          BY <3>1 DEF Closed, OccurrencesOf
        <5>. QED
          BY <5>1, Numbers, NumberTypes, FS_Subset, FS_CardinalityType
      <4>2. /\ all <= n + faults /\ n <= closed + faults + 1
            /\ <<e, job[w].run>> \notin Observed => n <= closed + faults
        BY <3>1 DEF Balanced, Balance, Ahead
      <4>3. /\ Cardinality(OccurrencesOf(e)') = all /\ closed <= closed2
            /\ <<e, job[w].run>> \in Observed => closed + 1 <= closed2
        BY <2>2, <3>1, RunCloses
      <4>. HIDE DEF all, closed, closed2, n
      <4>4. n <= closed2 + faults
        BY <1>1, <4>1, <4>2, <4>3
      <4>5. Settled(e)'
        BY <3>1, <4>2, <4>3, <4>4 DEF Settled, all, closed, closed2, n
      <4>. QED
        BY <3>1, <4>5, SettledStays DEF Ahead
    <3>. QED
      BY <3>1, <3>2 DEF Goal
  <2>. QED
    BY <1>7, <2>1, <2>2 DEF Complete
<1>8. ASSUME NEW e \in Events, Take(w, e) PROVE Goal
  <2>1. /\ pc'[w] = "find" /\ pc[w] = "next" /\ job'[w].todo = job[w].todo \ {e} /\ job'[w].event = e
        /\ job'[w].run = job[w].run /\ e \in job[w].todo
    BY <1>1, <1>8 DEF Take, Job
  <2>2. UNCHANGED <<count, occurrence, completed, faults>>
    BY <1>8 DEF Take, rows
  <2>. QED
    BY <1>3, <2>1, <2>2 DEF Behind, Ahead
<1>9. CASE Find(w)
  <2>1. /\ pc'[w] \in {"touch", "create"} /\ pc[w] = "find" /\ job'[w].todo = job[w].todo
        /\ job'[w].event = d /\ job'[w].run = job[w].run
    BY <1>1, <1>9 DEF Find, Job
  <2>2. UNCHANGED <<count, occurrence, completed, faults>>
    BY <1>9 DEF Find, rows
  <2>3. \A e \in Events : /\ Behind(pc'[w], job'[w], e) => Behind(pc[w], job[w], e)
                          /\ Ahead(pc'[w], job'[w], e) <=> Ahead(pc[w], job[w], e)
    BY <2>1 DEF Behind, Ahead
  <2>. QED
    BY <1>3, <2>1, <2>2, <2>3
<1>10. CASE Touch(w)
  <2>1. CASE Fault("store") /\ UNCHANGED count
    <3>1. UNCHANGED <<count, occurrence, completed>> /\ faults' = faults + 1
      BY <1>10, <2>1 DEF Touch, Fault
    <3>. QED
      BY <1>2, <3>1
  <2>2. CASE count' = [count EXCEPT ![d] = Counted(job[w].read)] /\ UNCHANGED faults
    <3>1. d \in Events /\ pc'[w] = "compare" /\ job' = job /\ pc[w] = "touch"
      BY <1>1, <1>10 DEF Touch, JobOk, Busy
    <3>2. count' = [count EXCEPT ![d] = count[d] + 1]
      BY <2>2, <3>1 DEF Knows, Counted
    <3>3. UNCHANGED <<occurrence, completed, faults>>
      BY <1>10, <2>2 DEF Touch
    <3>. QED
      BY <1>4, <3>1, <3>2, <3>3
  <2>. QED
    BY <1>10, <2>1, <2>2 DEF Touch
<1>11. CASE Create(w)
  <2>1. CASE Fault("store") /\ UNCHANGED count
    <3>1. UNCHANGED <<count, occurrence, completed>> /\ faults' = faults + 1
      BY <1>11, <2>1 DEF Create, Fault
    <3>. QED
      BY <1>2, <3>1
  <2>2. CASE count[d] > 0
    BY <1>11, <2>2 DEF Create, Knows
  <2>3. CASE count[d] = 0 /\ count' = [count EXCEPT ![d] = 1] /\ UNCHANGED faults
             /\ job' = [job EXCEPT ![w].created = TRUE] /\ Goto(w, "alert")
    <3>1. /\ d \in Events /\ pc'[w] = "alert" /\ pc[w] = "create" /\ job'[w].event = d
          /\ job'[w].run = job[w].run /\ job'[w].todo = job[w].todo
      BY <1>1, <1>11, <2>3 DEF Create, JobOk, Busy, Job
    <3>2. count' = [count EXCEPT ![d] = count[d] + 1]
      BY <2>3
    <3>3. UNCHANGED <<occurrence, completed, faults>>
      BY <1>11, <2>3 DEF Create
    <3>. QED
      BY <1>4, <3>1, <3>2, <3>3
  <2>. QED
    BY <1>11, <2>1, <2>2, <2>3 DEF Create
<1>12. CASE AlertNew(w) \/ AlertRenewed(w)
  <2>1. /\ job' = job /\ UNCHANGED <<count, occurrence, completed>>
        /\ \/ pc[w] = "alert" /\ pc'[w] = "compare"
           \/ pc[w] = "renew" /\ pc'[w] = "prove"
    BY <1>1, <1>12 DEF AlertNew, AlertRenewed
  <2>2. CASE Fault("store")
    BY <1>2, <2>1, <2>2 DEF Fault
  <2>3. CASE UNCHANGED faults
    <3>1. \A e \in Events : /\ Behind(pc'[w], job'[w], e) => Behind(pc[w], job[w], e)
                            /\ Ahead(pc'[w], job'[w], e) <=> Ahead(pc[w], job[w], e)
      BY <2>1 DEF Behind, Ahead
    <3>. QED
      BY <1>3, <2>1, <2>3, <3>1
  <2>. QED
    BY <1>12, <2>2, <2>3 DEF AlertNew, AlertRenewed
<1>13. CASE Compare(w)
  <2>1. /\ pc'[w] = "occur" /\ pc[w] = "compare" /\ job'[w].todo = job[w].todo
        /\ job'[w].event = d /\ job'[w].run = job[w].run
    BY <1>1, <1>13 DEF Compare, Job
  <2>2. UNCHANGED <<count, occurrence, completed, faults>>
    BY <1>13 DEF Compare, rows
  <2>3. \A e \in Events : /\ Behind(pc'[w], job'[w], e) => Behind(pc[w], job[w], e)
                          /\ Ahead(pc'[w], job'[w], e) <=> Ahead(pc[w], job[w], e)
    BY <2>1 DEF Behind, Ahead
  <2>. QED
    BY <1>3, <2>1, <2>2, <2>3
<1>14. CASE AppendEvidence(w)
  <2>1. /\ pc'[w] = "next" /\ pc[w] = "prove" /\ job'[w].todo = job[w].todo /\ job'[w].run = job[w].run
        /\ UNCHANGED <<count, occurrence, completed>>
    BY <1>1, <1>14 DEF AppendEvidence, Job
  <2>2. CASE Fault("store")
    BY <1>2, <2>1, <2>2 DEF Fault
  <2>3. CASE UNCHANGED faults
    <3>1. \A e \in Events : /\ Behind(pc'[w], job'[w], e) => Behind(pc[w], job[w], e)
                            /\ Ahead(pc'[w], job'[w], e) <=> Ahead(pc[w], job[w], e)
      BY <2>1 DEF Behind, Ahead
    <3>. QED
      BY <1>3, <2>1, <2>3, <3>1
  <2>. QED
    BY <1>14, <2>2, <2>3 DEF AppendEvidence
<1>15. CASE Crash(w)
  BY <1>2, <1>15 DEF Crash, rows, Fault
<1>16. CASE AppendOccurrence(w)
  <2>1. /\ pc[w] = "occur" /\ d \in Events /\ job[w].run \in Runs /\ job[w].run \notin completed
        /\ d \notin job[w].todo /\ UNCHANGED <<count, completed>>
    BY <1>1, <1>16 DEF AppendOccurrence, JobOk, Busy, Knows
  <2>2. CASE Fault("store") /\ UNCHANGED occurrence
    BY <1>2, <2>1, <2>2 DEF Fault
  <2>3. PICK c \in Events : c = d
    BY <2>1
  <2>. DEFINE row == [event |-> d, run |-> job[w].run, at |-> job[w].now, material |-> job[w].material]
  <2>4. CASE ~Stored(w) /\ occurrence' = occurrence \cup {row} /\ UNCHANGED <<job, faults>>
             /\ Goto(w, IF row.material /\ ~job[w].created THEN "renew" ELSE "prove")
    <3>1. pc'[w] \in {"renew", "prove"} /\ job'[w] = job[w] /\ row.event = c /\ row.run = job[w].run
      BY <1>1, <2>4, <2>3
    <3>. HIDE DEF row
    <3>2. row \notin occurrence /\ <<c, job[w].run>> \notin Observed
      BY <2>4, <2>3, <3>1 DEF Stored, InHand, Observed
    <3>3. /\ IsFiniteSet(occurrence')
          /\ Cardinality(OccurrencesOf(c)') = Cardinality(OccurrencesOf(c)) + 1
          /\ \A e : e # c => OccurrencesOf(e)' = OccurrencesOf(e)
          /\ \A e : Closed(e)' = Closed(e)
      BY <2>1, <2>3, <2>4, <3>1, <3>2, OneMore
    <3>4. Balanced(w, c)'
      <4>. DEFINE all == Cardinality(OccurrencesOf(c))
                  closed == Cardinality(Closed(c))
                  n == count[c]
      <4>1. all + 1 <= n + faults /\ n <= closed + faults + 1
        BY <2>1, <2>3, <3>2 DEF Balanced, Balance, Ahead
      <4>2. Cardinality(OccurrencesOf(c)') = all + 1 /\ Cardinality(Closed(c)') = closed /\ count'[c] = n
        BY <2>1, <2>3, <3>3
      <4>3. ~Ahead(pc'[w], job'[w], c) /\ ~Behind(pc'[w], job'[w], c)
        BY <2>1, <2>3, <3>1 DEF Ahead, Behind
      <4>4. <<c, job'[w].run>> \in Observed' /\ faults' = faults
        BY <2>4, <3>1 DEF Observed
      <4>. HIDE DEF all, closed, n
      <4>. QED
        BY <4>1, <4>2, <4>3, <4>4 DEF Balanced, Balance
    <3>5. ASSUME NEW e \in Events, e # c PROVE Balanced(w, e)'
      <4>1. ~Ahead(pc[w], job[w], e) /\ ~Ahead(pc'[w], job'[w], e)
            /\ (Behind(pc'[w], job'[w], e) => Behind(pc[w], job[w], e))
        BY <2>1, <2>3, <3>1, <3>5 DEF Ahead, Behind
      <4>2. <<e, job'[w].run>> \in Observed' <=> <<e, job[w].run>> \in Observed
        BY <2>4, <3>1, <3>5 DEF Observed
      <4>3. OccurrencesOf(e)' = OccurrencesOf(e) /\ Closed(e)' = Closed(e) /\ faults' = faults /\ count' = count
        BY <2>1, <2>3, <2>4, <3>3, <3>5
      <4>. QED
        BY <4>1, <4>2, <4>3 DEF Balanced, Balance
    <3>. QED
      BY <3>3, <3>4, <3>5 DEF Goal
  <2>5. CASE Stored(w) /\ UNCHANGED <<occurrence, faults>>
    <3>1. job'[w].run = job[w].run /\ job'[w].todo = job[w].todo /\ pc'[w] \in {"next", "prove"}
          /\ (pc'[w] = "prove" => job'[w].event = c) /\ <<c, job[w].run>> \in Observed
      BY <1>1, <1>16, <2>5, <2>3 DEF AppendOccurrence, Job, Stored, InHand
    <3>2. ASSUME NEW e \in Events PROVE Balanced(w, e)'
      <4>1. CASE e # c
        BY <2>1, <2>3, <2>5, <3>1, <4>1, Unmoved DEF Behind, Ahead
      <4>2. CASE e = c
        <5>1. ~Ahead(pc'[w], job'[w], c) /\ ~Behind(pc'[w], job'[w], c)
          BY <2>1, <2>3, <3>1 DEF Ahead, Behind
        <5>2. /\ OccurrencesOf(c)' = OccurrencesOf(c) /\ Closed(c)' = Closed(c)
              /\ Observed' = Observed /\ faults' = faults /\ count' = count
          BY <2>1, <2>3, <2>5 DEF OccurrencesOf, Closed, Observed
        <5>. QED
          BY <2>1, <2>3, <3>1, <4>2, <5>1, <5>2 DEF Balanced, Balance
      <4>. QED
        BY <4>1, <4>2
    <3>. QED
      BY <2>5, <3>2 DEF Goal
  <2>. QED
    BY <1>16, <2>2, <2>4, <2>5 DEF AppendOccurrence
<1>. QED
  BY <1>5, <1>6, <1>7, <1>8, <1>9, <1>10, <1>11, <1>12, <1>13, <1>14, <1>15, <1>16 DEF Steps

LEMMA BooksStep ==
  ASSUME TypeInv, TypeInv', NotOverlapped, Books, NEW w \in Workers, Steps(w)
  PROVE  Books'
<1>1. IsFiniteSet(occurrence') /\ (~overlapped' => ~overlapped)
  <2>1. occurrence' = occurrence \/ \E row : occurrence' = occurrence \cup {row}
    BY DEF Steps, Start, Snapshot, Complete, Take, Find, Touch, Create, AlertNew, Compare,
       AppendOccurrence, AlertRenewed, AppendEvidence, Crash, rows
  <2>. QED
    BY <2>1, FS_AddElement, OverlapStays DEF Books
<1>2. SUFFICES ASSUME ~overlapped'
               PROVE  /\ Quiet' => \A e \in Events : Settled(e)'
                      /\ \A v \in Workers : ~Idle(v)' => Knows(v)' /\ \A e \in Events : Balanced(v, e)'
  BY <1>1 DEF Books, Settled
<1>3. Alone /\ IsFiniteSet(occurrence) /\ \A v \in Workers : ~Idle(v) => Knows(v) /\ \A e \in Events : Balanced(v, e)
  BY <1>1, <1>2 DEF NotOverlapped, Books
<1>4. Idle(w) => (\A v \in Workers : Idle(v)) /\ \E r \in Runs : Start(w, r)
  BY <1>2, OverlapStays DEF Idle, Steps, Snapshot, Complete, Take, Find, Touch, Create, AlertNew, Compare,
     AppendOccurrence, AlertRenewed, AppendEvidence, Crash
<1>5. ASSUME NEW v \in Workers, v # w PROVE Idle(v)'
  BY <1>3, <1>4, <1>5, OthersStay DEF Alone, Idle
<1>6. ~Idle(w)' => Knows(w)'
  <2>1. Idle(w) => Knows(w)
    BY JobOf, NamesAssumption DEF Idle, Knows, JobOk, NoJob
  <2>. QED
    BY <1>3, <2>1, KnowsStep
<1>7. \A e \in Events : Balanced(w, e)'
  <2>1. CASE ~Idle(w)
    BY <1>3, <2>1, BalanceStep
  <2>2. CASE Idle(w)
    <3>1. PICK r \in Runs : Start(w, r)
      BY <1>4, <2>2
    <3>2. UNCHANGED <<count, occurrence, completed, faults>> /\ pc'[w] = "snapshot"
      BY <3>1, JobOf DEF Start, Goto, rows
    <3>3. ASSUME NEW e \in Events PROVE Settled(e)'
      <4>1. Settled(e)
        BY <1>1, <1>2, <1>4, <2>2 DEF Books, Quiet, Idle, Settled
      <4>. QED
        BY <3>2, <4>1 DEF Settled, OccurrencesOf, Closed
    <3>. QED
      BY <1>1, <3>2, <3>3, SettledStays DEF Ahead
  <2>. QED
    BY <2>1, <2>2
<1>8. Quiet' => \A e \in Events : Settled(e)'
  BY <1>7 DEF Quiet, Balanced, Balance, Behind, Settled
<1>. QED
  BY <1>5, <1>6, <1>7, <1>8

LEMMA BooksInvariance == Spec => [](TypeInv /\ NotOverlapped /\ Books)
<1>1. Init => Books
  <2>. SUFFICES ASSUME Init PROVE Books
    OBVIOUS
  <2>1. ASSUME NEW e \in Events PROVE Settled(e)
    <3>1. OccurrencesOf(e) = {} /\ Closed(e) = {} /\ count[e] = 0 /\ faults = 0
      BY DEF Init, OccurrencesOf, Closed
    <3>. QED
      BY <3>1, FS_EmptySet DEF Settled
  <2>. QED
    BY <2>1, FS_EmptySet DEF Init, Books, Idle, Settled
<1>2. TypeInv /\ NotOverlapped /\ Books /\ [Next]_vars => Books'
  <2>. SUFFICES ASSUME TypeInv, NotOverlapped, Books, [Next]_vars PROVE Books'
    OBVIOUS
  <2>1. TypeInv'
    BY NextTypes
  <2>2. CASE UNCHANGED vars
    BY <2>2 DEF vars, rows, Books, Quiet, Idle, Knows, Balanced, OccurrencesOf, Closed, Observed
  <2>. QED
    BY <2>1, <2>2, BooksStep DEF Next, Steps
<1>. QED
  BY <1>1, <1>2, AloneInvariance, PTL DEF Spec

(* As long as executions have not overlapped, the counter of a note is off  *)
(* the number of its occurrences by no more than the faults so far: one     *)
(* fault costs one repetition of a run, and one repetition counts a note    *)
(* once more.                                                               *)
THEOREM CounterIsWithinFaults == Spec => []CountWithinFaults
<1>1. TypeInv /\ Books => CountWithinFaults
  <2>. SUFFICES ASSUME TypeInv, Books, Quiet, ~overlapped, NEW e \in Events
                PROVE  count[e] - Cardinality(OccurrencesOf(e)) \in -faults .. faults
    BY DEF CountWithinFaults
  <2>. DEFINE all == Cardinality(OccurrencesOf(e))
              closed == Cardinality(Closed(e))
              n == count[e]
  <2>1. all \in Nat /\ closed \in Nat /\ closed <= all /\ n \in Nat /\ faults \in Nat
    BY Numbers, NumberTypes DEF Books
  <2>2. all <= n + faults /\ n <= closed + faults
    BY DEF Books
  <2>. HIDE DEF all, closed, n
  <2>3. n - all \in -faults .. faults
    BY <2>1, <2>2
  <2>. QED
    BY <2>3 DEF all, n
<1>. QED
  BY <1>1, BooksInvariance, PTL

-----------------------------------------------------------------------------
(* The order of observations                                                *)

(* The notes that w is yet to store an occurrence of.                       *)
Unstored(label, j, e) ==
  \/ e \in j.todo
  \/ label \in {"find", "touch", "create", "alert", "compare", "occur"} /\ e = j.event

(* What w is yet to store is later than what is there, and its comparison   *)
(* still holds when it stores.                                              *)
Ordered(w) ==
  /\ job[w].now <= clock
  /\ \A o \in occurrence : Unstored(pc[w], job[w], o.event) => o.at < job[w].now
  /\ pc[w] = "occur" => (job[w].material <=> IsMaterialChange(job[w].event, job[w].run))

History ==
  /\ \A o \in occurrence : o.at <= clock
  /\ ~overlapped => \A w \in Workers : Ordered(w)
  /\ MaterialIsDifference

LEMMA TimeSteps ==
  ASSUME TypeInv, NEW w \in Workers, Steps(w)
  PROVE  /\ \/ job'[w].now = job[w].now
            \/ Snapshot(w) /\ clock' = clock + 1 /\ job'[w].now = clock' /\ UNCHANGED occurrence
            \/ pc'[w] = "idle" /\ job'[w] = NoJob
            \/ job'[w].now = 0 /\ job'[w].todo = {} /\ pc'[w] = "snapshot"
         /\ clock' = clock \/ clock' = clock + 1
         /\ UNCHANGED answer
<1>. USE DEF Goto, Return, Dismiss
<1>1. /\ pc \in [Workers -> Labels] /\ job \in [Workers -> Job] /\ job[w] \in Job
  BY JobOf
<1>2. UNCHANGED answer /\ (clock' = clock \/ clock' = clock + 1)
  BY DEF Steps, Start, Snapshot, Complete, Take, Find, Touch, Create, AlertNew, Compare,
     AppendOccurrence, AlertRenewed, AppendEvidence, Crash
<1>3. ASSUME NEW r \in Runs, Start(w, r)
      PROVE  job'[w].now = 0 /\ job'[w].todo = {} /\ pc'[w] = "snapshot"
  BY <1>1, <1>3 DEF Start, NoJob
<1>4. CASE Snapshot(w)
  <2>1. CASE Return(w)
    BY <1>1, <1>2, <2>1
  <2>2. CASE clock' = clock + 1 /\ job' = [job EXCEPT ![w].todo = Cited(job[w].run), ![w].now = clock']
    <3>1. job'[w].now = clock' /\ UNCHANGED occurrence
      BY <1>1, <1>4, <2>2 DEF Snapshot, Job
    <3>. QED
      BY <1>2, <1>4, <2>2, <3>1
  <2>. QED
    BY <1>4, <2>1, <2>2 DEF Snapshot
<1>5. CASE Complete(w) \/ Crash(w)
  BY <1>1, <1>2, <1>5 DEF Complete, Crash
<1>6. ASSUME Dismiss(w) PROVE job'[w].now = job[w].now
  BY <1>1, <1>6 DEF Job
<1>7. ASSUME NEW e \in Events, Take(w, e) PROVE job'[w].now = job[w].now
  BY <1>1, <1>7 DEF Take, Job
<1>8. CASE Find(w) \/ Touch(w) \/ AlertNew(w) \/ Compare(w) \/ AlertRenewed(w) \/ AppendEvidence(w)
  <2>1. job'[w].now = job[w].now
    BY <1>1, <1>6, <1>8 DEF Find, Touch, AlertNew, Compare, AlertRenewed, AppendEvidence, Job
  <2>. QED
    BY <1>2, <2>1
<1>9. CASE Create(w)
  <2>1. job' = [job EXCEPT ![w].created = TRUE] => job'[w].now = job[w].now
    BY <1>1 DEF Job
  <2>. QED
    BY <1>2, <1>6, <1>9, <2>1 DEF Create, RefusedIsFound
<1>10. CASE AppendOccurrence(w)
  <2>1. job'[w].now = job[w].now
    BY <1>6, <1>10 DEF AppendOccurrence
  <2>. QED
    BY <1>2, <2>1
<1>. QED
  BY <1>2, <1>3, <1>4, <1>5, <1>7, <1>8, <1>9, <1>10 DEF Steps

(* After its step w is yet to store only what it was before, unless it has  *)
(* just read the answer.                                                    *)
LEMMA UnstoredSteps ==
  ASSUME TypeInv, TypeInv', NEW w \in Workers, Steps(w), NEW e \in Events,
         Unstored(pc'[w], job'[w], e)
  PROVE  Unstored(pc[w], job[w], e) \/ Snapshot(w)
<1>1. CASE e \in job'[w].todo
  BY <1>1, LocalSteps DEF Unstored
<1>2. CASE /\ e \notin job'[w].todo /\ job'[w].event = e
           /\ pc'[w] \in {"find", "touch", "create", "alert", "compare", "occur"}
  <2>1. CASE pc'[w] = "find"
    BY <1>2, <2>1, LocalSteps DEF Unstored
  <2>2. CASE pc'[w] # "find"
    <3>1. job[w].event = e
      BY <1>2, <2>2, LocalSteps, Progress
    <3>2. Find(w) \/ Create(w) \/ Touch(w) \/ AlertNew(w) \/ Compare(w)
      BY <1>2, <2>2, LocalSteps, Progress
    <3>3. pc[w] \in {"find", "create", "touch", "alert", "compare"}
      BY <3>2 DEF Find, Create, Touch, AlertNew, Compare
    <3>. QED
      BY <3>1, <3>3 DEF Unstored
  <2>. QED
    BY <2>1, <2>2
<1>. QED
  BY <1>1, <1>2 DEF Unstored

LEMMA IdleIsOrdered ==
  ASSUME TypeInv, NEW w \in Workers, pc[w] = "idle"
  PROVE  Ordered(w)
BY JobOf DEF Ordered, Unstored, JobOk, NoJob, TypeInv, TypeOK

LEMMA OrderStep ==
  ASSUME TypeInv, TypeInv', NEW w \in Workers, Steps(w), Knows(w), Ordered(w),
         \A o \in occurrence : o.at <= clock
  PROVE  Ordered(w)' /\ \A o \in occurrence' : o.at <= clock'
<1>1. /\ clock \in Nat /\ job[w] \in Job /\ pc' \in [Workers -> Labels] /\ job' \in [Workers -> Job]
      /\ occurrence' \subseteq Occurrence
  BY JobOf DEF TypeInv, TypeOK, Labels, Busy
<1>2. clock' \in Nat /\ clock <= clock'
  BY <1>1, TimeSteps
<1>3. ASSUME NEW o \in occurrence' PROVE o.at <= clock'
  <2>1. CASE o \in occurrence
    BY <1>1, <1>2, <2>1 DEF Occurrence, TypeInv, TypeOK
  <2>2. CASE o \notin occurrence
    <3>1. o.at = job[w].now /\ clock' = clock
      BY <2>2, OccurrencesGrow DEF AppendOccurrence
    <3>. QED
      BY <3>1 DEF Ordered
  <2>. QED
    BY <2>1, <2>2
<1>4. job'[w].now <= clock'
  <2>1. job[w].now <= clock /\ job[w].now \in Nat
    BY <1>1 DEF Ordered, Job
  <2>. QED
    BY <1>1, <1>2, <2>1, TimeSteps DEF NoJob
<1>5. ASSUME NEW o \in occurrence', Unstored(pc'[w], job'[w], o.event)
      PROVE  o.at < job'[w].now
  <2>0. o.event \in Events /\ o.at \in Nat
    BY <1>1 DEF Occurrence
  <2>1. CASE Snapshot(w) /\ clock' = clock + 1 /\ job'[w].now = clock' /\ UNCHANGED occurrence
    BY <1>1, <2>0, <2>1
  <2>2. CASE pc'[w] = "idle" /\ job'[w] = NoJob
    BY <1>5, <2>2 DEF Unstored, NoJob
  <2>3. CASE pc'[w] = "snapshot" /\ job'[w].todo = {}
    BY <1>5, <2>3 DEF Unstored
  <2>4. CASE job'[w].now = job[w].now
    <3>1. Unstored(pc[w], job[w], o.event) \/ Snapshot(w)
      BY <1>5, <2>0, UnstoredSteps
    <3>2. CASE o \notin occurrence
      <4>1. AppendOccurrence(w) /\ ~Stored(w) /\ o.event = job[w].event
        BY <3>2, OccurrencesGrow
      <4>2. pc'[w] \in {"renew", "prove"} /\ job' = job
        BY <3>2, <4>1, JobOf DEF AppendOccurrence, Goto
      <4>. QED
        BY <1>5, <4>1, <4>2 DEF Unstored, Knows
    <3>3. CASE o \in occurrence /\ Unstored(pc[w], job[w], o.event)
      BY <2>4, <3>3 DEF Ordered
    <3>4. CASE o \in occurrence /\ Snapshot(w)
      <4>1. (pc'[w] = "idle" /\ job'[w].todo = {}) \/ job'[w].now = clock + 1
        BY <3>4, JobOf DEF Snapshot, Return, Goto, NoJob, Job
      <4>2. job'[w].now = clock + 1
        BY <1>5, <4>1 DEF Unstored
      <4>. QED
        BY <1>1, <2>0, <3>4, <4>2
    <3>. QED
      BY <3>1, <3>2, <3>3, <3>4
  <2>. QED
    BY <2>1, <2>2, <2>3, <2>4, TimeSteps
<1>6. ASSUME pc'[w] = "occur"
      PROVE  job'[w].material <=> IsMaterialChange(job[w].event, job[w].run)'
  <2>1. Compare(w) /\ job'[w].event = job[w].event /\ job'[w].run = job[w].run
    BY <1>6, Progress
  <2>2. job'[w].material = IsMaterialChange(job[w].event, job[w].run)
    BY <2>1, JobOf DEF Compare, Job
  <2>3. UNCHANGED <<occurrence, answer>>
    BY <2>1 DEF Compare, rows
  <2>. QED
    BY <2>1, <2>2, <2>3 DEF IsMaterialChange, IsPrior, OccurrencesOf
<1>. QED
  BY <1>3, <1>4, <1>5, <1>6 DEF Ordered

(* What the row o says of its change is so among the rows occ, with the     *)
(* answers ans.                                                             *)
Faithful(ans, occ, o) ==
  o.material <=>
    \E p \in occ :
      /\ p.event = o.event /\ p.at < o.at
      /\ \A q \in occ : q.event = o.event /\ q.at < o.at => q.at <= p.at
      /\ ans[p.run][o.event] # ans[o.run][o.event]

LEMMA FaithfulRows ==
  MaterialIsDifference <=> (~overlapped => \A o \in occurrence : Faithful(answer, occurrence, o))
BY DEF MaterialIsDifference, Faithful, OccurrencesOf

LEMMA MaterialStep ==
  ASSUME TypeInv, TypeInv', NEW w \in Workers, Steps(w), Ordered(w),
         \A o \in occurrence : Faithful(answer, occurrence, o)
  PROVE  \A o \in occurrence' : Faithful(answer', occurrence', o)
<1>0. UNCHANGED answer
  BY TimeSteps
<1>1. CASE UNCHANGED occurrence
  BY <1>0, <1>1 DEF Faithful
<1>2. CASE occurrence' # occurrence
  <2>. DEFINE row == [event |-> job[w].event, run |-> job[w].run, at |-> job[w].now,
                      material |-> job[w].material]
  <2>1. /\ AppendOccurrence(w) /\ pc[w] = "occur" /\ occurrence' = occurrence \cup {row}
        /\ job[w] \in Job
    BY <1>2, JobOf DEF Steps, Start, Snapshot, Complete, Take, Find, Touch, Create, AlertNew, Compare,
       AppendOccurrence, AlertRenewed, AppendEvidence, Crash, rows
  <2>2. /\ row.event = job[w].event /\ row.run = job[w].run /\ row.at = job[w].now
        /\ row.material = job[w].material
    OBVIOUS
  <2>3. row.at \in Nat /\ \A o \in occurrence : o.at \in Nat
    BY <2>1 DEF Job, TypeInv, TypeOK, Occurrence
  <2>. HIDE DEF row
  <2>4. \A o \in occurrence : o.event = row.event => o.at < row.at
    BY <2>1, <2>2 DEF Ordered, Unstored
  <2>5. row.material <=> IsMaterialChange(row.event, row.run)
    BY <2>1, <2>2 DEF Ordered
  <2>6. \A o \in occurrence : ~(row.event = o.event /\ row.at < o.at)
    BY <2>3, <2>4
  <2>7. Faithful(answer, occurrence', row)
    <3>1. ~(row.at < row.at)
      BY <2>3
    <3>2. (\E p \in occurrence' :
             /\ p.event = row.event /\ p.at < row.at
             /\ \A q \in occurrence' : q.event = row.event /\ q.at < row.at => q.at <= p.at
             /\ answer[p.run][row.event] # answer[row.run][row.event])
          <=> IsMaterialChange(row.event, row.run)
      BY <2>1, <2>4, <3>1 DEF IsMaterialChange, IsPrior, OccurrencesOf
    <3>. QED
      BY <2>5, <3>2 DEF Faithful
  <2>8. ASSUME NEW o \in occurrence PROVE Faithful(answer, occurrence', o)
    <3>1. Faithful(answer, occurrence, o)
      OBVIOUS
    <3>. QED
      BY <2>1, <2>6, <3>1 DEF Faithful
  <2>. QED
    BY <1>0, <2>1, <2>7, <2>8
<1>. QED
  BY <1>1, <1>2

LEMMA HistoryStep ==
  ASSUME TypeInv, TypeInv', NotOverlapped, Books, History, NEW w \in Workers, Steps(w),
         ~overlapped'
  PROVE  History'
<1>1. ~overlapped /\ Alone /\ Ordered(w) /\ \A o \in occurrence : Faithful(answer, occurrence, o)
  BY OverlapStays, FaithfulRows DEF NotOverlapped, History
<1>2. Knows(w)
  <2>1. Idle(w) => Knows(w)
    BY JobOf, NamesAssumption DEF Idle, Knows, JobOk, NoJob
  <2>. QED
    BY <1>1, <2>1 DEF Books
<1>3. Ordered(w)' /\ \A o \in occurrence' : o.at <= clock'
  BY <1>1, <1>2, OrderStep DEF History
<1>4. Idle(w) => \A v \in Workers : Idle(v)
  BY OverlapStays DEF Idle, Steps, Snapshot, Complete, Take, Find, Touch, Create, AlertNew, Compare,
     AppendOccurrence, AlertRenewed, AppendEvidence, Crash
<1>5. ASSUME NEW v \in Workers, v # w PROVE Ordered(v)'
  <2>1. pc'[v] = "idle" /\ job'[v] = NoJob
    <3>1. pc[v] = "idle"
      BY <1>1, <1>4, <1>5 DEF Alone, Idle
    <3>. QED
      BY <1>5, <3>1, OthersStay, JobOf DEF JobOk
  <2>2. clock' \in Nat
    BY DEF TypeInv, TypeOK
  <2>. QED
    BY <2>1, <2>2 DEF Ordered, Unstored, NoJob
<1>6. \A o \in occurrence' : Faithful(answer', occurrence', o)
  BY <1>1, MaterialStep
<1>7. MaterialIsDifference'
  BY <1>6 DEF MaterialIsDifference, Faithful, OccurrencesOf
<1>. QED
  BY <1>3, <1>5, <1>7 DEF History

(* As long as executions have not overlapped, an occurrence says that it is *)
(* a material change exactly if its evidence differs from that of the       *)
(* observation before it: the rows of a note are stored in the order of     *)
(* their times, whatever crashes in between.                                *)
THEOREM MaterialTellsDifference == Spec => []MaterialIsDifference
<1>. DEFINE Inv == overlapped \/ History
<1>1. Init => Inv
  BY DEF Init, History, Ordered, Unstored, NoJob, MaterialIsDifference
<1>2. /\ TypeInv /\ NotOverlapped /\ Books /\ TypeInv' /\ Inv /\ [Next]_vars
      => Inv'
  <2>. SUFFICES ASSUME TypeInv, NotOverlapped, Books, TypeInv', Inv, [Next]_vars PROVE Inv'
    OBVIOUS
  <2>1. CASE UNCHANGED vars
    BY <2>1 DEF vars, rows, History, Ordered, IsMaterialChange, IsPrior, OccurrencesOf,
       MaterialIsDifference
  <2>. QED
    BY <2>1, HistoryStep, OverlapStays DEF Next, Steps
<1>3. Inv => MaterialIsDifference
  BY DEF History, MaterialIsDifference
<1>. QED
  BY <1>1, <1>2, <1>3, BooksInvariance, PTL DEF Spec

-----------------------------------------------------------------------------
(* Executions without faults                                                *)

(* What is not yet complete is in the hands of some execution.              *)
InProgress ==
  /\ missed = {}
  /\ \A e \in Events : count[e] > 0 =>
       e \in alerted \/ \E w \in Workers : pc[w] = "alert" /\ job[w].event = e
  /\ \A p \in Observed :
       proofs[p] > 0 \/ \E w \in Workers : pc[w] \in {"renew", "prove"} /\ InHand(w) = p
  /\ \A r \in completed : \A e \in Events : answer[r][e] # NotCited => <<e, r>> \in Observed

WithoutFaults == faults = 0 => InProgress

LEMMA NoFault ==
  ASSUME TypeInv, NEW w \in Workers, Steps(w), faults' = 0
  PROVE  faults = 0 /\ ~Fault("store") /\ ~Crash(w)
<1>1. faults \in Nat
  BY FaultsAssumption DEF TypeInv, TypeOK
<1>2. ~Fault("store") /\ ~Fault("crash")
  BY <1>1 DEF Fault
<1>3. ~Crash(w)
  BY <1>2 DEF Crash
<1>. QED
  BY <1>2, <1>3 DEF Steps, Start, Snapshot, Complete, Take, Find, Touch, Create, AlertNew, Compare,
     AppendOccurrence, AlertRenewed, AppendEvidence

LEMMA InProgressStep ==
  ASSUME TypeInv, TypeInv', HasCount, InProgress, NEW w \in Workers, Steps(w), Grows,
         ~Fault("store"), ~Crash(w)
  PROVE  InProgress'
<1>1. missed' = missed
  BY DEF Steps, Start, Snapshot, Complete, Take, Find, Touch, Create, AlertNew, Compare,
     AppendOccurrence, AlertRenewed, AppendEvidence, rows
<1>2. missed' = {}
  BY <1>1 DEF InProgress
<1>3. alerted \subseteq alerted' /\ completed' \subseteq completed \cup {job[w].run}
      /\ (completed' # completed => Complete(w)) /\ Observed \subseteq Observed'
  BY DEF Steps, Start, Snapshot, Complete, Take, Find, Touch, Create, AlertNew, Compare,
     AppendOccurrence, AlertRenewed, AppendEvidence, rows, Grows, Observed
<1>4. ASSUME NEW e \in Events, count'[e] > 0
      PROVE  e \in alerted' \/ \E v \in Workers : pc'[v] = "alert" /\ job'[v].event = e
  <2>1. CASE count[e] > 0
    <3>1. CASE e \in alerted
      BY <1>3, <3>1
    <3>2. CASE \E v \in Workers : pc[v] = "alert" /\ job[v].event = e
      <4>1. PICK v \in Workers : pc[v] = "alert" /\ job[v].event = e
        BY <3>2
      <4>2. CASE v # w
        BY <4>1, <4>2, OthersStay
      <4>3. CASE v = w
        <5>1. AlertNew(w)
          BY <4>1, <4>3 DEF Steps, Start, Snapshot, Complete, Take, Find, Touch, Create, Compare,
             AppendOccurrence, AlertRenewed, AppendEvidence
        <5>. QED
          BY <4>1, <4>3, <5>1 DEF AlertNew
      <4>. QED
        BY <4>2, <4>3
    <3>. QED
      BY <2>1, <3>1, <3>2 DEF InProgress
  <2>2. CASE ~(count[e] > 0)
    <3>1. count[e] = 0 /\ count \in [Events -> Nat]
      BY <2>2 DEF TypeInv, TypeOK
    <3>2. ~Touch(w)
      <4>1. ASSUME Touch(w) PROVE FALSE
        <5>1. count' = [count EXCEPT ![job[w].event] = Counted(job[w].read)]
          BY <4>1 DEF Touch
        <5>2. job[w].event = e
          BY <1>4, <2>2, <3>1, <5>1
        <5>. QED
          BY <2>2, <4>1, <5>2 DEF Touch, HasCount
      <4>. QED
        BY <4>1
    <3>3. Create(w) /\ job[w].event = e /\ count' = [count EXCEPT ![job[w].event] = 1]
      BY <1>4, <2>2, <3>1, <3>2 DEF Steps, Start, Snapshot, Complete, Take, Find, Create, AlertNew,
         Compare, AppendOccurrence, AlertRenewed, AppendEvidence, rows
    <3>4. pc'[w] = "alert" /\ job'[w].event = e
      BY <1>4, <2>2, <3>1, <3>3, JobOf DEF Create, Goto, Job
    <3>. QED
      BY <3>4
  <2>. QED
    BY <2>1, <2>2
<1>5. ASSUME NEW p \in Observed'
      PROVE  proofs'[p] > 0 \/ \E v \in Workers : pc'[v] \in {"renew", "prove"} /\ InHand(v)' = p
  <2>0. p \in Pairs
    BY DEF Observed, Pairs, TypeInv, TypeOK, Occurrence
  <2>1. CASE p \in Observed /\ proofs[p] > 0
    <3>1. CASE UNCHANGED proofs
      BY <2>1, <3>1
    <3>2. CASE proofs' = [proofs EXCEPT ![InHand(w)] = @ + 1]
      BY <2>0, <2>1, <3>2 DEF TypeInv, TypeOK
    <3>. QED
      BY <3>1, <3>2, ProofsStored
  <2>2. CASE \E v \in Workers : pc[v] \in {"renew", "prove"} /\ InHand(v) = p
    <3>1. PICK v \in Workers : pc[v] \in {"renew", "prove"} /\ InHand(v) = p
      BY <2>2
    <3>2. CASE v # w
      BY <3>1, <3>2, OthersStay DEF InHand
    <3>3. CASE v = w
      <4>1. AlertRenewed(w) \/ AppendEvidence(w)
        BY <3>1, <3>3 DEF Steps, Start, Snapshot, Complete, Take, Find, Touch, Create, AlertNew,
           Compare, AppendOccurrence
      <4>2. CASE AlertRenewed(w)
        <5>1. pc'[w] = "prove" /\ job' = job
          BY <4>2, JobOf DEF AlertRenewed, Goto
        <5>. QED
          BY <3>1, <3>3, <5>1 DEF InHand
      <4>3. CASE AppendEvidence(w)
        <5>1. proofs' = [proofs EXCEPT ![InHand(w)] = @ + 1]
          BY <4>3 DEF AppendEvidence
        <5>. QED
          BY <2>0, <3>1, <3>3, <5>1 DEF TypeInv, TypeOK
      <4>. QED
        BY <4>1, <4>2, <4>3
    <3>. QED
      BY <3>2, <3>3
  <2>3. CASE p \notin Observed
    <3>1. PICK o \in occurrence' : p = <<o.event, o.run>>
      BY DEF Observed
    <3>2. AppendOccurrence(w) /\ ~Stored(w) /\ p = InHand(w)
      BY <2>3, <3>1, OccurrencesGrow DEF Observed, InHand
    <3>3. pc'[w] \in {"renew", "prove"} /\ job' = job
      BY <3>2, JobOf DEF AppendOccurrence, Goto
    <3>. QED
      BY <3>2, <3>3 DEF InHand
  <2>. QED
    BY <2>1, <2>2, <2>3 DEF InProgress
<1>6. ASSUME NEW r \in completed', NEW e \in Events, answer'[r][e] # NotCited
      PROVE  <<e, r>> \in Observed'
  <2>1. CASE r \in completed
    BY <1>3, <1>6, <2>1 DEF InProgress, Grows
  <2>2. CASE r \notin completed
    <3>1. Complete(w) /\ r = job[w].run
      BY <1>3, <2>2
    <3>2. JobOk(answer, occurrence, missed, "next", job[w]) /\ job[w].todo = {} /\ job[w].event = Nothing
      BY <3>1, JobOf DEF Complete, JobOk
    <3>3. Seen(occurrence, missed, e, r)
      BY <1>6, <3>1, <3>2, NamesAssumption DEF JobOk, Grows
    <3>. QED
      BY <1>1, <1>2, <1>3, <3>3, SeenIsRecorded
  <2>. QED
    BY <2>1, <2>2
<1>. QED
  BY <1>2, <1>4, <1>5, <1>6 DEF InProgress

(* Without crashes and failed writes, when every execution is over each     *)
(* event has had its alert and each completed run its occurrences and       *)
(* evidence, however the executions overlapped.                             *)
THEOREM NothingIsLeftHalfDone == Spec => []QuietIsComplete
<1>. DEFINE Inv == TypeInv /\ HasCount /\ WithoutFaults
<1>1. Init => Inv
  <2>. SUFFICES ASSUME Init PROVE HasCount /\ InProgress
    BY InitTypes DEF WithoutFaults
  <2>. QED
    BY DEF Init, HasCount, InProgress, Observed
<1>2. Inv /\ [Next]_vars => Inv'
  <2>. SUFFICES ASSUME Inv, [Next]_vars PROVE Inv'
    OBVIOUS
  <2>1. TypeInv' /\ Grows
    BY NextTypes
  <2>2. CASE UNCHANGED vars
    BY <2>1, <2>2 DEF vars, rows, HasCount, WithoutFaults, InProgress, InHand, Observed
  <2>3. ASSUME NEW w \in Workers, Steps(w) PROVE Inv'
    <3>1. HasCount'
      BY <2>1, <2>3, HasCountStep
    <3>2. WithoutFaults'
      BY <2>1, <2>3, NoFault, InProgressStep DEF WithoutFaults
    <3>. QED
      BY <2>1, <3>1, <3>2
  <2>. QED
    BY <2>2, <2>3 DEF Next, Steps
<1>3. Inv => QuietIsComplete
  <2>. SUFFICES ASSUME Inv, Quiet, faults = 0
                PROVE  /\ \A e \in Events : count[e] > 0 => e \in alerted
                       /\ \A r \in completed : \A e \in Cited(r) :
                            <<e, r>> \in Observed /\ proofs[e, r] > 0
    BY DEF QuietIsComplete
  <2>1. \A w \in Workers : pc[w] = "idle"
    BY DEF Quiet
  <2>2. InProgress
    BY DEF WithoutFaults
  <2>3. \A e \in Events : count[e] > 0 => e \in alerted
    BY <2>1, <2>2 DEF InProgress
  <2>4. \A p \in Observed : proofs[p] > 0
    BY <2>1, <2>2 DEF InProgress
  <2>. QED
    BY <2>2, <2>3, <2>4 DEF InProgress, Cited
<1>. QED
  BY <1>1, <1>2, <1>3, PTL DEF Spec

=============================================================================
