--------------------------- MODULE EvidenceLedger ---------------------------
(***************************************************************************)
(* How persistNormalizedResult stores the answer of a scan run: the         *)
(* snapshot of the answer, then for every citation note in it the derived   *)
(* event with its counter, the occurrence, the alerts and the evidence, and *)
(* in the end the completion of the run.                                    *)
(*                                                                          *)
(* Every statement is a step.  A run whose execution died is executed again *)
(* by the poll path, with the same answer (ScanRun); its statements meet    *)
(* what the first execution left.  Notes are shared by the runs of a        *)
(* monitor.                                                                 *)
(***************************************************************************)
EXTENDS Integers, FiniteSets

CONSTANTS
  Workers,     \* executions that may be at work at once
  Runs,        \* scan runs of one monitor
  Events,      \* citation notes: event fingerprints
  Evidence,    \* what an answer can say of a note: evidence hashes
  NotCited,    \* what an answer says of a note that it does not cite
  Nothing,     \* no run, no event, no prior observation
  Faults,      \* what may go wrong, a subset of FaultKinds
  MaxFaults    \* bound on crashes and failed writes together

(* crash: a process dies between two steps.  store: a write fails.          *)
(* overlap: an execution starts while another is at work, on the same run   *)
(* after its lease lapsed or on another run of the monitor.                 *)
FaultKinds == {"crash", "store", "overlap"}

ASSUME NamesAssumption ==
  /\ NotCited \notin Evidence
  /\ Nothing \notin Runs \cup Events \cup Evidence \cup {NotCited}
ASSUME FaultsAssumption == Faults \subseteq FaultKinds /\ MaxFaults \in Nat

VARIABLES
  answer,      \* what the provider answered, by run and note
  response,    \* runs with a row in ai_responses
  count,       \* citation_events.occurrence_count, 0 if there is no row
  occurrence,  \* rows of citation_event_occurrences
  proofs,      \* batches of citation_evidence, by note and run
  alerted,     \* events with an outbox row for the new citation
  renewed,     \* <<event, run>> with an outbox row for a changed citation
  missed,      \* <<event, run>> whose event or occurrence failed to be stored
  completed,   \* runs with status completed
  clock,       \* orders observed_at
  pc,          \* what each execution does next
  job,         \* its local data
  faults,      \* crashes and failed writes so far
  overlapped   \* have two executions ever been at work at once? (history)

rows == <<response, count, occurrence, proofs, alerted, renewed, missed, completed>>
vars == <<answer, rows, clock, pc, job, faults, overlapped>>

-----------------------------------------------------------------------------
(* Types *)

Pairs == Events \X Runs

Occurrence == [event: Events, run: Runs, at: Nat, material: BOOLEAN]

Job == [run: Runs \cup {Nothing},
        todo: SUBSET Events,                  \* classified, not yet dealt with
        event: Events \cup {Nothing},         \* the one in hand
        now: Nat,                             \* nowIso
        read: Nat,                            \* occurrence_count as read
        created: BOOLEAN,
        material: BOOLEAN]

NoJob == [run |-> Nothing, todo |-> {}, event |-> Nothing, now |-> 0, read |-> 0,
          created |-> FALSE, material |-> FALSE]

TypeOK ==
  /\ answer \in [Runs -> [Events -> Evidence \cup {NotCited}]]
  /\ response \subseteq Runs
  /\ count \in [Events -> Nat]
  /\ occurrence \subseteq Occurrence
  /\ \A o, p \in occurrence : o.event = p.event /\ o.run = p.run => o = p
  /\ proofs \in [Pairs -> Nat]
  /\ alerted \subseteq Events /\ renewed \subseteq Pairs
  /\ missed \subseteq Pairs /\ completed \subseteq Runs
  /\ clock \in Nat
  /\ pc \in [Workers -> {"idle", "snapshot", "next", "find", "touch", "create",
                         "alert", "compare", "occur", "renew", "prove"}]
  /\ job \in [Workers -> Job]
  /\ faults \in 0 .. MaxFaults
  /\ overlapped \in BOOLEAN

Init ==
  /\ answer \in [Runs -> [Events -> Evidence \cup {NotCited}]]
  /\ response = {}
  /\ count = [e \in Events |-> 0]
  /\ occurrence = {}
  /\ proofs = [p \in Pairs |-> 0]
  /\ alerted = {} /\ renewed = {} /\ missed = {} /\ completed = {}
  /\ clock = 0
  /\ pc = [w \in Workers |-> "idle"]
  /\ job = [w \in Workers |-> NoJob]
  /\ faults = 0
  /\ overlapped = FALSE

-----------------------------------------------------------------------------
(* Local steps and faults *)

Goto(w, label) == pc' = [pc EXCEPT ![w] = label]

Return(w) ==
  /\ Goto(w, "idle")
  /\ job' = [job EXCEPT ![w] = NoJob]

Fault(kind) ==
  /\ kind \in Faults /\ faults < MaxFaults
  /\ faults' = faults + 1

(* The note in hand has been dealt with. *)
Dismiss(w) ==
  /\ Goto(w, "next")
  /\ job' = [job EXCEPT ![w].event = Nothing, ![w].read = 0,
                        ![w].created = FALSE, ![w].material = FALSE]

InHand(w) == <<job[w].event, job[w].run>>

Cited(r) == {e \in Events : answer[r][e] # NotCited}
OccurrencesOf(e) == {o \in occurrence : o.event = e}
Observed == {<<o.event, o.run>> : o \in occurrence}

(* Definitions marked "Wrong:" are bugs a change could introduce.  No run   *)
(* uses them as they stand: each takes the place of the definition after it *)
(* to show that the property it names would notice.                         *)

-----------------------------------------------------------------------------
(* persistNormalizedResult *)

Start(w, r) ==
  /\ pc[w] = "idle"
  /\ r \notin completed
  /\ "overlap" \in Faults \/ \A v \in Workers : pc[v] = "idle"
  /\ overlapped' = (overlapped \/ \E v \in Workers : pc[v] # "idle")
  /\ job' = [job EXCEPT ![w] = [NoJob EXCEPT !.run = r]]
  /\ Goto(w, "snapshot")
  /\ UNCHANGED <<answer, rows, clock, faults>>

(* appendAiResponseSnapshot: the row of an earlier execution serves as well. *)
(* A failed insert throws.  Then the answer is classified.                  *)
Snapshot(w) ==
  LET r == job[w].run IN
  /\ pc[w] = "snapshot"
  /\ \/ /\ response' = response \cup {r}
        /\ clock' = clock + 1
        /\ job' = [job EXCEPT ![w].todo = Cited(r), ![w].now = clock']
        /\ Goto(w, "next")
        /\ UNCHANGED faults
     \/ /\ r \notin response /\ Fault("store")
        /\ Return(w)
        /\ UNCHANGED <<response, clock>>
  /\ UNCHANGED <<answer, count, occurrence, proofs, alerted, renewed, missed,
                 completed, overlapped>>

Take(w, e) ==
  /\ pc[w] = "next"
  /\ e \in job[w].todo
  /\ job' = [job EXCEPT ![w].todo = @ \ {e}, ![w].event = e]
  /\ Goto(w, "find")
  /\ UNCHANGED <<answer, rows, clock, faults, overlapped>>

(* appendScanRunComplete.  Its error is not looked at. *)
Complete(w) ==
  /\ pc[w] = "next"
  /\ job[w].todo = {}
  /\ \/ completed' = completed \cup {job[w].run} /\ UNCHANGED faults
     \/ UNCHANGED completed /\ Fault("store")
  /\ Return(w)
  /\ UNCHANGED <<answer, response, count, occurrence, proofs, alerted, renewed,
                 missed, clock, overlapped>>

-----------------------------------------------------------------------------
(* upsertDerivedCitationEvent *)

Find(w) ==
  LET n == count[job[w].event] IN
  /\ pc[w] = "find"
  /\ job' = [job EXCEPT ![w].read = n]
  /\ Goto(w, IF n > 0 THEN "touch" ELSE "create")
  /\ UNCHANGED <<answer, rows, clock, faults, overlapped>>

(* Wrong: the counter is not touched again (CountWithinFaults). *)
NotCounted(n) == n

Counted(n) == n + 1

(* One more than was read, whatever the counter says by now. *)
Touch(w) ==
  /\ pc[w] = "touch"
  /\ \/ count' = [count EXCEPT ![job[w].event] = Counted(job[w].read)]
        /\ UNCHANGED faults
     \/ UNCHANGED count /\ Fault("store")
  /\ Goto(w, "compare")
  /\ UNCHANGED <<answer, response, occurrence, proofs, alerted, renewed, missed,
                 completed, clock, job, overlapped>>

(* Wrong: a refused insert is an error like others (QuietIsComplete). *)
RefusedIsError(w) == Dismiss(w)

RefusedIsFound(w) == Goto(w, "compare") /\ UNCHANGED job

(* Inserted; refused because another execution was faster, which passes for *)
(* an update; or failed: the note is logged and left out.                   *)
Create(w) ==
  LET e == job[w].event IN
  /\ pc[w] = "create"
  /\ \/ /\ count[e] = 0
        /\ count' = [count EXCEPT ![e] = 1]
        /\ job' = [job EXCEPT ![w].created = TRUE]
        /\ Goto(w, "alert")
        /\ UNCHANGED <<missed, faults>>
     \/ /\ count[e] > 0
        /\ RefusedIsFound(w)
        /\ UNCHANGED <<count, missed, faults>>
     \/ /\ count[e] = 0 /\ Fault("store")
        /\ missed' = missed \cup {InHand(w)}
        /\ Dismiss(w)
        /\ UNCHANGED count
  /\ UNCHANGED <<answer, response, occurrence, proofs, alerted, renewed,
                 completed, clock, overlapped>>

(* createEventNotification, with a dedupe key made of the event. *)
AlertNew(w) ==
  /\ pc[w] = "alert"
  /\ \/ alerted' = alerted \cup {job[w].event} /\ UNCHANGED faults
     \/ UNCHANGED alerted /\ Fault("store")
  /\ Goto(w, "compare")
  /\ UNCHANGED <<answer, response, count, occurrence, proofs, renewed, missed,
                 completed, clock, job, overlapped>>

-----------------------------------------------------------------------------
(* appendCitationOccurrence, renewed alert, evidence *)

(* The last observation of e by observed_at. *)
IsPrior(o, e) ==
  o \in OccurrencesOf(e) /\ \A p \in OccurrencesOf(e) : p.at <= o.at

(* Wrong: compared with any earlier observation (MaterialIsDifference). *)
DiffersFromAny(e, r) ==
  \E o \in OccurrencesOf(e) : answer[o.run][e] # answer[r][e]

(* Wrong: a first observation is one (ImplementsEvidenceRecord). *)
FirstIsChange(e, r) ==
  OccurrencesOf(e) = {} \/ \E o \in OccurrencesOf(e) :
    IsPrior(o, e) /\ answer[o.run][e] # answer[r][e]

(* detectMaterialChange: a first observation is no change. *)
IsMaterialChange(e, r) ==
  \E o \in OccurrencesOf(e) : IsPrior(o, e) /\ answer[o.run][e] # answer[r][e]

Compare(w) ==
  /\ pc[w] = "compare"
  /\ job' = [job EXCEPT ![w].material =
                          IsMaterialChange(job[w].event, job[w].run)]
  /\ Goto(w, "occur")
  /\ UNCHANGED <<answer, rows, clock, faults, overlapped>>

(* Wrong: the key of an occurrence includes its time (TypeOK). *)
StoredAtThatTime(w) ==
  \E o \in occurrence :
    <<o.event, o.run>> = InHand(w) /\ o.at = job[w].now

(* The key is the event and the run. *)
Stored(w) == InHand(w) \in Observed

(* Wrong: an error of the insert is not told from its success               *)
(* (EvidenceOnce).                                                          *)
ProveWheneverSeen(w) == TRUE

ProveIfRefused(w) == job[w].created

(* Inserted, refused because the run has its occurrence, or failed.  Only a *)
(* new occurrence can bring a renewed alert, and an old one evidence only   *)
(* if this execution created the event.                                     *)
AppendOccurrence(w) ==
  LET row == [event |-> job[w].event, run |-> job[w].run, at |-> job[w].now,
              material |-> job[w].material]
      Refused == IF ProveIfRefused(w) THEN Goto(w, "prove") /\ UNCHANGED job
                 ELSE Dismiss(w)
  IN
  /\ pc[w] = "occur"
  /\ \/ /\ ~Stored(w)
        /\ occurrence' = occurrence \cup {row}
        /\ Goto(w, IF row.material /\ ~job[w].created THEN "renew" ELSE "prove")
        /\ UNCHANGED <<missed, job, faults>>
     \/ /\ Stored(w)
        /\ Refused
        /\ UNCHANGED <<occurrence, missed, faults>>
     \/ /\ ~Stored(w) /\ Fault("store")
        /\ missed' = missed \cup {InHand(w)}
        /\ Refused
        /\ UNCHANGED occurrence
  /\ UNCHANGED <<answer, response, count, proofs, alerted, renewed, completed,
                 clock, overlapped>>

(* createRenewedCitationNotification, for the row just inserted. *)
AlertRenewed(w) ==
  /\ pc[w] = "renew"
  /\ \/ renewed' = renewed \cup {InHand(w)} /\ UNCHANGED faults
     \/ UNCHANGED renewed /\ Fault("store")
  /\ Goto(w, "prove")
  /\ UNCHANGED <<answer, response, count, occurrence, proofs, alerted, missed,
                 completed, clock, job, overlapped>>

(* appendCitationEvidence: plain inserts, their errors ignored. *)
AppendEvidence(w) ==
  /\ pc[w] = "prove"
  /\ \/ proofs' = [proofs EXCEPT ![InHand(w)] = @ + 1] /\ UNCHANGED faults
     \/ UNCHANGED proofs /\ Fault("store")
  /\ Dismiss(w)
  /\ UNCHANGED <<answer, response, count, occurrence, alerted, renewed, missed,
                 completed, clock, overlapped>>

Crash(w) ==
  /\ pc[w] # "idle"
  /\ Fault("crash")
  /\ Return(w)
  /\ UNCHANGED <<answer, rows, clock, overlapped>>

-----------------------------------------------------------------------------

Next ==
  \E w \in Workers :
    \/ \E r \in Runs : Start(w, r)
    \/ Snapshot(w) \/ Complete(w) \/ \E e \in Events : Take(w, e)
    \/ Find(w) \/ Touch(w) \/ Create(w) \/ AlertNew(w)
    \/ Compare(w) \/ AppendOccurrence(w) \/ AlertRenewed(w)
    \/ AppendEvidence(w) \/ Crash(w)

Spec == Init /\ [][Next]_vars

-----------------------------------------------------------------------------
(* Properties *)

Quiet == \A w \in Workers : pc[w] = "idle"

(* Without faults nothing is left half done, however executions overlap:    *)
(* when all are over, every event has had its alert, and every completed    *)
(* run an occurrence with evidence for each note its answer cites.          *)
QuietIsComplete ==
  Quiet /\ faults = 0 =>
    /\ \A e \in Events : count[e] > 0 => e \in alerted
    /\ \A r \in completed : \A e \in Cited(r) :
         <<e, r>> \in Observed /\ proofs[e, r] > 0

(* Executions that do not overlap leave a counter that is off by no more    *)
(* than the number of faults: executing a run again counts it again.        *)
CountWithinFaults ==
  Quiet /\ ~overlapped =>
    \A e \in Events :
      count[e] - Cardinality(OccurrencesOf(e)) \in -faults .. faults

(* Executions that do not overlap mark an occurrence as a material change   *)
(* exactly if its evidence differs from the observation before it.          *)
MaterialIsDifference ==
  ~overlapped =>
    \A o \in occurrence :
      o.material <=>
        \E p \in OccurrencesOf(o.event) :
          /\ p.at < o.at
          /\ \A q \in OccurrencesOf(o.event) : q.at < o.at => q.at <= p.at
          /\ answer[p.run][o.event] # answer[o.run][o.event]

(* Executions that do not overlap store the evidence of an observation at   *)
(* most once, although its inserts have no key to refuse a second copy,     *)
(* unless the occurrence failed to be stored along with it.                 *)
EvidenceOnce == ~overlapped => \A p \in Pairs \ missed : proofs[p] <= 1

(* The ledger keeps the promises of EvidenceRecord, whatever goes wrong.    *)
Record == INSTANCE EvidenceRecord WITH observed <- Observed, done <- completed

ImplementsEvidenceRecord == Record!Spec

=============================================================================
