--------------------------- MODULE CurationProofs ---------------------------
(***************************************************************************)
(* Proofs about Curation, for any number of members, events, notes, texts  *)
(* and requests, and whatever crashes or fails.                            *)
(*                                                                         *)
(* The inbox and the notebook share nothing but the servers, so that each  *)
(* has an invariant of its own.  That of the inbox says that every change  *)
(* which has been begun will set the stamp "seen".  That of the notebook   *)
(* says that a text which is lost from the entry is in its history, or on  *)
(* its way there, or known to have been dropped.                           *)
(***************************************************************************)
EXTENDS Curation, FiniteSetTheorems, TLAPS

Labels == {"idle", "merge", "upsert", "first", "save", "number",
           "insert", "renumber", "reinsert", "flag"}
InboxLabels == {"merge", "upsert"}

-----------------------------------------------------------------------------
(* The inbox                                                                *)

MarkJobs == [kind : Marks \cup {Nothing}, event : Events \cup {Nothing},
             member : Members \cup {Nothing},
             sets : SUBSET Stamps, clears : SUBSET Stamps, row : SUBSET Stamps]

InboxTypes ==
  /\ triage \in [Events -> [Members -> SUBSET Stamps]]
  /\ mark \in [Servers -> MarkJobs]
  /\ pc \in [Servers -> Labels]

(* Whatever has been begun acknowledges the event.                          *)
Acknowledging ==
  \A s \in Servers : pc[s] \in InboxLabels =>
    /\ mark[s].event \in Events /\ mark[s].member \in Members
    /\ "seen" \in mark[s].sets

InboxInv == InboxTypes /\ Acknowledging /\ TriagedIsSeen

(* A read returns the row or looks like none.                               *)
LEMMA ReadIsRowOrNone ==
  ASSUME NEW value, NEW none, NEW result, MayRead(value, none, result)
  PROVE  result = value \/ result = none
BY DEF MayRead

(* A patch is made of stamps.                                               *)
LEMMA PatchesAreStamps ==
  ASSUME NEW kind \in Marks, NEW row \in SUBSET Stamps
  PROVE  /\ PatchSets(kind, row) \subseteq Stamps
         /\ PatchClears(kind, row) \subseteq Stamps
<1>1. StampOf(kind) \in Stamps
  BY DEF StampOf, Stamps, Marks
<1>2. {"seen"} \subseteq Stamps
  BY DEF Stamps
<1>. QED
  BY <1>1, <1>2 DEF PatchSets, PatchClears

(* A patch that has something to change acknowledges, because a row that    *)
(* has the stamp to be cleared has been seen.                               *)
LEMMA PatchesAcknowledge ==
  ASSUME NEW kind \in Marks, NEW row \in SUBSET Stamps, ~Settled(kind, row),
         row # {} => "seen" \in row
  PROVE  "seen" \in PatchSets(kind, row)
<1>1. CASE kind # "unsave"
  BY <1>1 DEF PatchSets
<1>2. CASE kind = "unsave"
  <2>1. row # {}
    BY <1>2 DEF Settled, Setting
  <2>. QED
    BY <2>1, <1>2 DEF PatchSets
<1>. QED
  BY <1>1, <1>2

LEMMA NoMarkIsJob == NoMark \in MarkJobs
BY DEF NoMark, MarkJobs

(* A step that leaves the rows and jobs of the inbox alone.                 *)
LEMMA InboxUntouched ==
  ASSUME InboxInv, UNCHANGED triageVars, NEW s \in Servers,
         NEW label \in Labels \ InboxLabels, GoTo(s, label) \/ UNCHANGED pc
  PROVE  InboxInv'
<1>1. pc' \in [Servers -> Labels]
  BY DEF InboxInv, InboxTypes, GoTo
<1>2. \A t \in Servers : pc'[t] \in InboxLabels => pc[t] \in InboxLabels
  BY DEF InboxInv, InboxTypes, GoTo
<1>. QED
  BY <1>1, <1>2 DEF InboxInv, InboxTypes, Acknowledging, TriagedIsSeen, triageVars

LEMMA TriageInbox ==
  ASSUME InboxInv, NEW s \in Servers, NEW e \in Events, NEW m \in Members,
         NEW kind \in Marks, Triage(s, e, m, kind)
  PROVE  InboxInv'
<1>1. PICK row \in SUBSET Stamps :
        /\ MayRead(triage[e][m], {}, row)
        /\ ~Settled(kind, row)
        /\ mark' = [mark EXCEPT ![s] =
             [kind |-> kind, event |-> e, member |-> m, sets |-> PatchSets(kind, row),
              clears |-> PatchClears(kind, row), row |-> {}]]
  BY DEF Triage
<1>2. row # {} => "seen" \in row
  BY <1>1, ReadIsRowOrNone DEF InboxInv, TriagedIsSeen
<1>3. /\ "seen" \in PatchSets(kind, row)
      /\ PatchSets(kind, row) \subseteq Stamps
      /\ PatchClears(kind, row) \subseteq Stamps
  BY <1>1, <1>2, PatchesAcknowledge, PatchesAreStamps
<1>4. [kind |-> kind, event |-> e, member |-> m, sets |-> PatchSets(kind, row),
       clears |-> PatchClears(kind, row), row |-> {}] \in MarkJobs
  BY <1>3 DEF MarkJobs
<1>5. mark' \in [Servers -> MarkJobs]
  BY <1>1, <1>4 DEF InboxInv, InboxTypes
<1>6. pc' = [pc EXCEPT ![s] = "merge"] /\ UNCHANGED triage
  BY DEF Triage, GoTo
<1>7. InboxTypes'
  BY <1>5, <1>6 DEF InboxInv, InboxTypes, Labels
<1>8. Acknowledging'
  <2>. SUFFICES ASSUME NEW t \in Servers, pc'[t] \in InboxLabels
                PROVE  /\ mark'[t].event \in Events /\ mark'[t].member \in Members
                       /\ "seen" \in mark'[t].sets
    BY DEF Acknowledging
  <2>1. CASE t = s
    BY <2>1, <1>1, <1>3 DEF InboxInv, InboxTypes
  <2>2. CASE t # s
    BY <2>2, <1>1, <1>6 DEF InboxInv, InboxTypes, Acknowledging
  <2>. QED
    BY <2>1, <2>2
<1>. QED
  BY <1>6, <1>7, <1>8 DEF InboxInv, TriagedIsSeen

LEMMA MergeInbox ==
  ASSUME InboxInv, NEW s \in Servers, ReadForMerge(s)
  PROVE  InboxInv'
<1>1. PICK row \in SUBSET Stamps : mark' = [mark EXCEPT ![s].row = row]
  BY DEF ReadForMerge
<1>2. pc' = [pc EXCEPT ![s] = "upsert"] /\ UNCHANGED triage /\ pc[s] = "merge"
  BY DEF ReadForMerge, GoTo
<1>3. InboxTypes'
  BY <1>1, <1>2 DEF InboxInv, InboxTypes, MarkJobs, Labels
<1>4. Acknowledging'
  BY <1>1, <1>2 DEF InboxInv, InboxTypes, Acknowledging, InboxLabels, MarkJobs
<1>. QED
  BY <1>2, <1>3, <1>4 DEF InboxInv, TriagedIsSeen

(* What the upsert writes has been seen.                                    *)
LEMMA UpsertAcknowledges ==
  ASSUME InboxInv, NEW s \in Servers, UpsertMemberState(s)
  PROVE  /\ triage' \in [Events -> [Members -> SUBSET Stamps]]
         /\ \/ UNCHANGED triage
            \/ \A e \in Events, m \in Members :
                 triage'[e][m] = triage[e][m] \/ "seen" \in triage'[e][m]
<1>1. CASE UNCHANGED triage
  BY <1>1 DEF InboxInv, InboxTypes
<1>2. CASE triage' = [triage EXCEPT ![mark[s].event][mark[s].member] = Merged(mark[s])]
  <2>1. /\ mark[s].event \in Events /\ mark[s].member \in Members
        /\ "seen" \in Merged(mark[s]) /\ Merged(mark[s]) \subseteq Stamps
    BY DEF InboxInv, InboxTypes, Acknowledging, InboxLabels, UpsertMemberState, Merged, MarkJobs
  <2>. QED
    BY <1>2, <2>1 DEF InboxInv, InboxTypes
<1>. QED
  BY <1>1, <1>2 DEF UpsertMemberState

LEMMA UpsertInbox ==
  ASSUME InboxInv, NEW s \in Servers, UpsertMemberState(s)
  PROVE  InboxInv'
<1>1. mark' = [mark EXCEPT ![s] = NoMark] /\ pc' = [pc EXCEPT ![s] = "idle"]
  BY DEF UpsertMemberState, GoTo
<1>2. InboxTypes'
  BY <1>1, UpsertAcknowledges, NoMarkIsJob DEF InboxInv, InboxTypes, Labels
<1>3. Acknowledging'
  BY <1>1 DEF InboxInv, InboxTypes, Acknowledging, InboxLabels
<1>4. TriagedIsSeen'
  BY UpsertAcknowledges DEF InboxInv, TriagedIsSeen
<1>. QED
  BY <1>2, <1>3, <1>4 DEF InboxInv

LEMMA CrashInbox ==
  ASSUME InboxInv, NEW s \in Servers, Crash(s)
  PROVE  InboxInv'
<1>1. mark' = [mark EXCEPT ![s] = NoMark] /\ pc' = [pc EXCEPT ![s] = "idle"] /\ UNCHANGED triage
  BY DEF Crash, FinishEdit, GoTo
<1>2. InboxTypes'
  BY <1>1, NoMarkIsJob DEF InboxInv, InboxTypes, Labels
<1>3. Acknowledging'
  BY <1>1 DEF InboxInv, InboxTypes, Acknowledging, InboxLabels
<1>. QED
  BY <1>1, <1>2, <1>3 DEF InboxInv, TriagedIsSeen

(* The steps of the notebook.                                               *)
NotebookStep(s) ==
  \/ \E n \in Notes :
       \/ \E m \in Members, text \in Texts, v \in Visibilities, pinned \in BOOLEAN :
            CreateNote(s, n, m, text, v, pinned)
       \/ \E text \in Texts : UpdateNote(s, n, text)
       \/ \E i \in 1 .. MaxRevisions : RestoreRevision(s, n, i)
       \/ \E m \in Members, kind \in Flags : OpenFlags(s, n, m, kind)
       \/ RefuseUndelete(s, n)
  \/ CreateInitialRevision(s) \/ SaveText(s) \/ NumberRevision(s)
  \/ InsertRevision(s) \/ RetryRevision(s) \/ DropRevision(s) \/ WriteFlag(s)

LEMMA NotebookInbox ==
  ASSUME InboxInv, NEW s \in Servers, NotebookStep(s)
  PROVE  InboxInv'
<1>1. UNCHANGED triageVars
  BY DEF NotebookStep, CreateNote, UpdateNote, RestoreRevision, OpenNote, OpenFlags,
         RefuseUndelete, CreateInitialRevision, SaveText, NumberRevision, InsertRevision,
         RetryRevision, DropRevision, WriteFlag
<1>2. \E label \in Labels \ InboxLabels : GoTo(s, label) \/ UNCHANGED pc
  <2>1. \/ UNCHANGED pc
        \/ GoTo(s, "idle") \/ GoTo(s, "first") \/ GoTo(s, "save") \/ GoTo(s, "number")
        \/ GoTo(s, "insert") \/ GoTo(s, "renumber") \/ GoTo(s, "reinsert") \/ GoTo(s, "flag")
    BY DEF NotebookStep, CreateNote, UpdateNote, RestoreRevision, OpenNote, OpenFlags,
           RefuseUndelete, CreateInitialRevision, SaveText, NumberRevision, InsertRevision,
           RetryRevision, DropRevision, WriteFlag, FinishEdit
  <2>. QED
    BY <2>1 DEF Labels, InboxLabels
<1>. QED
  BY <1>1, <1>2, InboxUntouched

LEMMA NextInbox == InboxInv /\ [Next]_vars => InboxInv'
<1>. SUFFICES ASSUME InboxInv, [Next]_vars
              PROVE  InboxInv'
  OBVIOUS
<1>1. CASE UNCHANGED vars
  BY <1>1 DEF vars, InboxInv, InboxTypes, Acknowledging, TriagedIsSeen
<1>2. CASE Next
  <2>1. PICK s \in Servers :
          \/ \E e \in Events, m \in Members, kind \in Marks : Triage(s, e, m, kind)
          \/ ReadForMerge(s) \/ UpsertMemberState(s) \/ NotebookStep(s) \/ Crash(s)
    BY <1>2 DEF Next, NotebookStep
  <2>. QED
    BY <2>1, TriageInbox, MergeInbox, UpsertInbox, NotebookInbox, CrashInbox
<1>. QED
  BY <1>1, <1>2

LEMMA InitInbox == Init => InboxInv
BY NoMarkIsJob DEF Init, InboxInv, InboxTypes, Acknowledging, TriagedIsSeen, InboxLabels, Labels

LEMMA InboxInvariance == Spec => []InboxInv
BY InitInbox, NextInbox, PTL DEF Spec

(* What has been triaged is seen, however requests interleave, crash and    *)
(* fail: a request that does not acknowledge has found the event seen.      *)
THEOREM TriagedEventsAreSeen == Spec => []TriagedIsSeen
<1>1. InboxInv => TriagedIsSeen
  BY DEF InboxInv
<1>. QED
  BY <1>1, InboxInvariance, PTL

(* An acknowledgement is never lost to a write from a stale read, nor to a  *)
(* read that failed.                                                        *)
THEOREM AcknowledgementLasts == Spec => SeenStaysSeen
<1>1. InboxInv /\ [Next]_vars =>
        [\A e \in Events, m \in Members : "seen" \in triage[e][m] => "seen" \in triage'[e][m]]_vars
  <2>. SUFFICES ASSUME InboxInv, Next, NEW e \in Events, NEW m \in Members, "seen" \in triage[e][m]
                PROVE  "seen" \in triage'[e][m]
    OBVIOUS
  <2>1. PICK s \in Servers :
          \/ \E f \in Events, k \in Members, kind \in Marks : Triage(s, f, k, kind)
          \/ ReadForMerge(s) \/ UpsertMemberState(s) \/ NotebookStep(s) \/ Crash(s)
    BY DEF Next, NotebookStep
  <2>2. CASE UpsertMemberState(s)
    BY <2>2, UpsertAcknowledges
  <2>3. CASE ~UpsertMemberState(s)
    <3>1. UNCHANGED triage
      BY <2>1, <2>3 DEF Triage, ReadForMerge, Crash, NotebookStep, CreateNote, UpdateNote,
             RestoreRevision, OpenNote, OpenFlags, RefuseUndelete, CreateInitialRevision, SaveText,
             NumberRevision, InsertRevision, RetryRevision, DropRevision, WriteFlag, triageVars
    <3>. QED
      BY <3>1
  <2>. QED
    BY <2>2, <2>3
<1>. QED
  BY <1>1, InboxInvariance, PTL DEF Spec, SeenStaysSeen

-----------------------------------------------------------------------------
(* The notebook                                                             *)

EditJobs == [kind : Flags \cup {"create", "update", "revert", Nothing},
             note : Notes \cup {Nothing}, seen : Texts \cup {Nothing},
             text : Texts \cup {Nothing}, number : 0 .. MaxRevisions + 1]

Histories == UNION {[1 .. k -> Texts] : k \in 0 .. MaxRevisions}

Size(n) == Cardinality(DOMAIN revisions[n])

(* Requests whose text is on its way into the history.                      *)
Pending == {"first", "number", "insert", "renumber", "reinsert"}

NotebookTypes ==
  /\ note \in [Notes -> Entry \cup {Nothing}]
  /\ revisions \in [Notes -> Histories]
  /\ edit \in [Servers -> EditJobs]
  /\ pc \in [Servers -> Labels]
  /\ dropped \subseteq Notes
  /\ crossed \subseteq Notes

(* What a request on a note has established by the time it reaches a step.  *)
EditContext ==
  \A s \in Servers :
    /\ pc[s] \in InboxLabels \cup {"idle"} => edit[s].note = Nothing
    /\ pc[s] \notin InboxLabels \cup {"idle"} =>
         edit[s].note \in Notes /\ note[edit[s].note] # Nothing
    /\ pc[s] \in Pending \cup {"save"} => edit[s].text \in Texts
    /\ pc[s] \in {"insert", "reinsert"} => edit[s].number \in 1 .. Size(edit[s].note) + 1

Recorded(n, text) == \E i \in DOMAIN revisions[n] : revisions[n][i] = text

(* The text is in the history, on its way there, or known to be dropped.    *)
Kept(n, text) ==
  \/ n \in dropped
  \/ Recorded(n, text)
  \/ \E s \in Servers : pc[s] \in Pending /\ edit[s].note = n /\ edit[s].text = text

NothingLost ==
  /\ \A n \in Notes : IF note[n] = Nothing THEN DOMAIN revisions[n] = {} ELSE Kept(n, note[n].text)
  /\ \A s \in Servers : pc[s] = "save" => Kept(edit[s].note, edit[s].seen)

Newest(n, text) == Size(n) > 0 /\ revisions[n][Size(n)] = text

Saver(s, n) == edit[s].note = n /\ pc[s] # "flag"

(* The one request that saves a note, if they never overlapped.             *)
OneAtATime ==
  \A n \in Notes \ crossed : \A s, t \in Servers : Saver(s, n) /\ Saver(t, n) => s = t

InOrder ==
  \A n \in Notes \ (crossed \cup dropped) : note[n] # Nothing =>
    /\ (\A s \in Servers : ~Saver(s, n)) => Newest(n, note[n].text)
    /\ \A s \in Servers : Saver(s, n) =>
         /\ pc[s] = "first" => DOMAIN revisions[n] = {}
         /\ pc[s] \in Pending => edit[s].text = note[n].text
         /\ pc[s] = "save" => Newest(n, note[n].text) /\ edit[s].seen = note[n].text

NotebookInv == NotebookTypes /\ EditContext /\ NothingLost /\ OneAtATime /\ InOrder

(* A history is numbered from 1 to its size.                                *)
LEMMA HistoryShape ==
  ASSUME NEW h \in Histories
  PROVE  /\ Cardinality(DOMAIN h) \in 0 .. MaxRevisions
         /\ h \in [1 .. Cardinality(DOMAIN h) -> Texts]
         /\ DOMAIN h = 1 .. Cardinality(DOMAIN h)
<1>1. PICK k \in 0 .. MaxRevisions : h \in [1 .. k -> Texts]
  BY DEF Histories
<1>2. Cardinality(1 .. k) = k
  BY FS_Interval, ConstantsAssumption
<1>. QED
  BY <1>1, <1>2

(* A revision with the next number extends the history.                     *)
LEMMA Extension ==
  ASSUME NotebookTypes, NEW n \in Notes, NEW text \in Texts, NEW i \in 1 .. MaxRevisions,
         i = Size(n) + 1, AddRevision(n, i, text)
  PROVE  /\ revisions' \in [Notes -> Histories]
         /\ Size(n)' = Size(n) + 1
         /\ DOMAIN revisions'[n] = 1 .. i
         /\ revisions'[n][i] = text
         /\ \A j \in DOMAIN revisions[n] : revisions'[n][j] = revisions[n][j]
         /\ \A m \in Notes \ {n} : revisions'[m] = revisions[m]
<1>. DEFINE new == [j \in DOMAIN revisions[n] \cup {i} |-> IF j = i THEN text ELSE revisions[n][j]]
<1>1. revisions' = [revisions EXCEPT ![n] = new]
  BY DEF AddRevision
<1>2. /\ revisions \in [Notes -> Histories] /\ revisions[n] \in Histories
      /\ Size(n) \in 0 .. MaxRevisions
      /\ revisions[n] \in [1 .. Size(n) -> Texts] /\ DOMAIN revisions[n] = 1 .. Size(n)
  BY HistoryShape DEF NotebookTypes, Size
<1>3. DOMAIN revisions[n] \cup {i} = 1 .. i
  BY <1>2, ConstantsAssumption
<1>4. new \in [1 .. i -> Texts]
  BY <1>2, <1>3
<1>5. new \in Histories
  BY <1>4, ConstantsAssumption DEF Histories
<1>6. revisions'[n] = new /\ \A m \in Notes \ {n} : revisions'[m] = revisions[m]
  BY <1>1, <1>2
<1>7. Cardinality(1 .. i) = i
  BY FS_Interval, ConstantsAssumption
<1>8. Size(n)' = i
  BY <1>4, <1>6, <1>7 DEF Size
<1>9. revisions' \in [Notes -> Histories]
  BY <1>1, <1>2, <1>5
<1>10. DOMAIN revisions'[n] = 1 .. i
  BY <1>4, <1>6
<1>11. new[i] = text /\ \A j \in DOMAIN revisions[n] : new[j] = revisions[n][j]
  BY <1>2
<1>. HIDE DEF new
<1>. QED
  BY <1>6, <1>8, <1>9, <1>10, <1>11

(* The number after the largest that is known.                              *)
LEMMA NextNumberOf ==
  ASSUME NEW k \in Nat
  PROVE  NextNumber(1 .. k) = k + 1 /\ NextNumber({}) = 1
<1>1. CASE k = 0
  BY <1>1 DEF NextNumber
<1>2. CASE k > 0
  <2>1. k \in 1 .. k /\ \A j \in 1 .. k : j <= k
    BY <1>2
  <2>2. \A i \in 1 .. k : (\A j \in 1 .. k : j <= i) => i = k
    BY <1>2
  <2>3. (CHOOSE i \in 1 .. k : \A j \in 1 .. k : j <= i) = k
    BY <2>1, <2>2
  <2>. QED
    BY <1>2, <2>3 DEF NextNumber
<1>. QED
  BY <1>1, <1>2

(* What is kept stays so, if histories grow and no pending text gets lost.  *)
LEMMA StaysKept ==
  ASSUME NEW n \in Notes, NEW text, Kept(n, text),
         dropped \subseteq dropped',
         \A i \in DOMAIN revisions[n] :
           i \in DOMAIN revisions'[n] /\ revisions'[n][i] = revisions[n][i],
         \A s \in Servers : pc[s] \in Pending /\ edit[s].note = n =>
           \/ pc'[s] \in Pending /\ edit'[s].note = n /\ edit'[s].text = edit[s].text
           \/ n \in dropped'
           \/ \E i \in DOMAIN revisions'[n] : revisions'[n][i] = edit[s].text
  PROVE  Kept(n, text)'
BY DEF Kept, Recorded

LEMMA NoEditIsJob == NoEdit \in EditJobs /\ NoEdit.note = Nothing
BY ConstantsAssumption DEF NoEdit, EditJobs

(* An inbox request moves between labels the notebook does not look at.     *)
LEMMA InboxNotebook ==
  ASSUME NotebookInv, UNCHANGED noteVars, NEW s \in Servers,
         pc[s] \in InboxLabels \cup {"idle"},
         NEW label \in InboxLabels \cup {"idle"}, GoTo(s, label)
  PROVE  NotebookInv'
<1>. USE DEF GoTo, NotebookInv, noteVars
<1>1. NotebookTypes'
  BY DEF NotebookTypes, Labels, InboxLabels
<1>2. \A t \in Servers : t # s => pc'[t] = pc[t]
  BY DEF NotebookTypes
<1>3. pc'[s] = label /\ label \notin Pending \cup {"save", "flag"} /\ pc[s] \notin Pending \cup {"save", "flag"}
  BY DEF NotebookTypes, Pending, InboxLabels
<1>4. edit[s].note = Nothing /\ Nothing \notin Notes
  BY ConstantsAssumption DEF EditContext
<1>5. EditContext'
  BY <1>2, <1>3, <1>4 DEF EditContext, Size, Pending, InboxLabels
<1>6. \A n, text : Kept(n, text) => Kept(n, text)'
  BY <1>2, <1>3 DEF Kept, Recorded
<1>7. NothingLost'
  BY <1>2, <1>3, <1>6 DEF NothingLost
<1>8. \A n \in Notes, t \in Servers : Saver(t, n)' <=> Saver(t, n)
  BY <1>2, <1>3, <1>4 DEF Saver
<1>9. OneAtATime'
  BY <1>8 DEF OneAtATime
<1>10. InOrder'
  BY <1>2, <1>3, <1>4, <1>8 DEF InOrder, Newest, Size, Saver
<1>. QED
  BY <1>1, <1>5, <1>7, <1>9, <1>10

LEMMA CreateNotebook ==
  ASSUME NotebookInv, NEW s \in Servers, NEW n \in Notes, NEW m \in Members,
         NEW text \in Texts, NEW v \in Visibilities, NEW pinned \in BOOLEAN,
         CreateNote(s, n, m, text, v, pinned)
  PROVE  NotebookInv'
<1>. USE DEF NotebookInv
<1>. DEFINE entry == [author |-> m, text |-> text, visibility |-> v, pinned |-> pinned,
                      archived |-> FALSE, deleted |-> FALSE]
            new == [kind |-> "create", note |-> n, seen |-> Nothing, text |-> text, number |-> 1]
<1>1. /\ note[n] = Nothing /\ pc[s] = "idle"
      /\ note' = [note EXCEPT ![n] = entry]
      /\ edit' = [edit EXCEPT ![s] = new]
      /\ pc' = [pc EXCEPT ![s] = "first"]
      /\ UNCHANGED <<revisions, dropped, crossed>>
  BY DEF CreateNote, Begin, GoTo
<1>2. entry \in Entry /\ entry # Nothing /\ entry.text = text
  <2>1. entry \in Entry
    BY DEF Entry
  <2>. HIDE DEF entry
  <2>2. entry # Nothing
    BY <2>1, NothingIsNoEntry
  <2>3. entry.text = text
    BY DEF entry
  <2>. QED
    BY <2>1, <2>2, <2>3
<1>3. new \in EditJobs /\ new.note = n /\ new.text = text
  BY ConstantsAssumption DEF EditJobs
<1>. HIDE DEF entry, new
<1>4. NotebookTypes'
  BY <1>1, <1>2, <1>3 DEF NotebookTypes, Labels
<1>5. /\ note'[n] = entry /\ edit'[s] = new /\ pc'[s] = "first"
      /\ \A k \in Notes \ {n} : note'[k] = note[k]
      /\ \A t \in Servers \ {s} : edit'[t] = edit[t] /\ pc'[t] = pc[t]
  BY <1>1 DEF NotebookTypes
<1>6. DOMAIN revisions[n] = {} /\ \A t \in Servers : edit[t].note # n
  BY <1>1, ConstantsAssumption DEF NothingLost, EditContext
<1>7. EditContext'
  BY <1>1, <1>2, <1>3, <1>5 DEF EditContext, Size, Pending, InboxLabels
<1>8. \A k \in Notes : \A x : Kept(k, x) => Kept(k, x)'
  BY <1>1, <1>5 DEF Kept, Recorded, Pending
<1>9. Kept(n, text)'
  BY <1>3, <1>5 DEF Kept, Pending
<1>10. NothingLost'
  <2>1. \A t \in Servers : pc'[t] = "save" =>
          pc[t] = "save" /\ edit'[t] = edit[t] /\ edit[t].note \in Notes
    BY <1>5 DEF EditContext, InboxLabels
  <2>. QED
    BY <1>1, <1>2, <1>5, <1>8, <1>9, <2>1 DEF NothingLost
<1>11. \A t \in Servers, k \in Notes : Saver(t, k)' <=> (t = s /\ k = n) \/ (t # s /\ Saver(t, k))
  BY <1>3, <1>5 DEF Saver
<1>12. edit[s].note \notin Notes
  BY <1>1, ConstantsAssumption DEF EditContext, InboxLabels
<1>13. OneAtATime'
  BY <1>1, <1>6, <1>11 DEF OneAtATime, Saver
<1>14. InOrder'
  BY <1>1, <1>2, <1>3, <1>5, <1>6, <1>11, <1>12 DEF InOrder, Newest, Size, Saver, Pending
<1>. QED
  BY <1>4, <1>7, <1>10, <1>13, <1>14

(* A request that reads a note before it saves a text.                      *)
LEMMA OpenNotebook ==
  ASSUME NotebookInv, NEW s \in Servers, NEW n \in Notes, NEW kind \in {"update", "revert"},
         NEW text \in Texts, OpenNote(s, n, kind, text)
  PROVE  NotebookInv'
<1>. USE DEF NotebookInv
<1>. DEFINE new == [kind |-> kind, note |-> n, seen |-> note[n].text, text |-> text, number |-> 0]
<1>1. /\ pc[s] = "idle" /\ note[n] # Nothing
      /\ edit' = [edit EXCEPT ![s] = new]
      /\ pc' = [pc EXCEPT ![s] = "save"]
      /\ crossed' = IF Saving(n) THEN crossed \cup {n} ELSE crossed
      /\ UNCHANGED <<note, revisions, dropped>>
  BY DEF OpenNote, Begin, GoTo, Live, Crossing
<1>2. note[n] \in Entry /\ note[n].text \in Texts
  BY <1>1 DEF NotebookTypes, Entry
<1>3. new \in EditJobs /\ new.note = n /\ new.text = text /\ new.seen = note[n].text
  BY <1>2, ConstantsAssumption DEF EditJobs
<1>. HIDE DEF new
<1>4. NotebookTypes'
  BY <1>1, <1>3 DEF NotebookTypes, Labels
<1>5. /\ edit'[s] = new /\ pc'[s] = "save"
      /\ \A t \in Servers \ {s} : edit'[t] = edit[t] /\ pc'[t] = pc[t]
  BY <1>1 DEF NotebookTypes
<1>6. EditContext'
  BY <1>1, <1>3, <1>5 DEF EditContext, Size, Pending, InboxLabels
<1>7. \A k \in Notes : \A x : Kept(k, x) => Kept(k, x)'
  BY <1>1, <1>5 DEF Kept, Recorded, Pending
<1>8. Kept(n, note[n].text)'
  BY <1>1, <1>7 DEF NothingLost
<1>9. NothingLost'
  <2>1. \A t \in Servers \ {s} : pc'[t] = "save" =>
          pc[t] = "save" /\ edit'[t] = edit[t] /\ edit[t].note \in Notes
    BY <1>5 DEF EditContext, InboxLabels
  <2>. QED
    BY <1>1, <1>3, <1>5, <1>7, <1>8, <2>1 DEF NothingLost
<1>10. \A t \in Servers, k \in Notes : Saver(t, k)' <=> (t = s /\ k = n) \/ (t # s /\ Saver(t, k))
  BY <1>3, <1>5 DEF Saver
<1>11. edit[s].note \notin Notes
  BY <1>1, ConstantsAssumption DEF EditContext, InboxLabels
<1>12. n \notin crossed' => \A t \in Servers : ~Saver(t, n)
  BY <1>1 DEF Saving, Saver
<1>13. crossed \subseteq crossed'
  BY <1>1
<1>14. OneAtATime'
  BY <1>10, <1>12, <1>13 DEF OneAtATime
<1>15. InOrder'
  BY <1>1, <1>3, <1>5, <1>10, <1>11, <1>12, <1>13 DEF InOrder, Newest, Size, Saver, Pending
<1>. QED
  BY <1>4, <1>6, <1>9, <1>14, <1>15

LEMMA RestoreNotebook ==
  ASSUME NotebookInv, NEW s \in Servers, NEW n \in Notes, NEW i \in 1 .. MaxRevisions,
         RestoreRevision(s, n, i)
  PROVE  NotebookInv'
<1>1. revisions[n] \in Histories /\ i \in DOMAIN revisions[n]
  BY DEF RestoreRevision, HasRevision, NotebookInv, NotebookTypes
<1>2. revisions[n][i] \in Texts
  BY <1>1, HistoryShape
<1>. QED
  BY <1>2, OpenNotebook DEF RestoreRevision

(* Changes of a flag leave the text alone.                                  *)
LEMMA PatchKeepsText ==
  ASSUME NEW entry \in Entry, NEW kind
  PROVE  Patched(entry, kind) \in Entry /\ Patched(entry, kind).text = entry.text
BY DEF Patched, Entry, Visibilities

LEMMA OpenFlagsNotebook ==
  ASSUME NotebookInv, NEW s \in Servers, NEW n \in Notes, NEW m \in Members,
         NEW kind \in Flags, OpenFlags(s, n, m, kind)
  PROVE  NotebookInv'
<1>. USE DEF NotebookInv
<1>. DEFINE new == [kind |-> kind, note |-> n, seen |-> Nothing, text |-> Nothing, number |-> 0]
<1>1. /\ pc[s] = "idle" /\ note[n] # Nothing
      /\ edit' = [edit EXCEPT ![s] = new]
      /\ pc' = [pc EXCEPT ![s] = "flag"]
      /\ UNCHANGED <<note, revisions, dropped, crossed>>
  BY DEF OpenFlags, Begin, GoTo
<1>2. new \in EditJobs /\ new.note = n
  BY ConstantsAssumption DEF EditJobs
<1>. HIDE DEF new
<1>3. NotebookTypes'
  BY <1>1, <1>2 DEF NotebookTypes, Labels
<1>4. /\ edit'[s] = new /\ pc'[s] = "flag"
      /\ \A t \in Servers \ {s} : edit'[t] = edit[t] /\ pc'[t] = pc[t]
  BY <1>1 DEF NotebookTypes
<1>5. EditContext'
  BY <1>1, <1>2, <1>4 DEF EditContext, Size, Pending, InboxLabels
<1>6. \A k \in Notes : \A x : Kept(k, x) => Kept(k, x)'
  BY <1>1, <1>4 DEF Kept, Recorded, Pending
<1>7. NothingLost'
  <2>1. \A t \in Servers : pc'[t] = "save" =>
          pc[t] = "save" /\ edit'[t] = edit[t] /\ edit[t].note \in Notes
    BY <1>4 DEF EditContext, InboxLabels
  <2>. QED
    BY <1>1, <1>6, <2>1 DEF NothingLost
<1>8. edit[s].note \notin Notes
  BY <1>1, ConstantsAssumption DEF EditContext, InboxLabels
<1>9. \A t \in Servers, k \in Notes : Saver(t, k)' <=> Saver(t, k)
  BY <1>4, <1>8 DEF Saver
<1>10. OneAtATime'
  BY <1>1, <1>9 DEF OneAtATime
<1>11. InOrder'
  BY <1>1, <1>4, <1>8, <1>9 DEF InOrder, Newest, Size, Saver, Pending
<1>. QED
  BY <1>3, <1>5, <1>7, <1>10, <1>11

LEMMA WriteFlagNotebook ==
  ASSUME NotebookInv, NEW s \in Servers, WriteFlag(s)
  PROVE  NotebookInv'
<1>. USE DEF NotebookInv
<1>. DEFINE n == edit[s].note
<1>1. /\ pc[s] = "flag" /\ n \in Notes /\ note[n] # Nothing
      /\ edit' = [edit EXCEPT ![s] = NoEdit]
      /\ pc' = [pc EXCEPT ![s] = "idle"]
      /\ UNCHANGED <<revisions, dropped, crossed>>
  BY DEF WriteFlag, FinishEdit, GoTo, EditContext, InboxLabels
<1>2. note[n] \in Entry
  BY <1>1 DEF NotebookTypes
<1>3. /\ note' \in [Notes -> Entry \cup {Nothing}]
      /\ \A k \in Notes : (note'[k] = Nothing <=> note[k] = Nothing) /\ note'[k].text = note[k].text
  <2>1. CASE UNCHANGED note
    BY <2>1 DEF NotebookTypes
  <2>2. CASE note' = [note EXCEPT ![n] = Patched(note[n], edit[s].kind)]
    <3>1. Patched(note[n], edit[s].kind) \in Entry /\ Patched(note[n], edit[s].kind).text = note[n].text
      BY <1>2, PatchKeepsText
    <3>. QED
      BY <1>1, <2>2, <3>1, NothingIsNoEntry DEF NotebookTypes
  <2>. QED
    BY <2>1, <2>2 DEF WriteFlag
<1>4. NotebookTypes'
  BY <1>1, <1>3, NoEditIsJob DEF NotebookTypes, Labels
<1>5. /\ edit'[s] = NoEdit /\ pc'[s] = "idle"
      /\ \A t \in Servers \ {s} : edit'[t] = edit[t] /\ pc'[t] = pc[t]
  BY <1>1 DEF NotebookTypes
<1>6. EditContext'
  BY <1>1, <1>3, <1>5, NoEditIsJob DEF EditContext, Size, Pending, InboxLabels
<1>7. \A k \in Notes : \A x : Kept(k, x) => Kept(k, x)'
  BY <1>1, <1>5 DEF Kept, Recorded, Pending
<1>8. NothingLost'
  <2>1. \A t \in Servers : pc'[t] = "save" =>
          pc[t] = "save" /\ edit'[t] = edit[t] /\ edit[t].note \in Notes
    BY <1>5 DEF EditContext, InboxLabels
  <2>. QED
    BY <1>1, <1>3, <1>7, <2>1 DEF NothingLost
<1>9. \A t \in Servers, k \in Notes : Saver(t, k)' <=> Saver(t, k)
  BY <1>1, <1>5, NoEditIsJob, ConstantsAssumption DEF Saver
<1>10. OneAtATime'
  BY <1>1, <1>9 DEF OneAtATime
<1>11. InOrder'
  BY <1>1, <1>3, <1>5, <1>9 DEF InOrder, Newest, Size, Saver, Pending
<1>. QED
  BY <1>4, <1>6, <1>8, <1>10, <1>11

(* A request that saves a text ends: it was only reading so far, or the     *)
(* text is dropped, or it is the newest revision.                           *)
LEMMA FinishNotebook ==
  ASSUME NotebookInv, NEW s \in Servers, NEW n \in Notes, n = edit[s].note,
         NEW text, text = edit[s].text,
         pc[s] \in Pending \cup {"save"},
         FinishEdit(s), UNCHANGED <<note, crossed>>,
         \/ pc[s] = "save" /\ UNCHANGED <<revisions, dropped>>
         \/ UNCHANGED revisions /\ dropped' = dropped \cup {n}
         \/ /\ pc[s] \in Pending /\ UNCHANGED dropped
            /\ \E i \in 1 .. MaxRevisions : i = Size(n) + 1 /\ AddRevision(n, i, text)
  PROVE  NotebookInv'
<1>. USE DEF NotebookInv
<1>1. /\ edit' = [edit EXCEPT ![s] = NoEdit]
      /\ pc' = [pc EXCEPT ![s] = "idle"]
      /\ UNCHANGED <<note, crossed>>
      /\ note[n] # Nothing /\ text \in Texts
      /\ Nothing \notin Notes
  BY ConstantsAssumption DEF FinishEdit, GoTo, EditContext, Pending, InboxLabels
<1>2. /\ edit'[s] = NoEdit /\ NoEdit.note = Nothing /\ pc'[s] = "idle"
      /\ \A t \in Servers \ {s} : edit'[t] = edit[t] /\ pc'[t] = pc[t]
  BY <1>1, NoEditIsJob DEF NotebookTypes
<1>3. /\ revisions' \in [Notes -> Histories]
      /\ dropped \subseteq dropped' /\ dropped' \subseteq Notes
      /\ Size(n)' \in Nat /\ Size(n) \in Nat /\ Size(n) <= Size(n)'
      /\ \A j \in DOMAIN revisions[n] : j \in DOMAIN revisions'[n] /\ revisions'[n][j] = revisions[n][j]
      /\ \A k \in Notes \ {n} : revisions'[k] = revisions[k]
      /\ \/ pc[s] = "save" /\ UNCHANGED revisions
         \/ n \in dropped'
         \/ pc[s] \in Pending /\ Newest(n, text)' /\ Size(n)' \in DOMAIN revisions'[n]
  <2>1. Size(n) \in Nat
    BY HistoryShape, ConstantsAssumption DEF NotebookTypes, Size
  <2>2. CASE \/ pc[s] = "save" /\ UNCHANGED <<revisions, dropped>>
             \/ UNCHANGED revisions /\ dropped' = dropped \cup {n}
    BY <2>1, <2>2 DEF NotebookTypes, Size
  <2>3. CASE /\ pc[s] \in Pending /\ UNCHANGED dropped
             /\ \E i \in 1 .. MaxRevisions : i = Size(n) + 1 /\ AddRevision(n, i, text)
    <3>1. PICK i \in 1 .. MaxRevisions : i = Size(n) + 1 /\ AddRevision(n, i, text)
      BY <2>3
    <3>2. /\ revisions' \in [Notes -> Histories]
          /\ Size(n)' = Size(n) + 1
          /\ DOMAIN revisions'[n] = 1 .. i
          /\ revisions'[n][i] = text
          /\ \A j \in DOMAIN revisions[n] : revisions'[n][j] = revisions[n][j]
          /\ \A m \in Notes \ {n} : revisions'[m] = revisions[m]
      BY <1>1, <3>1, Extension
    <3>3. DOMAIN revisions[n] = 1 .. Size(n)
      BY HistoryShape DEF NotebookTypes, Size
    <3>4. Newest(n, text)' /\ Size(n)' \in DOMAIN revisions'[n]
      BY <2>1, <3>1, <3>2 DEF Newest
    <3>. QED
      BY <2>1, <2>3, <3>1, <3>2, <3>3, <3>4 DEF NotebookTypes
  <2>. QED
    BY <2>2, <2>3
<1>4. NotebookTypes'
  BY <1>1, <1>3, NoEditIsJob DEF NotebookTypes, Labels
<1>5. \A k \in Notes : Size(k)' = Size(k) \/ (k = n /\ Size(n) <= Size(n)' /\ Size(n)' \in Nat /\ Size(n) \in Nat)
  BY <1>3 DEF Size
<1>6. EditContext'
  BY <1>1, <1>2, <1>5 DEF EditContext, Pending, InboxLabels
<1>7. \A k \in Notes : \A x : Kept(k, x) => Kept(k, x)'
  <2>. SUFFICES ASSUME NEW k \in Notes, NEW x, Kept(k, x) PROVE Kept(k, x)'
    OBVIOUS
  <2>1. \A i \in DOMAIN revisions[k] : i \in DOMAIN revisions'[k] /\ revisions'[k][i] = revisions[k][i]
    BY <1>3
  <2>2. \A t \in Servers : pc[t] \in Pending /\ edit[t].note = k =>
          \/ pc'[t] \in Pending /\ edit'[t].note = k /\ edit'[t].text = edit[t].text
          \/ k \in dropped'
          \/ \E i \in DOMAIN revisions'[k] : revisions'[k][i] = edit[t].text
    <3>. SUFFICES ASSUME NEW t \in Servers, pc[t] \in Pending, edit[t].note = k, t = s, k \notin dropped'
                  PROVE  \E i \in DOMAIN revisions'[k] : revisions'[k][i] = edit[t].text
      BY <1>2
    <3>1. pc[s] # "save"
      BY DEF Pending
    <3>. QED
      BY <1>3, <3>1 DEF Newest
  <2>. QED
    BY <1>3, <2>1, <2>2, StaysKept
<1>8. NothingLost'
  <2>1. \A t \in Servers : pc'[t] = "save" =>
          pc[t] = "save" /\ edit'[t] = edit[t] /\ edit[t].note \in Notes
    BY <1>2 DEF EditContext, InboxLabels
  <2>. QED
    BY <1>1, <1>3, <1>7, <2>1 DEF NothingLost
<1>9. \A t \in Servers, k \in Notes : Saver(t, k)' <=> t # s /\ Saver(t, k)
  BY <1>1, <1>2 DEF Saver
<1>10. OneAtATime'
  BY <1>1, <1>9 DEF OneAtATime
<1>11. Saver(s, n) /\ \A k \in Notes \ {n} : ~Saver(s, k)
  BY DEF Saver, Pending
<1>12. InOrder'
  <2>. SUFFICES ASSUME NEW k \in Notes, k \notin crossed, k \notin dropped', note[k] # Nothing
                PROVE  /\ (\A t \in Servers : ~Saver(t, k)') => Newest(k, note[k].text)'
                       /\ \A t \in Servers : Saver(t, k)' =>
                            /\ pc'[t] = "first" => DOMAIN revisions'[k] = {}
                            /\ pc'[t] \in Pending => edit'[t].text = note[k].text
                            /\ pc'[t] = "save" => Newest(k, note[k].text)' /\ edit'[t].seen = note[k].text
    BY <1>1 DEF InOrder, Newest, Size
  <2>1. CASE k = n
    <3>1. \A t \in Servers : ~Saver(t, k)'
      BY <1>1, <1>9, <1>11, <2>1 DEF OneAtATime
    <3>2. pc[s] \in Pending => text = note[n].text
      BY <1>1, <1>3, <1>11, <2>1 DEF InOrder
    <3>3. pc[s] = "save" => Newest(n, note[n].text)
      BY <1>1, <1>3, <1>11, <2>1 DEF InOrder
    <3>4. UNCHANGED revisions /\ Newest(n, note[n].text) => Newest(n, note[n].text)'
      BY <1>1 DEF Newest, Size
    <3>5. Newest(n, note[n].text)'
      BY <1>1, <1>3, <2>1, <3>2, <3>3, <3>4 DEF Newest
    <3>. QED
      BY <1>1, <2>1, <3>1, <3>5 DEF Newest
  <2>2. CASE k # n
    BY <1>2, <1>3, <1>9, <1>11, <2>2 DEF InOrder, Newest, Size
  <2>. QED
    BY <2>1, <2>2
<1>. QED
  BY <1>4, <1>6, <1>8, <1>10, <1>12

LEMMA FirstRevisionNotebook ==
  ASSUME NotebookInv, NEW s \in Servers, CreateInitialRevision(s)
  PROVE  NotebookInv'
<1>. DEFINE n == edit[s].note
<1>1. pc[s] = "first" /\ pc[s] \in Pending /\ n \in Notes
  BY DEF CreateInitialRevision, NotebookInv, EditContext, InboxLabels, Pending
<1>2. CASE dropped' = dropped \cup {n} /\ UNCHANGED revisions
  BY <1>1, <1>2, FinishNotebook DEF CreateInitialRevision
<1>3. CASE ~HasRevision(n, 1) /\ AddRevision(n, 1, edit[s].text) /\ UNCHANGED dropped
  <2>1. Size(n) \in Nat /\ DOMAIN revisions[n] = 1 .. Size(n)
    BY <1>1, HistoryShape, ConstantsAssumption DEF NotebookInv, NotebookTypes, Size
  <2>2. 1 = Size(n) + 1 /\ 1 \in 1 .. MaxRevisions
    BY <1>3, <2>1, ConstantsAssumption DEF HasRevision
  <2>3. \E i \in 1 .. MaxRevisions : i = Size(n) + 1 /\ AddRevision(n, i, edit[s].text)
    BY <1>3, <2>2
  <2>. QED
    BY <1>1, <1>3, <2>3, FinishNotebook DEF CreateInitialRevision
<1>. QED
  BY <1>2, <1>3 DEF CreateInitialRevision

LEMMA InsertNotebook ==
  ASSUME NotebookInv, NEW s \in Servers, InsertRevision(s)
  PROVE  NotebookInv'
<1>. DEFINE n == edit[s].note
            i == edit[s].number
<1>1. pc[s] \in Pending /\ n \in Notes
  BY DEF InsertRevision, NotebookInv, EditContext, InboxLabels, Pending
<1>2. Size(n) \in Nat /\ DOMAIN revisions[n] = 1 .. Size(n)
  BY <1>1, HistoryShape, ConstantsAssumption DEF NotebookInv, NotebookTypes, Size
<1>3. i \in 1 .. Size(n) + 1 /\ i \notin 1 .. Size(n) /\ i <= MaxRevisions
  BY <1>2 DEF InsertRevision, Collides, HasRevision, NotebookInv, EditContext
<1>4. \E k \in 1 .. MaxRevisions : k = Size(n) + 1 /\ AddRevision(n, k, edit[s].text)
  <2>1. i \in 1 .. MaxRevisions /\ i = Size(n) + 1
    BY <1>2, <1>3, ConstantsAssumption
  <2>. QED
    BY <2>1 DEF InsertRevision
<1>. QED
  BY <1>1, <1>4, FinishNotebook DEF InsertRevision

LEMMA DropNotebook ==
  ASSUME NotebookInv, NEW s \in Servers, DropRevision(s)
  PROVE  NotebookInv'
<1>1. pc[s] \in Pending /\ edit[s].note \in Notes
  BY DEF DropRevision, NotebookInv, EditContext, InboxLabels, Pending
<1>. QED
  BY <1>1, FinishNotebook DEF DropRevision

(* The step from reading to saving, with a text that differs.               *)
LEMMA SaveNotebook ==
  ASSUME NotebookInv, NEW s \in Servers, SaveText(s), NEW n, n = edit[s].note,
         NEW text, text = edit[s].text
  PROVE  NotebookInv'
<1>. USE DEF NotebookInv
<1>1. /\ pc[s] = "save" /\ n \in Notes /\ note[n] # Nothing /\ text \in Texts
      /\ UNCHANGED <<revisions, dropped, crossed>>
  BY DEF SaveText, EditContext, InboxLabels
<1>2. CASE UNCHANGED note /\ FinishEdit(s)
  BY <1>1, <1>2, FinishNotebook
<1>3. CASE note' = [note EXCEPT ![n].text = text]
           /\ IF Unchanged(edit[s]) THEN FinishEdit(s) ELSE GoTo(s, "number") /\ UNCHANGED edit
  <2>1. note[n] \in Entry
    BY <1>1 DEF NotebookTypes
  <2>2. [note[n] EXCEPT !.text = text] \in Entry /\ [note[n] EXCEPT !.text = text].text = text
    BY <1>1, <2>1 DEF Entry
  <2>3. note' = [note EXCEPT ![n] = [note[n] EXCEPT !.text = text]]
    BY <1>3
  <2>4. /\ note' \in [Notes -> Entry \cup {Nothing}]
        /\ note'[n].text = text /\ note'[n] # Nothing
        /\ \A k \in Notes \ {n} : note'[k] = note[k]
    BY <1>1, <2>2, <2>3, NothingIsNoEntry DEF NotebookTypes
  <2>5. \A t \in Servers \ {s} : edit'[t] = edit[t] /\ pc'[t] = pc[t]
    BY <1>3 DEF NotebookTypes, FinishEdit, GoTo
  <2>6. \/ /\ Unchanged(edit[s]) /\ edit'[s] = NoEdit /\ pc'[s] = "idle"
        \/ /\ edit'[s] = edit[s] /\ pc'[s] = "number"
    BY <1>3 DEF NotebookTypes, FinishEdit, GoTo
  <2>7. NoEdit.note = Nothing /\ Nothing \notin Notes
    BY NoEditIsJob, ConstantsAssumption
  <2>8. NotebookTypes'
    BY <1>1, <1>3, <2>4, NoEditIsJob DEF NotebookTypes, Labels, FinishEdit, GoTo
  <2>9. EditContext'
    BY <1>1, <2>4, <2>5, <2>6, <2>7 DEF EditContext, Pending, InboxLabels, Size
  <2>10. \A k \in Notes : \A x : Kept(k, x) => Kept(k, x)'
    BY <1>1, <2>5, <2>6 DEF Kept, Recorded, Pending
  <2>11. Kept(n, text)'
    <3>1. CASE Unchanged(edit[s])
      BY <1>1, <2>10, <3>1 DEF NothingLost, Unchanged
    <3>2. CASE ~Unchanged(edit[s])
      BY <2>6, <3>2 DEF Kept, Pending
    <3>. QED
      BY <3>1, <3>2
  <2>12. NothingLost'
    <3>1. \A t \in Servers : pc'[t] = "save" =>
            pc[t] = "save" /\ edit'[t] = edit[t] /\ edit[t].note \in Notes
      BY <2>5, <2>6 DEF EditContext, InboxLabels
    <3>. QED
      BY <1>1, <2>4, <2>10, <2>11, <3>1 DEF NothingLost
  <2>13. \A t \in Servers \ {s}, k \in Notes : Saver(t, k)' <=> Saver(t, k)
    BY <2>5 DEF Saver
  <2>14. Saver(s, n) /\ \A k \in Notes : Saver(s, k)' => k = n
    BY <1>1, <2>6, <2>7 DEF Saver
  <2>15. OneAtATime'
    BY <1>1, <2>13, <2>14 DEF OneAtATime
  <2>16. InOrder'
    <3>. SUFFICES ASSUME NEW k \in Notes, k \notin crossed, k \notin dropped, note'[k] # Nothing
                  PROVE  /\ (\A t \in Servers : ~Saver(t, k)') => Newest(k, note'[k].text)
                         /\ \A t \in Servers : Saver(t, k)' =>
                              /\ pc'[t] = "first" => DOMAIN revisions[k] = {}
                              /\ pc'[t] \in Pending => edit'[t].text = note'[k].text
                              /\ pc'[t] = "save" => Newest(k, note'[k].text) /\ edit'[t].seen = note'[k].text
      BY <1>1 DEF InOrder, Newest, Size
    <3>1. CASE k = n
      <4>1. \A t \in Servers \ {s} : ~Saver(t, k)'
        BY <2>13, <2>14, <3>1 DEF OneAtATime
      <4>2. Newest(n, note[n].text) /\ edit[s].seen = note[n].text
        BY <1>1, <2>14, <3>1 DEF InOrder
      <4>3. Unchanged(edit[s]) => Newest(n, note'[n].text)
        BY <2>4, <4>2 DEF Unchanged
      <4>4. ~Unchanged(edit[s]) => Saver(s, n)'
        BY <2>6 DEF Saver
      <4>5. Saver(s, n)' => pc'[s] = "number" /\ edit'[s] = edit[s]
        BY <1>1, <2>6, <2>7 DEF Saver
      <4>6. ASSUME \A t \in Servers : ~Saver(t, n)'
            PROVE  Newest(n, note'[n].text)
        <5>1. ~(Saver(s, n)')
          BY <4>6
        <5>. QED
          BY <4>3, <4>4, <5>1
      <4>7. \A t \in Servers : Saver(t, n)' => pc'[t] = "number" /\ edit'[t].text = note'[n].text
        BY <2>4, <3>1, <4>1, <4>5
      <4>. HIDE DEF NotebookInv
      <4>. QED
        BY <3>1, <4>6, <4>7
    <3>2. CASE k # n
      <4>1. \A t \in Servers : Saver(t, k)' <=> Saver(t, k)
        BY <2>13, <2>14, <3>2 DEF Saver
      <4>2. \A t \in Servers : Saver(t, k) => t # s
        BY <2>14, <3>2 DEF Saver
      <4>. QED
        BY <2>4, <2>5, <3>2, <4>1, <4>2 DEF InOrder
    <3>. QED
      BY <3>1, <3>2
  <2>. QED
    BY <2>8, <2>9, <2>12, <2>15, <2>16
<1>. QED
  BY <1>2, <1>3 DEF SaveText

(* A request on its way into the history moves on.                          *)
LEMMA PendingNotebook ==
  ASSUME NotebookInv, NEW s \in Servers, NEW label \in Pending \ {"first"}, GoTo(s, label),
         pc[s] \in Pending \ {"first"}, UNCHANGED <<note, revisions, dropped, crossed>>,
         NEW number \in 0 .. MaxRevisions + 1,
         edit' = [edit EXCEPT ![s].number = number],
         label \in {"insert", "reinsert"} => number \in 1 .. Size(edit[s].note) + 1
  PROVE  NotebookInv'
<1>. USE DEF NotebookInv
<1>1. NotebookTypes'
  BY DEF NotebookTypes, EditJobs, Labels, Pending, GoTo
<1>2. /\ pc'[s] = label
      /\ edit'[s].note = edit[s].note /\ edit'[s].text = edit[s].text /\ edit'[s].number = number
      /\ \A t \in Servers \ {s} : edit'[t] = edit[t] /\ pc'[t] = pc[t]
  BY DEF NotebookTypes, EditJobs, GoTo
<1>3. EditContext'
  BY <1>2 DEF EditContext, Size, Pending, InboxLabels
<1>4. \A k \in Notes : \A x : Kept(k, x) => Kept(k, x)'
  BY <1>2 DEF Kept, Recorded
<1>5. NothingLost'
  <2>1. \A t \in Servers : pc'[t] = "save" =>
          pc[t] = "save" /\ edit'[t] = edit[t] /\ edit[t].note \in Notes
    BY <1>2 DEF EditContext, InboxLabels, Pending
  <2>. QED
    BY <1>4, <2>1 DEF NothingLost
<1>6. \A t \in Servers, k \in Notes : Saver(t, k)' <=> Saver(t, k)
  BY <1>2 DEF Saver, Pending
<1>7. OneAtATime'
  BY <1>6 DEF OneAtATime
<1>8. InOrder'
  BY <1>2, <1>6 DEF InOrder, Newest, Size, Pending
<1>. QED
  BY <1>1, <1>3, <1>5, <1>7, <1>8

LEMMA NumberNotebook ==
  ASSUME NotebookInv, NEW s \in Servers, NumberRevision(s)
  PROVE  NotebookInv'
<1>. DEFINE n == edit[s].note
<1>1. pc[s] \in Pending \ {"first"} /\ n \in Notes
  BY DEF NumberRevision, NotebookInv, EditContext, InboxLabels, Pending
<1>2. Size(n) \in 0 .. MaxRevisions /\ DOMAIN revisions[n] = 1 .. Size(n)
  BY <1>1, HistoryShape DEF NotebookInv, NotebookTypes, Size
<1>3. PICK known \in SUBSET (1 .. MaxRevisions) :
        /\ MayRead(DOMAIN revisions[n], {}, known)
        /\ edit' = [edit EXCEPT ![s].number = NextNumber(known)]
  BY DEF NumberRevision
<1>4. NextNumber(known) \in 1 .. Size(n) + 1
  <2>1. known = 1 .. Size(n) \/ known = {}
    BY <1>2, <1>3, ReadIsRowOrNone
  <2>2. NextNumber(1 .. Size(n)) = Size(n) + 1 /\ NextNumber({}) = 1
    BY <1>2, NextNumberOf, ConstantsAssumption
  <2>3. Size(n) \in Nat
    BY <1>2, ConstantsAssumption
  <2>4. NextNumber(known) = Size(n) + 1 \/ NextNumber(known) = 1
    BY <2>1, <2>2
  <2>. QED
    BY <2>3, <2>4
<1>5. NextNumber(known) \in 0 .. MaxRevisions + 1
  BY <1>2, <1>4, ConstantsAssumption
<1>6. \E label \in Pending \ {"first"} : GoTo(s, label)
  BY DEF NumberRevision, Pending
<1>7. UNCHANGED <<note, revisions, dropped, crossed>>
  BY DEF NumberRevision
<1>. QED
  BY <1>1, <1>3, <1>4, <1>5, <1>6, <1>7, PendingNotebook

LEMMA RetryNotebook ==
  ASSUME NotebookInv, NEW s \in Servers, RetryRevision(s)
  PROVE  NotebookInv'
<1>. DEFINE i == edit[s].number
<1>1. pc[s] = "insert" /\ GoTo(s, "renumber") /\ UNCHANGED <<note, revisions, dropped, crossed, edit>>
  BY DEF RetryRevision, noteVars
<1>2. edit \in [Servers -> EditJobs] /\ i \in 0 .. MaxRevisions + 1
  BY DEF NotebookInv, NotebookTypes, EditJobs
<1>3. edit' = [edit EXCEPT ![s].number = i]
  BY <1>1, <1>2 DEF EditJobs
<1>4. /\ pc[s] \in Pending \ {"first"} /\ "renumber" \in Pending \ {"first"}
      /\ "renumber" \notin {"insert", "reinsert"}
      /\ UNCHANGED <<note, revisions, dropped, crossed>>
  BY <1>1 DEF Pending
<1>. HIDE DEF i
<1>. QED
  BY <1>1, <1>2, <1>3, <1>4, PendingNotebook

(* The process dies: a text that is not in the history yet is dropped.      *)
LEMMA CrashNotebook ==
  ASSUME NotebookInv, NEW s \in Servers, Crash(s)
  PROVE  NotebookInv'
<1>. USE DEF NotebookInv
<1>1. FinishEdit(s) /\ UNCHANGED <<note, revisions, crossed>> /\ pc[s] # "idle" /\ pc[s] \in Labels
  BY DEF Crash, NotebookTypes
<1>2. CASE pc[s] \in Pending \cup {"save"}
  <2>1. edit[s].note \in Notes
    BY <1>2 DEF EditContext, Pending, InboxLabels
  <2>2. \/ pc[s] = "save" /\ UNCHANGED dropped
        \/ dropped' = dropped \cup {edit[s].note}
    BY <1>2 DEF Crash, Pending
  <2>. QED
    BY <1>1, <1>2, <2>1, <2>2, FinishNotebook
<1>3. CASE pc[s] = "flag"
  <2>1. /\ pc[s] = "flag" /\ edit' = [edit EXCEPT ![s] = NoEdit]
        /\ pc' = [pc EXCEPT ![s] = "idle"] /\ UNCHANGED dropped
    BY <1>1, <1>3 DEF Crash, FinishEdit, GoTo
  <2>2. NotebookTypes'
    BY <1>1, <2>1, NoEditIsJob DEF NotebookTypes, Labels
  <2>3. /\ edit'[s] = NoEdit /\ pc'[s] = "idle"
        /\ \A t \in Servers \ {s} : edit'[t] = edit[t] /\ pc'[t] = pc[t]
    BY <2>1 DEF NotebookTypes
  <2>4. EditContext'
    BY <1>1, <2>3, NoEditIsJob DEF EditContext, Size, Pending, InboxLabels
  <2>5. \A k \in Notes : \A x : Kept(k, x) => Kept(k, x)'
    BY <1>1, <2>1, <2>3 DEF Kept, Recorded, Pending
  <2>6. NothingLost'
    <3>1. \A t \in Servers : pc'[t] = "save" =>
            pc[t] = "save" /\ edit'[t] = edit[t] /\ edit[t].note \in Notes
      BY <2>3 DEF EditContext, InboxLabels
    <3>. QED
      BY <1>1, <2>5, <3>1 DEF NothingLost
  <2>7. \A t \in Servers, k \in Notes : Saver(t, k)' <=> Saver(t, k)
    BY <2>1, <2>3, NoEditIsJob, ConstantsAssumption DEF Saver
  <2>8. OneAtATime'
    BY <1>1, <2>7 DEF OneAtATime
  <2>9. InOrder'
    BY <1>1, <2>1, <2>3, <2>7 DEF InOrder, Newest, Size, Saver, Pending
  <2>. QED
    BY <2>2, <2>4, <2>6, <2>8, <2>9
<1>4. CASE pc[s] \in InboxLabels
  <2>1. edit[s].note = Nothing
    BY <1>4 DEF EditContext
  <2>2. UNCHANGED dropped /\ pc' = [pc EXCEPT ![s] = "idle"] /\ edit' = [edit EXCEPT ![s] = NoEdit]
    BY <1>1, <1>4 DEF Crash, FinishEdit, GoTo, InboxLabels
  <2>3. NotebookTypes'
    BY <1>1, <2>2, NoEditIsJob DEF NotebookTypes, Labels
  <2>4. /\ edit'[s] = NoEdit /\ pc'[s] = "idle"
        /\ \A t \in Servers \ {s} : edit'[t] = edit[t] /\ pc'[t] = pc[t]
    BY <2>2 DEF NotebookTypes
  <2>5. EditContext'
    BY <1>1, <2>4, NoEditIsJob DEF EditContext, Size, Pending, InboxLabels
  <2>6. \A k \in Notes : \A x : Kept(k, x) => Kept(k, x)'
    BY <1>1, <1>4, <2>2, <2>4 DEF Kept, Recorded, Pending, InboxLabels
  <2>7. NothingLost'
    <3>1. \A t \in Servers : pc'[t] = "save" =>
            pc[t] = "save" /\ edit'[t] = edit[t] /\ edit[t].note \in Notes
      BY <2>4 DEF EditContext, InboxLabels
    <3>. QED
      BY <1>1, <2>6, <3>1 DEF NothingLost
  <2>8. \A t \in Servers, k \in Notes : Saver(t, k)' <=> Saver(t, k)
    BY <2>1, <2>4, NoEditIsJob, ConstantsAssumption DEF Saver
  <2>9. OneAtATime'
    BY <1>1, <2>8 DEF OneAtATime
  <2>10. InOrder'
    BY <1>1, <1>4, <2>1, <2>2, <2>4, <2>8, ConstantsAssumption
       DEF InOrder, Newest, Size, Saver, Pending, InboxLabels
  <2>. QED
    BY <2>3, <2>5, <2>7, <2>9, <2>10
<1>. QED
  BY <1>1, <1>2, <1>3, <1>4 DEF Labels, Pending, InboxLabels

LEMMA NotebookUntouched ==
  ASSUME NotebookInv, UNCHANGED <<noteVars, pc>>
  PROVE  NotebookInv'
BY DEF NotebookInv, noteVars, NotebookTypes, EditContext, NothingLost, Kept, Recorded,
       OneAtATime, InOrder, Newest, Saver, Size

LEMMA NextNotebook == NotebookInv /\ [Next]_vars => NotebookInv'
<1>. SUFFICES ASSUME NotebookInv, [Next]_vars
              PROVE  NotebookInv'
  OBVIOUS
<1>1. CASE UNCHANGED vars
  BY <1>1, NotebookUntouched DEF vars, noteVars
<1>2. CASE Next
  <2>1. PICK s \in Servers :
          \/ \E e \in Events, m \in Members, kind \in Marks : Triage(s, e, m, kind)
          \/ ReadForMerge(s) \/ UpsertMemberState(s) \/ NotebookStep(s) \/ Crash(s)
    BY <1>2 DEF Next, NotebookStep
  <2>2. CASE \/ \E e \in Events, m \in Members, kind \in Marks : Triage(s, e, m, kind)
             \/ ReadForMerge(s) \/ UpsertMemberState(s)
    <3>1. /\ UNCHANGED noteVars /\ pc[s] \in InboxLabels \cup {"idle"}
          /\ \E label \in InboxLabels \cup {"idle"} : GoTo(s, label)
      BY <2>2 DEF Triage, ReadForMerge, UpsertMemberState, Begin, InboxLabels
    <3>. QED
      BY <3>1, InboxNotebook
  <2>3. CASE Crash(s)
    BY <2>3, CrashNotebook
  <2>4. CASE CreateInitialRevision(s) \/ SaveText(s) \/ NumberRevision(s)
             \/ InsertRevision(s) \/ RetryRevision(s) \/ DropRevision(s) \/ WriteFlag(s)
    BY <2>4, FirstRevisionNotebook, SaveNotebook, NumberNotebook, InsertNotebook,
       RetryNotebook, DropNotebook, WriteFlagNotebook
  <2>5. CASE \E n \in Notes :
               \/ \E m \in Members, text \in Texts, v \in Visibilities, pinned \in BOOLEAN :
                    CreateNote(s, n, m, text, v, pinned)
               \/ \E text \in Texts : UpdateNote(s, n, text)
               \/ \E i \in 1 .. MaxRevisions : RestoreRevision(s, n, i)
               \/ \E m \in Members, kind \in Flags : OpenFlags(s, n, m, kind)
               \/ RefuseUndelete(s, n)
    <3>1. PICK n \in Notes :
            \/ \E m \in Members, text \in Texts, v \in Visibilities, pinned \in BOOLEAN :
                 CreateNote(s, n, m, text, v, pinned)
            \/ \E text \in Texts : UpdateNote(s, n, text)
            \/ \E i \in 1 .. MaxRevisions : RestoreRevision(s, n, i)
            \/ \E m \in Members, kind \in Flags : OpenFlags(s, n, m, kind)
            \/ RefuseUndelete(s, n)
      BY <2>5
    <3>2. CASE RefuseUndelete(s, n)
      BY <3>2, NotebookUntouched DEF RefuseUndelete
    <3>3. CASE \E text \in Texts : UpdateNote(s, n, text)
      BY <3>3, OpenNotebook DEF UpdateNote
    <3>. QED
      BY <3>1, <3>2, <3>3, CreateNotebook, RestoreNotebook, OpenFlagsNotebook
  <2>. QED
    BY <2>1, <2>2, <2>3, <2>4, <2>5 DEF NotebookStep
<1>. QED
  BY <1>1, <1>2

LEMMA InitNotebook == Init => NotebookInv
<1>. SUFFICES ASSUME Init PROVE NotebookInv
  OBVIOUS
<1>1. [i \in {} |-> Nothing] \in Histories
  <2>1. [i \in {} |-> Nothing] \in [1 .. 0 -> Texts] /\ 0 \in 0 .. MaxRevisions
    BY ConstantsAssumption
  <2>. QED
    BY <2>1 DEF Histories
<1>2. NotebookTypes
  BY <1>1, NoEditIsJob DEF Init, NotebookTypes, Labels
<1>3. EditContext /\ NothingLost /\ OneAtATime /\ InOrder
  BY NoEditIsJob, ConstantsAssumption
     DEF Init, EditContext, NothingLost, OneAtATime, InOrder, Saver, InboxLabels, Pending
<1>. QED
  BY <1>2, <1>3 DEF NotebookInv

LEMMA NotebookInvariance == Spec => []NotebookInv
BY InitNotebook, NextNotebook, PTL DEF Spec

(* What a note says is in its history once nothing is being saved, unless a *)
(* revision of it was dropped; it is the newest one if saves of the note    *)
(* never overlapped.                                                        *)
THEOREM CurrentTextIsRecorded == Spec => []CurrentIsRecorded
<1>1. NotebookInv => CurrentIsRecorded
  <2>. SUFFICES ASSUME NotebookInv, NEW n \in Notes, note[n] # Nothing, ~Saving(n), n \notin dropped
                PROVE  \E i \in DOMAIN revisions[n] :
                         /\ revisions[n][i] = note[n].text
                         /\ n \in crossed \/ i = Cardinality(DOMAIN revisions[n])
    BY DEF CurrentIsRecorded
  <2>1. \A s \in Servers : ~Saver(s, n)
    BY DEF Saving, Saver
  <2>2. CASE n \in crossed
    BY <2>1, <2>2 DEF NotebookInv, NothingLost, Kept, Recorded, Saver, Pending
  <2>3. CASE n \notin crossed
    <3>1. Newest(n, note[n].text)
      BY <2>1, <2>3 DEF NotebookInv, InOrder
    <3>2. Size(n) \in 0 .. MaxRevisions /\ DOMAIN revisions[n] = 1 .. Size(n)
      BY HistoryShape DEF NotebookInv, NotebookTypes, Size
    <3>3. Size(n) \in DOMAIN revisions[n]
      BY <3>1, <3>2 DEF Newest
    <3>. QED
      BY <3>1, <3>3 DEF Newest, Size
  <2>. QED
    BY <2>2, <2>3
<1>. QED
  BY <1>1, NotebookInvariance, PTL

-----------------------------------------------------------------------------
(* Types                                                                    *)

Counters == requests \in 0 .. MaxRequests /\ faults \in 0 .. MaxFaults

LEMMA NextCounters == Counters /\ [Next]_vars => Counters'
<1>. SUFFICES ASSUME Counters, [Next]_vars
              PROVE  Counters'
  OBVIOUS
<1>1. CASE UNCHANGED vars
  BY <1>1 DEF vars, Counters
<1>2. CASE Next
  <2>1. PICK s \in Servers :
          \/ \E e \in Events, m \in Members, kind \in Marks : Triage(s, e, m, kind)
          \/ ReadForMerge(s) \/ UpsertMemberState(s) \/ NotebookStep(s) \/ Crash(s)
    BY <1>2 DEF Next, NotebookStep
  <2>2. Begin(s) \/ UNCHANGED requests
    BY <2>1 DEF Triage, ReadForMerge, UpsertMemberState, Crash, NotebookStep, CreateNote, UpdateNote,
           RestoreRevision, OpenNote, OpenFlags, RefuseUndelete, CreateInitialRevision, SaveText,
           NumberRevision, InsertRevision, RetryRevision, DropRevision, WriteFlag
  <2>3. UNCHANGED faults \/ (faults < MaxFaults /\ faults' = faults + 1)
    <3>. USE DEF MayRead, MayFail, CountFault
    <3>1. CASE \E e \in Events, m \in Members, kind \in Marks : Triage(s, e, m, kind)
      BY <3>1 DEF Triage
    <3>2. CASE ReadForMerge(s) \/ UpsertMemberState(s) \/ Crash(s)
      BY <3>2 DEF ReadForMerge, UpsertMemberState, Crash
    <3>3. CASE CreateInitialRevision(s) \/ SaveText(s) \/ NumberRevision(s)
               \/ InsertRevision(s) \/ RetryRevision(s) \/ DropRevision(s) \/ WriteFlag(s)
      BY <3>3 DEF CreateInitialRevision, SaveText, NumberRevision, InsertRevision, RetryRevision,
             DropRevision, WriteFlag
    <3>4. CASE \E n \in Notes :
                 \/ \E m \in Members, text \in Texts, v \in Visibilities, pinned \in BOOLEAN :
                      CreateNote(s, n, m, text, v, pinned)
                 \/ \E text \in Texts : UpdateNote(s, n, text)
                 \/ \E i \in 1 .. MaxRevisions : RestoreRevision(s, n, i)
                 \/ \E m \in Members, kind \in Flags : OpenFlags(s, n, m, kind)
                 \/ RefuseUndelete(s, n)
      BY <3>4 DEF CreateNote, UpdateNote, RestoreRevision, OpenNote, OpenFlags, RefuseUndelete
    <3>. QED
      BY <2>1, <3>1, <3>2, <3>3, <3>4 DEF NotebookStep
  <2>. QED
    BY <2>2, <2>3, ConstantsAssumption DEF Counters, Begin
<1>. QED
  BY <1>1, <1>2

LEMMA CountersInvariance == Spec => []Counters
<1>1. Init => Counters
  BY ConstantsAssumption DEF Init, Counters
<1>. QED
  BY <1>1, NextCounters, PTL DEF Spec

(* Every variable keeps its type: the revisions of a note stay numbered     *)
(* from 1 without gaps, whatever collides, fails or crashes.                *)
THEOREM TypesAreKept == Spec => []TypeOK
<1>1. InboxInv /\ NotebookInv /\ Counters => TypeOK
  <2>. SUFFICES ASSUME InboxInv, NotebookInv, Counters
                PROVE  TypeOK
    OBVIOUS
  <2>1. \A n \in Notes : \E k \in 0 .. MaxRevisions : revisions[n] \in [1 .. k -> Texts]
    BY HistoryShape DEF NotebookInv, NotebookTypes
  <2>2. \A s \in Servers :
          /\ mark[s].kind \in Marks \cup {Nothing}
          /\ mark[s].sets \subseteq Stamps /\ mark[s].clears \subseteq Stamps
          /\ mark[s].row \subseteq Stamps
    BY DEF InboxInv, InboxTypes, MarkJobs
  <2>3. \A s \in Servers :
          edit[s].note \in Notes \cup {Nothing} /\ edit[s].number \in 0 .. MaxRevisions + 1
    BY DEF NotebookInv, NotebookTypes, EditJobs
  <2>. QED
    BY <2>1, <2>2, <2>3 DEF TypeOK, InboxInv, InboxTypes, NotebookInv, NotebookTypes, Counters, Labels
<1>. QED
  BY <1>1, InboxInvariance, NotebookInvariance, CountersInvariance, PTL

=============================================================================
