------------------------------ MODULE Curation ------------------------------
(***************************************************************************)
(* What members do with the evidence: the triage state each of them keeps  *)
(* of a citation event in the inbox (lib/inbox/member-state.ts) and the    *)
(* notes of the notebook with their numbered revisions                     *)
(* (lib/notebook/actions.ts, revisions.ts).                                *)
(*                                                                         *)
(* A request is a server action; it reads, decides and writes in separate  *)
(* database statements, each a step, so that requests of one member (two   *)
(* tabs, a repeated click) and of several members interleave between them. *)
(* A request that is refused before it writes has no step, except the one  *)
(* that restores a deleted note.  Times of stamps are left out: a stamp is *)
(* set or it is not.  A note's title and body are one text.                *)
(***************************************************************************)
EXTENDS Integers, FiniteSets

CONSTANTS
  Servers,      \* requests that can be in progress at the same time
  Members,      \* members of the workspace who may write
  Admins,       \* those of them who are owner or admin
  Events,       \* citation events
  Notes,        \* notebook entries that can be created
  Texts,        \* contents of a note
  Nothing,      \* no note, no value
  MaxRequests,  \* bound on the requests that write
  MaxRevisions, \* bound on the revisions of a note
  Faults,       \* kinds of fault that may happen
  MaxFaults     \* bound on their number

FaultKinds == {"crash", "store"}

ASSUME ConstantsAssumption ==
  /\ Admins \subseteq Members
  /\ Nothing \notin Notes \cup Texts \cup Members \cup Events
  /\ MaxRequests \in Nat
  /\ MaxRevisions \in Nat \ {0}
  /\ Faults \subseteq FaultKinds
  /\ MaxFaults \in Nat

VARIABLES
  triage,     \* triage[e][m]: the stamps that are set in the member's row
  note,       \* note[n]: the entry, or Nothing
  revisions,  \* revisions[n]: its revisions, a function from their numbers
  pc,         \* pc[s]: the next statement of the request
  mark,       \* mark[s]: a request on a triage state
  edit,       \* edit[s]: a request on a note
  dropped,    \* notes of which a revision was refused, failed or cut off
  crossed,    \* notes of which two saves were in progress at a time
  requests,   \* number of requests so far
  faults      \* number of faults so far

triageVars == <<triage, mark>>
noteVars == <<note, revisions, edit, dropped, crossed>>
vars == <<triage, note, revisions, pc, mark, edit, dropped, crossed, requests, faults>>

-----------------------------------------------------------------------------
(* Rows and requests.                                                       *)

Stamps == {"seen", "saved", "archived", "resolved"}

(* The setters of member-state.ts, the bulk actions being repeated calls.   *)
Marks == {"see", "save", "unsave", "archive", "restore", "resolve", "reopen"}

Visibilities == {"workspace", "private"}
Entry == [author : Members, text : Texts, visibility : Visibilities,
          pinned : BOOLEAN, archived : BOOLEAN, deleted : BOOLEAN]

ASSUME NothingIsNoEntry == Nothing \notin Entry

(* The actions that change one column of the entry.                         *)
Flags == {"archive", "unarchive", "delete", "undelete", "pin", "unpin", "share", "hide"}

NoMark == [kind |-> Nothing, event |-> Nothing, member |-> Nothing, sets |-> {}, clears |-> {}, row |-> {}]
NoEdit == [kind |-> Nothing, note |-> Nothing, seen |-> Nothing, text |-> Nothing, number |-> 0]

Init ==
  /\ triage = [e \in Events |-> [m \in Members |-> {}]]
  /\ note = [n \in Notes |-> Nothing]
  /\ revisions = [n \in Notes |-> [i \in {} |-> Nothing]]
  /\ pc = [s \in Servers |-> "idle"]
  /\ mark = [s \in Servers |-> NoMark]
  /\ edit = [s \in Servers |-> NoEdit]
  /\ dropped = {}
  /\ crossed = {}
  /\ requests = 0
  /\ faults = 0

MayFail(kind) == kind \in Faults /\ faults < MaxFaults
CountFault == faults' = faults + 1

(* A read that fails is answered without an error and looks like no row.    *)
MayRead(value, none, result) ==
  \/ result = value /\ UNCHANGED faults
  \/ MayFail("store") /\ result = none /\ CountFault

Begin(s) ==
  /\ pc[s] = "idle"
  /\ requests < MaxRequests
  /\ requests' = requests + 1

GoTo(s, where) == pc' = [pc EXCEPT ![s] = where]

-----------------------------------------------------------------------------
(* The inbox.                                                               *)

(* Which stamps a setter passes in its patch, by what it read first.        *)
StampOf(kind) ==
  CASE kind = "see" -> "seen"
    [] kind \in {"save", "unsave"} -> "saved"
    [] kind \in {"archive", "restore"} -> "archived"
    [] OTHER -> "resolved"

Setting(kind) == kind \in {"see", "save", "archive", "resolve"}

(* The early return: the stamp is already as wanted.                        *)
Settled(kind, row) == Setting(kind) <=> StampOf(kind) \in row

(* Wrong: clearing a stamp does not acknowledge.                            *)
PatchWithoutSeen(kind, row) == IF Setting(kind) THEN {StampOf(kind)} ELSE {}

(* Every setter but unsave acknowledges the event; unsave passes on the     *)
(* stamp that it read.                                                      *)
PatchSets(kind, row) ==
  (IF Setting(kind) THEN {StampOf(kind)} ELSE {})
    \cup (IF kind = "unsave" THEN {"seen"} \cap row ELSE {"seen"})

PatchClears(kind, row) ==
  (IF Setting(kind) THEN {} ELSE {StampOf(kind)})
    \cup (IF kind = "unsave" THEN {"seen"} \ row ELSE {})

(* A setter reads the row and goes on if there is something to change.      *)
Triage(s, e, m, kind) ==
  /\ Begin(s)
  /\ \E row \in SUBSET Stamps :
       /\ MayRead(triage[e][m], {}, row)
       /\ ~Settled(kind, row)
       /\ mark' = [mark EXCEPT ![s] =
            [kind |-> kind, event |-> e, member |-> m,
             sets |-> PatchSets(kind, row), clears |-> PatchClears(kind, row), row |-> {}]]
  /\ GoTo(s, "merge")
  /\ UNCHANGED <<triage, noteVars>>

(* upsertMemberState reads the row once more, for what the patch leaves.    *)
ReadForMerge(s) ==
  /\ pc[s] = "merge"
  /\ \E row \in SUBSET Stamps :
       /\ MayRead(triage[mark[s].event][mark[s].member], {}, row)
       /\ mark' = [mark EXCEPT ![s].row = row]
  /\ GoTo(s, "upsert")
  /\ UNCHANGED <<triage, noteVars, requests>>

Merged(job) == (job.row \ job.clears) \cup job.sets

(* The whole row is written.  The activity row that follows is a log that   *)
(* nothing reads.  A failed upsert ends the request as if it had not been.  *)
UpsertMemberState(s) ==
  /\ pc[s] = "upsert"
  /\ \/ triage' = [triage EXCEPT ![mark[s].event][mark[s].member] = Merged(mark[s])]
        /\ UNCHANGED faults
     \/ MayFail("store") /\ CountFault /\ UNCHANGED triage
  /\ mark' = [mark EXCEPT ![s] = NoMark]
  /\ GoTo(s, "idle")
  /\ UNCHANGED <<noteVars, requests>>

-----------------------------------------------------------------------------
(* The notebook.                                                            *)

(* A request is between its first and last statement on the text of n.      *)
Saving(n) == \E s \in Servers : edit[s].note = n /\ pc[s] /= "flag"

(* A request on note n begins while another one is in progress.             *)
Crossing(n) == crossed' = IF Saving(n) THEN crossed \cup {n} ELSE crossed

FinishEdit(s) ==
  /\ edit' = [edit EXCEPT ![s] = NoEdit]
  /\ GoTo(s, "idle")

Live(n) == note[n] /= Nothing /\ ~note[n].deleted

CreateNote(s, n, m, text, visibility, pinned) ==
  /\ Begin(s)
  /\ note[n] = Nothing
  /\ note' = [note EXCEPT ![n] =
       [author |-> m, text |-> text, visibility |-> visibility,
        pinned |-> pinned, archived |-> FALSE, deleted |-> FALSE]]
  /\ edit' = [edit EXCEPT ![s] =
       [kind |-> "create", note |-> n, seen |-> Nothing, text |-> text, number |-> 1]]
  /\ GoTo(s, "first")
  /\ UNCHANGED <<triageVars, revisions, dropped, crossed, faults>>

HasRevision(n, i) == i \in DOMAIN revisions[n]
AddRevision(n, i, text) ==
  revisions' = [revisions EXCEPT ![n] =
    [j \in DOMAIN revisions[n] \cup {i} |-> IF j = i THEN text ELSE revisions[n][j]]]

(* Revision 1 holds the text of the creation; whether it was stored is not  *)
(* looked at.                                                               *)
CreateInitialRevision(s) ==
  LET job == edit[s] IN
  /\ pc[s] = "first"
  /\ \/ /\ ~HasRevision(job.note, 1)
        /\ AddRevision(job.note, 1, job.text)
        /\ UNCHANGED <<dropped, faults>>
     \/ /\ HasRevision(job.note, 1)
        /\ dropped' = dropped \cup {job.note}
        /\ UNCHANGED <<revisions, faults>>
     \/ /\ MayFail("store")
        /\ CountFault
        /\ dropped' = dropped \cup {job.note}
        /\ UNCHANGED revisions
  /\ FinishEdit(s)
  /\ UNCHANGED <<triageVars, note, crossed, requests>>

(* updateNotebookEntryAction and restoreNotebookRevisionAction read the     *)
(* entry; the new text is the author's or that of an earlier revision.      *)
OpenNote(s, n, kind, text) ==
  /\ Begin(s)
  /\ Live(n)
  /\ edit' = [edit EXCEPT ![s] =
       [kind |-> kind, note |-> n, seen |-> note[n].text, text |-> text, number |-> 0]]
  /\ Crossing(n)
  /\ GoTo(s, "save")
  /\ UNCHANGED <<triageVars, note, revisions, dropped, faults>>

UpdateNote(s, n, text) == OpenNote(s, n, "update", text)

RestoreRevision(s, n, i) ==
  /\ HasRevision(n, i)
  /\ OpenNote(s, n, "revert", revisions[n][i])

(* Wrong: a restored version is not saved as a revision, being one already. *)
UnchangedOrReverted(job) == job.kind = "revert" \/ job.seen = job.text

Unchanged(job) == job.seen = job.text

(* The entry is updated by id.  A revision follows if the text differs from *)
(* what the request read.                                                   *)
SaveText(s) ==
  LET job == edit[s] IN
  /\ pc[s] = "save"
  /\ \/ /\ note' = [note EXCEPT ![job.note].text = job.text]
        /\ UNCHANGED faults
        /\ IF Unchanged(job) THEN FinishEdit(s) ELSE GoTo(s, "number") /\ UNCHANGED edit
     \/ /\ MayFail("store")
        /\ CountFault
        /\ FinishEdit(s)
        /\ UNCHANGED note
  /\ UNCHANGED <<triageVars, revisions, dropped, crossed, requests>>

(* Wrong: without a revision the newest number is taken to be 1.            *)
NumberAfterOne(known) == IF known = {} THEN 2 ELSE 1 + CHOOSE i \in known : \A j \in known : j <= i

NextNumber(known) == IF known = {} THEN 1 ELSE 1 + CHOOSE i \in known : \A j \in known : j <= i

(* The largest revision number is read, again after a collision.            *)
NumberRevision(s) ==
  /\ pc[s] \in {"number", "renumber"}
  /\ \E known \in SUBSET (1 .. MaxRevisions) :
       /\ MayRead(DOMAIN revisions[edit[s].note], {}, known)
       /\ edit' = [edit EXCEPT ![s].number = NextNumber(known)]
  /\ GoTo(s, IF pc[s] = "number" THEN "insert" ELSE "reinsert")
  /\ UNCHANGED <<triageVars, note, revisions, dropped, crossed, requests>>

(* The unique key refuses a number that is taken.  The first refusal is     *)
(* answered by another attempt, the second by an error, although the text   *)
(* is saved.                                                                *)
Collides(job) == HasRevision(job.note, job.number)

InsertRevision(s) ==
  LET job == edit[s] IN
  /\ pc[s] \in {"insert", "reinsert"}
  /\ ~Collides(job)
  /\ job.number <= MaxRevisions
  /\ AddRevision(job.note, job.number, job.text)
  /\ FinishEdit(s)
  /\ UNCHANGED <<triageVars, note, dropped, crossed, requests, faults>>

RetryRevision(s) ==
  /\ pc[s] = "insert"
  /\ Collides(edit[s])
  /\ GoTo(s, "renumber")
  /\ UNCHANGED <<triageVars, noteVars, requests, faults>>

DropRevision(s) ==
  /\ pc[s] \in {"insert", "reinsert"}
  /\ \/ pc[s] = "reinsert" /\ Collides(edit[s]) /\ UNCHANGED faults
     \/ MayFail("store") /\ CountFault
  /\ dropped' = dropped \cup {edit[s].note}
  /\ FinishEdit(s)
  /\ UNCHANGED <<triageVars, note, revisions, crossed, requests>>

(* The permission checks of permissions.ts, on the row that was read.       *)
MayChange(kind, m, entry) ==
  \/ m = entry.author
  \/ kind \in {"archive", "unarchive", "pin", "unpin"}
       /\ entry.visibility = "workspace" /\ m \in Admins

(* The check meant to keep deleted notes out lets only a deletion pass.     *)
Reachable(kind, entry) == entry.deleted => kind = "delete"

(* mutateNotebookFlags reads the entry and checks, then updates by id.      *)
OpenFlags(s, n, m, kind) ==
  /\ Begin(s)
  /\ note[n] /= Nothing
  /\ Reachable(kind, note[n])
  /\ MayChange(kind, m, note[n])
  /\ edit' = [edit EXCEPT ![s] =
       [kind |-> kind, note |-> n, seen |-> Nothing, text |-> Nothing, number |-> 0]]
  /\ GoTo(s, "flag")
  /\ UNCHANGED <<triageVars, note, revisions, dropped, crossed, faults>>

(* The author asks for a deleted note to be restored and is refused.        *)
RefuseUndelete(s, n) ==
  /\ Begin(s)
  /\ note[n] /= Nothing
  /\ ~Reachable("undelete", note[n])
  /\ MayChange("undelete", note[n].author, note[n])
  /\ UNCHANGED <<triageVars, noteVars, pc, faults>>

Patched(entry, kind) ==
  CASE kind = "archive" -> [entry EXCEPT !.archived = TRUE]
    [] kind = "unarchive" -> [entry EXCEPT !.archived = FALSE]
    [] kind = "delete" -> [entry EXCEPT !.deleted = TRUE]
    [] kind = "undelete" -> [entry EXCEPT !.deleted = FALSE]
    [] kind = "pin" -> [entry EXCEPT !.pinned = TRUE]
    [] kind = "unpin" -> [entry EXCEPT !.pinned = FALSE]
    [] kind = "share" -> [entry EXCEPT !.visibility = "workspace"]
    [] OTHER -> [entry EXCEPT !.visibility = "private"]

WriteFlag(s) ==
  LET job == edit[s] IN
  /\ pc[s] = "flag"
  /\ \/ note' = [note EXCEPT ![job.note] = Patched(note[job.note], job.kind)] /\ UNCHANGED faults
     \/ MayFail("store") /\ CountFault /\ UNCHANGED note
  /\ FinishEdit(s)
  /\ UNCHANGED <<triageVars, revisions, dropped, crossed, requests>>

-----------------------------------------------------------------------------
(* The process dies in the middle of a request.                             *)
Crash(s) ==
  /\ pc[s] /= "idle"
  /\ MayFail("crash")
  /\ CountFault
  /\ mark' = [mark EXCEPT ![s] = NoMark]
  /\ dropped' = IF pc[s] \in {"merge", "upsert", "save", "flag"}
                THEN dropped ELSE dropped \cup {edit[s].note}
  /\ FinishEdit(s)
  /\ UNCHANGED <<triage, note, revisions, crossed, requests>>

Next ==
  \E s \in Servers :
    \/ \E e \in Events, m \in Members, kind \in Marks : Triage(s, e, m, kind)
    \/ ReadForMerge(s)
    \/ UpsertMemberState(s)
    \/ \E n \in Notes :
         \/ \E m \in Members, text \in Texts, v \in Visibilities, pinned \in BOOLEAN :
              CreateNote(s, n, m, text, v, pinned)
         \/ \E text \in Texts : UpdateNote(s, n, text)
         \/ \E i \in 1 .. MaxRevisions : RestoreRevision(s, n, i)
         \/ \E m \in Members, kind \in Flags : OpenFlags(s, n, m, kind)
         \/ RefuseUndelete(s, n)
    \/ CreateInitialRevision(s)
    \/ SaveText(s)
    \/ NumberRevision(s)
    \/ InsertRevision(s)
    \/ RetryRevision(s)
    \/ DropRevision(s)
    \/ WriteFlag(s)
    \/ Crash(s)

Spec == Init /\ [][Next]_vars

-----------------------------------------------------------------------------
(* Properties.                                                              *)

(* Every variable keeps its type; in particular the revisions of a note are *)
(* numbered from 1 without gaps, whatever collides or fails                 *)
(* (notebook.md: numbers are sequential per note).                          *)
TypeOK ==
  /\ triage \in [Events -> [Members -> SUBSET Stamps]]
  /\ note \in [Notes -> Entry \cup {Nothing}]
  /\ \A n \in Notes :
       \E k \in 0 .. MaxRevisions : revisions[n] \in [1 .. k -> Texts]
  /\ pc \in [Servers -> {"idle", "merge", "upsert", "first", "save", "number",
                         "insert", "renumber", "reinsert", "flag"}]
  /\ \A s \in Servers :
       /\ mark[s].kind \in Marks \cup {Nothing}
       /\ mark[s].sets \subseteq Stamps /\ mark[s].clears \subseteq Stamps /\ mark[s].row \subseteq Stamps
       /\ edit[s].note \in Notes \cup {Nothing}
       /\ edit[s].number \in 0 .. MaxRevisions + 1
  /\ dropped \subseteq Notes
  /\ crossed \subseteq Notes
  /\ requests \in 0 .. MaxRequests
  /\ faults \in 0 .. MaxFaults

(* Acknowledging an event lasts: the upsert writes the whole row from two   *)
(* reads that may both be stale, or look like no row at all, and yet an     *)
(* event that was seen never becomes unseen.                                *)
SeenStaysSeen ==
  [][\A e \in Events, m \in Members : "seen" \in triage[e][m] => "seen" \in triage'[e][m]]_vars

(* An event that is saved, archived or resolved is also seen, as the setters*)
(* intend ("saving an event also acknowledges it"), however they interleave.*)
TriagedIsSeen ==
  \A e \in Events, m \in Members : triage[e][m] /= {} => "seen" \in triage[e][m]

(* What a note says when nothing is being saved is in its history, even if  *)
(* saves of two tabs collided, unless one of its revisions was refused      *)
(* twice, failed or was cut off.  If saves of it never overlapped it is the *)
(* newest revision, also after an earlier version was restored.             *)
CurrentIsRecorded ==
  \A n \in Notes :
    note[n] /= Nothing /\ ~Saving(n) /\ n \notin dropped
      => \E i \in DOMAIN revisions[n] :
           /\ revisions[n][i] = note[n].text
           /\ n \in crossed \/ i = Cardinality(DOMAIN revisions[n])

=============================================================================
