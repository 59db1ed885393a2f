----------------------------- MODULE FormsProofs -----------------------------
(***************************************************************************)
(* Proofs about the browser's forms: the notes of a run, the resume        *)
(* dialog, the log of a service, the retention setting and the log search, *)
(* for any number of requests in flight, in any order, and any number of   *)
(* them lost.                                                              *)
(***************************************************************************)
EXTENDS RunNotes, LogSearch, ResumeDialog, ServiceLog, Settings, FiniteSetTheorems, WellFoundedInduction, TLAPS

-----------------------------------------------------------------------------
(* The notes of a run.                                                     *)

NoteRow  == [id : Nat, body : Nat]
NoteSent == [kind : {"create", "edit", "remove"}, row : NoteRow, was : NoteRow,
             reply : {"none", "done", "failed"}]
Draft    == [body : Nat, sending : BOOLEAN]

NoteTypes ==
  /\ typed \in Nat /\ created \in Nat
  /\ notesDb \subseteq NoteRow /\ notes \subseteq NoteRow /\ reads \subseteq SUBSET NoteRow
  /\ drafts \subseteq Draft /\ writes \subseteq NoteSent

\* The first half of NothingTypedIsLost.
BodiesKept == \A b \in 1 .. typed : b \in settled \cup told \/ BeingSaved(b) \/ \E d \in drafts : d.body = b

\* What the server has, and so every read of it, is others' or was taken from here.
OnRecord(rows) == \A n \in rows : n.body \in settled \cup {0}
ReadsAreTaken == \A rows \in reads \cup {notesDb} : OnRecord(rows)

\* A note on screen that the server did not take is the row of an edit under way.
ShownIsTaken == \A n \in notes : n.body \in settled \cup {0} \/ \E w \in writes : w.kind = "edit" /\ w.row = n

\* An answered write was taken; and an edit has the note to go back to, which no
\* editor is open on meanwhile: so that note is never itself an edit under way.
WritesKnown == \A w \in writes :
  /\ w.kind # "remove" /\ w.reply = "done" => w.row.body \in settled
  /\ w.kind = "edit" => /\ w.was.id = w.row.id /\ w.was.body \in settled \cup {0}
                        /\ editing = 0 \/ w.row.id # editing

NotesInv == NoteTypes /\ BodiesKept /\ ReadsAreTaken /\ ShownIsTaken /\ WritesKnown

LEMMA InitNotes == NotesInit => NotesInv
<1> SUFFICES ASSUME NotesInit PROVE NotesInv
  OBVIOUS
<1>1. notesDb \subseteq NoteRow /\ created \in Nat /\ \A n \in notesDb : n.body = 0
  <2>1. CASE notesDb = {}
    BY <2>1, FS_EmptySet DEF NotesInit
  <2>2. CASE notesDb = {[id |-> 1, body |-> 0]}
    <3>1. Cardinality(notesDb) = 1
      BY <2>2, FS_Singleton, Zenon
    <3>2. [id |-> 1, body |-> 0] \in NoteRow
      BY DEF NoteRow
    <3> QED
      BY <2>2, <3>1, <3>2 DEF NotesInit
  <2> QED
    BY <2>1, <2>2 DEF NotesInit
<1>2. NoteTypes
  BY <1>1 DEF NotesInit, NoteTypes
<1>3. BodiesKept /\ ReadsAreTaken /\ ShownIsTaken /\ WritesKnown
  BY <1>1 DEF NotesInit, BodiesKept, ReadsAreTaken, OnRecord, ShownIsTaken, WritesKnown
<1> QED
  BY <1>2, <1>3 DEF NotesInv

LEMMA NotesTyped == NotesInv => NoteTypes /\ BodiesKept /\ ReadsAreTaken /\ ShownIsTaken /\ WritesKnown
BY DEF NotesInv

\* A body keeps its draft, or its edit, or is known about by then.
LEMMA StillKept ==
  ASSUME BodiesKept, typed' = typed, settled \subseteq settled', told \subseteq told',
         \A w \in writes : w.kind = "edit" => w.row.body \in settled' \cup told' \/ BeingSaved(w.row.body)',
         \A d \in drafts : d.body \in settled' \/ \E e \in drafts' : e.body = d.body
  PROVE  BodiesKept'
<1> SUFFICES ASSUME NEW b \in 1 .. typed
             PROVE  b \in settled' \cup told' \/ BeingSaved(b)' \/ \E d \in drafts' : d.body = b
  BY DEF BodiesKept
<1>1. CASE b \in settled \cup told
  BY <1>1
<1>2. CASE BeingSaved(b)
  BY <1>2 DEF BeingSaved
<1>3. CASE \E d \in drafts : d.body = b
  BY <1>3
<1> QED
  BY <1>1, <1>2, <1>3 DEF BodiesKept

\* The steps of the page and of others that touch neither drafts nor writes.
LEMMA NotesAside ==
  ASSUME NotesInv, UNCHANGED <<drafts, writes, typed, settled, told>>,
         created' \in Nat, notesDb' \subseteq NoteRow, notes' \subseteq NoteRow,
         reads' \subseteq SUBSET NoteRow,
         \A rows \in reads' \cup {notesDb'} : OnRecord(rows),
         notes' = notes \/ OnRecord(notes'),
         editing' \in {editing, 0} \/ ~Busy(editing')
  PROVE  NotesInv'
<1>1. NoteTypes'
  BY DEF NotesInv, NoteTypes
<1>2. BodiesKept' /\ ReadsAreTaken'
  BY DEF NotesInv, BodiesKept, BeingSaved, ReadsAreTaken, OnRecord
<1>3. ShownIsTaken'
  BY DEF NotesInv, ShownIsTaken, OnRecord
<1>4. WritesKnown'
  BY DEF NotesInv, WritesKnown, Busy
<1> QED
  BY <1>1, <1>2, <1>3, <1>4 DEF NotesInv

\* A create under way says nothing of the thread yet.
LEMMA CreateGoesOut ==
  ASSUME NotesInv, NEW w, w.kind = "create", w.reply = "none", writes' = writes \cup {w},
         UNCHANGED <<notesDb, notes, editing, reads, settled>>
  PROVE  ReadsAreTaken' /\ ShownIsTaken' /\ WritesKnown'
<1>1. ReadsAreTaken'
  BY DEF NotesInv, ReadsAreTaken, OnRecord
<1>2. ShownIsTaken'
  BY DEF NotesInv, ShownIsTaken
<1>3. WritesKnown'
  BY DEF NotesInv, WritesKnown
<1> QED
  BY <1>1, <1>2, <1>3

LEMMA SubmitKeeps ==
  ASSUME NotesInv, Submit
  PROVE  NotesInv'
<1> DEFINE w == [kind |-> "create", row |-> [NoRow EXCEPT !.body = typed'], was |-> NoRow, reply |-> "none"]
           d == [body |-> typed', sending |-> TRUE]
<1>1. typed' = typed + 1 /\ typed \in Nat /\ typed' \in Nat
  BY DEF Submit, NotesInv, NoteTypes
<1>2. w \in NoteSent /\ w.kind = "create" /\ w.reply = "none" /\ d \in Draft /\ d.body = typed'
  BY <1>1 DEF NoteSent, NoteRow, NoRow, Draft
<1>3. drafts' = drafts \cup {d} /\ writes' = writes \cup {w}
      /\ UNCHANGED <<notesDb, created, notes, editing, reads, settled, told>>
  BY DEF Submit
<1> HIDE DEF w, d
<1>4. NoteTypes'
  BY <1>1, <1>2, <1>3 DEF NotesInv, NoteTypes
<1>5. ReadsAreTaken' /\ ShownIsTaken' /\ WritesKnown'
  BY <1>2, <1>3, CreateGoesOut
<1>6. BodiesKept'
  <2> SUFFICES ASSUME NEW b \in 1 .. typed'
               PROVE  b \in settled' \cup told' \/ BeingSaved(b)' \/ \E e \in drafts' : e.body = b
    BY DEF BodiesKept
  <2>1. CASE b = typed'
    BY <2>1, <1>2, <1>3
  <2>2. CASE b # typed'
    <3>1. b \in 1 .. typed
      BY <2>2, <1>1
    <3> QED
      BY <3>1, <1>3 DEF NotesInv, BodiesKept, BeingSaved
  <2> QED
    BY <2>1, <2>2
<1> QED
  BY <1>4, <1>5, <1>6 DEF NotesInv

LEMMA SendAgainKeeps ==
  ASSUME NotesInv, NEW d \in drafts, SendAgain(d)
  PROVE  NotesInv'
<1> DEFINE w == [kind |-> "create", row |-> [NoRow EXCEPT !.body = d.body], was |-> NoRow, reply |-> "none"]
           again == [d EXCEPT !.sending = TRUE]
<1>1. d \in Draft
  BY DEF NotesInv, NoteTypes
<1>2. w \in NoteSent /\ w.kind = "create" /\ w.reply = "none" /\ again \in Draft /\ again.body = d.body
  BY <1>1 DEF NoteSent, NoteRow, NoRow, Draft
<1>3. drafts' = (drafts \ {d}) \cup {again} /\ writes' = writes \cup {w}
      /\ UNCHANGED <<notesDb, created, notes, editing, reads, typed, settled, told>>
  BY DEF SendAgain
<1> HIDE DEF w, again
<1>4. NoteTypes'
  BY <1>2, <1>3 DEF NotesInv, NoteTypes
<1>5. ReadsAreTaken' /\ ShownIsTaken' /\ WritesKnown'
  BY <1>2, <1>3, CreateGoesOut
<1>6. BodiesKept'
  BY <1>2, <1>3, StillKept, NotesTyped DEF BeingSaved
<1> QED
  BY <1>4, <1>5, <1>6 DEF NotesInv

LEMMA DiscardKeeps ==
  ASSUME NotesInv, NEW d \in drafts, Discard(d)
  PROVE  NotesInv'
<1>1. drafts' = drafts \ {d} /\ settled' = settled \cup {d.body}
      /\ UNCHANGED <<notesDb, created, notes, editing, writes, reads, typed, told>>
  BY DEF Discard
<1>2. NoteTypes'
  BY <1>1 DEF NotesInv, NoteTypes
<1>3. ReadsAreTaken' /\ ShownIsTaken' /\ WritesKnown'
  BY <1>1 DEF NotesInv, ReadsAreTaken, OnRecord, ShownIsTaken, WritesKnown
<1>4. BodiesKept'
  BY <1>1, StillKept, NotesTyped DEF BeingSaved
<1> QED
  BY <1>2, <1>3, <1>4 DEF NotesInv

\* The note under the editor is not an edit under way, so it can be gone back to.
LEMMA SaveEditKeeps ==
  ASSUME NotesInv, SaveEdit
  PROVE  NotesInv'
<1>1. PICK n \in notes :
        /\ n.id = editing
        /\ LET new == [n EXCEPT !.body = typed']
           IN  /\ notes' = Without(notes, n.id) \cup {new}
               /\ writes' = writes \cup {[kind |-> "edit", row |-> new, was |-> n, reply |-> "none"]}
  BY DEF SaveEdit
<1> DEFINE new == [n EXCEPT !.body = typed']
           w == [kind |-> "edit", row |-> new, was |-> n, reply |-> "none"]
<1>2. typed' = typed + 1 /\ typed \in Nat /\ typed' \in Nat /\ n \in NoteRow
  BY DEF SaveEdit, NotesInv, NoteTypes
<1>3. new \in NoteRow /\ new.body = typed' /\ new.id = n.id
  BY <1>2 DEF NoteRow
<1>4. w \in NoteSent /\ w.kind = "edit" /\ w.row = new /\ w.was = n /\ w.reply = "none"
  BY <1>2, <1>3 DEF NoteSent
<1>5. notes' = Without(notes, n.id) \cup {new} /\ writes' = writes \cup {w}
  BY <1>1
<1>6. UNCHANGED <<notesDb, created, drafts, reads, settled, told>> /\ editing # 0 /\ editing' = 0
  BY DEF SaveEdit
<1> HIDE DEF new, w
<1>7. NoteTypes'
  BY <1>2, <1>3, <1>4, <1>5, <1>6 DEF NotesInv, NoteTypes, Without
<1>8. ReadsAreTaken'
  BY <1>6 DEF NotesInv, ReadsAreTaken, OnRecord
<1>9. ShownIsTaken'
  BY <1>4, <1>5, <1>6 DEF NotesInv, ShownIsTaken, Without
<1>10. n.body \in settled \cup {0}
  BY <1>1, <1>6 DEF NotesInv, ShownIsTaken, WritesKnown
<1>11. WritesKnown'
  BY <1>3, <1>4, <1>5, <1>6, <1>10 DEF NotesInv, WritesKnown
<1>12. BodiesKept'
  <2> SUFFICES ASSUME NEW b \in 1 .. typed'
               PROVE  b \in settled' \cup told' \/ BeingSaved(b)' \/ \E e \in drafts' : e.body = b
    BY DEF BodiesKept
  <2>1. CASE b = typed'
    BY <2>1, <1>3, <1>4, <1>5 DEF BeingSaved
  <2>2. CASE b # typed'
    <3>1. b \in 1 .. typed
      BY <2>2, <1>2
    <3> QED
      BY <3>1, <1>5, <1>6 DEF NotesInv, BodiesKept, BeingSaved
  <2> QED
    BY <2>1, <2>2
<1> QED
  BY <1>7, <1>8, <1>9, <1>11, <1>12 DEF NotesInv

LEMMA RemoveKeeps ==
  ASSUME NotesInv, NEW n \in notes, Remove(n)
  PROVE  NotesInv'
<1> DEFINE w == [kind |-> "remove", row |-> n, was |-> n, reply |-> "none"]
<1>1. w \in NoteSent /\ w.kind = "remove" /\ w.reply = "none"
  BY DEF NoteSent, NotesInv, NoteTypes
<1>2. writes' = writes \cup {w}
      /\ UNCHANGED <<notesDb, created, notes, drafts, editing, reads, typed, settled, told>>
  BY DEF Remove
<1> HIDE DEF w
<1>3. NoteTypes'
  BY <1>1, <1>2 DEF NotesInv, NoteTypes
<1>4. ReadsAreTaken' /\ ShownIsTaken'
  BY <1>2 DEF NotesInv, ReadsAreTaken, OnRecord, ShownIsTaken
<1>5. WritesKnown'
  BY <1>1, <1>2 DEF NotesInv, WritesKnown
<1>6. BodiesKept'
  BY <1>2, StillKept, NotesTyped DEF BeingSaved
<1> QED
  BY <1>3, <1>4, <1>5, <1>6 DEF NotesInv

\* A write that is answered or lost on the way is still of the row it was of.
LEMMA AnsweredKeeps ==
  ASSUME NotesInv, NEW w \in writes, NEW v \in NoteSent, writes' = (writes \ {w}) \cup {v},
         v.kind = w.kind, v.was = w.was, v.kind = "edit" => v.row = w.row,
         v.kind # "remove" /\ v.reply = "done" => v.row.body \in settled',
         created' \in Nat, notesDb' \subseteq NoteRow, settled \subseteq settled', OnRecord(notesDb)',
         UNCHANGED <<notes, drafts, editing, reads, typed, told>>
  PROVE  NotesInv'
<1>1. NoteTypes'
  BY DEF NotesInv, NoteTypes
<1>2. ReadsAreTaken'
  BY DEF NotesInv, ReadsAreTaken, OnRecord
<1>3. ShownIsTaken'
  BY DEF NotesInv, ShownIsTaken
<1>4. WritesKnown'
  BY DEF NotesInv, WritesKnown
<1>5. BodiesKept'
  BY StillKept, NotesTyped DEF BeingSaved
<1> QED
  BY <1>1, <1>2, <1>3, <1>4, <1>5 DEF NotesInv

LEMMA ServeKeeps ==
  ASSUME NotesInv, NEW w \in writes, Serve(w)
  PROVE  NotesInv'
<1>1. w \in NoteSent /\ w.row \in NoteRow /\ created \in Nat /\ notesDb \subseteq NoteRow
  BY DEF NotesInv, NoteTypes, NoteSent
<1>2. UNCHANGED <<notes, drafts, editing, reads, typed, told>> /\ OnRecord(notesDb)
  BY DEF Serve, NotesInv, ReadsAreTaken
<1> DEFINE row == [w.row EXCEPT !.id = created']
           done == [w EXCEPT !.row = row, !.reply = "done"]
           same == [w EXCEPT !.row = w.row, !.reply = "done"]
           lost == [w EXCEPT !.reply = "failed"]
<1>3. same \in NoteSent /\ same.kind = w.kind /\ same.was = w.was /\ same.row = w.row
      /\ lost \in NoteSent /\ lost.kind = w.kind /\ lost.was = w.was /\ lost.row = w.row /\ lost.reply = "failed"
  BY <1>1 DEF NoteSent
<1>4. CASE w.kind = "create" /\ created' = created + 1 /\ writes' = (writes \ {w}) \cup {done}
           /\ notesDb' = notesDb \cup {row} /\ settled' = settled \cup {w.row.body}
  <2>1. created' \in Nat /\ row \in NoteRow /\ row.body = w.row.body
    BY <1>1, <1>4 DEF NoteRow
  <2>2. done \in NoteSent /\ done.row.body = w.row.body /\ done.kind = w.kind /\ done.was = w.was
    <3> HIDE DEF row
    <3> QED
      BY <1>1, <2>1 DEF NoteSent
  <2>3. notesDb' \subseteq NoteRow /\ OnRecord(notesDb)'
    <3> HIDE DEF row
    <3> QED
      BY <1>1, <1>2, <1>4, <2>1 DEF OnRecord
  <2> HIDE DEF row, done
  <2> QED
    BY <1>2, <1>4, <2>1, <2>2, <2>3, AnsweredKeeps
<1>5. CASE w.kind = "edit" /\ writes' = (writes \ {w}) \cup {same} /\ created' = created
           /\ notesDb' = Without(notesDb, w.row.id) \cup {w.row} /\ settled' = settled \cup {w.row.body}
  <2>1. notesDb' \subseteq NoteRow /\ OnRecord(notesDb)'
    BY <1>1, <1>2, <1>5 DEF Without, OnRecord
  <2> HIDE DEF same
  <2> QED
    BY <1>1, <1>2, <1>3, <1>5, <2>1, AnsweredKeeps
<1>6. CASE w.kind = "remove" /\ writes' = (writes \ {w}) \cup {same}
           /\ notesDb' = Without(notesDb, w.row.id) /\ UNCHANGED <<created, settled>>
  <2>1. notesDb' \subseteq NoteRow /\ OnRecord(notesDb)'
    BY <1>1, <1>2, <1>6 DEF Without, OnRecord
  <2> HIDE DEF same
  <2> QED
    BY <1>1, <1>2, <1>3, <1>6, <2>1, AnsweredKeeps
<1>7. CASE writes' = (writes \ {w}) \cup {lost} /\ UNCHANGED <<notesDb, created, settled>>
  <2>1. notesDb' \subseteq NoteRow /\ OnRecord(notesDb)'
    BY <1>1, <1>2, <1>7 DEF OnRecord
  <2> HIDE DEF lost
  <2> QED
    BY <1>1, <1>2, <1>3, <1>7, <2>1, AnsweredKeeps
<1> QED
  BY <1>4, <1>5, <1>6, <1>7 DEF Serve

LEMMA LoseWriteKeeps ==
  ASSUME NotesInv, NEW w \in writes, LoseWrite(w)
  PROVE  NotesInv'
<1> DEFINE lost == [w EXCEPT !.reply = "failed"]
<1>1. writes' = (writes \ {w}) \cup {lost}
      /\ UNCHANGED <<notesDb, created, notes, drafts, editing, reads, typed, settled, told>>
  BY DEF LoseWrite
<1>2. lost \in NoteSent /\ lost.reply = "failed" /\ lost.kind = w.kind /\ lost.was = w.was /\ lost.row = w.row
  BY DEF NotesInv, NoteTypes, NoteSent
<1>3. created' \in Nat /\ notesDb' \subseteq NoteRow /\ OnRecord(notesDb)'
  BY <1>1 DEF NotesInv, NoteTypes, ReadsAreTaken, OnRecord
<1> HIDE DEF lost
<1> QED
  BY <1>1, <1>2, <1>3, AnsweredKeeps

LEMMA WrittenKeeps ==
  ASSUME NotesInv, NEW w \in writes, Written(w)
  PROVE  NotesInv'
<1>1. w.kind \in {"create", "edit", "remove"} /\ w.row \in NoteRow /\ notes \subseteq NoteRow
      /\ (w.kind # "remove" => w.row.body \in settled)
  BY DEF NotesInv, NoteTypes, NoteSent, WritesKnown, Written
<1>2. w.reply = "done" /\ writes' = writes \ {w}
      /\ drafts' = (IF w.kind = "create" THEN {d \in drafts : d.body # w.row.body} ELSE drafts)
      /\ UNCHANGED <<notesDb, created, editing, reads, typed, settled, told>>
  BY DEF Written
<1>3. \A n \in notes' : n \in NoteRow /\ (n.body \in settled \/ (n \in notes /\ ~(w.kind = "edit" /\ w.row = n)))
  <2>1. CASE w.kind = "create"
    BY <1>1, <2>1 DEF Written
  <2>2. CASE w.kind = "edit"
    <3>1. notes' = {IF n.id = w.row.id THEN w.row ELSE n : n \in notes}
      BY <2>2 DEF Written
    <3>2. \A n \in notes' : n = w.row \/ (n \in notes /\ n.id # w.row.id)
      BY <3>1
    <3> QED
      BY <1>1, <2>2, <3>2
  <2>3. CASE w.kind = "remove"
    BY <1>1, <2>3 DEF Written, Without
  <2> QED
    BY <1>1, <2>1, <2>2, <2>3
<1>4. NoteTypes'
  BY <1>2, <1>3 DEF NotesInv, NoteTypes
<1>5. ReadsAreTaken' /\ WritesKnown'
  BY <1>2 DEF NotesInv, ReadsAreTaken, OnRecord, WritesKnown
<1>6. ShownIsTaken'
  BY <1>2, <1>3 DEF NotesInv, ShownIsTaken
<1>7. \A d \in drafts : d.body \in settled' \/ d \in drafts'
  BY <1>1, <1>2
<1>8. BodiesKept'
  <2>1. \A v \in writes : v.kind = "edit" => v.row.body \in settled' \/ v \in writes'
    BY <1>1, <1>2
  <2> QED
    BY <1>2, <1>7, <2>1, StillKept, NotesTyped DEF BeingSaved
<1> QED
  BY <1>4, <1>5, <1>6, <1>8 DEF NotesInv

\* A rollback goes back to a note the server has or had, and says so.
LEMMA WriteFailsKeeps ==
  ASSUME NotesInv, NEW w \in writes, WriteFails(w)
  PROVE  NotesInv'
<1> DEFINE Kept(d) == IF w.kind = "create" /\ d.body = w.row.body THEN [d EXCEPT !.sending = FALSE] ELSE d
<1>1. writes' = writes \ {w} /\ drafts' = {Kept(d) : d \in drafts}
      /\ UNCHANGED <<notesDb, created, editing, reads, typed, settled>>
      /\ told' = IF w.kind = "edit" THEN told \cup {w.row.body} ELSE told
  BY DEF WriteFails, RollBack
<1>2. notes \subseteq NoteRow /\ w.was \in NoteRow
      /\ (w.kind = "edit" => w.was.id = w.row.id /\ w.was.body \in settled \cup {0})
  BY DEF NotesInv, NoteTypes, NoteSent, WritesKnown
<1>3. \A n \in notes' : n \in NoteRow /\ (n.body \in settled \cup {0} \/ (n \in notes /\ ~(w.kind = "edit" /\ w.row = n)))
  <2>1. CASE w.kind = "edit"
    <3>1. notes' = {IF n.id = w.was.id THEN w.was ELSE n : n \in notes}
      BY <2>1 DEF WriteFails, RollBack
    <3>2. \A n \in notes' : n = w.was \/ (n \in notes /\ n.id # w.was.id)
      BY <3>1
    <3> QED
      BY <1>2, <2>1, <3>2
  <2>2. CASE w.kind # "edit"
    BY <1>2, <2>2 DEF WriteFails, RollBack
  <2> QED
    BY <2>1, <2>2
<1>4. \A d \in drafts : Kept(d) \in Draft /\ Kept(d).body = d.body
  BY DEF NotesInv, NoteTypes, Draft
<1> HIDE DEF Kept
<1>5. NoteTypes'
  BY <1>1, <1>3, <1>4 DEF NotesInv, NoteTypes
<1>6. ReadsAreTaken' /\ WritesKnown'
  BY <1>1 DEF NotesInv, ReadsAreTaken, OnRecord, WritesKnown
<1>7. ShownIsTaken'
  BY <1>1, <1>3 DEF NotesInv, ShownIsTaken
<1>8. BodiesKept'
  <2>1. \A v \in writes : v.kind = "edit" => v.row.body \in told' \/ v \in writes'
    BY <1>1
  <2>2. \A d \in drafts : \E e \in drafts' : e.body = d.body
    BY <1>1, <1>4
  <2>3. told \subseteq told'
    BY <1>1
  <2> QED
    BY <1>1, <2>1, <2>2, <2>3, StillKept, NotesTyped DEF BeingSaved
<1> QED
  BY <1>5, <1>6, <1>7, <1>8 DEF NotesInv

LEMMA NotesStep == NotesInv /\ [NotesNext]_noteVars => NotesInv'
<1> SUFFICES ASSUME NotesInv, [NotesNext]_noteVars PROVE NotesInv'
  OBVIOUS
<1>1. notesDb \subseteq NoteRow /\ notes \subseteq NoteRow /\ reads \subseteq SUBSET NoteRow
      /\ reads \cup {notesDb} \subseteq SUBSET NoteRow /\ created \in Nat
      /\ \A rows \in reads \cup {notesDb} : OnRecord(rows)
  BY DEF NotesInv, NoteTypes, ReadsAreTaken
<1>2. CASE Submit
  BY <1>2, SubmitKeeps
<1>3. CASE SaveEdit
  BY <1>3, SaveEditKeeps
<1>4. CASE CancelEdit \/ TryAgain \/ Hear \/ \E n \in notes : Edit(n)
  BY <1>1, <1>4, NotesAside DEF CancelEdit, TryAgain, Hear, Edit
<1>5. CASE Others
  <2>1. [id |-> created + 1, body |-> 0] \in NoteRow /\ created + 1 \in Nat
    BY <1>1 DEF NoteRow
  <2>2. \A n \in NoteRow : [n EXCEPT !.body = 0] \in NoteRow /\ [n EXCEPT !.body = 0].body = 0
    BY DEF NoteRow
  <2>3. created' \in Nat /\ notesDb' \subseteq NoteRow /\ OnRecord(notesDb')
    <3>1. CASE created' = created + 1 /\ notesDb' = notesDb \cup {[id |-> created', body |-> 0]}
      BY <1>1, <2>1, <3>1 DEF OnRecord
    <3>2. CASE /\ created' = created
               /\ \E n \in notesDb : notesDb' \in {notesDb \ {n}, Without(notesDb, n.id) \cup {[n EXCEPT !.body = 0]}}
      <4>1. PICK n \in notesDb : notesDb' \in {notesDb \ {n}, Without(notesDb, n.id) \cup {[n EXCEPT !.body = 0]}}
        BY <3>2
      <4>2. Without(notesDb, n.id) \subseteq notesDb
        BY DEF Without
      <4>3. n \in NoteRow /\ [n EXCEPT !.body = 0] \in NoteRow /\ [n EXCEPT !.body = 0].body = 0
        BY <1>1, <2>2
      <4>4. notesDb' \subseteq notesDb \cup {[n EXCEPT !.body = 0]}
        BY <4>1, <4>2
      <4> QED
        BY <1>1, <3>2, <4>3, <4>4 DEF OnRecord
    <3> QED
      BY <1>5, <3>1, <3>2 DEF Others
  <2> QED
    BY <1>1, <1>5, <2>3, NotesAside DEF Others
<1>6. ASSUME NEW d \in drafts, SendAgain(d) \/ Discard(d) PROVE NotesInv'
  BY <1>6, SendAgainKeeps, DiscardKeeps
<1>7. ASSUME NEW n \in notes, Remove(n) PROVE NotesInv'
  BY <1>7, RemoveKeeps
<1>8. ASSUME NEW w \in writes, Serve(w) \/ LoseWrite(w) \/ Written(w) \/ WriteFails(w) PROVE NotesInv'
  BY <1>8, ServeKeeps, LoseWriteKeeps, WrittenKeeps, WriteFailsKeeps
<1>9. ASSUME NEW rows \in reads, LandNotes(rows) \/ LoseRead(rows) PROVE NotesInv'
  BY <1>1, <1>9, NotesAside DEF LandNotes, LoseRead
<1>10. CASE UNCHANGED noteVars
  BY <1>1, <1>10, NotesAside DEF noteVars
<1> QED
  BY <1>2, <1>3, <1>4, <1>5, <1>6, <1>7, <1>8, <1>9, <1>10 DEF NotesNext

\* "A note that failed to land stays on screen" (RunNotes.tsx): whatever is lost,
\* refused or answered late, every body its author submitted is a draft, or being
\* saved over a note, or the server took it, or its author discarded it or was told
\* that an edit was not saved; and the thread shows nothing else of this page's.
THEOREM NotesAreKept == NotesSpec => []NothingTypedIsLost
<1>1. NotesInv => NothingTypedIsLost
  BY DEF NotesInv, BodiesKept, ShownIsTaken, NothingTypedIsLost, BeingSaved
<1> QED
  BY <1>1, InitNotes, NotesStep, PTL DEF NotesSpec

-----------------------------------------------------------------------------
(* The plan of the resume dialog.                                          *)

PlanShape == [of : SUBSET PlanTask, resumable : BOOLEAN, reuse : SUBSET PlanTask, known : BOOLEAN]
PlanAsked == [of : SUBSET PlanTask, guarded : BOOLEAN, alive : BOOLEAN, reply : PlanShape,
              at : {"asked", "done", "refused"}]
Posted    == {"none", "asked", "done", "refused"}

PlanTypes ==
  /\ failedRun \in BOOLEAN /\ forced \subseteq PlanTask /\ planReads \subseteq PlanAsked
  /\ opened \in BOOLEAN /\ planError \in BOOLEAN /\ submitError \in BOOLEAN
  /\ post \in Posted /\ leftPost \in Posted
  /\ covered \in {"loading", "reloading", "no"}

\* A closed dialog asks for nothing.  An answer is that of its question, and the
\* reads that an effect may still land are of the tasks forced now.
ReadsAreOfTheChoice ==
  /\ ~opened => planReads = {} /\ post = "none"
  /\ \A r \in planReads : /\ r.at = "done" => r.reply.of = r.of
                          /\ r.guarded /\ r.alive => r.of = forced

\* Until a resume is refused, every read is an effect's, and the plan they left
\* is of the tasks forced.
NothingRefused == opened /\ ~submitError /\ post = "none"
PlanFollows ==
  NothingRefused => /\ \A r \in planReads : r.guarded
                    /\ covered = "no" /\ ~planError => plan.of = forced

PlanInv == PlanTypes /\ ReadsAreOfTheChoice /\ PlanFollows

LEMMA InitPlan == PlanInit => PlanInv
BY DEF PlanInit, PlanInv, PlanTypes, Posted, ReadsAreOfTheChoice, PlanFollows, NothingRefused

LEMMA AskShape ==
  ASSUME NEW F \in SUBSET PlanTask, NEW g \in BOOLEAN
  PROVE  /\ Ask(F, g) \in PlanAsked /\ Ask(F, g).of = F /\ Ask(F, g).guarded = g
         /\ Ask(F, g).at = "asked"
BY DEF Ask, NoPlan, PlanAsked, PlanShape

LEMMA StillShape ==
  ASSUME NEW r \in PlanAsked, NEW b \in BOOLEAN
  PROVE  LET s == [r EXCEPT !.alive = b]
         IN  /\ s \in PlanAsked /\ s.of = r.of /\ s.reply = r.reply
             /\ s.at = r.at /\ s.guarded = r.guarded /\ s.alive = b
BY DEF PlanAsked

LEMMA ToggleKeeps ==
  ASSUME PlanInv, opened, NEW F \in SUBSET PlanTask, Toggle(F)
  PROVE  PlanInv'
<1> DEFINE Retire(r) == [r EXCEPT !.alive = r.alive /\ ~r.guarded]
<1>1. /\ forced' = F /\ covered' = "reloading"
      /\ planReads' = {Retire(r) : r \in planReads} \cup {Ask(F, TRUE)}
      /\ UNCHANGED <<failedRun, plan, planError, post, submitError, opened, leftPost>>
  BY DEF Toggle, Retired, Closed
<1>2. ASSUME NEW r \in PlanAsked
      PROVE  /\ Retire(r) \in PlanAsked /\ Retire(r).of = r.of /\ Retire(r).reply = r.reply
             /\ Retire(r).at = r.at /\ Retire(r).guarded = r.guarded
             /\ r.guarded => ~Retire(r).alive
  <2> DEFINE b == r.alive /\ ~r.guarded
  <2>1. b \in BOOLEAN
    OBVIOUS
  <2>2. r.guarded => ~b
    OBVIOUS
  <2>3. Retire(r) = [r EXCEPT !.alive = b]
    OBVIOUS
  <2> HIDE DEF b, Retire
  <2> QED
    BY <2>1, <2>2, <2>3, StillShape
<1> HIDE DEF Retire
<1>3. planReads \subseteq PlanAsked
  BY DEF PlanInv, PlanTypes
<1>4. /\ Ask(F, TRUE) \in PlanAsked /\ Ask(F, TRUE).of = F /\ Ask(F, TRUE).guarded
      /\ Ask(F, TRUE).at # "done"
  BY AskShape
<1>5. PlanTypes'
  BY <1>1, <1>2, <1>3, <1>4 DEF PlanInv, PlanTypes
<1>6. ASSUME NEW s \in planReads'
      PROVE  \/ s.guarded /\ s.of = F /\ s.at # "done"
             \/ \E r \in planReads : /\ s.of = r.of /\ s.reply = r.reply /\ s.at = r.at
                                    /\ s.guarded = r.guarded /\ (r.guarded => ~s.alive)
  <2>1. CASE s = Ask(F, TRUE)
    BY <2>1, <1>4
  <2>2. ASSUME NEW r \in planReads, s = Retire(r)
        PROVE  /\ s.of = r.of /\ s.reply = r.reply /\ s.at = r.at
               /\ s.guarded = r.guarded /\ (r.guarded => ~s.alive)
    BY <2>2, <1>2, <1>3
  <2> QED
    BY <2>1, <2>2, <1>1
<1>7. ReadsAreOfTheChoice'
  <2>1. ASSUME NEW s \in planReads'
        PROVE  /\ s.at = "done" => s.reply.of = s.of
               /\ s.guarded /\ s.alive => s.of = F
    BY <1>6 DEF PlanInv, ReadsAreOfTheChoice
  <2> QED
    BY <2>1, <1>1 DEF ReadsAreOfTheChoice
<1>8. PlanFollows'
  <2>1. ASSUME NEW s \in planReads', NothingRefused PROVE s.guarded
    BY <2>1, <1>6 DEF PlanInv, PlanFollows
  <2> QED
    BY <2>1, <1>1 DEF PlanFollows, NothingRefused
<1> QED
  BY <1>5, <1>7, <1>8 DEF PlanInv

\* A read that goes on as another one, answered or lost.
LEMMA ReadGoesOn ==
  ASSUME PlanInv, NEW r \in planReads, NEW s \in PlanAsked,
         planReads' = (planReads \ {r}) \cup {s},
         s.of = r.of, s.guarded = r.guarded, s.alive = r.alive,
         s.at = "done" => s.reply.of = s.of,
         UNCHANGED <<failedRun, forced, plan, planError, covered, post, opened, leftPost, submitError>>
  PROVE  PlanInv'
<1>1. PlanTypes'
  BY DEF PlanInv, PlanTypes
<1>2. ReadsAreOfTheChoice'
  BY DEF PlanInv, ReadsAreOfTheChoice
<1>3. PlanFollows'
  BY DEF PlanInv, PlanFollows, NothingRefused
<1> QED
  BY <1>1, <1>2, <1>3 DEF PlanInv

LEMMA AnswerPlanKeeps ==
  ASSUME PlanInv, NEW r \in planReads, AnswerPlan(r)
  PROVE  PlanInv'
<1> DEFINE refused == [r EXCEPT !.at = "refused"]
           done    == [r EXCEPT !.reply = Plan(r.of), !.at = "done"]
<1>1. r \in PlanAsked /\ r.of \in SUBSET PlanTask /\ failedRun \in BOOLEAN
  BY DEF PlanInv, PlanTypes, PlanAsked
<1>2. Plan(r.of) \in PlanShape /\ Plan(r.of).of = r.of
  BY <1>1 DEF Plan, PlanShape
<1>3. /\ refused \in PlanAsked /\ refused.at = "refused" /\ refused.of = r.of
      /\ refused.guarded = r.guarded /\ refused.alive = r.alive
  BY <1>1 DEF PlanAsked
<1>4. /\ done \in PlanAsked /\ done.reply = Plan(r.of) /\ done.of = r.of
      /\ done.guarded = r.guarded /\ done.alive = r.alive
  <2> HIDE DEF Plan
  <2> QED
    BY <1>1, <1>2 DEF PlanAsked
<1>5. \/ planReads' = (planReads \ {r}) \cup {refused}
      \/ planReads' = (planReads \ {r}) \cup {done}
  BY DEF AnswerPlan
<1>6. UNCHANGED <<failedRun, forced, plan, planError, covered, post, opened, leftPost, submitError>>
  BY DEF AnswerPlan, Closed
<1> HIDE DEF refused, done
<1> QED
  BY <1>2, <1>3, <1>4, <1>5, <1>6, ReadGoesOn

LEMMA LandPlanKeeps ==
  ASSUME PlanInv, NEW r \in planReads, LandPlan(r)
  PROVE  PlanInv'
<1>1. /\ r \in PlanAsked /\ r.at \in {"done", "refused"} /\ planReads' = planReads \ {r}
      /\ UNCHANGED <<failedRun, forced, post, opened, leftPost, submitError>>
  BY DEF PlanInv, PlanTypes, PlanAsked, LandPlan, Closed
<1>2. CASE ~r.alive
  <2>1. UNCHANGED <<plan, planError, covered>>
    BY <1>2 DEF LandPlan
  <2> QED
    BY <1>1, <2>1 DEF PlanInv, PlanTypes, ReadsAreOfTheChoice, PlanFollows, NothingRefused
<1>3. CASE r.alive
  <2>1. /\ covered' = "no"
        /\ r.at = "done" => plan' = r.reply /\ planError' = FALSE
        /\ r.at = "refused" => planError' = TRUE
    BY <1>3 DEF LandPlan
  <2>2. PlanTypes' /\ ReadsAreOfTheChoice'
    BY <1>1, <2>1 DEF PlanInv, PlanTypes, ReadsAreOfTheChoice
  <2>3. PlanFollows'
    <3> SUFFICES ASSUME NothingRefused PROVE (~planError' => plan'.of = forced) /\ \A s \in planReads' : s.guarded
      BY <1>1 DEF PlanFollows, NothingRefused
    <3>1. (\A s \in planReads : s.guarded) /\ r.guarded /\ r.of = forced
      BY <1>3 DEF PlanInv, PlanFollows, ReadsAreOfTheChoice
    <3>2. r.at = "done" => plan'.of = forced
      BY <2>1, <3>1 DEF PlanInv, ReadsAreOfTheChoice
    <3> QED
      BY <1>1, <2>1, <3>1, <3>2
  <2> QED
    BY <2>2, <2>3 DEF PlanInv
<1> QED
  BY <1>2, <1>3

LEMMA LoseKeeps ==
  ASSUME PlanInv, Lose
  PROVE  PlanInv'
<1>1. UNCHANGED <<failedRun, forced, plan, planError, covered, opened, submitError>>
  BY DEF Lose
<1>2. ASSUME NEW r \in planReads, planReads' = (planReads \ {r}) \cup {[r EXCEPT !.at = "refused"]},
             UNCHANGED <<post, leftPost>>
      PROVE  PlanInv'
  <2> DEFINE s == [r EXCEPT !.at = "refused"]
  <2>1. s \in PlanAsked /\ s.of = r.of /\ s.guarded = r.guarded /\ s.alive = r.alive /\ s.at = "refused"
    BY DEF PlanInv, PlanTypes, PlanAsked
  <2>2. planReads' = (planReads \ {r}) \cup {s}
    BY <1>2
  <2> HIDE DEF s
  <2> QED
    BY <1>1, <1>2, <2>1, <2>2, ReadGoesOn
<1>3. ASSUME UNCHANGED planReads, post' \in Posted, leftPost' \in Posted, post' = "none" <=> post = "none"
      PROVE  PlanInv'
  BY <1>1, <1>3 DEF PlanInv, PlanTypes, ReadsAreOfTheChoice, PlanFollows, NothingRefused
<1>4. post \in Posted /\ leftPost \in Posted
  BY DEF PlanInv, PlanTypes
<1> QED
  BY <1>2, <1>3, <1>4 DEF Lose, Posted

LEMMA PlanStepKeeps == PlanInv /\ [PlanNext]_planVars => PlanInv'
<1> SUFFICES ASSUME PlanInv, [PlanNext]_planVars PROVE PlanInv'
  OBVIOUS
<1> USE DEF Closed
<1>1. CASE OpenDialog
  <2>1. Ask({}, TRUE) \in PlanAsked /\ Ask({}, TRUE).of = {} /\ Ask({}, TRUE).guarded /\ Ask({}, TRUE).at = "asked"
    BY AskShape
  <2>2. PlanTypes'
    BY <1>1, <2>1 DEF OpenDialog, PlanInv, PlanTypes, Posted
  <2>3. ReadsAreOfTheChoice' /\ PlanFollows'
    BY <1>1, <2>1 DEF OpenDialog, PlanInv, ReadsAreOfTheChoice, PlanFollows, NothingRefused
  <2> QED
    BY <2>2, <2>3 DEF PlanInv
<1>2. CASE CloseDialog
  BY <1>2 DEF CloseDialog, PlanInv, PlanTypes, Posted, ReadsAreOfTheChoice, PlanFollows, NothingRefused
<1>3. ASSUME NEW t \in PlanTask, ForceTask(t) \/ UnforceTask(t) PROVE PlanInv'
  <2>1. opened /\ forced \cup {t} \in SUBSET PlanTask /\ forced \ {t} \in SUBSET PlanTask
    BY <1>3 DEF ForceTask, UnforceTask, Rerunnable, Chosen, ListsShown, PlanInv, PlanTypes
  <2> QED
    BY <1>3, <2>1, ToggleKeeps DEF ForceTask, UnforceTask
<1>4. CASE Resume
  BY <1>4 DEF Resume, ListsShown, PlanInv, PlanTypes, Posted, ReadsAreOfTheChoice, PlanFollows, NothingRefused
<1>5. ASSUME NEW r \in planReads, AnswerPlan(r) \/ LandPlan(r) PROVE PlanInv'
  BY <1>5, AnswerPlanKeeps, LandPlanKeeps
<1>6. CASE AnswerResume
  <2>1. /\ UNCHANGED <<forced, plan, planError, covered, planReads, opened, submitError>>
        /\ failedRun' = FALSE /\ post' \in Posted /\ leftPost' \in Posted
        /\ post' = "none" <=> post = "none"
    BY <1>6 DEF AnswerResume, Taken, PlanInv, PlanTypes, Posted
  <2> QED
    BY <2>1 DEF PlanInv, PlanTypes, ReadsAreOfTheChoice, PlanFollows, NothingRefused
<1>7. CASE ResumedElsewhere \/ EditWorkflow
  <2>1. /\ UNCHANGED <<forced, plan, planError, covered, planReads, post, opened, leftPost, submitError>>
        /\ failedRun' \in BOOLEAN
    BY <1>7 DEF ResumedElsewhere, EditWorkflow, PlanInv, PlanTypes
  <2> QED
    BY <2>1 DEF PlanInv, PlanTypes, ReadsAreOfTheChoice, PlanFollows, NothingRefused
<1>8. CASE Lose
  BY <1>8, LoseKeeps
<1>9. CASE Refused
  <2>1. Ask(forced, FALSE) \in PlanAsked /\ ~Ask(forced, FALSE).guarded /\ Ask(forced, FALSE).at = "asked"
    BY AskShape DEF PlanInv, PlanTypes
  <2>2. PlanTypes'
    BY <1>9, <2>1 DEF Refused, PlanInv, PlanTypes, Posted
  <2>3. ReadsAreOfTheChoice' /\ PlanFollows'
    BY <1>9, <2>1 DEF Refused, PlanInv, ReadsAreOfTheChoice, PlanFollows, NothingRefused
  <2> QED
    BY <2>2, <2>3 DEF PlanInv
<1>10. CASE Resumed
  BY <1>10 DEF Resumed, PlanInv, PlanTypes, Posted, ReadsAreOfTheChoice, PlanFollows, NothingRefused
<1>11. CASE Unheard
  BY <1>11 DEF Unheard, PlanInv, PlanTypes, Posted, ReadsAreOfTheChoice, PlanFollows, NothingRefused
<1>12. CASE UNCHANGED planVars
  BY <1>12 DEF planVars, PlanInv, PlanTypes, ReadsAreOfTheChoice, PlanFollows, NothingRefused
<1> QED
  BY <1>1, <1>2, <1>3, <1>4, <1>5, <1>6, <1>7, <1>8, <1>9, <1>10, <1>11, <1>12 DEF PlanNext

\* However fast tasks are toggled and however late the server answers, a plan the
\* dialog shows as settled is the one of the tasks forced, as long as no resume was
\* refused: the effect's `alive` flag (ResumeDialog.tsx) is enough.
THEOREM PlanIsCurrent == PlanSpec => []PlanIsOfTheChoice
<1>1. PlanInv => PlanIsOfTheChoice
  BY DEF PlanInv, PlanFollows, NothingRefused, PlanIsOfTheChoice, Blocked
<1> QED
  BY <1>1, InitPlan, PlanStepKeeps, PTL DEF PlanSpec

-----------------------------------------------------------------------------
(* The log of a service.                                                   *)

ALogRead(r) ==
  \E of, at, lines, latest : r = [of |-> of, at |-> at, lines |-> lines, latest |-> latest]

\* The read that may still land is of the session on view.
LatestIsOfTheView == \A r \in logReads : r.latest => r.of = Viewing(picked, listed)

LogInv == (\A r \in logReads : ALogRead(r)) /\ LatestIsOfTheView /\ LogIsOfTheRun

LEMMA InitLog == TailInit => LogInv
BY DEF TailInit, LogInv, LatestIsOfTheView, LogIsOfTheRun, NoTail, Viewing

\* Superseded, or answered, a read keeps its shape and its session.
LEMMA SupersededRead ==
  ASSUME NEW r, ALogRead(r)
  PROVE  LET s == [r EXCEPT !.latest = FALSE]
         IN  ALogRead(s) /\ s.of = r.of /\ s.latest = FALSE
<1>1. PICK of, at, lines, latest : r = [of |-> of, at |-> at, lines |-> lines, latest |-> latest]
  BY DEF ALogRead
<1>2. r \in [of : {of}, at : {at}, lines : {lines}, latest : {latest}]
  BY <1>1
<1>3. [r EXCEPT !.latest = FALSE] \in [of : {of}, at : {at}, lines : {lines}, latest : {FALSE}]
  BY <1>2
<1>4. ASSUME NEW s \in [of : {of}, at : {at}, lines : {lines}, latest : {FALSE}]
      PROVE  ALogRead(s) /\ s.of = of /\ s.latest = FALSE
  BY DEF ALogRead
<1> QED
  BY <1>1, <1>3, <1>4

LEMMA AnsweredRead ==
  ASSUME NEW r, ALogRead(r), NEW n
  PROVE  LET s == [r EXCEPT !.at = "done", !.lines = n]
         IN  ALogRead(s) /\ s.of = r.of /\ s.latest = r.latest
<1>1. PICK of, at, lines, latest : r = [of |-> of, at |-> at, lines |-> lines, latest |-> latest]
  BY DEF ALogRead
<1>2. r \in [of : {of}, at : {at}, lines : {lines}, latest : {latest}]
  BY <1>1
<1>3. [r EXCEPT !.at = "done", !.lines = n] \in [of : {of}, at : {"done"}, lines : {n}, latest : {latest}]
  BY <1>2
<1>4. ASSUME NEW s \in [of : {of}, at : {"done"}, lines : {n}, latest : {latest}]
      PROVE  ALogRead(s) /\ s.of = of /\ s.latest = latest
  BY DEF ALogRead
<1> QED
  BY <1>1, <1>3, <1>4

LEMMA SupersededReads ==
  ASSUME LogInv
  PROVE  \A s \in Superseded : ALogRead(s) /\ ~s.latest
BY SupersededRead DEF LogInv, Superseded

LEMMA NewRead ==
  ASSUME LogInv, NEW of
  PROVE  /\ \A s \in ReadLog(of) : ALogRead(s) /\ (s.latest => s.of = of)
         /\ \E s \in ReadLog(of) : s.latest
<1> DEFINE asked == [of |-> of, at |-> "asked", lines |-> 0, latest |-> TRUE]
<1>1. ALogRead(asked) /\ asked.of = of /\ asked.latest
  BY DEF ALogRead
<1>2. ReadLog(of) = Superseded \cup {asked}
  BY DEF ReadLog
<1> HIDE DEF asked
<1> QED
  BY <1>1, <1>2, SupersededReads

\* Another session on view supersedes the reads of the one before.
LEMMA ViewedKeeps ==
  ASSUME LogInv, NEW pick, NEW list, Viewed(pick, list), picked' = pick, listed' = list
  PROVE  LogInv'
<1> DEFINE v == Viewing(pick, list)
<1>1. Viewing(picked', listed') = v
  OBVIOUS
<1>2. CASE v = Viewing(picked, listed)
  BY <1>1, <1>2 DEF Viewed, LogInv, LatestIsOfTheView, LogIsOfTheRun
<1>3. CASE v # Viewing(picked, listed) /\ v = 0
  <2>1. tail' = NoTail /\ logReads' = Superseded
    BY <1>3 DEF Viewed
  <2>2. tail'.of = v
    BY <1>3, <2>1 DEF NoTail
  <2> HIDE DEF v
  <2> QED
    BY <1>1, <2>1, <2>2, SupersededReads DEF LogInv, LatestIsOfTheView, LogIsOfTheRun
<1>4. CASE v # Viewing(picked, listed) /\ v # 0
  <2>1. logReads' = ReadLog(v)
    BY <1>4 DEF Viewed
  <2> HIDE DEF v
  <2> QED
    BY <1>1, <2>1, NewRead DEF LogInv, LatestIsOfTheView, LogIsOfTheRun
<1> QED
  BY <1>2, <1>3, <1>4

LEMMA LogStep == LogInv /\ [TailNext]_tailVars => LogInv'
<1> SUFFICES ASSUME LogInv, [TailNext]_tailVars PROVE LogInv'
  OBVIOUS
<1>1. CASE UNCHANGED <<listed, picked, tail, logReads, lostLog>>
  BY <1>1 DEF LogInv, LatestIsOfTheView, LogIsOfTheRun
<1>2. CASE PollLog
  <2>1. logReads' = ReadLog(Viewing(picked, listed)) /\ UNCHANGED <<picked, listed>>
    BY <1>2 DEF PollLog
  <2> QED
    BY <2>1, NewRead DEF LogInv, LatestIsOfTheView, LogIsOfTheRun
<1>3. ASSUME NEW list \in listReads, LandList(list) PROVE LogInv'
  BY <1>3, ViewedKeeps DEF LandList
<1>4. ASSUME NEW i \in DOMAIN listed, Pick(i) PROVE LogInv'
  BY <1>4, ViewedKeeps DEF Pick
<1>5. ASSUME NEW r \in logReads, AnswerLog(r) PROVE LogInv'
  <2> DEFINE s == [r EXCEPT !.at = "done", !.lines = sessions[r.of].lines]
  <2>1. ALogRead(s) /\ s.of = r.of /\ s.latest = r.latest
    BY AnsweredRead DEF LogInv
  <2>2. logReads' = (logReads \ {r}) \cup {s} /\ UNCHANGED <<listed, picked, tail, lostLog>>
    BY <1>5 DEF AnswerLog
  <2> HIDE DEF s
  <2>3. (\A q \in logReads' : ALogRead(q)) /\ LatestIsOfTheView'
    BY <2>1, <2>2 DEF LogInv, LatestIsOfTheView
  <2>4. LogIsOfTheRun'
    BY <2>1, <2>2 DEF LogInv, LogIsOfTheRun
  <2> QED
    BY <2>3, <2>4 DEF LogInv
<1>6. ASSUME NEW r \in logReads, LandLog(r) PROVE LogInv'
  <2>1. /\ logReads' = logReads \ {r} /\ UNCHANGED <<listed, picked, lostLog>>
        /\ r.latest => tail'.of = r.of
        /\ ~r.latest => tail' = tail
    BY <1>6 DEF LandLog
  <2> QED
    BY <2>1 DEF LogInv, LatestIsOfTheView, LogIsOfTheRun
<1>7. ASSUME NEW r \in logReads, LoseLog(r) PROVE LogInv'
  BY <1>7 DEF LoseLog, LogInv, LatestIsOfTheView, LogIsOfTheRun
<1> QED
  BY <1>1, <1>2, <1>3, <1>4, <1>5, <1>6, <1>7
     DEF TailNext, Started, Write, Ended, AnswerList, OnView, tailVars

\* "A slow answer for the previous run, or an older poll, must not overwrite a newer
\* one" (ServiceLog in Services.tsx): the log on screen is of the session on view, or
\* the read that will bring it is out, or that read was lost.
THEOREM LogFollowsTheView == TailSpec => []LogIsOfTheRun
<1>1. LogInv => LogIsOfTheRun
  BY DEF LogInv
<1> QED
  BY <1>1, InitLog, LogStep, PTL DEF TailSpec

-----------------------------------------------------------------------------
(* Retention.                                                              *)

Saved     == [retention : Nat, events : SUBSET Event]
SaveKind  == {"retention", "events", "load"}
SaveAsked == [kind : SaveKind, value : Nat \cup SUBSET Event, at : {"asked", "done", "failed"}, reply : Saved]
Previewed == [no : Nat, days : Nat, runs : SUBSET Nat]

OfItsKind(q) ==
  /\ q.kind = "retention" => q.value \in Nat
  /\ q.kind = "events" => q.value \subseteq Event

SettingsTypes ==
  /\ savedDb \in Saved /\ settings \in Saved
  /\ daysPicked \in Nat /\ chosen \subseteq Event /\ history \subseteq Nat
  /\ ticket \in [no : Nat, due : BOOLEAN] /\ cleanup \in [days : Nat, done : Nat]
  /\ preview \in [days : Nat, runs : SUBSET Nat, known : BOOLEAN]
  /\ previews \subseteq Previewed
  /\ requests \subseteq SaveAsked
  /\ \A q \in requests : OfItsKind(q)

\* What this many days deletes has been on the page, as what they delete.
ShownFor(days) == \A r \in history : days # 0 /\ r > days => <<days, r>> \in announced

\* So have been the saved figure, those on their way to be saved, the cleanup's and
\* the preview's; a preview on its way lists at least what is left to delete.
EveryFigureShown ==
  /\ ShownFor(savedDb.retention) /\ ShownFor(cleanup.days)
  /\ preview.known => ShownFor(preview.days)
  /\ \A q \in requests : q.kind = "retention" => ShownFor(q.value)
  /\ \A p \in previews : \A r \in history : p.days # 0 /\ r > p.days => r \in p.runs

SettingsInv == SettingsTypes /\ EveryFigureShown

LEMMA InitSettings == SettingsInit => SettingsInv
<1> SUFFICES ASSUME SettingsInit PROVE SettingsInv
  OBVIOUS
<1>1. savedDb \in Saved /\ savedDb.retention = 0
  BY DEF SettingsInit, Saved
<1>2. settings = savedDb /\ chosen = savedDb.events /\ chosen \subseteq Event /\ daysPicked = 0
  BY <1>1 DEF SettingsInit, Saved
<1>3. history \subseteq Nat
  BY SettingsAssumption DEF SettingsInit
<1>4. ticket \in [no : Nat, due : BOOLEAN] /\ cleanup \in [days : Nat, done : Nat] /\ cleanup.days = 0
  BY DEF SettingsInit, NoCleanup
<1>5. preview \in [days : Nat, runs : SUBSET Nat, known : BOOLEAN] /\ ~preview.known
  BY DEF SettingsInit, NoPreview
<1>6. previews = {} /\ requests = {}
  BY DEF SettingsInit
<1> QED
  BY <1>1, <1>2, <1>3, <1>4, <1>5, <1>6 DEF SettingsInv, SettingsTypes, EveryFigureShown, ShownFor

\* Runs only go, and announcements stay: what was shown stays shown.
LEMMA StaysShown ==
  ASSUME NEW days, ShownFor(days), history' \subseteq history, announced \subseteq announced'
  PROVE  \A r \in history' : days # 0 /\ r > days => <<days, r>> \in announced'
BY DEF ShownFor

\* The steps that neither ask nor save.
LEMMA SettingsAside ==
  ASSUME SettingsInv, history' \subseteq history, announced \subseteq announced',
         requests' \subseteq requests, previews' \subseteq previews,
         savedDb' \in Saved, savedDb'.retention = savedDb.retention,
         settings' \in Saved, daysPicked' \in Nat, chosen' \subseteq Event,
         ticket' \in [no : Nat, due : BOOLEAN],
         cleanup' \in [days : Nat, done : Nat], ShownFor(cleanup'.days),
         preview' \in [days : Nat, runs : SUBSET Nat, known : BOOLEAN],
         preview' = preview \/ ~preview'.known
  PROVE  SettingsInv'
<1>1. SettingsTypes'
  BY DEF SettingsInv, SettingsTypes
<1>2. ShownFor(savedDb.retention)' /\ ShownFor(cleanup.days)'
  BY StaysShown DEF SettingsInv, EveryFigureShown, ShownFor
<1>3. (preview.known => ShownFor(preview.days))'
  BY StaysShown DEF SettingsInv, EveryFigureShown, ShownFor
<1>4. (\A q \in requests : q.kind = "retention" => ShownFor(q.value))'
  BY StaysShown DEF SettingsInv, EveryFigureShown, ShownFor
<1>5. (\A p \in previews : \A r \in history : p.days # 0 /\ r > p.days => r \in p.runs)'
  BY DEF SettingsInv, EveryFigureShown
<1> QED
  BY <1>1, <1>2, <1>3, <1>4, <1>5 DEF SettingsInv, EveryFigureShown

\* A new question drops the preview on screen.
LEMMA WantedTypes ==
  ASSUME SettingsInv, NEW days, Wanted(days)
  PROVE  /\ ticket' \in [no : Nat, due : BOOLEAN]
         /\ preview' \in [days : Nat, runs : SUBSET Nat, known : BOOLEAN] /\ ~preview'.known
BY DEF Wanted, NoPreview, SettingsInv, SettingsTypes

LEMMA SettingsNow ==
  ASSUME SettingsInv
  PROVE  /\ savedDb \in Saved /\ settings \in Saved /\ daysPicked \in Nat /\ chosen \subseteq Event
         /\ ticket \in [no : Nat, due : BOOLEAN] /\ cleanup \in [days : Nat, done : Nat]
         /\ preview \in [days : Nat, runs : SUBSET Nat, known : BOOLEAN]
         /\ ShownFor(cleanup.days) /\ ShownFor(savedDb.retention) /\ ShownFor(0)
         /\ cleanup.days \in Nat /\ savedDb.retention \in Nat
BY DEF SettingsInv, SettingsTypes, EveryFigureShown, ShownFor, Saved

LEMMA DebouncedKeeps ==
  ASSUME SettingsInv, Debounced
  PROVE  SettingsInv'
<1> DEFINE p == [no |-> ticket.no, days |-> daysPicked, runs |-> Older(daysPicked)]
<1>1. /\ ticket' = [ticket EXCEPT !.due = FALSE] /\ previews' = previews \cup {p}
      /\ UNCHANGED <<savedDb, history, settings, daysPicked, chosen, preview, requests, announced, cleanup>>
  BY DEF Debounced, Status
<1>2. Older(daysPicked) \subseteq Nat
  BY DEF Older, SettingsInv, SettingsTypes
<1>3. p \in Previewed /\ p.days = daysPicked /\ p.runs = Older(daysPicked)
  <2> HIDE DEF Older
  <2> QED
    BY <1>2 DEF Previewed, SettingsInv, SettingsTypes
<1>4. \A r \in history : p.days # 0 /\ r > p.days => r \in p.runs
  BY <1>3 DEF Older
<1> HIDE DEF p
<1>5. ticket' \in [no : Nat, due : BOOLEAN]
  BY <1>1, SettingsNow
<1>6. SettingsTypes'
  BY <1>1, <1>3, <1>5 DEF SettingsInv, SettingsTypes
<1>7. EveryFigureShown'
  BY <1>1, <1>4 DEF SettingsInv, EveryFigureShown, ShownFor
<1> QED
  BY <1>6, <1>7 DEF SettingsInv

LEMMA LandPreviewKeeps ==
  ASSUME SettingsInv, NEW p \in previews, LandPreview(p)
  PROVE  SettingsInv'
<1>1. /\ previews' = previews \ {p}
      /\ UNCHANGED <<savedDb, history, settings, daysPicked, chosen, ticket, requests, cleanup>>
  BY DEF LandPreview, Status
<1>2. CASE p.no # ticket.no
  BY <1>1, <1>2, SettingsAside, SettingsNow DEF LandPreview
<1>3. CASE p.no = ticket.no
  <2>1. /\ preview' = [days |-> p.days, runs |-> p.runs, known |-> TRUE]
        /\ announced' = announced \cup ({p.days} \X p.runs)
    BY <1>3 DEF LandPreview
  <2>2. preview' \in [days : Nat, runs : SUBSET Nat, known : BOOLEAN] /\ preview'.days = p.days
    BY <2>1 DEF SettingsInv, SettingsTypes, Previewed
  <2>3. SettingsTypes'
    BY <1>1, <2>2 DEF SettingsInv, SettingsTypes
  <2>4. ShownFor(p.days)'
    <3> SUFFICES ASSUME NEW r \in history, p.days # 0, r > p.days PROVE <<p.days, r>> \in announced'
      BY <1>1 DEF ShownFor
    <3>1. r \in p.runs
      BY DEF SettingsInv, EveryFigureShown
    <3> QED
      BY <2>1, <3>1
  <2>5. announced \subseteq announced'
    BY <2>1
  <2>6. ShownFor(savedDb.retention)' /\ ShownFor(cleanup.days)'
    BY <1>1, <2>5 DEF SettingsInv, EveryFigureShown, ShownFor
  <2>7. (\A q \in requests : q.kind = "retention" => ShownFor(q.value))'
    BY <1>1, <2>5 DEF SettingsInv, EveryFigureShown, ShownFor
  <2>8. (\A s \in previews : \A r \in history : s.days # 0 /\ r > s.days => r \in s.runs)'
    BY <1>1 DEF SettingsInv, EveryFigureShown
  <2>9. (preview.known => ShownFor(preview.days))'
    BY <2>2, <2>4 DEF ShownFor
  <2> QED
    BY <2>3, <2>6, <2>7, <2>8, <2>9 DEF SettingsInv, EveryFigureShown
<1> QED
  BY <1>2, <1>3

\* A request more, whose figure, if it has one, was shown.
LEMMA RequestMore ==
  ASSUME SettingsInv, NEW q \in SaveAsked, OfItsKind(q),
         q.kind = "retention" => ShownFor(q.value),
         requests' = requests \cup {q},
         UNCHANGED <<savedDb, history, settings, daysPicked, chosen, previews, announced, cleanup>>,
         ticket' \in [no : Nat, due : BOOLEAN],
         preview' \in [days : Nat, runs : SUBSET Nat, known : BOOLEAN],
         preview' = preview \/ ~preview'.known
  PROVE  SettingsInv'
<1>1. SettingsTypes'
  BY DEF SettingsInv, SettingsTypes
<1>2. EveryFigureShown'
  BY DEF SettingsInv, EveryFigureShown, ShownFor
<1> QED
  BY <1>1, <1>2 DEF SettingsInv

LEMMA SaveRetentionKeeps ==
  ASSUME SettingsInv, SaveRetention
  PROVE  SettingsInv'
<1> DEFINE q == [kind |-> "retention", value |-> daysPicked, at |-> "asked", reply |-> settings]
<1>1. /\ requests' = requests \cup {q}
      /\ UNCHANGED <<savedDb, history, settings, daysPicked, chosen, previews, announced, cleanup, ticket, preview>>
  BY DEF SaveRetention, Status
<1>2. q \in SaveAsked /\ q.kind = "retention" /\ q.value = daysPicked /\ daysPicked \in Nat
  BY SettingsNow DEF SaveAsked, SaveKind
<1>3. ShownFor(daysPicked)
  BY DEF SaveRetention, PreviewReady, SettingsInv, EveryFigureShown, ShownFor
<1> HIDE DEF q
<1> QED
  BY <1>1, <1>2, <1>3, SettingsNow, RequestMore DEF OfItsKind

LEMMA SaveEventsKeeps ==
  ASSUME SettingsInv, SaveEvents
  PROVE  SettingsInv'
<1> DEFINE q == [kind |-> "events", value |-> chosen, at |-> "asked", reply |-> settings]
<1>1. /\ requests' = requests \cup {q}
      /\ UNCHANGED <<savedDb, history, settings, daysPicked, chosen, previews, announced, cleanup, ticket, preview>>
  BY DEF SaveEvents, Status
<1>2. q \in SaveAsked /\ q.kind = "events" /\ q.value = chosen /\ chosen \subseteq Event
  BY SettingsNow DEF SaveAsked, SaveKind
<1> HIDE DEF q
<1> QED
  BY <1>1, <1>2, SettingsNow, RequestMore DEF OfItsKind

\* A status that lands may ask the preview again.
LEMMA ShownStatusTypes ==
  ASSUME SettingsInv, NEW status, ShowStatus(status)
  PROVE  /\ ticket' \in [no : Nat, due : BOOLEAN]
         /\ preview' \in [days : Nat, runs : SUBSET Nat, known : BOOLEAN]
         /\ preview' = preview \/ ~preview'.known
BY SettingsNow, WantedTypes DEF ShowStatus

LEMMA PauseKeeps ==
  ASSUME SettingsInv, Pause
  PROVE  SettingsInv'
<1> DEFINE q == [kind |-> "load", value |-> {}, at |-> "asked", reply |-> settings]
<1>1. /\ requests' = requests \cup {q} /\ ShowStatus([SystemStatus EXCEPT !.paused = paused'])
      /\ UNCHANGED <<savedDb, history, settings, daysPicked, chosen, previews, announced, cleanup>>
  BY DEF Pause
<1>2. q \in SaveAsked /\ q.kind = "load"
  <2>1. {} \in Nat \cup SUBSET Event
    OBVIOUS
  <2> QED
    BY <2>1, SettingsNow DEF SaveAsked, SaveKind
<1> HIDE DEF q
<1> QED
  BY <1>1, <1>2, ShownStatusTypes, RequestMore DEF OfItsKind

LEMMA ServeSettingKeeps ==
  ASSUME SettingsInv, NEW q \in requests, ServeSetting(q)
  PROVE  SettingsInv'
<1> DEFINE s == [q EXCEPT !.at = "done", !.reply = savedDb']
<1>1. /\ requests' = (requests \ {q}) \cup {s}
      /\ UNCHANGED <<history, previews, settings, daysPicked, chosen, preview, ticket, announced>>
  BY DEF ServeSetting, Page
<1>2. q \in SaveAsked /\ q.kind \in SaveKind /\ OfItsKind(q) /\ (q.kind = "retention" => ShownFor(q.value))
  BY DEF SettingsInv, SettingsTypes, EveryFigureShown, SaveAsked
<1>3. savedDb' \in Saved /\ ShownFor(savedDb'.retention)
  <2>1. CASE q.kind = "retention"
    <3>1. savedDb' = [savedDb EXCEPT !["retention"] = q.value] /\ q.value \in Nat
      BY <2>1, <1>2 DEF ServeSetting, OfItsKind
    <3>2. savedDb' \in Saved /\ savedDb'.retention = q.value
      BY <3>1, SettingsNow DEF Saved
    <3> QED
      BY <2>1, <1>2, <3>2
  <2>2. CASE q.kind = "events"
    <3>1. savedDb' = [savedDb EXCEPT !["events"] = q.value] /\ q.value \subseteq Event
      BY <2>2, <1>2 DEF ServeSetting, OfItsKind
    <3>2. savedDb' \in Saved /\ savedDb'.retention = savedDb.retention
      BY <3>1, SettingsNow DEF Saved
    <3> QED
      BY <3>2, SettingsNow
  <2>3. CASE q.kind = "load"
    BY <2>3, SettingsNow DEF ServeSetting
  <2> QED
    BY <1>2, <2>1, <2>2, <2>3 DEF SaveKind
<1>4. cleanup' \in [days : Nat, done : Nat] /\ ShownFor(cleanup'.days)
  <2>1. CASE q.kind = "retention" /\ cleanup.days = 0
    <3>1. cleanup' = [cleanup EXCEPT !.days = q.value] /\ q.value \in Nat
      BY <2>1, <1>2 DEF ServeSetting, OfItsKind
    <3>2. cleanup' \in [days : Nat, done : Nat] /\ cleanup'.days = q.value
      BY <3>1, SettingsNow
    <3> QED
      BY <2>1, <1>2, <3>2
  <2>2. CASE ~(q.kind = "retention" /\ cleanup.days = 0)
    BY <2>2, SettingsNow DEF ServeSetting
  <2> QED
    BY <2>1, <2>2
<1>5. s \in SaveAsked /\ s.kind = q.kind /\ s.value = q.value
  BY <1>2, <1>3 DEF SaveAsked
<1> HIDE DEF s
<1>6. SettingsTypes'
  BY <1>1, <1>2, <1>3, <1>4, <1>5 DEF SettingsInv, SettingsTypes, OfItsKind
<1>7. EveryFigureShown'
  <2>1. (\A p \in requests : p.kind = "retention" => ShownFor(p.value))'
    BY <1>1, <1>2, <1>5 DEF SettingsInv, EveryFigureShown, ShownFor
  <2>2. ShownFor(savedDb.retention)' /\ ShownFor(cleanup.days)'
    BY <1>1, <1>3, <1>4 DEF ShownFor
  <2> QED
    BY <1>1, <2>1, <2>2 DEF SettingsInv, EveryFigureShown, ShownFor
<1> QED
  BY <1>6, <1>7 DEF SettingsInv

LEMMA LoseSettingKeeps ==
  ASSUME SettingsInv, NEW q \in requests, LoseSetting(q)
  PROVE  SettingsInv'
<1> DEFINE s == [q EXCEPT !.at = "failed"]
<1>1. /\ requests' = (requests \ {q}) \cup {s}
      /\ UNCHANGED <<savedDb, history, settings, daysPicked, chosen, previews, announced, cleanup, ticket, preview>>
  BY DEF LoseSetting, Page, Status
<1>2. s \in SaveAsked /\ s.kind = q.kind /\ s.value = q.value
  BY DEF SettingsInv, SettingsTypes, SaveAsked
<1> HIDE DEF s
<1>3. SettingsTypes'
  BY <1>1, <1>2 DEF SettingsInv, SettingsTypes, OfItsKind
<1>4. EveryFigureShown'
  BY <1>1, <1>2 DEF SettingsInv, EveryFigureShown, ShownFor
<1> QED
  BY <1>3, <1>4 DEF SettingsInv

LEMMA LandSettingsKeeps ==
  ASSUME SettingsInv, NEW q \in requests, LandSettings(q)
  PROVE  SettingsInv'
<1>1. /\ requests' = requests \ {q} /\ Drafts(q.reply)
      /\ UNCHANGED <<savedDb, history, previews, announced, cleanup>>
  BY DEF LandSettings, Status
<1>2. q.reply \in Saved /\ q.reply.retention \in Nat /\ q.reply.events \subseteq Event
  BY DEF SettingsInv, SettingsTypes, SaveAsked, Saved
<1>3. settings' \in Saved /\ daysPicked' \in Nat /\ chosen' \subseteq Event
  BY <1>1, <1>2, SettingsNow DEF Drafts
<1>4. /\ ticket' \in [no : Nat, due : BOOLEAN]
      /\ preview' \in [days : Nat, runs : SUBSET Nat, known : BOOLEAN]
      /\ preview' = preview \/ ~preview'.known
  BY <1>1, SettingsNow, WantedTypes DEF Drafts
<1> QED
  BY <1>1, <1>3, <1>4, SettingsAside, SettingsNow

LEMMA SettingsStep == SettingsInv /\ [SettingsNext]_settingVars => SettingsInv'
<1> SUFFICES ASSUME SettingsInv, [SettingsNext]_settingVars PROVE SettingsInv'
  OBVIOUS
<1>1. CASE PickDays
  <2>1. PICK d \in ({0} \cup Presets) \ {daysPicked} : daysPicked' = d /\ Wanted(d)
    BY <1>1 DEF PickDays
  <2>2. d \in Nat
    BY SettingsAssumption
  <2>3. UNCHANGED <<savedDb, history, settings, chosen, previews, requests, announced, cleanup>>
    BY <1>1 DEF PickDays, Status
  <2> QED
    BY <2>1, <2>2, <2>3, WantedTypes, SettingsAside, SettingsNow
<1>2. CASE ToggleKind
  <2>1. chosen' \subseteq Event
    BY <1>2, SettingsNow DEF ToggleKind
  <2>2. UNCHANGED <<savedDb, history, settings, daysPicked, preview, ticket, previews, requests, announced, cleanup>>
    BY <1>2 DEF ToggleKind, Status
  <2> QED
    BY <2>1, <2>2, SettingsAside, SettingsNow
<1>3. CASE SavedElsewhere
  <2>1. PICK v \in SUBSET Event : savedDb' = [savedDb EXCEPT !.events = v]
    BY <1>3 DEF SavedElsewhere
  <2>2. savedDb' \in Saved /\ savedDb'.retention = savedDb.retention
    BY <2>1, SettingsNow DEF Saved
  <2>3. UNCHANGED <<history, settings, daysPicked, chosen, preview, ticket, previews, requests, announced, cleanup>>
    BY <1>3 DEF SavedElsewhere, Page, Status
  <2> QED
    BY <2>2, <2>3, SettingsAside, SettingsNow
<1>4. CASE ScheduledCleanup
  <2>1. cleanup' = [cleanup EXCEPT !.days = savedDb.retention]
    BY <1>4 DEF ScheduledCleanup
  <2>2. cleanup' \in [days : Nat, done : Nat] /\ cleanup'.days = savedDb.retention
    BY <2>1, SettingsNow
  <2>3. UNCHANGED <<savedDb, history, settings, daysPicked, chosen, preview, ticket, previews, requests, announced>>
    BY <1>4 DEF ScheduledCleanup, Page
  <2> QED
    BY <2>2, <2>3, SettingsAside, SettingsNow
<1>5. CASE EndCleanup
  <2>1. cleanup' = [days |-> 0, done |-> cleanup.done + 1]
    BY <1>5 DEF EndCleanup
  <2>2. cleanup' \in [days : Nat, done : Nat] /\ cleanup'.days = 0
    BY <2>1, SettingsNow
  <2>3. UNCHANGED <<savedDb, history, settings, daysPicked, chosen, preview, ticket, previews, requests, announced>>
    BY <1>5 DEF EndCleanup, Page
  <2> QED
    BY <2>2, <2>3, SettingsAside, SettingsNow
<1>6. CASE DeleteBatch
  <2>1. history' \subseteq history
    BY <1>6 DEF DeleteBatch
  <2>2. UNCHANGED <<savedDb, settings, daysPicked, chosen, preview, ticket, previews, requests, announced, cleanup>>
    BY <1>6 DEF DeleteBatch, Page, Status
  <2> QED
    BY <2>1, <2>2, SettingsAside, SettingsNow
<1>7. ASSUME NEW q \in requests, SaveFails(q) PROVE SettingsInv'
  BY <1>7, SettingsAside, SettingsNow DEF SaveFails, Status
<1>8. CASE PausedElsewhere \/ PollStatus \/ UNCHANGED settingVars
  BY <1>8, SettingsAside, SettingsNow DEF PausedElsewhere, PollStatus, settingVars, Page
<1>9. ASSUME NEW status \in statusReads, LandStatus(status) PROVE SettingsInv'
  BY <1>9, SettingsAside, SettingsNow, ShownStatusTypes DEF LandStatus
<1>10. ASSUME NEW q \in requests, ServeSetting(q) \/ LoseSetting(q) \/ LandSettings(q) PROVE SettingsInv'
  BY <1>10, ServeSettingKeeps, LoseSettingKeeps, LandSettingsKeeps
<1>11. ASSUME NEW p \in previews, LandPreview(p) PROVE SettingsInv'
  BY <1>11, LandPreviewKeeps
<1> QED
  BY <1>1, <1>2, <1>3, <1>4, <1>5, <1>6, <1>7, <1>8, <1>9, <1>10, <1>11,
     DebouncedKeeps, SaveRetentionKeeps, SaveEventsKeeps, PauseKeeps DEF SettingsNext

\* Only a batch of the cleanup deletes, and only runs older than its figure.
LEMMA DeletesWhatWasShown ==
  SettingsInv /\ [SettingsNext]_settingVars
    => [\A r \in history \ history' : <<cleanup.days, r>> \in announced]_settingVars
<1> SUFFICES ASSUME SettingsInv, [SettingsNext]_settingVars, NEW r \in history \ history'
             PROVE  <<cleanup.days, r>> \in announced
  OBVIOUS
<1>1. CASE DeleteBatch
  <2>1. r \in Older(cleanup.days)
    BY <1>1 DEF DeleteBatch
  <2>2. cleanup.days # 0 /\ r > cleanup.days
    BY <2>1 DEF Older
  <2> QED
    BY <2>2, SettingsNow DEF ShownFor
<1>2. CASE UNCHANGED history
  BY <1>2
<1> QED
  BY <1>1, <1>2
     DEF SettingsNext, settingVars, Page, Status, PickDays, Debounced, SaveRetention, ToggleKind, SaveEvents,
         SavedElsewhere, LandPreview, ServeSetting, LoseSetting, LandSettings, SaveFails, ScheduledCleanup,
         EndCleanup, Pause, PausedElsewhere, PollStatus, LandStatus

\* The page saves a retention figure only over a preview of that very figure
\* (SettingsPage.tsx): whatever a cleanup deletes, the page had listed it as what the
\* cleanup's figure deletes, under any order of picks, timers, answers and passes.
THEOREM NothingDeletedUnseen == SettingsSpec => DeletionAnnounced
BY InitSettings, SettingsStep, DeletesWhatWasShown, PTL DEF SettingsSpec, DeletionAnnounced

-----------------------------------------------------------------------------
(* The log search: what is on screen is the answer of a scan with the      *)
(* filters it was asked with, and the logs in scope do not change.         *)

Answered == result = NoResult \/ \E d \in Deadlines(ran) : result = Answer(ran, d)

SearchInv ==
  /\ files \in Seq(File) /\ {filters, ran} \subseteq Filters
  /\ inFlight \in [ask : Filters, at : {"idle", "asked"}]
  /\ Answered

LEMMA FilterFields ==
  ASSUME NEW ask \in Filters
  PROVE  ask.limit \in Nat \ {0} /\ ask.maxFiles \in Nat \ {0} /\ ask.maxBytes \in Nat \ {0}
<1>1. MaxFiles \in Nat /\ MaxLines \in Nat \ {0}
  BY SearchAssumption
<1>2. MaxFiles * MaxLines \in Nat
  BY <1>1
<1> QED
  BY <1>1, <1>2 DEF Filters, Wide

LEMMA FileFields ==
  ASSUME files \in Seq(File), NEW i \in 1 .. Len(files)
  PROVE  /\ Len(files[i].lines) \in 1 .. MaxLines
         /\ files[i].state \in {"readable", "missing", "outside"}
         /\ files[i].masked \in {-1, 0, 1}
<1>1. files[i] \in File
  OBVIOUS
<1>2. Len(files[i].lines) \in 1 .. MaxLines
  <2>1. files[i].lines \in Lines \/ files[i].lines = <<"match">>
    BY <1>1 DEF File
  <2>2. CASE files[i].lines \in Lines
    <3>1. PICK n \in 1 .. MaxLines : files[i].lines \in [1 .. n -> Line]
      BY <2>2 DEF Lines
    <3>2. Len(files[i].lines) = n
      BY <3>1, SearchAssumption
    <3> QED
      BY <3>2
  <2>3. CASE files[i].lines = <<"match">>
    BY <2>3, SearchAssumption
  <2> QED
    BY <2>1, <2>2, <2>3
<1> QED
  BY <1>1, <1>2 DEF File

LEMMA FileLines ==
  ASSUME files \in Seq(File), NEW i \in 1 .. Len(files), NEW k \in 1 .. Len(files[i].lines)
  PROVE  files[i].lines[k] \in Line
<1>1. files[i] \in File
  OBVIOUS
<1>2. files[i].lines \in Lines \/ files[i].lines = <<"match">>
  BY <1>1 DEF File
<1>3. CASE files[i].lines \in Lines
  <2>1. PICK n \in 1 .. MaxLines : files[i].lines \in [1 .. n -> Line]
    BY <1>3 DEF Lines
  <2>2. Len(files[i].lines) = n
    BY <2>1, SearchAssumption
  <2> QED
    BY <2>1, <2>2
<1>4. CASE files[i].lines = <<"match">>
  BY <1>4 DEF Line
<1> QED
  BY <1>2, <1>3, <1>4

LEMMA LeastNatural ==
  ASSUME NEW S, S \subseteq Nat, S # {}
  PROVE  \E m \in S : \A n \in S : m <= n
<1>1. PICK m \in S : \A n \in S : <<n, m>> \notin OpToRel(<, Nat)
  BY NatLessThanWellFounded, WFMin
<1>2. ASSUME NEW n \in S, n < m PROVE <<n, m>> \in OpToRel(<, Nat)
  BY <1>2 DEF OpToRel
<1>3. \A n \in S : ~(n < m) /\ n \in Nat /\ m \in Nat
  BY <1>1, <1>2
<1> QED
  BY <1>3

\* The scan reads as many logs as its bounds let it.
LEMMA RowsAreRead ==
  ASSUME files \in Seq(File), NEW ask \in Filters, NEW late \in 0 .. Len(files)
  PROVE  /\ Rows(ask, late) \in {Len(files), ask.maxFiles, late} \cup Full(ask)
         /\ Rows(ask, late) \in 0 .. Len(files)
<1> DEFINE stops == {Len(files), ask.maxFiles, late} \cup Full(ask)
<1>1. Len(files) \in Nat
  OBVIOUS
<1>2. stops \subseteq Nat /\ stops # {}
  BY <1>1, FilterFields DEF Full
<1>3. \E n \in stops : \A m \in stops : n <= m
  BY <1>2, LeastNatural
<1>4. Rows(ask, late) = CHOOSE n \in stops : \A m \in stops : n <= m
  BY DEF Rows
<1>5. Rows(ask, late) \in stops /\ \A m \in stops : Rows(ask, late) <= m
  <2> HIDE DEF stops
  <2> QED
    BY <1>3, <1>4
<1> QED
  BY <1>1, <1>2, <1>5

LEMMA FoundIsFinite ==
  ASSUME files \in Seq(File), NEW ask, NEW n, NEW mid
  PROVE  IsFiniteSet(Found(ask, n, mid))
<1>1. Len(files) \in Nat
  OBVIOUS
<1>2. IsFiniteSet(1 .. Len(files)) /\ IsFiniteSet(1 .. MaxLines)
  BY <1>1, FS_Interval, SearchAssumption
<1>3. IsFiniteSet((1 .. Len(files)) \X (1 .. MaxLines))
  BY <1>2, FS_Product
<1>4. Found(ask, n, mid) \subseteq (1 .. Len(files)) \X (1 .. MaxLines)
  BY DEF Found
<1> QED
  BY <1>3, <1>4, FS_Subset

\* An answer below the limit holds everything that was found.
LEMMA FirstIsAll ==
  ASSUME NEW found, IsFiniteSet(found), NEW limit \in Nat, Cardinality(found) < limit
  PROVE  First(found, limit) = found
<1> SUFFICES ASSUME NEW p \in found
             PROVE  Cardinality({q \in found : q[1] < p[1] \/ (q[1] = p[1] /\ q[2] <= p[2])}) <= limit
  BY DEF First
<1> DEFINE upTo == {q \in found : q[1] < p[1] \/ (q[1] = p[1] /\ q[2] <= p[2])}
<1>1. IsFiniteSet(upTo) /\ Cardinality(upTo) <= Cardinality(found)
  BY FS_Subset
<1>2. Cardinality(upTo) \in Nat /\ Cardinality(found) \in Nat
  BY <1>1, FS_CardinalityType
<1> QED
  BY <1>1, <1>2

\* A scan that nothing stopped read every log, one without caveats every line of them
\* but for what it passes over.
LEMMA CompleteHasAll ==
  ASSUME files \in Seq(File), ran \in Filters, NEW d \in Deadlines(ran),
         NEW s, s = Scan(ran, d), Complete(s), s.truncated + s.missing = 0,
         NEW p \in AllMatches, ~PassedOver(p)
  PROVE  p \in s.matches
<1> DEFINE rows == Rows(ran, d.late)
           inside == rows = d.late /\ rows # ran.maxFiles /\ rows \notin Full(ran) /\ d.mid > 0
           mid     == IF inside THEN d.mid ELSE 0
           looked  == IF inside THEN rows + 1 ELSE rows
           cut     == {i \in {j \in 1 .. looked : files[j].state = "readable"} : IsCut(files[i], ran.maxBytes)}
           missing == {i \in 1 .. looked : files[i].state = "missing"}
           outside == {i \in 1 .. looked : files[i].state = "outside"}
           found   == Found(ran, rows, mid)
<1>1. /\ ran.limit \in Nat \ {0} /\ ran.maxFiles \in Nat \ {0} /\ ran.maxBytes \in Nat \ {0}
      /\ Len(files) \in Nat /\ d.late \in 0 .. Len(files) /\ d.mid \in 0 .. MaxLines
      /\ (d.mid > 0 => d.late < Len(files))
  BY FilterFields DEF Deadlines
<1>2. rows \in 0 .. Len(files)
  BY <1>1, RowsAreRead
<1>3. /\ s.matches = First(found, ran.limit) /\ s.truncated = Cardinality(cut)
      /\ s.missing = Cardinality(missing) /\ s.outside = Cardinality(outside)
      /\ s.stop = "none" => ~(Cardinality(found) >= ran.limit) /\ rows # ran.maxFiles /\ ~(rows < Len(files))
  BY DEF Scan
<1> HIDE DEF rows
<1>4. rows = Len(files) /\ ~(Cardinality(found) >= ran.limit)
  BY <1>1, <1>2, <1>3 DEF Complete
<1>5. looked = Len(files)
  BY <1>1, <1>4
<1> HIDE DEF inside, mid, looked
<1>6. IsFiniteSet(1 .. looked)
  BY <1>1, <1>5, FS_Interval
<1>7. IsFiniteSet(cut) /\ IsFiniteSet(missing) /\ IsFiniteSet(outside)
  BY <1>6, FS_Subset
<1>8. Cardinality(cut) \in Nat /\ Cardinality(missing) \in Nat /\ Cardinality(outside) = 0
  BY <1>3, <1>7, FS_CardinalityType DEF Complete
<1>9. Cardinality(cut) = 0 /\ Cardinality(missing) = 0
  BY <1>3, <1>8
<1>10. cut = {} /\ missing = {} /\ outside = {}
  BY <1>7, <1>8, <1>9, FS_EmptySet
<1>11. p[1] \in 1 .. Len(files) /\ p[2] \in 1 .. MaxLines /\ p \in (1 .. Len(files)) \X (1 .. MaxLines)
       /\ p[2] <= Len(files[p[1]].lines) /\ files[p[1]].lines[p[2]] # "plain"
  BY DEF AllMatches
<1>12. files[p[1]].state = "readable" /\ ~IsCut(files[p[1]], ran.maxBytes)
  BY <1>5, <1>10, <1>11, FileFields
<1>13. files[p[1]].lines[p[2]] = "match" /\ p[2] <= ran.maxBytes
  <2>1. files[p[1]].lines[p[2]] \in Line /\ files[p[1]].lines[p[2]] # "match_past"
    BY <1>11, FileLines DEF PassedOver
  <2>2. ~(p[2] > ran.maxBytes)
    BY <1>12 DEF PassedOver
  <2> QED
    BY <1>1, <1>11, <2>1, <2>2 DEF Line
<1>14. p[2] \in 1 .. Searched(files[p[1]], ran.maxBytes)
  <2>1. Searched(files[p[1]], ran.maxBytes) = ReadOf(files[p[1]], ran.maxBytes)
    <3>1. ReadOf(files[p[1]], ran.maxBytes) \in Nat
      BY <1>1, <1>11, FileFields, SearchAssumption DEF ReadOf
    <3> QED
      BY <1>12, <3>1 DEF Searched
  <2>2. p[2] <= ReadOf(files[p[1]], ran.maxBytes)
    BY <1>11, <1>13 DEF ReadOf
  <2>3. ReadOf(files[p[1]], ran.maxBytes) \in Nat
    BY <1>1, <1>11, FileFields, SearchAssumption DEF ReadOf
  <2> QED
    BY <1>11, <2>1, <2>2, <2>3
<1>15. p \in found
  BY <1>4, <1>11, <1>12, <1>13, <1>14 DEF Found, Seen
<1>16. IsFiniteSet(found) /\ Cardinality(found) \in Nat
  BY FoundIsFinite, FS_CardinalityType
<1> HIDE DEF found
<1>17. First(found, ran.limit) = found
  BY <1>1, <1>4, <1>16, FirstIsAll
<1> QED
  BY <1>3, <1>15, <1>17

\* The log that the page calls the first is the last with a match.
LEMMA OldestIsLast ==
  ASSUME files \in Seq(File), NEW ask, NEW d, NEW p \in Scan(ask, d).matches
  PROVE  p[1] <= Answer(ask, d).oldest
<1> DEFINE matches == Scan(ask, d).matches
           hits == {q[1] : q \in matches}
           last == CHOOSE i \in hits : \A j \in hits : j <= i
<1>1. \A q \in matches : q[1] \in 1 .. Len(files)
  BY DEF Scan, First, Found
<1>2. hits \subseteq 1 .. Len(files) /\ p[1] \in hits /\ Len(files) \in Nat
  <2> HIDE DEF matches
  <2>1. p \in matches
    BY DEF matches
  <2> QED
    BY <1>1, <2>1
<1>3. Answer(ask, d).oldest = last
  BY <1>2 DEF Answer
<1>4. \E m \in {Len(files) - j : j \in hits} : \A n \in {Len(files) - j : j \in hits} : m <= n
  <2>1. ASSUME NEW j \in hits PROVE Len(files) - j \in Nat
    <3> HIDE DEF hits
    <3> QED
      BY <1>2
  <2>2. {Len(files) - j : j \in hits} # {}
    BY <1>2
  <2>3. {Len(files) - j : j \in hits} \subseteq Nat
    BY <2>1
  <2> QED
    BY <2>2, <2>3, LeastNatural
<1> HIDE DEF hits
<1>5. PICK i \in hits : \A j \in hits : Len(files) - i <= Len(files) - j
  BY <1>4
<1>6. \E i_1 \in hits : \A j \in hits : j <= i_1
  BY <1>2, <1>5
<1>7. last \in hits /\ \A j \in hits : j <= last
  BY <1>6
<1> QED
  BY <1>2, <1>3, <1>7

LEMMA AnswerIsTrue ==
  ASSUME SearchInv, Shown, result.complete, result.caveats = 0, NEW p \in AllMatches, ~PassedOver(p)
  PROVE  p \in result.matches /\ p[1] <= result.oldest
<1>1. result # NoResult
  BY DEF Shown, NoResult
<1>2. PICK d \in Deadlines(ran) : result = Answer(ran, d)
  BY <1>1 DEF SearchInv, Answered
<1>3. ran \in Filters /\ files \in Seq(File)
  BY DEF SearchInv
<1> DEFINE s == Scan(ran, d)
<1>4. Complete(s) /\ s.truncated + s.missing = 0 /\ result.matches = s.matches
  BY <1>2 DEF Answer
<1>5. p \in s.matches
  <2> HIDE DEF s
  <2> QED
    BY <1>3, <1>4, CompleteHasAll DEF s
<1> QED
  BY <1>2, <1>3, <1>4, <1>5, OldestIsLast

LEMMA CaveatsAreCounted ==
  ASSUME SearchInv, Shown
  PROVE  result.caveats \in Nat
<1>1. result # NoResult
  BY DEF Shown, NoResult
<1>2. PICK d \in Deadlines(ran) : result = Answer(ran, d)
  BY <1>1 DEF SearchInv, Answered
<1> DEFINE rows    == Rows(ran, d.late)
           looked  == IF rows = d.late /\ rows # ran.maxFiles /\ rows \notin Full(ran) /\ d.mid > 0
                      THEN rows + 1 ELSE rows
           cut     == {i \in {j \in 1 .. looked : files[j].state = "readable"} : IsCut(files[i], ran.maxBytes)}
           missing == {i \in 1 .. looked : files[i].state = "missing"}
<1>3. result.caveats = Cardinality(cut) + Cardinality(missing)
  BY <1>2 DEF Answer, Scan
<1>4. rows \in Nat
  BY RowsAreRead DEF SearchInv, Deadlines
<1> HIDE DEF rows
<1>5. looked \in Nat
  BY <1>4
<1> HIDE DEF looked
<1>6. IsFiniteSet(1 .. looked)
  BY <1>5, FS_Interval
<1>7. IsFiniteSet(cut) /\ IsFiniteSet(missing)
  BY <1>6, FS_Subset
<1> QED
  BY <1>3, <1>7, FS_CardinalityType

LEMMA SearchIsTrue == SearchInv => ClaimsHold
<1>1. ASSUME SearchInv, Shown, result.complete, result.caveats = 0, NEW p \in AllMatches, ~PassedOver(p)
      PROVE  p \in result.matches /\ p[1] <= result.oldest
  BY <1>1, AnswerIsTrue
<1>2. ASSUME SearchInv, Shown, ~(result.caveats = 0) PROVE result.caveats > 0
  BY <1>2, CaveatsAreCounted
<1> QED
  BY <1>1, <1>2 DEF ClaimsHold, SaysFirstAppeared, SaysNoneAnywhere

LEMMA InitSearch == SearchInit => SearchInv
<1> SUFFICES ASSUME SearchInit PROVE SearchInv
  OBVIOUS
<1>1. PICK n \in 0 .. MaxFiles : files \in [1 .. n -> File]
  BY DEF SearchInit
<1>2. files \in Seq(File)
  BY <1>1, SearchAssumption
<1> QED
  BY <1>2 DEF SearchInit, SearchInv, Answered, Filters, NoSearch

\* The answer to a search depends on the files alone.
LEMMA AnswerStays ==
  ASSUME files' = files, NEW ask, ran' = ask, NEW d
  PROVE  Answer(ran, d)' = Answer(ask, d) /\ Deadlines(ran)' = Deadlines(ask)
<1>1. \A n, mid : Found(ran, n, mid)' = Found(ask, n, mid)
  BY DEF Found
<1>2. Full(ran)' = Full(ask)
  BY <1>1 DEF Full
<1>3. \A late : Rows(ran, late)' = Rows(ask, late)
  BY <1>2 DEF Rows
<1>4. Scan(ran, d)' = Scan(ask, d)
  BY <1>1, <1>2, <1>3 DEF Scan
<1> QED
  BY <1>4 DEF Answer, Deadlines

LEMMA SearchStep == SearchInv /\ [SearchNext]_searchVars => SearchInv'
<1> SUFFICES ASSUME SearchInv, [SearchNext]_searchVars PROVE SearchInv'
  OBVIOUS
<1>1. ASSUME UNCHANGED <<files, result, ran>>, filters' \in Filters, inFlight' \in [ask : Filters, at : {"idle", "asked"}]
      PROVE  SearchInv'
  <2>1. Answered'
    <3>1. CASE result = NoResult
      BY <1>1, <3>1 DEF Answered
    <3>2. ASSUME NEW d \in Deadlines(ran), result = Answer(ran, d) PROVE Answered'
      <4>1. Answer(ran, d)' = Answer(ran, d)
        BY <1>1, AnswerStays
      <4>2. Deadlines(ran)' = Deadlines(ran)
        BY <1>1, AnswerStays
      <4> QED
        BY <1>1, <3>2, <4>1, <4>2 DEF Answered
    <3> QED
      BY <3>1, <3>2 DEF SearchInv, Answered
  <2> QED
    BY <1>1, <2>1 DEF SearchInv
<1>2. ASSUME result' = NoResult, files' = files, {filters', ran'} \subseteq Filters,
             inFlight' \in [ask : Filters, at : {"idle", "asked"}]
      PROVE  SearchInv'
  BY <1>2 DEF SearchInv, Answered
<1>3. Wide \in Filters /\ filters \in Filters /\ ran \in Filters
      /\ inFlight \in [ask : Filters, at : {"idle", "asked"}] /\ NoSearch \in [ask : Filters, at : {"idle", "asked"}]
  BY DEF SearchInv, Filters, NoSearch
<1>4. CASE SetFilter \/ RunSearch \/ UNCHANGED searchVars
  BY <1>1, <1>3, <1>4 DEF SetFilter, RunSearch, searchVars
<1>5. CASE SearchFails \/ Clear
  BY <1>2, <1>3, <1>5 DEF SearchFails, Clear
<1>6. CASE LandSearch
  <2>1. PICK d \in Deadlines(inFlight.ask) : result' = Answer(inFlight.ask, d)
    BY <1>6 DEF LandSearch
  <2>2. files' = files /\ ran' = inFlight.ask /\ filters' = filters /\ inFlight' = NoSearch
    BY <1>6 DEF LandSearch
  <2>3. Answer(ran, d)' = Answer(inFlight.ask, d)
    BY <2>2, AnswerStays
  <2>5. Deadlines(ran)' = Deadlines(inFlight.ask)
    BY <2>2, AnswerStays
  <2>4. Answered'
    BY <2>1, <2>2, <2>3, <2>5 DEF Answered
  <2> QED
    BY <1>3, <2>2, <2>4 DEF SearchInv
<1> QED
  BY <1>4, <1>5, <1>6 DEF SearchNext

\* What the page says of a search is what the search saw (LogSearch.tsx, "the single
\* worst thing this page can do"): whatever the logs, the bounds, the deadline and the
\* filters picked meanwhile, a complete scan without caveats has every match but those
\* that a scan passes over without a word, and so its claims about history hold.
THEOREM SearchClaimsHold == SearchSpec => []ClaimsHold
BY InitSearch, SearchStep, SearchIsTrue, PTL DEF SearchSpec
=============================================================================
