------------------------------ MODULE RunNotes ------------------------------
(****************************************************************************)
(* The notes thread of a run page (RunNotes.tsx): notes are written, edited *)
(* and removed optimistically, and other people's writes are heard over the *)
(* websocket.  A note's body is a number: the order in which this page's    *)
(* user submitted it, 0 for others.  Events of other runs are ignored by    *)
(* the page, which a change of run mounts afresh, and are left out.         *)
(****************************************************************************)
EXTENDS Naturals, FiniteSets

CONSTANTS
    MaxNotes,           \* notes the server ever creates
    MaxTexts,           \* bodies submitted on this page, new notes and edits
    MaxNoteMishaps      \* requests that fail, before or after the server did them

ASSUME NotesAssumption == MaxNotes \in Nat /\ MaxTexts \in Nat /\ MaxNoteMishaps \in Nat

VARIABLES
    notesDb,    \* the server's notes
    created,    \* notes ever created
    notes,      \* the thread on screen
    drafts,     \* notes not saved, and whether each is being sent
    editing,    \* the id under the editor, or 0
    loadError,  \* the last read failed
    writes,     \* POST, PUT and DELETE requests in flight
    reads,      \* GET requests in flight
    events,     \* run_notes_changed of this run is not delivered yet
    typed,      \* history: bodies submitted
    settled,    \* history: bodies the server took or the user discarded
    told,       \* history: bodies of edits that a toast said were not saved
    noteMishaps

noteVars == <<notesDb, created, notes, drafts, editing, loadError, writes, reads, events,
              typed, settled, told, noteMishaps>>

NoRow == [id |-> 0, body |-> 0]
Without(rows, i) == {n \in rows : n.id # i}
Busy(i) == \E w \in writes : w.row.id = i

NotesInit ==
    /\ notesDb \in {{}, {[id |-> 1, body |-> 0]}} /\ created = Cardinality(notesDb)
    /\ notes = notesDb /\ reads = {notesDb}
    /\ drafts = {} /\ editing = 0 /\ loadError = FALSE /\ writes = {} /\ events = FALSE
    /\ typed = 0 /\ settled = {} /\ told = {} /\ noteMishaps = 0

----------------------------------------------------------------------------
\* What the user does.

\* A new note, or a failed one sent again.
Submit ==
    /\ typed < MaxTexts /\ typed' = typed + 1
    /\ drafts' = drafts \cup {[body |-> typed', sending |-> TRUE]}
    /\ writes' = writes \cup {[kind |-> "create", row |-> [NoRow EXCEPT !.body = typed'],
                               was |-> NoRow, reply |-> "none"]}
    /\ UNCHANGED <<notesDb, created, notes, editing, reads, events, settled, told, noteMishaps, loadError>>

SendAgain(d) ==
    /\ d \in drafts /\ ~d.sending
    /\ drafts' = (drafts \ {d}) \cup {[d EXCEPT !.sending = TRUE]}
    /\ writes' = writes \cup {[kind |-> "create", row |-> [NoRow EXCEPT !.body = d.body],
                               was |-> NoRow, reply |-> "none"]}
    /\ UNCHANGED <<notesDb, created, notes, editing, reads, events, typed, settled, told, noteMishaps, loadError>>

Discard(d) ==
    /\ d \in drafts /\ ~d.sending
    /\ drafts' = drafts \ {d} /\ settled' = settled \cup {d.body}
    /\ UNCHANGED <<notesDb, created, notes, editing, writes, reads, events, typed, told, noteMishaps, loadError>>

Edit(n) ==
    /\ n \in notes /\ ~Busy(n.id) /\ editing # n.id /\ editing' = n.id
    /\ UNCHANGED <<notesDb, created, notes, drafts, writes, reads, events, typed, settled, told, noteMishaps, loadError>>

\* Escape, or Cancel.
CancelEdit ==
    /\ editing # 0 /\ editing' = 0
    /\ UNCHANGED <<notesDb, created, notes, drafts, writes, reads, events, typed, settled, told, noteMishaps, loadError>>

\* Saved at once on screen; the note as it was is kept for a rollback.
SaveEdit ==
    /\ editing # 0 /\ typed < MaxTexts /\ typed' = typed + 1
    /\ \E n \in notes :
        /\ n.id = editing
        /\ LET new == [n EXCEPT !.body = typed']
           IN  /\ notes' = Without(notes, n.id) \cup {new}
               /\ writes' = writes \cup {[kind |-> "edit", row |-> new, was |-> n, reply |-> "none"]}
    /\ editing' = 0
    /\ UNCHANGED <<notesDb, created, drafts, reads, events, settled, told, noteMishaps, loadError>>

Remove(n) ==
    /\ n \in notes /\ ~Busy(n.id) /\ editing # n.id
    /\ writes' = writes \cup {[kind |-> "remove", row |-> n, was |-> n, reply |-> "none"]}
    /\ UNCHANGED <<notesDb, created, notes, drafts, editing, reads, events, typed, settled, told, noteMishaps, loadError>>

TryAgain ==
    /\ loadError /\ reads' = reads \cup {notesDb}
    /\ UNCHANGED <<notesDb, created, notes, drafts, editing, writes, events, typed, settled, told, noteMishaps, loadError>>

----------------------------------------------------------------------------
\* The server: a write is done and broadcast, or refused (the note is gone).

Changed == events' = TRUE

Serve(w) ==
    /\ w \in writes /\ w.reply = "none"
    /\ LET here == {n \in notesDb : n.id = w.row.id}
           Done(row) == writes' = (writes \ {w}) \cup {[w EXCEPT !.row = row, !.reply = "done"]}
       IN  \/ /\ w.kind = "create" /\ created < MaxNotes /\ created' = created + 1
              /\ Done([w.row EXCEPT !.id = created'])
              /\ notesDb' = notesDb \cup {[w.row EXCEPT !.id = created']}
              /\ settled' = settled \cup {w.row.body} /\ Changed
           \/ /\ w.kind = "edit" /\ here # {} /\ Done(w.row)
              /\ notesDb' = Without(notesDb, w.row.id) \cup {w.row}
              /\ settled' = settled \cup {w.row.body} /\ UNCHANGED created /\ Changed
           \/ /\ w.kind = "remove" /\ here # {} /\ Done(w.row)
              /\ notesDb' = Without(notesDb, w.row.id)
              /\ UNCHANGED <<created, settled>> /\ Changed
           \/ /\ IF w.kind = "create" THEN created = MaxNotes ELSE here = {}
              /\ writes' = (writes \ {w}) \cup {[w EXCEPT !.reply = "failed"]}
              /\ UNCHANGED <<notesDb, created, settled, events>>
    /\ UNCHANGED <<notes, drafts, editing, reads, typed, told, noteMishaps, loadError>>

\* The request, or its reply, is lost.
LoseWrite(w) ==
    /\ w \in writes /\ w.reply # "failed"
    /\ noteMishaps < MaxNoteMishaps /\ noteMishaps' = noteMishaps + 1
    /\ writes' = (writes \ {w}) \cup {[w EXCEPT !.reply = "failed"]}
    /\ UNCHANGED <<notesDb, created, notes, drafts, editing, reads, events, typed, settled, told, loadError>>

\* Somebody else edits, removes or adds a note.
Others ==
    /\ \/ /\ created < MaxNotes /\ created' = created + 1
          /\ notesDb' = notesDb \cup {[id |-> created', body |-> 0]}
       \/ /\ \E n \in notesDb : notesDb' \in {notesDb \ {n}, Without(notesDb, n.id) \cup {[n EXCEPT !.body = 0]}}
          /\ UNCHANGED created
    /\ Changed
    /\ UNCHANGED <<notes, drafts, editing, writes, reads, typed, settled, told, noteMishaps, loadError>>

----------------------------------------------------------------------------
\* Replies, failures and events reach the page.

Written(w) ==
    /\ w \in writes /\ w.reply = "done" /\ writes' = writes \ {w}
    /\ CASE w.kind = "create" -> notes' = notes \cup {w.row}
         [] w.kind = "edit" -> notes' = {IF n.id = w.row.id THEN w.row ELSE n : n \in notes}
         [] w.kind = "remove" -> notes' = Without(notes, w.row.id)
    /\ drafts' = IF w.kind = "create" THEN {d \in drafts : d.body # w.row.body} ELSE drafts
    /\ UNCHANGED <<notesDb, created, editing, reads, events, typed, settled, told, noteMishaps, loadError>>

\* An edit is rolled back to the note as it was: its text is gone, and said to be.
RollBack(w) ==
    /\ w \in writes /\ w.reply = "failed" /\ writes' = writes \ {w}
    /\ notes' = IF w.kind = "edit" THEN {IF n.id = w.was.id THEN w.was ELSE n : n \in notes} ELSE notes
    /\ told' = IF w.kind = "edit" THEN told \cup {w.row.body} ELSE told
    /\ UNCHANGED <<notesDb, created, editing, reads, events, typed, settled, noteMishaps, loadError>>

\* Mutant of WriteFails: a note that could not be saved leaves the screen.
WriteFailsSilently(w) ==
    RollBack(w) /\ drafts' = {d \in drafts : w.kind # "create" \/ d.body # w.row.body}

\* A draft stays, marked unsaved.
WriteFails(w) ==
    /\ RollBack(w)
    /\ drafts' = {IF w.kind = "create" /\ d.body = w.row.body THEN [d EXCEPT !.sending = FALSE] ELSE d : d \in drafts}

LandNotes(rows) ==
    /\ rows \in reads /\ reads' = reads \ {rows} /\ notes' = rows /\ loadError' = FALSE
    /\ UNCHANGED <<notesDb, created, drafts, editing, writes, events, typed, settled, told, noteMishaps>>

LoseRead(rows) ==
    /\ rows \in reads /\ reads' = reads \ {rows} /\ loadError' = TRUE
    /\ noteMishaps < MaxNoteMishaps /\ noteMishaps' = noteMishaps + 1
    /\ UNCHANGED <<notesDb, created, notes, drafts, editing, writes, events, typed, settled, told>>

\* An event is ignored while a write is out.
Hear ==
    /\ events /\ events' = FALSE
    /\ reads' = IF writes = {} THEN reads \cup {notesDb} ELSE reads
    /\ UNCHANGED <<notesDb, created, notes, drafts, editing, writes, typed, settled, told, noteMishaps, loadError>>

NotesNext ==
    \/ Submit \/ SaveEdit \/ CancelEdit \/ TryAgain \/ Others \/ Hear
    \/ (\E d \in drafts : SendAgain(d) \/ Discard(d))
    \/ (\E n \in notes : Edit(n) \/ Remove(n))
    \/ (\E w \in writes : Serve(w) \/ LoseWrite(w) \/ Written(w) \/ WriteFails(w))
    \/ (\E rows \in reads : LandNotes(rows) \/ LoseRead(rows))

NotesSpec == NotesInit /\ [][NotesNext]_noteVars

----------------------------------------------------------------------------
(****************************************************************************)
(* A note that failed to land stays on screen (the head comment of          *)
(* RunNotes.tsx): every body submitted is a draft, or the server took it,   *)
(* or its author discarded it; and so for an edit while its save is under   *)
(* way, whose text does not stay when that fails, but a toast says so.  And *)
(* the thread shows no text of this page that the server does not have or   *)
(* had, but for an edit being saved: no rollback and no answer out of order *)
(* leaves one standing.                                                     *)
(****************************************************************************)
BeingSaved(b) == \E w \in writes : w.kind = "edit" /\ w.row.body = b

NothingTypedIsLost ==
    /\ \A b \in 1 .. typed : b \in settled \cup told \/ BeingSaved(b) \/ \E d \in drafts : d.body = b
    /\ \A n \in notes : n.body \in settled \cup {0} \/ BeingSaved(n.body)
=============================================================================
