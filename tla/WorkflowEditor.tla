---------------------------- MODULE WorkflowEditor ----------------------------
(***************************************************************************)
(* "Edit workflow" (App.tsx, EditWorkflowModal), with the two fields that   *)
(* keep state of their own and publish it through hidden inputs: the run    *)
(* form, as drafts (RunForm.tsx), and the resource lock (LockField.tsx),    *)
(* which tells what the other workflows of a resource will do.  The server  *)
(* checks both again, while others save the same workflow and other ones.   *)
(* Names are tokens: which of them are spelled alike is a constant.         *)
(***************************************************************************)
EXTENDS RunForm

CONSTANTS Other,          \* the other workflows
          Resource,       \* names of resources
          Alike,          \* pairs of names a typo apart
          ParameterName,  \* names typed into a draft
          Reserved,       \* the ones RunRail sets itself
          DraftText,      \* defaults typed into a draft
          HelpText,       \* helps typed into a draft
          OptionLists,    \* options typed into a draft: sequences of words
          MaxParameters, MaxChoices,  \* the server's bounds on a form and on a choice
          MaxChanges,     \* bound: changes made in the editor
          MaxOtherSaves   \* bound: saves of others

ASSUME EditorAssumption ==
  /\ ParameterName \cup DraftText \cup HelpText \subseteq Text /\ OptionLists \subseteq Seq(Text)
  /\ Alike \subseteq Resource \X Resource /\ {MaxParameters, MaxChoices, MaxChanges, MaxOtherSaves} \subseteq Nat

VARIABLES flow,       \* the server's row: its run form, its lock, whether it is scheduled
          pageFlow,   \* the row the page read, which the editor opens on
          locks,      \* the other workflows' locks
          editor,     \* the modal; `had` is a record of the peers' locks since it opened
          toast,      \* what the last save came to
          changes, otherSaves

editorVars == <<flow, pageFlow, locks, editor, toast, changes, otherSaves>>

NoName   == ""
Spaces   == "   "     \* typed, and trimmed away
LockModes    == {"shared", "exclusive"}
NoLock   == [resource |-> NoName, mode |-> "shared"]
LockRows == {NoLock} \cup [resource : Resource, mode : LockModes]
NoDay    == "Feb 31"  \* written like a date
Closed   == [open |-> FALSE, drafts |-> <<>>, on |-> FALSE, name |-> NoName, pick |-> "shared",
             peers |-> <<>>, fetch |-> "none", answer |-> <<>>, had |-> [o \in Other |-> {}]]

(* ------------------------------- the run form ---------------------------- *)
NewDraft == [name |-> NoName, type |-> "text", help |-> Empty, text |-> Empty, flag |-> FALSE, choices |-> <<>>, required |-> FALSE]

DraftOf(p) ==
  [name |-> p.name, type |-> p.type, help |-> p.help, text |-> IF p.type = "bool" THEN Empty ELSE p.default,
   flag |-> p.type = "bool" /\ p.default = "on", choices |-> p.choices, required |-> p.required]
DraftsOf(form) == [i \in DOMAIN form |-> DraftOf(form[i])]

BadOptions(choices) == choices = <<>> \/ Cardinality(Range(choices)) < Len(choices)

DraftProblem(d, all) ==
  \/ d.name \in Reserved \cup {NoName}
  \/ Cardinality({i \in DOMAIN all : all[i].name = d.name}) > 1
  \/ d.name = "ds" /\ d.type # "date"
  \/ d.type = "choice" /\ (BadOptions(d.choices) \/ d.text \notin Range(d.choices) \cup {Empty})
  \/ d.type = "number" /\ d.text \notin Numbers \cup {Empty}
  \/ d.type = "date" /\ d.text \notin Dates \cup Relative \cup {NoDay, Empty}

ToDefinitions(drafts) ==
  [i \in DOMAIN drafts |->
     LET d == drafts[i]
     IN  [name |-> d.name, type |-> d.type, help |-> d.help, required |-> d.required,
          default |-> IF d.type = "bool" THEN IF d.flag THEN "on" ELSE "off" ELSE d.text,
          choices |-> IF d.type = "choice" THEN d.choices ELSE <<>>]]

\* The bounds of check_definitions, which the browser does not check.
BeyondBounds(form) ==
  \/ Len(form) > MaxParameters
  \/ \E i \in DOMAIN form :
       \/ form[i].help \in TooLong \/ Len(form[i].choices) > MaxChoices
       \/ form[i].type = "text" /\ form[i].default \in TooLong

\* check_definitions and check_schedulable.
Acceptable(form, scheduled) ==
  /\ ~BeyondBounds(form)
  /\ \A i \in DOMAIN form :
       LET p == form[i]
       IN  /\ p.name \notin Reserved \cup {NoName} /\ \A j \in DOMAIN form \ {i} : form[j].name # p.name
           /\ p.name = "ds" => p.type = "date"
           /\ p.type = "choice" => ~BadOptions(p.choices)
           /\ p.default = Empty \/ (p.type = "date" /\ p.default \in Relative) \/ Converts(p, p.default)
  /\ scheduled => NeedsValue(form) = {}

(* -------------------------------- the lock ------------------------------- *)
Trim(name) == IF name = Spaces THEN NoName ELSE name
Trimmed == Trim(editor.name)
Exclusive == editor.pick = "exclusive"

\* Of the other workflows, as they were read when the modal opened.
Locked  == {o \in DOMAIN editor.peers : editor.peers[o].resource # NoName}
InUse   == {editor.peers[o].resource : o \in Locked}
Sharing == {o \in Locked : editor.peers[o].resource = Trimmed}
NearMisses == IF Trimmed # NoName /\ Sharing = {} THEN {r \in InUse : <<Trimmed, r>> \in Alike} ELSE {}

\* Mutant of Overlaps: what the other one asks for is not looked at.
OverlapsByPick(o) == ~Exclusive
Overlaps(o) == ~Exclusive /\ editor.peers[o].mode # "exclusive"

\* The hidden inputs, and lockValues, which reads them back.
PublishedLock ==
  LET resource == IF editor.on THEN Trimmed ELSE NoName
  IN  [resource |-> resource, mode |-> IF resource = NoName THEN "shared" ELSE editor.pick]

\* The server's rule for runs of two workflows (queue.py, _resource_blocked).
TakeTurns(a, b) == a.resource # NoName /\ a.resource = b.resource /\ "exclusive" \in {a.mode, b.mode}

(* -------------------------------- the modal ------------------------------ *)
EditorInit ==
  /\ flow \in [form : Form, lock : LockRows, scheduled : BOOLEAN] /\ Acceptable(flow.form, flow.scheduled)
  /\ pageFlow = flow /\ locks \in [Other -> LockRows]
  /\ editor = Closed /\ toast = "none" /\ changes = 0 /\ otherSaves = 0

\* Others save this workflow, a key at a time, or the lock of another one; the page reads.
RowPatches ==
  {[flow EXCEPT !.form = form] : form \in Form} \cup {[flow EXCEPT !.lock = lock] : lock \in LockRows}
  \cup {[flow EXCEPT !.scheduled = ~@]}
OthersSave(row, others) ==
  /\ otherSaves < MaxOtherSaves /\ otherSaves' = otherSaves + 1
  /\ Acceptable(row.form, row.scheduled)
  /\ flow' = row /\ locks' = others
  /\ editor' = IF editor.open THEN [editor EXCEPT !.had = [o \in Other |-> @[o] \cup {others[o]}]] ELSE editor
  /\ UNCHANGED <<pageFlow, toast, changes>>

ReadFlow ==
  /\ ~editor.open /\ pageFlow # flow /\ pageFlow' = flow
  /\ UNCHANGED <<flow, locks, editor, toast, changes, otherSaves>>

OpenEditor ==
  LET lock == pageFlow.lock
  IN  /\ ~editor.open /\ toast' = "none"
      /\ editor' = [Closed EXCEPT !.open = TRUE, !.drafts = DraftsOf(pageFlow.form), !.on = lock.resource # NoName,
                                  !.name = lock.resource, !.pick = lock.mode, !.fetch = "asked",
                                  !.had = [o \in Other |-> {locks[o]}]]
      /\ UNCHANGED <<flow, pageFlow, locks, changes, otherSaves>>

AnswerPeers ==
  /\ editor.open /\ editor.fetch = "asked"
  /\ editor' = [editor EXCEPT !.fetch = "answered", !.answer = locks]
  /\ UNCHANGED <<flow, pageFlow, locks, toast, changes, otherSaves>>

\* Without the list the field still works, without its warnings.
LandPeers ==
  /\ editor.open /\ editor.fetch = "answered"
  /\ \/ editor' = [editor EXCEPT !.fetch = "landed", !.peers = editor.answer]
     \/ editor' = [editor EXCEPT !.fetch = "lost"]
  /\ UNCHANGED <<flow, pageFlow, locks, toast, changes, otherSaves>>

ChangeEditor(row) ==
  /\ editor.open /\ changes < MaxChanges /\ changes' = changes + 1
  /\ row # editor /\ editor' = row
  /\ UNCHANGED <<flow, pageFlow, locks, toast, otherSaves>>

ToggleLock     == ChangeEditor([editor EXCEPT !.on = ~@])
TypeName(name) == editor.on /\ ChangeEditor([editor EXCEPT !.name = name])
JoinName       == editor.on /\ \E name \in InUse \cup NearMisses : ChangeEditor([editor EXCEPT !.name = name])
PickLock(mode) == editor.on /\ Trimmed # NoName /\ ChangeEditor([editor EXCEPT !.pick = mode])

Redraft(drafts) == ChangeEditor([editor EXCEPT !.drafts = drafts])
DraftPatches(d) ==
  {[d EXCEPT !.name = n] : n \in ParameterName} \cup {[d EXCEPT !.type = t] : t \in ParameterTypes}
  \cup {[d EXCEPT !.help = h] : h \in HelpText}
  \cup (IF d.type = "bool" THEN {[d EXCEPT !.flag = ~@]}
        ELSE {[d EXCEPT !.text = v] : v \in DraftText} \cup {[d EXCEPT !.required = ~@]})
  \cup (IF d.type = "choice" THEN {[d EXCEPT !.choices = c] : c \in OptionLists} ELSE {})
EditDraft(i) == \E d \in DraftPatches(editor.drafts[i]) : Redraft([editor.drafts EXCEPT ![i] = d])
AddDraft     == Redraft(Append(editor.drafts, NewDraft))
RemoveDraft(i) == Redraft(RemoveAt(editor.drafts, i))
MoveDraft(i, to) == Redraft(InsertAt(RemoveAt(editor.drafts, i), to, editor.drafts[i]))

CloseEditor ==
  /\ editor.open /\ editor' = Closed
  /\ UNCHANGED <<flow, pageFlow, locks, toast, changes, otherSaves>>

\* submit: every key is written, whoever saved the row since the page read it.
Submission == [form |-> ToDefinitions(editor.drafts), lock |-> PublishedLock, scheduled |-> pageFlow.scheduled]
SaveEditor ==
  /\ editor.open /\ (editor.on => editor.name # NoName)
  /\ UNCHANGED <<locks, changes, otherSaves>>
  /\ IF \E i \in DOMAIN editor.drafts : DraftProblem(editor.drafts[i], editor.drafts)
     THEN toast' = "problem" /\ UNCHANGED <<flow, pageFlow, editor>>
     ELSE IF Acceptable(Submission.form, Submission.scheduled)
     THEN flow' = Submission /\ toast' = "saved" /\ editor' = Closed /\ UNCHANGED pageFlow
     ELSE toast' = "refused" /\ UNCHANGED <<flow, pageFlow, editor>>

EditorNext ==
  \/ \E row \in RowPatches : OthersSave(row, locks)
  \/ \E o \in Other, lock \in LockRows : OthersSave(flow, [locks EXCEPT ![o] = lock])
  \/ ReadFlow \/ OpenEditor \/ AnswerPeers \/ LandPeers \/ CloseEditor \/ SaveEditor
  \/ ToggleLock \/ JoinName \/ \E mode \in LockModes : PickLock(mode)
  \/ \E name \in Resource \cup {NoName, Spaces} : TypeName(name)
  \/ AddDraft
  \/ \E i \in DOMAIN editor.drafts :
       EditDraft(i) \/ RemoveDraft(i) \/ \E to \in DOMAIN editor.drafts \ {i} : MoveDraft(i, to)

EditorSpec == EditorInit /\ [][EditorNext]_editorVars

\* What a draft shows: what its type has no field for is not seen.
Seen(d) == [name |-> d.name, type |-> d.type, help |-> d.help, text |-> IF d.type = "bool" THEN Empty ELSE d.text,
            flag |-> d.type = "bool" /\ d.flag, choices |-> IF d.type = "choice" THEN d.choices ELSE <<>>,
            required |-> d.type # "bool" /\ d.required]

(***************************************************************************)
(* The editor keeps its word.  What it saves, it opens on again: the drafts *)
(* as they were seen (runForms.test.ts, "survives a round trip"), the lock  *)
(* with its choices (LockField.tsx, lockValues), whatever was toggled and   *)
(* typed on the way.  The draft's check has the server's rules ("Same rules *)
(* as the server", runForms.ts:128) but for the bounds on a form's size, a  *)
(* default that no calendar has and a value a schedule cannot ask for, the  *)
(* only ones a save is refused for.  And what the field said of a peer it   *)
(* listed is true, once the lock is saved, of a lock the peer had while the *)
(* editor was open: the list is read once, and others save meanwhile.       *)
(***************************************************************************)
EditorKeepsItsWord ==
  [][/\ toast' = "saved" /\ toast # "saved" =>
          /\ [i \in DOMAIN flow'.form |-> Seen(DraftOf(flow'.form[i]))] = [i \in DOMAIN editor.drafts |-> Seen(editor.drafts[i])]
          /\ (flow'.lock.resource # NoName) = (editor.on /\ Trimmed # NoName)
          /\ flow'.lock.resource # NoName =>
               /\ flow'.lock = [resource |-> Trimmed, mode |-> editor.pick]
               /\ \A o \in Locked : \E lock \in editor.had[o] :
                    TakeTurns(flow'.lock, lock) = (o \in Sharing /\ ~Overlaps(o))
     /\ toast' = "refused" /\ toast # "refused" =>
          \/ \E i \in DOMAIN editor.drafts : editor.drafts[i].type = "date" /\ editor.drafts[i].text = NoDay
          \/ BeyondBounds(Submission.form)
          \/ pageFlow.scheduled /\ NeedsValue(Submission.form) # {}]_editorVars
=============================================================================
