---------------------------- MODULE EditorsProofs ----------------------------
(* Proofs about the forms of the workflow page: a run starts with what its form *)
(* showed (RunForm); "Edit workflow" saves what it showed, opens on it again,   *)
(* and is refused only for what its own check leaves to the server              *)
(* (WorkflowEditor) -- for any forms, names, values and locks; and the page     *)
(* lists the tasks in the order a run takes them, whoever edits them            *)
(* (TaskEditor) -- for any tasks, names and submissions.                        *)
EXTENDS WorkflowEditor, TaskEditor, FiniteSetTheorems, SequenceTheorems, WellFoundedInduction, TLAPS

(* ------------------------------ the run form ----------------------------- *)

\* A request under way sends what is filled in of what was shown, and no day of its own in a backfill.
SentIsShown ==
  posted # NoPost =>
    /\ DOMAIN posted.shown \subseteq Names(posted.form)
    /\ DOMAIN posted.sent = {n \in DOMAIN posted.shown : posted.shown[n] # Empty}
    /\ \A n \in DOMAIN posted.sent : posted.sent[n] = posted.shown[n]
    /\ posted.kind = "backfill" => "ds" \notin DOMAIN posted.shown

DialogIsOne ==
  \/ runDialog = NoDialog
  \/ runDialog.kind \in {"run", "backfill"} /\ runDialog = [kind |-> runDialog.kind, values |-> runDialog.values]

RunFormInv == SentIsShown /\ DialogIsOne /\ RunsAsShown

\* What the server resolves: what came with a value, as it came; else the default, for the day.
LEMMA Resolved ==
  ASSUME NEW asked, NEW given, NEW d, NEW n
  PROVE  /\ n \in DOMAIN given /\ given[n] # Empty =>
              n \in DOMAIN Resolve(asked, given, d) /\ Resolve(asked, given, d)[n] = given[n]
         /\ n \in Names(asked) \ DOMAIN given /\ Entry(asked, n).default # Empty
              => Resolve(asked, given, d)[n] = OnDay(Entry(asked, n).default, d)
BY DEF Resolve

\* A relative default is a value.
LEMMA RelativeIsSome == \A default \in Relative : default # Empty
BY DEF Relative, Empty

LEMMA InitRunForm ==
  ASSUME RunFormInit
  PROVE  RunFormInv
<1>1. SentIsShown
  BY DEF RunFormInit, SentIsShown
<1>2. started.runs = <<>>
  BY DEF RunFormInit, NoneStarted
<1> QED
  BY <1>1, <1>2 DEF RunFormInv, RunsAsShown, RunFormInit, DialogIsOne

\* What is posted was shown.
LEMMA PostKeeps ==
  ASSUME RunFormInv, NEW kind, NEW sent, NEW seen, NEW days, Post(kind, sent, seen, days),
         DOMAIN seen \subseteq Names(pageForm),
         DOMAIN sent = {n \in DOMAIN seen : seen[n] # Empty},
         \A n \in DOMAIN sent : sent[n] = seen[n],
         kind = "backfill" => "ds" \notin DOMAIN seen
  PROVE  RunFormInv'
<1>1. SentIsShown'
  BY DEF Post, SentIsShown
<1>2. started' = started /\ runDialog' = runDialog
  BY DEF Post
<1> QED
  BY <1>1, <1>2 DEF RunFormInv, RunsAsShown, DialogIsOne

LEMMA SubmitKeeps ==
  ASSUME RunFormInv, Submit
  PROVE  RunFormInv'
<1>1. /\ DOMAIN Shown = Fields
      /\ DOMAIN Collected = {n \in Fields : Shown[n] # Empty}
      /\ \A n \in DOMAIN Collected : Collected[n] = Shown[n]
  BY DEF Shown, Collected
<1>2. Fields \subseteq Names(pageForm)
  BY DEF Fields, FieldsOf
<1>3. CASE runDialog.kind = "run"
  <2>1. Post("run", Collected, Shown, {formDay})
    BY <1>3 DEF Submit
  <2> QED
    BY <1>1, <1>2, <2>1, PostKeeps
<1>4. CASE runDialog.kind # "run"
  <2>1. PICK first, last \in DOMAIN DayText \ {1} : Post("backfill", Collected, Shown, first .. last)
    BY <1>4 DEF Submit
  <2>2. runDialog.kind = "backfill"
    BY <1>4 DEF RunFormInv, DialogIsOne, Submit
  <2>3. "ds" \notin Fields
    BY <2>2 DEF Fields, FieldsOf
  <2> QED
    BY <1>1, <1>2, <2>1, <2>3, PostKeeps
<1> QED
  BY <1>3, <1>4

\* The runs queued have what was shown, in each field and on each day.
LEMMA ServeKeeps ==
  ASSUME RunFormInv, ServeRun
  PROVE  RunFormInv'
<1> DEFINE days == IF posted.kind = "backfill" THEN posted.days ELSE {formDay}
<1>1. posted # NoPost /\ posted' = NoPost
  BY DEF ServeRun
<1>2. SentIsShown'
  BY <1>1 DEF SentIsShown
<1>3. CASE /\ started' = [kind |-> posted.kind, shown |-> posted.shown, form |-> posted.form, served |-> wfForm,
                         runs |-> [d \in days |-> Resolve(wfForm, Given(d), d)]]
           /\ runDialog' = NoDialog
  <2>1. ASSUME NEW d \in DOMAIN started'.runs, NEW n \in DOMAIN started'.shown
        PROVE  /\ started'.shown[n] # Empty => n \in DOMAIN started'.runs[d] /\ started'.runs[d][n] = started'.shown[n]
               /\ started'.kind = "backfill" /\ Entry(started'.form, n).default \in Relative
                    /\ started'.shown[n] = Empty /\ started'.served = started'.form
                    => started'.runs[d][n] = OnDay(Entry(started'.form, n).default, d)
    <3>1. /\ d \in days /\ n \in DOMAIN posted.shown
          /\ started'.shown[n] = posted.shown[n] /\ started'.runs[d] = Resolve(wfForm, Given(d), d)
          /\ started'.kind = posted.kind /\ started'.form = posted.form /\ started'.served = wfForm
      BY <1>3, <2>1
    <3>2. /\ n \in Names(posted.form)
          /\ n \in DOMAIN posted.sent <=> posted.shown[n] # Empty
          /\ n \in DOMAIN posted.sent => posted.sent[n] = posted.shown[n]
          /\ posted.kind = "backfill" => n # "ds"
      BY <1>1, <3>1 DEF RunFormInv, SentIsShown
    <3>3. /\ n \in DOMAIN Given(d) <=> n \in DOMAIN posted.sent
          /\ n \in DOMAIN Given(d) => Given(d)[n] = posted.sent[n]
      BY <3>2 DEF Given
    <3>4. ASSUME posted.shown[n] # Empty
          PROVE  n \in DOMAIN Resolve(wfForm, Given(d), d) /\ Resolve(wfForm, Given(d), d)[n] = posted.shown[n]
      BY <3>2, <3>3, <3>4, Resolved
    <3>5. ASSUME posted.shown[n] = Empty, wfForm = posted.form, Entry(posted.form, n).default \in Relative
          PROVE  Resolve(wfForm, Given(d), d)[n] = OnDay(Entry(posted.form, n).default, d)
      BY <3>2, <3>3, <3>5, Resolved, RelativeIsSome
    <3> QED
      BY <3>1, <3>4, <3>5
  <2>2. RunsAsShown'
    BY <2>1 DEF RunsAsShown
  <2> QED
    BY <1>2, <1>3, <2>2 DEF RunFormInv, DialogIsOne
<1>4. CASE started' = NoneStarted /\ UNCHANGED runDialog
  <2>1. started'.runs = <<>>
    BY <1>4 DEF NoneStarted
  <2> QED
    BY <1>2, <1>4, <2>1 DEF RunFormInv, RunsAsShown, DialogIsOne
<1> QED
  BY <1>3, <1>4 DEF ServeRun

\* A dialog opens, is filled in or closes.
LEMMA DialogKeeps ==
  ASSUME RunFormInv, UNCHANGED <<posted, started>>, DialogIsOne'
  PROVE  RunFormInv'
BY DEF RunFormInv, RunsAsShown, SentIsShown

LEMMA OpenKeeps ==
  ASSUME RunFormInv, NEW kind \in {"run", "backfill"}, OpenForm(kind)
  PROVE  RunFormInv'
<1>1. PICK values : runDialog' = [kind |-> kind, values |-> values]
  BY DEF OpenForm
<1> QED
  BY <1>1, DialogKeeps DEF OpenForm, DialogIsOne

LEMMA RunFormStep ==
  ASSUME RunFormInv, [RunFormNext]_runFormVars
  PROVE  RunFormInv'
<1>1. ASSUME NEW other, SaveElsewhere(other) PROVE RunFormInv'
  BY <1>1, DialogKeeps DEF SaveElsewhere, RunFormInv, DialogIsOne
<1>2. CASE Midnight
  BY <1>2, DialogKeeps DEF Midnight, RunFormInv, DialogIsOne
<1>3. CASE LoadForm
  BY <1>3, DialogKeeps DEF LoadForm, RunFormInv, DialogIsOne
<1>4. CASE AnswerForm
  BY <1>4, DialogKeeps DEF AnswerForm, RunFormInv, DialogIsOne
<1>5. CASE LandForm
  BY <1>5, DialogKeeps DEF LandForm, RunFormInv, DialogIsOne
<1>6. ASSUME runDialog # NoDialog, NEW n, NEW value, Fill(n, value) PROVE RunFormInv'
  <2>1. PICK values : runDialog' = [runDialog EXCEPT !.values = values]
    BY <1>6 DEF Fill
  <2>2. PICK kind \in {"run", "backfill"} : \E old : runDialog = [kind |-> kind, values |-> old]
    BY <1>6 DEF RunFormInv, DialogIsOne
  <2>3. runDialog' = [kind |-> kind, values |-> values]
    BY <2>1, <2>2
  <2>4. DialogIsOne'
    BY <2>3 DEF DialogIsOne
  <2>5. UNCHANGED <<posted, started>>
    BY <1>6 DEF Fill
  <2> QED
    BY <2>4, <2>5, DialogKeeps
<1>7. CASE CloseForm
  BY <1>7, DialogKeeps DEF CloseForm, DialogIsOne
<1>8. CASE RunNow
  <2>1. CASE OpenForm("run")
    BY <2>1, OpenKeeps
  <2>2. CASE Post("now", <<>>, <<>>, {formDay})
    <3>1. DOMAIN <<>> = {}
      OBVIOUS
    <3> QED
      BY <2>2, <3>1, PostKeeps
  <2> QED
    BY <1>8, <2>1, <2>2 DEF RunNow
<1>9. CASE UNCHANGED runFormVars
  BY <1>9, DialogKeeps DEF runFormVars, RunFormInv, DialogIsOne
<1> QED
  BY <1>1, <1>2, <1>3, <1>4, <1>5, <1>6, <1>7, <1>8, <1>9, OpenKeeps, SubmitKeeps, ServeKeeps DEF RunFormNext

(* RunsAsShown for any forms, values, days and saves of others (crud.py,          *)
(* create_run; run_parameters.py, resolve).                                      *)
THEOREM RunsStartAsShown == RunFormSpec => []RunsAsShown
<1>1. RunFormInv /\ [RunFormNext]_runFormVars => RunFormInv'
  BY RunFormStep
<1>2. RunFormInv => RunsAsShown
  BY DEF RunFormInv
<1> QED
  BY <1>1, <1>2, InitRunForm, PTL DEF RunFormSpec

(* ---------------------------- the edited workflow ------------------------- *)

DraftRow == [name : Text, type : ParameterTypes, help : Text, text : Text, flag : BOOLEAN, choices : Seq(Text),
             required : BOOLEAN]
FlowRow  == [form : Seq(ParameterRow), lock : LockRows, scheduled : BOOLEAN]
PeerRows == [Other -> LockRows] \cup {<<>>}
EditorRow ==
  [open : BOOLEAN, drafts : Seq(DraftRow), on : BOOLEAN, name : Resource \cup {NoName, Spaces}, pick : LockModes,
   peers : PeerRows, fetch : {"none", "asked", "answered", "landed", "lost"}, answer : PeerRows,
   had : [Other -> SUBSET LockRows]]

EditorTypes ==
  /\ flow \in FlowRow /\ pageFlow \in FlowRow /\ locks \in [Other -> LockRows]
  /\ editor \in EditorRow

\* A peer has had the lock it has now, and the one an answer gave it, since the editor opened.
PeersHad ==
  /\ editor.open => \A o \in Other : locks[o] \in editor.had[o]
  /\ \A o \in DOMAIN editor.answer : editor.answer[o] \in editor.had[o]
  /\ \A o \in DOMAIN editor.peers : editor.peers[o] \in editor.had[o]

\* A sequence by its items.
LEMMA ByItems ==
  ASSUME NEW S, NEW n \in Nat, NEW f, DOMAIN f = 1 .. n, f = [i \in DOMAIN f |-> f[i]], \A i \in 1 .. n : f[i] \in S
  PROVE  f \in Seq(S) /\ Len(f) = n
<1>1. f \in [1 .. n -> S]
  OBVIOUS
<1> QED
  BY <1>1, SeqDef

LEMMA LockFields ==
  ASSUME NEW lock \in LockRows
  PROVE  /\ lock.resource \in Resource \cup {NoName} /\ lock.mode \in LockModes
         /\ lock.resource # NoName => lock \in [resource : Resource, mode : LockModes]
BY DEF LockRows, NoLock, LockModes

LEMMA OpenedDrafts ==
  ASSUME NEW asked \in Seq(ParameterRow)
  PROVE  DraftsOf(asked) \in Seq(DraftRow)
<1>1. ASSUME NEW i \in 1 .. Len(asked) PROVE DraftOf(asked[i]) \in DraftRow
  <2>1. asked[i] \in ParameterRow
    OBVIOUS
  <2>2. asked[i].name \in Text /\ asked[i].type \in ParameterTypes /\ asked[i].help \in Text
        /\ asked[i].default \in Text /\ asked[i].choices \in Seq(Text) /\ asked[i].required \in BOOLEAN
    BY <2>1 DEF ParameterRow
  <2>3. PICK flag \in BOOLEAN : flag = (asked[i].type = "bool" /\ asked[i].default = "on")
    OBVIOUS
  <2>4. PICK text \in Text : text = IF asked[i].type = "bool" THEN Empty ELSE asked[i].default
    BY <2>2, RunFormAssumption
  <2>5. DraftOf(asked[i]) = [name |-> asked[i].name, type |-> asked[i].type, help |-> asked[i].help,
                             text |-> text, flag |-> flag, choices |-> asked[i].choices, required |-> asked[i].required]
    BY <2>3, <2>4, Zenon DEF DraftOf
  <2> QED
    BY <2>2, <2>5 DEF DraftRow
<1>2. DOMAIN asked = 1 .. Len(asked) /\ Len(asked) \in Nat
  OBVIOUS
<1> QED
  BY <1>1, <1>2, ByItems DEF DraftsOf

\* What the editor sends of one draft.
Definition(d) ==
  [name |-> d.name, type |-> d.type, help |-> d.help, required |-> d.required,
   default |-> IF d.type = "bool" THEN IF d.flag THEN "on" ELSE "off" ELSE d.text,
   choices |-> IF d.type = "choice" THEN d.choices ELSE <<>>]

LEMMA DefinitionFields ==
  ASSUME NEW d
  PROVE  /\ Definition(d).name = d.name /\ Definition(d).type = d.type
         /\ d.type = "choice" => Definition(d).choices = d.choices
         /\ d.type = "text" => Definition(d).default = d.text
BY DEF Definition

LEMMA DefinitionTyped ==
  ASSUME NEW d \in DraftRow
  PROVE  Definition(d) \in ParameterRow
<1>1. /\ d.name \in Text /\ d.type \in ParameterTypes /\ d.help \in Text /\ d.text \in Text /\ d.choices \in Seq(Text)
      /\ d.required \in BOOLEAN
  BY DEF DraftRow
<1>2. PICK default \in Text : default = IF d.type = "bool" THEN IF d.flag THEN "on" ELSE "off" ELSE d.text
  BY <1>1, RunFormAssumption DEF Flags
<1>3. PICK choices \in Seq(Text) : choices = IF d.type = "choice" THEN d.choices ELSE <<>>
  BY <1>1, EmptySeq
<1>4. Definition(d) = [name |-> d.name, type |-> d.type, help |-> d.help, required |-> d.required, default |-> default,
                       choices |-> choices]
  BY <1>2, <1>3, Zenon DEF Definition
<1> QED
  BY <1>1, <1>4 DEF ParameterRow

LEMMA SentDrafts ==
  ASSUME NEW drafts \in Seq(DraftRow)
  PROVE  /\ ToDefinitions(drafts) \in Seq(ParameterRow)
         /\ DOMAIN ToDefinitions(drafts) = DOMAIN drafts
         /\ \A i \in DOMAIN drafts : drafts[i] \in DraftRow /\ ToDefinitions(drafts)[i] = Definition(drafts[i])
<1>1. DOMAIN drafts = 1 .. Len(drafts) /\ Len(drafts) \in Nat /\ \A i \in DOMAIN drafts : drafts[i] \in DraftRow
  OBVIOUS
<1>2. ToDefinitions(drafts) = [i \in DOMAIN drafts |-> Definition(drafts[i])]
  BY DEF ToDefinitions, Definition
<1>3. \A i \in DOMAIN drafts : Definition(drafts[i]) \in ParameterRow
  BY <1>1, DefinitionTyped
<1> QED
  BY <1>1, <1>2, <1>3, ByItems

LEMMA PublishedTyped ==
  ASSUME editor \in EditorRow
  PROVE  PublishedLock \in LockRows
<1>1. editor.on \in BOOLEAN /\ editor.name \in Resource \cup {NoName, Spaces} /\ editor.pick \in LockModes
  BY DEF EditorRow
<1>2. Trimmed \in Resource \cup {NoName}
  BY <1>1 DEF Trimmed, Trim
<1> QED
  BY <1>1, <1>2 DEF PublishedLock, LockRows, NoLock

LEMMA ClosedTyped == Closed \in EditorRow
BY EmptySeq DEF Closed, EditorRow, PeerRows, LockModes

LEMMA InitEditor ==
  ASSUME EditorInit
  PROVE  EditorTypes
<1>1. flow \in FlowRow
  BY RunFormAssumption DEF EditorInit, FlowRow
<1> QED
  BY <1>1, ClosedTyped DEF EditorInit, EditorTypes

\* A change of one draft, or of their order.
LEMMA PatchedDraft ==
  ASSUME NEW d \in DraftRow, NEW e \in DraftPatches(d)
  PROVE  e \in DraftRow
<1>1. ASSUME NEW name \in ParameterName, e = [d EXCEPT !.name = name] PROVE e \in DraftRow
  BY <1>1, EditorAssumption DEF DraftRow
<1>2. ASSUME NEW type \in ParameterTypes, e = [d EXCEPT !.type = type] PROVE e \in DraftRow
  BY <1>2 DEF DraftRow
<1>3. CASE e = [d EXCEPT !.flag = ~@]
  BY <1>3 DEF DraftRow
<1>4. ASSUME NEW text \in DraftText, e = [d EXCEPT !.text = text] PROVE e \in DraftRow
  BY <1>4, EditorAssumption DEF DraftRow
<1>5. CASE e = [d EXCEPT !.required = ~@]
  BY <1>5 DEF DraftRow
<1>7. ASSUME NEW help \in HelpText, e = [d EXCEPT !.help = help] PROVE e \in DraftRow
  BY <1>7, EditorAssumption DEF DraftRow
<1>6. ASSUME NEW choices \in OptionLists, e = [d EXCEPT !.choices = choices] PROVE e \in DraftRow
  BY <1>6, EditorAssumption DEF DraftRow
<1> QED
  BY <1>1, <1>2, <1>3, <1>4, <1>5, <1>6, <1>7 DEF DraftPatches

LEMMA WithoutOne ==
  ASSUME NEW S, NEW s \in Seq(S), NEW i \in 1 .. Len(s)
  PROVE  RemoveAt(s, i) \in Seq(S) /\ Len(RemoveAt(s, i)) = Len(s) - 1
<1>1. /\ SubSeq(s, 1, i - 1) \in Seq(S) /\ Len(SubSeq(s, 1, i - 1)) = i - 1
  <2>1. \A j \in 1 .. i - 1 : s[j] \in S
    BY ElementOfSeq
  <2>2. Len(SubSeq(s, 1, i - 1)) = IF 1 <= i - 1 THEN (i - 1) - 1 + 1 ELSE 0
    BY <2>1, SubSeqProperties
  <2> QED
    BY <2>1, <2>2, SubSeqProperties
<1>2. /\ SubSeq(s, i + 1, Len(s)) \in Seq(S) /\ Len(SubSeq(s, i + 1, Len(s))) = Len(s) - i
  <2>1. \A j \in i + 1 .. Len(s) : s[j] \in S
    BY ElementOfSeq
  <2>2. Len(SubSeq(s, i + 1, Len(s))) = IF i + 1 <= Len(s) THEN Len(s) - (i + 1) + 1 ELSE 0
    BY <2>1, SubSeqProperties
  <2>3. Len(SubSeq(s, i + 1, Len(s))) = Len(s) - i
    BY <2>2
  <2> QED
    BY <2>1, <2>3, SubSeqProperties
<1>3. /\ RemoveAt(s, i) \in Seq(S)
      /\ Len(RemoveAt(s, i)) = Len(SubSeq(s, 1, i - 1)) + Len(SubSeq(s, i + 1, Len(s)))
  <2>1. PICK before \in Seq(S) : before = SubSeq(s, 1, i - 1)
    BY <1>1
  <2>2. PICK behind \in Seq(S) : behind = SubSeq(s, i + 1, Len(s))
    BY <1>2
  <2>3. before \o behind \in Seq(S) /\ Len(before \o behind) = Len(before) + Len(behind)
    BY ConcatProperties
  <2> QED
    BY <2>1, <2>2, <2>3 DEF RemoveAt
<1>4. (i - 1) + (Len(s) - i) = Len(s) - 1
  <2>1. Len(s) \in Nat /\ i \in Int
    OBVIOUS
  <2> QED
    BY <2>1
<1> QED
  BY <1>1, <1>2, <1>3, <1>4

LEMMA WithOneMore ==
  ASSUME NEW S, NEW s \in Seq(S), NEW i \in 1 .. Len(s) + 1, NEW e \in S
  PROVE  InsertAt(s, i, e) \in Seq(S)
<1>1. SubSeq(s, 1, i - 1) \in Seq(S)
  <2>1. \A j \in 1 .. i - 1 : s[j] \in S
    BY ElementOfSeq
  <2> QED
    BY <2>1, SubSeqProperties
<1>2. SubSeq(s, i, Len(s)) \in Seq(S)
  <2>1. \A j \in i .. Len(s) : s[j] \in S
    BY ElementOfSeq
  <2> QED
    BY <2>1, SubSeqProperties
<1>3. <<e>> \in Seq(S)
  OBVIOUS
<1>4. SubSeq(s, 1, i - 1) \o <<e>> \in Seq(S)
  BY <1>1, <1>3, ConcatProperties
<1> QED
  BY <1>2, <1>4, ConcatProperties DEF InsertAt

LEMMA ChangeKeeps ==
  ASSUME EditorTypes, NEW row \in EditorRow, ChangeEditor(row)
  PROVE  EditorTypes'
BY DEF ChangeEditor, EditorTypes

LEMMA RedraftKeeps ==
  ASSUME EditorTypes, NEW drafts \in Seq(DraftRow), Redraft(drafts)
  PROVE  EditorTypes'
<1>1. [editor EXCEPT !.drafts = drafts] \in EditorRow
  BY DEF EditorTypes, EditorRow
<1> QED
  BY <1>1, ChangeKeeps DEF Redraft

LEMMA NamesOffered ==
  ASSUME EditorTypes
  PROVE  InUse \cup NearMisses \subseteq Resource
<1>1. ASSUME NEW o \in Locked PROVE editor.peers[o].resource \in Resource
  <2>1. editor.peers \in PeerRows
    BY DEF EditorTypes, EditorRow
  <2>2. o \in DOMAIN editor.peers
    BY DEF Locked
  <2>3. CASE editor.peers \in [Other -> LockRows]
    <3>1. editor.peers[o] \in LockRows
      BY <2>2, <2>3
    <3> QED
      BY <3>1, LockFields DEF Locked
  <2>4. CASE editor.peers = <<>>
    BY <2>2, <2>4
  <2> QED
    BY <2>1, <2>3, <2>4 DEF PeerRows
<1> QED
  BY <1>1 DEF InUse, NearMisses

LEMMA HadTyped ==
  ASSUME editor \in EditorRow, NEW others \in [Other -> LockRows]
  PROVE  [editor EXCEPT !.had = [o \in Other |-> @[o] \cup {others[o]}]] \in EditorRow
<1>1. editor.had \in [Other -> SUBSET LockRows]
  BY DEF EditorRow
<1>2. [o \in Other |-> editor.had[o] \cup {others[o]}] \in [Other -> SUBSET LockRows]
  BY <1>1
<1> QED
  BY <1>2 DEF EditorRow

LEMMA EditorStep ==
  ASSUME EditorTypes, [EditorNext]_editorVars
  PROVE  EditorTypes'
<1>0. /\ editor \in EditorRow /\ flow \in FlowRow /\ pageFlow \in FlowRow /\ locks \in [Other -> LockRows]
      /\ editor.drafts \in Seq(DraftRow) /\ DOMAIN editor.drafts = 1 .. Len(editor.drafts)
  BY DEF EditorTypes, EditorRow
<1>1. ASSUME NEW row \in RowPatches, OthersSave(row, locks) PROVE EditorTypes'
  <2>1. row \in FlowRow
    <3>1. ASSUME NEW other \in Form, row = [flow EXCEPT !.form = other] PROVE row \in FlowRow
      BY <1>0, <3>1, RunFormAssumption DEF FlowRow
    <3>2. ASSUME NEW lock \in LockRows, row = [flow EXCEPT !.lock = lock] PROVE row \in FlowRow
      BY <1>0, <3>2 DEF FlowRow
    <3>3. CASE row = [flow EXCEPT !.scheduled = ~@]
      BY <1>0, <3>3 DEF FlowRow
    <3> QED
      BY <3>1, <3>2, <3>3 DEF RowPatches
  <2> QED
    BY <1>0, <1>1, <2>1, HadTyped DEF OthersSave, EditorTypes
<1>2. ASSUME NEW o \in Other, NEW lock \in LockRows, OthersSave(flow, [locks EXCEPT ![o] = lock]) PROVE EditorTypes'
  <2>1. [locks EXCEPT ![o] = lock] \in [Other -> LockRows]
    BY <1>0
  <2> QED
    BY <1>0, <1>2, <2>1, HadTyped DEF OthersSave, EditorTypes
<1>3. CASE ReadFlow
  BY <1>0, <1>3 DEF ReadFlow, EditorTypes
<1>4. CASE OpenEditor
  <2>1. pageFlow.form \in Seq(ParameterRow) /\ pageFlow.lock \in LockRows
    BY <1>0 DEF FlowRow
  <2>2. DraftsOf(pageFlow.form) \in Seq(DraftRow)
    BY <2>1, OpenedDrafts
  <2>3. pageFlow.lock.resource \in Resource \cup {NoName, Spaces} /\ pageFlow.lock.mode \in LockModes
    BY <2>1, LockFields
  <2>4. PICK on \in BOOLEAN : on = (pageFlow.lock.resource # NoName)
    OBVIOUS
  <2>5. editor' = [open |-> TRUE, drafts |-> DraftsOf(pageFlow.form), on |-> on, name |-> pageFlow.lock.resource,
                   pick |-> pageFlow.lock.mode, peers |-> <<>>, fetch |-> "asked", answer |-> <<>>,
                   had |-> [o \in Other |-> {locks[o]}]]
    BY <1>4, <2>4 DEF OpenEditor, Closed
  <2>7. [o \in Other |-> {locks[o]}] \in [Other -> SUBSET LockRows]
    BY <1>0
  <2>6. editor' \in EditorRow
    BY <2>2, <2>3, <2>5, <2>7 DEF EditorRow, PeerRows
  <2> QED
    BY <1>0, <1>4, <2>6 DEF OpenEditor, EditorTypes
<1>5. CASE AnswerPeers
  <2>1. [editor EXCEPT !.fetch = "answered", !.answer = locks] \in EditorRow
    BY <1>0 DEF EditorRow, PeerRows
  <2> QED
    BY <1>0, <1>5, <2>1 DEF AnswerPeers, EditorTypes
<1>6. CASE LandPeers
  <2>1. [editor EXCEPT !.fetch = "landed", !.peers = editor.answer] \in EditorRow
    BY <1>0 DEF EditorRow
  <2>2. [editor EXCEPT !.fetch = "lost"] \in EditorRow
    BY <1>0 DEF EditorRow
  <2> QED
    BY <1>0, <1>6, <2>1, <2>2 DEF LandPeers, EditorTypes
<1>7. CASE CloseEditor
  <2>1. Closed \in EditorRow
    BY ClosedTyped
  <2> QED
    BY <1>0, <1>7, <2>1 DEF CloseEditor, EditorTypes
<1>8. CASE SaveEditor
  <2>1. Closed \in EditorRow
    BY ClosedTyped
  <2>2. Submission \in FlowRow
    <3>1. pageFlow.scheduled \in BOOLEAN
      BY <1>0 DEF FlowRow
    <3>2. ToDefinitions(editor.drafts) \in Seq(ParameterRow)
      BY <1>0, SentDrafts
    <3>3. PublishedLock \in LockRows
      BY <1>0, PublishedTyped
    <3> QED
      BY <3>1, <3>2, <3>3 DEF Submission, FlowRow
  <2> QED
    BY <1>0, <1>8, <2>1, <2>2 DEF SaveEditor, EditorTypes
<1>9. CASE ToggleLock
  <2>1. [editor EXCEPT !.on = ~@] \in EditorRow
    BY <1>0 DEF EditorRow
  <2> QED
    BY <1>9, <2>1, ChangeKeeps DEF ToggleLock
<1>10. ASSUME NEW name \in Resource \cup {NoName, Spaces}, ChangeEditor([editor EXCEPT !.name = name]) PROVE EditorTypes'
  <2>1. [editor EXCEPT !.name = name] \in EditorRow
    BY <1>0 DEF EditorRow
  <2> QED
    BY <1>10, <2>1, ChangeKeeps
<1>11. CASE JoinName
  BY <1>10, <1>11, NamesOffered DEF JoinName
<1>12. ASSUME NEW mode \in LockModes, PickLock(mode) PROVE EditorTypes'
  <2>1. [editor EXCEPT !.pick = mode] \in EditorRow
    BY <1>0 DEF EditorRow
  <2> QED
    BY <1>12, <2>1, ChangeKeeps DEF PickLock
<1>13. CASE AddDraft
  <2>1. NewDraft \in DraftRow
    BY EmptySeq, RunFormAssumption DEF NewDraft, DraftRow, ParameterTypes, NoName, Empty
  <2>2. Append(editor.drafts, NewDraft) \in Seq(DraftRow)
    BY <1>0, <2>1, AppendProperties
  <2> QED
    BY <1>13, <2>2, RedraftKeeps DEF AddDraft
<1>14. ASSUME NEW i \in DOMAIN editor.drafts, EditDraft(i) PROVE EditorTypes'
  <2>1. PICK d \in DraftPatches(editor.drafts[i]) : Redraft([editor.drafts EXCEPT ![i] = d])
    BY <1>14 DEF EditDraft
  <2>2. d \in DraftRow
    BY <1>0, PatchedDraft, ElementOfSeq
  <2>3. [editor.drafts EXCEPT ![i] = d] \in Seq(DraftRow)
    BY <1>0, <2>2, ExceptSeq
  <2> QED
    BY <2>1, <2>3, RedraftKeeps
<1>15. ASSUME NEW i \in DOMAIN editor.drafts, RemoveDraft(i) PROVE EditorTypes'
  <2>1. RemoveAt(editor.drafts, i) \in Seq(DraftRow)
    BY <1>0, WithoutOne
  <2> QED
    BY <1>15, <2>1, RedraftKeeps DEF RemoveDraft
<1>16. ASSUME NEW i \in DOMAIN editor.drafts, NEW to \in DOMAIN editor.drafts \ {i}, MoveDraft(i, to) PROVE EditorTypes'
  <2>1. RemoveAt(editor.drafts, i) \in Seq(DraftRow) /\ Len(RemoveAt(editor.drafts, i)) = Len(editor.drafts) - 1
    BY <1>0, WithoutOne
  <2>2. editor.drafts[i] \in DraftRow /\ to \in 1 .. Len(RemoveAt(editor.drafts, i)) + 1
    BY <1>0, <2>1, ElementOfSeq
  <2>3. InsertAt(RemoveAt(editor.drafts, i), to, editor.drafts[i]) \in Seq(DraftRow)
    BY <2>1, <2>2, WithOneMore
  <2> QED
    BY <1>16, <2>3, RedraftKeeps DEF MoveDraft
<1>17. CASE UNCHANGED editorVars
  BY <1>17 DEF editorVars, EditorTypes
<1> QED
  BY <1>1, <1>2, <1>3, <1>4, <1>5, <1>6, <1>7, <1>8, <1>9, <1>10, <1>11, <1>12, <1>13, <1>14, <1>15, <1>16, <1>17
     DEF EditorNext, TypeName

LEMMA HadStep ==
  ASSUME EditorTypes, PeersHad, [EditorNext]_editorVars
  PROVE  PeersHad'
<1>0. editor \in EditorRow /\ editor.had \in [Other -> SUBSET LockRows] /\ locks \in [Other -> LockRows]
  BY DEF EditorTypes, EditorRow
<1>1. ASSUME NEW row, NEW others \in [Other -> LockRows], OthersSave(row, others) PROVE PeersHad'
  <2>1. CASE ~editor.open
    BY <1>1, <2>1 DEF OthersSave, PeersHad
  <2>2. CASE editor.open
    <3>1. editor' = [editor EXCEPT !.had = [o \in Other |-> @[o] \cup {others[o]}]]
      BY <1>1, <2>2 DEF OthersSave
    <3>2. /\ editor'.had = [o \in Other |-> editor.had[o] \cup {others[o]}]
          /\ editor'.answer = editor.answer /\ editor'.peers = editor.peers /\ locks' = others
      BY <1>0, <1>1, <3>1 DEF EditorRow, OthersSave
    <3>3. DOMAIN editor.answer \subseteq Other /\ DOMAIN editor.peers \subseteq Other
      BY <1>0 DEF EditorRow, PeerRows
    <3> QED
      BY <3>2, <3>3 DEF PeersHad
  <2> QED
    BY <1>0, <2>1, <2>2 DEF EditorRow
<1>2. CASE ReadFlow
  BY <1>2 DEF ReadFlow, PeersHad
<1>3. CASE OpenEditor
  <2>1. /\ editor'.had = [o \in Other |-> {locks[o]}] /\ editor'.answer = <<>> /\ editor'.peers = <<>>
        /\ locks' = locks
    BY <1>3 DEF OpenEditor, Closed
  <2> QED
    BY <1>0, <2>1 DEF PeersHad
<1>4. CASE AnswerPeers
  BY <1>0, <1>4 DEF AnswerPeers, PeersHad, EditorRow
<1>5. CASE LandPeers
  BY <1>0, <1>5 DEF LandPeers, PeersHad, EditorRow
<1>6. ASSUME editor' = Closed, locks' = locks PROVE PeersHad'
  BY <1>6 DEF Closed, PeersHad
<1>7. CASE CloseEditor
  BY <1>6, <1>7 DEF CloseEditor
<1>8. CASE SaveEditor
  <2>1. editor' \in {editor, Closed} /\ locks' = locks
    BY <1>8 DEF SaveEditor
  <2>2. CASE editor' = editor
    BY <2>1, <2>2 DEF PeersHad
  <2> QED
    BY <1>6, <2>1, <2>2
<1>9. ASSUME NEW row, ChangeEditor(row), row.had = editor.had, row.answer = editor.answer, row.peers = editor.peers
      PROVE  PeersHad'
  BY <1>9 DEF ChangeEditor, PeersHad
<1>10. ASSUME NEW v, \/ ChangeEditor([editor EXCEPT !.on = v]) \/ ChangeEditor([editor EXCEPT !.name = v])
                     \/ ChangeEditor([editor EXCEPT !.pick = v]) \/ ChangeEditor([editor EXCEPT !.drafts = v])
       PROVE  PeersHad'
  BY <1>0, <1>9, <1>10 DEF EditorRow
<1>11. CASE UNCHANGED editorVars
  BY <1>11 DEF editorVars, PeersHad
<1>12. \A o \in Other, lock \in LockRows : [locks EXCEPT ![o] = lock] \in [Other -> LockRows]
  BY <1>0
<1> QED
  BY <1>0, <1>1, <1>2, <1>3, <1>4, <1>5, <1>7, <1>8, <1>10, <1>11, <1>12
     DEF EditorNext, ToggleLock, JoinName, PickLock, TypeName, AddDraft, EditDraft, RemoveDraft, MoveDraft, Redraft

\* What is saved of a draft shows what the draft showed.
LEMMA SeenAgain ==
  ASSUME NEW d \in DraftRow
  PROVE  Seen(DraftOf(Definition(d))) = Seen(d)
<1>1. d.flag \in BOOLEAN
  BY DEF DraftRow
<1>2. CASE d.type = "bool" /\ d.flag
  BY <1>2 DEF Seen, DraftOf, Definition
<1>3. CASE d.type = "bool" /\ ~d.flag
  BY <1>3 DEF Seen, DraftOf, Definition
<1>4. CASE d.type # "bool"
  BY <1>4 DEF Seen, DraftOf, Definition
<1> QED
  BY <1>1, <1>2, <1>3, <1>4

\* Two drafts of one name are more than one.
LEMMA TwoAreMore ==
  ASSUME NEW n \in Nat, NEW S, S \subseteq 1 .. n, NEW i \in S, NEW j \in S, i # j
  PROVE  Cardinality(S) > 1
<1>1. IsFiniteSet(S)
  <2>1. IsFiniteSet(1 .. n) /\ S \in SUBSET (1 .. n)
    BY FS_Interval
  <2> QED
    BY <2>1, FS_Subset
<1>2. Cardinality({i}) = 1 /\ IsFiniteSet({i})
  BY FS_Singleton
<1>3. Cardinality({i} \cup {j}) = 2
  BY <1>2, FS_AddElement
<1>4. {i} \cup {j} \in SUBSET S
  OBVIOUS
<1>5. Cardinality({i} \cup {j}) <= Cardinality(S) /\ Cardinality(S) \in Nat
  BY <1>1, <1>4, FS_Subset, FS_CardinalityType
<1> QED
  BY <1>3, <1>5

\* The server converts a default the draft's check lets through.
LEMMA DefaultConverts ==
  ASSUME NEW d \in DraftRow, NEW all, ~DraftProblem(d, all), ~(d.type = "date" /\ d.text = NoDay),
         ~(d.type = "text" /\ d.text \in TooLong)
  PROVE  LET p == Definition(d)
         IN  p.default = Empty \/ (p.type = "date" /\ p.default \in Relative) \/ Converts(p, p.default)
<1>1. PICK p : p = Definition(d)
  OBVIOUS
<1>2. /\ p.type = d.type /\ d.type \in ParameterTypes
      /\ p.type = "bool" => p.default \in Flags
      /\ p.type # "bool" => p.default = d.text
      /\ p.type = "choice" => p.choices = d.choices
  BY <1>1 DEF Definition, DraftRow, Flags
<1>3. CASE p.type = "text"
  <2>1. p.default \notin TooLong
    BY <1>2, <1>3
  <2>2. Converts(p, p.default)
    BY <1>3, <2>1, Zenon DEF Converts
  <2> QED
    BY <1>1, <2>2
<1>4. CASE p.type = "number"
  <2>1. p.default \in Numbers \/ p.default = Empty
    BY <1>2, <1>4 DEF DraftProblem
  <2>2. p.default \in Numbers => Converts(p, p.default)
    BY <1>4, Zenon DEF Converts
  <2> QED
    BY <1>1, <2>1, <2>2
<1>5. CASE p.type = "bool"
  <2>1. Converts(p, p.default)
    BY <1>2, <1>5, Zenon DEF Converts
  <2> QED
    BY <1>1, <2>1
<1>6. CASE p.type = "date"
  <2>1. p.default \in Dates \cup Relative \cup {Empty}
    BY <1>2, <1>6 DEF DraftProblem
  <2>2. p.default \in Dates => Converts(p, p.default)
    BY <1>6, Zenon DEF Converts
  <2> QED
    BY <1>1, <1>6, <2>1, <2>2
<1>7. CASE p.type = "choice"
  <2>1. p.default \in Range(p.choices) \cup {Empty}
    BY <1>2, <1>7 DEF DraftProblem
  <2>2. p.default \in Range(p.choices) => Converts(p, p.default)
    BY <1>7, Zenon DEF Converts
  <2> QED
    BY <1>1, <2>1, <2>2
<1> QED
  BY <1>1, <1>2, <1>3, <1>4, <1>5, <1>6, <1>7 DEF ParameterTypes

\* A form the editor's own check lets through is refused for a bound, a date that is none, or a schedule.
LEMMA FormAccepted ==
  ASSUME NEW drafts \in Seq(DraftRow), \A i \in DOMAIN drafts : ~DraftProblem(drafts[i], drafts),
         \A i \in DOMAIN drafts : ~(drafts[i].type = "date" /\ drafts[i].text = NoDay),
         ~BeyondBounds(ToDefinitions(drafts))
  PROVE  Acceptable(ToDefinitions(drafts), FALSE)
<1> DEFINE sent == ToDefinitions(drafts)
<1>1. DOMAIN sent = DOMAIN drafts /\ DOMAIN drafts = 1 .. Len(drafts) /\ Len(drafts) \in Nat
  BY SentDrafts
<1>2. \A i \in DOMAIN drafts : drafts[i] \in DraftRow /\ sent[i] = Definition(drafts[i])
  BY SentDrafts
<1> HIDE DEF sent
<1>3. ASSUME NEW i \in DOMAIN drafts
      PROVE  /\ sent[i].name \notin Reserved \cup {NoName} /\ \A j \in DOMAIN drafts \ {i} : sent[j].name # sent[i].name
             /\ sent[i].name = "ds" => sent[i].type = "date"
             /\ sent[i].type = "choice" => ~BadOptions(sent[i].choices)
             /\ \/ sent[i].default = Empty \/ (sent[i].type = "date" /\ sent[i].default \in Relative)
                \/ Converts(sent[i], sent[i].default)
  <2>1. ~DraftProblem(drafts[i], drafts) /\ ~(drafts[i].type = "date" /\ drafts[i].text = NoDay)
    BY <1>3
  <2>2. /\ sent[i].name = drafts[i].name /\ sent[i].type = drafts[i].type
        /\ sent[i].type = "choice" => sent[i].choices = drafts[i].choices
    BY <1>2, <1>3, DefinitionFields
  <2>3. ASSUME NEW j \in DOMAIN drafts \ {i} PROVE sent[j].name # sent[i].name
    <3> SUFFICES ASSUME sent[j].name = sent[i].name PROVE FALSE
      OBVIOUS
    <3> DEFINE namesakes == {k \in DOMAIN drafts : drafts[k].name = drafts[i].name}
    <3>1. drafts[j].name = drafts[i].name
      BY <1>2, <2>2, <2>3, DefinitionFields
    <3>2. Cardinality(namesakes) > 1
      BY <1>1, <3>1, TwoAreMore
    <3> QED
      BY <2>1, <3>2 DEF DraftProblem
  <2>6. ~(drafts[i].type = "text" /\ drafts[i].text \in TooLong)
    <3>1. sent[i].type = "text" => sent[i].default = drafts[i].text
      BY <1>2, <1>3, <2>2, DefinitionFields
    <3>2. ~(sent[i].type = "text" /\ sent[i].default \in TooLong)
      BY <1>1, <1>3 DEF BeyondBounds, sent
    <3> QED
      BY <2>2, <3>1, <3>2
  <2>4. \/ sent[i].default = Empty \/ (sent[i].type = "date" /\ sent[i].default \in Relative)
        \/ Converts(sent[i], sent[i].default)
    BY <1>2, <1>3, <2>1, <2>6, DefaultConverts
  <2>5. /\ drafts[i].name \notin Reserved \cup {NoName} /\ (drafts[i].name = "ds" => drafts[i].type = "date")
        /\ drafts[i].type = "choice" => ~BadOptions(drafts[i].choices)
    BY <2>1 DEF DraftProblem
  <2> QED
    BY <2>2, <2>3, <2>4, <2>5
<1> QED
  BY <1>1, <1>3 DEF Acceptable, sent

\* The lock saved is the one chosen, and a peer waits for it as the field said.
LEMMA LockSaved ==
  ASSUME EditorTypes, PeersHad
  PROVE  /\ (PublishedLock.resource # NoName) = (editor.on /\ Trimmed # NoName)
         /\ PublishedLock.resource # NoName =>
              /\ PublishedLock = [resource |-> Trimmed, mode |-> editor.pick]
              /\ \A o \in Locked : \E lock \in editor.had[o] :
                   TakeTurns(PublishedLock, lock) = (o \in Sharing /\ ~Overlaps(o))
<1>1. editor.on \in BOOLEAN
  BY DEF EditorTypes, EditorRow
<1>2. (PublishedLock.resource # NoName) = (editor.on /\ Trimmed # NoName)
  BY <1>1 DEF PublishedLock
<1>3. ASSUME PublishedLock.resource # NoName PROVE PublishedLock = [resource |-> Trimmed, mode |-> editor.pick]
  BY <1>1, <1>3 DEF PublishedLock
<1>4. ASSUME PublishedLock.resource # NoName, NEW o \in Locked
      PROVE  \E lock \in editor.had[o] : TakeTurns(PublishedLock, lock) = (o \in Sharing /\ ~Overlaps(o))
  <2>1. /\ PublishedLock.resource = Trimmed /\ PublishedLock.mode = editor.pick /\ Trimmed # NoName
    BY <1>3, <1>4
  <2>2. TakeTurns(PublishedLock, editor.peers[o]) = (o \in Sharing /\ ~Overlaps(o))
    BY <1>4, <2>1 DEF TakeTurns, Sharing, Overlaps, Exclusive
  <2> QED
    BY <1>4, <2>2 DEF PeersHad, Locked
<1> QED
  BY <1>2, <1>3, <1>4

(* EditorKeepsItsWord for any forms, names, options and locks (App.tsx,           *)
(* EditWorkflowModal; runForms.ts, draftProblem, toDefinitions; LockField.tsx).   *)
THEOREM EditorIsTrue == EditorSpec => EditorKeepsItsWord
<1> DEFINE Step ==
      /\ toast' = "saved" /\ toast # "saved" =>
           /\ [i \in DOMAIN flow'.form |-> Seen(DraftOf(flow'.form[i]))] = [i \in DOMAIN editor.drafts |-> Seen(editor.drafts[i])]
           /\ (flow'.lock.resource # NoName) = (editor.on /\ Trimmed # NoName)
           /\ flow'.lock.resource # NoName =>
                /\ flow'.lock = [resource |-> Trimmed, mode |-> editor.pick]
                /\ \A o \in Locked : \E lock \in editor.had[o] :
                     TakeTurns(flow'.lock, lock) = (o \in Sharing /\ ~Overlaps(o))
      /\ toast' = "refused" /\ toast # "refused" =>
           \/ \E i \in DOMAIN editor.drafts : editor.drafts[i].type = "date" /\ editor.drafts[i].text = NoDay
           \/ BeyondBounds(Submission.form)
           \/ pageFlow.scheduled /\ NeedsValue(Submission.form) # {}
<1>1. ASSUME EditorTypes, PeersHad, [EditorNext]_editorVars PROVE [Step]_editorVars
  <2>1. editor.drafts \in Seq(DraftRow)
    BY <1>1 DEF EditorTypes, EditorRow
  <2>2. CASE toast' \notin {"saved", "refused"} \/ toast' = toast
    BY <2>2
  <2>3. ASSUME toast' \in {"saved", "refused"}, toast' # toast PROVE SaveEditor
    BY <1>1, <2>3 DEF EditorNext, editorVars, OthersSave, ReadFlow, OpenEditor, AnswerPeers, LandPeers, CloseEditor,
       ToggleLock, JoinName, PickLock, TypeName, AddDraft, EditDraft, RemoveDraft, MoveDraft, Redraft, ChangeEditor
  <2>4. CASE SaveEditor /\ toast' = "saved"
    <3>1. flow' = Submission
      BY <2>4 DEF SaveEditor
    <3>2. flow'.form = ToDefinitions(editor.drafts) /\ flow'.lock = PublishedLock
      BY <3>1 DEF Submission
    <3>3. [i \in DOMAIN flow'.form |-> Seen(DraftOf(flow'.form[i]))] = [i \in DOMAIN editor.drafts |-> Seen(editor.drafts[i])]
      <4>1. DOMAIN flow'.form = DOMAIN editor.drafts
        BY <2>1, <3>2, SentDrafts
      <4>2. \A i \in DOMAIN editor.drafts : Seen(DraftOf(flow'.form[i])) = Seen(editor.drafts[i])
        BY <2>1, <3>2, SentDrafts, SeenAgain
      <4> QED
        BY <4>1, <4>2
    <3> QED
      BY <1>1, <2>4, <3>2, <3>3, LockSaved
  <2>5. CASE SaveEditor /\ toast' = "refused"
    <3>1. /\ \A i \in DOMAIN editor.drafts : ~DraftProblem(editor.drafts[i], editor.drafts)
          /\ ~Acceptable(Submission.form, Submission.scheduled)
      BY <2>5 DEF SaveEditor
    <3>2. ~Acceptable(ToDefinitions(editor.drafts), pageFlow.scheduled)
      BY <3>1 DEF Submission
    <3>3. CASE /\ \A i \in DOMAIN editor.drafts : ~(editor.drafts[i].type = "date" /\ editor.drafts[i].text = NoDay)
               /\ ~BeyondBounds(Submission.form)
               /\ ~(pageFlow.scheduled /\ NeedsValue(Submission.form) # {})
      <4>1. Acceptable(ToDefinitions(editor.drafts), FALSE)
        BY <2>1, <3>1, <3>3, FormAccepted DEF Submission
      <4> QED
        BY <3>2, <3>3, <4>1 DEF Acceptable, Submission
    <3> QED
      BY <2>5, <3>3
  <2> QED
    BY <2>2, <2>3, <2>4, <2>5
<1>2. EditorTypes /\ PeersHad /\ [EditorNext]_editorVars => [Step]_editorVars
  BY <1>1
<1>3. EditorTypes /\ [EditorNext]_editorVars => EditorTypes'
  BY EditorStep
<1>5. EditorTypes /\ PeersHad /\ [EditorNext]_editorVars => PeersHad'
  BY HadStep
<1>6. EditorInit => PeersHad
  BY DEF EditorInit, PeersHad, Closed
<1> HIDE DEF Step
<1>4. EditorSpec => [][Step]_editorVars
  BY <1>2, <1>3, <1>5, <1>6, InitEditor, PTL DEF EditorSpec
<1> QED
  BY <1>4, PTL DEF EditorKeepsItsWord, Step

(* -------------------------------- the tasks ------------------------------ *)

LEMMA LeastNatural ==
  ASSUME NEW S, S \subseteq Nat, S # {}
  PROVE  \E m \in S : \A n \in S : m <= n
<1>1. PICK m \in S : \A n \in S : <<n, m>> \notin OpToRel(<, Nat)
  BY NatLessThanWellFounded, WFMin
<1>2. ASSUME NEW n \in S, n < m PROVE <<n, m>> \in OpToRel(<, Nat)
  BY <1>2 DEF OpToRel
<1>3. \A n \in S : ~(n < m) /\ n \in Nat /\ m \in Nat
  BY <1>1, <1>2
<1> QED
  BY <1>3

(* Finite sets of ids have a greatest, and so are listed in their order.         *)
LEMMA GreatestId ==
  ASSUME NEW S, IsFiniteSet(S), S \subseteq Nat, S # {}
  PROVE  \E m \in S : \A n \in S : n <= m
<1> DEFINE Topped(R) == \E m \in R : \A n \in R : n <= m
           Bad == {n \in Nat : \E R \in SUBSET Nat : IsFiniteSet(R) /\ R # {} /\ Cardinality(R) = n /\ ~Topped(R)}
<1>1. ASSUME Bad # {} PROVE FALSE
  <2>1. PICK n \in Bad : \A k \in Bad : n <= k
    BY <1>1, LeastNatural
  <2>2. PICK R \in SUBSET Nat : IsFiniteSet(R) /\ R # {} /\ Cardinality(R) = n /\ ~Topped(R)
    BY <2>1
  <2>3. PICK x \in R : TRUE
    BY <2>2
  <2> DEFINE Q == R \ {x}
  <2>4. IsFiniteSet(Q) /\ Cardinality(Q) = n - 1 /\ n \in Nat /\ Q \in SUBSET Nat
    BY <2>1, <2>2, <2>3, FS_RemoveElement
  <2>5. Cardinality(Q) \in Nat
    BY <2>4, FS_CardinalityType
  <2>6. n - 1 \notin Bad
    BY <2>1, <2>4, <2>5
  <2>7. Q = {} \/ Topped(Q)
    BY <2>4, <2>5, <2>6
  <2>8. x \in Nat /\ \A r \in R : r = x \/ r \in Q
    BY <2>2, <2>3
  <2>9. CASE Q = {}
    BY <2>2, <2>3, <2>8, <2>9
  <2>10. CASE Topped(Q)
    <3>1. PICK m \in Q : \A r \in Q : r <= m
      BY <2>10
    <3>2. m \in R /\ m \in Nat /\ \A r \in Q : r \in Nat
      BY <2>4, <3>1
    <3>3. CASE x <= m
      BY <2>2, <2>8, <3>1, <3>2, <3>3
    <3>4. CASE m <= x
      <4>1. \A r \in Q : r <= x
        BY <2>8, <3>1, <3>2, <3>4
      <4> QED
        BY <2>2, <2>3, <2>8, <4>1
    <3> QED
      BY <2>8, <3>2, <3>3, <3>4
  <2> QED
    BY <2>7, <2>9, <2>10
<1>2. Cardinality(S) \in Nat
  BY FS_CardinalityType
<1> QED
  BY <1>1, <1>2

LEMMA AscendingLists ==
  ASSUME NEW S, IsFiniteSet(S), S \subseteq Nat
  PROVE  Ascending(S) \in Seq(S) /\ Range(Ascending(S)) = S
<1> DEFINE Lists(R, seq) == Range(seq) = R /\ \A j, k \in DOMAIN seq : j < k => seq[j] < seq[k]
           Listed(R) == \E seq \in [1 .. Cardinality(R) -> R] : Lists(R, seq)
           Bad == {n \in Nat : \E R \in SUBSET Nat : IsFiniteSet(R) /\ Cardinality(R) = n /\ ~Listed(R)}
<1>1. ASSUME Bad # {} PROVE FALSE
  <2>1. PICK n \in Bad : \A k \in Bad : n <= k
    BY <1>1, LeastNatural
  <2>2. PICK R \in SUBSET Nat : IsFiniteSet(R) /\ Cardinality(R) = n /\ ~Listed(R)
    BY <2>1
  <2>3. CASE R = {}
    <3> DEFINE none == [k \in 1 .. 0 |-> 0]
    <3>1. Cardinality(R) = 0
      BY <2>3, FS_EmptySet
    <3>2. none \in [1 .. 0 -> R] /\ Range(none) = R /\ \A j \in DOMAIN none : FALSE
      BY <2>3 DEF Range
    <3>3. Lists(R, none)
      BY <3>2
    <3> QED
      BY <2>2, <3>1, <3>2, <3>3
  <2>4. CASE R # {}
    <3>1. PICK m \in R : \A r \in R : r <= m
      BY <2>2, <2>4, GreatestId
    <3> DEFINE Q == R \ {m}
    <3>2. IsFiniteSet(Q) /\ Cardinality(Q) = n - 1 /\ n \in Nat /\ Q \in SUBSET Nat
      BY <2>1, <2>2, <3>1, FS_RemoveElement
    <3>3. n - 1 \in Nat
      BY <3>2, FS_CardinalityType
    <3>4. n - 1 \notin Bad
      BY <2>1, <3>2, <3>3
    <3>5. PICK seq \in [1 .. n - 1 -> Q] : Lists(Q, seq)
      BY <3>2, <3>3, <3>4
    <3> DEFINE more == [k \in 1 .. n |-> IF k = n THEN m ELSE seq[k]]
    <3>6. \A k \in 1 .. n : k = n \/ k \in 1 .. n - 1
      BY <3>3
    <3>7. more \in [1 .. n -> R]
      BY <3>1, <3>5, <3>6
    <3>8. Range(more) = R
      <4>1. \A r \in R : r = m \/ \E k \in 1 .. n - 1 : r = seq[k]
        BY <3>5 DEF Range
      <4>2. n \in 1 .. n /\ \A k \in 1 .. n - 1 : k \in 1 .. n /\ more[k] = seq[k]
        BY <3>3
      <4>3. more[n] = m
        BY <4>2
      <4>4. \A r \in R : \E k \in 1 .. n : r = more[k]
        BY <4>1, <4>2, <4>3
      <4>5. DOMAIN more = 1 .. n /\ \A k \in 1 .. n : more[k] \in R
        BY <3>7
      <4> HIDE DEF more
      <4> QED
        BY <4>4, <4>5 DEF Range
    <3>9. ASSUME NEW j \in 1 .. n, NEW k \in 1 .. n, j < k PROVE more[j] < more[k]
      <4>1. j \in 1 .. n - 1 /\ more[j] = seq[j] /\ seq[j] \in Q
        BY <3>2, <3>3, <3>5, <3>9
      <4>2. CASE k = n
        <5>1. seq[j] \in Nat /\ m \in Nat /\ seq[j] <= m /\ seq[j] # m
          BY <2>2, <3>1, <4>1
        <5> QED
          BY <4>1, <4>2, <5>1
      <4>3. CASE k # n
        BY <3>5, <3>6, <3>9, <4>1, <4>3
      <4> QED
        BY <4>2, <4>3
    <3>10. Lists(R, more)
      BY <3>7, <3>8, <3>9
    <3> QED
      BY <2>2, <3>7, <3>10
  <2> QED
    BY <2>3, <2>4
<1>2. Cardinality(S) \in Nat
  BY FS_CardinalityType
<1>3. Listed(S)
  BY <1>1, <1>2
<1>4. Ascending(S) \in [1 .. Cardinality(S) -> S] /\ Range(Ascending(S)) = S
  BY <1>3 DEF Ascending
<1> QED
  BY <1>2, <1>4

(* A table whose rows are what the handlers take, with a name each.              *)
Table(ts) ==
  /\ IsFiniteSet(DOMAIN ts) /\ DOMAIN ts \subseteq Nat
  /\ ts \in [DOMAIN ts -> TaskRow]
  /\ \A i, j \in DOMAIN ts : ts[i].name = ts[j].name => i = j

(* Rounds that extend a list exist, as many as one likes.                        *)
Rounds(f, D, step, N) ==
  f \in [0 .. N -> Seq(D)] /\ f[0] = <<>> /\ \A k \in 1 .. N : f[k] = step[f[k - 1]]

LEMMA RoundsExist ==
  ASSUME NEW D, NEW step \in [Seq(D) -> Seq(D)], NEW N \in Nat
  PROVE  \E f : Rounds(f, D, step, N)
<1> DEFINE Runs(n) == \E f \in [0 .. n -> Seq(D)] : f[0] = <<>> /\ \A k \in 1 .. n : f[k] = step[f[k - 1]]
           Bad == {n \in Nat : ~Runs(n)}
<1>1. ASSUME Bad # {} PROVE FALSE
  <2>1. PICK n \in Bad : \A k \in Bad : n <= k
    BY <1>1, LeastNatural
  <2>2. CASE n = 0
    <3> DEFINE f == [k \in 0 .. 0 |-> <<>>]
    <3>1. f \in [0 .. 0 -> Seq(D)] /\ f[0] = <<>> /\ \A k \in 1 .. 0 : FALSE
      <4>1. <<>> \in Seq(D) /\ 0 \in 0 .. 0
        OBVIOUS
      <4> QED
        BY <4>1
    <3>2. Runs(0)
      BY <3>1
    <3> QED
      BY <2>1, <2>2, <3>2
  <2>3. CASE n # 0
    <3>1. n \in Nat /\ n - 1 \in Nat /\ n - 1 \notin Bad
      <4>1. n \in Nat
        BY <2>1
      <4> HIDE DEF Bad
      <4> QED
        BY <2>1, <2>3, <4>1
    <3>2. PICK f \in [0 .. n - 1 -> Seq(D)] : f[0] = <<>> /\ \A k \in 1 .. n - 1 : f[k] = step[f[k - 1]]
      BY <3>1
    <3> DEFINE g == [k \in 0 .. n |-> IF k = n THEN step[f[n - 1]] ELSE f[k]]
    <3>3. \A k \in 0 .. n : k = n \/ k \in 0 .. n - 1
      BY <3>1
    <3>4. n - 1 \in 0 .. n - 1 /\ n \in 0 .. n /\ 0 \in 0 .. n - 1
      BY <3>1
    <3>5. g \in [0 .. n -> Seq(D)]
      BY <3>2, <3>3, <3>4
    <3>6. g[0] = <<>>
      BY <2>3, <3>1, <3>2, <3>4
    <3>7. ASSUME NEW k \in 1 .. n PROVE g[k] = step[g[k - 1]]
      <4>1. k \in 0 .. n /\ k - 1 \in 0 .. n - 1 /\ k - 1 \in 0 .. n /\ k - 1 # n
        BY <3>1
      <4>2. g[k - 1] = f[k - 1]
        BY <4>1
      <4>3. CASE k = n
        BY <4>1, <4>2, <4>3
      <4>4. CASE k # n
        <5>1. k \in 1 .. n - 1 /\ g[k] = f[k]
          BY <3>1, <4>1, <4>4
        <5> QED
          BY <3>2, <4>2, <5>1
      <4> QED
        BY <4>3, <4>4
    <3>8. Runs(n)
      BY <3>5, <3>6, <3>7
    <3> QED
      BY <2>1, <3>8
  <2> QED
    BY <2>2, <2>3
<1>2. PICK f \in [0 .. N -> Seq(D)] : f[0] = <<>> /\ \A k \in 1 .. N : f[k] = step[f[k - 1]]
  BY <1>1
<1>3. Rounds(f, D, step, N)
  BY <1>2 DEF Rounds
<1> QED
  BY <1>3

LEMMA RoundAdds ==
  ASSUME NEW D, IsFiniteSet(D), D \subseteq Nat, NEW p \in Seq(D), NEW R \in SUBSET D
  PROVE  p \o Ascending(R) \in Seq(D) /\ Range(p \o Ascending(R)) = Range(p) \cup R
<1>1. IsFiniteSet(R) /\ R \subseteq Nat
  BY FS_Subset
<1>2. Ascending(R) \in Seq(R) /\ Range(Ascending(R)) = R
  BY <1>1, AscendingLists
<1>3. PICK q : q = Ascending(R)
  OBVIOUS
<1>4. q \in Seq(D) /\ Range(q) = R
  <2>1. q \in Seq(D)
    BY <1>2, <1>3, SeqMonotonic
  <2> QED
    BY <1>2, <1>3, <2>1
<1>5. PICK m \in Nat, n \in Nat : m = Len(p) /\ n = Len(q) /\ DOMAIN p = 1 .. m /\ DOMAIN q = 1 .. n
  BY <1>4
<1>6. PICK s : s = p \o q
  OBVIOUS
<1>7. s \in Seq(D) /\ Len(s) = m + n /\ \A i \in 1 .. m + n : s[i] = IF i <= m THEN p[i] ELSE q[i - m]
  BY <1>4, <1>5, <1>6, ConcatProperties
<1>8. DOMAIN s = 1 .. m + n
  BY <1>7
<1>9. ASSUME NEW x \in Range(s) PROVE x \in Range(p) \cup R
  <2>1. PICK i \in 1 .. m + n : x = s[i]
    BY <1>8, <1>9 DEF Range
  <2>2. CASE i <= m
    <3>1. i \in 1 .. m /\ x = p[i]
      BY <1>5, <1>7, <2>1, <2>2
    <3> QED
      BY <1>5, <3>1 DEF Range
  <2>3. CASE ~(i <= m)
    <3>1. i - m \in 1 .. n /\ x = q[i - m]
      BY <1>5, <1>7, <2>1, <2>3
    <3>2. x \in Range(q)
      BY <1>5, <3>1 DEF Range
    <3> QED
      BY <1>4, <3>2
  <2> QED
    BY <2>2, <2>3
<1>10. ASSUME NEW x \in Range(p) PROVE x \in Range(s)
  <2>1. PICK i \in 1 .. m : x = p[i]
    BY <1>5 DEF Range
  <2>2. i \in 1 .. m + n /\ s[i] = p[i]
    BY <1>5, <1>7
  <2> QED
    BY <1>8, <2>1, <2>2 DEF Range
<1>11. ASSUME NEW x \in R PROVE x \in Range(s)
  <2>1. x \in Range(q)
    BY <1>4
  <2>2. PICK i \in 1 .. n : x = q[i]
    BY <1>5, <2>1 DEF Range
  <2>3. m + i \in 1 .. m + n /\ ~(m + i <= m) /\ (m + i) - m = i
    BY <1>5
  <2>4. s[m + i] = q[i]
    BY <1>7, <2>3
  <2> QED
    BY <1>8, <2>2, <2>3, <2>4 DEF Range
<1> QED
  BY <1>3, <1>6, <1>7, <1>9, <1>10, <1>11

LEMMA WorkerReadyIn ==
  ASSUME NEW ts, NEW p
  PROVE  WorkerReady(ts, p) \in SUBSET DOMAIN ts
BY DEF WorkerReady, Rest

LEMMA PageReadyIn ==
  ASSUME NEW ts, NEW p
  PROVE  PageReady(ts, p) \in SUBSET DOMAIN ts
BY DEF PageReady, Rest

LEMMA WorkerAdds ==
  ASSUME NEW ts, Table(ts), NEW p \in Seq(DOMAIN ts)
  PROVE  /\ p \o Ascending(WorkerReady(ts, p)) \in Seq(DOMAIN ts)
         /\ Range(p \o Ascending(WorkerReady(ts, p))) = Range(p) \cup WorkerReady(ts, p)
<1>1. PICK D : D = DOMAIN ts /\ IsFiniteSet(D) /\ D \subseteq Nat
  BY DEF Table
<1>2. PICK R : R = WorkerReady(ts, p) /\ R \in SUBSET D
  BY <1>1, WorkerReadyIn
<1>3. p \in Seq(D)
  BY <1>1
<1>4. p \o Ascending(R) \in Seq(D) /\ Range(p \o Ascending(R)) = Range(p) \cup R
  BY <1>1, <1>2, <1>3, RoundAdds
<1> QED
  BY <1>1, <1>2, <1>4

LEMMA PageAdds ==
  ASSUME NEW ts, Table(ts), NEW p \in Seq(DOMAIN ts)
  PROVE  /\ p \o Ascending(PageReady(ts, p)) \in Seq(DOMAIN ts)
         /\ Range(p \o Ascending(PageReady(ts, p))) = Range(p) \cup PageReady(ts, p)
<1>1. PICK D : D = DOMAIN ts /\ IsFiniteSet(D) /\ D \subseteq Nat
  BY DEF Table
<1>2. PICK R : R = PageReady(ts, p) /\ R \in SUBSET D
  BY <1>1, PageReadyIn
<1>3. p \in Seq(D)
  BY <1>1
<1>4. p \o Ascending(R) \in Seq(D) /\ Range(p \o Ascending(R)) = Range(p) \cup R
  BY <1>1, <1>2, <1>3, RoundAdds
<1> QED
  BY <1>1, <1>2, <1>4

WorkersRounds(f, ts, N) ==
  /\ f \in [0 .. N -> Seq(DOMAIN ts)]
  /\ WorkerOrder(ts) = f[N] /\ f[0] = <<>>
  /\ \A k \in 1 .. N : f[k] = f[k - 1] \o Ascending(WorkerReady(ts, f[k - 1]))

LEMMA WorkerRounds ==
  ASSUME NEW ts, Table(ts), NEW N \in Nat, N = Cardinality(DOMAIN ts)
  PROVE  \E f : WorkersRounds(f, ts, N)
<1> DEFINE D == DOMAIN ts
           step == [p \in Seq(D) |-> p \o Ascending(WorkerReady(ts, p))]
           Unrolls(f) == f = [k \in 0 .. N |-> IF k = 0 THEN <<>> ELSE f[k - 1] \o Ascending(WorkerReady(ts, f[k - 1]))]
           g == CHOOSE f : Unrolls(f)
<1>1. step \in [Seq(D) -> Seq(D)]
  BY WorkerAdds
<1>2. PICK h \in [0 .. N -> Seq(D)] : h[0] = <<>> /\ \A k \in 1 .. N : h[k] = step[h[k - 1]]
  <2>1. PICK h : Rounds(h, D, step, N)
    BY <1>1, RoundsExist
  <2> HIDE DEF step, D
  <2> QED
    BY <2>1 DEF Rounds
<1>3. \A k \in 0 .. N : k = 0 \/ (k \in 1 .. N /\ k - 1 \in 0 .. N)
  OBVIOUS
<1>4. Unrolls(h)
  <2>1. ASSUME NEW k \in 1 .. N PROVE h[k] = h[k - 1] \o Ascending(WorkerReady(ts, h[k - 1]))
    <3>1. h[k - 1] \in Seq(D)
      BY <1>2
    <3>2. PICK p \in Seq(D) : p = h[k - 1]
      BY <3>1
    <3>3. step[p] = p \o Ascending(WorkerReady(ts, p))
      OBVIOUS
    <3> QED
      BY <1>2, <3>2, <3>3
  <2>2. \A k \in 0 .. N : h[k] = IF k = 0 THEN <<>> ELSE h[k - 1] \o Ascending(WorkerReady(ts, h[k - 1]))
    BY <1>2, <1>3, <2>1
  <2>3. h = [k \in 0 .. N |-> h[k]]
    BY <1>2
  <2> QED
    BY <2>2, <2>3
<1>5. Unrolls(g)
  <2> HIDE DEF Unrolls
  <2> QED
    BY <1>4
<1>6. WorkerOrder(ts) = g[N]
  BY DEF WorkerOrder
<1> HIDE DEF g
<1>7. \A k \in 0 .. N : g[k] = IF k = 0 THEN <<>> ELSE g[k - 1] \o Ascending(WorkerReady(ts, g[k - 1]))
  BY <1>5
<1> DEFINE Bad == {k \in 0 .. N : g[k] \notin Seq(D)}
<1>8. ASSUME Bad # {} PROVE FALSE
  <2>0. Bad \subseteq Nat
    OBVIOUS
  <2>1. PICK k \in Bad : \A n \in Bad : k <= n
    <3> HIDE DEF Bad
    <3> QED
      BY <1>8, <2>0, LeastNatural
  <2>2. k # 0
    <3>1. <<>> \in Seq(D)
      OBVIOUS
    <3> QED
      BY <1>7, <2>1, <3>1
  <2>3. k - 1 \in 0 .. N /\ k - 1 \notin Bad
    BY <2>1, <2>2
  <2>4. g[k - 1] \in Seq(D)
    BY <2>3
  <2>5. g[k - 1] \o Ascending(WorkerReady(ts, g[k - 1])) \in Seq(D)
    BY <2>4, WorkerAdds
  <2> QED
    BY <1>7, <2>1, <2>2, <2>5
<1>9. g \in [0 .. N -> Seq(D)]
  <2>1. g = [k \in 0 .. N |-> g[k]]
    BY <1>5, <1>7
  <2>2. \A k \in 0 .. N : g[k] \in Seq(D)
    BY <1>8
  <2> QED
    BY <2>1, <2>2
<1>10. g[0] = <<>> /\ \A k \in 1 .. N : g[k] = g[k - 1] \o Ascending(WorkerReady(ts, g[k - 1]))
  <2>1. 0 \in 0 .. N /\ \A k \in 1 .. N : k \in 0 .. N /\ k # 0
    OBVIOUS
  <2> QED
    BY <1>7, <2>1
<1>11. WorkersRounds(g, ts, N)
  BY <1>6, <1>9, <1>10 DEF WorkersRounds
<1> QED
  BY <1>11
PagesRounds(f, ts, N) ==
  /\ f \in [0 .. N -> Seq(DOMAIN ts)]
  /\ PageOrder(ts) = f[N] /\ f[0] = <<>>
  /\ \A k \in 1 .. N : f[k] = f[k - 1] \o Ascending(PageReady(ts, f[k - 1]))

LEMMA PageRounds ==
  ASSUME NEW ts, Table(ts), NEW N \in Nat, N = Cardinality(DOMAIN ts)
  PROVE  \E f : PagesRounds(f, ts, N)
<1> DEFINE D == DOMAIN ts
           step == [p \in Seq(D) |-> p \o Ascending(PageReady(ts, p))]
           Unrolls(f) == f = [k \in 0 .. N |-> IF k = 0 THEN <<>> ELSE f[k - 1] \o Ascending(PageReady(ts, f[k - 1]))]
           g == CHOOSE f : Unrolls(f)
<1>1. step \in [Seq(D) -> Seq(D)]
  BY PageAdds
<1>2. PICK h \in [0 .. N -> Seq(D)] : h[0] = <<>> /\ \A k \in 1 .. N : h[k] = step[h[k - 1]]
  <2>1. PICK h : Rounds(h, D, step, N)
    BY <1>1, RoundsExist
  <2> HIDE DEF step, D
  <2> QED
    BY <2>1 DEF Rounds
<1>3. \A k \in 0 .. N : k = 0 \/ (k \in 1 .. N /\ k - 1 \in 0 .. N)
  OBVIOUS
<1>4. Unrolls(h)
  <2>1. ASSUME NEW k \in 1 .. N PROVE h[k] = h[k - 1] \o Ascending(PageReady(ts, h[k - 1]))
    <3>1. h[k - 1] \in Seq(D)
      BY <1>2
    <3>2. PICK p \in Seq(D) : p = h[k - 1]
      BY <3>1
    <3>3. step[p] = p \o Ascending(PageReady(ts, p))
      OBVIOUS
    <3> QED
      BY <1>2, <3>2, <3>3
  <2>2. \A k \in 0 .. N : h[k] = IF k = 0 THEN <<>> ELSE h[k - 1] \o Ascending(PageReady(ts, h[k - 1]))
    BY <1>2, <1>3, <2>1
  <2>3. h = [k \in 0 .. N |-> h[k]]
    BY <1>2
  <2> QED
    BY <2>2, <2>3
<1>5. Unrolls(g)
  <2> HIDE DEF Unrolls
  <2> QED
    BY <1>4
<1>6. PageOrder(ts) = g[N]
  BY DEF PageOrder
<1> HIDE DEF g
<1>7. \A k \in 0 .. N : g[k] = IF k = 0 THEN <<>> ELSE g[k - 1] \o Ascending(PageReady(ts, g[k - 1]))
  BY <1>5
<1> DEFINE Bad == {k \in 0 .. N : g[k] \notin Seq(D)}
<1>8. ASSUME Bad # {} PROVE FALSE
  <2>0. Bad \subseteq Nat
    OBVIOUS
  <2>1. PICK k \in Bad : \A n \in Bad : k <= n
    <3> HIDE DEF Bad
    <3> QED
      BY <1>8, <2>0, LeastNatural
  <2>2. k # 0
    <3>1. <<>> \in Seq(D)
      OBVIOUS
    <3> QED
      BY <1>7, <2>1, <3>1
  <2>3. k - 1 \in 0 .. N /\ k - 1 \notin Bad
    BY <2>1, <2>2
  <2>4. g[k - 1] \in Seq(D)
    BY <2>3
  <2>5. g[k - 1] \o Ascending(PageReady(ts, g[k - 1])) \in Seq(D)
    BY <2>4, PageAdds
  <2> QED
    BY <1>7, <2>1, <2>2, <2>5
<1>9. g \in [0 .. N -> Seq(D)]
  <2>1. g = [k \in 0 .. N |-> g[k]]
    BY <1>5, <1>7
  <2>2. \A k \in 0 .. N : g[k] \in Seq(D)
    BY <1>8
  <2> QED
    BY <2>1, <2>2
<1>10. g[0] = <<>> /\ \A k \in 1 .. N : g[k] = g[k - 1] \o Ascending(PageReady(ts, g[k - 1]))
  <2>1. 0 \in 0 .. N /\ \A k \in 1 .. N : k \in 0 .. N /\ k # 0
    OBVIOUS
  <2> QED
    BY <1>7, <2>1
<1>11. PagesRounds(g, ts, N)
  BY <1>6, <1>9, <1>10 DEF PagesRounds
<1> QED
  BY <1>11

(* A graph without unknown names and without cycles: every set of tasks has one   *)
(* that waits for none of them.                                                  *)
Grounded(ts) ==
  /\ \A i \in DOMAIN ts : ts[i].after \subseteq NamesOf(ts)
  /\ \A S \in SUBSET DOMAIN ts : S # {} => \E i \in S : \A j \in S : ts[j].name \notin ts[i].after

LEMMA NothingAtFirst == Range(<<>>) = {}
BY DEF Range

LEMMA NeverPlaced ==
  ASSUME NEW ts, Table(ts), NEW S \in SUBSET DOMAIN ts,
         \A i \in S : \E n \in ts[i].after : \A j \in DOMAIN ts \ S : ts[j].name # n
  PROVE  Range(WorkerOrder(ts)) \cap S = {}
<1>1. PICK N \in Nat : N = Cardinality(DOMAIN ts)
  BY FS_CardinalityType DEF Table
<1>2. PICK f \in [0 .. N -> Seq(DOMAIN ts)] :
        /\ WorkerOrder(ts) = f[N] /\ f[0] = <<>>
        /\ \A k \in 1 .. N : f[k] = f[k - 1] \o Ascending(WorkerReady(ts, f[k - 1]))
  <2>1. PICK f : WorkersRounds(f, ts, N)
    BY <1>1, WorkerRounds
  <2> QED
    BY <2>1 DEF WorkersRounds
<1> DEFINE Bad == {k \in 0 .. N : Range(f[k]) \cap S # {}}
<1>3. ASSUME Bad # {} PROVE FALSE
  <2>0. Bad \subseteq Nat
    OBVIOUS
  <2>1. PICK k \in Bad : \A n \in Bad : k <= n
    <3> HIDE DEF Bad
    <3> QED
      BY <1>3, <2>0, LeastNatural
  <2>2. k # 0
    BY <1>2, <2>1, NothingAtFirst
  <2>3. k \in 1 .. N /\ k - 1 \in 0 .. N /\ k - 1 \notin Bad
    BY <2>1, <2>2
  <2>4. PICK p \in Seq(DOMAIN ts) : p = f[k - 1]
    BY <2>3
  <2>5. Range(p) \cap S = {} /\ f[k] = p \o Ascending(WorkerReady(ts, p))
    BY <1>2, <2>3, <2>4
  <2>6. Range(f[k]) = Range(p) \cup WorkerReady(ts, p)
    BY <2>5, WorkerAdds
  <2>7. PICK i \in S : i \in WorkerReady(ts, p)
    BY <2>1, <2>5, <2>6
  <2>8. ts[i].after \subseteq Placed(ts, p)
    BY <2>7 DEF WorkerReady
  <2>9. Range(p) \subseteq DOMAIN ts \ S
    BY <2>5 DEF Range
  <2>10. PICK n \in ts[i].after : \A j \in DOMAIN ts \ S : ts[j].name # n
    OBVIOUS
  <2>11. n \in Placed(ts, p)
    BY <2>8, <2>10
  <2> QED
    BY <2>9, <2>10, <2>11 DEF Placed
<1>4. N \in 0 .. N
  OBVIOUS
<1> QED
  BY <1>2, <1>3, <1>4

LEMMA RunnableIsGrounded ==
  ASSUME NEW ts, Table(ts), Runnable(ts)
  PROVE  Grounded(ts)
<1>1. ASSUME NEW i \in DOMAIN ts, NEW n \in ts[i].after, n \notin NamesOf(ts) PROVE FALSE
  <2>1. \A j \in DOMAIN ts \ {i} : ts[j].name # n
    BY <1>1 DEF NamesOf
  <2>2. Range(WorkerOrder(ts)) \cap {i} = {}
    BY <1>1, <2>1, NeverPlaced
  <2> QED
    BY <1>1, <2>2 DEF Runnable
<1>2. ASSUME NEW S \in SUBSET DOMAIN ts, S # {}, \A i \in S : \E j \in S : ts[j].name \in ts[i].after PROVE FALSE
  <2>1. ASSUME NEW i \in S PROVE \E n \in ts[i].after : \A j \in DOMAIN ts \ S : ts[j].name # n
    <3>1. PICK j \in S : ts[j].name \in ts[i].after
      BY <1>2
    <3>2. \A h \in DOMAIN ts \ S : ts[h].name # ts[j].name
      BY <3>1 DEF Table
    <3> QED
      BY <3>1, <3>2
  <2>2. Range(WorkerOrder(ts)) \cap S = {}
    BY <2>1, NeverPlaced
  <2> QED
    BY <1>2, <2>2 DEF Runnable
<1> QED
  BY <1>1, <1>2 DEF Grounded

LEMMA SomeReady ==
  ASSUME NEW ts, Table(ts), Grounded(ts), NEW p, Rest(ts, p) # {}
  PROVE  WorkerReady(ts, p) # {}
<1>1. PICK i \in Rest(ts, p) : \A j \in Rest(ts, p) : ts[j].name \notin ts[i].after
  BY DEF Grounded, Rest
<1>2. ASSUME NEW n \in ts[i].after PROVE n \in Placed(ts, p)
  <2>1. PICK j \in DOMAIN ts : ts[j].name = n
    BY <1>1, <1>2 DEF Grounded, NamesOf, Rest
  <2>2. j \in Range(p)
    BY <1>1, <1>2, <2>1 DEF Rest
  <2> QED
    BY <2>1, <2>2 DEF Placed
<1> QED
  BY <1>1, <1>2 DEF WorkerReady

LEMMA SameReady ==
  ASSUME NEW ts, Table(ts), Grounded(ts), NEW p
  PROVE  PageReady(ts, p) = WorkerReady(ts, p)
<1>1. \A i \in Rest(ts, p) : ts[i].after \cap NamesOf(ts) = ts[i].after
  BY DEF Grounded, Rest
<1>2. {i \in Rest(ts, p) : ts[i].after \cap NamesOf(ts) \subseteq Placed(ts, p)} = WorkerReady(ts, p)
  BY <1>1 DEF WorkerReady
<1>3. CASE Rest(ts, p) = {}
  BY <1>2, <1>3 DEF PageReady
<1>4. CASE Rest(ts, p) # {}
  BY <1>2, <1>4, SomeReady DEF PageReady
<1> QED
  BY <1>3, <1>4

LEMMA GroundedIsRunnable ==
  ASSUME NEW ts, Table(ts), Grounded(ts)
  PROVE  Runnable(ts)
<1>1. PICK N \in Nat : N = Cardinality(DOMAIN ts)
  BY FS_CardinalityType DEF Table
<1>2. PICK f \in [0 .. N -> Seq(DOMAIN ts)] :
        /\ WorkerOrder(ts) = f[N] /\ f[0] = <<>>
        /\ \A k \in 1 .. N : f[k] = f[k - 1] \o Ascending(WorkerReady(ts, f[k - 1]))
  <2>1. PICK f : WorkersRounds(f, ts, N)
    BY <1>1, WorkerRounds
  <2> QED
    BY <2>1 DEF WorkersRounds
<1>3. ASSUME NEW k \in 0 .. N
      PROVE  Range(f[k]) \subseteq DOMAIN ts /\ IsFiniteSet(Range(f[k])) /\ Cardinality(Range(f[k])) \in Nat
  <2>1. f[k] \in Seq(DOMAIN ts)
    OBVIOUS
  <2>2. Range(f[k]) \subseteq DOMAIN ts
    BY <2>1 DEF Range
  <2> QED
    BY <2>2, FS_Subset, FS_CardinalityType DEF Table
<1> DEFINE Far(k) == Range(f[k]) = DOMAIN ts \/ Cardinality(Range(f[k])) >= k
           Bad == {k \in 0 .. N : ~Far(k)}
<1>4. ASSUME Bad # {} PROVE FALSE
  <2>0. Bad \subseteq Nat
    OBVIOUS
  <2>1. PICK k \in Bad : \A n \in Bad : k <= n
    <3> HIDE DEF Bad
    <3> QED
      BY <1>4, <2>0, LeastNatural
  <2>2. k # 0
    <3>1. 0 \in 0 .. N
      OBVIOUS
    <3>2. Cardinality(Range(f[0])) >= 0
      BY <1>3, <3>1
    <3> QED
      BY <2>1, <3>2
  <2>3. k \in 1 .. N /\ k - 1 \in 0 .. N /\ k \in 0 .. N /\ ~(k <= k - 1)
    BY <2>1, <2>2
  <2>4. Far(k - 1)
    <3>1. k - 1 \notin Bad
      <4> HIDE DEF Bad
      <4> QED
        BY <2>1, <2>3
    <3> QED
      BY <2>3, <3>1
  <2>5. PICK p \in Seq(DOMAIN ts) : p = f[k - 1]
    BY <2>3
  <2>6. f[k] = p \o Ascending(WorkerReady(ts, p))
    BY <1>2, <2>3, <2>5
  <2>7. Range(f[k]) = Range(p) \cup WorkerReady(ts, p)
    BY <2>6, WorkerAdds
  <2>8. Range(p) \subseteq DOMAIN ts /\ IsFiniteSet(Range(p)) /\ Cardinality(Range(p)) \in Nat
    BY <1>3, <2>3, <2>5
  <2>9. WorkerReady(ts, p) \subseteq DOMAIN ts \ Range(p)
    BY DEF WorkerReady, Rest
  <2>10. CASE Range(p) = DOMAIN ts
    BY <2>1, <2>7, <2>9, <2>10
  <2>11. CASE Range(p) # DOMAIN ts
    <3>1. PICK i \in WorkerReady(ts, p) : TRUE
      BY <2>8, <2>11, SomeReady DEF Rest
    <3>2. Cardinality(Range(p) \cup {i}) = Cardinality(Range(p)) + 1
      BY <2>8, <2>9, <3>1, FS_AddElement
    <3>3. Cardinality(Range(p) \cup {i}) <= Cardinality(Range(f[k]))
      <4>1. Range(p) \cup {i} \in SUBSET Range(f[k]) /\ IsFiniteSet(Range(f[k]))
        BY <1>3, <2>3, <2>7, <3>1
      <4> QED
        BY <4>1, FS_Subset
    <3>4. Cardinality(Range(p)) >= k - 1
      BY <2>4, <2>5, <2>11
    <3>5. Cardinality(Range(f[k])) >= k
      <4>1. PICK a \in Nat, b \in Nat : a = Cardinality(Range(p)) /\ b = Cardinality(Range(f[k]))
        BY <1>3, <2>3, <2>8
      <4> QED
        BY <2>3, <3>2, <3>3, <3>4, <4>1
    <3> QED
      BY <2>1, <3>5
  <2> QED
    BY <2>10, <2>11
<1>5. N \in 0 .. N
  OBVIOUS
<1>6. Far(N)
  BY <1>4, <1>5
<1>7. Range(f[N]) = DOMAIN ts
  <2>1. ASSUME Cardinality(Range(f[N])) >= N PROVE Range(f[N]) = DOMAIN ts
    <3>1. Range(f[N]) \in SUBSET DOMAIN ts /\ Cardinality(Range(f[N])) \in Nat
      BY <1>3, <1>5
    <3>2. Cardinality(Range(f[N])) <= Cardinality(DOMAIN ts)
      BY <3>1, FS_Subset DEF Table
    <3>3. Cardinality(Range(f[N])) = Cardinality(DOMAIN ts)
      BY <1>1, <2>1, <3>1, <3>2
    <3> QED
      BY <3>1, <3>3, FS_Subset DEF Table
  <2> QED
    BY <1>6, <2>1
<1> QED
  BY <1>2, <1>7 DEF Runnable

(* The page's rounds are the worker's: all names are known and no round stalls.  *)
LEMMA PageOrderIsTheWorkers ==
  ASSUME NEW ts, Table(ts), Grounded(ts)
  PROVE  PageOrder(ts) = WorkerOrder(ts)
<1>1. PICK N \in Nat : N = Cardinality(DOMAIN ts)
  BY FS_CardinalityType DEF Table
<1>2. PICK f \in [0 .. N -> Seq(DOMAIN ts)] :
        /\ WorkerOrder(ts) = f[N] /\ f[0] = <<>>
        /\ \A k \in 1 .. N : f[k] = f[k - 1] \o Ascending(WorkerReady(ts, f[k - 1]))
  <2>1. PICK f : WorkersRounds(f, ts, N)
    BY <1>1, WorkerRounds
  <2> QED
    BY <2>1 DEF WorkersRounds
<1>3. PICK g \in [0 .. N -> Seq(DOMAIN ts)] :
        /\ PageOrder(ts) = g[N] /\ g[0] = <<>>
        /\ \A k \in 1 .. N : g[k] = g[k - 1] \o Ascending(PageReady(ts, g[k - 1]))
  <2>1. PICK g : PagesRounds(g, ts, N)
    BY <1>1, PageRounds
  <2> QED
    BY <2>1 DEF PagesRounds
<1> DEFINE Bad == {k \in 0 .. N : f[k] # g[k]}
<1>4. ASSUME Bad # {} PROVE FALSE
  <2>0. Bad \subseteq Nat
    OBVIOUS
  <2>1. PICK k \in Bad : \A n \in Bad : k <= n
    <3> HIDE DEF Bad
    <3> QED
      BY <1>4, <2>0, LeastNatural
  <2>2. k # 0
    BY <1>2, <1>3, <2>1
  <2>3. k \in 1 .. N /\ k - 1 \in 0 .. N /\ k - 1 \notin Bad
    BY <2>1, <2>2
  <2>4. PICK p : p = f[k - 1] /\ p = g[k - 1]
    BY <2>3
  <2>5. PageReady(ts, p) = WorkerReady(ts, p)
    BY SameReady
  <2>6. f[k] = p \o Ascending(WorkerReady(ts, p)) /\ g[k] = p \o Ascending(PageReady(ts, p))
    BY <1>2, <1>3, <2>3, <2>4
  <2> QED
    BY <2>1, <2>5, <2>6
<1>5. N \in 0 .. N
  OBVIOUS
<1> QED
  BY <1>2, <1>3, <1>4, <1>5

(* ---------------------- what requests do to the tasks -------------------- *)

LEMMA GraphIs ==
  ASSUME NEW ts, Table(ts)
  PROVE  /\ DOMAIN GraphOf(ts) = NamesOf(ts)
         /\ \A i \in DOMAIN ts : ts[i].name \in NamesOf(ts) /\ GraphOf(ts)[ts[i].name] = ts[i].after
<1>1. DOMAIN GraphOf(ts) = NamesOf(ts)
  BY DEF GraphOf
<1>2. ASSUME NEW i \in DOMAIN ts
      PROVE  ts[i].name \in NamesOf(ts) /\ GraphOf(ts)[ts[i].name] = ts[i].after
  <2>1. ts[i].name \in NamesOf(ts)
    BY DEF NamesOf
  <2>2. {j \in DOMAIN ts : ts[j].name = ts[i].name} = {i}
    BY DEF Table
  <2>3. GraphOf(ts)[ts[i].name] = UNION {ts[j].after : j \in {k \in DOMAIN ts : ts[k].name = ts[i].name}}
    BY <2>1 DEF GraphOf
  <2>4. UNION {ts[j].after : j \in {i}} = ts[i].after
    OBVIOUS
  <2> QED
    BY <2>1, <2>2, <2>3, <2>4
<1> QED
  BY <1>1, <1>2

(* What a name needs is all it depends on, and all they depend on.               *)
LEMMA NeedsAll ==
  ASSUME NEW graph, NEW name, \A n : Deps(graph, n) \subseteq TaskName
  PROVE  /\ Deps(graph, name) \subseteq Needs(graph, name)
         /\ \A n \in Needs(graph, name) : Deps(graph, n) \subseteq Needs(graph, name)
BY DEF Needs

LEMMA TableDeps ==
  ASSUME NEW ts, Table(ts)
  PROVE  /\ \A n : Deps(GraphOf(ts), n) \subseteq TaskName
         /\ \A i \in DOMAIN ts : Deps(GraphOf(ts), ts[i].name) = ts[i].after
<1>1. \A i \in DOMAIN ts : Deps(GraphOf(ts), ts[i].name) = ts[i].after /\ ts[i].after \subseteq TaskName
  BY GraphIs DEF Deps, Table, TaskRow
<1>2. ASSUME NEW n PROVE Deps(GraphOf(ts), n) \subseteq TaskName
  <2>1. CASE n \in NamesOf(ts)
    <3>1. PICK i \in DOMAIN ts : n = ts[i].name
      BY <2>1 DEF NamesOf
    <3> QED
      BY <1>1, <3>1
  <2>2. CASE n \notin NamesOf(ts)
    BY <2>2, GraphIs DEF Deps
  <2> QED
    BY <2>1, <2>2
<1> QED
  BY <1>1, <1>2

(* What a request makes of the tasks when nobody wrote since it read them.       *)
Created(t) ==
  {With(tasks, i, t) : i \in {j \in NewId : t.name \notin NamesOf(tasks) /\ DependenciesHold(tasks, t)}}
Updated(id, t) ==
  LET siblings == Without(tasks, id)
  IN  IF id \in DOMAIN tasks /\ DependenciesHold(siblings, t) /\ t.name \notin NamesOf(siblings)
      THEN {With(Repointed(siblings, tasks[id].name, t.name), id, t)} ELSE {}
Deleted(id) ==
  IF id \in DOMAIN tasks
  THEN {[i \in DOMAIN tasks \ {id} |-> [tasks[i] EXCEPT !.after = @ \ {tasks[id].name}]]} ELSE {}

LEMMA TaskIsRow == \A t \in Task : t \in TaskRow
BY DEF Task

LEMMA CreatedKeeps ==
  ASSUME Table(tasks), NEW t \in Task, NEW ts \in Created(t)
  PROVE  Table(ts) /\ (Grounded(tasks) => Grounded(ts))
<1>1. PICK i \in NewId : ts = With(tasks, i, t) /\ t.name \notin NamesOf(tasks) /\ DependenciesHold(tasks, t)
  BY DEF Created
<1>2. i \notin DOMAIN tasks /\ i \in Nat
  BY <1>1, TaskAssumption DEF NewId, Table
<1>3. /\ DOMAIN ts = DOMAIN tasks \cup {i} /\ ts = [j \in DOMAIN ts |-> ts[j]]
      /\ ts[i] = t /\ \A j \in DOMAIN tasks : ts[j] = tasks[j] /\ j # i
  BY <1>1, <1>2 DEF With
<1>4. t.after \subseteq NamesOf(tasks) /\ t.name \notin t.after
  <2>1. t.name \notin t.after
    BY DEF Task
  <2>2. t.after \subseteq NamesOf(tasks) \cup {t.name}
    BY <1>1, GraphIs DEF DependenciesHold
  <2> QED
    BY <2>1, <2>2
<1>5. Table(ts)
  <2>1. IsFiniteSet(DOMAIN ts) /\ DOMAIN ts \subseteq Nat
    BY <1>2, <1>3, FS_AddElement DEF Table
  <2>2. ts \in [DOMAIN ts -> TaskRow]
    BY <1>3, TaskIsRow DEF Table
  <2>3. \A j, k \in DOMAIN ts : ts[j].name = ts[k].name => j = k
    <3>1. \A j \in DOMAIN tasks : ts[j].name # t.name
      BY <1>1, <1>3 DEF NamesOf
    <3> QED
      BY <1>3, <3>1 DEF Table
  <2> QED
    BY <2>1, <2>2, <2>3 DEF Table
<1>6. ASSUME Grounded(tasks) PROVE Grounded(ts)
  <2>1. NamesOf(tasks) \subseteq NamesOf(ts)
    BY <1>3 DEF NamesOf
  <2>2. \A j \in DOMAIN ts : ts[j].after \subseteq NamesOf(tasks)
    BY <1>3, <1>4, <1>6 DEF Grounded
  <2>3. ASSUME NEW S \in SUBSET DOMAIN ts, S # {}
        PROVE  \E j \in S : \A k \in S : ts[k].name \notin ts[j].after
    <3>1. \A j \in S : t.name \notin ts[j].after
      BY <1>1, <2>2
    <3>2. CASE S \ {i} = {}
      BY <1>3, <2>3, <3>1, <3>2
    <3>3. CASE S \ {i} # {}
      <4>1. S \ {i} \in SUBSET DOMAIN tasks
        BY <1>3
      <4>2. PICK j \in S \ {i} : \A k \in S \ {i} : tasks[k].name \notin tasks[j].after
        BY <1>6, <3>3, <4>1 DEF Grounded
      <4>3. \A k \in S \ {i} : ts[k].name \notin ts[j].after
        BY <1>3, <4>1, <4>2
      <4>4. \A k \in S : ts[k].name \notin ts[j].after
        BY <1>3, <3>1, <4>3
      <4> QED
        BY <4>4
    <3> QED
      BY <3>2, <3>3
  <2> QED
    BY <2>1, <2>2, <2>3 DEF Grounded
<1> QED
  BY <1>5, <1>6

LEMMA DeletedKeeps ==
  ASSUME Table(tasks), NEW id, NEW ts \in Deleted(id)
  PROVE  Table(ts) /\ (Grounded(tasks) => Grounded(ts))
<1>1. id \in DOMAIN tasks /\ ts = [i \in DOMAIN tasks \ {id} |-> [tasks[i] EXCEPT !.after = @ \ {tasks[id].name}]]
  BY DEF Deleted
<1>2. DOMAIN ts = DOMAIN tasks \ {id} /\ ts = [i \in DOMAIN ts |-> ts[i]]
  BY <1>1
<1>3. ASSUME NEW i \in DOMAIN ts
      PROVE  ts[i] \in TaskRow /\ ts[i].name = tasks[i].name /\ ts[i].after = tasks[i].after \ {tasks[id].name}
  <2>1. tasks[i] \in TaskRow
    BY <1>2 DEF Table
  <2>2. ts[i] = [tasks[i] EXCEPT !.after = tasks[i].after \ {tasks[id].name}]
    BY <1>1, <1>2
  <2> QED
    BY <2>1, <2>2 DEF TaskRow
<1>4. Table(ts)
  <2>1. IsFiniteSet(DOMAIN ts) /\ DOMAIN ts \subseteq Nat
    BY <1>2, FS_RemoveElement DEF Table
  <2>2. ts \in [DOMAIN ts -> TaskRow]
    BY <1>2, <1>3
  <2> QED
    BY <1>2, <1>3, <2>1, <2>2 DEF Table
<1>5. ASSUME Grounded(tasks) PROVE Grounded(ts)
  <2>1. ASSUME NEW i \in DOMAIN ts, NEW n \in ts[i].after PROVE n \in NamesOf(ts)
    <3>1. n \in tasks[i].after /\ n # tasks[id].name
      BY <1>3, <2>1
    <3>2. PICK j \in DOMAIN tasks : n = tasks[j].name
      BY <1>2, <1>5, <3>1 DEF Grounded, NamesOf
    <3>3. j \in DOMAIN ts /\ ts[j].name = n
      BY <1>2, <1>3, <3>1, <3>2
    <3> QED
      BY <3>3 DEF NamesOf
  <2>2. ASSUME NEW S \in SUBSET DOMAIN ts, S # {}
        PROVE  \E j \in S : \A k \in S : ts[k].name \notin ts[j].after
    <3>1. S \in SUBSET DOMAIN tasks
      BY <1>2
    <3>2. PICK j \in S : \A k \in S : tasks[k].name \notin tasks[j].after
      BY <1>5, <2>2, <3>1 DEF Grounded
    <3> QED
      BY <1>3, <3>2
  <2> QED
    BY <2>1, <2>2 DEF Grounded
<1> QED
  BY <1>4, <1>5

(* What an edit leaves: the task as it was sent, and the others with its new name *)
(* where they had the old one.                                                   *)
Edited(id, t, ts) ==
  LET old == tasks[id].name IN
    /\ id \in DOMAIN tasks /\ DOMAIN ts = DOMAIN tasks /\ ts = [i \in DOMAIN ts |-> ts[i]]
    /\ ts[id] = t /\ t.name \notin t.after
    /\ \A i \in DOMAIN tasks \ {id} :
         /\ ts[i] \in TaskRow /\ ts[i].name = tasks[i].name /\ ts[i].name # t.name
         /\ ts[i].after = IF old \in tasks[i].after THEN (tasks[i].after \ {old}) \cup {t.name} ELSE tasks[i].after
    /\ \A n \in t.after : \E i \in DOMAIN tasks \ {id} : n = tasks[i].name

LEMMA SiblingsTable ==
  ASSUME Table(tasks), NEW id
  PROVE  /\ Table(Without(tasks, id)) /\ DOMAIN Without(tasks, id) = DOMAIN tasks \ {id}
         /\ \A i \in DOMAIN tasks \ {id} : Without(tasks, id)[i] = tasks[i]
<1>1. PICK ts : ts = Without(tasks, id)
  OBVIOUS
<1>2. DOMAIN ts = DOMAIN tasks \ {id} /\ \A i \in DOMAIN tasks \ {id} : ts[i] = tasks[i]
  BY <1>1 DEF Without
<1>3. IsFiniteSet(DOMAIN ts)
  BY <1>2, FS_RemoveElement DEF Table
<1>4. ts \in [DOMAIN ts -> TaskRow]
  BY <1>1, <1>2 DEF Without, Table
<1>5. Table(ts)
  BY <1>2, <1>3, <1>4 DEF Table
<1> QED
  BY <1>1, <1>2, <1>5

LEMMA UpdatedIs ==
  ASSUME Table(tasks), NEW id, NEW t \in Task, NEW ts \in Updated(id, t)
  PROVE  /\ Edited(id, t, ts)
         /\ tasks[id].name = t.name =>
              \E set \in SUBSET TaskName :
                /\ t.after \subseteq set /\ t.name \notin set
                /\ \A i \in DOMAIN tasks \ {id} : tasks[i].name \in set => tasks[i].after \subseteq set
<1>1. PICK siblings, old, new : siblings = Without(tasks, id) /\ old = tasks[id].name /\ new = t.name
  OBVIOUS
<1>2. /\ id \in DOMAIN tasks /\ DependenciesHold(siblings, t) /\ new \notin NamesOf(siblings)
      /\ ts = With(Repointed(siblings, old, new), id, t)
  BY <1>1 DEF Updated
<1>3. /\ Table(siblings) /\ DOMAIN siblings = DOMAIN tasks \ {id}
      /\ \A i \in DOMAIN siblings : siblings[i] = tasks[i] /\ siblings[i] \in TaskRow
  BY <1>1, SiblingsTable DEF Table
<1>4. PICK r : r = Repointed(siblings, old, new)
  OBVIOUS
<1>5. DOMAIN r = DOMAIN siblings
  BY <1>4 DEF Repointed
<1>6. ASSUME NEW i \in DOMAIN siblings
      PROVE  /\ r[i] \in TaskRow /\ r[i].name = tasks[i].name
             /\ r[i].after = IF old \in tasks[i].after THEN (tasks[i].after \ {old}) \cup {new} ELSE tasks[i].after
  <2>1. PICK row, after : row \in TaskRow /\ row = siblings[i] /\ row = tasks[i]
                             /\ after = IF old \in row.after THEN (row.after \ {old}) \cup {new} ELSE row.after
    BY <1>3
  <2>2. r[i] = [row EXCEPT !.after = after]
    BY <1>4, <2>1 DEF Repointed
  <2>3. after \subseteq TaskName
    BY <1>1, <2>1, TaskIsRow DEF TaskRow
  <2> QED
    BY <2>1, <2>2, <2>3 DEF TaskRow
<1>7. /\ DOMAIN ts = DOMAIN tasks /\ ts = [i \in DOMAIN ts |-> ts[i]]
      /\ ts[id] = t /\ \A i \in DOMAIN siblings : ts[i] = r[i]
  <2>1. ts = [i \in DOMAIN r \cup {id} |-> IF i = id THEN t ELSE r[i]]
    BY <1>2, <1>4 DEF With
  <2>2. DOMAIN r \cup {id} = DOMAIN tasks
    BY <1>2, <1>3, <1>5
  <2> QED
    BY <1>3, <2>1, <2>2
<1>8. new \notin t.after
  BY <1>1 DEF Task
<1> DEFINE others == GraphOf(siblings)
           graph  == [n \in DOMAIN others \cup {new} |-> IF n = new THEN t.after ELSE others[n]]
<1>9. t.after \subseteq DOMAIN graph /\ new \notin Needs(graph, new)
  BY <1>1, <1>2 DEF DependenciesHold
<1>10. t.after \subseteq NamesOf(siblings)
  <2>1. DOMAIN graph = NamesOf(siblings) \cup {new}
    BY <1>3, GraphIs
  <2> QED
    BY <1>8, <1>9, <2>1
<1>11. \A i \in DOMAIN siblings : tasks[i].name # new
  BY <1>2, <1>3 DEF NamesOf
<1>12. \A n \in t.after : \E i \in DOMAIN tasks \ {id} : n = tasks[i].name
  BY <1>3, <1>10 DEF NamesOf
<1>13. Edited(id, t, ts)
  <2>1. id \in DOMAIN tasks /\ DOMAIN ts = DOMAIN tasks /\ ts = [i \in DOMAIN ts |-> ts[i]] /\ ts[id] = t /\ t.name \notin t.after
    BY <1>1, <1>2, <1>7, <1>8
  <2>2. ASSUME NEW i \in DOMAIN tasks \ {id}
        PROVE  /\ ts[i] \in TaskRow /\ ts[i].name = tasks[i].name /\ ts[i].name # t.name
               /\ ts[i].after = IF tasks[id].name \in tasks[i].after
                               THEN (tasks[i].after \ {tasks[id].name}) \cup {t.name} ELSE tasks[i].after
    <3>1. i \in DOMAIN siblings /\ ts[i] = r[i]
      BY <1>3, <1>7
    <3> QED
      BY <1>1, <1>6, <1>11, <3>1
  <2> QED
    BY <1>12, <2>1, <2>2 DEF Edited
<1>14. PICK set \in SUBSET TaskName :
         Deps(graph, new) \subseteq set /\ new \notin set /\ \A m \in set : Deps(graph, m) \subseteq set
  <2>1. new \in TaskName
    BY <1>1, TaskIsRow DEF TaskRow
  <2> HIDE DEF graph
  <2> QED
    BY <1>9, <2>1 DEF Needs
<1>15. Deps(graph, new) = t.after
  BY DEF Deps
<1>16. ASSUME NEW i \in DOMAIN tasks \ {id}, tasks[i].name \in set PROVE tasks[i].after \subseteq set
  <2>1. tasks[i].name # new /\ tasks[i].name \in DOMAIN others /\ others[tasks[i].name] = tasks[i].after
    BY <1>3, <1>11, GraphIs
  <2>2. Deps(graph, tasks[i].name) = tasks[i].after
    BY <2>1 DEF Deps
  <2> QED
    BY <1>14, <1>16, <2>2
<1> QED
  BY <1>1, <1>13, <1>14, <1>15, <1>16

LEMMA EditedTable ==
  ASSUME Table(tasks), NEW id, NEW t \in TaskRow, NEW ts, Edited(id, t, ts)
  PROVE  Table(ts)
<1>1. DOMAIN ts = DOMAIN tasks /\ ts[id] = t /\ id \in DOMAIN tasks /\ ts = [i \in DOMAIN ts |-> ts[i]]
  BY DEF Edited
<1>2. \A i \in DOMAIN ts : i # id => ts[i] \in TaskRow /\ ts[i].name = tasks[i].name /\ ts[i].name # t.name
  BY <1>1 DEF Edited
<1>3. ts \in [DOMAIN ts -> TaskRow]
  BY <1>1, <1>2
<1>4. \A i, j \in DOMAIN ts : ts[i].name = ts[j].name => i = j
  BY <1>1, <1>2 DEF Table
<1> QED
  BY <1>1, <1>3, <1>4 DEF Table

(* An edit closes a cycle only through the task it edits: if what that task comes *)
(* to wait for, however far, does not lead to what has waited for it, none.       *)
LEMMA EditedGrounded ==
  ASSUME Table(tasks), Grounded(tasks), NEW id, NEW t \in TaskRow, NEW ts, Edited(id, t, ts),
         NEW set, t.after \subseteq set, tasks[id].name \notin set,
         \A i \in DOMAIN tasks \ {id} : tasks[i].name \in set => tasks[i].after \subseteq set
  PROVE  Grounded(ts)
<1>1. PICK old, new : old = tasks[id].name /\ new = t.name
  OBVIOUS
<1>2. /\ id \in DOMAIN tasks /\ DOMAIN ts = DOMAIN tasks /\ ts[id] = t /\ new \notin t.after
      /\ \A i \in DOMAIN tasks \ {id} :
           /\ ts[i].name = tasks[i].name /\ ts[i].name # new
           /\ ts[i].after = IF old \in tasks[i].after THEN (tasks[i].after \ {old}) \cup {new} ELSE tasks[i].after
      /\ \A n \in t.after : \E i \in DOMAIN tasks \ {id} : n = tasks[i].name
  BY <1>1 DEF Edited
<1>3. ASSUME NEW i \in DOMAIN ts, NEW n \in ts[i].after PROVE n \in NamesOf(ts)
  <2>1. new \in NamesOf(ts) /\ \A j \in DOMAIN tasks \ {id} : tasks[j].name \in NamesOf(ts)
    BY <1>1, <1>2 DEF NamesOf
  <2>2. CASE i = id
    BY <1>2, <1>3, <2>1, <2>2
  <2>3. CASE i # id /\ n # new
    <3>1. n \in tasks[i].after /\ n # old
      <4>1. i \in DOMAIN tasks \ {id} /\ n \in ts[i].after
        BY <1>2, <1>3, <2>3
      <4>2. CASE old \in tasks[i].after
        <5>1. n \in (tasks[i].after \ {old}) \cup {new}
          BY <1>2, <4>1, <4>2
        <5> QED
          BY <2>3, <5>1
      <4>3. CASE old \notin tasks[i].after
        <5>1. ts[i].after = tasks[i].after
          BY <1>2, <4>1, <4>3
        <5> QED
          BY <4>1, <4>3, <5>1
      <4> QED
        BY <4>2, <4>3
    <3>2. PICK j \in DOMAIN tasks : n = tasks[j].name
      BY <1>2, <3>1 DEF Grounded, NamesOf
    <3> QED
      BY <1>1, <2>1, <3>1, <3>2
  <2> QED
    BY <2>1, <2>2, <2>3
<1>4. ASSUME NEW T \in SUBSET (DOMAIN tasks \ {id}), T # {}
      PROVE  \E i \in T : \A j \in T : ts[j].name \notin ts[i].after
  <2>1. PICK i \in T : \A j \in T : tasks[j].name \notin tasks[i].after
    BY <1>4 DEF Grounded
  <2>2. ASSUME NEW j \in T, ts[j].name \in ts[i].after PROVE FALSE
    <3>1. i \in DOMAIN tasks \ {id} /\ ts[j].name = tasks[j].name /\ ts[j].name # new
      BY <1>2
    <3>2. CASE old \in tasks[i].after
      <4>1. tasks[j].name \in (tasks[i].after \ {old}) \cup {new}
        BY <1>2, <2>2, <3>1, <3>2
      <4> QED
        BY <2>1, <3>1, <4>1
    <3>3. CASE old \notin tasks[i].after
      BY <1>2, <2>1, <2>2, <3>1, <3>3
    <3> QED
      BY <3>2, <3>3
  <2> QED
    BY <2>2
<1>5. ASSUME NEW S \in SUBSET DOMAIN ts, S # {}, \A i \in S : \E j \in S : ts[j].name \in ts[i].after
      PROVE  FALSE
  <2> DEFINE T == {i \in S \ {id} : tasks[i].name \in set}
  <2>1. id \in S
    <3>1. CASE id \notin S
      BY <1>2, <1>4, <1>5, <3>1
    <3> QED
      BY <3>1
  <2>2. PICK j \in S : ts[j].name \in t.after
    BY <1>2, <1>5, <2>1
  <2>3. j \in T
    BY <1>1, <1>2, <2>2
  <2>4. ASSUME NEW i \in T PROVE \E k \in T : ts[k].name \in ts[i].after
    <3>1. i \in DOMAIN tasks \ {id} /\ tasks[i].after \subseteq set
      BY <1>2
    <3>2. ts[i].after = tasks[i].after
      BY <1>1, <1>2, <3>1
    <3>3. PICK k \in S : ts[k].name \in tasks[i].after
      BY <1>5, <3>2
    <3>4. k # id
      <4>1. ASSUME new \in tasks[i].after PROVE FALSE
        <5>1. PICK h \in DOMAIN tasks : new = tasks[h].name
          BY <3>1, <4>1 DEF Grounded, NamesOf
        <5>2. h = id
          BY <1>2, <5>1
        <5> QED
          BY <1>1, <3>1, <4>1, <5>1, <5>2
      <4> QED
        BY <1>1, <1>2, <3>3, <4>1
    <3>5. k \in T
      BY <1>2, <3>1, <3>3, <3>4
    <3> QED
      BY <3>2, <3>3, <3>5
  <2>5. T \in SUBSET (DOMAIN tasks \ {id})
    BY <1>2
  <2> QED
    <3> HIDE DEF T
    <3> QED
      BY <1>4, <2>3, <2>4, <2>5
<1> QED
  BY <1>3, <1>5 DEF Grounded

LEMMA UpdatedKeeps ==
  ASSUME Table(tasks), NEW id, NEW t \in Task, NEW ts \in Updated(id, t)
  PROVE  /\ Table(ts)
         /\ Grounded(tasks) =>
              \/ Grounded(ts)
              \/ /\ id \in DOMAIN tasks \cap DOMAIN ts /\ ts[id].name # tasks[id].name
                 /\ \E d \in ts[id].after : tasks[id].name \in Needs(GraphOf(tasks), d)
<1>1. Edited(id, t, ts)
  BY UpdatedIs
<1>2. Table(ts)
  BY <1>1, TaskIsRow, EditedTable
<1>3. id \in DOMAIN tasks \cap DOMAIN ts /\ ts[id] = t
  BY <1>1 DEF Edited
<1>4. ASSUME Grounded(tasks), tasks[id].name = t.name PROVE Grounded(ts)
  <2>1. PICK set \in SUBSET TaskName :
          /\ t.after \subseteq set /\ t.name \notin set
          /\ \A i \in DOMAIN tasks \ {id} : tasks[i].name \in set => tasks[i].after \subseteq set
    BY <1>4, UpdatedIs
  <2>2. t \in TaskRow
    BY TaskIsRow
  <2> QED
    BY <1>1, <1>4, <2>1, <2>2, EditedGrounded
<1>5. ASSUME Grounded(tasks), \A d \in t.after : tasks[id].name \notin Needs(GraphOf(tasks), d)
      PROVE  Grounded(ts)
  <2> DEFINE set == {n \in TaskName : n \in t.after \/ \E d \in t.after : n \in Needs(GraphOf(tasks), d)}
  <2>1. t.after \subseteq set
    BY TaskIsRow DEF TaskRow
  <2>2. tasks[id].name \notin set
    <3>1. tasks[id].name \notin t.after
      BY <1>1, <1>3 DEF Edited, Table
    <3> QED
      BY <1>5, <3>1
  <2>3. ASSUME NEW i \in DOMAIN tasks \ {id}, tasks[i].name \in set PROVE tasks[i].after \subseteq set
    <3>1. Deps(GraphOf(tasks), tasks[i].name) = tasks[i].after /\ tasks[i].after \subseteq TaskName
      BY TableDeps
    <3>2. \A d : /\ Deps(GraphOf(tasks), d) \subseteq Needs(GraphOf(tasks), d)
                 /\ \A n \in Needs(GraphOf(tasks), d) : Deps(GraphOf(tasks), n) \subseteq Needs(GraphOf(tasks), d)
      BY TableDeps, NeedsAll
    <3>3. PICK d \in t.after : tasks[i].after \subseteq Needs(GraphOf(tasks), d)
      BY <2>3, <3>1, <3>2
    <3> QED
      BY <3>1, <3>3
  <2> HIDE DEF set
  <2> QED
    BY <1>1, <1>5, <2>1, <2>2, <2>3, TaskIsRow, EditedGrounded
<1> QED
  BY <1>2, <1>3, <1>4, <1>5

(* A request that was read and checked; what is sent says what to run once.      *)
Once(call) == call.kind # "remove" => call.body.source \subseteq {call.body.type}
Checked(call) == Table(call.rows) /\ Admitted(call, call.rows) /\ Once(call)
Sourced(ts) == \A i \in DOMAIN ts : ts[i].source = {ts[i].type}

TasksInv ==
  /\ Table(tasks)
  /\ ~overtaken.ever => Sourced(tasks)
  /\ overtaken \in [last : BOOLEAN, ever : BOOLEAN]
  /\ othersCall = NoCall \/ Checked(othersCall)
  /\ taskCall.phase = "sent" => Once(taskCall)
  /\ taskCall.phase = "checked" => Checked(taskCall)

LEMMA InitTasks ==
  ASSUME TaskInit
  PROVE  TasksInv
<1>1. PICK ids \in SUBSET TaskId : IsFiniteSet(ids) /\ tasks \in [ids -> {t \in Task : t.source = {t.type}}]
  BY DEF TaskInit
<1>2. DOMAIN tasks = ids /\ IsFiniteSet(ids) /\ ids \subseteq Nat
  BY <1>1, TaskAssumption
<1>3. \A i \in ids : tasks[i] \in TaskRow /\ tasks[i].source = {tasks[i].type}
  BY <1>1, TaskIsRow
<1>4. tasks \in [DOMAIN tasks -> TaskRow]
  BY <1>1, <1>2, <1>3
<1> DEFINE named == [i \in ids |-> tasks[i].name]
<1>5. named \in Surjection(ids, NamesOf(tasks))
  BY <1>2 DEF NamesOf, Surjection
<1>6. Cardinality(NamesOf(tasks)) = Cardinality(ids)
  BY <1>2 DEF TaskInit
<1>7. named \in Injection(ids, NamesOf(tasks))
  <2> HIDE DEF named
  <2> QED
    BY <1>2, <1>5, <1>6, FS_Surjection
<1>8. \A i, j \in ids : named[i] = named[j] => i = j
  <2> HIDE DEF named
  <2> QED
    BY <1>7 DEF Injection, IsInjective
<1>9. \A i, j \in ids : tasks[i].name = tasks[j].name => i = j
  BY <1>8
<1>10. Table(tasks) /\ Sourced(tasks)
  BY <1>2, <1>3, <1>4, <1>9 DEF Table, Sourced
<1>11. taskCall.phase = "none" /\ othersCall = NoCall /\ overtaken = [last |-> FALSE, ever |-> FALSE]
  BY DEF TaskInit, NoCall
<1> QED
  BY <1>10, <1>11 DEF TasksInv

(* The session's rows are rows, of the tasks that were read.                     *)
LEMMA SessionTyped ==
  ASSUME NEW call, Checked(call)
  PROVE  /\ DOMAIN Session(call) \subseteq DOMAIN call.rows
         /\ \A i \in DOMAIN Session(call) : Session(call)[i] \in TaskRow /\ call.rows[i] \in TaskRow
         /\ Session(call) = [i \in DOMAIN Session(call) |-> Session(call)[i]]
<1>1. PICK read, id, t : read = call.rows /\ id = call.id /\ t = call.body
  OBVIOUS
<1>2. Table(read) /\ read = [i \in DOMAIN read |-> read[i]] /\ \A i \in DOMAIN read : read[i] \in TaskRow
  BY <1>1 DEF Checked, Table
<1>3. CASE call.kind = "add"
  <2>1. Session(call) = read
    BY <1>1, <1>3 DEF Session
  <2> QED
    BY <1>1, <1>2, <2>1
<1>4. CASE call.kind = "edit"
  <2>1. t \in TaskRow /\ id \in DOMAIN read
    BY <1>1, <1>4, TaskIsRow DEF Checked, Admitted
  <2>2. PICK old, new, r : old = read[id].name /\ new = t.name /\ r = Repointed(Without(read, id), old, new)
    OBVIOUS
  <2>3. Session(call) = [i \in DOMAIN r \cup {id} |-> IF i = id THEN t ELSE r[i]]
    BY <1>1, <1>4, <2>2 DEF Session, With
  <2>4. DOMAIN r = DOMAIN read \ {id}
    BY <2>2 DEF Repointed, Without
  <2>5. ASSUME NEW i \in DOMAIN read \ {id} PROVE r[i] \in TaskRow
    <3>1. PICK row, after : /\ row \in TaskRow /\ row = read[i]
                            /\ after = IF old \in row.after THEN (row.after \ {old}) \cup {new} ELSE row.after
      BY <1>2
    <3>2. r[i] = [row EXCEPT !.after = after]
      BY <2>2, <3>1 DEF Repointed, Without
    <3>3. after \subseteq TaskName
      BY <2>1, <2>2, <3>1 DEF TaskRow
    <3> QED
      BY <3>1, <3>2, <3>3 DEF TaskRow
  <2> QED
    BY <1>1, <1>2, <2>1, <2>3, <2>4, <2>5
<1>5. CASE call.kind \notin {"add", "edit"}
  <2>1. PICK name : name = read[id].name
    OBVIOUS
  <2>2. Session(call) = [i \in DOMAIN read \ {id} |-> [read[i] EXCEPT !.after = read[i].after \ {name}]]
    BY <1>1, <1>5, <2>1 DEF Session
  <2>3. ASSUME NEW i \in DOMAIN read PROVE [read[i] EXCEPT !.after = read[i].after \ {name}] \in TaskRow
    BY <1>2 DEF TaskRow
  <2> QED
    BY <1>1, <1>2, <2>2, <2>3
<1> QED
  BY <1>3, <1>4, <1>5

LEMMA MergedTyped ==
  ASSUME NEW now \in TaskRow, NEW read \in TaskRow, NEW row \in TaskRow
  PROVE  /\ MergedTask(now, read, row) \in TaskRow
         /\ now = read => MergedTask(now, read, row) = row
BY DEF MergedTask, TaskRow

LEMMA DistinctNames ==
  ASSUME NEW call, NEW ts \in Committed(call)
  PROVE  ts \in Flushed(call) /\ \A i, j \in DOMAIN ts : ts[i].name = ts[j].name => i = j
<1>1. ts \in Flushed(call) /\ IsInjective([i \in DOMAIN ts |-> ts[i].name])
  BY DEF Committed
<1> DEFINE named == [i \in DOMAIN ts |-> ts[i].name]
<1>2. \A i, j \in DOMAIN ts : named[i] = named[j] => i = j
  <2>1. DOMAIN named = DOMAIN ts
    OBVIOUS
  <2> HIDE DEF named
  <2> QED
    BY <1>1, <2>1 DEF IsInjective, named
<1> QED
  BY <1>1, <1>2

(* What a commit leaves is a table, whatever others wrote meanwhile.             *)
LEMMA CommittedTable ==
  ASSUME Table(tasks), NEW call, Checked(call), NEW ts \in Committed(call)
  PROVE  Table(ts)
<1>1. ts \in Flushed(call) /\ \A i, j \in DOMAIN ts : ts[i].name = ts[j].name => i = j
  BY DistinctNames
<1>2. CASE call.kind = "add"
  <2>1. PICK i \in NewId : ts = With(tasks, i, call.body)
    BY <1>1, <1>2 DEF Flushed
  <2>2. i \in Nat /\ call.body \in TaskRow
    BY <1>2, TaskAssumption, TaskIsRow DEF NewId, Checked, Admitted
  <2>3. DOMAIN ts = DOMAIN tasks \cup {i} /\ ts \in [DOMAIN ts -> TaskRow]
    BY <2>1, <2>2 DEF With, Table
  <2>4. IsFiniteSet(DOMAIN ts) /\ DOMAIN ts \subseteq Nat
    BY <2>2, <2>3, FS_AddElement DEF Table
  <2> QED
    BY <1>1, <2>3, <2>4 DEF Table
<1>3. CASE call.kind # "add"
  <2>1. PICK session, changed, kept :
          /\ session = Session(call) /\ changed = {i \in DOMAIN session : session[i] # call.rows[i]}
          /\ kept = DOMAIN tasks \ (DOMAIN call.rows \ DOMAIN session)
    OBVIOUS
  <2>2. ts = [i \in kept |-> IF i \in changed THEN MergedTask(tasks[i], call.rows[i], session[i]) ELSE tasks[i]]
    BY <1>1, <1>3, <2>1 DEF Flushed
  <2>3. ASSUME NEW i \in kept
        PROVE  (IF i \in changed THEN MergedTask(tasks[i], call.rows[i], session[i]) ELSE tasks[i]) \in TaskRow
    <3>1. tasks[i] \in TaskRow
      BY <2>1 DEF Table
    <3>2. ASSUME i \in changed PROVE MergedTask(tasks[i], call.rows[i], session[i]) \in TaskRow
      BY <2>1, <3>1, <3>2, SessionTyped, MergedTyped
    <3> QED
      BY <3>1, <3>2
  <2>4. DOMAIN ts = kept /\ ts \in [DOMAIN ts -> TaskRow]
    BY <2>2, <2>3
  <2>5. IsFiniteSet(kept) /\ kept \subseteq Nat
    <3>1. kept \in SUBSET DOMAIN tasks
      BY <2>1
    <3> QED
      BY <3>1, FS_Subset DEF Table
  <2> QED
    BY <1>1, <2>4, <2>5 DEF Table
<1> QED
  BY <1>2, <1>3

(* A commit that nobody overtook makes of the tasks what was checked.            *)
LEMMA CommittedIs ==
  ASSUME Table(tasks), NEW call, Checked(call), call.rows = tasks, NEW ts \in Committed(call)
  PROVE  \/ call.kind = "add" /\ call.body \in Task /\ ts \in Created(call.body)
         \/ call.kind = "edit" /\ call.body \in Task /\ ts \in Updated(call.id, call.body)
         \/ call.kind \notin {"add", "edit"} /\ ts \in Deleted(call.id)
<1>1. ts \in Flushed(call) /\ \A i, j \in DOMAIN ts : ts[i].name = ts[j].name => i = j
  BY DistinctNames
<1>2. PICK id, t : id = call.id /\ t = call.body
  OBVIOUS
<1>3. CASE call.kind = "add"
  <2>1. t \in Task /\ DependenciesHold(tasks, t)
    BY <1>2, <1>3 DEF Checked, Admitted
  <2>2. PICK i \in NewId : ts = With(tasks, i, t)
    BY <1>1, <1>2, <1>3 DEF Flushed
  <2>3. i \notin DOMAIN tasks
    BY <2>2, TaskAssumption DEF NewId, Table
  <2>4. i \in DOMAIN ts /\ ts[i] = t /\ \A j \in DOMAIN tasks : j \in DOMAIN ts /\ ts[j] = tasks[j] /\ j # i
    BY <2>2, <2>3 DEF With
  <2>5. t.name \notin NamesOf(tasks)
    BY <1>1, <2>4 DEF NamesOf
  <2> QED
    BY <1>2, <1>3, <2>1, <2>2, <2>5 DEF Created
<1>4. CASE call.kind # "add"
  <2>1. PICK session : session = Session(call)
    OBVIOUS
  <2>2. /\ DOMAIN session \subseteq DOMAIN tasks /\ session = [i \in DOMAIN session |-> session[i]]
        /\ \A i \in DOMAIN session : session[i] \in TaskRow /\ tasks[i] \in TaskRow
    BY <2>1, SessionTyped
  <2>3. PICK changed : changed = {i \in DOMAIN session : session[i] # tasks[i]}
    OBVIOUS
  <2>4. ts = [i \in DOMAIN tasks \ (DOMAIN tasks \ DOMAIN session) |->
                IF i \in changed THEN MergedTask(tasks[i], tasks[i], session[i]) ELSE tasks[i]]
    BY <1>1, <1>4, <2>1, <2>3 DEF Flushed
  <2>5. ts = session
    <3>1. DOMAIN tasks \ (DOMAIN tasks \ DOMAIN session) = DOMAIN session
      BY <2>2
    <3>2. \A i \in DOMAIN session :
            (IF i \in changed THEN MergedTask(tasks[i], tasks[i], session[i]) ELSE tasks[i]) = session[i]
      BY <2>2, <2>3, MergedTyped
    <3> QED
      BY <2>2, <2>4, <3>1, <3>2
  <2>6. CASE call.kind = "edit"
    <3>1. t \in Task /\ id \in DOMAIN tasks /\ DependenciesHold(Without(tasks, id), t)
      BY <1>2, <2>6 DEF Checked, Admitted
    <3>2. PICK r : r = Repointed(Without(tasks, id), tasks[id].name, t.name)
      OBVIOUS
    <3>3. ts = With(r, id, t)
      BY <1>2, <2>1, <2>5, <2>6, <3>2 DEF Session
    <3>4. DOMAIN r = DOMAIN tasks \ {id} /\ \A i \in DOMAIN r : r[i].name = tasks[i].name
      <4>1. DOMAIN r = DOMAIN tasks \ {id}
        BY <3>2 DEF Repointed, Without
      <4>2. ASSUME NEW i \in DOMAIN r PROVE r[i].name = tasks[i].name
        <5>1. PICK row, after : /\ row \in TaskRow /\ row = tasks[i]
                                /\ after = IF tasks[id].name \in row.after
                                           THEN (row.after \ {tasks[id].name}) \cup {t.name} ELSE row.after
          BY <4>1 DEF Table
        <5>2. r[i] = [row EXCEPT !.after = after]
          BY <3>2, <4>1, <5>1 DEF Repointed, Without
        <5> QED
          BY <5>1, <5>2 DEF TaskRow
      <4> QED
        BY <4>1, <4>2
    <3>5. id \in DOMAIN ts /\ ts[id] = t /\ \A i \in DOMAIN r : i \in DOMAIN ts /\ ts[i] = r[i] /\ i # id
      BY <3>3, <3>4 DEF With
    <3>6. t.name \notin NamesOf(Without(tasks, id))
      <4>1. ASSUME t.name \in NamesOf(Without(tasks, id)) PROVE FALSE
        <5>1. PICK i \in DOMAIN tasks \ {id} : t.name = tasks[i].name
          BY <4>1 DEF NamesOf, Without
        <5> QED
          BY <1>1, <3>4, <3>5, <5>1
      <4> QED
        BY <4>1
    <3> QED
      BY <1>2, <2>6, <3>1, <3>2, <3>3, <3>6 DEF Updated
  <2>7. CASE call.kind # "edit"
    <3>1. id \in DOMAIN tasks
      BY <1>2, <1>4, <2>7 DEF Checked, Admitted
    <3>2. ts = [i \in DOMAIN tasks \ {id} |-> [tasks[i] EXCEPT !.after = @ \ {tasks[id].name}]]
      BY <1>2, <1>4, <2>1, <2>5, <2>7 DEF Session
    <3> QED
      BY <1>2, <1>4, <2>7, <3>1, <3>2 DEF Deleted
  <2> QED
    BY <2>6, <2>7
<1> QED
  BY <1>3, <1>4

(* Such a commit leaves the others' sources alone.                               *)
LEMMA SourcesKept ==
  ASSUME Table(tasks), Sourced(tasks), NEW call, Checked(call), call.rows = tasks, NEW ts \in Committed(call)
  PROVE  Sourced(ts)
<1>1. PICK id, t : id = call.id /\ t = call.body
  OBVIOUS
<1>2. \A i \in DOMAIN tasks : tasks[i] \in TaskRow
  BY DEF Table
<1>3. ASSUME call.kind \in {"add", "edit"}, t \in Task PROVE t.source = {t.type}
  <2>1. t.source \subseteq {t.type}
    BY <1>1, <1>3 DEF Checked, Once
  <2> QED
    BY <1>3, <2>1 DEF Task
<1>4. CASE call.kind = "add" /\ t \in Task /\ ts \in Created(t)
  <2>1. PICK i : ts = With(tasks, i, t)
    BY <1>4 DEF Created
  <2>2. DOMAIN ts = DOMAIN tasks \cup {i} /\ \A j \in DOMAIN ts : ts[j] = t \/ (j \in DOMAIN tasks /\ ts[j] = tasks[j])
    BY <2>1 DEF With
  <2> QED
    BY <1>3, <1>4, <2>2 DEF Sourced
<1>5. CASE call.kind = "edit" /\ t \in Task /\ ts \in Updated(id, t)
  <2>1. PICK old, new, r : r = Repointed(Without(tasks, id), old, new) /\ ts = With(r, id, t)
    BY <1>5 DEF Updated
  <2>2. DOMAIN r = DOMAIN tasks \ {id}
    BY <2>1 DEF Repointed, Without
  <2>3. ASSUME NEW i \in DOMAIN r PROVE r[i].source = {r[i].type}
    <3>1. PICK row, after : row \in TaskRow /\ row = tasks[i] /\ r[i] = [row EXCEPT !.after = after]
      <4>1. r[i] = [tasks[i] EXCEPT !.after = IF old \in @ THEN (@ \ {old}) \cup {new} ELSE @]
        BY <2>1, <2>2 DEF Repointed, Without
      <4> QED
        BY <1>2, <2>2, <4>1
    <3>2. r[i].source = row.source /\ r[i].type = row.type
      BY <3>1 DEF TaskRow
    <3> QED
      BY <2>2, <3>1, <3>2 DEF Sourced
  <2>4. DOMAIN ts = DOMAIN r \cup {id} /\ \A i \in DOMAIN ts : ts[i] = t \/ (i \in DOMAIN r /\ ts[i] = r[i])
    BY <2>1 DEF With
  <2> QED
    BY <1>3, <1>5, <2>3, <2>4 DEF Sourced
<1>6. CASE ts \in Deleted(id)
  <2>1. PICK name : ts = [i \in DOMAIN tasks \ {id} |-> [tasks[i] EXCEPT !.after = @ \ {name}]]
    BY <1>6 DEF Deleted
  <2>2. ASSUME NEW i \in DOMAIN ts PROVE ts[i].source = {ts[i].type}
    <3>1. PICK row, after : row \in TaskRow /\ row = tasks[i] /\ ts[i] = [row EXCEPT !.after = after]
      BY <1>2, <2>1
    <3>2. ts[i].source = row.source /\ ts[i].type = row.type
      BY <3>1 DEF TaskRow
    <3> QED
      BY <2>1, <3>1, <3>2 DEF Sourced
  <2> QED
    BY <2>2 DEF Sourced
<1> QED
  BY <1>1, <1>4, <1>5, <1>6, CommittedIs

(* A step leaves the tasks alone, or commits a request that was checked.         *)
Commits(call) == Checked(call) /\ \E ts \in Committed(call) : Write(call, ts)

LEMMA TaskStep ==
  ASSUME TasksInv, [TaskNext]_taskVars
  PROVE  /\ UNCHANGED <<tasks, overtaken>> \/ \E call : Commits(call)
         /\ othersCall' = NoCall \/ Checked(othersCall')
         /\ taskCall'.phase = "sent" => Once(taskCall')
         /\ taskCall'.phase = "checked" => Checked(taskCall')
<1> DEFINE Same == UNCHANGED <<tasks, overtaken, othersCall>>
           Kept == /\ taskCall'.phase = "sent" => Once(taskCall')
                   /\ taskCall'.phase = "checked" => Checked(taskCall')
           Goal == /\ UNCHANGED <<tasks, overtaken>> \/ \E call : Commits(call)
                   /\ othersCall' = NoCall \/ Checked(othersCall')
                   /\ Kept
<1>1. CASE Same /\ taskCall' = taskCall
  BY <1>1 DEF TasksInv, Checked, Once
<1>2. CASE Same /\ Kept
  BY <1>2 DEF TasksInv
<1>3. ASSUME NEW kind, NEW id, NEW t, OthersAsk(kind, id, t), kind # "remove" => t \in OthersTasks PROVE Goal
  <2>1. /\ othersCall' = [phase |-> "checked", kind |-> kind, id |-> id, body |-> t, rows |-> tasks]
        /\ Admitted(othersCall', tasks) /\ UNCHANGED <<tasks, overtaken>> /\ taskCall' = taskCall
    BY <1>3 DEF OthersAsk
  <2>2. othersCall'.rows = tasks /\ othersCall'.kind = kind /\ othersCall'.body = t
    BY <2>1
  <2>3. Once(othersCall')
    BY <1>3, <2>2, TaskAssumption DEF Once
  <2>4. Checked(othersCall')
    BY <2>1, <2>2, <2>3 DEF Checked, TasksInv
  <2> QED
    BY <2>1, <2>4 DEF TasksInv
<1>4. CASE OthersCommit
  <2>1. othersCall' = NoCall /\ taskCall' = taskCall /\ Checked(othersCall)
    BY <1>4 DEF OthersCommit, TasksInv
  <2>2. (\E ts \in Committed(othersCall) : Write(othersCall, ts)) \/ UNCHANGED <<tasks, overtaken>>
    BY <1>4 DEF OthersCommit
  <2>3. UNCHANGED <<tasks, overtaken>> \/ Commits(othersCall)
    BY <2>1, <2>2 DEF Commits
  <2>4. Kept
    BY <2>1 DEF TasksInv
  <2> HIDE DEF Kept
  <2> QED
    BY <2>1, <2>3, <2>4 DEF Kept
<1>5. CASE SubmitTask
  <2>1. Same /\ taskCall' = [phase |-> "sent", kind |-> modal.kind, id |-> modal.id, body |-> SubmittedTask]
    BY <1>5 DEF SubmitTask, SendTask, serverVars
  <2>2. SubmittedTask.source \subseteq {SubmittedTask.type}
    BY DEF SubmittedTask
  <2>3. taskCall'.body = SubmittedTask /\ taskCall'.phase = "sent"
    BY <2>1
  <2> QED
    BY <1>2, <2>1, <2>2, <2>3 DEF Once
<1>6. CASE \E id \in DOMAIN pageTasks : RemoveTask(id)
  <2>1. PICK id \in DOMAIN pageTasks : RemoveTask(id)
    BY <1>6
  <2>2. Same /\ taskCall' = [phase |-> "sent", kind |-> "remove", id |-> id, body |-> pageTasks[id]]
    BY <2>1 DEF RemoveTask, SendTask, serverVars
  <2>3. taskCall'.kind = "remove" /\ taskCall'.phase = "sent"
    BY <2>2
  <2> QED
    BY <1>2, <2>2, <2>3 DEF Once
<1>7. CASE CheckTask
  <2>1. Same /\ taskCall.phase = "sent"
    BY <1>7 DEF CheckTask, serverVars
  <2>2. CASE /\ Admitted(taskCall, tasks)
             /\ taskCall' = [phase |-> "checked", kind |-> taskCall.kind, id |-> taskCall.id, body |-> taskCall.body,
                             rows |-> tasks]
    <3>1. /\ taskCall'.rows = tasks /\ taskCall'.phase = "checked" /\ taskCall'.kind = taskCall.kind
          /\ taskCall'.id = taskCall.id /\ taskCall'.body = taskCall.body
      BY <2>2
    <3>2. Admitted(taskCall', tasks)
      BY <2>2, <3>1 DEF Admitted
    <3>3. Checked(taskCall')
      BY <2>1, <3>1, <3>2 DEF Checked, Once, TasksInv
    <3> QED
      BY <1>2, <2>1, <3>1, <3>3
  <2>3. CASE taskCall' = [phase |-> "failed"]
    <3>1. taskCall'.phase = "failed"
      BY <2>3
    <3> QED
      BY <1>2, <2>1, <3>1
  <2> QED
    BY <1>7, <2>2, <2>3 DEF CheckTask
<1>8. CASE CommitTask
  <2>1. othersCall' = othersCall /\ Checked(taskCall)
    BY <1>8 DEF CommitTask, TasksInv
  <2>2. taskCall'.phase \in {"done", "removed", "failed"}
    BY <1>8 DEF CommitTask
  <2>3. (\E ts \in Committed(taskCall) : Write(taskCall, ts)) \/ UNCHANGED <<tasks, overtaken>>
    BY <1>8 DEF CommitTask
  <2>4. UNCHANGED <<tasks, overtaken>> \/ Commits(taskCall)
    BY <2>1, <2>3 DEF Commits
  <2>5. Kept
    BY <2>2
  <2>6. othersCall' = NoCall \/ Checked(othersCall')
    BY <2>1 DEF TasksInv, Checked, Once
  <2> HIDE DEF Kept
  <2> QED
    BY <2>4, <2>5, <2>6 DEF Kept
<1>9. CASE TaskReply
  <2>1. Same /\ taskCall' = NoCall
    BY <1>9 DEF TaskReply, serverVars
  <2>2. taskCall'.phase = "none"
    BY <2>1 DEF NoCall
  <2> QED
    BY <1>2, <2>1, <2>2
<1>10. CASE LoadTasks \/ AnswerTasks \/ LoseTasks \/ CloseModal \/ \E ts \in listings : LandTasks(ts)
  BY <1>1, <1>10 DEF LoadTasks, AnswerTasks, LoseTasks, CloseModal, LandTasks, serverVars
<1>11. CASE \E name \in TaskName : NewTask(name) \/ TypeTaskName(name)
  BY <1>1, <1>11 DEF NewTask, OpenModal, TypeTaskName, EditModal, serverVars
<1>12. CASE \E id \in DOMAIN pageTasks : EditTask(id) \/ Tick(id)
  BY <1>1, <1>12 DEF EditTask, OpenModal, Tick, EditModal, serverVars
<1>13. CASE (\E type \in TaskType : SwitchType(type)) \/ PickFile
  BY <1>1, <1>13 DEF SwitchType, PickFile, EditModal, serverVars
<1>14. CASE UNCHANGED taskVars
  BY <1>1, <1>14 DEF taskVars
<1> HIDE DEF Goal, Same, Kept
<1> QED
  BY <1>3, <1>4, <1>5, <1>6, <1>7, <1>8, <1>9, <1>10, <1>11, <1>12, <1>13, <1>14 DEF TaskNext, Goal, Kept

LEMMA CommitKeeps ==
  ASSUME TasksInv, NEW call, Commits(call)
  PROVE  /\ Table(tasks') /\ overtaken' \in [last : BOOLEAN, ever : BOOLEAN]
         /\ ~overtaken'.ever => Sourced(tasks')
         /\ ~overtaken'.last => (Grounded(tasks) => Grounded(tasks') \/ RenamedOntoDependant)
<1>1. PICK ts \in Committed(call) : Write(call, ts)
  BY DEF Commits
<1>2. PICK late \in BOOLEAN : late = (call.rows # tasks)
  OBVIOUS
<1>3. tasks' = ts /\ overtaken' = [last |-> late, ever |-> overtaken.ever \/ late]
  BY <1>1, <1>2 DEF Write
<1>4. Table(tasks) /\ Checked(call) /\ overtaken.ever \in BOOLEAN
  BY DEF Commits, TasksInv
<1>5. Table(tasks')
  BY <1>3, <1>4, CommittedTable
<1>6. ASSUME ~overtaken'.ever PROVE Sourced(tasks')
  <2>1. ~overtaken.ever /\ call.rows = tasks
    BY <1>2, <1>3, <1>4, <1>6
  <2>2. Sourced(tasks)
    BY <2>1 DEF TasksInv
  <2>3. Sourced(ts)
    BY <1>4, <2>1, <2>2, SourcesKept
  <2> QED
    BY <1>3, <2>3 DEF Sourced
<1>7. ASSUME ~overtaken'.last, Grounded(tasks) PROVE Grounded(tasks') \/ RenamedOntoDependant
  <2>1. call.rows = tasks
    BY <1>2, <1>3, <1>7
  <2>2. CASE call.body \in Task /\ ts \in Created(call.body)
    BY <1>3, <1>4, <1>7, <2>2, CreatedKeeps
  <2>3. CASE call.body \in Task /\ ts \in Updated(call.id, call.body)
    BY <1>3, <1>4, <1>7, <2>3, UpdatedKeeps DEF RenamedOntoDependant
  <2>4. CASE ts \in Deleted(call.id)
    BY <1>3, <1>4, <1>7, <2>4, DeletedKeeps
  <2> QED
    BY <1>4, <2>1, <2>2, <2>3, <2>4, CommittedIs
<1>8. overtaken' \in [last : BOOLEAN, ever : BOOLEAN]
  BY <1>3, <1>4
<1> QED
  BY <1>5, <1>6, <1>7, <1>8

LEMMA TasksStep ==
  ASSUME TasksInv, [TaskNext]_taskVars
  PROVE  /\ TasksInv'
         /\ ~overtaken'.last => (Grounded(tasks) => Grounded(tasks') \/ RenamedOntoDependant)
<1>1. CASE UNCHANGED <<tasks, overtaken>>
  BY <1>1, TaskStep DEF TasksInv
<1>2. ASSUME NEW call, Commits(call)
      PROVE  /\ TasksInv'
             /\ ~overtaken'.last => (Grounded(tasks) => Grounded(tasks') \/ RenamedOntoDependant)
  BY <1>2, CommitKeeps, TaskStep DEF TasksInv
<1> QED
  BY <1>1, <1>2, TaskStep

(* For any tasks, names and requests in flight: the page lists the tasks in the    *)
(* order a run takes them, and a commit that nobody overtook leaves no graph a run *)
(* cannot take, but for the rename that is excepted (App.tsx,                      *)
(* topologicallyOrdered; routes_workflows.py, _validate_dependencies).             *)
THEOREM TasksAreListed == TaskSpec => TasksRunAsListed
<1>1. TasksInv /\ [TaskNext]_taskVars => TasksInv'
  BY TasksStep
<1>2. ASSUME TasksInv, TasksInv', [TaskNext]_taskVars
      PROVE  /\ Runnable(tasks) /\ ~overtaken'.last => Runnable(tasks') \/ RenamedOntoDependant
             /\ pageTasks' = tasks' /\ Runnable(tasks') => PageOrder(pageTasks') = WorkerOrder(tasks')
             /\ pageTasks' = tasks' /\ ~overtaken'.ever =>
                  \A i \in DOMAIN pageTasks' : CardSource(pageTasks'[i]) = tasks'[i].type
  <2>1. Table(tasks) /\ Table(tasks') /\ (~overtaken'.ever => Sourced(tasks'))
    BY <1>2 DEF TasksInv, Sourced
  <2>2. ~overtaken'.last => (Grounded(tasks) => Grounded(tasks') \/ RenamedOntoDependant)
    BY <1>2, TasksStep
  <2>3. Runnable(tasks) /\ ~overtaken'.last => Runnable(tasks') \/ RenamedOntoDependant
    BY <2>1, <2>2, RunnableIsGrounded, GroundedIsRunnable
  <2>4. Runnable(tasks') => PageOrder(tasks') = WorkerOrder(tasks')
    BY <2>1, RunnableIsGrounded, PageOrderIsTheWorkers
  <2>5. ASSUME ~overtaken'.ever, NEW i \in DOMAIN tasks' PROVE CardSource(tasks'[i]) = tasks'[i].type
    BY <2>1, <2>5 DEF Sourced, CardSource
  <2> QED
    BY <2>3, <2>4, <2>5
<1> QED
  BY <1>1, <1>2, InitTasks, PTL DEF TaskSpec, TasksRunAsListed
==============================================================================
