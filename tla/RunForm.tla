------------------------------- MODULE RunForm -------------------------------
(***************************************************************************)
(* A workflow's run form (runForms.ts, RunForm.tsx and run_parameters.py):  *)
(* "Run now", "Run with" and "Backfill" of the workflow page ask for the    *)
(* values of a run, and the server checks them against the form as it is    *)
(* by then: others save it, midnight passes, and the page's own read of it  *)
(* lands under an open dialog.  A value is a token: text, a number, a date, *)
(* or on and off for yes and no; a parameter's label and help are one text, *)
(* and the JSON box of undeclared values is left out.                       *)
(***************************************************************************)
EXTENDS Integers, Sequences, FiniteSets, SequencesExt

CONSTANTS Text,       \* whatever a name, a default, an option or a value can be
          TooLong,    \* the texts longer than the server takes
          Form,       \* the run forms that others save: sequences of parameters
          Words,      \* what is typed into a text field
          Numbers,    \* the words that are numbers
          DayText,    \* the dates, in order: a sequence
          MaxFills,   \* bound: fields filled in
          MaxSaves    \* bound: forms saved by others

Empty    == ""
Relative == {"today", "yesterday"}
Dates    == Range(DayText)
Flags    == {"on", "off"}
ParameterTypes == {"text", "number", "bool", "date", "choice"}
ParameterRow ==
  [name : Text, type : ParameterTypes, help : Text, default : Text, choices : Seq(Text),
   required : BOOLEAN]

ASSUME RunFormAssumption ==
  /\ Form \subseteq Seq(ParameterRow) /\ TooLong \subseteq Text \ {Empty} /\ Words \cup Relative \cup Flags \cup {Empty} \subseteq Text
  /\ Numbers \subseteq Words /\ DayText \in Seq(Text) /\ Len(DayText) > 2 /\ {MaxFills, MaxSaves} \subseteq Nat

VARIABLES
    wfForm,     \* the form the server has
    pageForm,   \* the one the page read
    formRead,   \* the page's read under way
    formDay,        \* today, on the workflow's calendar
    runDialog,  \* the dialog open on the page, and its fields
    posted,     \* the request for a run under way, with what was shown
    started,    \* the runs the last one queued, by their day
    fills, saves

runFormVars == <<wfForm, pageForm, formRead, formDay, runDialog, posted, started, fills, saves>>

NoRead   == [at |-> "none", form |-> <<>>]
NoDialog == [kind |-> "none", values |-> <<>>]
NoPost   == [kind |-> "none", sent |-> <<>>, shown |-> <<>>, form |-> <<>>, days |-> {}]
NoneStarted   == [kind |-> "none", shown |-> <<>>, form |-> <<>>, served |-> <<>>, runs |-> <<>>]

Names(form) == {form[i].name : i \in DOMAIN form}
Entry(form, name) == form[CHOOSE i \in DOMAIN form : form[i].name = name]
OnDay(default, d) ==
  CASE default = "today" -> DayText[d] [] default = "yesterday" -> DayText[d - 1] [] OTHER -> default

(* -------------------------------- the server ----------------------------- *)
Converts(p, value) ==
  CASE p.type = "text"   -> value \notin TooLong
    [] p.type = "number" -> value \in Numbers
    [] p.type = "bool"   -> value \in Flags
    [] p.type = "date"   -> value \in Dates
    [] p.type = "choice" -> value \in Range(p.choices)

NeedsValue(form) == {n \in Names(form) : Entry(form, n).required /\ Entry(form, n).default = Empty}

\* resolve: given values converted, missing ones their default, the rest as they came.
Resolvable(form, given) ==
  /\ \A n \in DOMAIN given \cap Names(form) : given[n] # Empty => Converts(Entry(form, n), given[n])
  /\ \A n \in NeedsValue(form) : n \in DOMAIN given /\ given[n] # Empty

Resolve(form, given, d) ==
  LET said    == {n \in DOMAIN given : n \in Names(form) => given[n] # Empty}
      default == {n \in Names(form) \ said : Entry(form, n).default # Empty}
  IN  [n \in said \cup default |-> IF n \in said THEN given[n] ELSE OnDay(Entry(form, n).default, d)]

(* -------------------------------- the fields ----------------------------- *)
InitialValue(p, d) ==
  IF p.type = "bool" THEN IF p.default = "on" THEN "on" ELSE "off"
  ELSE IF p.type = "date" THEN OnDay(p.default, d) ELSE p.default

\* In a backfill the date comes from the backfill, and a default is only a hint.
BlankValue(p) == IF p.type = "bool" THEN InitialValue(p, formDay) ELSE Empty

FieldsOf(kind, form) == Names(form) \ (IF kind = "backfill" THEN {"ds"} ELSE {})
Fields == FieldsOf(runDialog.kind, pageForm)
Field(n) == Entry(pageForm, n)

\* What a field shows of the dialog's values, whatever its type was when it was filled in.
Held(p) ==
  LET value == IF p.name \in DOMAIN runDialog.values THEN runDialog.values[p.name] ELSE Empty
  IN  IF p.type = "bool" THEN IF value = "on" THEN "on" ELSE "off"
      ELSE IF value \in Flags THEN Empty ELSE value

\* collect, and the `required` of the inputs: the first problem keeps the form open.
Problem(p) ==
  IF Held(p) = Empty THEN p.required /\ p.default = Empty
  ELSE \/ p.type = "number" /\ Held(p) \notin Numbers
       \/ p.type = "date" /\ Held(p) \notin Dates
       \/ p.type = "choice" /\ Held(p) \notin Range(p.choices)

Shown == [n \in Fields |-> Held(Field(n))]

\* Mutant of Collected: only what differs from the default is sent.
CollectedIfChanged ==
  LET Changed == {n \in Fields : Shown[n] \notin {Empty, InitialValue(Field(n), formDay)}}
  IN  [n \in Changed |-> Shown[n]]
Collected == [n \in {m \in Fields : Shown[m] # Empty} |-> Shown[n]]
NeedsAsking(form) == NeedsValue(form)

(* ------------------------------- the actions ----------------------------- *)
RunFormInit ==
  /\ wfForm \in Form /\ pageForm = wfForm /\ formRead = NoRead /\ formDay = 2
  /\ runDialog = NoDialog /\ posted = NoPost /\ started = NoneStarted /\ fills = 0 /\ saves = 0

SaveElsewhere(form) ==
  /\ saves < MaxSaves /\ saves' = saves + 1
  /\ wfForm' = form
  /\ UNCHANGED <<pageForm, formRead, formDay, runDialog, posted, started, fills>>

Midnight ==
  /\ formDay < Len(DayText) /\ formDay' = formDay + 1
  /\ UNCHANGED <<wfForm, pageForm, formRead, runDialog, posted, started, fills, saves>>

\* load, asked for by whatever else was done on the page.
LoadForm ==
  /\ formRead = NoRead /\ runDialog = NoDialog
  /\ formRead' = [at |-> "asked", form |-> <<>>]
  /\ UNCHANGED <<wfForm, pageForm, formDay, runDialog, posted, started, fills, saves>>

AnswerForm ==
  /\ formRead.at = "asked"
  /\ formRead' = [at |-> "answered", form |-> wfForm]
  /\ UNCHANGED <<wfForm, pageForm, formDay, runDialog, posted, started, fills, saves>>

LandForm ==
  /\ formRead.at = "answered"
  /\ pageForm' = formRead.form /\ formRead' = NoRead
  /\ UNCHANGED <<wfForm, formDay, runDialog, posted, started, fills, saves>>

OpenForm(kind) ==
  /\ runDialog = NoDialog /\ posted = NoPost
  /\ runDialog' = [kind |-> kind, values |->
       [n \in FieldsOf(kind, pageForm) |-> IF kind = "backfill" THEN BlankValue(Field(n)) ELSE InitialValue(Field(n), formDay)]]
  /\ UNCHANGED <<wfForm, pageForm, formRead, formDay, posted, started, fills, saves>>

\* What a field of each type can be made to hold.
Fillable(p) ==
  CASE p.type = "text"   -> Words \cup {Empty}
    [] p.type = "number" -> Numbers \cup {Empty}
    [] p.type = "bool"   -> Flags
    [] p.type = "date"   -> Dates \cup {Empty}
    [] p.type = "choice" -> Range(p.choices) \cup {Empty}

Fill(n, value) ==
  /\ posted = NoPost /\ fills < MaxFills /\ fills' = fills + 1
  /\ value \in Fillable(Field(n)) \ {Held(Field(n))}
  /\ runDialog' = [runDialog EXCEPT !.values =
       [m \in DOMAIN @ \cup {n} |-> IF m = n THEN value ELSE @[m]]]
  /\ UNCHANGED <<wfForm, pageForm, formRead, formDay, posted, started, saves>>

CloseForm ==
  /\ runDialog # NoDialog /\ runDialog' = NoDialog
  /\ UNCHANGED <<wfForm, pageForm, formRead, formDay, posted, started, fills, saves>>

Post(kind, sent, seen, days) ==
  /\ posted = NoPost
  /\ posted' = [kind |-> kind, sent |-> sent, shown |-> seen, form |-> pageForm, days |-> days]
  /\ UNCHANGED <<wfForm, pageForm, formRead, formDay, runDialog, started, fills, saves>>

\* runNow: without a dialog, unless somebody has to be asked.
RunNow ==
  /\ runDialog = NoDialog
  /\ IF NeedsAsking(pageForm) # {} THEN OpenForm("run") ELSE Post("now", <<>>, <<>>, {formDay})

\* submit: a run for today, or one for each day of a backfill.
Submit ==
  /\ runDialog # NoDialog /\ \A n \in Fields : ~Problem(Field(n))
  /\ IF runDialog.kind = "run" THEN Post("run", Collected, Shown, {formDay})
     ELSE \E first, last \in DOMAIN DayText \ {1} :
            first <= last /\ Post("backfill", Collected, Shown, first .. last)

\* create_run on the day it is served, create_backfill for the days asked for; or a refusal.
Given(d) ==
  IF posted.kind = "backfill"
  THEN [n \in DOMAIN posted.sent \cup {"ds"} |-> IF n = "ds" THEN DayText[d] ELSE posted.sent[n]]
  ELSE posted.sent

ServeRun ==
  LET days == IF posted.kind = "backfill" THEN posted.days ELSE {formDay}
  IN  /\ posted # NoPost /\ posted' = NoPost
      /\ IF \A d \in days : Resolvable(wfForm, Given(d))
         THEN /\ started' = [kind |-> posted.kind, shown |-> posted.shown, form |-> posted.form, served |-> wfForm,
                             runs |-> [d \in days |-> Resolve(wfForm, Given(d), d)]]
              /\ runDialog' = NoDialog
         ELSE started' = NoneStarted /\ UNCHANGED runDialog
      /\ UNCHANGED <<wfForm, pageForm, formRead, formDay, fills, saves>>

RunFormNext ==
  \/ \E form \in Form : SaveElsewhere(form)
  \/ Midnight \/ LoadForm \/ AnswerForm \/ LandForm
  \/ \E kind \in {"run", "backfill"} : OpenForm(kind)
  \/ runDialog # NoDialog /\ \E n \in Fields : \E value \in Fillable(Field(n)) : Fill(n, value)
  \/ CloseForm \/ RunNow \/ Submit \/ ServeRun

RunFormSpec == RunFormInit /\ [][RunFormNext]_runFormVars

(***************************************************************************)
(* A run starts with what was on the screen when it was asked for, whatever *)
(* became of the form, of the page's copy of it or of the day since -- also *)
(* a default of "yesterday", which the field shows as a date -- and in a    *)
(* backfill, where a default is only a hint, one that was left alone counts *)
(* "from each backfilled day" (App.tsx, BackfillModal; crud.py).            *)
(***************************************************************************)
RunsAsShown ==
  \A d \in DOMAIN started.runs : \A n \in DOMAIN started.shown :
    LET p == Entry(started.form, n)
    IN  /\ started.shown[n] # Empty => n \in DOMAIN started.runs[d] /\ started.runs[d][n] = started.shown[n]
        /\ started.kind = "backfill" /\ p.default \in Relative /\ started.shown[n] = Empty /\ started.served = started.form
             => started.runs[d][n] = OnDay(p.default, d)
=============================================================================
