------------------------------ MODULE MCEditors ------------------------------
(* Small instances of the browser's forms that edit a workflow, its tasks, its  *)
(* schedule and a service's windows, and of the calendar they count in:         *)
(* `editing` says which one a behaviour is of; the others are shut.             *)
EXTENDS WorkflowEditor, TaskEditor, ServiceWindows, ScheduleBuilder

VARIABLE editing

Editors == {"run_form", "workflow", "tasks", "windows", "walk", "schedule"}

\* Days of six units; the clock moves two of them in the middle of day 4.
Forth == [jump |-> 26, before |-> 0, after |-> 2]
Back  == [jump |-> 26, before |-> 2, after |-> 0]
MCZones == {Forth, Back}

\* A schedule with a drag just begun; the others have nothing open.
RunFormRest ==
  /\ wfForm = <<>> /\ pageForm = wfForm /\ formRead = NoRead /\ formDay = 2
  /\ runDialog = NoDialog /\ posted = NoPost /\ started = NoneStarted /\ fills = 0 /\ saves = 0
EditorRest ==
  /\ flow = [form |-> <<>>, lock |-> NoLock, scheduled |-> FALSE] /\ pageFlow = flow
  /\ locks = [o \in Other |-> NoLock] /\ editor = Closed /\ toast = "none" /\ changes = 0 /\ otherSaves = 0
TasksRest == tasks = <<>> /\ TaskInit
WindowsRest == windows = <<>> /\ drag = [row |-> 0, from |-> 0, to |-> 0] /\ zone = Forth
WalkRest    == cron = Manual /\ cronZone = Forth /\ cursor = 0
ScheduleRest ==
  /\ stored = Schedule(Manual, NoZone) /\ form = Opened(stored) /\ formZone = OpenedZone(stored)
  /\ touched = FALSE /\ edits = 0

\* One field of words, a hint from the calendar beside a value to ask for; a parameter that changes its type.
Parameter(name, type, default, choices, required) ==
  [name |-> name, type |-> type, help |-> "", default |-> default, choices |-> choices, required |-> required]
MCForms ==
  {<<Parameter("ds", "date", "yesterday", <<>>, FALSE), Parameter("n", "number", "", <<>>, TRUE)>>,
   <<Parameter("n", "bool", "on", <<>>, TRUE), Parameter("since", "date", "today", <<>>, FALSE)>>,
   <<Parameter("m", "text", "", <<>>, FALSE)>>}
MCText == STRING
MCDayText == <<"d1", "d2", "d3">>
MCAlike == {<<"db", "bd">>, <<"bd", "db">>}
MCOptionLists == {<<"x">>, <<"x", "x">>, <<"x", "5">>}

\* The editor opens with or without a lock of its own, beside one alike.
EditorStart ==
  /\ EditorInit /\ ~flow.scheduled
  /\ flow.lock = IF flow.form[1].name = "ds" THEN NoLock ELSE [resource |-> "db", mode |-> "exclusive"]
  /\ \A o \in Other : locks[o] = [resource |-> "bd", mode |-> "shared"]

\* Two steps, and what others make of them.
Step(name, after, type) == [name |-> name, after |-> after, type |-> type, source |-> {type}]
MCOthersTasks == {Step("a", {"b"}, "shell"), Step("c", {"a"}, "sql")}
TaskStart == tasks = <<Step("a", {}, "shell"), Step("b", {}, "shell")>> /\ TaskInit

MCCronFields ==
  {e \in [minute : {Wild, {Num(0)}, {Every(2)}}, hour : {Wild, {Every(1)}, {Num(1)}, {Num(0), Num(1)}, {Span(0, 1)}},
          dom : {Wild, {Num(2)}}, month : {Wild, {Num(2)}}, dow : {Wild, {Num(1)}, {Num(1), Num(3)}}] : Reads(e)}
MCWalkFrom == 14 .. 31

At(hours, dom, month, dow) == Expression({Num(1)}, hours, dom, month, dow)
MCStoredCrons ==
  {At({Num(0), Num(1)}, Wild, Wild, {Num(1)}), At({Num(1)}, {Num(4)}, Wild, Wild), At({Num(1)}, {Num(2)}, {Num(2)}, Wild),
   At({Num(1)}, Wild, Wild, {Num(1), Num(3)}), At({Num(1)}, Wild, Wild, {Num(0), Num(2)}), At({Num(1)}, {Num(2)}, Wild, Wild),
   At({Span(0, 1)}, Wild, Wild, Wild), At({Num(0)}, Wild, Wild, Wild), At({Every(1)}, Wild, Wild, Wild), At(Wild, Wild, Wild, Wild),
   Expression({Every(2)}, Wild, Wild, Wild, Wild), Expression(Wild, Wild, Wild, Wild, {Span(0, 1)})}
MCTypedCrons == {At({Num(0), Num(1)}, Wild, Wild, {Num(1)}), At({Num(1)}, {Num(1)}, Wild, {Num(0)})}

Init ==
  /\ editing \in Editors
  /\ IF editing = "run_form" THEN RunFormInit ELSE RunFormRest
  /\ IF editing = "workflow" THEN EditorStart ELSE EditorRest
  /\ IF editing = "tasks" THEN TaskStart ELSE TasksRest
  /\ IF editing = "windows" THEN WindowsInit ELSE WindowsRest
  /\ IF editing = "walk" THEN WalkInit ELSE WalkRest
  /\ IF editing = "schedule" THEN FormInit ELSE ScheduleRest

editingVars == <<editing, runFormVars, editorVars, taskVars, windowVars, walkVars, formVars>>

Keep(p, vars) == editing # p => UNCHANGED vars

Next ==
  /\ UNCHANGED editing
  /\ \/ editing = "run_form" /\ RunFormNext
     \/ editing = "workflow" /\ EditorNext
     \/ editing = "tasks" /\ TaskNext
     \/ editing = "windows" /\ WindowsNext
     \/ editing = "walk" /\ WalkNext
     \/ editing = "schedule" /\ FormNext
  /\ Keep("run_form", runFormVars)
  /\ Keep("workflow", editorVars)
  /\ Keep("tasks", taskVars)
  /\ Keep("windows", windowVars)
  /\ Keep("walk", walkVars)
  /\ Keep("schedule", formVars)

Spec == Init /\ [][Next]_editingVars
=============================================================================
