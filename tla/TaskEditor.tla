------------------------------ MODULE TaskEditor ------------------------------
(***************************************************************************)
(* The tasks of a workflow as its page lists and edits them (App.tsx,       *)
(* WorkflowDetail, TaskModal, EditTaskModal), the server's handlers, which  *)
(* check names and dependencies, and the order in which a worker will take  *)
(* the tasks.  A task depends on names, so a rename rewrites its siblings;  *)
(* the modal's boxes are kept by the browser, by task, while the page's     *)
(* list is read again under them.  A handler reads the rows and checks in   *)
(* one step and commits in a later one, onto what the rows are by then.     *)
(***************************************************************************)
EXTENDS Naturals, Sequences, FiniteSets, SequencesExt

CONSTANTS TaskId,        \* ids, which grow
          TaskName,
          TaskType,      \* "shell", which has a command, and types that have a file
          OthersTasks,   \* the tasks others submit
          MaxBoxes,      \* bound: changes made in a modal
          MaxTaskReads,  \* bound: reads of the list under way
          MaxTaskWrites  \* bound: requests that write

\* The others submit what the page does: a row says what to run once.
ASSUME TaskAssumption ==
  /\ TaskId \subseteq Nat /\ "shell" \in TaskType
  /\ \A t \in OthersTasks : t.source = {t.type}
  /\ {MaxBoxes, MaxTaskReads, MaxTaskWrites} \subseteq Nat

VARIABLES tasks,      \* the server's rows, by id
          pageTasks,  \* the ones the page read
          taskAsks, listings,  \* reads sent, and answers that have not landed
          modal,      \* the modal open on the page
          taskCall,   \* its request under way
          othersCall, \* somebody else's, read and not yet committed
          overtaken,  \* history: of the last commit and of any, others wrote since it read
          boxed, taskWrites

serverVars == <<tasks, othersCall, overtaken>>
taskVars == <<tasks, pageTasks, taskAsks, listings, modal, taskCall, othersCall, overtaken, boxed, taskWrites>>

\* `source` is the fields of the row that are filled, by the type they are for.
TaskRow == [name : TaskName, after : SUBSET TaskName, type : TaskType, source : SUBSET TaskType]
\* What a request may submit.
Task == {t \in TaskRow : t.type \in t.source /\ t.name \notin t.after}

NoModal == [kind |-> "none"]
NoCall  == [phase |-> "none"]

NamesOf(ts) == {ts[i].name : i \in DOMAIN ts}
\* In the order of their ids.
Ascending(ids) ==
  CHOOSE seq \in [1 .. Cardinality(ids) -> ids] :
    Range(seq) = ids /\ \A j, k \in DOMAIN seq : j < k => seq[j] < seq[k]

(* ------------------------------- the orders ------------------------------ *)
Rest(ts, placed) == DOMAIN ts \ Range(placed)
Placed(ts, placed) == {ts[i].name : i \in Range(placed)}

\* topological_tasks: round by round; short of tasks if it raises.
WorkerReady(ts, placed) == {i \in Rest(ts, placed) : ts[i].after \subseteq Placed(ts, placed)}
WorkerOrder(ts) ==
  LET round[k \in 0 .. Cardinality(DOMAIN ts)] ==
        IF k = 0 THEN <<>> ELSE LET placed == round[k - 1] IN placed \o Ascending(WorkerReady(ts, placed))
  IN  round[Cardinality(DOMAIN ts)]

\* topologicallyOrdered, which passes over what it does not know and shows the rest as it is.
PageReady(ts, placed) ==
  LET ready == {i \in Rest(ts, placed) : ts[i].after \cap NamesOf(ts) \subseteq Placed(ts, placed)}
  IN  IF ready = {} THEN Rest(ts, placed) ELSE ready
PageOrder(ts) ==
  LET round[k \in 0 .. Cardinality(DOMAIN ts)] ==
        IF k = 0 THEN <<>> ELSE LET placed == round[k - 1] IN placed \o Ascending(PageReady(ts, placed))
  IN  round[Cardinality(DOMAIN ts)]

Runnable(ts) == Range(WorkerOrder(ts)) = DOMAIN ts

\* A task's card shows its command if it has one.
CardSource(t) == IF "shell" \in t.source THEN "shell" ELSE CHOOSE type \in t.source : TRUE

(* ------------------------------- the server ------------------------------ *)
GraphOf(ts) == [name \in NamesOf(ts) |-> UNION {ts[i].after : i \in {j \in DOMAIN ts : ts[j].name = name}}]

\* What has_cycle walks from a name: all it depends on, and all they depend on.
Deps(graph, name) == IF name \in DOMAIN graph THEN graph[name] ELSE {}
Needs(graph, name) ==
  {n \in TaskName :
     \A set \in SUBSET TaskName :
       Deps(graph, name) \subseteq set /\ (\A m \in set : Deps(graph, m) \subseteq set) => n \in set}

\* _validate_dependencies, against the siblings: no cycle is reached from the task.
DependenciesHold(siblings, t) ==
  LET others == GraphOf(siblings)
      graph  == [n \in DOMAIN others \cup {t.name} |-> IF n = t.name THEN t.after ELSE others[n]]
  IN  /\ t.after \subseteq DOMAIN graph
      /\ \A n \in {t.name} \cup Needs(graph, t.name) : n \notin Needs(graph, n)

Without(ts, id) == [i \in DOMAIN ts \ {id} |-> ts[i]]

\* Mutant of Repointed: the siblings keep the name they had.
KeepsOldName(ts, old, new) == ts
\* "Keep sibling dependencies pointing at the renamed task."
Repointed(ts, old, new) ==
  [i \in DOMAIN ts |-> [ts[i] EXCEPT !.after = IF old \in @ THEN (@ \ {old}) \cup {new} ELSE @]]

\* A row beside the others, or in the place of one.
With(ts, id, t) == [i \in DOMAIN ts \cup {id} |-> IF i = id THEN t ELSE ts[i]]
NewId == {i \in TaskId : \A j \in DOMAIN tasks : j < i}

\* create_task, update_task and delete_task: what they check on the rows they read.
Admitted(call, rows) ==
  CASE call.kind = "add"    -> call.body \in Task /\ DependenciesHold(rows, call.body)
    [] call.kind = "edit"   -> /\ call.body \in Task /\ call.id \in DOMAIN rows
                               /\ DependenciesHold(Without(rows, call.id), call.body)
    [] OTHER                -> call.id \in DOMAIN rows

\* The rows as the handler's session has them, of the ones it read.
Session(call) ==
  LET read == call.rows
      id   == call.id
  IN  CASE call.kind = "add"    -> read
        [] call.kind = "edit"   -> With(Repointed(Without(read, id), read[id].name, call.body.name), id, call.body)
        [] OTHER                -> [i \in DOMAIN read \ {id} |-> [read[i] EXCEPT !.after = @ \ {read[id].name}]]

\* An UPDATE sets the columns the session changed, on the row as it is now.
MergedTask(now, read, row) ==
  [name   |-> IF row.name = read.name THEN now.name ELSE row.name,
   after  |-> IF row.after = read.after THEN now.after ELSE row.after,
   type   |-> IF row.type = read.type THEN now.type ELSE row.type,
   source |-> (now.source \ (read.source \ row.source)) \cup (row.source \ read.source)]

\* save and commit: none if a row to update is gone, or a name is taken by now.
Flushed(call) ==
  LET session == Session(call)
      changed == {i \in DOMAIN session : session[i] # call.rows[i]}
      kept    == DOMAIN tasks \ (DOMAIN call.rows \ DOMAIN session)
      updated == [i \in kept |-> IF i \in changed THEN MergedTask(tasks[i], call.rows[i], session[i]) ELSE tasks[i]]
      needed  == changed \cup (IF call.kind = "edit" THEN {call.id} ELSE {})
  IN  IF call.kind = "add" THEN {With(tasks, i, call.body) : i \in NewId}
      ELSE IF needed \subseteq DOMAIN tasks THEN {updated} ELSE {}
Committed(call) == {ts \in Flushed(call) : IsInjective([i \in DOMAIN ts |-> ts[i].name])}

Write(call, ts) ==
  /\ tasks' = ts
  /\ overtaken' = [last |-> call.rows # tasks, ever |-> overtaken.ever \/ call.rows # tasks]

\* A request of somebody else, when it is not refused.
OthersAsk(kind, id, t) ==
  LET call == [phase |-> "checked", kind |-> kind, id |-> id, body |-> t, rows |-> tasks]
  IN  /\ othersCall = NoCall /\ taskWrites < MaxTaskWrites /\ taskWrites' = taskWrites + 1
      /\ Admitted(call, tasks) /\ othersCall' = call
      /\ UNCHANGED <<tasks, overtaken, pageTasks, taskAsks, listings, modal, taskCall, boxed>>
OthersCommit ==
  /\ othersCall # NoCall /\ othersCall' = NoCall
  /\ \/ \E ts \in Committed(othersCall) : Write(othersCall, ts)
     \/ Committed(othersCall) = {} /\ UNCHANGED <<tasks, overtaken>>
  /\ UNCHANGED <<pageTasks, taskAsks, listings, modal, taskCall, boxed, taskWrites>>

(* -------------------------------- the page ------------------------------- *)
\* load, without the reads beyond the bound.
Reloaded == IF taskAsks + Cardinality(listings) < MaxTaskReads THEN taskAsks + 1 ELSE taskAsks

TaskInit ==
  /\ \E ids \in SUBSET TaskId : IsFiniteSet(ids) /\ tasks \in [ids -> {t \in Task : t.source = {t.type}}]
  /\ Cardinality(NamesOf(tasks)) = Cardinality(DOMAIN tasks) /\ Runnable(tasks)
  /\ pageTasks = tasks /\ taskAsks = 0 /\ listings = {}
  /\ modal = NoModal /\ taskCall = NoCall /\ boxed = 0 /\ taskWrites = 0
  /\ othersCall = NoCall /\ overtaken = [last |-> FALSE, ever |-> FALSE]

LoadTasks ==
  /\ taskAsks' = Reloaded /\ taskAsks' # taskAsks
  /\ UNCHANGED <<serverVars, pageTasks, listings, modal, taskCall, boxed, taskWrites>>

AnswerTasks ==
  /\ taskAsks > 0 /\ taskAsks' = taskAsks - 1 /\ listings' = listings \cup {tasks}
  /\ UNCHANGED <<serverVars, pageTasks, modal, taskCall, boxed, taskWrites>>

\* The boxes of tasks that left go with them; a new one is ticked as the row says the modal opened on.
LandTasks(ts) ==
  /\ ts \in listings /\ listings' = listings \ {ts} /\ pageTasks' = ts
  /\ modal' = IF modal = NoModal THEN modal
              ELSE [modal EXCEPT !.ticked = (@ \cap DOMAIN ts) \cup {i \in DOMAIN ts \ DOMAIN pageTasks : ts[i].name \in modal.row.after}]
  /\ UNCHANGED <<serverVars, taskAsks, taskCall, boxed, taskWrites>>

LoseTasks ==
  /\ taskAsks > 0 /\ taskAsks' = taskAsks - 1
  /\ UNCHANGED <<serverVars, pageTasks, listings, modal, taskCall, boxed, taskWrites>>

OpenModal(kind, row, id) ==
  /\ modal = NoModal
  /\ modal' = [kind |-> kind, id |-> id, row |-> row, name |-> row.name, type |-> row.type, file |-> row.type # "shell",
               ticked |-> {i \in DOMAIN pageTasks \ {id} : pageTasks[i].name \in row.after}]
  /\ UNCHANGED <<serverVars, pageTasks, taskAsks, listings, taskCall, boxed, taskWrites>>

NewTask(name) == OpenModal("add", [name |-> name, after |-> {}, type |-> "shell", source |-> {}], 0)
EditTask(id)  == id \in DOMAIN pageTasks /\ OpenModal("edit", pageTasks[id], id)

EditModal(to) ==
  /\ modal # NoModal /\ boxed < MaxBoxes /\ boxed' = boxed + 1
  /\ modal' = to
  /\ UNCHANGED <<serverVars, pageTasks, taskAsks, listings, taskCall, taskWrites>>

TypeTaskName(name) == EditModal([modal EXCEPT !.name = name])
Tick(id) ==
  id \in DOMAIN pageTasks \ {modal.id} /\ EditModal([modal EXCEPT !.ticked = IF id \in @ THEN @ \ {id} ELSE @ \cup {id}])
SwitchType(type)   == EditModal([modal EXCEPT !.type = type, !.file = FALSE])
PickFile           == modal.type # "shell" /\ EditModal([modal EXCEPT !.file = TRUE])

CloseModal ==
  /\ modal # NoModal /\ modal' = NoModal
  /\ UNCHANGED <<serverVars, pageTasks, taskAsks, listings, taskCall, boxed, taskWrites>>

\* submit: all the sources, so that none is left behind when the type changes.
SubmittedTask ==
  [name |-> modal.name, type |-> modal.type, after |-> {pageTasks[i].name : i \in modal.ticked},
   source |-> IF modal.type = "shell" \/ modal.file THEN {modal.type} ELSE {}]

SendTask(call) ==
  /\ taskCall = NoCall /\ taskWrites < MaxTaskWrites /\ taskWrites' = taskWrites + 1
  /\ taskCall' = call
  /\ UNCHANGED <<serverVars, pageTasks, taskAsks, listings, modal, boxed>>

SubmitTask == modal # NoModal /\ SendTask([phase |-> "sent", kind |-> modal.kind, id |-> modal.id, body |-> SubmittedTask])
RemoveTask(id) ==
  modal = NoModal /\ id \in DOMAIN pageTasks /\ SendTask([phase |-> "sent", kind |-> "remove", id |-> id, body |-> pageTasks[id]])

\* The handler reads the rows and checks.  A delete is refused too while a run
\* executes; the runs parked on its gate, which it cancels, are not this module's.
CheckTask ==
  /\ taskCall.phase = "sent"
  /\ \/ /\ Admitted(taskCall, tasks)
        /\ taskCall' = [phase |-> "checked", kind |-> taskCall.kind, id |-> taskCall.id, body |-> taskCall.body,
                        rows |-> tasks]
     \/ /\ ~Admitted(taskCall, tasks) \/ taskCall.kind = "remove"
        /\ taskCall' = [phase |-> "failed"]
  /\ UNCHANGED <<serverVars, pageTasks, listings, taskAsks, modal, boxed, taskWrites>>

CommitTask ==
  /\ taskCall.phase = "checked"
  /\ \/ /\ \E ts \in Committed(taskCall) : Write(taskCall, ts)
        /\ taskCall' = [phase |-> IF taskCall.kind = "remove" THEN "removed" ELSE "done"]
     \/ /\ Committed(taskCall) = {} /\ taskCall' = [phase |-> "failed"]
        /\ UNCHANGED <<tasks, overtaken>>
  /\ UNCHANGED <<othersCall, pageTasks, taskAsks, listings, modal, boxed, taskWrites>>

\* done() shuts the modal, whichever is open by now, and loads; a refusal is a toast.
TaskReply ==
  /\ taskCall.phase \in {"done", "removed", "failed"} /\ taskCall' = NoCall
  /\ modal' = IF taskCall.phase = "done" THEN NoModal ELSE modal
  /\ taskAsks' = IF taskCall.phase = "failed" THEN taskAsks ELSE Reloaded
  /\ UNCHANGED <<serverVars, pageTasks, listings, boxed, taskWrites>>

TaskNext ==
  \/ \E t \in OthersTasks : OthersAsk("add", 0, t) \/ \E id \in DOMAIN tasks : OthersAsk("edit", id, t)
  \/ \E id \in DOMAIN tasks : OthersAsk("remove", id, tasks[id])
  \/ OthersCommit \/ LoadTasks \/ AnswerTasks \/ LoseTasks \/ CloseModal \/ SubmitTask
  \/ CheckTask \/ CommitTask \/ TaskReply
  \/ \E ts \in listings : LandTasks(ts)
  \/ \E name \in TaskName : NewTask(name)
  \/ \E id \in DOMAIN pageTasks : EditTask(id) \/ RemoveTask(id)
  \/ /\ modal # NoModal
     /\ \/ \E name \in TaskName : TypeTaskName(name)
        \/ \E id \in DOMAIN pageTasks : Tick(id)
        \/ \E type \in TaskType : SwitchType(type)
        \/ PickFile

TaskSpec == TaskInit /\ [][TaskNext]_taskVars

(***************************************************************************)
(* Tasks run as they are listed.  "Order tasks the same way the worker      *)
(* will" (App.tsx, topologicallyOrdered): once the page has the tasks, it   *)
(* lists them in the order a run takes them, each with what it runs.  And   *)
(* no request of anybody leaves a graph no run can take, with a dependency  *)
(* unknown or a cycle (routes_workflows.py, _validate_dependencies), but    *)
(* for two the server does not see through: a task that is renamed and made *)
(* to wait for a task that, so far, waits for it; and a request that others *)
(* overtake between its check and its commit, which may also leave a task   *)
(* with the sources of two types.                                           *)
(***************************************************************************)
RenamedOntoDependant ==
  \E i \in DOMAIN tasks \cap DOMAIN tasks' :
    /\ tasks'[i].name # tasks[i].name
    /\ \E d \in tasks'[i].after : tasks[i].name \in Needs(GraphOf(tasks), d)

TasksRunAsListed ==
  [][/\ Runnable(tasks) /\ ~overtaken'.last => Runnable(tasks') \/ RenamedOntoDependant
     /\ pageTasks' = tasks' /\ Runnable(tasks') => PageOrder(pageTasks') = WorkerOrder(tasks')
     /\ pageTasks' = tasks' /\ ~overtaken'.ever =>
          \A i \in DOMAIN pageTasks' : CardSource(pageTasks'[i]) = tasks'[i].type]_taskVars
=============================================================================
