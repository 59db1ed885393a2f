------------------------------ MODULE RunShape ------------------------------
(****************************************************************************)
(* How the run page draws the rows of RunGraph: a card per task, with its   *)
(* attempts (attempts.ts, TaskRunCard), a lane per task of the timeline     *)
(* (TaskTimeline), and the dependency graph coloured by status (DagGraph).  *)
(* Rows come in the order of their ids.  Widths, labels and durations are   *)
(* left out, and so are, in a lane, rows cancelled while they executed:     *)
(* RunGraph does not tell them from rows that never started.                *)
(****************************************************************************)
EXTENDS RunGraph

GATE_STATUSES == {"awaiting_approval", "approved", "rejected"}
IsGateRow(row) == row.status \in GATE_STATUSES

\* Segment first, then the attempt within it, then the id.
ByAttempt(t, i, j) ==
  LET p == rows[t][i]
      q == rows[t][j]
  IN \/ p.seg < q.seg
     \/ p.seg = q.seg /\ (p.attempt < q.attempt \/ (p.attempt = q.attempt /\ i < j))

LastOf(t, S) == CHOOSE i \in S : \A j \in S \ {i} : ByAttempt(t, j, i)

\* One task's rows: executions and decisions.
AttemptsOf(t) == {i \in DOMAIN rows[t] : ~IsGateRow(rows[t][i])}
GatesOf(t) == DOMAIN rows[t] \ AttemptsOf(t)

\* A segment is named once the task ran in a later one: attempts start again there.
Label(t, i) ==
  IF rows[t][i].seg > 0 THEN <<"resume", rows[t][i].seg, rows[t][i].attempt>>
  ELSE <<"attempt", rows[t][i].attempt>>

-----------------------------------------------------------------------------
(* The card: a badge for what the task ended as, whichever attempt is      *)
(* looked at.                                                              *)

Shown(t) == Len(rows[t]) > 0
CardRows(t) == IF AttemptsOf(t) # {} THEN AttemptsOf(t) ELSE GatesOf(t)
FinalOf(t) == rows[t][LastOf(t, CardRows(t))]

-----------------------------------------------------------------------------
(* The lane: a bar per execution and per gate, and between executions the  *)
(* wait for a retry.                                                       *)

IsLive(t, i) == rows[t][i].status = "running"
Executions(t) == {i \in AttemptsOf(t) : rows[t][i].status \in {"running", "success", "failed"}}
Waits(t) ==
  {w \in Executions(t) \X Executions(t) :
     ByAttempt(t, w[1], w[2]) /\ \A i \in Executions(t) : ~(ByAttempt(t, w[1], i) /\ ByAttempt(t, i, w[2]))}
Bars(t) == {[row |-> i, gate |-> i \in GatesOf(t), live |-> IsLive(t, i),
             name |-> IF i \in Executions(t) /\ Cardinality(Executions(t)) > 1 THEN Label(t, i) ELSE <<>>] :
            i \in Executions(t) \cup GatesOf(t)}

-----------------------------------------------------------------------------
(* The graph: a task's column is one past its deepest dependency.          *)

Column[t \in Task] ==
  IF Deps[t] = {} THEN 0
  ELSE LET deepest == CHOOSE d \in Deps[t] : \A e \in Deps[t] : Column[e] <= Column[d]
       IN  1 + Column[deepest]

\* The page sorts a task's rows by attempt alone before it keeps the last one.
GraphStatus(t) ==
  LET last == CHOOSE i \in DOMAIN rows[t] :
                \A j \in DOMAIN rows[t] \ {i} :
                  \/ rows[t][j].attempt < rows[t][i].attempt
                  \/ rows[t][j].attempt = rows[t][i].attempt /\ j < i
  IN IF Shown(t) THEN rows[t][last].status ELSE "none"

Edges == {[from |-> e[1], to |-> e[2], span |-> Column[e[2]] - Column[e[1]],
           active |-> GraphStatus(e[2]) = "running", done |-> GraphStatus(e[1]) = "success"] :
          e \in {e \in Task \X Task : e[1] \in Deps[e[2]]}}

-----------------------------------------------------------------------------
\* The order by attempt alone goes wrong: attempts start again at a resume, and
\* an earlier segment got further with the task than the last one did.
Relapsed(t) ==
  \E i \in DOMAIN rows[t] : rows[t][i].seg < FinalOf(t).seg /\ rows[t][i].attempt > FinalOf(t).attempt

(****************************************************************************)
(* A live bar, with its comet and its growing duration, is the last of its  *)
(* lane: whoever is killed, cancelled or resumed, an attempt begins only    *)
(* once the one before it was settled, so the wait drawn between two of     *)
(* them starts where the first one ended; no two bars have one name         *)
(* (App.tsx, TaskTimeline); and through every resume the graph, which       *)
(* orders the rows by attempt alone (RunDetail), colours a task that was    *)
(* attempted as its card does (TaskRunCard), unless it relapsed.            *)
(****************************************************************************)
SurfacesAgree ==
  \A t \in Task :
    /\ \A w \in Waits(t) : ~IsLive(t, w[1])
    /\ \A b, c \in Bars(t) : b.name # <<>> /\ b.name = c.name => b = c
    /\ (Shown(t) /\ FinalOf(t).attempt > 0 /\ ~Relapsed(t)) =>
         GraphStatus(t) = FinalOf(t).status
=============================================================================
