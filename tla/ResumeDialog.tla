---------------------------- MODULE ResumeDialog ----------------------------
(****************************************************************************)
(* The resume dialog (ResumeDialog.tsx): it shows the server's plan for the *)
(* tasks forced to run again, reads it anew at every toggle, and posts the  *)
(* resume, while other people resume the run and edit its workflow.         *)
(****************************************************************************)
EXTENDS Naturals, FiniteSets

CONSTANTS
    PlanTask,       \* the tasks of the run
    MaxClicks,      \* openings of the dialog and clicks in it
    MaxPlanMishaps  \* requests lost, before or after the server answered

ASSUME PlanAssumption == MaxClicks \in Nat /\ MaxPlanMishaps \in Nat

VARIABLES
    failedRun,      \* the server's run is one a resume takes
    succeeded,      \* the tasks that succeeded
    below,          \* the workflow's edges <<upstream, task>>, or "cycle"
    forced,         \* the tasks forced by the user
    plan,           \* the plan on screen, or NoPlan
    planError,      \* the plan could not be read
    covered,        \* "loading", "reloading" or "no"
    planReads,      \* plans asked for
    post,           \* the resume asked for
    opened,         \* the dialog is open
    leftPost,       \* the resume asked for by a dialog closed since
    submitError,    \* the refusal shown
    resumed,        \* resumes the server took from this dialog
    clicks, planMishaps

planVars == <<failedRun, succeeded, below, forced, plan, planError, covered, planReads,
              post, opened, leftPost, submitError, resumed, clicks, planMishaps>>

NoPlan == [of |-> {}, resumable |-> FALSE, reuse |-> {}, known |-> FALSE]

\* The server's plan: a task is reused unless it is forced, did not succeed, or
\* one upstream of it runs again.
Rerun(F) ==
    CHOOSE R \in SUBSET PlanTask :
        /\ F \subseteq R /\ PlanTask \ succeeded \subseteq R
        /\ \A e \in below : e[1] \in R => e[2] \in R
        /\ \A S \in SUBSET R : S # R => ~(/\ F \subseteq S /\ PlanTask \ succeeded \subseteq S
                                          /\ \A e \in below : e[1] \in S => e[2] \in S)
Plan(F) == [of |-> F, resumable |-> failedRun, reuse |-> PlanTask \ Rerun(F), known |-> TRUE]

\* A read is answered when the server gets to it; only the latest effect's is alive,
\* unless it was asked for by a refused submit.
Ask(F, guarded) == [of |-> F, guarded |-> guarded, alive |-> TRUE, reply |-> NoPlan, at |-> "asked"]
Retired == {[r EXCEPT !.alive = r.alive /\ ~r.guarded] : r \in planReads}

PlanInit ==
    /\ failedRun = TRUE /\ succeeded \in SUBSET PlanTask
    /\ below \in {{}, {e \in PlanTask \X PlanTask : e[1] = (CHOOSE t \in PlanTask : TRUE) /\ e[2] # e[1]}}
    /\ forced = {} /\ plan = NoPlan /\ planError = FALSE /\ covered = "loading"
    /\ planReads = {} /\ post = "none" /\ submitError = FALSE /\ opened = FALSE /\ leftPost = "none"
    /\ resumed = 0 /\ clicks = 0 /\ planMishaps = 0

----------------------------------------------------------------------------
\* What the dialog shows: that it works the plan out, why there is none, or the two lists.
Blocked == planError \/ (plan.known /\ ~plan.resumable)
ListsShown == opened /\ covered # "loading" /\ ~Blocked /\ plan.known
Rerunnable(t) == ListsShown /\ t \in plan.reuse
Chosen(t) == ListsShown /\ t \in plan.of \ plan.reuse

Closed == UNCHANGED <<opened, leftPost>>

\* The button is there while the run shown may be resumed; a dialog that opens knows
\* nothing of the one before it.
OpenDialog ==
    /\ ~opened /\ failedRun /\ clicks < MaxClicks /\ clicks' = clicks + 1
    /\ opened' = TRUE /\ forced' = {} /\ plan' = NoPlan /\ planError' = FALSE /\ covered' = "loading"
    /\ planReads' = {Ask({}, TRUE)} /\ post' = "none" /\ submitError' = FALSE
    /\ UNCHANGED <<failedRun, succeeded, below, leftPost, resumed, planMishaps>>

\* Closed by hand, or unmounted with the button when the page learns of the resume.
CloseDialog ==
    /\ opened /\ leftPost = "none"
    /\ opened' = FALSE /\ planReads' = {} /\ leftPost' = post /\ post' = "none"
    /\ UNCHANGED <<failedRun, succeeded, below, forced, plan, planError, covered, submitError, resumed, clicks, planMishaps>>

\* A toggle changes the set; the effect of the old set is cleaned up.
Toggle(F) ==
    /\ clicks < MaxClicks /\ clicks' = clicks + 1
    /\ forced' = F /\ planReads' = Retired \cup {Ask(F, TRUE)} /\ covered' = "reloading"
    /\ Closed /\ UNCHANGED <<failedRun, succeeded, below, plan, planError, post, submitError, resumed, planMishaps>>
ForceTask(t) == Rerunnable(t) /\ Toggle(forced \cup {t})
UnforceTask(t) == Chosen(t) /\ Toggle(forced \ {t})

Resume ==
    /\ post = "none" /\ ListsShown
    /\ clicks < MaxClicks /\ clicks' = clicks + 1
    /\ post' = "asked" /\ submitError' = FALSE
    /\ Closed /\ UNCHANGED <<failedRun, succeeded, below, forced, plan, planError, covered, planReads, resumed, planMishaps>>

----------------------------------------------------------------------------
\* The server and the others.

AnswerPlan(r) ==
    /\ r \in planReads /\ r.at = "asked"
    /\ planReads' = (planReads \ {r}) \cup
         {IF below = {<<"cycle", "cycle">>} THEN [r EXCEPT !.at = "refused"] ELSE [r EXCEPT !.reply = Plan(r.of), !.at = "done"]}
    /\ Closed /\ UNCHANGED <<failedRun, succeeded, below, forced, plan, planError, covered, post, submitError, resumed, clicks, planMishaps>>

\* The update is guarded by the run's status: one of two resumes is taken.
Taken == IF failedRun THEN "done" ELSE "refused"
AnswerResume ==
    /\ \/ post = "asked" /\ post' = Taken /\ UNCHANGED leftPost
       \/ leftPost = "asked" /\ leftPost' = Taken /\ UNCHANGED post
    /\ failedRun' = FALSE /\ resumed' = resumed + (IF failedRun THEN 1 ELSE 0)
    /\ UNCHANGED <<succeeded, below, forced, plan, planError, covered, planReads, opened, submitError, clicks, planMishaps>>

ResumedElsewhere ==
    /\ failedRun /\ failedRun' = FALSE
    /\ Closed /\ UNCHANGED <<succeeded, below, forced, plan, planError, covered, planReads, post, submitError, resumed, clicks, planMishaps>>

\* The workflow is edited until its graph no longer resolves.
EditWorkflow ==
    /\ below # {<<"cycle", "cycle">>} /\ below' = {<<"cycle", "cycle">>}
    /\ Closed /\ UNCHANGED <<failedRun, succeeded, forced, plan, planError, covered, planReads, post, submitError, resumed, clicks, planMishaps>>

Lose ==
    /\ planMishaps < MaxPlanMishaps /\ planMishaps' = planMishaps + 1
    /\ \/ post \in {"asked", "done"} /\ post' = "refused" /\ UNCHANGED <<planReads, leftPost>>
       \/ leftPost \in {"asked", "done"} /\ leftPost' = "refused" /\ UNCHANGED <<planReads, post>>
       \/ \E r \in planReads : /\ r.at # "refused"
                               /\ planReads' = (planReads \ {r}) \cup {[r EXCEPT !.at = "refused"]}
                               /\ UNCHANGED <<post, leftPost>>
    /\ UNCHANGED <<failedRun, succeeded, below, forced, plan, planError, covered, opened, submitError, resumed, clicks>>

----------------------------------------------------------------------------
\* Mutant of LandPlan: a toggle does not retire the read of the set before it.
LandAnyPlan(r) ==
    /\ r \in planReads /\ r.at # "asked" /\ planReads' = planReads \ {r}
    /\ IF r.at = "done" THEN plan' = r.reply /\ planError' = FALSE ELSE planError' = TRUE /\ UNCHANGED plan
    /\ covered' = "no"
    /\ Closed /\ UNCHANGED <<failedRun, succeeded, below, forced, post, submitError, resumed, clicks, planMishaps>>

LandPlan(r) ==
    /\ r \in planReads /\ r.at # "asked" /\ planReads' = planReads \ {r}
    /\ IF ~r.alive THEN UNCHANGED <<plan, planError, covered>>
       ELSE /\ IF r.at = "done" THEN plan' = r.reply /\ planError' = FALSE ELSE planError' = TRUE /\ UNCHANGED plan
            /\ covered' = "no"
    /\ Closed /\ UNCHANGED <<failedRun, succeeded, below, forced, post, submitError, resumed, clicks, planMishaps>>

\* The dialog says why, and reads the plan again, with nothing to retire that read.
Refused ==
    /\ post = "refused" /\ post' = "none" /\ submitError' = TRUE
    /\ covered' = "reloading" /\ planReads' = planReads \cup {Ask(forced, FALSE)}
    /\ Closed /\ UNCHANGED <<failedRun, succeeded, below, forced, plan, planError, resumed, clicks, planMishaps>>

\* A resume taken closes the dialog that is open, even one opened since it was asked
\* for; the refusal of one that is closed is nobody's to hear.
Resumed ==
    /\ "done" \in {post, leftPost}
    /\ opened' = FALSE /\ planReads' = {} /\ post' = "none"
    /\ leftPost' = IF post = "done" THEN leftPost ELSE post
    /\ UNCHANGED <<failedRun, succeeded, below, forced, plan, planError, covered, submitError, resumed, clicks, planMishaps>>
Unheard ==
    /\ leftPost = "refused" /\ leftPost' = "none"
    /\ UNCHANGED <<failedRun, succeeded, below, forced, plan, planError, covered, planReads, post, opened, submitError,
                   resumed, clicks, planMishaps>>

PlanNext ==
    \/ OpenDialog \/ CloseDialog \/ Resumed \/ Unheard
    \/ (\E t \in PlanTask : ForceTask(t) \/ UnforceTask(t)) \/ Resume
    \/ (\E r \in planReads : AnswerPlan(r) \/ LandPlan(r))
    \/ AnswerResume \/ ResumedElsewhere \/ EditWorkflow \/ Lose \/ Refused

PlanStep == \E r \in planReads : AnswerPlan(r) \/ LandPlan(r)
PlanSpec ==
    PlanInit /\ [][PlanNext]_planVars /\ WF_planVars(PlanStep)

----------------------------------------------------------------------------
(****************************************************************************)
(* While no resume has been refused, a plan that is not being recomputed is *)
(* the one of the tasks forced, however fast they are toggled.              *)
(****************************************************************************)
PlanIsOfTheChoice ==
    opened /\ covered = "no" /\ ~Blocked /\ ~submitError /\ post = "none" => plan.of = forced
=============================================================================
