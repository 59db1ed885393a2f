----------------------------- MODULE ReportPanel -----------------------------
(****************************************************************************)
(* The notebooks of a run (ReportPanel.tsx), on the run page and on a page  *)
(* of their own: a row per notebook task, its attempts, and one viewer,     *)
(* which probes the address of a report before it points a frame at it.     *)
(* The address is the server's to resolve, when it is asked, while the run  *)
(* goes on: the shortest ones mean the last attempt there is by then.       *)
(* The link to a workflow's latest report shares the viewer: it names the   *)
(* run it found in a banner, and frames the latest there is by then.        *)
(* Heights, sizes and the cells of a notebook that executes are left out,   *)
(* and so is retention.                                                     *)
(****************************************************************************)
EXTENDS Naturals, FiniteSets

CONSTANTS
    Notebook,       \* the notebook tasks, in the order of their ids
    MaxTries,       \* attempts of one, resumes included
    MaxFlowRuns,    \* runs of the workflow a latest link is of
    MaxViews,       \* clicks of the reader
    MaxReportMishaps

ASSUME ReportAssumption == Notebook \subseteq Nat \ {0} /\ {MaxTries, MaxFlowRuns} \subseteq Nat /\ MaxViews \in Nat /\ MaxReportMishaps \in Nat

VARIABLES
    ranDb,      \* attempts finished, each with its notebook
    liveDb,     \* notebooks that execute
    overDb,     \* the run is over
    flowRuns,   \* the workflow's runs, by id
    page,       \* "run", "report" (it opens one at once, and reads once) or "latest"
    banner,     \* what the latest page says of the run it found
    seenRun,       \* the run as the run page read it last
    outputs,    \* the list of reports, or NoOutputs
    outputsLost,    \* it could not be read
    asking,     \* the read of the list, and the attempts its reply lists
    openKey,    \* the row opened, <<0>> once hidden, <<>> until then
    pickedTry,     \* the attempt picked in each row, or 0
    viewer,     \* the ReportShell
    viewClicks, reportMishaps

reportVars == <<ranDb, liveDb, overDb, flowRuns, page, banner, seenRun, outputs, outputsLost, asking, openKey, pickedTry, viewer, viewClicks, reportMishaps>>
reportDb == <<ranDb, liveDb, overDb, flowRuns>>

NoAttempts == [t \in Notebook |-> 0]
NoOutputs == [t \in Notebook |-> MaxTries + 1]
FirstOf(S) == CHOOSE t \in S : \A u \in S : t <= u
With(ran) == {t \in Notebook : ran[t] > 0}
\* `since`, history: the runs that ended while the server put the answer together.
NoBanner == [run |-> 0, newer |-> 0, failed |-> {}, since |-> {}]
NoRead == [at |-> "none", ran |-> NoAttempts, latest |-> NoBanner]
Asked == [NoRead EXCEPT !.at = "asked"]

----------------------------------------------------------------------------
\* The addresses and what the server takes them for.
Bare == [kind |-> "bare", task |-> 0, attempt |-> 0]
ByTask(t) == [kind |-> "task", task |-> t, attempt |-> 0]
ByAttempt(t, a) == [kind |-> "attempt", task |-> t, attempt |-> a]

LatestUrl == [kind |-> "latest", task |-> 0, attempt |-> 0]

\* The newest run that ended so; 0 when none did.
NewestWith(ends) ==
    LET those == {r \in DOMAIN flowRuns : flowRuns[r] \in ends}
    IN CHOOSE n \in those \cup {0} : \A r \in those : r <= n

PickNotebook(url) ==
    CASE url.kind = "latest" -> <<NewestWith({"notebook"}), 0>>
      [] url.kind = "bare" -> LET t == FirstOf(With(ranDb)) IN <<t, ranDb[t]>>
      [] url.kind = "task" -> <<url.task, ranDb[url.task]>>
      [] url.kind = "attempt" -> <<url.task, url.attempt>>

ReportUrl(out, t, a) == IF a = out[t] THEN ByTask(t) ELSE ByAttempt(t, a)

\* Mutant of Src: the bare permalink whenever the attempt is the last one.
SrcBare(out, entry) == IF entry[2] = out[entry[1]] THEN Bare ELSE ReportUrl(out, entry[1], entry[2])

\* The permalink when there is one notebook and one attempt.
Src(out, entry) ==
    IF With(out) = {entry[1]} /\ out[entry[1]] = 1 THEN Bare ELSE ReportUrl(out, entry[1], entry[2])

----------------------------------------------------------------------------
\* The rows, and the viewer under the one that is open.
NoViewer == [entry |-> <<0, 0>>, url |-> Bare, probe |-> "none", stray |-> "none", phase |-> "rendering",
             frame |-> <<0, 0>>, busy |-> FALSE]
Mounted(entry, url) == [NoViewer EXCEPT !.entry = entry, !.url = url, !.probe = "asked"]

\* An aborted probe the server had answered still says so.
Probing(v, url) ==
    [v EXCEPT !.url = url, !.probe = "asked", !.phase = "rendering", !.frame = <<0, 0>>,
              !.stray = IF v.probe \in {"ok", "failed"} THEN v.probe ELSE v.stray]

Entry(out, pick, t) == <<t, IF pick[t] \in 1 .. out[t] THEN pick[t] ELSE out[t]>>
\* The report page opens the first; the run page none.
Preferred(out) == IF page = "report" THEN FirstOf(With(out)) ELSE 0
EffectiveOpen(out, key) == IF key # <<>> THEN key[1] ELSE Preferred(out)

\* React keeps the viewer for as long as its row is open at the same attempt.
Viewer(out, fault, key, pick) ==
    IF fault \/ out = NoOutputs \/ With(out) = {} \/ EffectiveOpen(out, key) \notin With(out) THEN NoViewer
    ELSE LET entry == Entry(out, pick, EffectiveOpen(out, key))
         IN CASE viewer.entry # entry -> Mounted(entry, Src(out, entry))
              [] viewer.entry = entry /\ viewer.url # Src(out, entry) -> Probing(viewer, Src(out, entry))
              [] OTHER -> viewer

RunNow == [ran |-> ranDb, live |-> liveDb, over |-> overDb]

ReportInit ==
    /\ ranDb = NoAttempts /\ liveDb = {} /\ overDb = FALSE
    /\ page \in {"run", "report", "latest"} /\ banner = NoBanner
    /\ flowRuns = [r \in 1 .. MaxFlowRuns |-> "live"] /\ seenRun = RunNow
    /\ outputs = NoOutputs /\ outputsLost = FALSE /\ asking = Asked /\ openKey = <<>> /\ pickedTry = NoAttempts
    /\ viewer = NoViewer /\ viewClicks = 0 /\ reportMishaps = 0

----------------------------------------------------------------------------
\* The run: an attempt that finishes is recorded with its notebook.
RunGoesOn ==
    /\ page # "latest"
    /\ \/ \E t \in Notebook \ liveDb : ~overDb /\ ranDb[t] < MaxTries /\ liveDb' = liveDb \cup {t} /\ UNCHANGED <<ranDb, overDb>>
       \/ \E t \in liveDb : liveDb' = liveDb \ {t} /\ ranDb' = [ranDb EXCEPT ![t] = @ + 1] /\ UNCHANGED overDb
       \/ liveDb = {} /\ overDb' = ~overDb /\ UNCHANGED <<ranDb, liveDb>>
    /\ UNCHANGED <<flowRuns, page, banner, seenRun, outputs, outputsLost, asking, openKey, pickedTry, viewer, viewClicks, reportMishaps>>

\* The run page reads the run again.  Another status mounts the panel afresh; other
\* notebook rows read the list again, and abort the read before.
SeeRun ==
    /\ page = "run" /\ seenRun # RunNow /\ seenRun' = RunNow
    /\ asking' = Asked /\ outputsLost' = FALSE
    /\ IF seenRun'.over # seenRun.over
         THEN outputs' = NoOutputs /\ openKey' = <<>> /\ pickedTry' = NoAttempts /\ viewer' = NoViewer
         ELSE UNCHANGED <<outputs, openKey, pickedTry>> /\ viewer' = Viewer(outputs, FALSE, openKey, pickedTry)
    /\ UNCHANGED <<reportDb, page, banner, viewClicks, reportMishaps>>

AnswerOutputs ==
    /\ page # "latest" /\ asking.at = "asked" /\ asking' = [Asked EXCEPT !.at = "answered", !.ran = ranDb]
    /\ UNCHANGED <<reportDb, page, banner, seenRun, outputs, outputsLost, openKey, pickedTry, viewer, viewClicks, reportMishaps>>

LandOutputs ==
    /\ page # "latest" /\ asking.at = "answered" /\ asking' = NoRead
    /\ outputs' = asking.ran /\ viewer' = Viewer(outputs', outputsLost, openKey, pickedTry)
    /\ UNCHANGED <<reportDb, page, banner, seenRun, outputsLost, openKey, pickedTry, viewClicks, reportMishaps>>

LoseOutputs ==
    /\ asking # NoRead /\ asking' = NoRead
    /\ reportMishaps < MaxReportMishaps /\ reportMishaps' = reportMishaps + 1
    /\ outputsLost' = TRUE /\ viewer' = NoViewer
    /\ UNCHANGED <<reportDb, page, banner, seenRun, outputs, openKey, pickedTry, viewClicks>>

----------------------------------------------------------------------------
\* The latest report of a workflow, whose runs end in any order; a failed one may
\* be resumed.
FlowRunMoves ==
    /\ page = "latest"
    /\ \E r \in DOMAIN flowRuns :
        /\ \/ flowRuns[r] = "live" /\ \E end \in {"notebook", "plain", "failed"} : flowRuns' = [flowRuns EXCEPT ![r] = end]
           \/ flowRuns[r] = "failed" /\ flowRuns' = [flowRuns EXCEPT ![r] = "live"]
        /\ asking' = IF asking.at \in {"picked", "counted"} THEN [asking EXCEPT !.latest.since = @ \cup {r}] ELSE asking
    /\ UNCHANGED <<ranDb, liveDb, overDb, page, banner, seenRun, outputs, outputsLost, openKey, pickedTry, viewer, viewClicks, reportMishaps>>

\* latest_report_meta, a SELECT at a time: the newest success that has a notebook, how
\* many runs failed since it, and the newest success if that is another.
LatestReportMeta(from, to, latest) ==
    /\ page = "latest" /\ asking.at = from
    /\ asking' = [asking EXCEPT !.at = to, !.latest = latest]
    /\ UNCHANGED <<reportDb, page, banner, seenRun, outputs, outputsLost, openKey, pickedTry, viewer, viewClicks, reportMishaps>>

PickRun ==
    LET run == NewestWith({"notebook"})
    IN  LatestReportMeta("asked", IF run = 0 THEN "answered" ELSE "picked", [NoBanner EXCEPT !.run = run])

CountFailures ==
    LatestReportMeta("picked", "counted",
        [asking.latest EXCEPT !.failed = {r \in DOMAIN flowRuns : r > asking.latest.run /\ flowRuns[r] = "failed"}])

NameNewer ==
    LET newest == NewestWith({"notebook", "plain"})
    IN  LatestReportMeta("counted", "answered",
            [asking.latest EXCEPT !.newer = IF newest > asking.latest.run THEN newest ELSE 0])

\* Without such a run the page says so.
LandLatest ==
    /\ page = "latest" /\ asking.at = "answered" /\ asking' = NoRead
    /\ IF asking.latest.run = 0
         THEN outputsLost' = TRUE /\ UNCHANGED <<banner, viewer>>
         ELSE /\ banner' = asking.latest /\ viewer' = Mounted(<<banner'.run, 0>>, LatestUrl)
              /\ UNCHANGED outputsLost
    /\ UNCHANGED <<reportDb, page, seenRun, outputs, openKey, pickedTry, viewClicks, reportMishaps>>

----------------------------------------------------------------------------
\* What the reader does.
ReportRows == IF outputsLost \/ outputs = NoOutputs THEN {} ELSE With(outputs)
ReaderClicks == viewClicks < MaxViews /\ viewClicks' = viewClicks + 1

ViewReport(t) ==
    /\ t \in ReportRows /\ ReaderClicks
    /\ openKey' = IF EffectiveOpen(outputs, openKey) = t THEN <<0>> ELSE <<t>>
    /\ viewer' = Viewer(outputs, outputsLost, openKey', pickedTry)
    /\ UNCHANGED <<reportDb, page, banner, seenRun, outputs, outputsLost, asking, pickedTry, reportMishaps>>

PickAttempt(t, a) ==
    /\ t \in ReportRows /\ outputs[t] > 1 /\ a \in 1 .. outputs[t] /\ ReaderClicks
    /\ pickedTry' = [pickedTry EXCEPT ![t] = a] /\ openKey' = <<t>>
    /\ viewer' = Viewer(outputs, outputsLost, openKey', pickedTry')
    /\ UNCHANGED <<reportDb, page, banner, seenRun, outputs, outputsLost, asking, reportMishaps>>

Rerender ==
    /\ viewer # NoViewer /\ ~viewer.busy /\ ReaderClicks
    /\ viewer' = [viewer EXCEPT !.busy = TRUE]
    /\ UNCHANGED <<reportDb, page, banner, seenRun, outputs, outputsLost, asking, openKey, pickedTry, reportMishaps>>

----------------------------------------------------------------------------
\* The viewer.
Shows(v) ==
    /\ viewer' = v
    /\ UNCHANGED <<reportDb, page, banner, seenRun, outputs, outputsLost, asking, openKey, pickedTry, viewClicks, reportMishaps>>

\* Done or refused, the probe runs again.
Rerendered == viewer.busy /\ Shows([Probing(viewer, viewer.url) EXCEPT !.busy = FALSE])

\* The notebook is rendered on its first view, which may fail, as may the request.
AnswerProbe ==
    /\ viewer.probe = "asked"
    /\ \E reply \in {"ok", "failed"} : Shows([viewer EXCEPT !.probe = reply])

Said(reply) == IF reply = "ok" THEN "ready" ELSE "failed"
LandProbe ==
    /\ viewer.probe \in {"ok", "failed"}
    /\ Shows([viewer EXCEPT !.probe = "none", !.phase = Said(viewer.probe), !.frame = <<0, 0>>])
LandStray ==
    /\ viewer.stray # "none"
    /\ Shows([viewer EXCEPT !.stray = "none", !.phase = Said(viewer.stray), !.frame = <<0, 0>>])

LoadFrame ==
    /\ viewer.phase = "ready" /\ viewer.frame = <<0, 0>>
    /\ Shows([viewer EXCEPT !.frame = PickNotebook(viewer.url)])

ReportNext ==
    \/ FlowRunMoves \/ PickRun \/ CountFailures \/ NameNewer \/ LandLatest
    \/ RunGoesOn \/ SeeRun \/ AnswerOutputs \/ LandOutputs \/ LoseOutputs
    \/ (\E t \in Notebook : ViewReport(t) \/ \E a \in 1 .. MaxTries : PickAttempt(t, a))
    \/ Rerender \/ Rerendered \/ AnswerProbe \/ LandProbe \/ LandStray \/ LoadFrame

ReportSpec == ReportInit /\ [][ReportNext]_reportVars

----------------------------------------------------------------------------
(****************************************************************************)
(* A notebook attempt that finishes mid-run appears, and the report under   *)
(* a row is that row's (ReportPanel.tsx; reports.py, "resolves to exactly   *)
(* it"): with no read out and none lost, every attempt the run page shows   *)
(* as finished is listed; and once the list is the server's, the frame does *)
(* not go on showing another attempt, or another task, than the one named   *)
(* above it, whenever it was loaded and probed.  The latest page, "safe to  *)
(* pin in a wiki", frames the run it names or one that succeeded since,     *)
(* never an older one, and the newer run it says has no notebook has none,  *)
(* unless that ended while the server was putting its answer together.      *)
(****************************************************************************)
ReportIsTheRows ==
    /\ page = "run" /\ asking = NoRead /\ ~outputsLost => \A t \in Notebook : seenRun.ran[t] <= outputs[t]
    /\ page # "latest" /\ viewer.frame # <<0, 0>> /\ outputs = ranDb => viewer.frame = viewer.entry
    /\ page = "latest" /\ viewer.frame # <<0, 0>> => viewer.frame[1] >= banner.run
    /\ banner.newer # 0 => flowRuns[banner.newer] = "plain" \/ banner.newer \in banner.since
=============================================================================
