----------------------------------- MODULE MCForms ----------------------------
(* Small instances of the browser's forms and panels, and of the retention   *)
(* pass: `panel` says which one a behaviour is of; the others are unmounted, *)
(* with nothing in flight.                                                   *)
EXTENDS RunNotes, LogSearch, ResumeDialog, Settings, ServiceLog, Retention, ReportPanel

VARIABLE panel

Panel == {"notes", "search", "resume", "settings", "service_log", "retention", "report"}

NotesRest ==
  /\ notesDb = {} /\ created = 0 /\ notes = {} /\ reads = {} /\ drafts = {} /\ editing = 0 /\ loadError = FALSE /\ writes = {}
  /\ events = FALSE /\ typed = 0 /\ settled = {} /\ told = {} /\ noteMishaps = 0
SearchRest == files = <<>> /\ filters = Wide /\ inFlight = NoSearch /\ result = NoResult /\ ran = Wide /\ failed = FALSE
PlanRest == PlanInit /\ succeeded = {} /\ below = {}
SettingsRest == SettingsInit
TailRest == TailInit
RetentionRest == RetentionInit
ReportRest == ReportInit /\ page = "run"

Init ==
  /\ panel \in Panel
  /\ IF panel = "notes" THEN NotesInit ELSE NotesRest
  /\ IF panel = "search" THEN SearchInit ELSE SearchRest
  /\ IF panel = "resume" THEN PlanInit ELSE PlanRest
  /\ IF panel = "settings" THEN SettingsInit ELSE SettingsRest
  /\ IF panel = "service_log" THEN TailInit ELSE TailRest
  /\ IF panel = "retention" THEN RetentionInit ELSE RetentionRest
  /\ IF panel = "report" THEN ReportInit ELSE ReportRest

panelVars == <<panel, noteVars, searchVars, planVars, settingVars, tailVars, retentionVars, reportVars>>

Keep(p, vars) == panel # p => UNCHANGED vars

Next ==
  /\ UNCHANGED panel
  /\ \/ panel = "notes" /\ NotesNext
     \/ panel = "search" /\ SearchNext
     \/ panel = "resume" /\ PlanNext
     \/ panel = "settings" /\ SettingsNext
     \/ panel = "service_log" /\ TailNext
     \/ panel = "retention" /\ RetentionNext
     \/ panel = "report" /\ ReportNext
  /\ Keep("notes", noteVars)
  /\ Keep("search", searchVars)
  /\ Keep("resume", planVars)
  /\ Keep("settings", settingVars)
  /\ Keep("service_log", tailVars)
  /\ Keep("retention", retentionVars)
  /\ Keep("report", reportVars)

Spec == Init /\ [][Next]_panelVars
=============================================================================
