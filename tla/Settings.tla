------------------------------ MODULE Settings ------------------------------
(****************************************************************************)
(* The settings page (SettingsPage.tsx, settingsModel.ts): groups of drafts *)
(* over one shared copy of the saved settings, every save answering with    *)
(* all of them; retention, whose save starts a cleanup that deletes runs    *)
(* and so waits for a preview of the same choice; and the status, with the  *)
(* pause switch and the cleanup's progress, that the page polls.            *)
(* 0 retention days is "forever"; a run is its age in days, which stands.   *)
(****************************************************************************)
EXTENDS Naturals, FiniteSets

CONSTANTS
    Event,              \* the alert kinds
    Presets,            \* days offered by the retention picker
    MaxAge,             \* the oldest run, in days
    MaxSaves,           \* saves and picks on the page, saves elsewhere, scheduled cleanups
    MaxSettingMishaps   \* requests lost

ASSUME SettingsAssumption == Presets \subseteq Nat \ {0} /\ MaxAge \in Nat /\ MaxSaves \in Nat

VARIABLES
    savedDb,    \* the server's settings
    history,    \* the finished runs the server still has
    settings,   \* the page's copy of the settings
    daysPicked, \* the retention choice (choice, daysText)
    chosen,     \* the events chosen
    preview,    \* the retention preview on screen
    ticket,     \* the latest preview asked, and whether its timer has run
    previews,   \* preview requests in flight
    saving,     \* the group whose save is out
    requests,   \* saves and loads in flight
    paused, cleanup,    \* the switch; the cleanup: the days it is for (0: none) and how many ended
    shownStatus,        \* the status on screen
    statusReads,        \* polls in flight
    announced,  \* history: runs a preview announced, by the days it was for
    moves, settingMishaps

settingVars == <<savedDb, history, settings, daysPicked, chosen, preview, ticket, previews,
                 saving, requests, paused, cleanup, shownStatus, statusReads, announced, moves, settingMishaps>>

NoCleanup == [days |-> 0, done |-> 0]
NoPreview == [days |-> 0, runs |-> {}, known |-> FALSE]
Older(days) == IF days = 0 THEN {} ELSE {r \in history : r > days}

\* GET /system/status: the switch, and when the last cleanup ended, unless one runs.
SystemStatus == [paused |-> paused, cleaned |-> IF cleanup.days = 0 THEN cleanup.done ELSE 0]

SettingsInit ==
    /\ savedDb = [retention |-> 0, events |-> Event] /\ settings = savedDb
    /\ history = 1 .. MaxAge
    /\ daysPicked = 0 /\ chosen = savedDb.events
    /\ preview = NoPreview /\ ticket = [no |-> 0, due |-> FALSE] /\ previews = {}
    /\ saving = {} /\ requests = {} /\ paused = FALSE /\ cleanup = NoCleanup
    /\ shownStatus = SystemStatus /\ statusReads = {}
    /\ announced = {} /\ moves = 0 /\ settingMishaps = 0

Move == moves < MaxSaves /\ moves' = moves + 1
Page == <<settings, daysPicked, chosen, preview, ticket, saving, announced>>
Status == <<paused, cleanup, shownStatus, statusReads>>

----------------------------------------------------------------------------
\* Retention: a new choice takes a new ticket and drops the preview; after the
\* debounce the preview of the choice is asked for.
Wanted(days) ==
    /\ preview' = NoPreview
    /\ ticket' = [no |-> ticket.no + 1, due |-> days # 0]

PickDays ==
    /\ Move
    /\ \E d \in ({0} \cup Presets) \ {daysPicked} : daysPicked' = d /\ Wanted(d)
    /\ UNCHANGED <<savedDb, history, settings, chosen, previews, saving, requests, announced, settingMishaps>>
    /\ UNCHANGED Status

Debounced ==
    /\ ticket.due /\ ticket' = [ticket EXCEPT !.due = FALSE]
    /\ previews' = previews \cup {[no |-> ticket.no, days |-> daysPicked, runs |-> Older(daysPicked)]}
    /\ UNCHANGED <<savedDb, history, settings, daysPicked, chosen, preview, saving, requests, announced, moves, settingMishaps>>
    /\ UNCHANGED Status

\* An older answer never lands over a newer question.
LandPreview(p) ==
    /\ p \in previews /\ previews' = previews \ {p}
    /\ IF p.no = ticket.no THEN /\ preview' = [days |-> p.days, runs |-> p.runs, known |-> TRUE]
                                /\ announced' = announced \cup ({p.days} \X p.runs)
                           ELSE UNCHANGED <<preview, announced>>
    /\ UNCHANGED <<savedDb, history, settings, daysPicked, chosen, ticket, saving, requests, moves, settingMishaps>>
    /\ UNCHANGED Status

----------------------------------------------------------------------------
\* Mutant of PreviewReady: any preview on screen will do.
PreviewSeen == daysPicked = 0 \/ ticket.no > 0
PreviewReady == daysPicked = 0 \/ (preview.known /\ preview.days = daysPicked)

SaveRetention ==
    /\ Move /\ "retention" \notin saving /\ daysPicked # settings.retention /\ PreviewReady
    /\ saving' = saving \cup {"retention"}
    /\ requests' = requests \cup {[kind |-> "retention", value |-> daysPicked, at |-> "asked", reply |-> settings]}
    /\ UNCHANGED <<savedDb, history, settings, daysPicked, chosen, preview, ticket, previews, announced, settingMishaps>>
    /\ UNCHANGED Status

ToggleKind ==
    /\ Move /\ \E k \in Event : chosen' = IF k \in chosen THEN chosen \ {k} ELSE chosen \cup {k}
    /\ UNCHANGED <<savedDb, history, settings, daysPicked, preview, ticket, previews, saving, requests, announced, settingMishaps>>
    /\ UNCHANGED Status

SaveEvents ==
    /\ Move /\ "events" \notin saving /\ chosen # settings.events
    /\ saving' = saving \cup {"events"}
    /\ requests' = requests \cup {[kind |-> "events", value |-> chosen, at |-> "asked", reply |-> settings]}
    /\ UNCHANGED <<savedDb, history, settings, daysPicked, chosen, preview, ticket, previews, announced, settingMishaps>>
    /\ UNCHANGED Status

----------------------------------------------------------------------------
\* The server.  A retention figure that is saved starts a cleanup at once, unless
\* one is running.

ServeSetting(q) ==
    /\ q \in requests /\ q.at = "asked"
    /\ savedDb' = IF q.kind = "load" THEN savedDb ELSE [savedDb EXCEPT ![q.kind] = q.value]
    /\ cleanup' = IF q.kind = "retention" /\ cleanup.days = 0 THEN [cleanup EXCEPT !.days = q.value] ELSE cleanup
    /\ requests' = (requests \ {q}) \cup {[q EXCEPT !.at = "done", !.reply = savedDb']}
    /\ UNCHANGED <<history, previews, moves, settingMishaps, paused, shownStatus, statusReads>> /\ UNCHANGED Page

\* The scheduler's pass, every six hours.
ScheduledCleanup ==
    /\ Move /\ cleanup.days = 0 /\ savedDb.retention # 0
    /\ cleanup' = [cleanup EXCEPT !.days = savedDb.retention]
    /\ UNCHANGED <<savedDb, history, previews, requests, settingMishaps, paused, shownStatus, statusReads>> /\ UNCHANGED Page

\* cleanup_runs, a batch at a time; a pass may end with runs it could not delete.
DeleteBatch ==
    /\ \E batch \in (SUBSET Older(cleanup.days)) \ {{}} : history' = history \ batch
    /\ UNCHANGED <<savedDb, previews, requests, moves, settingMishaps>> /\ UNCHANGED Page /\ UNCHANGED Status

EndCleanup ==
    /\ cleanup.days # 0 /\ cleanup' = [days |-> 0, done |-> cleanup.done + 1]
    /\ UNCHANGED <<savedDb, history, previews, requests, moves, settingMishaps, paused, shownStatus, statusReads>>
    /\ UNCHANGED Page

SavedElsewhere ==
    /\ Move /\ \E v \in SUBSET Event : savedDb' = [savedDb EXCEPT !.events = v]
    /\ UNCHANGED <<history, previews, requests, settingMishaps>> /\ UNCHANGED Page /\ UNCHANGED Status

LoseSetting(q) ==
    /\ q \in requests /\ q.at # "failed"
    /\ settingMishaps < MaxSettingMishaps /\ settingMishaps' = settingMishaps + 1
    /\ requests' = (requests \ {q}) \cup {[q EXCEPT !.at = "failed"]}
    /\ UNCHANGED <<savedDb, history, previews, moves>> /\ UNCHANGED Page /\ UNCHANGED Status

----------------------------------------------------------------------------
\* A response replaces the settings.  The retention draft follows a saved figure
\* that changed; the events and the quiet hours follow every response, which
\* brings them as new objects.
Drafts(now) ==
    /\ settings' = now /\ chosen' = now.events
    /\ IF now.retention = settings.retention THEN UNCHANGED <<daysPicked, preview, ticket>>
       ELSE /\ daysPicked' = now.retention
            /\ IF now.retention # daysPicked THEN Wanted(now.retention) ELSE UNCHANGED <<preview, ticket>>

LandSettings(q) ==
    /\ q \in requests /\ q.at = "done" /\ requests' = requests \ {q}
    /\ Drafts(q.reply) /\ saving' = saving \ {q.kind}
    /\ UNCHANGED <<savedDb, history, previews, announced, moves, settingMishaps>> /\ UNCHANGED Status

\* A save that failed leaves the draft, with the reason beside it.
SaveFails(q) ==
    /\ q \in requests /\ q.at = "failed" /\ requests' = requests \ {q} /\ saving' = saving \ {q.kind}
    /\ UNCHANGED <<savedDb, history, settings, daysPicked, chosen, preview, ticket, previews, announced, moves, settingMishaps>>
    /\ UNCHANGED Status

----------------------------------------------------------------------------
\* A status on screen; the preview is asked again when a cleanup starts or ends.
ShowStatus(status) ==
    /\ shownStatus' = status
    /\ IF status.cleaned # shownStatus.cleaned THEN Wanted(daysPicked) ELSE UNCHANGED <<preview, ticket>>

\* The switch answers with the status and asks for the settings; polls go on.
Pause ==
    /\ Move /\ paused' = ~shownStatus.paused
    /\ ShowStatus([SystemStatus EXCEPT !.paused = paused'])
    /\ requests' = requests \cup {[kind |-> "load", value |-> {}, at |-> "asked", reply |-> settings]}
    /\ UNCHANGED <<savedDb, history, settings, daysPicked, chosen, previews, saving, announced, settingMishaps, cleanup, statusReads>>

PausedElsewhere ==
    /\ Move /\ paused' = ~paused
    /\ UNCHANGED <<savedDb, history, previews, requests, settingMishaps, cleanup, shownStatus, statusReads>> /\ UNCHANGED Page

PollStatus ==
    /\ statusReads' = statusReads \cup {SystemStatus}
    /\ UNCHANGED <<savedDb, history, previews, requests, moves, settingMishaps, paused, cleanup, shownStatus>> /\ UNCHANGED Page

LandStatus(status) ==
    /\ status \in statusReads /\ statusReads' = statusReads \ {status} /\ ShowStatus(status)
    /\ UNCHANGED <<savedDb, history, settings, daysPicked, chosen, previews, saving, requests, announced, moves,
                   settingMishaps, paused, cleanup>>

SettingsNext ==
    \/ PickDays \/ Debounced \/ SaveRetention \/ ToggleKind \/ SaveEvents \/ SavedElsewhere
    \/ (\E p \in previews : LandPreview(p))
    \/ (\E q \in requests : ServeSetting(q) \/ LoseSetting(q) \/ LandSettings(q) \/ SaveFails(q))
    \/ ScheduledCleanup \/ DeleteBatch \/ EndCleanup
    \/ Pause \/ PausedElsewhere \/ PollStatus \/ (\E p \in statusReads : LandStatus(p))

SettingsSpec == SettingsInit /\ [][SettingsNext]_settingVars

----------------------------------------------------------------------------
(****************************************************************************)
(* A retention that deletes runs is saved only after the page has shown     *)
(* what that very choice deletes: whatever a cleanup deletes was announced  *)
(* for the figure the cleanup is for, under any order of picks, timers,     *)
(* previews, saves, polls and scheduled passes.                             *)
(****************************************************************************)
DeletionAnnounced ==
    [][\A r \in history \ history' : <<cleanup.days, r>> \in announced]_settingVars
=============================================================================
