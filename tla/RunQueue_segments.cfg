SPECIFICATION RestSpec
CONSTANTS
  e1 = e1
  s1 = s1
  s2 = s2
  we = we
  ws = ws
  v1 = v1
  v2 = v2
  w1 = w1
  w2 = w2
  gpu = gpu
  NoResource = NoResource
  NoRun = NoRun
  NoOne = NoOne
  Unread = Unread
  Run = {s1, s2}
  Workflow = {ws}
  Service = {}
  Worker = {w1}
  Editable = {ws}
  Backfill = {}
  Scheduled = {s1}
  Recurring = {}
  Cancellable = {}
  Gated = {ws}
  MayRaise = {s1}
  MayBuild = {ws}
  MayPause = {ws}
  MayCrash = {}
  MayStall = {}
  Concurrency = 2
  ClaimSkipLimit = 2
  MaxResume = 1
  WorkflowOf <- MCWorkflowOf
  InitialSetting <- MCTightSetting
  SettingChoices <- MCSettingChoices
INVARIANTS
  WithinLimits
CHECK_DEADLOCK FALSE
