SPECIFICATION Spec
CONSTANTS
  e1 = e1
  s1 = s1
  s2 = s2
  we = we
  ws = ws
  v1 = v1
  v2 = v2
  w1 = w1
  w2 = w2
  gpu = gpu
  NoResource = NoResource
  NoRun = NoRun
  NoOne = NoOne
  Unread = Unread
  Run = {s1}
  Workflow = {ws}
  Service = {}
  Worker = {w1}
  Editable = {}
  Backfill = {}
  Scheduled = {}
  Recurring = {}
  Cancellable = {s1}
  Gated = {}
  MayRaise = {}
  MayBuild = {}
  MayPause = {}
  MayCrash = {}
  MayStall = {}
  Concurrency = 2
  ClaimSkipLimit = 2
  MaxResume = 1
  WorkflowOf <- MCWorkflowOf
  InitialSetting <- MCSetting
  SettingChoices <- MCSettingChoices
INVARIANTS
  OneExecutorPerRun
CHECK_DEADLOCK FALSE
