SPECIFICATION TurnSpec
CONSTANTS
  e1 = e1
  s1 = s1
  s2 = s2
  we = we
  ws = ws
  v1 = v1
  v2 = v2
  w1 = w1
  w2 = w2
  gpu = gpu
  NoResource = NoResource
  NoRun = NoRun
  NoOne = NoOne
  Unread = Unread
  Run = {e1, s1, s2}
  Workflow = {we, ws}
  Service = {v1}
  Worker = {w1}
  Editable = {}
  Backfill = {}
  Scheduled = {}
  Recurring = {e1, s1, s2}
  Cancellable = {}
  Gated = {}
  MayRaise = {}
  MayBuild = {}
  MayPause = {}
  MayCrash = {}
  MayStall = {}
  Concurrency = 2
  ClaimSkipLimit = 2
  MaxResume = 0
  WorkflowOf <- MCWorkflowOf
  InitialSetting <- MCSetting
  SettingChoices <- MCSettingChoices
PROPERTIES
  ExclusiveRunStarts
  WaitingServiceStarts
  SharedRunsPassService
CHECK_DEADLOCK FALSE
