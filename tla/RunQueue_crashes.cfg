SPECIFICATION FairSpec
CONSTANTS
  e1 = e1
  s1 = s1
  s2 = s2
  we = we
  ws = ws
  v1 = v1
  v2 = v2
  w1 = w1
  w2 = w2
  gpu = gpu
  NoResource = NoResource
  NoRun = NoRun
  NoOne = NoOne
  Unread = Unread
  Run = {s1}
  Workflow = {ws}
  Service = {}
  Worker = {w1, w2}
  Editable = {ws}
  Backfill = {}
  Scheduled = {}
  Recurring = {}
  Cancellable = {s1}
  Gated = {ws}
  MayRaise = {s1}
  MayBuild = {ws}
  MayPause = {}
  MayCrash = {w1}
  MayStall = {w1}
  Concurrency = 1
  ClaimSkipLimit = 2
  MaxResume = 1
  WorkflowOf <- MCWorkflowOf
  InitialSetting <- MCSetting
  SettingChoices <- MCSettingChoices
INVARIANTS
  OneExecutorUntilResumed
PROPERTIES
  KeepsLockMidSegment
  CrashedRunsRecover
CHECK_DEADLOCK FALSE
