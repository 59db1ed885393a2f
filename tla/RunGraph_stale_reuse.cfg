SPECIFICATION Spec
CONSTANTS
  build = build
  review = review
  deploy = deploy
  Task = {build, deploy}
  Gated = {}
  Forcible = {build}
  Parallelism = 1
  MaxResume = 2
  OneWriter = TRUE
  Survives = {FALSE}
  Deps <- MCDeps
  Attempts <- MCAttempts
INVARIANTS
  SuccessIsCurrent
CHECK_DEADLOCK FALSE
