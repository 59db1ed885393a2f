SPECIFICATION FairSpec
CONSTANTS
  build = build
  review = review
  deploy = deploy
  Task = {build, review, deploy}
  Gated = {review, deploy}
  Forcible = {build}
  Parallelism = 2
  MaxResume = 1
  OneWriter = TRUE
  Survives = {FALSE}
  Deps <- MCDeps
  Attempts <- MCAttempts
INVARIANTS
  ParkedIsDecidable
  ApprovedBeforeExecuted
  SurfacesAgree
  CurrentUnlessCut
PROPERTIES
  RunSettles
CHECK_DEADLOCK FALSE
