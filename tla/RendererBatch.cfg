\* The output becomes known in the middle of a window's batch.
CONSTANTS
  t1 = t1
  t2 = t2
  o1 = o1
  o2 = o2
  v1 = v1
  v2 = v2
  Toplevels = {t1}
  Outputs = {o1, o2}
  Videos = {v1}
  States <- FullscreenStates
  PauseOn = {"fullscreen"}
  ZeroSizeFirst = FALSE
  NoOutput = NoOutput
SPECIFICATION Spec
PROPERTIES
  HidesOnlyWhenSettled
\* A renderer that was asked to leaves its loop.
CHECK_DEADLOCK FALSE
