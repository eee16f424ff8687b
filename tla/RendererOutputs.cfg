\* One window and two screens, between which the wallpaper moves.
CONSTANTS
  t1 = t1
  t2 = t2
  o1 = o1
  o2 = o2
  v1 = v1
  v2 = v2
  Toplevels = {t1}
  Outputs = {o1, o2}
  Videos = {v1}
  States <- FullscreenStates
  PauseOn = {"fullscreen"}
  ZeroSizeFirst = FALSE
  NoOutput = NoOutput
SPECIFICATION FairSpec
INVARIANTS
  ScreenOffTracked
  StatusReported
PROPERTIES
  ReadyHeard
\* A renderer that was asked to leaves its loop.
CHECK_DEADLOCK FALSE
