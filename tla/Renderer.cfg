\* Two windows on one screen, and every other reason to pause, in every order.
CONSTANTS
  t1 = t1
  t2 = t2
  o1 = o1
  o2 = o2
  v1 = v1
  v2 = v2
  Toplevels = {t1, t2}
  Outputs = {o1}
  Videos = {v1}
  States <- FullscreenStates
  PauseOn = {"fullscreen"}
  ZeroSizeFirst = FALSE
  NoOutput = NoOutput
SYMMETRY Interchangeable
SPECIFICATION Spec
INVARIANTS
  TypeOK
  FrameLoopAlive
  OneFrameLoop
  FirstFrameUp
  HiddenUpToDate
PROPERTIES
  ImplementsFrameLoop
\* A renderer that was asked to leaves its loop.
CHECK_DEADLOCK FALSE
