\* Requests and reloads that change the video, the pause and what needs a
\* restart, between and during handovers.
CONSTANTS
  MaxSpawns = 2
  MaxFailures = 2
  UnreadableOutput = FALSE
  s1 = s1
  s2 = s2
  l1 = l1
  l2 = l2
  v1 = v1
  v2 = v2
  Structs = {s1, s2}
  Lives = {l1}
  Videos = {v1, v2}
  Configs <- SomeConfigs
  NoPath = NoPath
  Keep = Keep
  None = None
SPECIFICATION Spec
INVARIANTS
  PauseAndVideoInSync
  LeavesNoneBehind
  ExitNoticed
PROPERTIES
  LostOnlyIfDead
\* The daemon stops, and then its renderers do.
CHECK_DEADLOCK FALSE
