\* Time passes, threads run: replacements resolve, crashes are answered, exits end.
CONSTANTS
  MaxSpawns = 2
  MaxFailures = 2
  UnreadableOutput = FALSE
  s1 = s1
  s2 = s2
  l1 = l1
  l2 = l2
  v1 = v1
  v2 = v2
  Structs = {s1}
  Lives = {l1}
  Videos = {v1}
  Configs <- TimedConfig
  NoPath = NoPath
  Keep = Keep
  None = None
SPECIFICATION FairSpec
PROPERTIES
  PendingResolved
  CrashAnswered
  ExitStops
  NoRendererOutlives
\* The daemon stops, and then its renderers do.
CHECK_DEADLOCK FALSE
