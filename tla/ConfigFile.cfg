\* A file that is edited at any moment of the daemon that follows it.
CONSTANTS
  x1 = x1
  x2 = x2
  l1 = l1
  l2 = l2
  Configs <- SomeConfigs
  Default <- DefaultConfig
  Lives = {l1, l2}
  Broken = Broken
  Absent = Absent
  MaxWrites = 5
SPECIFICATION FairSpec
INVARIANTS
  TypeOK
  NoEditLost
  InForce
PROPERTIES
  LoadsSettledOrAgain
  EditsTakeEffect
  ReloadsEnd
\* A program that cannot load its config stops.
CHECK_DEADLOCK FALSE
