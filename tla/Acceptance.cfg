SPECIFICATION Spec
CONSTANTS
  w1 = w1
  r1 = r1
  Attempt = {w1, r1}
  Writer = {w1}
  Superseding = {w1, r1}
  NONE = NONE
  TicksPerSecond = 1
  MaxTick = 3
  MaxTree = 2
  MaxContract = 2
  OneLaunchAtATime = FALSE
  LauncherMayDie = TRUE
  WorkerMayOutlive = FALSE
  ScopeMayFail = FALSE
 
PROPERTY ReviewSawEveryWrite
CHECK_DEADLOCK FALSE
