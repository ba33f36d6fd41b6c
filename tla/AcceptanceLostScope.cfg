SPECIFICATION Spec
CONSTANTS
  w1 = w1
  r1 = r1
  Attempt = {w1, r1}
  Writer = {w1}
  Superseding = {}
  NONE = NONE
  TicksPerSecond = 1
  MaxTick = 3
  MaxTree = 2
  MaxContract = 1
  OneLaunchAtATime = TRUE
  LauncherMayDie = FALSE
  WorkerMayOutlive = FALSE
  ScopeMayFail = TRUE
PROPERTY ReviewSawEveryWrite
CHECK_DEADLOCK FALSE
