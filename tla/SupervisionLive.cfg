\* Fair scheduling; supervisors may be lost anywhere.
CONSTANTS
  Caller = {c1}
  Token = {t1, t2}
  NONE = NONE
  Ceiling = 1
  LossPoints = {"before-launcher", "launching", "launched"}
  SweepMayFail = FALSE
  SpawnPsMayFail = FALSE
SPECIFICATION LiveSpec
PROPERTIES
  CallerReturns
  SupervisionEnds
  LockReleased
