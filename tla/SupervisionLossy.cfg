\* Supervisors may be lost anywhere, and sweeps may fail.
CONSTANTS
  Caller = {c1, c2}
  Token = {t1, t2}
  NONE = NONE
  Ceiling = 2
  LossPoints = {"before-launcher", "launching", "launched"}
  SweepMayFail = TRUE
  SpawnPsMayFail = FALSE
SPECIFICATION Spec
SYMMETRY Symmetry
INVARIANTS
  TypeOK
  OneSupervisor
  RecoveryAloneActs
 
