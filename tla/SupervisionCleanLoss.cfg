\* Supervisors may be lost except while a launcher has still to reserve or to bind; sweeps succeed.
CONSTANTS
  Caller = {c1, c2}
  Token = {t1, t2, t3}
  NONE = NONE
  Ceiling = 2
  LossPoints = {"before-launcher", "launched"}
  SweepMayFail = FALSE
  SpawnPsMayFail = FALSE
SPECIFICATION Spec
SYMMETRY Symmetry
INVARIANTS
  PreExecutorIsTrue
  OneWorker
  ClassifiedMeansStopped
