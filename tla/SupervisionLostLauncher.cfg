\* A supervisor is lost while its launcher has still to reserve.
CONSTANTS
  Caller = {c1}
  Token = {t1, t2}
  NONE = NONE
  Ceiling = 2
  LossPoints = {"launching"}
  SweepMayFail = FALSE
  SpawnPsMayFail = FALSE
SPECIFICATION Spec
SYMMETRY Symmetry
INVARIANT PreExecutorIsTrue
