\* Two slots of two attempts, a ceiling of one reserve, three runs of the driver and one change of
\* the host; a slice of two launches, one change to its package; two results of two cases, two
\* trials each.
SPECIFICATION EvaluationRunsSpec
CONSTANTS
  Slots = 2
  MaxAttempts = 2
  Budget = 1
  Reserve = 1
  Faults <- MCFaults
  MaxRuns = 3
  MaxChanges = 1
  None = None
  MaxLaunches = 2
  MaxTampering = 1
  NoPackage = NoPackage
  c1 = c1
  c2 = c2
  CaseIdentities = {c1, c2}
  MaxTrials = 2
  MaxDeviations = 1
  Unknown = Unknown
  Mixed = Mixed
SYMMETRY AlikeCases
INVARIANTS
  OneTrajectoryPerSlot
  
  QualifiedWasDelivered
  AttributedIsTrue
  AttributableIsTrue
PROPERTY
  CleanupLosesNothingSilently
\* A series completes or stops, a slice is packaged and deleted, a result has its trials.
CHECK_DEADLOCK FALSE
