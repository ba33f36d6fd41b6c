SPECIFICATION Spec
CONSTANTS
  seed = seed
  c1 = c1
  Content = {seed, c1}
  Seed = seed
  NONE = NONE
  MaxCode = 1
  MaxEdits = 1
  MaxRevision = 2
  MaxReceipts = 2
  Ceiling = 5
  RepairCycles = 1
  CommandsMayDie = TRUE
INVARIANT AuthorityWasEarned
PROPERTIES AdmissionIsFixed AcceptedAsReviewed DeliveredAsReviewed DecisionsAreHonoured
CHECK_DEADLOCK FALSE
