\* Three artifacts, two members of the change and one outside it; one delivery, two handoffs of
\* two publishers, one change by others.
SPECIFICATION RecordsAndHandoffSpec
CONSTANTS
  spec = spec
  design = design
  origin = origin
  c1 = c1
  c2 = c2
  t1 = t1
  t2 = t2
  p1 = p1
  p2 = p2
  Artifact = {spec, design, origin}
  InScope = {spec, design}
  Content = {c1, c2}
  Graphs <- MCGraphs
  Boundaries <- MCBoundaries
  Task = {t1, t2}
  Command = {p1, p2}
  NoValue = NoValue
  MaxEdits = 1
  MaxWrites = 3
  MaxTamperings = 1
  Delivery = {d1}
  Edited = {e1}
  Handoff = {t1, t2}
  Publisher = {p1, p2}
  Branch = {b1}
  None = None
  Baseline = Baseline
  Foreign = Foreign
  MaxVerifications = 2
  MaxStarts = 2
  MaxChanges = 1
  MaxPulls = 2
SYMMETRY Alike
INVARIANTS
  ValidMeansGroundHolds
  EquivalentMeansUntouched
  PublishedWasVerified
  NoSecondPull
  PublishedIsThePlan
PROPERTIES
  AdmissionIsEarned
  NothingOverwritten
\* Everything may be admitted or published, or the bounds be reached.
CHECK_DEADLOCK FALSE
