\* Two slots of two model calls; two runs of one project driven by two sessions of one harness;
\* sessions of three parts, texts of at most two lines.
SPECIFICATION SessionsSpec
CONSTANTS
  Bases = {"priced", "no-table", "unbilled"}
  Allowances = {3}
  Policies <- MCPolicies
  Costs = {2}
  MaxRequests = 1
  MaxIncomplete = 1
  MaxSlots = 2
  MaxCalls = 2
  LateLaunch = TRUE
  MaxDamage = 1
  None = None
  r1 = r1
  r2 = r2
  s1 = s1
  s2 = s2
  h1 = h1
  NoOne = NoOne
  Absent = Absent
  Empty = Empty
  Runs = {r1, r2}
  Sessions = {s1, s2}
  Harnesses = {h1}
  HarnessOf <- MCHarnessOf
  RecordsOf <- MCRecordsOf
  OwnerOf <- MCOwnerOf
  MaxSequence <- MCMaxSequence
  MaxEdits = 1
  MaxParts = 3
  MaxLines = 2
  Nothing = Nothing
INVARIANTS
  CompleteMeansAll
  
  
PROPERTIES
  AdmittedWithinBudget
  CheckpointsKept
  ReplayKeepsHistory
\* A run may spend its ceiling, be finished, or reach the bounds.
CHECK_DEADLOCK FALSE
