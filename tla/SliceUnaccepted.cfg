SPECIFICATION SliceSpec
CONSTANTS
  MaxLaunches = 2
  MaxTampering = 1
  NoPackage = NoPackage
INVARIANT QualifiedWasAccepted
CHECK_DEADLOCK FALSE
