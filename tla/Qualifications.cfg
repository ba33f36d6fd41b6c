\* One plan, of one or two of five trials, up to three attempts each; sessions of three calls.
SPECIFICATION QualificationsSpec
CONSTANTS
  NoRecord = NoRecord
  Trials <- MCTrials
  CaseOf <- MCCaseOf
  SubjectOf <- MCSubjectOf
  Orders <- MCOrders
  MaxTrialAttempts <- MCMaxTrialAttempts
  MaxLate = 1
  MaxWorldChanges = 1
  MaxCalls = 3
  MaxLost = 1
  Undecided = Undecided
  NoReason = NoReason
INVARIANTS
  
  
  
  PassedMeansContinued
\* A qualification is measured, a session ends.
CHECK_DEADLOCK FALSE
