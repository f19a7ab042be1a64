SPECIFICATION Spec
CONSTANTS
  Lineups <- OnlyForgottenItem
  Subjects <- MCSubjects
  MaxReloads = 1
INVARIANT ReadmeTools
CHECK_DEADLOCK FALSE
