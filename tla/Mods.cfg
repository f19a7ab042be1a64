SPECIFICATION Spec
CONSTANTS
  Lineups <- MCLineups
  Subjects <- MCSubjects
  MaxReloads = 1
INVARIANTS TypeOK NullCallsOnlyEarly EveryHookActs LastWins ShimmerSymmetric
CHECK_DEADLOCK FALSE
