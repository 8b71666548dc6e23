\* if a && b || c
CONSTANTS
  Condition <- MixedLogic
  Env <- MCEnv
SPECIFICATION CondSpec
INVARIANT BranchesRight
\* A condition is decided once.
CHECK_DEADLOCK FALSE
