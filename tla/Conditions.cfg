\* All conditions of up to three comparisons, and the longer chains.
CONSTANTS
  Condition <- Checked
  Env <- MCEnv
SPECIFICATION CondSpec
INVARIANTS PostfixMeansCondition BranchesRight
PROPERTY Decides
\* A condition is decided once.
CHECK_DEADLOCK FALSE
