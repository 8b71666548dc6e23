\* A program with mutual recursion, compiled again.
CONSTANTS
  N = 3
  Text <- MCText
  Calls <- MutualCalls
  Signature <- MCSignature
  Layout = {"p"}
  MaxRuns = 3
  MaxRival = 0
SPECIFICATION JitSpec
INVARIANT Resolves
