\* Three runs over programs with mutual recursion, struct declarations edited too,
\* and one intrusion of a second compiler.
CONSTANTS
  N = 3
  Text <- MCText
  Calls <- MutualCalls
  Signature <- MCSignature
  Layout = {"p", "q"}
  MaxRuns = 3
  MaxRival = 1
SPECIFICATION JitSpec
INVARIANTS JitTypeOK RunsTheProgramIfTrusted ResolvesWithoutMutual Relocatable
PROPERTY Terminates
