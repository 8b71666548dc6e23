\* The SIMD pool, whose registers are the argument registers: every callee, up to
\* three arguments.
CONSTANTS
  InitialRegs <- SimdInitialRegs
  RegSize = 2
  Zeroes = FALSE
  Value <- MCValue
  Zero = 0
  CalleeSavedSpace = 5
  Reservations = {}
  MaxDepth = 7
  MaxFrame = 20
  ArgRegs <- SimdArgRegs
  RetReg = "xmm0"
  CallerSaved <- SimdInitialRegs
  StackOrder = TRUE
  CalleeSaved = {}
  Junk = 97
  Op <- MCOp
  Callee <- MCCallee
  Arity = {0, 1, 2, 3}
  Compiled = {TRUE, FALSE}
  Underflows = FALSE
  Var = {"x"}
  SlotSize = 1
  MaxOps = 7
SPECIFICATION CallSpec
INVARIANT ParametersReceived
\* The program is over after MaxOps opcodes, and an error ends code generation.
CHECK_DEADLOCK FALSE
