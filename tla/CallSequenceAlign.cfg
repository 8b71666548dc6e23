\* The GP pool, for the position of rsp at a call.
CONSTANTS
  InitialRegs <- GpInitialRegs
  RegSize = 1
  Zeroes = TRUE
  Value <- MCValue
  Zero = 0
  CalleeSavedSpace = 5
  Reservations = {}
  MaxDepth = 5
  MaxFrame = 20
  ArgRegs <- GpArgRegs
  RetReg = "rax"
  CallerSaved <- GpCallerSaved
  StackOrder = FALSE
  CalleeSaved = {"rbx", "r12"}
  Junk = 97
  Op <- MCOp
  Callee <- MCCallee
  Arity = {0, 2}
  Compiled = {TRUE, FALSE}
  Underflows = TRUE
  Var = {"x"}
  SlotSize = 1
  MaxOps = 4
SPECIFICATION CallSpec
INVARIANT AlignedCalls
\* The program is over after MaxOps opcodes, and an error ends code generation.
CHECK_DEADLOCK FALSE
