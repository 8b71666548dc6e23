\* The GP pool: frame in cells of eight bytes, five of them for rbx and r12 to r15.
CONSTANTS
  InitialRegs <- GpInitialRegs
  RegSize = 1
  Zeroes = TRUE
  Value <- MCValue
  Zero = 0
  CalleeSavedSpace = 5
  Reservations = {}
  MaxDepth = 5
  MaxFrame = 20
  ArgRegs <- GpArgRegs
  RetReg = "rax"
  CallerSaved <- GpCallerSaved
  StackOrder = FALSE
  CalleeSaved = {"rbx", "r12"}
  Junk = 97
  Op <- MCOp
  Callee <- MCCallee
  Arity = {0, 2, 3, 4}
  Compiled = {TRUE, FALSE}
  Underflows = TRUE
  Var = {"x", "y"}
  SlotSize = 1
  MaxOps = 7
SPECIFICATION CallSpec
INVARIANTS CallTypeOK ParametersReceived Balanced
PROPERTY ImplementsStackMachine
\* The program is over after MaxOps opcodes, and an error ends code generation.
CHECK_DEADLOCK FALSE
