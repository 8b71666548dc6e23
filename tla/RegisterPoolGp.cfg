\* register_pool_gp: slots of one unit, pop() of an empty stack zeroes.
CONSTANTS
  InitialRegs <- MCInitialRegs
  RegSize = 1
  Zeroes = TRUE
  Value = {0, 1}
  Zero = 0
  CalleeSavedSpace = 0
  Reservations = {2}
  MaxDepth = 4
  MaxFrame = 4
SPECIFICATION Spec
INVARIANTS TypeOK Ownership NothingLost SpilledBelow SlotsInFrame ThrowsOnlyWhenExhausted
PROPERTY ImplementsValueStack
\* An exception ends code generation.
CHECK_DEADLOCK FALSE
