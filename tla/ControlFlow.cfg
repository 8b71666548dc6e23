SPECIFICATION CFSpec
CONSTANTS
  CaseValue <- MCCaseValue
  Program <- MCProgram
  Stray <- MCStray
  Bodies <- MCBodies
  ClosedBodies <- MCClosedBodies
  Locals = {0, 8}
  CodeSize = 3
  Prologue = 11
INVARIANTS CFTypeOK InStep NeverRunsOff FailsOnlyOnStray FrameHolds
PROPERTY Progress
CHECK_DEADLOCK FALSE
