SPECIFICATION Spec
CONSTANTS
  Programs <- Proper
  Functions <- MCFunctions
  Params <- MCParams
  Locals <- MCLocals
  Globals <- MCGlobals
  Sizes <- MCSizes
  Temporaries <- MCTemporaries
  Home <- MCHome
  StackSize = 170
INVARIANTS
  CodeAsWritten
  FrameKept
CHECK_DEADLOCK FALSE
