SPECIFICATION Spec
CONSTANTS
  Palette <- MCPalette
  CallerSaved <- MCCallerSaved
  Functions <- TableFunctions
INVARIANT SamePath
CHECK_DEADLOCK FALSE
