SPECIFICATION Spec
CONSTANTS
  Palette <- MCPalette
  CallerSaved <- MCCallerSaved
  Functions <- MCFunctions
INVARIANTS HomesRight OperandsIntact SamePath CallsKept
PROPERTY LoopsEnd
CHECK_DEADLOCK FALSE
