SPECIFICATION Spec
CONSTANT Functions <- MCFunctions
INVARIANTS OptTypeOK SameMeaning ReadyToRename DebugTrue
CHECK_DEADLOCK FALSE
