CONSTANT Programs <- MCPrograms
SPECIFICATION Spec
INVARIANT StaticsDoNotCollide
CHECK_DEADLOCK FALSE
