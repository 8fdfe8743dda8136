CONSTANTS
  old = old
  new = new
  c1 = c1
  c2 = c2
  Compilers = {c1, c2}
  NModules = 2
  Versions <- MCVersions
  Unreadable = Unreadable
  Own = {}
  NoKey = NoKey
  Flags = {O0, O2}
  Quiet = TRUE
  DiskMayFill = FALSE
  Writable = TRUE
SPECIFICATION CacheSpec
INVARIANTS
  CacheTypeOK
  KeyCoversInputs
  NothingHalfWritten
PROPERTY
  CacheTransparent
SYMMETRY MCSymmetry
CHECK_DEADLOCK FALSE
