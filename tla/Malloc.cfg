CONSTANTS
  Hdr = 2
  Align = 2
  Slack = 1
  Page = 4
  MinRegion = 8
  Word = 64
  ArenaTop = 24
  Requests <- MCRequests
SPECIFICATION Spec
INVARIANTS
  TypeOK
  FreeListSound
  MemoryAccounted
  NeighboursMerged
PROPERTIES
  KeepsItsPromise
CHECK_DEADLOCK FALSE
