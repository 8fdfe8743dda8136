CONSTANTS
  main = main
  s1 = s1
  s2 = s2
  s3 = s3
  v1 = v1
  Slots <- MCSlots
  Main = main
  Values = {v1}
  NoValue = NoValue
  Entries = 2
  MayCreate <- MCMayCreate
  MayJoin <- MCMayJoin
  MaxCreates = 3
SPECIFICATION FairSpec
INVARIANTS
  TypeOK
  MemoryHeld
  Accounted
  JoinDelivers
PROPERTY
  JoinReturns
CHECK_DEADLOCK FALSE
