CONSTANTS
  main = main
  s1 = s1
  s2 = s2
  v1 = v1
  Slots <- MCSlots
  Main = main
  Values = {v1}
  NoValue = NoValue
  MayJoin <- MCMayJoin
  MaxCreates = 3
SPECIFICATION FairSpec
CHECK_DEADLOCK FALSE
PROPERTY JoinReturns
