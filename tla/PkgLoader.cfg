CONSTANTS
  p = p
  q = q
  r = r
  Packages = {p, q, r}
  Runtime = r
  Inputs = Inputs
  NoName = NoName
  Programs <- MCPrograms
SPECIFICATION FairSpec
INVARIANTS
  TypeOK
  LoadingSound
  DependenciesFirst
  OutcomeSound
PROPERTY
  LexedTerminates
CHECK_DEADLOCK FALSE
