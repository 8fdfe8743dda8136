CONSTANTS
  f1 = f1
  f2 = f2
  Stdout = Stdout
  Stderr = Stderr
  Files <- MCFiles
  Paths <- MCPaths
  OutPath = "out"
  ErrPath = "err"
  Initial <- MCInitial
  Bytes = {"a", "b", "n", "0"}
  Newline = "n"
  Zero = "0"
  MayOpen <- MCMayOpen
  MayPut <- MCMayPut
  BufCap = 2
  UngetCap = 1
  TrackCap = 1
  MaxFd = 3
  MaxErrors = 1
  MayRead = {f1}
  MayClose <- MCMayClose
  Offsets = {0, 1}
  MaxRead = 2
  MaxLen <- MCMaxLen
SPECIFICATION Spec
VIEW NoResult
INVARIANTS
  TypeOK
  StreamsApart
PROPERTY
  ActsLikeFiles
CHECK_DEADLOCK FALSE
