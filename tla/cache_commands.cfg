SPECIFICATION Spec
CONSTANTS
  Names = {"home", "x"}
  Letters = {"x"}
  Dirs <- MCDirs
  Conns = {a}
  NoConn = NoConn
  StartDir <- MCHome
  MovesDirs = FALSE
  Fxps = FALSE
  OntoDirs = FALSE
  Jumps = FALSE
  Expires = TRUE
  MaxCopies = 2
INVARIANT NoStaleService
INVARIANT StaleIsMarked
