SPECIFICATION Spec
CONSTANTS
  Names = {"home", "x"}
  Letters = {"x"}
  Dirs <- MCFewDirs
  Conns = {a, b}
  NoConn = NoConn
  StartDir <- MCHome
  MovesDirs = FALSE
  Fxps = TRUE
  OntoDirs = TRUE
  Jumps = TRUE
  Expires = FALSE
  MaxCopies = 1
INVARIANT StaleIsMarked
INVARIANT TypeOK
SYMMETRY Alike
VIEW NoHistory
