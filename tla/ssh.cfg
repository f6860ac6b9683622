SPECIFICATION Spec
CONSTANTS
  home = home
  dir = dir
  otherDir = otherDir
  file = file
  Dirs = {home, dir, otherDir}
  Home = home
  Parent <- MCParent
  Files = {file}
  Contents <- MCContents
  TryScp = TRUE
  MaxLen = 3
INVARIANTS GetWhole PutWhole
PROPERTIES EnterExisting
