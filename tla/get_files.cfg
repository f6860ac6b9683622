SPECIFICATION FairSpec
CONSTANTS
  fileA = fileA
  fileB = fileB
  dirD = dirD
  fileDA = fileDA
  linkUp = linkUp
  linkL = linkL
  linkD = linkD
  user = user
  none = none
  Items <- MCItems
  Kind <- MCKind
  Name <- MCName
  DirName <- MCDirName
  Target <- MCTarget
  Children <- MCChildren
  TextPrefix <- MCTextPrefix
  First = {fileB}
  Lists <- MCLists
  Tagged <- MCTagged
  OptionSets <- MCOptions
  Masks <- MCMasks
  UserFiles <- MCUserFiles
  Drops = {"plain"}
  HupAt = {"prompt", "loop", "recv", "done", "unlink", "next"}
  User = user
  NoItem = none
  MaxGets = 1
  MaxDrops = 1
INVARIANTS TypeOK TagsKept
PROPERTIES LocalKept DeleteOnlyReceived GetEnds
