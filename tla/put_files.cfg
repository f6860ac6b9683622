SPECIFICATION Spec
CONSTANTS
  fileA = fileA
  fileB = fileB
  pipeC = pipeC
  dirD = dirD
  fileDB = fileDB
  fileE = fileE
  other = other
  none = none
  Items <- MCItems
  Kind <- MCKind
  Name <- MCName
  DirName <- MCDirName
  Children <- MCChildren
  First = {fileB}
  Ignored = {}
  Lists <- MCLists
  LTagged <- MCTagged
  OptionSets <- MCOptions
  Masks <- MCMasks
  RemoteDirs <- MCDirs
  RemoteFiles <- MCFiles
  ServerStou = TRUE
  Ssh = FALSE
  AbortDelete = FALSE
  HupAt = {"prompt", "loop", "send", "done", "next"}
  Other = other
  NoItem = none
  MaxPuts = 2
  MaxDrops = 1
INVARIANTS TypeOK PathMade
PROPERTIES RemoteKept DeleteOnlySent
