SPECIFICATION FairSpec
CONSTANTS
  file = file
  dir = dir
  inDir = inDir
  c1 = c1
  c2 = c2
  c3 = c3
  Ftps = {c1, c2, c3}
  Attempts = 2
  AutoReconnect = TRUE
  MaxOpens = 3
  MaxDrops = 1
  MaxInts = 1
  Items = {file, dir, inDir}
  Kind <- MCKind
  Children <- MCChildren
  Lists <- MCLists
  OptionSets <- MCOptions
  ReconnectAt = {"MKD", "TYPE", "REST", "STOR", "RETR", "SITE CHMOD", "DELE"}
  Modes = {"I"}
  Refusable = {"MKD", "PASV", "PORT", "REST", "STOR", "RETR", "SITE CHMOD", "DELE"}
  SourceErrors = FALSE
  NoItem = NoItem
  NoFtp = NoFtp
  MaxFxps = 1
INVARIANTS TypeOK UseIsCurrent ChannelsInStep
PROPERTIES OthersKept DeleteOnlyCopied Returns
