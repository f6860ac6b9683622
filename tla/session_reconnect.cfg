CONSTANTS
    home = home
    pub = pub
    bad = bad
    none = none
    Dirs = {home, pub}
    Home = home
    BadDir = bad
    NoDir = none
    AutoReconnect = TRUE
    ServerMlsd = TRUE
    LocalFails = FALSE
    MaxOps = 3
    MaxDrops = 1
    MaxInts = 0
    MaxJmps = 0
    MaxGone = 1
SPECIFICATION FairSpec
INVARIANTS
    ReplyMatches
    PromptCwd
    OwnChangesSeen
    MkdirOnce
    TransferIntact
    ReceivedWhole
PROPERTIES
    MkdirServed
    CommandEnds
