CONSTANTS
    home = home
    pub = pub
    bad = bad
    none = none
    Dirs = {home, pub}
    Home = home
    BadDir = bad
    NoDir = none
    AutoReconnect = TRUE
    ServerMlsd = TRUE
    LocalFails = FALSE
    MaxOps = 2
    MaxDrops = 1
    MaxInts = 1
    MaxJmps = 0
    MaxGone = 0
SPECIFICATION FairSpec
PROPERTIES
    CommandEnds
