CONSTANTS
    home = home
    pub = pub
    bad = bad
    none = none
    Dirs = {home, pub}
    Home = home
    BadDir = bad
    NoDir = none
    AutoReconnect = FALSE
    ServerMlsd = FALSE
    LocalFails = FALSE
    MaxOps = 3
    MaxDrops = 1
    MaxInts = 2
    MaxJmps = 0
    MaxGone = 0
SPECIFICATION Spec
INVARIANTS
    PromptInSync
    ListingLabel
