CONSTANTS
    home = home
    pub = pub
    bad = bad
    none = none
    Dirs = {home, pub}
    Home = home
    BadDir = bad
    NoDir = none
    AutoReconnect = TRUE
    ServerMlsd = TRUE
    LocalFails = TRUE
    MaxOps = 2
    MaxDrops = 2
    MaxInts = 4
    MaxJmps = 1
    MaxGone = 0
SPECIFICATION Spec
INVARIANTS
    TypeOK
    UrlWhenSending
