SPECIFICATION Spec
CONSTANTS
    Base = {"song", "short", "tx", "multi", "new"}
    Ext = {}
    None = None
    NoPw = NoPw
    Sha256 <- MCSha256
    Pw = {"p"}
    HiddenPw = {"h", "i"}
    Drawn <- MCDrawn
    Typed <- MCTyped
    Random <- MCRandom
    Keyfile <- MCKeyfile
    Names <- MCNames
    AtFirst <- MCAtFirst
    Removable <- MCRemovable
    Args <- MCArgs
    MaxProcesses = 2
    MaxActions = 2
    MaxTries = 1
INVARIANTS
    TypeOK
    OfflineUnlessGiven
    OutputsAsChosen
    SeedAsTyped
CHECK_DEADLOCK FALSE
