SPECIFICATION Spec
CONSTANTS
    s1 = s1
    s2 = s2
    pw = pw
    None = None
    Seed = {s1, s2}
    SeedPw = {pw}
    Files <- MCFiles
    Configurations <- MCConfigurations
    MaxCollected = 3
    MaxRefused = 2
INVARIANTS
    TryingAgainHelps
CHECK_DEADLOCK FALSE
