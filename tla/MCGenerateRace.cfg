SPECIFICATION FairSpec
CONSTANTS
    p1 = p1
    p2 = p2
    right = right
    s1 = s1
    s2 = s2
    mainnet = mainnet
    pw = pw
    typo = typo
    None = None
    Default = Default
    Proc = {p1, p2}
    Creds = {right}
    Secret = {s1, s2}
    Network = {mainnet}
    SeedPw = {pw, typo}
    Requests <- MCRequests
    Base = {"w"}
    Ext = {"enc"}
    MaxFaults = 2
INVARIANTS
    TypeOK
    PublicInfoBacked
    SuccessMeansOpenable
    NonDuressBehindDecoy
PROPERTIES
    WriteOnce
    ImplementsColdStore
    EveryCommandEnds
CHECK_DEADLOCK FALSE
