SPECIFICATION Spec
CONSTANTS
    generator = generator
    reencoder = reencoder
    exporter = exporter
    old = old
    new = new
    s = s
    other = other
    mainnet = mainnet
    testnet = testnet
    pw = pw
    None = None
    Default = Default
    Proc = {generator, reencoder, exporter}
    Creds = {old, new}
    Secret = {s, other}
    Network = {mainnet, testnet}
    SeedPw = {pw}
    Requests <- MCRequests
    Base = {"w", "hidden"}
    Ext = {"enc"}
    MaxFaults = 1
INVARIANTS
    SuccessMeansOpenable
PROPERTIES
    WriteOnce
    ImplementsColdStore
CHECK_DEADLOCK FALSE
