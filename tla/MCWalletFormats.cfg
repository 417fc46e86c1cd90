SPECIFICATION Spec
CONSTANTS
    Body <- MCBodies
    PublicKey = {2001}
    XOnlyKey = {2501}
    Fingerprint = {3010, 3011, 3020, 3021, 3901}
    Mnemonic = {1, 2}
    SeedPw = {0, 1}
    NoPw = 0
    BodyOf <- MCBody
    FingerprintOf <- MCFingerprint
    Multisigs <- MCMultisigs
    Partner <- MCPartner
    Nothing = Nothing
INVARIANTS
    TypeOK
    ComesBackWhole
    NothingBreaks
    JoinedWalletSigns
    DecodesAsEncoded
    PrefixesTell
CHECK_DEADLOCK FALSE
