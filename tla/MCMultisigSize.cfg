SPECIFICATION Spec
CONSTANTS
    None = None
    Salt <- MCSalt
    Given <- MCGiven
    Random = {0, 999, 1000, 1001, 1000000001, 2147483647}
    Beyond = {1, 4096}
    Cut <- MCCut
    CiphertextLength <- MCCiphertextLength
    Requests <- MCRequests
INVARIANTS
    AllowedMultisigSeals
CHECK_DEADLOCK FALSE
