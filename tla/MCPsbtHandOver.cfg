SPECIFICATION FairSpec
CONSTANTS
    pa = pa
    pb = pb
    pc2 = pc2
    pd = pd
    pe = pe
    pf = pf
    a = a
    b = b
    aHidden = aHidden
    bHidden = bHidden
    x = x
    pay = pay
    mixed = mixed
    broken = broken
    None = None
    Default = Default
    Base = {"tx", "mine", "mixed", "broken", "hid"}
    Ext = {}
    Proc = {pa, pb, pc2, pd, pe}
    Cosigner = {a, b, aHidden, bHidden, x}
    Tx = {pay, mixed, broken}
    In = {1, 2}
    Input <- MCInput
    Fee <- MCFee
    Outputs <- MCOutputs
    Drafts <- MCDrafts
    Requests <- MCHandOverRequests
    MaxFaults = 0
PROPERTIES
    AllSign
CHECK_DEADLOCK FALSE
