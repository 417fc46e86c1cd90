SPECIFICATION Spec
CONSTANTS
    n1 = n1
    n2 = n2
    n3 = n3
    n4 = n4
    k1 = k1
    k2 = k2
    s1 = s1
    s2 = s2
    pw = pw
    typo = typo
    None = None
    Nonce = {n1, n2, n3, n4}
    Salt = {k1, k2}
    Seed = {s1, s2}
    Password = "password"
    SeedPw = {pw, typo}
    Base = {"wallet", "a", "b"}
    Ext = {"a", "b"}
    Hash <- MCHash
    Requests <- MCRequests
    MaxFaults = 1
INVARIANTS
    NamesSuffice
CHECK_DEADLOCK FALSE
