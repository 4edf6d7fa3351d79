SPECIFICATION SystemSpec
CONSTANTS
    u1 = u1
    s1 = s1
    s2 = s2
    s3 = s3
    f1 = f1
    p1 = p1
    p2 = p2
    None = None
    Users = {u1}
    Sids = {s1, s2, s3}
    Families = {f1}
    Procs = {p1, p2}
    Secrets = {}
    Tokens = {}
    Passwords = {"right"}
    MaxFailedLogins = 2
    LockTtl = 1
    RefreshTtl = 2
    MaxTime = 0
    Endpoints = {"login", "refresh"}
    InitialRows <- Members
SYMMETRY Symmetry
CHECK_DEADLOCK FALSE
INVARIANT RevocationIsFinal
