SPECIFICATION SystemSpec
CONSTANTS
    u1 = u1
    s1 = s1
    s2 = s2
    s3 = s3
    f1 = f1
    f2 = f2
    p1 = p1
    p2 = p2
    k1 = k1
    None = None
    Users = {u1}
    Sids = {s1, s2, s3}
    Families = {f1, f2}
    Procs = {p1, p2}
    Secrets = {k1}
    Tokens = {}
    Passwords = {"right"}
    MaxFailedLogins = 2
    LockTtl = 1
    RefreshTtl = 2
    MaxTime = 2
    Endpoints = {"admin_login", "refresh", "logout_all", "web_logout"}
    InitialRows <- AdminsAndMembers
SYMMETRY Symmetry
CHECK_DEADLOCK FALSE
INVARIANT TypeOK
INVARIANT FamilyLineage
INVARIANT AuditTrail
PROPERTY ImplementsFamilies
