SPECIFICATION AccountSpec
CONSTANTS
    u1 = u1
    p1 = p1
    p2 = p2
    t1 = t1
    None = None
    Users = {u1}
    Sids = {}
    Families = {}
    Procs = {p1, p2}
    Secrets = {}
    Tokens = {t1}
    Passwords = {"old", "new"}
    MaxFailedLogins = 1
    LockTtl = 1
    RefreshTtl = 2
    TokenTtl = 1
    MaxTime = 0
    Endpoints = {"password_forgot", "password_reset"}
    InitialRows <- OutdatedMember
SYMMETRY Symmetry
CHECK_DEADLOCK FALSE
PROPERTY TokenUsedOnce
