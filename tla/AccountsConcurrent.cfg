SPECIFICATION AccountSpec
CONSTANTS
    u1 = u1
    s1 = s1
    s2 = s2
    f1 = f1
    f2 = f2
    p1 = p1
    p2 = p2
    t1 = t1
    t2 = t2
    None = None
    Users = {u1}
    Sids = {s1, s2}
    Families = {f1, f2}
    Procs = {p1, p2}
    Secrets = {}
    Tokens = {t1, t2}
    Passwords = {"old", "new"}
    MaxFailedLogins = 1
    LockTtl = 1
    RefreshTtl = 2
    TokenTtl = 1
    MaxTime = 0
    Endpoints = {"login", "refresh", "register", "email_resend", "email_verify", "password_forgot", "password_reset"}
    InitialRows <- OutdatedMember
SYMMETRY Symmetry
CHECK_DEADLOCK FALSE
INVARIANT AccountTypeOK
INVARIANT OneLiveToken
INVARIANT AuditTrail
INVARIANT ResetEndsSessions
PROPERTY ImplementsOverlappingUses
PROPERTY PasswordHistory
PROPERTY ImplementsFamilies
