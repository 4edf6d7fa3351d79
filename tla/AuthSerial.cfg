SPECIFICATION AccountSpec
CONSTANTS
    u1 = u1
    s1 = s1
    s2 = s2
    s3 = s3
    f1 = f1
    f2 = f2
    p1 = p1
    k1 = k1
    t1 = t1
    None = None
    Users = {u1}
    Sids = {s1, s2, s3}
    Families = {f1, f2}
    Procs = {p1}
    Secrets = {k1}
    Tokens = {t1}
    Passwords = {"old", "new"}
    MaxFailedLogins = 2
    TokenTtl = 1
    LockTtl = 1
    RefreshTtl = 1
    MaxTime = 1
    Endpoints = {"admin_login", "refresh", "user_revoked", "password_forgot", "password_reset", "totp_setup", "totp_confirm", "totp_disable"}
    InitialRows <- AnyAccount
SYMMETRY Symmetry
CHECK_DEADLOCK FALSE
INVARIANT RevocationIsFinal
INVARIANT LockoutAgrees
INVARIANT MfaNeedsEnrolment
PROPERTY ImplementsChain
PROPERTY MfaSurvivesRotation
PROPERTY ImplementsOneTimeTokens
