SPECIFICATION BrowserSpec
CONSTANTS
    f1 = f1
    f2 = f2
    w1 = w1
    a1 = a1
    None = None
    Families = {f1, f2}
    WebTabs = {w1}
    AdminTabs = {a1}
    MaxFetches = 2
    MaxPending = 2
SYMMETRY Symmetry
CHECK_DEADLOCK FALSE
INVARIANT BrowserTypeOK
INVARIANT GuardedPages
INVARIANT BusyWhileSigningIn
PROPERTY SignedOutStays
PROPERTY AppsApart
