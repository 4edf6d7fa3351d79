SPECIFICATION BrowserSpec
CONSTANTS
    f1 = f1
    f2 = f2
    w1 = w1
    w2 = w2
    None = None
    Families = {f1, f2}
    WebTabs = {w1, w2}
    AdminTabs = {}
    MaxFetches = 2
    MaxPending = 2
SYMMETRY Symmetry
CHECK_DEADLOCK FALSE
INVARIANT LogoutEndsCurrent
