SPECIFICATION FairSpec
CONSTANTS
    p1 = p1  p2 = p2  app1 = app1  app2 = app2  a1 = a1  a2 = a2  a3 = a3
    NoLimit = NoLimit  NoWindow = NoWindow  NoReset = NoReset  NoGrant = NoGrant
    Pools = {p1, p2}
    Applications = {app1}
    Attempts = {a1}
    Limit <- TwoLimits
    Window <- TwoWindows
    Hour = 2  Day = 3  PacificOffset = 1
    ObservedLimits = {0, 1}
    ReportedResets = {2,3}
    MaxLag = 1
    MaxClock = 2
    MaxUsed = 1
INVARIANTS TypeOK
PROPERTIES BlockNeverShortened BlocksEnd
