SPECIFICATION Spec
CONSTANTS
    p1 = p1  p2 = p2  app1 = app1  app2 = app2  a1 = a1  a2 = a2  a3 = a3
    NoLimit = NoLimit  NoWindow = NoWindow  NoReset = NoReset  NoGrant = NoGrant
    Pools = {p1}
    Applications = {app1, app2}
    Attempts = {a1, a2, a3}
    Limit <- LimitTwo
    Window <- OneDailyPool
    Hour = 2  Day = 3  PacificOffset = 1
    ObservedLimits = {2}
    ReportedResets = {2}
    MaxLag = 0
    MaxClock = 4
    MaxUsed = 2
PROPERTIES RefundsInOwnWindow
