SPECIFICATION FairSpec
CONSTANTS
    a1 = a1  a2 = a2  a3 = a3  m1 = m1  m2 = m2  Provider = Provider
    NoLimit = NoLimit  NoWindow = NoWindow  NoReset = NoReset  NoProbe = NoProbe
    Hour = 1  Day = 2  PacificOffset = 1  MinuteWindow = 1  ExhaustionRetry = 2
    Attempts = {a1, a2}
    Models = {m1}
    Limit = 2
    Window = "DAILY_UTC"
    Cooldown = 1  CircuitFailures = 2  CircuitWindow = 2  Lease = 1
    Waits = {0}
    ReportedResets = {1}
    MaxClock = 2
    MaxUsed = 2
INVARIANTS TypeOK CircuitConsistent LocalWithinTier
PROPERTIES ProbeSlotReturns OnlyOwnerCloses BenchesNeverShortened DispatchHonoursBench
