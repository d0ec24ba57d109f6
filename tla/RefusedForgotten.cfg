SPECIFICATION Spec
CONSTANTS
    Calls = {c1, c2}
    Models = {m1}
    m1 = m1
    Adapters = {"cloudflare_workers_ai"}
    Changing = {}
    Providers <- MCProviders
    Asks <- MCAsks
    Context = 5
    MaxAge = 3
    TermsMaxAge = 3
    CatalogTTL = 2
    SizeTTL = 2
    Slots = 8
    CatalogFaults = {"ProviderUnavailable", "RateLimited"}
    Stated = {"left"}
    NoReview = NoReview
    NoTest = NoTest
    Never = Never
    NoError = NoError
    NoModel = NoModel
    NoSize = NoSize
    Start = 2
    MaxClock = 4
SYMMETRY Symmetry
INVARIANT RefusedSizeHeldForAnHour
