SPECIFICATION Spec
CONSTANTS
    Calls = {c1, c2}
    Models = {m1}
    m1 = m1
    Adapters = {"groq", "mistral", "cloudflare_workers_ai", "openrouter_free", "kilo_free", "google_gemini_api", "ollama_local"}
    Changing = {"openrouter_free", "kilo_free"}
    Providers <- MCProviders
    Asks <- MCAsks
    Context = 5
    MaxAge = 3
    TermsMaxAge = 3
    CatalogTTL = 2
    SizeTTL = 2
    Slots = 1
    CatalogFaults = {"ProviderUnavailable", "RateLimited"}
    Stated = {"left", "spent"}
    NoReview = NoReview
    NoTest = NoTest
    Never = Never
    NoError = NoError
    NoModel = NoModel
    NoSize = NoSize
    Start = 2
    MaxClock = 4
SYMMETRY Symmetry
INVARIANT HeldBackWithReason
INVARIANT PriceProvedRecently
INVARIANT SettledAsHappened
PROPERTY SmallestKept
PROPERTY NothingSentAfterExpiry
