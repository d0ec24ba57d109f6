SPECIFICATION FairSpec
CONSTANTS
    openrouter = openrouter gemini = gemini cloudflare = cloudflare zai = zai typo = typo
    k1 = k1 k2 = k2 k3 = k3 short = short
    Cloud <- mcCloud
    RuntimeZero = {openrouter}
    NeedsAccount = {cloudflare}
    Ineligible = {zai}
    Zai = zai
    Ollama = ollama
    Secrets = {k1, k2, k3, short}
    Weak = {short}
    WeakAdmin = {short}
    RawIds = {"a", " a", "b", ""}
    Stripped <- mcStripped
    NoKey = NoKey
    NoClient = NoClient
    Unsendable = Unsendable
    NoTables = NoTables
    Viewed <- mcViewed
    MaxTurns = 4
    MaxSessions = 3
    MaxReads = 2
    Deployments <- mcViewed
INVARIANT CountsOnlyWithoutKey
CHECK_DEADLOCK FALSE
