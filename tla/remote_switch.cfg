SPECIFICATION Spec
CONSTANTS
    None = None
    Calls = {c1}
    Retryable = {}
    Conns = {1}
    Remotes = {r1, r2}
    TokenOf <- RightTokens
    NeedsToken = TRUE
    QueueCapacity = 1
    MaxInFlight = 1
    MaxEvents = 1
INVARIANT CachedFollowsSettings
