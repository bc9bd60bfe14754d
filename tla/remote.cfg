SPECIFICATION Spec
CONSTANTS
    None = None
    Calls = {c1, c2}
    Retryable = {c1}
    Conns = {1, 2}
    Remotes = {"right", "none", "wrong"}
    TokenOf <- AnyTokens
    NeedsToken = TRUE
    QueueCapacity = 1
    MaxInFlight = 1
    MaxEvents = 1
INVARIANT InductiveInvariant
INVARIANT OwnAnswer
INVARIANT PendingIsAwaited
INVARIANT NeverUnauthorized
INVARIANT RetryLeavesLostConnection
PROPERTY ImplementsRequestReply
PROPERTY CallsReturn
PROPERTY StrayConnectionsClose
