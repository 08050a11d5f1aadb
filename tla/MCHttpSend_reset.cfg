SPECIFICATION Spec
CONSTANTS
    None = None
    Strs <- MCStrs
    Facts <- MCFacts
    Invalid <- MCFacts
    Empty <- MCEmpty
    PlaceholderOf <- MCPlaceholderOf
    AbsoluteUrls <- MCAbsoluteUrls
    Malformed <- MCMalformed
    HexStrs <- MCHexStrs
    DurationOf <- MCDurationOf
    Requests <- ResetRequests
    Bindings <- MCBindings
    HttpRetries = 2
    Counts <- MCCounts
    RequestTimeout = 2
    RetryDelay = 1
    Pauses <- MCPauses
    MaxResponseBytes = 3
    MaxChunk = 2
INVARIANT TransientIsRetried
