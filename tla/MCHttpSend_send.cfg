SPECIFICATION FairSpec
CONSTANTS
    None = None
    Strs <- MCStrs
    Facts <- MCFacts
    Invalid <- MCFacts
    Empty <- MCEmpty
    PlaceholderOf <- MCPlaceholderOf
    AbsoluteUrls <- MCAbsoluteUrls
    Malformed <- MCMalformed
    HexStrs <- MCHexStrs
    DurationOf <- MCDurationOf
    Requests <- MCRequests
    Bindings <- MCBindings
    HttpRetries = 2
    Counts <- MCCounts
    RequestTimeout = 2
    RetryDelay = 1
    Pauses <- MCPauses
    MaxResponseBytes = 3
    MaxChunk = 2
INVARIANT SendsBounded
INVARIANT StreamSentOnce
INVARIANT BodyCapped
INVARIANT OnlyWholeIsSent
PROPERTY ResponseIsFinal
PROPERTY InstructionEnds
