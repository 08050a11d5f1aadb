SPECIFICATION FairSpec
CONSTANTS
    None = None
    Strs <- MCStrs
    Facts <- TwoFacts
    Invalid <- MissInvalid
    Empty <- MCEmpty
    PlaceholderOf <- MCPlaceholderOf
    Ports <- MCPorts
    Programs <- UntimedPrograms
    Origins <- Both
    ScanVariables <- MCScanVariables
    BaseEndpoint <- MCBaseEndpoint
    Budget = None
    DurationOf <- MCDurationOf
    DefaultRetryDelay = 1
    MaxDepth = 2
INVARIANT NoPanicFromBytes
PROPERTY MissIsFinal
PROPERTY ImplementsCheck
INVARIANT StackIsNesting
PROPERTY LoopsEnd
