SPECIFICATION Spec
CONSTANTS
    None = None
    Strs <- MCStrs
    Facts <- MCFacts
    Invalid <- MCInvalid
    Empty <- MCEmpty
    PlaceholderOf <- MCPlaceholderOf
    Ports <- MCPorts
    Programs <- HttpPrograms
    Origins <- OnlyBytes
    ScanVariables <- MCScanVariables
    BaseEndpoint <- MCBaseEndpoint
    Budget = None
    DurationOf <- MCDurationOf
    DefaultRetryDelay = 1
    MaxDepth = 2
INVARIANT HttpOnlyHasNoPortChecks
