SPECIFICATION Spec
CONSTANTS
    None = None
    Strs <- MCStrs
    Facts <- MCFacts
    Invalid <- MCInvalid
    Empty <- MCEmpty
    PlaceholderOf <- MCPlaceholderOf
    Ports <- MCPorts
    Programs <- SleepPrograms
    Origins <- OnlyBytes
    ScanVariables <- MCScanVariables
    BaseEndpoint <- MCBaseEndpoint
    Budget = 2
    DurationOf <- MCDurationOf
    DefaultRetryDelay = 1
    MaxDepth = 2
INVARIANT BudgetBoundsRun
