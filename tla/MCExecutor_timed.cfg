SPECIFICATION FairSpec
CONSTANTS
    None = None
    Strs <- MCStrs
    Facts <- MCFacts
    Invalid <- MCInvalid
    Empty <- MCEmpty
    PlaceholderOf <- MCPlaceholderOf
    Ports <- MCPorts
    Programs <- TimedPrograms
    Origins <- OnlyBytes
    ScanVariables <- MCScanVariables
    BaseEndpoint <- MCBaseEndpoint
    Budget = 1
    DurationOf <- MCDurationOf
    DefaultRetryDelay = 1
    MaxDepth = 2
INVARIANT TypeOK
INVARIANT LoopBinding
PROPERTY Terminates
INVARIANT PrecheckCoversSend
PROPERTY SessionKeepsTranscript
