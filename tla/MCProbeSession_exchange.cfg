SPECIFICATION FairSpec
CONSTANTS
    Specs <- MCSpecs
    ReadTimeout = 2
    ConnectTimeout = 1
    BufferSize = 2
    MaxSegment = 3
    MaxUnread = 2
INVARIANT Capped
INVARIANT StreamIsWhole
INVARIANT OnlyProvenIsKept
PROPERTY EveryExchangeEnds
