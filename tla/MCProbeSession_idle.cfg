SPECIFICATION Spec
CONSTANTS
    Specs <- IdleSpecs
    ReadTimeout = 2
    ConnectTimeout = 1
    BufferSize = 2
    MaxSegment = 3
    MaxUnread = 2
INVARIANT FirstReadWaits
