SPECIFICATION Spec
CONSTANTS
    Radix = 32
    Magic <- MCMagic
    Version = 1
    Utf8 <- MCUtf8
    None = None
    Sources <- MCSources
    Values <- MCValues
    Damages <- MCDamages
    MaxNested = 2
INVARIANT RoundTrip
INVARIANT NoTruncation
INVARIANT VersionFirst
INVARIANT ReadsFit
