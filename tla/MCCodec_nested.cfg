SPECIFICATION Spec
CONSTANTS
    Radix = 32
    Magic <- MCMagic
    Version = 1
    Utf8 <- MCUtf8
    None = None
    Sources <- NestedSources
    Values <- NestedValues
    Damages = {}
    MaxNested = 1
INVARIANT DecodeAnswers
