SPECIFICATION Spec
CONSTANTS
    Templates <- MCTemplates
    ListNames <- MCListNames
    Comparisons <- MCComparisons
    Texts <- WholeTexts
    MaxU64 = 15
    Second = 2
    SecondsIn <- MCSecondsIn
INVARIANT EveryPlaceholderExpands
INVARIANT ComparesAsWritten
INVARIANT CutIsWhole
