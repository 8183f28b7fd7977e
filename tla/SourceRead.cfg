CONSTANTS
    MaxSize = 2
    PrefixSize = 1
    MaxLength = 4
    MaxReplacements = 1
SPECIFICATION Spec
INVARIANTS
    BodyWithinCap
    TooLargeWasTooLarge
    AcceptedFromTree
PROPERTIES
    AcceptedAtEnd
    ReadFinishes
