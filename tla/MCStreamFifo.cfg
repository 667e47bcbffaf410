SPECIFICATION Spec
CONSTANT Data = {a, b}
CONSTANT Default = a
CONSTANT MAX_DEPTH = 4
CONSTANT depth = 3
INVARIANT TypeOK
INVARIANT FlagsTellApart
PROPERTY ImplementsQueue
