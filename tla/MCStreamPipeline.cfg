SPECIFICATION Spec
CONSTANT Networks <- SmallNetworks
CONSTANT MaxStages = 3
CONSTANT MaxBeforeSplit = 2
CONSTANT N = 7
INVARIANT NothingLost
PROPERTY OffersStand
PROPERTY AllArrive
