SPECIFICATION Spec
CONSTANT Channels = {0, 1}
CONSTANT Descriptions <- Requests
CONSTANT ArrayBytes = 7
CONSTANT MaxSize = 5
CONSTANT Align = 2
CONSTANT LengthBits = 3
INVARIANT TypeOK
INVARIANT DescriptorsTile
INVARIANT WaitMeansDone
PROPERTY RefusedStartsNothing
PROPERTY WaitEnds
CHECK_DEADLOCK FALSE
