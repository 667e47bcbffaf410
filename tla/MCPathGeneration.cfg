SPECIFICATION Spec
CONSTANT AllKinds = {"stmt", "wait", "if", "while", "for", "do", "break", "continue"}
CONSTANT MaxSize = 3
CONSTANT Families = {{"wait", "if", "while"}, {"wait", "if", "do"}, {"wait", "for", "break", "continue"}}
CONSTANT LargerSize = 4
CONSTANT Counts = {}
CONSTANT CFGs <- SmallCFGs
INVARIANT TypeOK
INVARIANT AgreesWithTests
INVARIANT CaseFollowsWait
INVARIANT IndInv
INVARIANT EveryWaitHasAState
INVARIANT PathCoversState
INVARIANT FalseBranchInPlace
INVARIANT GroupsInPath
PROPERTY SearchEnds
