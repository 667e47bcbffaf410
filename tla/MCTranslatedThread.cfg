SPECIFICATION SmallSpec
CONSTANT Families = {{"stmt", "wait", "if", "while", "break"}, {"stmt", "count", "if", "while"},
                     {"wait", "if", "assign"}, {"wait", "while", "assign"}}
CONSTANT MaxSize = 3
CONSTANT WaitFamilies = {{"wait", "if", "while", "break"}, {"wait", "if", "for", "continue"},
                         {"wait", "if", "do", "break"}, {"count", "while"}}
CONSTANT LargerSize = 4
CONSTANT OperatorFamilies = {{"wait", "if", "assign"}, {"assign", "while", "break"},
                             {"assign", "do", "continue"}}
CONSTANT Counts <- WaitArguments
CONSTANT CFGs <- SmallCFGs
INVARIANT ConfluenceIsJoin
PROPERTY Implements
PROPERTY EveryWaitEnds
PROPERTY SearchesEnd
