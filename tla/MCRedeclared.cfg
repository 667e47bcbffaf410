SPECIFICATION ThreadSpec
CONSTANT MaxItems = 0
CONSTANT NameOf <- SameName
CONSTANT CFGs <- DeclaredInLoop
CHECK_DEADLOCK FALSE
INVARIANT OneNamePerVariable
