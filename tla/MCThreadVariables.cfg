SPECIFICATION ThreadSpec
CONSTANT MaxItems = 3
CONSTANT NameOf <- SameName
CONSTANT CFGs <- VariableCFGs
CHECK_DEADLOCK FALSE
INVARIANT LocalNamesDistinct
INVARIANT UsesAreDeclared
INVARIANT OneNameInOneState
PROPERTY NamesSpec
