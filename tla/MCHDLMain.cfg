SPECIFICATION Spec
CONSTANT NoModule = NoModule
CONSTANT Designs <- SmallDesigns
CHECK_DEADLOCK FALSE
INVARIANT TypeOK
INVARIANT FunctionsComplete
INVARIANT CallsResolve
INVARIANT FunctionNamesDistinct
INVARIANT InstancesResolve
INVARIANT OneLevelDispatch
PROPERTY TranslationEnds
