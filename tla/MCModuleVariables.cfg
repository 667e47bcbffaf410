SPECIFICATION Spec
CONSTANT MaxEntries = 2
CONSTANT Names = {x, y}
CONSTANT Parameter = xActual
CONSTANT Modules <- ChainedModules
CHECK_DEADLOCK FALSE
INVARIANT TypeOK
INVARIANT DeclaredNamesDistinct
INVARIANT ReferencesResolve
INVARIANT OneShadowEach
