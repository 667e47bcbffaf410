SPECIFICATION Spec
CONSTANT CFGs <- ResetIfWait
INVARIANT EveryStatementEmitted
