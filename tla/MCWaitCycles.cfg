SPECIFICATION WaitSpec
CONSTANT CFGs <- SingleWaitN
INVARIANT WaitTakesItsCycles
