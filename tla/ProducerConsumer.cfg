CONSTANT LastItem = 2
SPECIFICATION Spec
INVARIANT LoopEndsWhenDone
