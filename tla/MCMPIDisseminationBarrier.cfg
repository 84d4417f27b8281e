CONSTANTS
    numProcesses = 5
    num_rounds = 3
    pow2 <- MCPow2
    Calls = 3
SPECIFICATION Spec
INVARIANTS TypeOK NothingLeftOver
PROPERTIES Refines EveryCallReturns
