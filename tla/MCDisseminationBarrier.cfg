CONSTANTS
    num_threads = 5
    total_rounds = 3
    pow2 <- MCPow2
    Calls = 3
SPECIFICATION Spec
INVARIANTS TypeOK
PROPERTIES Refines SignalsAreSeen EveryCallReturns
