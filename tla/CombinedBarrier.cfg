CONSTANTS
    numProcesses = 2
    num_threads = 3
    Calls = 3
SPECIFICATION Spec
INVARIANTS TypeOK SameSense
PROPERTIES Refines EveryCallReturns
