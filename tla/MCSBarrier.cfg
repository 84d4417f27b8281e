CONSTANTS
    numProcesses = 6
    Calls = 2
SPECIFICATION Spec
INVARIANTS TypeOK NothingLeftOver
PROPERTIES Refines EveryCallReturns
