CONSTANTS
    num_threads = 4
    Calls = 3
    Nobody = Nobody
SPECIFICATION Spec
INVARIANTS TypeOK CountIsExact
PROPERTIES Refines EveryCallReturns
