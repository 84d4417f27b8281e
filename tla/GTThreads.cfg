CONSTANTS
    MaxThreads = 3
    Windows = {}
SPECIFICATION Spec
INVARIANTS TypeOK OneTurnEach LockQueueSuffices
PROPERTIES GoneStaysGone JoinReturns Implements
