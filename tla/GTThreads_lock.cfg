CONSTANTS
    MaxThreads = 3
    Windows = {"set", "take"}
SPECIFICATION Spec
INVARIANT MutualExclusion
