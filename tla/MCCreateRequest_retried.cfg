CONSTANTS
    Calls <- RetriedCalls
    MaxFaults = 0
    None = None
    o1 = o1
    o2 = o2
    K1 = K1
    K2 = K2
    S1 = S1
    S2 = S2
SPECIFICATION CreateSpec
INVARIANT RetryIsReplayed
