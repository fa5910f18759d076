CONSTANTS
    Calls <- RacingCalls
    MaxFaults = 1
    None = None
    o1 = o1
    o2 = o2
    K1 = K1
    K2 = K2
    S1 = S1
    S2 = S2
SPECIFICATION CreateFairSpec
INVARIANTS CreateTypeOK AnswersAgree ErrorsAreFaults
PROPERTIES ImplementsCreation EveryCallIsAnswered
