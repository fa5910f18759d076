CONSTANTS
    Messages = {m1, m2, bad}
    Refused = {bad}
    MaxLosses = 1
    MaxErrors = 1
SPECIFICATION Spec
INVARIANT SettledByItsOwnOutcome
CHECK_DEADLOCK FALSE
