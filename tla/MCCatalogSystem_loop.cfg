CONSTANTS
    Messages <- SystemMessages
    Requests = {r1, r2}
    Attempts = {a1}
    Zips = {z1}
    MalformedIds = {}
    None = None
    MaxFaults = 1
    r1 = r1
    r2 = r2
    a1 = a1
    z1 = z1
SPECIFICATION FairSpec
INVARIANTS TypeOK ToldIsStored DeadLettersAreLate
PROPERTIES ImplementsLifecycle ImplementsDelivery EveryRequestEnds
