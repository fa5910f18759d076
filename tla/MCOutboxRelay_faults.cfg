CONSTANTS
    Requests = {r1, r2}
    Relays = {k1, k2}
    Nobody = Nobody
    PlatformQueues <- AllPlatformQueues
    BatchSize = 2
    MaxRows = 3
    MaxFaults = 2
SPECIFICATION FairSpec
INVARIANTS TypeOK RepeatsAreFaults PublishedIsKept
PROPERTIES ImplementsDelivery EveryRowIsPublished
